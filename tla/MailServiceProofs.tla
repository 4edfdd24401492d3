-------------------------- MODULE MailServiceProofs --------------------------
(***************************************************************************)
(* Proofs about the request handler: whatever is sent to it, it uses the   *)
(* store only through the store's own operations, so that everything       *)
(* proved of the store holds behind the service; what it holds is within   *)
(* the limits; and only those an owner trusts move the owner's mail.       *)
(***************************************************************************)
EXTENDS MailService, MailboxStoreProofs

(* The fields of each kind of request that handle passes on to the store   *)
(* have the types its operations expect.                                   *)
LEMMA RequestFields ==
  ASSUME NEW req \in Request
  PROVE  /\ req.type = "Deliver" => req.message \in MessageId /\ req.verifies \in BOOLEAN
         /\ req.type = "Ack" => req.recipient \in Address /\ req.cursor \in 0..MaxCursor
         /\ req.type = "PutReceipt" => /\ req.for_sender \in Address
                                       /\ req.receipt \in Receipt
                                       /\ req.verifies \in BOOLEAN
         /\ req.type = "CollectReceipts" => req.sender \in Address
  BY DEF Request

(* Whatever handle does for a request is an operation of the store or      *)
(* nothing.                                                                *)
LEMMA EffectIsStoreStep ==
  ASSUME NEW node, NEW req \in Request, Effect(node, req)
  PROVE  [StoreNext]_storeVars
<1>1. CASE req.type = "Deliver" /\ Accept(req.message, req.verifies)
  BY <1>1, RequestFields DEF StoreNext
<1>2. CASE req.type = "Ack" /\ Ack(req.recipient, req.cursor)
  BY <1>2, RequestFields DEF StoreNext
<1>3. CASE /\ req.type = "PutReceipt"
           /\ PutReceipt(req.for_sender, req.receipt, req.verifies)
  BY <1>3, RequestFields DEF StoreNext
<1>4. CASE req.type = "CollectReceipts" /\ CollectReceipts(req.sender)
  BY <1>4, RequestFields DEF StoreNext
<1>5. CASE UNCHANGED storeVars
  BY <1>5
<1> QED
  BY <1>1, <1>2, <1>3, <1>4, <1>5 DEF Effect

(* The service implements the store of mailbox.rs for every set of         *)
(* clients, grants, revocations and instants.                              *)
THEOREM ServiceImplementsStore == ServiceSpec => StoreSpec
<1>1. ServiceInit => StoreInit
  BY DEF ServiceInit
<1>2. [ServiceNext]_serviceVars => [StoreNext]_storeVars
  <2> SUFFICES ASSUME [ServiceNext]_serviceVars PROVE [StoreNext]_storeVars
    OBVIOUS
  <2>1. CASE \E exchange \in Sent : Handle(exchange[1], exchange[2])
    <3>1. PICK exchange \in Sent : Handle(exchange[1], exchange[2])
      BY <2>1
    <3>2. exchange[2] \in Request
      BY <3>1, ServiceAssumption
    <3>3. Effect(exchange[1], exchange[2])
      BY <3>1 DEF Handle
    <3> QED
      BY <3>2, <3>3, EffectIsStoreStep
  <2>2. CASE Tick
    BY <2>2 DEF Tick
  <2>3. CASE LearnRevocation
    BY <2>3 DEF LearnRevocation
  <2>4. CASE UNCHANGED serviceVars
    BY <2>4 DEF serviceVars
  <2> QED
    BY <2>1, <2>2, <2>3, <2>4 DEF ServiceNext
<1> QED
  BY <1>1, <1>2, PTL DEF ServiceSpec, StoreSpec

(* Behind the service too, a message is held once, for its recipient.      *)
THEOREM ServiceHeldOnce == ServiceSpec => []HeldOnce
  BY ServiceImplementsStore, StoreHeldOnce, PTL

(* Behind the service too, no queue outgrows the capacity.                 *)
THEOREM ServiceBounded == ServiceSpec => []Bounded
  BY ServiceImplementsStore, StoreBounded, PTL

(* The types of the service. *)
THEOREM ServiceTypesOK == ServiceSpec => []ServiceTypeOK
<1>1. ServiceInit => ServiceTypeOK
  BY InitInv, ServiceAssumption DEF ServiceInit, ServiceTypeOK, IInv
<1>2. ASSUME ServiceTypeOK, TypeOK', [ServiceNext]_serviceVars PROVE ServiceTypeOK'
  <2>1. CASE \E exchange \in Sent : Handle(exchange[1], exchange[2])
    BY <1>2, <2>1, ServiceAssumption DEF Handle, ServiceTypeOK
  <2>2. CASE Tick
    BY <1>2, <2>2, ServiceAssumption DEF Tick, ServiceTypeOK
  <2>3. CASE LearnRevocation
    BY <1>2, <2>3 DEF LearnRevocation, ServiceTypeOK
  <2>4. CASE UNCHANGED serviceVars
    BY <1>2, <2>4 DEF serviceVars, ServiceTypeOK
  <2> QED
    BY <1>2, <2>1, <2>2, <2>3, <2>4 DEF ServiceNext
<1>3. ServiceSpec => []TypeOK
  BY ServiceImplementsStore, StoreTypeOK, PTL
<1> QED
  BY <1>1, <1>2, <1>3, PTL DEF ServiceSpec

-----------------------------------------------------------------------------
(* The limits.                                                             *)

(* Every envelope held passed check_envelope. *)
HeldWithinLimits ==
  \A a \in Address : \A i \in DOMAIN queues[a] : CheckEnvelope(Limit, SizeOf[queues[a][i]])

(* A delivery appends only what was checked; every other request appends   *)
(* nothing.                                                                *)
LEMMA EffectWithinLimits ==
  ASSUME IInv, HeldWithinLimits, NEW node, NEW req \in Request, Effect(node, req)
  PROVE  HeldWithinLimits'
<1>1. CASE queues' = queues
  BY <1>1 DEF HeldWithinLimits
<1>2. CASE req.type = "Deliver" /\ Admitted(node, req) /\ Accept(req.message, req.verifies)
  <2> DEFINE m == req.message
             a == To[m]
             q == queues[a]
             p == Append(q, m)
             k == Overflow(p)
  <2>1. CASE queues' = [queues EXCEPT ![a] = Retained(p)]
    <3>1. m \in MessageId /\ a \in Address /\ q \in Seq(MessageId) /\ capacity \in Nat \ {0}
      BY <1>2, RequestFields, StoreAssumption DEF IInv, TypeOK
    <3>2. /\ p \in Seq(MessageId) /\ Len(p) = Len(q) + 1 /\ p[Len(q) + 1] = m
          /\ \A i \in 1..Len(q) : p[i] = q[i]
      BY <3>1, AppendProperties
    <3>3. CheckEnvelope(Limit, SizeOf[m]) /\ queues'[a] = Retained(p)
      BY <1>2, <2>1, <3>1 DEF Admitted, IInv, TypeOK
    <3>4. /\ Len(q) \in Nat /\ DOMAIN q = 1..Len(q)
          /\ \A i \in 1..Len(q) : CheckEnvelope(Limit, SizeOf[q[i]])
      BY <3>1, LenProperties DEF HeldWithinLimits
    <3> HIDE DEF p, q
    <3>5. /\ k \in 0..Len(q)
          /\ DOMAIN Retained(p) = 1..(Len(q) + 1 - k)
          /\ \A i \in 1..(Len(q) - k) : Retained(p)[i] = q[i + k]
          /\ Retained(p)[Len(q) + 1 - k] = m
      BY <3>1, <3>2, AppendRetention
    <3> HIDE DEF k
    <3>6. ASSUME NEW i \in 1..(Len(q) + 1 - k) PROVE CheckEnvelope(Limit, SizeOf[Retained(p)[i]])
      <4>1. CASE i = Len(q) + 1 - k
        BY <3>3, <3>5, <4>1
      <4>2. CASE i # Len(q) + 1 - k
        <5>1. i \in 1..(Len(q) - k) /\ i + k \in 1..Len(q)
          BY <3>4, <3>5, <4>2
        <5> QED
          BY <3>4, <3>5, <5>1
      <4> QED
        BY <4>1, <4>2
    <3>7. \A i \in DOMAIN queues'[a] : CheckEnvelope(Limit, SizeOf[queues'[a][i]])
      BY <3>3, <3>5, <3>6
    <3>8. \A b \in Address : b # a => queues'[b] = queues[b]
      BY <2>1, <3>1 DEF IInv, TypeOK
    <3> QED
      BY <3>7, <3>8 DEF HeldWithinLimits
  <2> QED
    BY <1>1, <1>2, <2>1 DEF Accept, storeVars
<1>3. CASE req.type = "Ack" /\ Ack(req.recipient, req.cursor)
  <2> DEFINE a == req.recipient
             q == queues[a]
             n == Removed(a, req.cursor)
  <2>1. a \in Address /\ req.cursor \in Nat /\ q \in Seq(MessageId)
    BY <1>3, RequestFields, StoreAssumption DEF IInv, TypeOK
  <2>2. n \in 0..Len(q) /\ DOMAIN q = 1..Len(q)
    BY <2>1, LenProperties DEF Removed
  <2>3. /\ DOMAIN SubSeq(q, n + 1, Len(q)) = 1..(Len(q) - n)
        /\ \A i \in 1..(Len(q) - n) :
             i + n \in 1..Len(q) /\ SubSeq(q, n + 1, Len(q))[i] = q[i + n]
    BY <2>1, <2>2, DropProperties
  <2>4. \A b \in Address : queues'[b] = IF b = a THEN SubSeq(q, n + 1, Len(q)) ELSE queues[b]
    BY <1>3, <2>1 DEF Ack, IInv, TypeOK
  <2> HIDE DEF q, n
  <2>5. \A i \in DOMAIN q : CheckEnvelope(Limit, SizeOf[q[i]])
    BY <2>1 DEF HeldWithinLimits, q
  <2> HIDE DEF a
  <2>6. \A i \in DOMAIN queues'[a] : CheckEnvelope(Limit, SizeOf[queues'[a][i]])
    <3>1. queues'[a] = SubSeq(q, n + 1, Len(q))
      BY <2>1, <2>4
    <3> SUFFICES ASSUME NEW i \in 1..(Len(q) - n)
                 PROVE  CheckEnvelope(Limit, SizeOf[SubSeq(q, n + 1, Len(q))[i]])
      BY <2>3, <3>1
    <3>2. i + n \in DOMAIN q /\ SubSeq(q, n + 1, Len(q))[i] = q[i + n]
      BY <2>2, <2>3
    <3> QED
      BY <2>5, <3>2
  <2>7. \A b \in Address : b # a => queues'[b] = queues[b]
    BY <2>4
  <2> QED
    BY <2>6, <2>7 DEF HeldWithinLimits
<1> QED
  BY <1>1, <1>2, <1>3 DEF Effect, PutReceipt, CollectReceipts, storeVars

(* No sequence of requests, evictions and duplicates leaves an envelope in *)
(* a queue that exceeds a limit, in a field or as a whole.                 *)
THEOREM ServiceHeldWithinLimits == ServiceSpec => []HeldWithinLimits
<1>1. ServiceInit => HeldWithinLimits
  BY DEF ServiceInit, StoreInit, New, Empty, HeldWithinLimits
<1>2. IInv /\ HeldWithinLimits /\ [ServiceNext]_serviceVars => HeldWithinLimits'
  <2> SUFFICES ASSUME IInv, HeldWithinLimits, [ServiceNext]_serviceVars PROVE HeldWithinLimits'
    OBVIOUS
  <2>1. CASE \E exchange \in Sent : Handle(exchange[1], exchange[2])
    BY <2>1, EffectWithinLimits, ServiceAssumption DEF Handle
  <2>2. CASE Tick \/ LearnRevocation \/ UNCHANGED serviceVars
    <3>1. queues' = queues
      BY <2>2 DEF Tick, LearnRevocation, serviceVars, storeVars
    <3> QED
      BY <3>1 DEF HeldWithinLimits
  <2> QED
    BY <2>1, <2>2 DEF ServiceNext
<1> QED
  BY <1>1, <1>2, ServiceImplementsStore, StoreInvariant, PTL DEF ServiceSpec

(* The length of an encoded envelope is a number. *)
LEMMA EncodedLenIsNat ==
  ASSUME NEW size \in EnvelopeSize
  PROVE  EncodedLen(size) \in Nat
<1> DEFINE cids == size.attachment_cids
           n == Len(cids)
           step == [p \in (1..n) \X Nat |-> p[2] + 8 + cids[p[1]]]
<1>1. n \in Nat /\ \A i \in 1..n : cids[i] \in Nat
  BY LenProperties, ElementOfSeq DEF EnvelopeSize
<1>2. step \in Steps(n, Nat)
  BY <1>1 DEF Steps
<1>3. \A i \in 1..n, k \in Nat : step[<<i, k>>] = k + 8 + cids[i]
  OBVIOUS
<1> HIDE DEF n, cids, step
<1>4. PICK f : Follows(f, n, Nat, 0, step)
  BY <1>1, <1>2, RecursionExists
<1>5. f = [i \in 0..n |-> IF i = 0 THEN 0 ELSE f[i - 1] + 8 + cids[i]]
  <2>1. ASSUME NEW i \in 1..n PROVE f[i] = f[i - 1] + 8 + cids[i]
    <3>1. f[i - 1] \in Nat
      BY <1>1, <1>4 DEF Follows
    <3> QED
      BY <1>3, <1>4, <3>1 DEF Follows
  <2> QED
    BY <1>1, <1>4, <2>1 DEF Follows
<1>6. ASSUME NEW g, g = [i \in 0..n |-> IF i = 0 THEN 0 ELSE g[i - 1] + 8 + cids[i]]
      PROVE  g[n] \in Nat
  <2>1. Tracks(g, n, Nat, 0, step)
    BY <1>1, <1>3, <1>6 DEF Tracks
  <2>2. \A i \in 0..n : g[i] \in Nat
    BY <1>1, <1>2, <1>4, <2>1, RecursionUnique
  <2> QED
    BY <1>1, <2>2
<1>7. /\ size.addresses \in Nat /\ size.subject \in Nat /\ size.body_cid \in Nat
      /\ size.in_reply_to \in Nat /\ size.postage_receipt \in Nat
  BY DEF EnvelopeSize
<1>8. EncodedLen(size) = 72 + 8 + 7 * 8 + size.addresses + size.subject + size.body_cid
                           + size.in_reply_to + size.postage_receipt
                           + (CHOOSE g : g = [i \in 0..n |-> IF i = 0 THEN 0 ELSE g[i - 1] + 8 + cids[i]])[n]
  BY DEF EncodedLen, n, cids
<1>9. (CHOOSE g : g = [i \in 0..n |-> IF i = 0 THEN 0 ELSE g[i - 1] + 8 + cids[i]])[n] \in Nat
  BY <1>5, <1>6
<1> QED
  BY <1>7, <1>8, <1>9

(* The bytes a queue takes are bounded by the number of its envelopes: what *)
(* the limits say of one envelope adds up.                                 *)
THEOREM ServiceRetainedBytesBounded == ServiceSpec => []RetainedBytesBounded
<1>1. ASSUME IInv, HeldWithinLimits, NEW a \in Address
      PROVE  LET bytes[i \in 0..Len(queues[a])] ==
                   IF i = 0 THEN 0 ELSE bytes[i - 1] + EncodedLen(SizeOf[queues[a][i]])
             IN  /\ Len(queues[a]) <= capacity
                 /\ bytes[Len(queues[a])] <= Len(queues[a]) * Limit.max_envelope_bytes
  <2> DEFINE n == Len(queues[a])
             c == Limit.max_envelope_bytes
             w == [i \in 1..n |-> EncodedLen(SizeOf[queues[a][i]])]
             step == [p \in (1..n) \X Nat |-> p[2] + w[p[1]]]
  <2>1. n \in Nat /\ DOMAIN queues[a] = 1..n /\ c \in Nat /\ n <= capacity
    BY <1>1, LenProperties, ServiceAssumption DEF IInv, TypeOK, Bounded, Limits
  <2>2. \A i \in 1..n : w[i] \in Nat /\ w[i] <= c
    <3>1. ASSUME NEW i \in 1..n PROVE w[i] \in Nat /\ w[i] <= c
      <4>1. queues[a][i] \in MessageId /\ CheckEnvelope(Limit, SizeOf[queues[a][i]])
        BY <1>1, <2>1, ElementOfSeq DEF IInv, TypeOK, HeldWithinLimits
      <4>2. SizeOf[queues[a][i]] \in EnvelopeSize
        BY <4>1, ServiceAssumption
      <4> QED
        BY <4>1, <4>2, EncodedLenIsNat DEF CheckEnvelope
    <3> QED
      BY <3>1
  <2>3. \A i \in 1..n : w[i] = EncodedLen(SizeOf[queues[a][i]])
    OBVIOUS
  <2> HIDE DEF w
  <2>4. step \in Steps(n, Nat)
    BY <2>2 DEF Steps
  <2>5. \A i \in 1..n, k \in Nat : step[<<i, k>>] = k + w[i]
    OBVIOUS
  <2> HIDE DEF n, c, step
  <2>6. PICK f : Follows(f, n, Nat, 0, step)
    BY <2>1, <2>4, RecursionExists
  <2>7. f = [i \in 0..n |-> IF i = 0 THEN 0 ELSE f[i - 1] + EncodedLen(SizeOf[queues[a][i]])]
    <3>1. ASSUME NEW i \in 1..n PROVE f[i] = f[i - 1] + EncodedLen(SizeOf[queues[a][i]])
      <4>1. f[i - 1] \in Nat
        BY <2>6, <2>1 DEF Follows
      <4> QED
        BY <2>3, <2>5, <2>6, <4>1 DEF Follows
    <3> QED
      BY <2>1, <2>6, <3>1 DEF Follows
  <2>8. ASSUME NEW g,
               g = [i \in 0..n |-> IF i = 0 THEN 0 ELSE g[i - 1] + EncodedLen(SizeOf[queues[a][i]])]
        PROVE  g[n] <= n * c
    <3>1. g[0] = 0 /\ \A i \in 1..n : g[i] = g[i - 1] + w[i]
      BY <2>1, <2>3, <2>8
    <3>2. \A i \in 1..n : \E x \in Nat : x <= c /\ g[i] = g[i - 1] + x
      BY <2>2, <3>1
    <3> QED
      BY <2>1, <3>1, <3>2, SumBound
  <2> QED
    BY <2>1, <2>7, <2>8 DEF n, c
<1>2. IInv /\ HeldWithinLimits => RetainedBytesBounded
  BY <1>1 DEF RetainedBytesBounded
<1> QED
  BY <1>2, ServiceHeldWithinLimits, ServiceImplementsStore, StoreInvariant, PTL

-----------------------------------------------------------------------------
(* Pages.                                                                  *)

(* The sum of a position in a queue and a page does not wrap: a queue in   *)
(* memory is far shorter than what a usize counts to.                      *)
QueuesFit == \A a \in Address : Len(queues[a]) + Limit.max_page <= UsizeModulus

(* Where a page ends: behind where it begins, and no further than asked. *)
LEMMA PageEnds ==
  ASSUME IInv, NEW a \in Address, NEW since \in Nat, NEW limit \in Nat \ {0},
         Len(queues[a]) + limit <= UsizeModulus
  PROVE  /\ PageEnd(a, since, limit) \in 0..Len(queues[a])
         /\ since <= Len(queues[a]) => since <= PageEnd(a, since, limit)
         /\ PageEnd(a, since, limit) < Len(queues[a])
              => since < PageEnd(a, since, limit) /\ PageEnd(a, since, limit) = since + limit
<1>1. Len(queues[a]) \in Nat /\ UsizeModulus \in Nat \ {0}
  BY LenProperties, StoreAssumption DEF IInv, TypeOK
<1>2. CASE since < Len(queues[a])
  <2>1. AtLeastOne(limit) = limit
    BY DEF AtLeastOne
  <2>2. since + limit \in 0..(UsizeModulus - 1)
    BY <1>1, <1>2
  <2>3. (since + limit) % UsizeModulus = since + limit
    BY <1>1, <2>2
  <2>4. PageEnd(a, since, limit)
          = IF since + limit < Len(queues[a]) THEN since + limit ELSE Len(queues[a])
    BY <1>2, <2>1, <2>3 DEF PageEnd
  <2> QED
    BY <1>1, <1>2, <2>4
<1>3. CASE ~(since < Len(queues[a]))
  <2>1. PageEnd(a, since, limit) = Len(queues[a])
    BY <1>3 DEF PageEnd
  <2> QED
    BY <1>1, <1>3, <2>1
<1> QED
  BY <1>2, <1>3

(* A page is what lies between two positions of the queue. *)
LEMMA PageCovers ==
  ASSUME IInv, NEW a \in Address, NEW since \in Nat, NEW limit \in Nat \ {0},
         Len(queues[a]) + limit <= UsizeModulus
  PROVE  LET page == ReadPage(a, since, limit)
         IN  /\ since <= Len(queues[a]) =>
                  SubSeq(queues[a], 1, page.cursor) = SubSeq(queues[a], 1, since) \o page.envelopes
             /\ page.more = (page.cursor < Len(queues[a]))
             /\ page.more => page.cursor > since /\ Len(page.envelopes) <= limit
<1> DEFINE q == queues[a]
           end == PageEnd(a, since, limit)
           page == ReadPage(a, since, limit)
<1>1. q \in Seq(MessageId) /\ Len(q) \in Nat /\ \A i \in 1..Len(q) : q[i] \in MessageId
  BY LenProperties, ElementOfSeq DEF IInv, TypeOK
<1>2. /\ end \in 0..Len(q)
      /\ since <= Len(q) => since <= end
      /\ end < Len(q) => since < end /\ end = since + limit
  BY PageEnds
<1>3. /\ page.envelopes = SubSeq(q, since + 1, end)
      /\ page.cursor = end
      /\ page.more = (end < Len(q))
  BY DEF ReadPage
<1> HIDE DEF q, end, page
<1>4. ASSUME since <= Len(q)
      PROVE  SubSeq(q, 1, end) = SubSeq(q, 1, since) \o SubSeq(q, since + 1, end)
  <2>1. 1 \in 1..(Len(q) + 1) /\ since \in (1 - 1)..Len(q) /\ end \in since..Len(q)
    BY <1>1, <1>2, <1>4
  <2> QED
    BY <1>1, <2>1, ConcatAdjacentSubSeq
<1>5. ASSUME end < Len(q) PROVE Len(SubSeq(q, since + 1, end)) <= limit
  <2>1. since + 1 \in Int /\ end \in Int /\ \A i \in (since + 1)..end : q[i] \in MessageId
    BY <1>1, <1>2
  <2>2. Len(SubSeq(q, since + 1, end)) = IF since + 1 <= end THEN end - (since + 1) + 1 ELSE 0
    BY <2>1, SubSeqProperties
  <2> QED
    BY <1>2, <1>5, <2>2
<1> QED
  BY <1>2, <1>3, <1>4, <1>5 DEF q, page

(* Following the cursors of its pages, a client misses nothing, sees       *)
(* nothing twice and gets on, whatever limit it asks for.                  *)
THEOREM ServicePagesCoverTheQueue == ServiceSpec => [](QueuesFit => PagesCoverTheQueue)
<1>1. ASSUME IInv, QueuesFit PROVE PagesCoverTheQueue
  <2> SUFFICES ASSUME NEW exchange \in Sent,
                      Reply(exchange[1], exchange[2]).type = "Page"
               PROVE  LET req == exchange[2]
                          page == Reply(exchange[1], req).page
                      IN  /\ req.since <= Len(queues[req.recipient]) =>
                               SubSeq(queues[req.recipient], 1, page.cursor)
                                 = SubSeq(queues[req.recipient], 1, req.since) \o page.envelopes
                          /\ page.more = (page.cursor < Len(queues[req.recipient]))
                          /\ page.more => /\ page.cursor > req.since
                                          /\ Len(page.envelopes) <= Limit.max_page
    BY DEF PagesCoverTheQueue
  <2> DEFINE node == exchange[1]
             req == exchange[2]
             limit == ClampPage(req.limit)
  <2>1. node \in Node /\ req \in Request
    BY ServiceAssumption
  <2>2. Reply(node, req).type = "Page"
    OBVIOUS
  <2> HIDE DEF node, req
  <2>3. req.type = "DrainPage" /\ Reply(node, req).page = PageOf(req)
    BY <2>1, <2>2 DEF Request, Reply, StoreReply, Error
  <2>4. req.recipient \in Address /\ req.since \in Nat /\ req.limit \in Nat
    BY <2>1, <2>3 DEF Request
  <2>5. Limit.max_page \in Nat \ {0}
    BY ServiceAssumption DEF Limits
  <2>6. limit \in Nat \ {0} /\ limit <= Limit.max_page
    BY <2>4, <2>5 DEF ClampPage, Clamp
  <2>7. Len(queues[req.recipient]) \in Nat /\ UsizeModulus \in Nat
    BY <1>1, <2>4, LenProperties, StoreAssumption DEF IInv, TypeOK
  <2>8. Len(queues[req.recipient]) + limit <= UsizeModulus
    BY <1>1, <2>4, <2>5, <2>6, <2>7 DEF QueuesFit
  <2>9. Reply(node, req).page = ReadPage(req.recipient, req.since, limit)
    BY <2>3 DEF PageOf
  <2> HIDE DEF limit
  <2> DEFINE page == ReadPage(req.recipient, req.since, limit)
             q == queues[req.recipient]
  <2>10. /\ req.since <= Len(q) => SubSeq(q, 1, page.cursor) = SubSeq(q, 1, req.since) \o page.envelopes
         /\ page.more = (page.cursor < Len(q))
         /\ page.more => page.cursor > req.since /\ Len(page.envelopes) <= limit
    BY <1>1, <2>4, <2>6, <2>8, PageCovers
  <2>11. page.more => Len(page.envelopes) <= Limit.max_page
    <3>1. page.envelopes \in Seq(MessageId)
      <4>1. PageEnd(req.recipient, req.since, limit) \in 0..Len(q)
        BY <1>1, <2>4, <2>6, <2>8, PageEnds
      <4>2. \A i \in (req.since + 1)..PageEnd(req.recipient, req.since, limit) : q[i] \in MessageId
        BY <1>1, <2>4, <2>7, <4>1, ElementOfSeq DEF IInv, TypeOK
      <4> QED
        BY <2>4, <2>7, <4>1, <4>2, SubSeqProperties DEF ReadPage
    <3>2. Len(page.envelopes) \in Nat
      BY <3>1, LenProperties
    <3> HIDE DEF page
    <3> QED
      BY <2>5, <2>6, <2>10, <3>2
  <2> HIDE DEF page
  <2> QED
    BY <2>9, <2>10, <2>11 DEF page, node, req
<1>2. IInv => (QueuesFit => PagesCoverTheQueue)
  BY <1>1
<1> QED
  BY <1>2, ServiceImplementsStore, StoreInvariant, PTL

-----------------------------------------------------------------------------
(* The capability gate: for every set of nodes, chains and requests, every *)
(* revocation and every instant.  What is to be shown is that checking one *)
(* chain from its root, link by link, is enough to place its audience      *)
(* among the nodes the owner trusts.                                       *)

(* An owner trusts itself. *)
LEMMA OwnerTrusted == \A owner \in Node : Trusts(owner, owner)
  BY DEF Trusts

(* A node the gate accepts a chain for is one the owner trusts: were it    *)
(* outside a set that follows every live link from the owner, some first   *)
(* link of the chain would lead out of that set.                           *)
LEMMA ChainsConveyTrust ==
  ASSUME NEW owner \in Node, NEW audience, NEW chain \in Grant,
         Authorize(owner, audience, chain)
  PROVE  Trusts(owner, audience)
<1> DEFINE n == Len(chain)
<1>1. chain \in Seq(Link) /\ chain # <<>>
  BY ServiceAssumption DEF Authorize
<1>2. n \in Nat \ {0} /\ DOMAIN chain = 1..n
  BY <1>1, EmptySeq, LenProperties
<1>3. \A i \in 1..n : chain[i] \in LiveLinks
  BY <1>2 DEF Authorize, LiveLinks, Range
<1> SUFFICES ASSUME NEW S \in SUBSET Node, owner \in S,
                    \A link \in LiveLinks : link.issuer \in S => link.audience \in S,
                    audience \notin S
             PROVE  FALSE
  BY DEF Trusts
<1> DEFINE Outside == {i \in 1..n : chain[i].audience \notin S}
<1>4. n \in Outside
  BY <1>2 DEF Authorize
<1>5. PICK k \in Outside : \A i \in Outside : i >= k
  <2>1. Outside \in SUBSET Nat /\ Outside # {}
    BY <1>2, <1>4
  <2> HIDE DEF Outside
  <2> QED
    BY <2>1, LeastNumber
<1>6. k \in 1..n /\ chain[k].audience \notin S /\ chain[k] \in LiveLinks
  BY <1>3, <1>5
<1>7. CASE k = 1
  BY <1>6, <1>7 DEF Authorize
<1>8. CASE k # 1
  <2>1. k - 1 \in 1..(n - 1) /\ k - 1 \in 1..n /\ (k - 1) + 1 = k /\ ~(k - 1 >= k)
    BY <1>2, <1>6, <1>8
  <2>2. chain[k - 1].audience \in S
    BY <1>5, <2>1
  <2>3. chain[(k - 1) + 1].issuer = chain[k - 1].audience
    BY <2>1 DEF Authorize
  <2> QED
    BY <1>6, <2>1, <2>2, <2>3
<1> QED
  BY <1>7, <1>8

(* The two gates of handle. *)
LEMMA HoldersTrusted ==
  ASSUME NEW a \in Address, NEW grant \in Grant, MayHold(a, grant)
  PROVE  Self \in TrustedBy(a)
<1>1. Self \in Node /\ ParseNodeId[a] \in Node /\ ParseNodeId[a] # NotANode
  BY ServiceAssumption DEF MayHold
<1> QED
  BY <1>1, ChainsConveyTrust DEF MayHold, TrustedBy

LEMMA ActorsTrusted ==
  ASSUME NEW node \in Node, NEW a \in Address, NEW grant \in Grant, MayAct(node, a, grant)
  PROVE  node \in TrustedBy(a)
<1>1. ParseNodeId[a] \in Node /\ ParseNodeId[a] # NotANode
  BY ServiceAssumption DEF MayAct
<1> QED
  BY <1>1, ChainsConveyTrust, OwnerTrusted DEF MayAct, TrustedBy

(* What an admitted request tells of its requester and its target. *)
LEMMA AdmittedTrust ==
  ASSUME NEW node \in Node, NEW req \in Request, Admitted(node, req)
  PROVE  /\ req.type \in {"Deliver", "PutReceipt"} => Self \in TrustedBy(Target(req))
         /\ req.type \notin {"Deliver", "PutReceipt"} => node \in TrustedBy(Target(req))
<1>1. req.grant \in Grant
  BY DEF Request
<1>2. Target(req) \in Address
  BY StoreAssumption DEF Request, Target
<1> QED
  BY <1>1, <1>2, HoldersTrusted, ActorsTrusted DEF Admitted

-----------------------------------------------------------------------------

(* Whatever state the mailbox is in, only the owner and the nodes the      *)
(* owner trusts are answered with mail or receipts.                        *)
THEOREM ServiceDisclosesOnlyToTrusted == ServiceSpec => []DisclosesOnlyToTrusted
<1>1. DisclosesOnlyToTrusted
  <2> SUFFICES ASSUME NEW exchange \in Sent,
                      Reply(exchange[1], exchange[2]).type \in {"Drained", "Page", "Receipts"}
               PROVE  exchange[1] \in TrustedBy(Target(exchange[2]))
    BY DEF DisclosesOnlyToTrusted
  <2> DEFINE node == exchange[1]
             req == exchange[2]
  <2>1. node \in Node /\ req \in Request
    BY ServiceAssumption
  <2> HIDE DEF node, req
  <2>2. Reply(node, req).type \in {"Drained", "Page", "Receipts"}
    BY DEF node, req
  <2>3. Admitted(node, req)
    BY <2>2 DEF Reply, Error
  <2>4. req.type \notin {"Deliver", "PutReceipt"}
    BY <2>2, <2>3 DEF Reply, StoreReply, Error
  <2>5. node \in TrustedBy(Target(req))
    BY <2>1, <2>3, <2>4, AdmittedTrust
  <2> QED
    BY <2>5 DEF node, req
<1> QED
  BY <1>1, PTL

-----------------------------------------------------------------------------
(* What a request does to the queue and the receipts of an address.        *)

(* The addresses a request adds for, and those it frees at. *)
Adds(a) == Range(queues'[a]) \ Range(queues[a]) # {} \/ Range(receipts'[a]) \ Range(receipts[a]) # {}

Frees(a) ==
  \/ Range(queues[a]) \ Range(queues'[a]) # {} /\ Len(queues'[a]) < Len(queues[a])
  \/ receipts[a] # <<>> /\ receipts'[a] = <<>>

LEMMA UntouchedAddress ==
  ASSUME NEW a \in Address, queues'[a] = queues[a], receipts'[a] = receipts[a]
  PROVE  ~Adds(a) /\ ~Frees(a)
  BY DEF Adds, Frees

(* Appending within the bounded retention shortens nothing. *)
LEMMA AppendNeverShortens ==
  ASSUME NEW T, NEW q \in Seq(T), NEW x \in T, capacity \in Nat \ {0}, Len(q) <= capacity
  PROVE  /\ Len(Retained(Append(q, x))) \in Nat /\ Len(q) \in Nat
         /\ Len(Retained(Append(q, x))) >= Len(q)
         /\ Retained(Append(q, x)) # <<>>
<1> DEFINE p == Append(q, x)
<1>1. p \in Seq(T) /\ Len(p) = Len(q) + 1 /\ Len(q) \in Nat
  BY AppendProperties, LenProperties
<1>2. Overflow(p) \in 0..1 /\ (Overflow(p) = 1 => Len(q) = capacity)
  BY <1>1 DEF Overflow
<1>3. Len(Retained(p)) = Len(p) - Overflow(p)
  BY <1>1, Retention
<1>4. Len(Retained(p)) \in Nat \ {0} /\ Len(Retained(p)) >= Len(q)
  BY <1>1, <1>2, <1>3
<1>5. Retained(p) # <<>>
  BY <1>4
<1> QED
  BY <1>1, <1>4, <1>5

(* Only an admitted request changes anything, and only at its target:      *)
(* deliveries and receipts add there, acks and collections free there.     *)
LEMMA EffectAtTarget ==
  ASSUME IInv, NEW node, NEW req \in Request, Effect(node, req), NEW a \in Address
  PROVE  /\ Adds(a) => Admitted(node, req) /\ a = Target(req) /\ req.type \in {"Deliver", "PutReceipt"}
         /\ Frees(a) => Admitted(node, req) /\ a = Target(req) /\ req.type \in {"Ack", "CollectReceipts"}
<1> USE UntouchedAddress
<1>0. /\ queues \in [Address -> Seq(MessageId)] /\ receipts \in [Address -> Seq(Receipt)]
      /\ capacity \in Nat \ {0} /\ Len(queues[a]) <= capacity /\ Len(receipts[a]) <= capacity
  BY DEF IInv, TypeOK, Bounded
<1>1. CASE UNCHANGED storeVars
  BY <1>1 DEF storeVars
<1>2. CASE /\ req.type = "Deliver" /\ Admitted(node, req) /\ Accept(req.message, req.verifies)
           /\ queues' # queues
  <2> DEFINE m == req.message
  <2>1. m \in MessageId /\ Target(req) = To[m] /\ To[m] \in Address
    BY <1>2, RequestFields, StoreAssumption DEF Target
  <2>2. /\ queues' = [queues EXCEPT ![To[m]] = Retained(Append(queues[To[m]], m))]
        /\ receipts' = receipts
    BY <1>2 DEF Accept, storeVars
  <2>3. CASE a = To[m]
    <3>1. queues'[a] = Retained(Append(queues[a], m)) /\ receipts'[a] = receipts[a]
      BY <1>0, <2>2, <2>3
    <3>2. queues[a] \in Seq(MessageId)
      BY <1>0
    <3>3. ~Frees(a)
      BY <1>0, <2>1, <3>1, <3>2, AppendNeverShortens DEF Frees
    <3> QED
      BY <1>2, <2>1, <2>3, <3>3
  <2>4. CASE a # To[m]
    BY <1>0, <2>2, <2>4
  <2> QED
    BY <2>3, <2>4
<1>3. CASE /\ req.type = "PutReceipt" /\ Admitted(node, req)
           /\ PutReceipt(req.for_sender, req.receipt, req.verifies) /\ receipts' # receipts
  <2> DEFINE b == req.for_sender
             r == req.receipt
  <2>1. r \in Receipt /\ Target(req) = b /\ b \in Address
    BY <1>3, RequestFields DEF Target
  <2>2. receipts' = [receipts EXCEPT ![b] = Retained(Append(receipts[b], r))] /\ queues' = queues
    BY <1>3 DEF PutReceipt, storeVars
  <2>3. CASE a = b
    <3>1. receipts'[a] = Retained(Append(receipts[a], r)) /\ queues'[a] = queues[a]
      BY <1>0, <2>2, <2>3
    <3>2. receipts[a] \in Seq(Receipt)
      BY <1>0
    <3>3. receipts'[a] # <<>>
      BY <1>0, <2>1, <3>1, <3>2, AppendNeverShortens
    <3>4. ~Frees(a)
      BY <3>1, <3>3 DEF Frees
    <3> QED
      BY <1>3, <2>1, <2>3, <3>4
  <2>4. CASE a # b
    BY <1>0, <2>2, <2>4
  <2> QED
    BY <2>3, <2>4
<1>4. CASE req.type = "Ack" /\ Admitted(node, req) /\ Ack(req.recipient, req.cursor)
  <2> DEFINE b == req.recipient
             n == Removed(b, req.cursor)
             q == queues[b]
  <2>1. b \in Address /\ req.cursor \in Nat /\ Target(req) = b /\ q \in Seq(MessageId)
    BY <1>0, <1>4, RequestFields, StoreAssumption DEF Target
  <2>2. receipts' = receipts /\ queues' = [queues EXCEPT ![b] = SubSeq(q, n + 1, Len(q))]
    BY <1>4 DEF Ack
  <2>3. CASE a = b
    <3>1. n \in 0..Len(q) /\ DOMAIN q = 1..Len(q)
      BY <2>1, LenProperties DEF Removed
    <3>2. /\ DOMAIN SubSeq(q, n + 1, Len(q)) = 1..(Len(q) - n)
          /\ \A i \in 1..(Len(q) - n) :
               i + n \in 1..Len(q) /\ SubSeq(q, n + 1, Len(q))[i] = q[i + n]
      BY <2>1, <3>1, DropProperties
    <3>3. queues'[a] = SubSeq(q, n + 1, Len(q)) /\ queues[a] = q /\ receipts'[a] = receipts[a]
      BY <1>0, <2>1, <2>2, <2>3
    <3> HIDE DEF n, q
    <3>4. Range(queues'[a]) \subseteq Range(queues[a])
      BY <3>1, <3>2, <3>3 DEF Range
    <3>5. ~Adds(a)
      BY <3>3, <3>4 DEF Adds
    <3> QED
      BY <1>4, <2>1, <2>3, <3>5
  <2>4. CASE a # b
    BY <1>0, <2>2, <2>4
  <2> QED
    BY <2>3, <2>4
<1>5. CASE req.type = "CollectReceipts" /\ Admitted(node, req) /\ CollectReceipts(req.sender)
  <2> DEFINE b == req.sender
  <2>1. b \in Address /\ Target(req) = b
    BY <1>5, RequestFields DEF Target
  <2>2. queues' = queues /\ receipts' = [receipts EXCEPT ![b] = <<>>]
    BY <1>5 DEF CollectReceipts
  <2>3. CASE a = b
    <3>1. receipts'[a] = <<>> /\ queues'[a] = queues[a]
      BY <1>0, <2>2, <2>3
    <3>2. Range(receipts'[a]) = {}
      BY <3>1 DEF Range
    <3>3. ~Adds(a)
      BY <3>1, <3>2 DEF Adds
    <3> QED
      BY <1>5, <2>1, <2>3, <3>3
  <2>4. CASE a # b
    BY <1>0, <2>2, <2>4
  <2> QED
    BY <2>3, <2>4
<1>6. CASE queues' = queues /\ receipts' = receipts
  BY <1>6
<1> QED
  BY <1>1, <1>2, <1>3, <1>4, <1>5, <1>6 DEF Effect, Accept, PutReceipt, storeVars

(* What a step of the service does at an address, a request did, and was   *)
(* allowed to.                                                             *)
LEMMA StepsAreAllowed ==
  ASSUME IInv, [ServiceNext]_serviceVars, NEW a \in Address
  PROVE  (Adds(a) => Self \in TrustedBy(a)) /\ (Frees(a) => requester' \in TrustedBy(a))
<1>1. CASE \E exchange \in Sent : Handle(exchange[1], exchange[2])
  <2>1. PICK exchange \in Sent : Handle(exchange[1], exchange[2])
    BY <1>1
  <2> DEFINE node == exchange[1]
             req == exchange[2]
  <2>2. node \in Node /\ req \in Request
    BY <2>1, ServiceAssumption
  <2>3. Effect(node, req) /\ requester' = node
    BY <2>1 DEF Handle
  <2> HIDE DEF node, req
  <2> QED
    BY <2>2, <2>3, EffectAtTarget, AdmittedTrust
<1>2. CASE Tick \/ LearnRevocation \/ UNCHANGED serviceVars
  <2>1. queues' = queues /\ receipts' = receipts
    BY <1>2 DEF Tick, LearnRevocation, serviceVars, storeVars
  <2> QED
    BY <2>1, UntouchedAddress
<1> QED
  BY <1>1, <1>2 DEF ServiceNext

(* No open relay: whatever chains are presented, mail and receipts are     *)
(* added only for an address whose owner trusts this mailbox right then.   *)
THEOREM ServiceAddsOnlyForOwnersWhoTrustUs == ServiceSpec => AddsOnlyForOwnersWhoTrustUs
<1>1. IInv /\ [ServiceNext]_serviceVars
        => [\A a \in Address :
              (Range(queues'[a]) \ Range(queues[a]) # {}
                 \/ Range(receipts'[a]) \ Range(receipts[a]) # {})
                => Self \in TrustedBy(a)]_serviceVars
  BY StepsAreAllowed DEF Adds
<1> QED
  BY <1>1, ServiceImplementsStore, StoreInvariant, PTL
  DEF ServiceSpec, AddsOnlyForOwnersWhoTrustUs

(* Only the owner of a mailbox and those the owner trusts free what it     *)
(* holds.                                                                  *)
THEOREM ServiceFreesOnlyForTrusted == ServiceSpec => FreesOnlyForTrusted
<1>1. IInv /\ [ServiceNext]_serviceVars
        => [\A a \in Address :
              (\/ Range(queues[a]) \ Range(queues'[a]) # {} /\ Len(queues'[a]) < Len(queues[a])
               \/ receipts[a] # <<>> /\ receipts'[a] = <<>>)
                 => requester' \in TrustedBy(a)]_serviceVars
  BY StepsAreAllowed DEF Frees
<1> QED
  BY <1>1, ServiceImplementsStore, StoreInvariant, PTL
  DEF ServiceSpec, FreesOnlyForTrusted
=============================================================================
