-------------------------- MODULE MailboxStoreProofs --------------------------
(***************************************************************************)
(* Proofs about the mailbox store, for every set of addresses, messages    *)
(* and receipts and every capacity.                                        *)
(*                                                                         *)
(* The properties the runs check are inductive only together: eviction     *)
(* removes the evicted ids from the index, which keeps every remaining     *)
(* queued id in it only because no id is queued twice; and no id is queued *)
(* twice only because every queued id is in the index.  IInv is their      *)
(* conjunction with the types.                                             *)
(***************************************************************************)
EXTENDS MailboxStore, Recursion

IInv == TypeOK /\ HeldOnce /\ ReceiptIndexExact /\ Bounded

-----------------------------------------------------------------------------
(* What bounded retention does to a queue.                                 *)

(* Evicting keeps the newest entries, in order and at most `capacity` of   *)
(* them; what is evicted is the rest.                                      *)
LEMMA Retention ==
  ASSUME NEW S, NEW q \in Seq(S), capacity \in Nat \ {0}
  PROVE  /\ Overflow(q) \in 0..Len(q)
         /\ Retained(q) \in Seq(S)
         /\ Len(Retained(q)) = Len(q) - Overflow(q)
         /\ Len(Retained(q)) <= capacity
         /\ \A i \in 1..Len(Retained(q)) : Retained(q)[i] = q[i + Overflow(q)]
         /\ Evicted(q) \in Seq(S)
         /\ Len(Evicted(q)) = Overflow(q)
         /\ \A i \in 1..Overflow(q) : Evicted(q)[i] = q[i]
<1>1. Len(q) \in Nat /\ \A i \in 1..Len(q) : q[i] \in S
  BY LenProperties, ElementOfSeq
<1>2. Overflow(q) \in 0..Len(q) /\ Len(q) - Overflow(q) <= capacity
  BY <1>1 DEF Overflow
<1>3. \A i \in (Overflow(q) + 1)..Len(q) : q[i] \in S
  BY <1>1, <1>2
<1>4. \A i \in 1..Overflow(q) : q[i] \in S
  BY <1>1, <1>2
<1>5. /\ Retained(q) \in Seq(S)
      /\ Len(Retained(q)) = IF Overflow(q) + 1 <= Len(q)
                            THEN Len(q) - (Overflow(q) + 1) + 1 ELSE 0
      /\ \A i \in 1..(Len(q) - (Overflow(q) + 1) + 1) :
           Retained(q)[i] = q[Overflow(q) + 1 + i - 1]
  BY <1>1, <1>2, <1>3, SubSeqProperties DEF Retained
<1>6. /\ Evicted(q) \in Seq(S)
      /\ Len(Evicted(q)) = IF 1 <= Overflow(q) THEN Overflow(q) - 1 + 1 ELSE 0
      /\ \A i \in 1..(Overflow(q) - 1 + 1) : Evicted(q)[i] = q[1 + i - 1]
  BY <1>1, <1>2, <1>4, SubSeqProperties DEF Evicted
<1>7. /\ Len(Retained(q)) = Len(q) - Overflow(q)
      /\ Len(Retained(q)) <= capacity
      /\ Len(Evicted(q)) = Overflow(q)
  BY <1>1, <1>2, <1>5, <1>6
<1>8. ASSUME NEW i \in 1..Len(Retained(q)) PROVE Retained(q)[i] = q[i + Overflow(q)]
  <2>1. /\ i \in 1..(Len(q) - (Overflow(q) + 1) + 1)
        /\ Overflow(q) + 1 + i - 1 = i + Overflow(q)
    BY <1>1, <1>2, <1>7
  <2>. QED
    BY <1>5, <2>1
<1>9. ASSUME NEW i \in 1..Overflow(q) PROVE Evicted(q)[i] = q[i]
  <2>1. i \in 1..(Overflow(q) - 1 + 1) /\ 1 + i - 1 = i
    BY <1>1, <1>2
  <2>. QED
    BY <1>6, <2>1
<1>. QED
  BY <1>2, <1>5, <1>6, <1>7, <1>8, <1>9

(* When p is q with e appended, evicting shifts q by the overflow k, and   *)
(* the last entry kept is e.                                               *)
LEMMA AppendRetention ==
  ASSUME NEW S, NEW q \in Seq(S), NEW e \in S, capacity \in Nat \ {0},
         NEW p \in Seq(S),
         Len(p) = Len(q) + 1,
         \A i \in 1..Len(q) : p[i] = q[i],
         p[Len(q) + 1] = e
  PROVE  /\ Retained(p) \in Seq(S)
         /\ Overflow(p) \in 0..Len(q)
         /\ Len(Retained(p)) = Len(q) + 1 - Overflow(p)
         /\ Len(Retained(p)) <= capacity
         /\ DOMAIN Retained(p) = 1..(Len(q) + 1 - Overflow(p))
         /\ \A i \in 1..(Len(q) - Overflow(p)) : Retained(p)[i] = q[i + Overflow(p)]
         /\ Retained(p)[Len(q) + 1 - Overflow(p)] = e
         /\ Evicted(p) \in Seq(S)
         /\ DOMAIN Evicted(p) = 1..Overflow(p)
         /\ \A i \in 1..Overflow(p) : Evicted(p)[i] = q[i]
<1>1. Len(q) \in Nat /\ Len(p) \in Nat
  BY LenProperties
<1>2. Overflow(p) \in 0..Len(q)
  BY <1>1 DEF Overflow
<1>3. /\ Retained(p) \in Seq(S)
      /\ Len(Retained(p)) = Len(q) + 1 - Overflow(p)
      /\ Len(Retained(p)) <= capacity
      /\ \A i \in 1..(Len(q) + 1 - Overflow(p)) : Retained(p)[i] = p[i + Overflow(p)]
      /\ Evicted(p) \in Seq(S)
      /\ Len(Evicted(p)) = Overflow(p)
      /\ \A i \in 1..Overflow(p) : Evicted(p)[i] = p[i]
  <2>1. /\ Overflow(p) \in 0..Len(p)
        /\ Retained(p) \in Seq(S)
        /\ Len(Retained(p)) = Len(p) - Overflow(p)
        /\ Len(Retained(p)) <= capacity
        /\ \A i \in 1..Len(Retained(p)) : Retained(p)[i] = p[i + Overflow(p)]
        /\ Evicted(p) \in Seq(S)
        /\ Len(Evicted(p)) = Overflow(p)
        /\ \A i \in 1..Overflow(p) : Evicted(p)[i] = p[i]
    BY Retention
  <2>. QED
    BY <1>1, <1>2, <2>1
<1>4. DOMAIN Retained(p) = 1..(Len(q) + 1 - Overflow(p)) /\ DOMAIN Evicted(p) = 1..Overflow(p)
  BY <1>3, LenProperties
<1>5. ASSUME NEW i \in 1..(Len(q) - Overflow(p)) PROVE Retained(p)[i] = q[i + Overflow(p)]
  <2>1. i \in 1..(Len(q) + 1 - Overflow(p)) /\ i + Overflow(p) \in 1..Len(q)
    BY <1>1, <1>2
  <2>. QED
    BY <1>3, <2>1
<1>6. Retained(p)[Len(q) + 1 - Overflow(p)] = e
  BY <1>1, <1>2, <1>3
<1>7. ASSUME NEW i \in 1..Overflow(p) PROVE Evicted(p)[i] = q[i]
  <2>1. i \in 1..Len(q)
    BY <1>1, <1>2
  <2>. QED
    BY <1>3, <2>1
<1>. QED
  BY <1>2, <1>3, <1>4, <1>5, <1>6, <1>7

-----------------------------------------------------------------------------
(* Preservation of the invariant, one lemma per operation.                 *)

(* MailboxStore::new establishes the invariant. *)
LEMMA InitInv == StoreInit => IInv
<1> SUFFICES ASSUME StoreInit PROVE IInv
  OBVIOUS
<1>1. TypeOK
  BY StoreAssumption DEF StoreInit, New, TypeOK, Empty, AtLeastOne
<1>2. HeldOnce
  BY DEF StoreInit, New, HeldOnce, Empty, IsInjective
<1>3. ReceiptIndexExact
  BY DEF StoreInit, New, ReceiptIndexExact, Empty, Keys
<1>4. Bounded
  BY <1>1 DEF StoreInit, New, Bounded, Empty, TypeOK
<1>. QED
  BY <1>1, <1>2, <1>3, <1>4 DEF IInv

(* accept preserves it: the message it stores was in no queue, since the  *)
(* index had not got it, and eviction forgets exactly what it evicts.      *)
LEMMA AcceptInv ==
  ASSUME IInv, NEW m \in MessageId, NEW verifies \in BOOLEAN,
         AcceptResult(m, verifies) = "Stored", Accept(m, verifies)
  PROVE  IInv'
<1> DEFINE a == To[m]
           q == queues[a]
           p == Append(q, m)
           k == Overflow(p)
           n == Len(q) + 1 - k
<1>1. /\ queues' = [queues EXCEPT ![a] = Retained(p)]
      /\ seen' = [seen EXCEPT ![a] = (seen[a] \cup {m}) \ Range(Evicted(p))]
      /\ UNCHANGED <<receipts, receipts_seen, capacity>>
      /\ m \notin seen[a]
  BY DEF Accept, AcceptResult
<1>2. /\ a \in Address
      /\ q \in Seq(MessageId)
      /\ seen[a] \in SUBSET MessageId
      /\ capacity \in Nat \ {0}
      /\ Len(q) \in Nat
  BY StoreAssumption, LenProperties DEF IInv, TypeOK
<1>3. /\ Retained(p) \in Seq(MessageId)
      /\ k \in 0..Len(q)
      /\ Len(Retained(p)) = n
      /\ Len(Retained(p)) <= capacity
      /\ DOMAIN Retained(p) = 1..n
      /\ \A i \in 1..(Len(q) - k) : Retained(p)[i] = q[i + k]
      /\ Retained(p)[n] = m
      /\ DOMAIN Evicted(p) = 1..k
      /\ \A i \in 1..k : Evicted(p)[i] = q[i]
  <2>1. k = Overflow(p) /\ n = Len(q) + 1 - k
    OBVIOUS
  <2>2. /\ p \in Seq(MessageId)
        /\ Len(p) = Len(q) + 1
        /\ \A i \in 1..Len(q) : p[i] = q[i]
        /\ p[Len(q) + 1] = m
    BY <1>2, AppendProperties
  <2> HIDE DEF a, q, p, k, n
  <2>. QED
    BY <1>2, <2>1, <2>2, AppendRetention
<1>4. /\ \A i, j \in 1..Len(q) : q[i] = q[j] => i = j
      /\ \A i \in 1..Len(q) : q[i] \in seen[a] /\ To[q[i]] = a /\ q[i] # m
  BY <1>1, <1>2, LenProperties DEF IInv, HeldOnce, IsInjective
<1> HIDE DEF a, q, p, k, n
<1>5. TypeOK'
  BY <1>1, <1>2, <1>3 DEF IInv, TypeOK
<1>6. HeldOnce'
  <2> SUFFICES ASSUME NEW b \in Address
               PROVE  /\ IsInjective(queues'[b])
                      /\ \A i \in DOMAIN queues'[b] :
                           queues'[b][i] \in seen'[b] /\ To[queues'[b][i]] = b
    BY DEF HeldOnce
  <2>1. CASE b # a
    BY <2>1, <1>1 DEF IInv, HeldOnce, TypeOK
  <2>2. CASE b = a
    <3>1. /\ queues'[b] = Retained(p)
          /\ seen'[b] = (seen[a] \cup {m}) \ Range(Evicted(p))
      BY <2>2, <1>1, <1>2 DEF IInv, TypeOK
    <3>2. n = Len(q) + 1 - k
      BY DEF n
    <3>3. \A i \in 1..n : \/ i = n /\ Retained(p)[i] = m
                          \/ i <= Len(q) - k /\ i + k \in 1..Len(q)
                             /\ Retained(p)[i] = q[i + k]
      BY <1>2, <1>3, <3>2
    <3>4. Range(Evicted(p)) = {q[i] : i \in 1..k}
      BY <1>3 DEF Range
    <3>5. IsInjective(Retained(p))
      <4> SUFFICES ASSUME NEW i \in 1..n, NEW j \in 1..n, Retained(p)[i] = Retained(p)[j]
                   PROVE  i = j
        BY <1>3 DEF IsInjective
      <4>1. \A x \in 1..Len(q) : q[x] # m
        BY <1>4
      <4>2. CASE i = n /\ Retained(p)[i] = m
        BY <3>3, <4>1, <4>2
      <4>3. CASE i + k \in 1..Len(q) /\ Retained(p)[i] = q[i + k]
        <5>1. j + k \in 1..Len(q) /\ Retained(p)[j] = q[j + k]
          BY <3>3, <4>1, <4>3
        <5>2. i + k = j + k
          BY <1>4, <4>3, <5>1
        <5>. QED
          BY <5>2, <1>2, <1>3, <3>2
      <4>. QED
        BY <3>3, <4>2, <4>3
    <3>6. ASSUME NEW i \in 1..n
          PROVE  /\ Retained(p)[i] \in (seen[a] \cup {m}) \ Range(Evicted(p))
                 /\ To[Retained(p)[i]] = a
      <4>1. CASE i = n /\ Retained(p)[i] = m
        <5>1. m \notin Range(Evicted(p))
          BY <1>2, <1>3, <1>4, <3>4
        <5>. QED
          BY <4>1, <5>1 DEF a
      <4>2. CASE i <= Len(q) - k /\ i + k \in 1..Len(q) /\ Retained(p)[i] = q[i + k]
        <5>1. ASSUME NEW j \in 1..k PROVE q[j] # q[i + k]
          <6>1. j \in 1..Len(q) /\ j # i + k
            BY <1>2, <1>3
          <6>. QED
            BY <1>4, <4>2, <6>1
        <5>2. q[i + k] \notin Range(Evicted(p))
          BY <3>4, <5>1
        <5>. QED
          BY <1>4, <4>2, <5>2
      <4>. QED
        BY <3>3, <4>1, <4>2
    <3>. QED
      BY <2>2, <3>1, <3>5, <3>6, <1>3
  <2>. QED
    BY <2>1, <2>2
<1>7. ReceiptIndexExact'
  BY <1>1 DEF IInv, ReceiptIndexExact, Keys
<1>8. Bounded'
  BY <1>1, <1>2, <1>3 DEF IInv, Bounded, TypeOK
<1>. QED
  BY <1>5, <1>6, <1>7, <1>8 DEF IInv

(* put_receipt preserves it, its eviction forgetting exactly the keys of   *)
(* the receipts it evicts.                                                 *)
LEMMA PutReceiptInv ==
  ASSUME IInv, NEW a \in Address, NEW r \in Receipt, NEW verifies \in BOOLEAN,
         PutReceiptResult(a, r, verifies) = "Stored", PutReceipt(a, r, verifies)
  PROVE  IInv'
<1> DEFINE q == receipts[a]
           p == Append(q, r)
           k == Overflow(p)
           n == Len(q) + 1 - k
<1>1. /\ receipts' = [receipts EXCEPT ![a] = Retained(p)]
      /\ receipts_seen' =
           [receipts_seen EXCEPT ![a] = (receipts_seen[a] \cup {DedupKey(r)}) \ Keys(Evicted(p))]
      /\ UNCHANGED <<queues, seen, capacity>>
      /\ DedupKey(r) \notin receipts_seen[a]
  BY DEF PutReceipt, PutReceiptResult
<1>2. /\ q \in Seq(Receipt)
      /\ receipts_seen[a] \in SUBSET ReceiptKey
      /\ capacity \in Nat \ {0}
      /\ Len(q) \in Nat
  BY LenProperties DEF IInv, TypeOK
<1>3. /\ Retained(p) \in Seq(Receipt)
      /\ k \in 0..Len(q)
      /\ Len(Retained(p)) = n
      /\ Len(Retained(p)) <= capacity
      /\ DOMAIN Retained(p) = 1..n
      /\ \A i \in 1..(Len(q) - k) : Retained(p)[i] = q[i + k]
      /\ Retained(p)[n] = r
      /\ DOMAIN Evicted(p) = 1..k
      /\ \A i \in 1..k : Evicted(p)[i] = q[i]
  <2>1. k = Overflow(p) /\ n = Len(q) + 1 - k
    OBVIOUS
  <2>2. /\ p \in Seq(Receipt)
        /\ Len(p) = Len(q) + 1
        /\ \A i \in 1..Len(q) : p[i] = q[i]
        /\ p[Len(q) + 1] = r
    BY <1>2, AppendProperties
  <2> HIDE DEF q, p, k, n
  <2>. QED
    BY <1>2, <2>1, <2>2, AppendRetention
<1>4. /\ \A i, j \in 1..Len(q) : DedupKey(q[i]) = DedupKey(q[j]) => i = j
      /\ receipts_seen[a] = {DedupKey(q[i]) : i \in 1..Len(q)}
  BY <1>2, LenProperties DEF IInv, ReceiptIndexExact, Keys
<1>5. DedupKey(r) \in ReceiptKey
  BY StoreAssumption DEF DedupKey, ReceiptKey
<1> HIDE DEF q, p, k, n
<1>6. TypeOK'
  BY <1>1, <1>2, <1>3, <1>5 DEF IInv, TypeOK
<1>7. HeldOnce'
  BY <1>1 DEF IInv, HeldOnce
<1>8. ReceiptIndexExact'
  <2> SUFFICES ASSUME NEW b \in Address
               PROVE  /\ receipts_seen'[b] = Keys(receipts'[b])
                      /\ \A i, j \in DOMAIN receipts'[b] :
                           DedupKey(receipts'[b][i]) = DedupKey(receipts'[b][j]) => i = j
    BY DEF ReceiptIndexExact, Keys, DedupKey
  <2>1. CASE b # a
    BY <2>1, <1>1 DEF IInv, ReceiptIndexExact, TypeOK
  <2>2. CASE b = a
    <3>1. /\ receipts'[b] = Retained(p)
          /\ receipts_seen'[b] = (receipts_seen[a] \cup {DedupKey(r)}) \ Keys(Evicted(p))
      BY <2>2, <1>1 DEF IInv, TypeOK
    <3>2. n = Len(q) + 1 - k
      BY DEF n
    <3>3. ASSUME NEW i \in 1..n
          PROVE  \/ i = n /\ Retained(p)[i] = r
                 \/ i <= Len(q) - k /\ i + k \in 1..Len(q) /\ Retained(p)[i] = q[i + k]
      <4>1. i = n \/ (i \in 1..(Len(q) - k) /\ i <= Len(q) - k /\ i + k \in 1..Len(q))
        BY <1>2, <1>3, <3>2
      <4>. QED
        BY <4>1, <1>3
    <3>4. Keys(Evicted(p)) = {DedupKey(q[i]) : i \in 1..k}
      BY <1>3 DEF Keys
    <3>5. Keys(Retained(p)) = {DedupKey(q[i + k]) : i \in 1..(Len(q) - k)} \cup {DedupKey(r)}
      <4>1. \A i \in 1..n : DedupKey(Retained(p)[i]) \in
              {DedupKey(q[j + k]) : j \in 1..(Len(q) - k)} \cup {DedupKey(r)}
        BY <3>3, <1>2, <1>3
      <4>2. \A i \in 1..(Len(q) - k) : i \in 1..n /\ Retained(p)[i] = q[i + k]
        BY <1>2, <1>3, <3>2
      <4>3. n \in 1..n /\ Retained(p)[n] = r
        BY <1>2, <1>3, <3>2
      <4>. QED
        BY <4>1, <4>2, <4>3, <1>3 DEF Keys
    <3>6. \A j \in 1..Len(q) : \/ j \in 1..k
                               \/ j - k \in 1..(Len(q) - k) /\ j = (j - k) + k
      BY <1>2, <1>3
    <3>7. \A i \in 1..(Len(q) - k) : i + k \in 1..Len(q) /\ i + k \notin 1..k
      BY <1>2, <1>3
    <3>8. \A j \in 1..k : j \in 1..Len(q)
      BY <1>2, <1>3
    <3>9. receipts_seen[a] \ Keys(Evicted(p)) = {DedupKey(q[i + k]) : i \in 1..(Len(q) - k)}
      <4>1. ASSUME NEW x \in receipts_seen[a] \ Keys(Evicted(p))
            PROVE  \E i \in 1..(Len(q) - k) : x = DedupKey(q[i + k])
        <5>1. PICK j \in 1..Len(q) : x = DedupKey(q[j])
          BY <1>4, <4>1
        <5>2. j \notin 1..k
          BY <3>4, <4>1, <5>1
        <5>. QED
          BY <5>1, <5>2, <3>6
      <4>2. ASSUME NEW i \in 1..(Len(q) - k)
            PROVE  DedupKey(q[i + k]) \in receipts_seen[a] \ Keys(Evicted(p))
        <5>1. DedupKey(q[i + k]) \in receipts_seen[a]
          BY <1>4, <3>7
        <5>2. \A j \in 1..k : DedupKey(q[j]) # DedupKey(q[i + k])
          BY <1>4, <3>7, <3>8
        <5>. QED
          BY <5>1, <5>2, <3>4
      <4>. QED
        BY <4>1, <4>2
    <3>10. DedupKey(r) \notin Keys(Evicted(p))
      BY <1>1, <1>4, <3>4, <3>8
    <3>11. receipts_seen'[b] = Keys(receipts'[b])
      BY <3>1, <3>5, <3>9, <3>10
    <3>12. ASSUME NEW i \in 1..n, NEW j \in 1..n,
                  DedupKey(Retained(p)[i]) = DedupKey(Retained(p)[j])
           PROVE  i = j
      <4>1. \A x \in 1..Len(q) : DedupKey(q[x]) # DedupKey(r)
        BY <1>1, <1>4
      <4>2. CASE i = n /\ Retained(p)[i] = r
        BY <3>3, <3>12, <4>1, <4>2
      <4>3. CASE i + k \in 1..Len(q) /\ Retained(p)[i] = q[i + k]
        <5>1. DedupKey(Retained(p)[i]) = DedupKey(q[i + k])
          BY <4>3
        <5>2. ~(j = n /\ Retained(p)[j] = r)
          BY <3>12, <4>1, <4>3, <5>1
        <5>3. j + k \in 1..Len(q) /\ Retained(p)[j] = q[j + k]
          BY <3>3, <5>2
        <5>4. DedupKey(q[i + k]) = DedupKey(q[j + k])
          BY <3>12, <5>1, <5>3
        <5>5. i + k = j + k
          BY <1>4, <4>3, <5>3, <5>4
        <5>. QED
          BY <5>5, <1>2, <1>3, <3>2
      <4>. QED
        BY <3>3, <4>2, <4>3
    <3>. QED
      BY <3>1, <3>11, <3>12, <1>3
  <2>. QED
    BY <2>1, <2>2
<1>9. Bounded'
  BY <1>1, <1>2, <1>3 DEF IInv, Bounded, TypeOK
<1>. QED
  BY <1>6, <1>7, <1>8, <1>9 DEF IInv

(* collect_receipts preserves it: both sides of the index are emptied. *)
LEMMA CollectReceiptsInv ==
  ASSUME IInv, NEW a \in Address, CollectReceipts(a)
  PROVE  IInv'
<1>1. TypeOK'
  BY DEF IInv, TypeOK, CollectReceipts
<1>2. HeldOnce'
  BY DEF IInv, HeldOnce, CollectReceipts
<1>3. ReceiptIndexExact'
  BY DEF IInv, ReceiptIndexExact, CollectReceipts, Keys, TypeOK
<1>4. Bounded'
  BY DEF IInv, Bounded, CollectReceipts, TypeOK
<1>. QED
  BY <1>1, <1>2, <1>3, <1>4 DEF IInv

(* What is left of a queue when its n oldest entries are dropped. *)
LEMMA DropProperties ==
  ASSUME NEW S, NEW q \in Seq(S), NEW n \in 0..Len(q)
  PROVE  /\ SubSeq(q, n + 1, Len(q)) \in Seq(S)
         /\ Len(SubSeq(q, n + 1, Len(q))) = Len(q) - n
         /\ DOMAIN SubSeq(q, n + 1, Len(q)) = 1..(Len(q) - n)
         /\ \A i \in 1..(Len(q) - n) :
              i + n \in 1..Len(q) /\ SubSeq(q, n + 1, Len(q))[i] = q[i + n]
<1>1. Len(q) \in Nat /\ \A i \in 1..Len(q) : q[i] \in S
  BY LenProperties, ElementOfSeq
<1>2. n + 1 \in Int /\ Len(q) \in Int /\ \A i \in (n + 1)..Len(q) : q[i] \in S
  BY <1>1
<1>3. /\ SubSeq(q, n + 1, Len(q)) \in Seq(S)
      /\ Len(SubSeq(q, n + 1, Len(q))) =
           IF n + 1 <= Len(q) THEN Len(q) - (n + 1) + 1 ELSE 0
      /\ \A i \in 1..(Len(q) - (n + 1) + 1) :
           SubSeq(q, n + 1, Len(q))[i] = q[n + 1 + i - 1]
  BY <1>2, SubSeqProperties
<1>4. Len(SubSeq(q, n + 1, Len(q))) = Len(q) - n
  BY <1>1, <1>3
<1>5. DOMAIN SubSeq(q, n + 1, Len(q)) = 1..(Len(q) - n)
  BY <1>3, <1>4, LenProperties
<1>6. ASSUME NEW i \in 1..(Len(q) - n)
      PROVE  i + n \in 1..Len(q) /\ SubSeq(q, n + 1, Len(q))[i] = q[i + n]
  BY <1>1, <1>3
<1>. QED
  BY <1>3, <1>4, <1>5, <1>6

(* ack preserves it: ids may stay in the index after their message is gone. *)
LEMMA AckInv ==
  ASSUME IInv, NEW a \in Address, NEW cursor \in Nat, Ack(a, cursor)
  PROVE  IInv'
<1> DEFINE q == queues[a]
           k == Removed(a, cursor)
           t == SubSeq(q, k + 1, Len(q))
<1>1. /\ queues' = [queues EXCEPT ![a] = t]
      /\ UNCHANGED <<seen, receipts, receipts_seen, capacity>>
  BY DEF Ack
<1>2. q \in Seq(MessageId) /\ Len(q) \in Nat /\ Len(q) <= capacity /\ capacity \in Nat
  BY LenProperties DEF IInv, TypeOK, Bounded
<1>3. k \in 0..Len(q)
  BY <1>2 DEF Removed
<1>4. /\ t \in Seq(MessageId)
      /\ Len(t) = Len(q) - k
      /\ DOMAIN t = 1..(Len(q) - k)
      /\ \A i \in 1..(Len(q) - k) : i + k \in 1..Len(q) /\ t[i] = q[i + k]
  <2> HIDE DEF q, k
  <2>. QED
    BY <1>2, <1>3, DropProperties
<1>5. /\ \A i, j \in 1..Len(q) : q[i] = q[j] => i = j
      /\ \A i \in 1..Len(q) : q[i] \in seen[a] /\ To[q[i]] = a
  BY <1>2, LenProperties DEF IInv, HeldOnce, IsInjective
<1> HIDE DEF q, k, t
<1>6. TypeOK'
  BY <1>1, <1>4 DEF IInv, TypeOK
<1>7. HeldOnce'
  <2> SUFFICES ASSUME NEW b \in Address
               PROVE  /\ IsInjective(queues'[b])
                      /\ \A i \in DOMAIN queues'[b] :
                           queues'[b][i] \in seen'[b] /\ To[queues'[b][i]] = b
    BY DEF HeldOnce
  <2>1. CASE b # a
    BY <2>1, <1>1 DEF IInv, HeldOnce, TypeOK
  <2>2. CASE b = a
    <3>1. queues'[b] = t /\ seen'[b] = seen[a]
      BY <2>2, <1>1 DEF IInv, TypeOK
    <3>2. IsInjective(t)
      <4> SUFFICES ASSUME NEW i \in 1..(Len(q) - k), NEW j \in 1..(Len(q) - k), t[i] = t[j]
                   PROVE  i = j
        BY <1>4 DEF IsInjective
      <4>. QED
        BY <1>2, <1>3, <1>4, <1>5
    <3>. QED
      BY <2>2, <3>1, <3>2, <1>4, <1>5
  <2>. QED
    BY <2>1, <2>2
<1>8. ReceiptIndexExact'
  BY <1>1 DEF IInv, ReceiptIndexExact, Keys
<1>9. Bounded'
  BY <1>1, <1>2, <1>3, <1>4 DEF IInv, Bounded, TypeOK
<1>. QED
  BY <1>6, <1>7, <1>8, <1>9 DEF IInv

(* to_bytes writes no less than the invariant says.                        *)
LEMMA SavedBytes == IInv => SavedStore(ToBytes)
  BY DEF IInv, TypeOK, HeldOnce, ReceiptIndexExact, Bounded, SavedStore, ToBytes, AtLeastOne

(* from_bytes establishes it from such bytes: the indexes are rebuilt, and *)
(* the capacity is positive again.                                         *)
LEMMA LoadInv ==
  ASSUME NEW bytes, SavedStore(bytes), FromBytes(bytes)
  PROVE  IInv'
<1>1. /\ queues' = bytes.queues /\ queues' \in [Address -> Seq(MessageId)]
      /\ \A a \in Address : /\ Len(queues'[a]) <= capacity' /\ IsInjective(queues'[a])
                           /\ \A i \in DOMAIN queues'[a] : To[queues'[a][i]] = a
      /\ seen' = [a \in Address |-> Range(queues'[a])]
      /\ receipts_seen' = [a \in Address |-> Keys(receipts'[a])]
      /\ capacity' = AtLeastOne(bytes.capacity) /\ capacity' \in Nat \ {0}
  BY DEF FromBytes, SavedStore, AtLeastOne
<1>2. /\ receipts' \in [Address -> Seq(Receipt)]
      /\ \A a \in Address :
           /\ Len(receipts'[a]) <= capacity'
           /\ \A i, j \in DOMAIN receipts'[a] :
                DedupKey(receipts'[a][i]) = DedupKey(receipts'[a][j]) => i = j
  <2>1. CASE bytes.format = "v2"
    BY <1>1, <2>1 DEF FromBytes, SavedStore
  <2>2. CASE bytes.format # "v2"
    <3>1. receipts' = [a \in Address |-> <<>>]
      BY <2>2 DEF FromBytes, Empty
    <3>. QED
      BY <1>1, <3>1
  <2>. QED
    BY <2>1, <2>2
<1>3. TypeOK'
  <2>1. \A a \in Address : Range(queues'[a]) \in SUBSET MessageId
    BY <1>1, RangeOfSeq
  <2>2. ASSUME NEW a \in Address PROVE Keys(receipts'[a]) \in SUBSET ReceiptKey
    <3>1. receipts'[a] \in Seq(Receipt)
      BY <1>2
    <3>2. \A i \in DOMAIN receipts'[a] : receipts'[a][i] \in Receipt
      BY <3>1, ElementOfSeq, LenProperties
    <3>. QED
      BY <3>2, StoreAssumption DEF Keys, DedupKey, ReceiptKey
  <2>. QED
    BY <1>1, <1>2, <2>1, <2>2 DEF TypeOK
<1>4. HeldOnce'
  BY <1>1 DEF HeldOnce, Range
<1>5. ReceiptIndexExact'
  BY <1>1, <1>2 DEF ReceiptIndexExact, Keys
<1>6. Bounded'
  BY <1>1, <1>2 DEF Bounded
<1>. QED
  BY <1>3, <1>4, <1>5, <1>6 DEF IInv

(* from_bytes after to_bytes preserves it. *)
LEMMA ReloadInv ==
  ASSUME IInv, Reload
  PROVE  IInv'
BY SavedBytes, LoadInv DEF Reload

(* A step that leaves the store alone preserves it. *)
LEMMA UnchangedInv ==
  ASSUME IInv, UNCHANGED storeVars
  PROVE  IInv'
BY DEF IInv, TypeOK, HeldOnce, ReceiptIndexExact, Bounded, storeVars, Keys, IsInjective

(* Every operation of the store preserves the invariant. *)
LEMMA StepInv == IInv /\ [StoreNext]_storeVars => IInv'
<1> SUFFICES ASSUME IInv, [StoreNext]_storeVars PROVE IInv'
  OBVIOUS
<1>1. ASSUME NEW m \in MessageId, NEW verifies \in BOOLEAN, Accept(m, verifies)
      PROVE  IInv'
  <2>1. CASE AcceptResult(m, verifies) = "Stored"
    BY <1>1, <2>1, AcceptInv
  <2>2. CASE AcceptResult(m, verifies) # "Stored"
    BY <1>1, <2>2, UnchangedInv DEF Accept
  <2>. QED
    BY <2>1, <2>2
<1>2. ASSUME NEW a \in Address, NEW cursor \in 0..MaxCursor, Ack(a, cursor)
      PROVE  IInv'
  BY <1>2, AckInv, StoreAssumption
<1>3. ASSUME NEW a \in Address, NEW r \in Receipt, NEW verifies \in BOOLEAN,
             PutReceipt(a, r, verifies)
      PROVE  IInv'
  <2>1. CASE PutReceiptResult(a, r, verifies) = "Stored"
    BY <1>3, <2>1, PutReceiptInv
  <2>2. CASE PutReceiptResult(a, r, verifies) # "Stored"
    BY <1>3, <2>2, UnchangedInv DEF PutReceipt
  <2>. QED
    BY <2>1, <2>2
<1>4. ASSUME NEW a \in Address, CollectReceipts(a) PROVE IInv'
  BY <1>4, CollectReceiptsInv
<1>5. CASE Reload
  BY <1>5, ReloadInv
<1>6. CASE UNCHANGED storeVars
  BY <1>6, UnchangedInv
<1>. QED
  BY <1>1, <1>2, <1>3, <1>4, <1>5, <1>6 DEF StoreNext

(* The strengthened invariant holds of every reachable state of the store. *)
THEOREM StoreInvariant == StoreSpec => []IInv
BY InitInv, StepInv, PTL DEF StoreSpec

(* The store keeps its types, above all a positive capacity. *)
THEOREM StoreTypeOK == StoreSpec => []TypeOK
<1>1. IInv => TypeOK
  BY DEF IInv
<1>. QED
  BY <1>1, StoreInvariant, PTL

(* No sequence of store operations holds a message twice, files it under   *)
(* another address, or loses a held message from the index.                *)
THEOREM StoreHeldOnce == StoreSpec => []HeldOnce
<1>1. IInv => HeldOnce
  BY DEF IInv
<1>. QED
  BY <1>1, StoreInvariant, PTL

(* The receipt index never disagrees with the receipts held. *)
THEOREM StoreReceiptIndexExact == StoreSpec => []ReceiptIndexExact
<1>1. IInv => ReceiptIndexExact
  BY DEF IInv
<1>. QED
  BY <1>1, StoreInvariant, PTL

(* No queue outgrows the capacity. *)
THEOREM StoreBounded == StoreSpec => []Bounded
<1>1. IInv => Bounded
  BY DEF IInv
<1>. QED
  BY <1>1, StoreInvariant, PTL

-----------------------------------------------------------------------------
(* Arrival order.                                                          *)

(* A queue is itself without none of its oldest entries. *)
LEMMA DropNothing ==
  ASSUME NEW S, NEW q \in Seq(S)
  PROVE  DropsOldest(q, q)
<1>1. q = SubSeq(q, 0 + 1, Len(q)) /\ 0 \in 0..Len(q)
  BY SubSeqFull, LenProperties
<1>. QED
  BY <1>1 DEF DropsOldest

(* A step that leaves the queues alone keeps arrival order. *)
LEMMA FifoUnchanged ==
  ASSUME IInv, queues' = queues
  PROVE  FifoStep
BY DropNothing DEF IInv, TypeOK, FifoStep

(* accept appends a message the index did not have and evicts from the     *)
(* head.                                                                   *)
LEMMA FifoAccept ==
  ASSUME IInv, NEW m \in MessageId, NEW verifies \in BOOLEAN, Accept(m, verifies)
  PROVE  FifoStep
<1>1. CASE AcceptResult(m, verifies) # "Stored"
  BY <1>1, FifoUnchanged DEF Accept, storeVars
<1>2. CASE AcceptResult(m, verifies) = "Stored"
  <2> DEFINE p == Append(queues[To[m]], m)
  <2>1. /\ To[m] \in Address
        /\ queues' = [queues EXCEPT ![To[m]] = Retained(p)]
        /\ m \notin seen[To[m]]
    BY <1>2, StoreAssumption DEF Accept, AcceptResult
  <2>2. p \in Seq(MessageId)
    BY <2>1, AppendProperties DEF IInv, TypeOK
  <2>3. Overflow(p) \in 0..Len(p)
    BY <2>2, Retention DEF IInv, TypeOK
  <2>4. DropsOldest(p, Retained(p))
    BY <2>3 DEF DropsOldest, Retained
  <2>5. queues'[To[m]] = Retained(p)
    BY <2>1 DEF IInv, TypeOK
  <2>6. ASSUME NEW a \in Address, a # To[m] PROVE DropsOldest(queues[a], queues'[a])
    BY <2>1, <2>6, DropNothing DEF IInv, TypeOK
  <2>. QED
    BY <2>1, <2>4, <2>5, <2>6 DEF FifoStep
<1>. QED
  BY <1>1, <1>2

(* ack drops from the head. *)
LEMMA FifoAck ==
  ASSUME IInv, NEW b \in Address, NEW cursor \in Nat, Ack(b, cursor)
  PROVE  FifoStep
<1>1. queues[b] \in Seq(MessageId) /\ Len(queues[b]) \in Nat
  BY LenProperties DEF IInv, TypeOK
<1>2. Removed(b, cursor) \in 0..Len(queues[b])
  BY <1>1 DEF Removed
<1>3. queues'[b] = SubSeq(queues[b], Removed(b, cursor) + 1, Len(queues[b]))
  BY DEF Ack, IInv, TypeOK
<1>4. DropsOldest(queues[b], queues'[b])
  BY <1>2, <1>3 DEF DropsOldest
<1>5. ASSUME NEW a \in Address, a # b PROVE DropsOldest(queues[a], queues'[a])
  BY <1>5, DropNothing DEF Ack, IInv, TypeOK
<1>. QED
  BY <1>4, <1>5 DEF FifoStep

(* Mail is replayed in arrival order: no operation reorders a queue, takes *)
(* an envelope out of its middle, or appends one the index remembers.      *)
THEOREM StoreArrivalOrderKept == StoreSpec => ArrivalOrderKept
<1>1. ASSUME IInv, [StoreNext]_storeVars PROVE [FifoStep]_storeVars
  <2>1. ASSUME NEW m \in MessageId, NEW verifies \in BOOLEAN, Accept(m, verifies)
        PROVE  FifoStep
    BY <1>1, <2>1, FifoAccept
  <2>2. ASSUME NEW a \in Address, NEW cursor \in 0..MaxCursor, Ack(a, cursor)
        PROVE  FifoStep
    BY <1>1, <2>2, FifoAck, StoreAssumption
  <2>3. ASSUME NEW a \in Address, NEW r \in Receipt, NEW verifies \in BOOLEAN,
               PutReceipt(a, r, verifies)
        PROVE  FifoStep
    BY <1>1, <2>3, FifoUnchanged DEF PutReceipt, storeVars
  <2>4. ASSUME NEW a \in Address, CollectReceipts(a) PROVE FifoStep
    BY <1>1, <2>4, FifoUnchanged DEF CollectReceipts
  <2>5. CASE Reload
    BY <1>1, <2>5, FifoUnchanged DEF Reload, FromBytes, ToBytes
  <2>. QED
    BY <1>1, <2>1, <2>2, <2>3, <2>4, <2>5 DEF StoreNext
<1>. QED
  BY <1>1, StoreInvariant, PTL DEF StoreSpec, ArrivalOrderKept

-----------------------------------------------------------------------------
(* The store implements the message life cycle.                            *)

(* An index below the top of a shifted queue is an unshifted one. *)
LEMMA ShiftedIndex ==
  ASSUME NEW l \in Nat, NEW k \in 0..l, NEW i \in 1..(l + 1 - k)
  PROVE  i = l + 1 - k \/ (i \in 1..(l - k) /\ i + k \in 1..l /\ i + k \notin 1..k)
OBVIOUS

(* A new store is the initial state of the life cycle. *)
LEMMA LifeInit == StoreInit => Life!Init
<1> SUFFICES ASSUME StoreInit PROVE LifeOf = [m \in MessageId |-> "absent"]
  BY DEF Life!Init
<1>1. ASSUME NEW m \in MessageId PROVE ~Held(m) /\ m \notin seen[To[m]]
  BY StoreAssumption DEF StoreInit, New, Held, Empty, Range
<1>. QED
  BY <1>1 DEF LifeOf

(* Steps that touch neither queues nor ids stutter in the life cycle. *)
LEMMA LifeUnchanged ==
  ASSUME queues' = queues, seen' = seen
  PROVE  LifeOf' = LifeOf
BY DEF LifeOf, Held, Range

(* An accepted message arrives, and the one it evicts, if any, is what it  *)
(* displaces: with the queue within its capacity, an append overflows it   *)
(* by one at most.                                                         *)
LEMMA LifeAccept ==
  ASSUME IInv, NEW m \in MessageId, NEW verifies \in BOOLEAN,
         AcceptResult(m, verifies) = "Stored", Accept(m, verifies)
  PROVE  Life!Next
<1> DEFINE a == To[m]
           q == queues[a]
           p == Append(q, m)
           k == Overflow(p)
           n == Len(q) + 1 - k
           out == {q[i] : i \in 1..k}
<1>1. /\ queues' = [queues EXCEPT ![a] = Retained(p)]
      /\ seen' = [seen EXCEPT ![a] = (seen[a] \cup {m}) \ Range(Evicted(p))]
      /\ m \notin seen[a]
  BY DEF Accept, AcceptResult
<1>2. /\ a \in Address
      /\ q \in Seq(MessageId)
      /\ capacity \in Nat \ {0}
      /\ Len(q) \in Nat /\ Len(q) <= capacity
      /\ DOMAIN q = 1..Len(q)
  BY StoreAssumption, LenProperties DEF IInv, TypeOK, Bounded
<1>3. /\ k \in 0..Len(q)
      /\ DOMAIN Retained(p) = 1..n
      /\ \A i \in 1..(Len(q) - k) : Retained(p)[i] = q[i + k]
      /\ Retained(p)[n] = m
      /\ DOMAIN Evicted(p) = 1..k
      /\ \A i \in 1..k : Evicted(p)[i] = q[i]
      /\ Len(p) = Len(q) + 1
  <2>1. k = Overflow(p) /\ n = Len(q) + 1 - k
    OBVIOUS
  <2>2. /\ p \in Seq(MessageId)
        /\ Len(p) = Len(q) + 1
        /\ \A i \in 1..Len(q) : p[i] = q[i]
        /\ p[Len(q) + 1] = m
    BY <1>2, AppendProperties
  <2> HIDE DEF a, q, p, k, n
  <2>. QED
    BY <1>2, <2>1, <2>2, AppendRetention
<1>4. k <= 1
  <2>1. Len(p) <= capacity + 1 /\ Len(p) \in Nat
    BY <1>2, <1>3
  <2> HIDE DEF p
  <2>. QED
    BY <2>1, <1>2 DEF Overflow
<1>5. /\ \A i, j \in 1..Len(q) : q[i] = q[j] => i = j
      /\ \A i \in 1..Len(q) : q[i] \in seen[a] /\ To[q[i]] = a /\ q[i] \in MessageId
  BY <1>2, ElementOfSeq DEF IInv, HeldOnce, IsInjective
<1>6. n = Len(q) + 1 - k
  OBVIOUS
<1>7. Range(q) = {q[i] : i \in 1..Len(q)}
  BY <1>2 DEF Range
<1>8. out = {q[i] : i \in 1..k}
  OBVIOUS
<1> HIDE DEF q, p, k, n, out
<1>9. Range(Evicted(p)) = out
  BY <1>3, <1>8 DEF Range
<1>10. Range(Retained(p)) = (Range(q) \ out) \cup {m}
  <2>1. ASSUME NEW i \in 1..n PROVE Retained(p)[i] \in (Range(q) \ out) \cup {m}
    <3>1. i = n \/ (i \in 1..(Len(q) - k) /\ i + k \in 1..Len(q) /\ i + k \notin 1..k)
      BY <1>2, <1>3, <1>6, ShiftedIndex
    <3>2. CASE i = n
      BY <3>2, <1>3
    <3>3. CASE i \in 1..(Len(q) - k) /\ i + k \in 1..Len(q) /\ i + k \notin 1..k
      <4>1. \A j \in 1..k : j \in 1..Len(q) /\ j # i + k
        BY <1>2, <1>3, <3>3
      <4>2. q[i + k] \notin out
        BY <4>1, <1>5, <1>8, <3>3
      <4>. QED
        BY <4>2, <1>3, <1>7, <3>3
    <3>. QED
      BY <3>1, <3>2, <3>3
  <2>2. ASSUME NEW j \in 1..Len(q), q[j] \notin out
        PROVE  \E i \in 1..n : Retained(p)[i] = q[j]
    <3>1. j \notin 1..k
      BY <2>2, <1>8
    <3>2. j - k \in 1..(Len(q) - k) /\ j - k \in 1..n /\ (j - k) + k = j
      BY <3>1, <1>2, <1>3, <1>6
    <3>. QED
      BY <3>2, <1>3
  <2>3. n \in 1..n /\ Retained(p)[n] = m
    BY <1>2, <1>3, <1>6
  <2>4. Range(Retained(p)) = {Retained(p)[i] : i \in 1..n}
    BY <1>3 DEF Range
  <2>. QED
    BY <2>1, <2>2, <2>3, <2>4, <1>7
<1>11. /\ queues'[a] = Retained(p)
       /\ seen'[a] = (seen[a] \cup {m}) \ out
       /\ \A b \in Address : b # a => queues'[b] = queues[b] /\ seen'[b] = seen[b]
  BY <1>1, <1>2, <1>9 DEF IInv, TypeOK
<1>12. out \subseteq Range(q) /\ m \notin Range(q) /\ m \notin out
  <2>1. \A j \in 1..k : j \in 1..Len(q)
    BY <1>2, <1>3
  <2>. QED
    BY <2>1, <1>1, <1>5, <1>7, <1>8
<1>13. LifeOf[m] = "absent"
  BY <1>1, <1>12 DEF LifeOf, Held, a, q
<1>14. out \subseteq Life!HeldFor(a)
  <2>1. ASSUME NEW x \in out PROVE x \in MessageId /\ To[x] = a /\ LifeOf[x] = "held"
    BY <1>5, <1>7, <1>12 DEF LifeOf, Held, q
  <2>. QED
    BY <2>1 DEF Life!HeldFor
<1>15. \A x, y \in out : x = y
  BY <1>3, <1>4, <1>8
<1>16. LifeOf' = [x \in MessageId |-> IF x = m THEN "held"
                                     ELSE IF x \in out THEN "absent" ELSE LifeOf[x]]
  <2> SUFFICES ASSUME NEW x \in MessageId
               PROVE  LifeOf'[x] = IF x = m THEN "held"
                                   ELSE IF x \in out THEN "absent" ELSE LifeOf[x]
    BY DEF LifeOf
  <2>0. To[x] \in Address
    BY StoreAssumption
  <2>1. CASE To[x] # a
    <3>1. x # m /\ x \notin out
      BY <2>1, <1>5, <1>7, <1>12 DEF a
    <3>2. LifeOf'[x] = LifeOf[x]
      BY <2>0, <2>1, <1>11 DEF LifeOf, Held
    <3>. QED
      BY <3>1, <3>2
  <2>2. CASE To[x] = a
    <3>1. (Held(x))' = (x \in (Range(q) \ out) \cup {m})
      BY <2>2, <1>10, <1>11 DEF Held
    <3>2. Held(x) = (x \in Range(q))
      BY <2>2 DEF Held, q
    <3>3. (x \in seen[To[x]])' = (x \in (seen[a] \cup {m}) \ out)
      BY <2>2, <1>11
    <3>. QED
      BY <2>2, <3>1, <3>2, <3>3, <1>12 DEF LifeOf
  <2>. QED
    BY <2>1, <2>2
<1>17. Life!Arrive(m, out)
  BY <1>13, <1>14, <1>15, <1>16 DEF Life!Arrive, a
<1>. QED
  BY <1>14, <1>17 DEF Life!Next, a

(* What ack drops from a queue is freed, and only that. *)
LEMMA LifeAck ==
  ASSUME IInv, NEW a \in Address, NEW cursor \in Nat, Ack(a, cursor)
  PROVE  Life!Next
<1> DEFINE q == queues[a]
           k == Removed(a, cursor)
           t == SubSeq(q, k + 1, Len(q))
           ms == {q[i] : i \in 1..k}
<1>1. queues' = [queues EXCEPT ![a] = t] /\ seen' = seen
  BY DEF Ack
<1>2. q \in Seq(MessageId) /\ Len(q) \in Nat /\ DOMAIN q = 1..Len(q)
  BY LenProperties DEF IInv, TypeOK
<1>3. k \in 0..Len(q)
  BY <1>2 DEF Removed
<1>4. /\ DOMAIN t = 1..(Len(q) - k)
      /\ \A i \in 1..(Len(q) - k) : i + k \in 1..Len(q) /\ t[i] = q[i + k]
  <2> HIDE DEF q, k
  <2>. QED
    BY <1>2, <1>3, DropProperties
<1>5. /\ \A i, j \in 1..Len(q) : q[i] = q[j] => i = j
      /\ \A i \in 1..Len(q) : q[i] \in seen[a] /\ To[q[i]] = a /\ q[i] \in MessageId
  BY <1>2, ElementOfSeq DEF IInv, HeldOnce, IsInjective
<1>6. ms = {q[i] : i \in 1..k}
  OBVIOUS
<1>7. Range(q) = {q[i] : i \in 1..Len(q)}
  BY <1>2 DEF Range
<1> HIDE DEF q, k, t, ms
<1>8. \A j \in 1..k : j \in 1..Len(q)
  BY <1>2, <1>3
<1>9. Range(t) = Range(q) \ ms
  <2>1. ASSUME NEW i \in 1..(Len(q) - k) PROVE t[i] \in Range(q) \ ms
    <3>1. i + k \in 1..Len(q) /\ \A j \in 1..k : j # i + k
      BY <1>2, <1>3, <1>4
    <3>. QED
      BY <3>1, <1>4, <1>5, <1>6, <1>7, <1>8
  <2>2. ASSUME NEW j \in 1..Len(q), q[j] \notin ms
        PROVE  \E i \in 1..(Len(q) - k) : t[i] = q[j]
    <3>1. j \notin 1..k
      BY <2>2, <1>6
    <3>2. j - k \in 1..(Len(q) - k) /\ (j - k) + k = j
      BY <3>1, <1>2, <1>3
    <3>. QED
      BY <3>2, <1>4
  <2>3. Range(t) = {t[i] : i \in 1..(Len(q) - k)}
    BY <1>4 DEF Range
  <2>. QED
    BY <2>1, <2>2, <2>3, <1>7
<1>10. /\ queues'[a] = t
       /\ \A b \in Address : b # a => queues'[b] = queues[b]
  BY <1>1 DEF IInv, TypeOK
<1>11. ms \subseteq Range(q)
  BY <1>6, <1>7, <1>8
<1>12. ms \subseteq Life!HeldFor(a)
  <2>1. ASSUME NEW x \in ms PROVE x \in MessageId /\ To[x] = a /\ LifeOf[x] = "held"
    BY <1>5, <1>7, <1>11 DEF LifeOf, Held, q
  <2>. QED
    BY <2>1 DEF Life!HeldFor
<1>13. LifeOf' = [x \in MessageId |-> IF x \in ms THEN "freed" ELSE LifeOf[x]]
  <2> SUFFICES ASSUME NEW x \in MessageId
               PROVE  LifeOf'[x] = IF x \in ms THEN "freed" ELSE LifeOf[x]
    BY DEF LifeOf
  <2>1. To[x] \in Address
    BY StoreAssumption
  <2>2. CASE To[x] # a
    <3>1. x \notin ms
      BY <2>2, <1>5, <1>7, <1>11
    <3>2. LifeOf'[x] = LifeOf[x]
      BY <2>1, <2>2, <1>1, <1>10 DEF LifeOf, Held
    <3>. QED
      BY <3>1, <3>2
  <2>3. CASE To[x] = a
    <3>1. (Held(x))' = (x \in Range(q) \ ms)
      BY <2>3, <1>9, <1>10 DEF Held
    <3>2. Held(x) = (x \in Range(q))
      BY <2>3 DEF Held, q
    <3>3. x \in ms => x \in seen[a]
      BY <1>5, <1>7, <1>11
    <3>. QED
      BY <2>3, <3>1, <3>2, <3>3, <1>1 DEF LifeOf
  <2>. QED
    BY <2>2, <2>3
<1>14. Life!Free(a, ms)
  BY <1>12, <1>13 DEF Life!Free
<1>. QED
  BY <1>12, <1>14 DEF Life!Next

(* Reloading rebuilds the index from the queues: what was freed is forgotten. *)
LEMMA LifeReload ==
  ASSUME IInv, Reload
  PROVE  Life!Next
<1>1. queues' = queues /\ seen' = [a \in Address |-> Range(queues[a])]
  BY DEF Reload, FromBytes, ToBytes
<1>2. ASSUME NEW m \in MessageId
      PROVE  LifeOf'[m] = IF LifeOf[m] = "freed" THEN "absent" ELSE LifeOf[m]
  <2>1. To[m] \in Address
    BY StoreAssumption
  <2>2. (Held(m))' = Held(m) /\ (m \in seen[To[m]])' = Held(m)
    BY <1>1, <2>1 DEF Held
  <2>. QED
    BY <2>2 DEF LifeOf
<1>3. LifeOf' = [m \in MessageId |-> LifeOf'[m]]
  BY DEF LifeOf
<1>4. Life!Forget
  BY <1>2, <1>3 DEF Life!Forget
<1>. QED
  BY <1>4 DEF Life!Next

(* Every behaviour of the store is one of the message life cycle: a        *)
(* message is lost unacknowledged only to a newer one for its recipient,   *)
(* and a freed one returns only after a restart.                           *)
THEOREM StoreImplementsLife == StoreSpec => LifeSpec
<1>1. ASSUME IInv, [StoreNext]_storeVars PROVE [Life!Next]_LifeOf
  <2>1. ASSUME NEW m \in MessageId, NEW verifies \in BOOLEAN, Accept(m, verifies)
        PROVE  [Life!Next]_LifeOf
    <3>1. CASE AcceptResult(m, verifies) = "Stored"
      BY <1>1, <2>1, <3>1, LifeAccept
    <3>2. CASE AcceptResult(m, verifies) # "Stored"
      BY <2>1, <3>2, LifeUnchanged DEF Accept, storeVars
    <3>. QED
      BY <3>1, <3>2
  <2>2. ASSUME NEW a \in Address, NEW cursor \in 0..MaxCursor, Ack(a, cursor)
        PROVE  [Life!Next]_LifeOf
    BY <1>1, <2>2, LifeAck, StoreAssumption
  <2>3. ASSUME NEW a \in Address, NEW r \in Receipt, NEW verifies \in BOOLEAN,
               PutReceipt(a, r, verifies)
        PROVE  [Life!Next]_LifeOf
    BY <2>3, LifeUnchanged DEF PutReceipt, storeVars
  <2>4. ASSUME NEW a \in Address, CollectReceipts(a) PROVE [Life!Next]_LifeOf
    BY <2>4, LifeUnchanged DEF CollectReceipts
  <2>5. CASE Reload
    BY <1>1, <2>5, LifeReload
  <2>6. CASE UNCHANGED storeVars
    BY <2>6, LifeUnchanged DEF storeVars
  <2>. QED
    BY <1>1, <2>1, <2>2, <2>3, <2>4, <2>5, <2>6 DEF StoreNext
<1>. QED
  BY <1>1, LifeInit, StoreInvariant, PTL DEF StoreSpec, LifeSpec, Life!Spec
=============================================================================
