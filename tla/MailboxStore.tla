---------------------------- MODULE MailboxStore ----------------------------
(***************************************************************************)
(* The store-and-forward mailbox of src/src/mailbox.rs: one ordered queue  *)
(* of envelopes per recipient and one of receipts per sender, each with an *)
(* index of the keys already stored, both bounded by a capacity.           *)
(*                                                                         *)
(* Every method that changes the struct is an action; SharedMailbox runs   *)
(* each of them under one lock, so an action is one atomic step.  A key    *)
(* missing from one of the HashMaps is a key mapped to an empty value.     *)
(* An envelope is its message id: the id is a hash of everything signed,   *)
(* so it fixes the recipient To[m].                                        *)
(***************************************************************************)
EXTENDS Naturals, Sequences, FiniteSets, Functions

CONSTANTS
  Address,       \* the strings a queue is keyed by (`to`, `for_sender`)
  NoAddress,     \* the empty string
  MessageId,     \* message ids (content hashes)
  To,            \* To[m]: the `to` field of the envelope with id m
  ReceiptKind,   \* Delivered, Read
  Receipt,       \* the receipts recipients issue
  Capacity,      \* the capacities an operator can configure
  MaxCursor,     \* bound: the largest cursor a caller passes to ack
  UsizeModulus   \* usize arithmetic wraps at this value

ASSUME StoreAssumption ==
  /\ NoAddress \in Address
  /\ To \in [MessageId -> Address]
  /\ Receipt \subseteq
       [message_id : MessageId, kind : ReceiptKind, by : Address, at : Nat]
  /\ Capacity \subseteq Nat
  /\ MaxCursor \in Nat
  /\ UsizeModulus \in Nat \ {0}

ReceiptKey == MessageId \X ReceiptKind \X Address

(* Two receipts with one key are one acknowledgement, whatever their time. *)
DedupKey(r) == <<r.message_id, r.kind, r.by>>

VARIABLES
  queues,         \* queues[a]: the envelopes held for a, oldest first
  seen,           \* seen[a]: the message ids stored for a and not forgotten
  receipts,       \* receipts[a]: the receipts held for sender a
  receipts_seen,  \* receipts_seen[a]: their dedup keys
  capacity        \* envelopes (and receipts) retained per address

storeVars == <<queues, seen, receipts, receipts_seen, capacity>>

TypeOK ==
  /\ queues \in [Address -> Seq(MessageId)]
  /\ seen \in [Address -> SUBSET MessageId]
  /\ receipts \in [Address -> Seq(Receipt)]
  /\ receipts_seen \in [Address -> SUBSET ReceiptKey]
  /\ capacity \in Nat \ {0}

-----------------------------------------------------------------------------

(* Mutant of AtLeastOne: a capacity of zero is taken as it is. *)
KeepZero(n) == n

AtLeastOne(n) == IF n = 0 THEN 1 ELSE n

Empty == [a \in Address |-> <<>>]

Keys(rs) == {DedupKey(rs[i]) : i \in DOMAIN rs}

New(c) ==
  /\ queues = Empty
  /\ seen = [a \in Address |-> {}]
  /\ receipts = Empty
  /\ receipts_seen = [a \in Address |-> {}]
  /\ capacity = AtLeastOne(c)

StoreInit == \E c \in Capacity : New(c)

-----------------------------------------------------------------------------

(* Mutant of Overflow: an off-by-one in the comparison with the capacity. *)
OverflowLate(q) == IF Len(q) > capacity + 1 THEN Len(q) - capacity ELSE 0

(* What the bounded retention keeps of a queue that was just appended to,  *)
(* and what it evicts: the oldest entries beyond the capacity.             *)
Overflow(q) == IF Len(q) > capacity THEN Len(q) - capacity ELSE 0

(* Mutant of Retained: the newest entries make room, not the oldest. *)
RetainOldest(q) == SubSeq(q, 1, Len(q) - Overflow(q))

Retained(q) == SubSeq(q, Overflow(q) + 1, Len(q))

(* Mutant of Evicted: the index forgets the newest ids. *)
EvictedNewest(q) == SubSeq(q, Len(q) - Overflow(q) + 1, Len(q))

Evicted(q) == SubSeq(q, 1, Overflow(q))

AcceptResult(m, verifies) ==
  IF ~verifies \/ To[m] = NoAddress THEN "Error"
  ELSE IF m \in seen[To[m]] THEN "Duplicate" ELSE "Stored"

(* accept: `verifies` says whether the envelope's signature does. *)
Accept(m, verifies) ==
  \/ LET a == To[m]
         q == Append(queues[a], m)
     IN  /\ AcceptResult(m, verifies) = "Stored"
         /\ queues' = [queues EXCEPT ![a] = Retained(q)]
         /\ seen' = [seen EXCEPT ![a] = (@ \cup {m}) \ Range(Evicted(q))]
         /\ UNCHANGED <<receipts, receipts_seen, capacity>>
  \/ /\ AcceptResult(m, verifies) # "Stored"
     /\ UNCHANGED storeVars

PutReceiptResult(a, r, verifies) ==
  IF ~verifies \/ a = NoAddress THEN "Error"
  ELSE IF DedupKey(r) \in receipts_seen[a] THEN "Duplicate" ELSE "Stored"

PutReceipt(a, r, verifies) ==
  \/ LET q == Append(receipts[a], r)
     IN  /\ PutReceiptResult(a, r, verifies) = "Stored"
         /\ receipts' = [receipts EXCEPT ![a] = Retained(q)]
         /\ receipts_seen' =
              [receipts_seen EXCEPT ![a] = (@ \cup {DedupKey(r)}) \ Keys(Evicted(q))]
         /\ UNCHANGED <<queues, seen, capacity>>
  \/ /\ PutReceiptResult(a, r, verifies) # "Stored"
     /\ UNCHANGED storeVars

(* Mutant of CollectReceipts: the index keeps the keys of what was taken. *)
CollectKeepsIndex(a) ==
  /\ receipts' = [receipts EXCEPT ![a] = <<>>]
  /\ UNCHANGED <<queues, seen, receipts_seen, capacity>>

(* collect_receipts: hand over and forget everything held for the sender. *)
CollectReceipts(a) ==
  /\ receipts' = [receipts EXCEPT ![a] = <<>>]
  /\ receipts_seen' = [receipts_seen EXCEPT ![a] = {}]
  /\ UNCHANGED <<queues, seen, capacity>>

(* Mutant of Removed: the envelope at the cursor is freed too. *)
RemovedInclusive(a, cursor) ==
  IF cursor + 1 < Len(queues[a]) THEN cursor + 1 ELSE Len(queues[a])

(* The number of envelopes ack frees: its cursor, clamped to the queue. *)
Removed(a, cursor) == IF cursor < Len(queues[a]) THEN cursor ELSE Len(queues[a])

(* Mutant of Ack: freed ids leave the index as well. *)
AckForgets(a, cursor) ==
  /\ queues' = [queues EXCEPT ![a] = SubSeq(@, Removed(a, cursor) + 1, Len(@))]
  /\ seen' = [seen EXCEPT ![a] = @ \ Range(SubSeq(queues[a], 1, Removed(a, cursor)))]
  /\ UNCHANGED <<receipts, receipts_seen, capacity>>

(* Mutant of Ack: envelopes are freed from the wrong end. *)
AckNewest(a, cursor) ==
  /\ queues' = [queues EXCEPT ![a] = SubSeq(@, 1, Len(@) - Removed(a, cursor))]
  /\ UNCHANGED <<seen, receipts, receipts_seen, capacity>>

(* ack: the ids stay in `seen`, so a freed message is not stored again. *)
Ack(a, cursor) ==
  /\ queues' = [queues EXCEPT ![a] = SubSeq(@, Removed(a, cursor) + 1, Len(@))]
  /\ UNCHANGED <<seen, receipts, receipts_seen, capacity>>

-----------------------------------------------------------------------------

(* Mutant of ReadFrom: the newest envelope is left for the next time. *)
ReadAllButLast(a, since) ==
  LET end == IF Len(queues[a]) = 0 THEN 0 ELSE Len(queues[a]) - 1
  IN  [envelopes |-> SubSeq(queues[a], since + 1, end), cursor |-> end]

(* The reads: non-destructive, positional, `since` counts envelopes from   *)
(* the head of the queue as it is now.                                     *)
ReadFrom(a, since) ==
  [envelopes |-> SubSeq(queues[a], since + 1, Len(queues[a])),
   cursor    |-> Len(queues[a])]

(* The sum wraps when the caller's limit is not clamped; an end before     *)
(* `since` is a slice that panics.                                         *)
PageEnd(a, since, limit) ==
  LET end == (since + AtLeastOne(limit)) % UsizeModulus
  IN  IF since < Len(queues[a]) /\ end < Len(queues[a]) THEN end ELSE Len(queues[a])

ReadPage(a, since, limit) ==
  [envelopes |-> SubSeq(queues[a], since + 1, PageEnd(a, since, limit)),
   cursor    |-> PageEnd(a, since, limit),
   more      |-> PageEnd(a, since, limit) < Len(queues[a])]

-----------------------------------------------------------------------------

(* What try_to_bytes writes: neither index is persisted. *)
ToBytes == [format |-> "v2", queues |-> queues, capacity |-> capacity, receipts |-> receipts]

(* Mutant of FromBytes: the capacity a file carries is taken as it is. *)
FromBytesAsIs(bytes) ==
  /\ queues' = bytes.queues
  /\ seen' = [a \in Address |-> Range(queues'[a])]
  /\ receipts' = IF bytes.format = "v2" THEN bytes.receipts ELSE Empty
  /\ receipts_seen' = [a \in Address |-> Keys(receipts'[a])]
  /\ capacity' = bytes.capacity

(* from_bytes: rebuild a store from its bytes.  The indexes hold what the  *)
(* queues hold, and nothing that ack freed; a legacy (v1) store carries no *)
(* receipts.                                                               *)
FromBytes(bytes) ==
  /\ queues' = bytes.queues
  /\ seen' = [a \in Address |-> Range(queues'[a])]
  /\ receipts' = IF bytes.format = "v2" THEN bytes.receipts ELSE Empty
  /\ receipts_seen' = [a \in Address |-> Keys(receipts'[a])]
  /\ capacity' = AtLeastOne(bytes.capacity)

(* A process that saves its store, stops and loads it again. *)
Reload == FromBytes(ToBytes)

StoreNext ==
  \/ \E m \in MessageId, verifies \in BOOLEAN : Accept(m, verifies)
  \/ \E a \in Address, cursor \in 0..MaxCursor : Ack(a, cursor)
  \/ \E a \in Address, r \in Receipt, verifies \in BOOLEAN : PutReceipt(a, r, verifies)
  \/ \E a \in Address : CollectReceipts(a)
  \/ Reload

StoreSpec == StoreInit /\ [][StoreNext]_storeVars

-----------------------------------------------------------------------------

(* A message is held at most once, only for the address it was sent to,    *)
(* and while it is held its id is in the index, so that a redelivery, a    *)
(* retry or a gossip duplicate cannot store it again.                      *)
HeldOnce ==
  \A a \in Address :
    /\ IsInjective(queues[a])
    /\ \A i \in DOMAIN queues[a] : queues[a][i] \in seen[a] /\ To[queues[a][i]] = a

(* The receipt index is exactly the keys of the receipts held, and no two  *)
(* receipts held have one key: eviction and collection forget both sides,  *)
(* so an evicted or collected acknowledgement can be deposited again.      *)
ReceiptIndexExact ==
  \A a \in Address :
    /\ receipts_seen[a] = Keys(receipts[a])
    /\ \A i, j \in DOMAIN receipts[a] :
         DedupKey(receipts[a][i]) = DedupKey(receipts[a][j]) => i = j

(* No address holds more than the capacity, whatever was stored and loaded. *)
Bounded ==
  \A a \in Address : Len(queues[a]) <= capacity /\ Len(receipts[a]) <= capacity

(* What a store with these properties leaves in a file. *)
SavedStore(bytes) ==
  /\ bytes.queues \in [Address -> Seq(MessageId)] /\ bytes.capacity \in Nat
  /\ \A a \in Address :
       /\ Len(bytes.queues[a]) <= AtLeastOne(bytes.capacity)
       /\ IsInjective(bytes.queues[a])
       /\ \A i \in DOMAIN bytes.queues[a] : To[bytes.queues[a][i]] = a
  /\ bytes.format = "v2" =>
       /\ bytes.receipts \in [Address -> Seq(Receipt)]
       /\ \A a \in Address :
            /\ Len(bytes.receipts[a]) <= AtLeastOne(bytes.capacity)
            /\ \A i, j \in DOMAIN bytes.receipts[a] :
                 DedupKey(bytes.receipts[a][i]) = DedupKey(bytes.receipts[a][j]) => i = j

(* q is p without some of its oldest entries. *)
DropsOldest(p, q) == \E n \in 0..Len(p) : q = SubSeq(p, n + 1, Len(p))

(* Mail is replayed in arrival order: a step may drop a queue's oldest     *)
(* envelopes and append one that was not in the index, and nothing else.   *)
FifoStep ==
  \A a \in Address :
    \/ DropsOldest(queues[a], queues'[a])
    \/ \E m \in MessageId \ seen[a] : DropsOldest(Append(queues[a], m), queues'[a])

ArrivalOrderKept == [][FifoStep]_storeVars

(* What accept's comment promises of the index: its size is bounded like   *)
(* the queue's.                                                            *)
SeenBounded == \A a \in Address : Cardinality(seen[a]) <= capacity

-----------------------------------------------------------------------------

(* The store implements the message life cycle: held is in the queue,      *)
(* freed is in the index only.                                             *)
Held(m) == m \in Range(queues[To[m]])

LifeOf ==
  [m \in MessageId |-> IF Held(m) THEN "held"
                       ELSE IF m \in seen[To[m]] THEN "freed" ELSE "absent"]

Life == INSTANCE MessageLife WITH life <- LifeOf

LifeSpec == Life!Spec
=============================================================================
