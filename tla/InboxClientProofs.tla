-------------------------- MODULE InboxClientProofs --------------------------
(***************************************************************************)
(* Proofs about the inbox command: what its cursors count is listed mail   *)
(* for as long as the mailbox overtakes no position, whatever is           *)
(* delivered, saved or lost meanwhile and wherever either side is killed.  *)
(*                                                                         *)
(* A position is covered by a set of messages when the queue is that long  *)
(* and everything before the position is in the set.  The invariant says   *)
(* of each position that is not stale (the one in the file, the one the    *)
(* running command counts from, those of late acks) by what it is covered. *)
(***************************************************************************)
EXTENDS InboxClient, MailboxStoreProofs

(* The owner never gives a --since of its own but 0: a number typed in may *)
(* skip anything.                                                          *)
FollowsItsCursor == \A o \in Option : o.since \in {0, Saved}

Queue == queues[Owner]

(* What is in the queue from one position to another. *)
Covered(q, from, to, set) == to <= Len(q) /\ \A i \in (from + 1)..to : q[i] \in set

Lengthens(p, q) == Len(p) <= Len(q) /\ \A i \in 1..Len(p) : q[i] = p[i]

(* The types, and what makes the mailbox's file one a restart can load.    *)
Types == InboxTypeOK /\ IInv /\ SavedStore(store_file)

Positions ==
  /\ ~cursor_stale => Covered(Queue, 0, cursor_file, shown)
  /\ ~stale /\ pc = "draining" => Covered(Queue, 0, start, shown)
  /\ ~stale /\ pc = "printing" => Covered(Queue, 0, cursor, shown \cup Range(drained))
  /\ ~stale /\ pc \in {"snapshot", "cursor", "acking"} => Covered(Queue, 0, cursor, shown)
  /\ \A late \in late_acks : ~late.stale => Covered(Queue, 0, late.cursor, shown)

(* What the running command has in memory, or just put in the snapshot. *)
Batch ==
  /\ pc \in {"draining", "printing", "snapshot", "cursor"} => start \in {0, cursor_file}
  /\ ~stale /\ pc \in {"printing", "snapshot"} => Covered(Queue, start, cursor, Range(drained))
  /\ ~stale /\ pc = "cursor" => Covered(Queue, start, cursor, inbox_file)

InboxInv == Types /\ Positions /\ Batch /\ FreshAcksFreeOnlyListedMail

-----------------------------------------------------------------------------
(* Positions in queues.                                                    *)

(* The queue of the owner, and that nothing is in it twice. *)
LEMMA QueueFacts ==
  ASSUME IInv
  PROVE  /\ Queue \in Seq(MessageId) /\ Len(Queue) \in Nat /\ DOMAIN Queue = 1..Len(Queue)
         /\ \A i, j \in 1..Len(Queue) : Queue[i] = Queue[j] => i = j
         /\ \A i \in 1..Len(Queue) : Queue[i] \in seen[Owner]
<1>1. Owner \in Address
  BY InboxAssumption
<1>2. Queue \in Seq(MessageId)
  BY <1>1 DEF IInv, TypeOK, Queue
<1>3. Len(Queue) \in Nat /\ DOMAIN Queue = 1..Len(Queue)
  BY <1>2, LenProperties
<1> QED
  BY <1>1, <1>2, <1>3 DEF IInv, HeldOnce, IsInjective, Queue

(* A part of a queue, and what is in it. *)
LEMMA SliceOf ==
  ASSUME NEW S, NEW q \in Seq(S), NEW first \in Nat \ {0}, NEW last \in 0..Len(q)
  PROVE  /\ SubSeq(q, first, last) \in Seq(S) /\ Range(SubSeq(q, first, last)) \subseteq S
         /\ \A set : (\A i \in first..last : q[i] \in set) => Range(SubSeq(q, first, last)) \subseteq set
         /\ \A i \in first..last : q[i] \in Range(SubSeq(q, first, last))
<1> DEFINE t == SubSeq(q, first, last)
           n == IF first <= last THEN last - first + 1 ELSE 0
<1>1. Len(q) \in Nat /\ \A i \in 1..Len(q) : q[i] \in S
  BY LenProperties, ElementOfSeq
<1>2. first \in Int /\ last \in Int /\ \A i \in first..last : q[i] \in S
  BY <1>1
<1>3. /\ t \in Seq(S) /\ Len(t) = n
      /\ \A i \in 1..(last - first + 1) : t[i] = q[first + i - 1]
  BY <1>2, SubSeqProperties
<1>4. n \in Nat /\ DOMAIN t = 1..n
  BY <1>1, <1>3, LenProperties
<1> HIDE DEF t
<1>5. \A i \in 1..n : first + i - 1 \in first..last /\ t[i] = q[first + i - 1]
  BY <1>1, <1>3
<1>6. \A i \in first..last : i - first + 1 \in 1..n /\ first + (i - first + 1) - 1 = i
  BY <1>1
<1>7. \A set : (\A i \in first..last : q[i] \in set) => Range(t) \subseteq set
  BY <1>4, <1>5 DEF Range
<1>8. ASSUME NEW i \in first..last PROVE q[i] \in Range(t)
  <2>1. i - first + 1 \in 1..n /\ t[i - first + 1] = q[i]
    BY <1>5, <1>6
  <2> QED
    BY <1>4, <2>1 DEF Range
<1>9. Range(t) \subseteq S
  BY <1>2, <1>7
<1> QED
  BY <1>3, <1>7, <1>8, <1>9 DEF t

LEMMA CoveredByMore ==
  ASSUME NEW q, NEW from, NEW to, NEW set, NEW more, set \subseteq more, Covered(q, from, to, set)
  PROVE  Covered(q, from, to, more)
  BY DEF Covered

(* A queue that drops its oldest entries and keeps its first one, in which *)
(* nothing is twice, drops none.                                           *)
LEMMA KeptHead ==
  ASSUME NEW S, NEW p \in Seq(S), NEW q \in Seq(S), DropsOldest(p, q),
         p # <<>>, q # <<>>, q[1] = p[1], \A i \in 1..Len(p) : p[i] = p[1] => i = 1
  PROVE  Lengthens(p, q)
<1>1. PICK n \in 0..Len(p) : q = SubSeq(p, n + 1, Len(p))
  BY DEF DropsOldest
<1>2. /\ Len(q) = Len(p) - n /\ Len(p) \in Nat
      /\ \A i \in 1..(Len(p) - n) : i + n \in 1..Len(p) /\ q[i] = p[i + n]
  BY <1>1, DropProperties, LenProperties
<1>3. Len(q) \in Nat /\ Len(q) # 0
  BY EmptySeq, LenProperties
<1>4. 1 \in 1..(Len(p) - n) /\ 1 + n \in 1..Len(p) /\ p[1 + n] = p[1]
  BY <1>2, <1>3
<1>5. n = 0
  BY <1>1, <1>4
<1> QED
  BY <1>2, <1>5 DEF Lengthens

(* While the head stays, a step of the store only lengthens the queue.     *)
LEMMA UnshiftedLengthens ==
  ASSUME IInv, IInv', FifoStep
  PROVE  Shifted = Nat \ {0} \/ Lengthens(Queue, Queue')
<1> DEFINE q == Queue
           r == Queue'
<1>1. /\ q \in Seq(MessageId) /\ Len(q) \in Nat
      /\ \A i, j \in 1..Len(q) : q[i] = q[j] => i = j
      /\ \A i \in 1..Len(q) : q[i] \in seen[Owner]
      /\ r \in Seq(MessageId) /\ Len(r) \in Nat
  BY QueueFacts, InboxAssumption, LenProperties DEF IInv, TypeOK, Queue
<1>2. \/ DropsOldest(q, r)
      \/ \E m \in MessageId \ seen[Owner] : DropsOldest(Append(q, m), r)
  BY InboxAssumption DEF FifoStep, Queue
<1>3. Shifted = IF q # <<>> /\ (r = <<>> \/ r[1] # q[1]) THEN Nat \ {0} ELSE {}
  BY DEF Shifted, Queue
<1> HIDE DEF q, r
<1>4. CASE q = <<>>
  <2>1. Len(q) = 0
    BY <1>4, EmptySeq
  <2>2. Lengthens(q, r)
    BY <1>1, <2>1 DEF Lengthens
  <2> QED
    BY <2>2 DEF q, r
<1>5. CASE q # <<>> /\ r # <<>> /\ r[1] = q[1]
  <2>0. 1 \in 1..Len(q)
    BY <1>1, <1>5, EmptySeq
  <2>1. CASE DropsOldest(q, r)
    <3>1. Lengthens(q, r)
      BY <1>1, <1>5, <2>0, <2>1, KeptHead
    <3> QED
      BY <3>1 DEF q, r
  <2>2. CASE \E m \in MessageId \ seen[Owner] : DropsOldest(Append(q, m), r)
    <3>1. PICK m \in MessageId \ seen[Owner] : DropsOldest(Append(q, m), r)
      BY <2>2
    <3> DEFINE p == Append(q, m)
    <3>2. /\ p \in Seq(MessageId) /\ Len(p) = Len(q) + 1 /\ p[Len(q) + 1] = m
          /\ \A i \in 1..Len(q) : p[i] = q[i]
      BY <1>1, AppendProperties
    <3>3. DropsOldest(p, r)
      BY <3>1
    <3> HIDE DEF p
    <3>4. p # <<>> /\ p[1] = q[1]
      BY <1>1, <2>0, <3>2, EmptySeq
    <3>5. \A i \in 1..Len(p) : p[i] = p[1] => i = 1
      BY <1>1, <2>0, <3>1, <3>2, <3>4
    <3>6. Lengthens(p, r)
      BY <1>1, <1>5, <3>2, <3>3, <3>4, <3>5, KeptHead
    <3>7. Lengthens(q, r)
      BY <1>1, <3>2, <3>6 DEF Lengthens
    <3> QED
      BY <3>7 DEF q, r
  <2> QED
    BY <1>2, <2>1, <2>2
<1> QED
  BY <1>3, <1>4, <1>5

(* A step that overtakes no position but these leaves the envelopes that   *)
(* any other position counts.                                              *)
OvertakesOnly(overtaken) ==
  \A c \in Nat \ overtaken : c <= Len(Queue) =>
    c <= Len(Queue') /\ \A i \in 1..c : Queue'[i] = Queue[i]

(* Deliveries and acks overtake all positions, by losing the head, or none. *)
LEMMA OperationsOvertake ==
  ASSUME IInv, IInv', FifoStep
  PROVE  OvertakesOnly(Shifted)
<1>1. Len(Queue) \in Nat /\ Len(Queue') \in Nat
  BY LenProperties, InboxAssumption DEF IInv, TypeOK, Queue
<1>2. CASE Shifted = Nat \ {0}
  BY <1>1, <1>2 DEF OvertakesOnly
<1>3. CASE Lengthens(Queue, Queue')
  BY <1>1, <1>3 DEF OvertakesOnly, Lengthens
<1> QED
  BY <1>2, <1>3, UnshiftedLengthens

LEMMA RestartsOvertake == OvertakesOnly(TakenBack)
  BY DEF OvertakesOnly, TakenBack, Queue

LEMMA CoveredStays ==
  ASSUME Types, NEW overtaken, OvertakesOnly(overtaken), NEW from \in Nat,
         NEW to \in Nat \ overtaken, NEW set, Covered(Queue, from, to, set)
  PROVE  Covered(Queue', from, to, set)
<1>1. to <= Len(Queue) /\ \A i \in (from + 1)..to : Queue[i] \in set /\ i \in 1..to
  BY DEF Covered
<1>2. to <= Len(Queue') /\ \A i \in 1..to : Queue'[i] = Queue[i]
  BY <1>1 DEF OvertakesOnly
<1> QED
  BY <1>1, <1>2 DEF Covered

-----------------------------------------------------------------------------
(* The types hold for every --since, one that was typed in included.       *)

LEMMA TypesStart == InboxInit => Types
<1> SUFFICES ASSUME InboxInit PROVE Types
  OBVIOUS
<1>1. IInv /\ SavedStore(ToBytes)
  BY InitInv, SavedBytes DEF InboxInit
<1>2. <<>> \in Seq(MessageId)
  BY EmptySeq
<1>3. InboxTypeOK
  BY <1>1, <1>2 DEF InboxInit, InboxTypeOK, IInv, TypeOK, ToBytes
<1> QED
  BY <1>1, <1>3 DEF InboxInit, Types

LEMMA AcksStaleType ==
  ASSUME InboxTypeOK, NEW acks \in SUBSET late_acks, NEW overtaken
  PROVE  AcksStale(acks, overtaken) \subseteq [cursor : Nat, stale : BOOLEAN]
<1> SUFFICES ASSUME NEW late \in acks
             PROVE  [late EXCEPT !.stale = late.stale \/ late.cursor \in overtaken]
                      \in [cursor : Nat, stale : BOOLEAN]
  BY DEF AcksStale
<1> DEFINE b == late.stale \/ late.cursor \in overtaken
<1>1. b \in BOOLEAN /\ late \in [cursor : Nat, stale : BOOLEAN]
  BY DEF InboxTypeOK
<1> HIDE DEF b
<1>2. [late EXCEPT !.stale = b] \in [cursor : Nat, stale : BOOLEAN]
  BY <1>1
<1> QED
  BY <1>2 DEF b

(* What the mailbox does for an ack. *)
LEMMA FreeTypes ==
  ASSUME Types, NEW c \in Nat, NEW is_stale \in BOOLEAN, Free(c, is_stale)
  PROVE  IInv' /\ FifoStep /\ lossy_acks' \subseteq {"fresh", "stale"}
<1>1. Owner \in Address /\ Ack(Owner, c) /\ IInv
  BY InboxAssumption DEF Free, Types
<1>2. lossy_acks' \in {lossy_acks, lossy_acks \cup {"fresh"}, lossy_acks \cup {"stale"}}
  BY DEF Free
<1> QED
  BY <1>1, <1>2, AckInv, FifoAck DEF Types, InboxTypeOK

LEMMA TypesStep == Types /\ [InboxNext]_inboxVars => Types'
<1> SUFFICES ASSUME Types, [InboxNext]_inboxVars PROVE Types'
  OBVIOUS
<1> USE DEF Types, InboxTypeOK, commandVars, fileVars
<1>1. ASSUME UNCHANGED mailboxVars PROVE IInv' /\ TypeOK' /\ SavedStore(store_file)' /\ UNCHANGED store_file
  BY <1>1, UnchangedInv DEF IInv, mailboxVars
<1>2. CASE Run
  BY <1>1, <1>2, InboxAssumption DEF Run
<1>3. CASE Drain
  <2>1. Queue \in Seq(MessageId) /\ start + 1 \in Nat \ {0} /\ Len(Queue) \in 0..Len(Queue)
    BY QueueFacts
  <2>2. drained' \in Seq(MessageId) /\ cursor' \in Nat
    BY <1>3, <2>1, SliceOf DEF Drain, ReadFrom, Queue
  <2> QED
    BY <1>1, <1>3, <2>2 DEF Drain
<1>4. <<>> \in Seq(MessageId)
  BY EmptySeq
<1>5. CASE PrintInbox \/ SaveSnapshot \/ WriteCursor
  <2>1. Range(drained) \subseteq MessageId
    BY LenProperties, ElementOfSeq DEF Range
  <2> QED
    BY <1>1, <1>4, <1>5, <2>1 DEF PrintInbox, SaveSnapshot, WriteCursor
<1>6. CASE NoAck \/ Abort \/ AckTimesOut
  <2>1. [cursor |-> cursor, stale |-> stale] \in [cursor : Nat, stale : BOOLEAN]
    OBVIOUS
  <2>2. /\ UNCHANGED <<mailboxVars, fileVars, shown, cursor_stale, lossy_acks>>
        /\ Exit
        /\ late_acks' = late_acks \/ late_acks' = late_acks \cup {[cursor |-> cursor, stale |-> stale]}
    BY <1>6 DEF NoAck, Abort, AckTimesOut
  <2>3. late_acks' \subseteq [cursor : Nat, stale : BOOLEAN]
    BY <2>1, <2>2
  <2> QED
    BY <1>1, <1>4, <2>2, <2>3 DEF Exit
<1>7. \A overtaken :
        /\ AcksStale(late_acks, overtaken) \subseteq [cursor : Nat, stale : BOOLEAN]
        /\ \A late \in late_acks :
             AcksStale(late_acks \ {late}, overtaken) \subseteq [cursor : Nat, stale : BOOLEAN]
  BY AcksStaleType
<1>8. \A overtaken : CursorStale(overtaken) \in BOOLEAN /\ PositionStale(overtaken) \in BOOLEAN
  BY DEF CursorStale, PositionStale
<1>9. CASE SendAck
  <2>1. IInv' /\ lossy_acks' \subseteq {"fresh", "stale"}
    BY <1>9, FreeTypes DEF SendAck
  <2> QED
    BY <1>4, <1>7, <1>8, <1>9, <2>1 DEF SendAck, Exit, IInv
<1>10. CASE LateAck
  <2>1. PICK late \in late_acks : /\ Free(late.cursor, late.stale)
                                  /\ late_acks' = AcksStale(late_acks \ {late}, Shifted)
    BY <1>10 DEF LateAck
  <2>2. late.cursor \in Nat /\ late.stale \in BOOLEAN
    OBVIOUS
  <2>3. IInv' /\ lossy_acks' \subseteq {"fresh", "stale"}
    BY <2>1, <2>2, FreeTypes
  <2> QED
    BY <1>7, <1>8, <1>10, <2>1, <2>3 DEF LateAck, IInv
<1>11. CASE Deliver
  <2>0. PICK m \in MessageId : Accept(m, TRUE)
    BY <1>11 DEF Deliver
  <2>1. IInv'
    BY <2>0, AcceptInv, UnchangedInv DEF Accept
  <2> QED
    BY <1>7, <1>8, <1>11, <2>1 DEF Deliver, IInv
<1>12. CASE SaveStore
  <2>1. IInv' /\ SavedStore(ToBytes) /\ store_file' = ToBytes
    BY <1>12, UnchangedInv, SavedBytes DEF SaveStore
  <2>2. ToBytes \in [format : {"v2"}, queues : [Address -> Seq(MessageId)], capacity : Nat,
                     receipts : [Address -> Seq(Receipt)]]
    BY DEF ToBytes, TypeOK
  <2> QED
    BY <1>12, <2>1, <2>2 DEF SaveStore, IInv
<1>13. CASE RestartMailbox
  <2>1. IInv'
    BY <1>13, LoadInv DEF RestartMailbox
  <2> QED
    BY <1>7, <1>8, <1>13, <2>1 DEF RestartMailbox, IInv
<1>14. CASE UNCHANGED inboxVars
  BY <1>1, <1>14 DEF inboxVars
<1> QED
  BY <1>2, <1>3, <1>5, <1>6, <1>9, <1>10, <1>11, <1>12, <1>13, <1>14 DEF InboxNext, Command

(* Whatever --since the owner gives, however late its acks arrive and      *)
(* whatever file the mailbox restarts from, the state keeps its types: no  *)
(* position below zero, nothing listed that is not a message.              *)
THEOREM InboxTypesOK == InboxSpec => []InboxTypeOK
<1>1. Types => InboxTypeOK
  BY DEF Types
<1> QED
  BY <1>1, TypesStart, TypesStep, PTL DEF InboxSpec

-----------------------------------------------------------------------------
(* Steps of the command alone.                                             *)

LEMMA InboxStart == InboxInit => InboxInv
<1> SUFFICES ASSUME InboxInit PROVE InboxInv
  OBVIOUS
<1>1. Types
  BY TypesStart
<1>2. Len(Queue) \in Nat
  BY <1>1, QueueFacts DEF Types
<1>3. Positions /\ Batch /\ FreshAcksFreeOnlyListedMail
  BY <1>2 DEF InboxInit, Positions, Batch, Covered, FreshAcksFreeOnlyListedMail
<1> QED
  BY <1>1, <1>3 DEF InboxInv

LEMMA RunInv == FollowsItsCursor /\ InboxInv /\ Types' /\ Run => InboxInv'
<1> SUFFICES ASSUME FollowsItsCursor, InboxInv, Types', Run PROVE InboxInv'
  OBVIOUS
<1>1. PICK o \in Option : start' = (IF o.since = Saved THEN cursor_file ELSE o.since)
  BY DEF Run
<1>2. start' = 0 \/ start' = cursor_file
  BY <1>1, InboxAssumption DEF FollowsItsCursor
<1>3. queues' = queues /\ (~stale' => start' = 0 \/ ~cursor_stale)
  BY DEF Run, mailboxVars, storeVars
<1>4. ~stale' => Covered(Queue, 0, start', shown)
  <2>1. Len(Queue) \in Nat
    BY QueueFacts DEF InboxInv, Types
  <2> QED
    BY <1>2, <1>3, <2>1 DEF InboxInv, Positions, Covered
<1>5. Positions' /\ Batch' /\ FreshAcksFreeOnlyListedMail'
  BY <1>2, <1>3, <1>4
  DEF Run, InboxInv, Positions, Batch, FreshAcksFreeOnlyListedMail, Queue, fileVars
<1> QED
  BY <1>5 DEF InboxInv

LEMMA DrainInv == InboxInv /\ Types' /\ Drain => InboxInv'
<1> SUFFICES ASSUME InboxInv, Types', Drain PROVE InboxInv'
  OBVIOUS
<1>1. drained' = SubSeq(Queue, start + 1, Len(Queue)) /\ cursor' = Len(Queue) /\ pc = "draining"
  BY DEF Drain, ReadFrom, Queue
<1>2. Queue \in Seq(MessageId) /\ Len(Queue) \in Nat /\ start \in Nat
  BY QueueFacts DEF InboxInv, Types, InboxTypeOK
<1>3. queues' = queues
  BY DEF Drain, mailboxVars, storeVars
<1>4. \A i \in (start + 1)..Len(Queue) : Queue[i] \in Range(drained')
  <2>1. start + 1 \in Nat \ {0} /\ Len(Queue) \in 0..Len(Queue)
    BY <1>2
  <2> HIDE DEF Queue
  <2> QED
    BY <1>1, <1>2, <2>1, SliceOf
<1>5. Covered(Queue, start, cursor', Range(drained'))
  BY <1>1, <1>2, <1>4 DEF Covered
<1>6. ASSUME ~stale PROVE Covered(Queue, 0, cursor', shown \cup Range(drained'))
  <2>1. \A i \in 1..start : Queue[i] \in shown
    BY <1>1, <1>6 DEF InboxInv, Positions, Covered
  <2>2. \A i \in 1..Len(Queue) : i \in 1..start \/ i \in (start + 1)..Len(Queue)
    BY <1>2
  <2> QED
    BY <1>1, <1>2, <1>4, <2>1, <2>2 DEF Covered
<1>7. Positions' /\ Batch' /\ FreshAcksFreeOnlyListedMail'
  BY <1>3, <1>5, <1>6
  DEF Drain, InboxInv, Positions, Batch, FreshAcksFreeOnlyListedMail, Queue, fileVars
<1> QED
  BY <1>7 DEF InboxInv

(* Listing, filing and saving the cursor. *)
LEMMA FileInv == InboxInv /\ Types' /\ (PrintInbox \/ SaveSnapshot \/ WriteCursor) => InboxInv'
<1> SUFFICES ASSUME InboxInv, Types', PrintInbox \/ SaveSnapshot \/ WriteCursor PROVE InboxInv'
  OBVIOUS
<1> USE DEF InboxInv, Positions, Batch, FreshAcksFreeOnlyListedMail, Queue, commandVars, fileVars
<1>1. queues' = queues
  BY DEF PrintInbox, SaveSnapshot, WriteCursor, mailboxVars, storeVars
<1>2. CASE PrintInbox
  <2>1. shown \subseteq shown'
    BY <1>2 DEF PrintInbox
  <2> QED
    BY <1>1, <1>2, <2>1, CoveredByMore DEF PrintInbox
<1>3. CASE SaveSnapshot
  BY <1>1, <1>3 DEF SaveSnapshot
<1>4. CASE WriteCursor
  BY <1>1, <1>4 DEF WriteCursor
<1> QED
  BY <1>2, <1>3, <1>4

(* Returning, giving up on the ack and being killed leave no position but  *)
(* the saved one and those of late acks.                                   *)
LEMMA LeaveInv == InboxInv /\ Types' /\ (NoAck \/ Abort \/ AckTimesOut) => InboxInv'
<1> SUFFICES ASSUME InboxInv, Types', NoAck \/ Abort \/ AckTimesOut PROVE InboxInv'
  OBVIOUS
<1>1. /\ UNCHANGED <<mailboxVars, fileVars, shown, cursor_stale, lossy_acks>>
      /\ pc' = "idle"
      /\ \/ late_acks' = late_acks
         \/ pc = "acking" /\ late_acks' = late_acks \cup {[cursor |-> cursor, stale |-> stale]}
  BY DEF NoAck, Abort, AckTimesOut, Exit
<1>2. queues' = queues
  BY <1>1 DEF mailboxVars, storeVars
<1>3. \A late \in late_acks' : ~late.stale => Covered(Queue, 0, late.cursor, shown)
  BY <1>1 DEF InboxInv, Positions
<1>4. Positions' /\ Batch' /\ FreshAcksFreeOnlyListedMail'
  BY <1>1, <1>2, <1>3
  DEF InboxInv, Positions, Batch, FreshAcksFreeOnlyListedMail, Queue, fileVars
<1> QED
  BY <1>4 DEF InboxInv

-----------------------------------------------------------------------------
(* Steps of the mailbox.                                                   *)

(* The marks of staleness are kept up through any of them: those of the    *)
(* saved cursor, of late acks, of the running command.                     *)
LEMMA SavedCursorKept ==
  ASSUME InboxInv, NEW overtaken, OvertakesOnly(overtaken),
         cursor_stale' = CursorStale(overtaken), UNCHANGED <<cursor_file, shown>>
  PROVE  ~cursor_stale' => Covered(Queue', 0, cursor_file', shown')
<1> SUFFICES ASSUME ~cursor_stale' PROVE Covered(Queue', 0, cursor_file, shown)
  OBVIOUS
<1>1. Types /\ cursor_file \in Nat \ overtaken /\ Covered(Queue, 0, cursor_file, shown)
  BY DEF CursorStale, InboxInv, Types, InboxTypeOK, Positions
<1> QED
  BY <1>1, CoveredStays

LEMMA LateAcksKept ==
  ASSUME InboxInv, NEW overtaken, OvertakesOnly(overtaken), NEW acks \in SUBSET late_acks,
         late_acks' = AcksStale(acks, overtaken), UNCHANGED shown
  PROVE  \A late \in late_acks' : ~late.stale => Covered(Queue', 0, late.cursor, shown')
<1> SUFFICES ASSUME NEW after \in late_acks', ~after.stale
             PROVE  Covered(Queue', 0, after.cursor, shown)
  OBVIOUS
<1>1. PICK late \in acks : after = [late EXCEPT !.stale = late.stale \/ late.cursor \in overtaken]
  BY DEF AcksStale
<1>2. Types /\ late \in late_acks /\ late \in [cursor : Nat, stale : BOOLEAN]
  BY <1>1 DEF InboxInv, Types, InboxTypeOK
<1>3. after.cursor = late.cursor /\ ~late.stale /\ late.cursor \in Nat \ overtaken
  <2> DEFINE b == late.stale \/ late.cursor \in overtaken
  <2>1. (~b => ~late.stale /\ late.cursor \notin overtaken) /\ after = [late EXCEPT !.stale = b]
    BY <1>1
  <2> HIDE DEF b
  <2> QED
    BY <1>2, <2>1
<1>4. Covered(Queue, 0, late.cursor, shown)
  BY <1>2, <1>3 DEF InboxInv, Positions
<1> QED
  BY <1>2, <1>3, <1>4, CoveredStays

LEMMA CommandKept ==
  ASSUME InboxInv, NEW overtaken, OvertakesOnly(overtaken), stale' = PositionStale(overtaken),
         UNCHANGED <<pc, commandVars, fileVars, shown>>
  PROVE  /\ ~stale' /\ pc' = "draining" => Covered(Queue', 0, start', shown')
         /\ ~stale' /\ pc' = "printing" => Covered(Queue', 0, cursor', shown' \cup Range(drained'))
         /\ ~stale' /\ pc' \in {"snapshot", "cursor", "acking"} =>
              Covered(Queue', 0, cursor', shown')
         /\ Batch'
<1>1. Types /\ start \in Nat /\ cursor \in Nat
  BY DEF InboxInv, Types, InboxTypeOK
<1>2. /\ start' = start /\ cursor' = cursor /\ drained' = drained /\ shown' = shown /\ pc' = pc
      /\ inbox_file' = inbox_file /\ cursor_file' = cursor_file
  BY DEF commandVars, fileVars
<1>3. ~stale' => ~stale
  BY DEF PositionStale
<1>4. ASSUME ~stale', pc = "draining" PROVE Covered(Queue', 0, start, shown)
  <2>1. start \in Nat \ overtaken /\ Covered(Queue, 0, start, shown)
    BY <1>1, <1>4 DEF PositionStale, InboxInv, Positions
  <2> QED
    BY <1>1, <2>1, CoveredStays
<1>5. ASSUME ~stale', pc \in {"printing", "snapshot", "cursor", "acking"}
      PROVE  cursor \in Nat \ overtaken
  BY <1>1, <1>5 DEF PositionStale
<1>6. ASSUME ~stale', pc = "printing" PROVE Covered(Queue', 0, cursor, shown \cup Range(drained))
  BY <1>1, <1>3, <1>5, <1>6, CoveredStays DEF InboxInv, Positions
<1>7. ASSUME ~stale', pc \in {"snapshot", "cursor", "acking"} PROVE Covered(Queue', 0, cursor, shown)
  BY <1>1, <1>3, <1>5, <1>7, CoveredStays DEF InboxInv, Positions
<1>8. ASSUME ~stale', pc \in {"printing", "snapshot"}
      PROVE  Covered(Queue', start, cursor, Range(drained))
  BY <1>1, <1>3, <1>5, <1>8, CoveredStays DEF InboxInv, Batch
<1>9. ASSUME ~stale', pc = "cursor" PROVE Covered(Queue', start, cursor, inbox_file)
  BY <1>1, <1>3, <1>5, <1>9, CoveredStays DEF InboxInv, Batch
<1>10. Batch'
  BY <1>2, <1>8, <1>9 DEF InboxInv, Batch
<1> QED
  BY <1>2, <1>4, <1>6, <1>7, <1>10

(* An ack frees only what its position is covered by. *)
LEMMA FreesCovered ==
  ASSUME InboxInv, NEW c \in Nat, NEW is_stale \in BOOLEAN, Free(c, is_stale),
         ~is_stale => Covered(Queue, 0, c, shown)
  PROVE  FreshAcksFreeOnlyListedMail'
<1> DEFINE n == Removed(Owner, c)
<1>1. CASE is_stale
  BY <1>1 DEF Free, InboxInv, FreshAcksFreeOnlyListedMail
<1>2. CASE ~is_stale
  <2>1. Queue \in Seq(MessageId) /\ Len(Queue) \in Nat /\ 1 \in Nat \ {0}
    BY QueueFacts DEF InboxInv, Types
  <2>2. n \in 0..Len(Queue) /\ n <= c
    BY <2>1 DEF Removed, Queue
  <2>3. \A i \in 1..n : Queue[i] \in shown
    BY <1>2, <2>2 DEF Covered
  <2> HIDE DEF Queue, n
  <2>4. Range(SubSeq(Queue, 1, n)) \subseteq shown
    BY <2>1, <2>2, <2>3, SliceOf
  <2>5. lossy_acks' = lossy_acks
    BY <2>4 DEF Free, Queue, n
  <2> QED
    BY <2>5 DEF InboxInv, FreshAcksFreeOnlyListedMail
<1> QED
  BY <1>1, <1>2

LEMMA SendAckInv == InboxInv /\ Types' /\ SendAck => InboxInv'
<1> SUFFICES ASSUME InboxInv, Types', SendAck PROVE InboxInv'
  OBVIOUS
<1>1. /\ cursor \in Nat /\ stale \in BOOLEAN /\ Free(cursor, stale) /\ Types
      /\ late_acks' = AcksStale(late_acks, Shifted) /\ cursor_stale' = CursorStale(Shifted)
      /\ pc' = "idle" /\ UNCHANGED <<cursor_file, shown>>
      /\ ~stale => Covered(Queue, 0, cursor, shown)
  BY DEF SendAck, Exit, InboxInv, Types, InboxTypeOK, Positions, fileVars
<1>2. OvertakesOnly(Shifted)
  BY <1>1, FreeTypes, OperationsOvertake DEF Types
<1>3. FreshAcksFreeOnlyListedMail'
  BY <1>1, FreesCovered
<1>4. \A late \in late_acks' : ~late.stale => Covered(Queue', 0, late.cursor, shown')
  BY <1>1, <1>2, LateAcksKept
<1>5. ~cursor_stale' => Covered(Queue', 0, cursor_file', shown')
  BY <1>1, <1>2, SavedCursorKept
<1>6. Positions' /\ Batch'
  BY <1>1, <1>4, <1>5 DEF Positions, Batch
<1> QED
  BY <1>3, <1>6 DEF InboxInv

(* What is left to show of a step of the mailbox while the command runs.   *)
LEMMA MeanwhileInv ==
  ASSUME InboxInv, Types', NEW overtaken, OvertakesOnly(overtaken), NEW acks \in SUBSET late_acks,
         late_acks' = AcksStale(acks, overtaken), stale' = PositionStale(overtaken),
         cursor_stale' = CursorStale(overtaken), UNCHANGED <<pc, commandVars, fileVars, shown>>,
         FreshAcksFreeOnlyListedMail'
  PROVE  InboxInv'
<1>1. UNCHANGED cursor_file
  BY DEF fileVars
<1>2. \A late \in late_acks' : ~late.stale => Covered(Queue', 0, late.cursor, shown')
  BY LateAcksKept
<1>3. ~cursor_stale' => Covered(Queue', 0, cursor_file', shown')
  BY <1>1, SavedCursorKept
<1>4. Positions' /\ Batch'
  BY <1>2, <1>3, CommandKept DEF Positions
<1> QED
  BY <1>4 DEF InboxInv

LEMMA LateAckInv == InboxInv /\ Types' /\ LateAck => InboxInv'
<1> SUFFICES ASSUME InboxInv, Types', LateAck PROVE InboxInv'
  OBVIOUS
<1>1. PICK late \in late_acks : /\ Free(late.cursor, late.stale)
                                /\ late_acks' = AcksStale(late_acks \ {late}, Shifted)
  BY DEF LateAck
<1>2. /\ late.cursor \in Nat /\ late.stale \in BOOLEAN /\ Types
      /\ ~late.stale => Covered(Queue, 0, late.cursor, shown)
  BY <1>1 DEF InboxInv, Types, InboxTypeOK, Positions
<1>3. /\ stale' = PositionStale(Shifted) /\ cursor_stale' = CursorStale(Shifted)
      /\ UNCHANGED <<pc, commandVars, fileVars, shown>>
  BY DEF LateAck
<1>4. OvertakesOnly(Shifted)
  BY <1>1, <1>2, FreeTypes, OperationsOvertake DEF Types
<1>5. FreshAcksFreeOnlyListedMail'
  BY <1>1, <1>2, FreesCovered
<1>6. late_acks \ {late} \in SUBSET late_acks
  OBVIOUS
<1> QED
  BY <1>1, <1>3, <1>4, <1>5, <1>6, MeanwhileInv

LEMMA DeliverInv == InboxInv /\ Types' /\ Deliver => InboxInv'
<1> SUFFICES ASSUME InboxInv, Types', Deliver PROVE InboxInv'
  OBVIOUS
<1>1. PICK m \in MessageId : Accept(m, TRUE)
  BY DEF Deliver
<1>2. OvertakesOnly(Shifted)
  BY <1>1, FifoAccept, OperationsOvertake DEF InboxInv, Types
<1>3. /\ late_acks' = AcksStale(late_acks, Shifted) /\ stale' = PositionStale(Shifted)
      /\ cursor_stale' = CursorStale(Shifted)
      /\ UNCHANGED <<pc, commandVars, fileVars, shown, lossy_acks>>
  BY DEF Deliver
<1>4. FreshAcksFreeOnlyListedMail'
  BY <1>3 DEF InboxInv, FreshAcksFreeOnlyListedMail
<1> QED
  BY <1>2, <1>3, <1>4, MeanwhileInv

(* A restart goes back to the file, and overtakes the positions that       *)
(* counted anything else.                                                  *)
LEMMA RestartInv == InboxInv /\ Types' /\ RestartMailbox => InboxInv'
<1> SUFFICES ASSUME InboxInv, Types', RestartMailbox PROVE InboxInv'
  OBVIOUS
<1>1. /\ late_acks' = AcksStale(late_acks, TakenBack) /\ stale' = PositionStale(TakenBack)
      /\ cursor_stale' = CursorStale(TakenBack)
      /\ UNCHANGED <<pc, commandVars, fileVars, shown, lossy_acks>>
  BY DEF RestartMailbox
<1>2. FreshAcksFreeOnlyListedMail'
  BY <1>1 DEF InboxInv, FreshAcksFreeOnlyListedMail
<1> QED
  BY <1>1, <1>2, RestartsOvertake, MeanwhileInv

LEMMA InboxStep == FollowsItsCursor /\ InboxInv /\ [InboxNext]_inboxVars => InboxInv'
<1> SUFFICES ASSUME FollowsItsCursor, InboxInv, [InboxNext]_inboxVars PROVE InboxInv'
  OBVIOUS
<1>1. Types'
  BY TypesStep DEF InboxInv
<1>2. CASE SaveStore \/ UNCHANGED inboxVars
  <2>1. /\ queues' = queues
        /\ UNCHANGED <<pc, commandVars, fileVars, late_acks, shown, stale, cursor_stale, lossy_acks>>
    BY <1>2 DEF SaveStore, inboxVars, mailboxVars, storeVars
  <2> QED
    BY <1>1, <2>1 DEF InboxInv, Positions, Batch, FreshAcksFreeOnlyListedMail, Queue, commandVars, fileVars
<1> QED
  BY <1>1, <1>2, RunInv, DrainInv, FileInv, LeaveInv, SendAckInv, LateAckInv, DeliverInv, RestartInv
  DEF InboxNext, Command

THEOREM InboxInvariant == FollowsItsCursor => (InboxSpec => []InboxInv)
<1> SUFFICES ASSUME FollowsItsCursor PROVE InboxSpec => []InboxInv
  OBVIOUS
<1>1. InboxInv /\ [InboxNext]_inboxVars => InboxInv'
  BY InboxStep
<1> QED
  BY <1>1, InboxStart, PTL DEF InboxSpec

(* However the command is interrupted, whatever happens to the mailbox and *)
(* whatever a restart takes back, only acks counted from a position that   *)
(* was overtaken free mail never listed.                                   *)
THEOREM InboxFreesOnlyListedMail == FollowsItsCursor => (InboxSpec => []FreshAcksFreeOnlyListedMail)
<1>1. InboxInv => FreshAcksFreeOnlyListedMail
  BY DEF InboxInv
<1> QED
  BY <1>1, InboxInvariant, PTL

(* The cursor moves only past mail that is in inbox.json at that moment,   *)
(* unless its position was overtaken while the command ran.                *)
THEOREM InboxCursorPassesOnlyReadableMail ==
  FollowsItsCursor => (InboxSpec => CursorPassesOnlyReadableMail)
<1> DEFINE Passed == SubSeq(queues[Owner], cursor_file + 1, cursor_file')
           Step == cursor_file' # cursor_file /\ ~cursor_stale' => Range(Passed) \subseteq inbox_file
<1>1. InboxInv /\ [InboxNext]_inboxVars => [Step]_inboxVars
  <2> SUFFICES ASSUME InboxInv, InboxNext, cursor_file' # cursor_file, ~cursor_stale'
               PROVE  Range(Passed) \subseteq inbox_file
    OBVIOUS
  <2>1. WriteCursor
    BY DEF InboxNext, Command, Run, Drain, PrintInbox, SaveSnapshot, NoAck, SendAck, AckTimesOut,
           Abort, LateAck, Deliver, SaveStore, RestartMailbox, fileVars
  <2>2. /\ pc = "cursor" /\ ~stale /\ cursor_file' = cursor
        /\ cursor_file \in Nat /\ cursor \in Nat /\ start \in {0, cursor_file}
        /\ Covered(Queue, start, cursor, inbox_file)
    BY <2>1 DEF WriteCursor, InboxInv, Types, InboxTypeOK, Batch
  <2>3. Queue \in Seq(MessageId) /\ Len(Queue) \in Nat
    BY QueueFacts DEF InboxInv, Types
  <2>4. /\ cursor_file + 1 \in Nat \ {0} /\ cursor \in 0..Len(Queue)
        /\ \A i \in (cursor_file + 1)..cursor : Queue[i] \in inbox_file
    BY <2>2, <2>3 DEF Covered
  <2>5. Passed = SubSeq(Queue, cursor_file + 1, cursor)
    BY <2>2 DEF Queue
  <2> HIDE DEF Queue, Passed
  <2> QED
    BY <2>3, <2>4, <2>5, SliceOf
<1> QED
  BY <1>1, InboxInvariant, PTL DEF CursorPassesOnlyReadableMail, InboxSpec
=============================================================================
