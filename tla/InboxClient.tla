----------------------------- MODULE InboxClient -----------------------------
(***************************************************************************)
(* The inbox command of src/src/main.rs (with the calls of client.rs it    *)
(* makes) run again and again by a mailbox's owner, against the store: it  *)
(* drains from a cursor, lists what came, saves the snapshot `read` uses,  *)
(* then the cursor, and on --ack frees what it drained.  Senders deliver;  *)
(* replies are lost, the command is killed between any two steps, its      *)
(* writes fail.                                                            *)
(*                                                                         *)
(* The mailbox replies to a request before it saves its store, and a save  *)
(* may fail: a restart finds the store of the last save that stuck, and    *)
(* what was delivered or acked since then has not happened.                *)
(*                                                                         *)
(* The mailbox answers the owner's requests without a grant, so the store  *)
(* stands for the service.  A drained envelope always verifies: the store  *)
(* holds no other.                                                         *)
(***************************************************************************)
EXTENDS MailboxStore

CONSTANTS
  Owner,        \* the address the owner drains
  Option,       \* the ways the owner runs the command: --since and --ack
  Saved,        \* the value of an absent --since
  LateRequests, \* bound: acks the command gave up on and still on their way
  Followed      \* the messages whose listing is followed: any, as all are alike

ASSUME InboxAssumption ==
  /\ Owner \in Address \ {NoAddress}
  /\ Saved \notin Nat
  /\ Option \subseteq [since : Nat \cup {Saved}, ack : BOOLEAN]
  /\ LateRequests \in Nat /\ Followed \subseteq MessageId

VARIABLES
  pc,           \* where the command is
  start,        \* the cursor it drains from
  ack,          \* its --ack flag
  drained,      \* the envelopes the drain returned
  cursor,       \* and the cursor
  cursor_file,  \* inbox.cursor
  inbox_file,   \* the messages of inbox.json, which each run replaces
  late_acks,    \* acks that timed out and are still on their way
  store_file,   \* the mailbox's store, as the last save that stuck left it
  shown,        \* history: the messages ever listed
  stale,        \* history: what the command counts from is stale: since that
                \*   position was read, a step of the mailbox overtook it
  cursor_stale, \* history: so is the saved cursor
  lossy_acks    \* history: what acks freed mail never listed: "fresh" ones,
                \*   counted from a position that was not stale, or "stale" ones

mailboxVars == <<storeVars, store_file>>
commandVars == <<start, ack, drained, cursor>>
fileVars == <<cursor_file, inbox_file>>
inboxVars ==
  <<mailboxVars, pc, commandVars, fileVars, late_acks,
    shown, stale, cursor_stale, lossy_acks>>

InboxTypeOK ==
  /\ TypeOK
  /\ store_file \in [format : {"v2"}, queues : [Address -> Seq(MessageId)], capacity : Nat,
                     receipts : [Address -> Seq(Receipt)]]
  /\ pc \in {"idle", "draining", "printing", "snapshot", "cursor", "acking"}
  /\ start \in Nat /\ ack \in BOOLEAN
  /\ drained \in Seq(MessageId) /\ cursor \in Nat
  /\ cursor_file \in Nat /\ inbox_file \subseteq MessageId
  /\ late_acks \subseteq [cursor : Nat, stale : BOOLEAN]
  /\ shown \subseteq MessageId
  /\ stale \in BOOLEAN /\ cursor_stale \in BOOLEAN /\ lossy_acks \subseteq {"fresh", "stale"}

-----------------------------------------------------------------------------

(* A mailbox without a file starts empty, as from one of an empty store.   *)
InboxInit ==
  /\ StoreInit /\ store_file = ToBytes
  /\ pc = "idle"
  /\ start = 0 /\ ack = FALSE /\ drained = <<>> /\ cursor = 0
  /\ cursor_file = 0 /\ inbox_file = {}
  /\ late_acks = {}
  /\ shown = {}
  /\ stale = FALSE /\ cursor_stale = FALSE /\ lossy_acks = {}

(* The command returns, fails or is killed: what it had in memory is gone. *)
Exit ==
  /\ pc' = "idle"
  /\ start' = 0 /\ ack' = FALSE /\ drained' = <<>> /\ cursor' = 0
  /\ stale' = FALSE

(* Mutant of Run: an absent --since is not resolved. *)
RunUnresolved ==
  /\ pc = "idle"
  /\ \E o \in Option : start' = o.since /\ ack' = o.ack
  /\ stale' = (start' # 0 /\ cursor_stale)
  /\ pc' = "draining"
  /\ UNCHANGED <<mailboxVars, drained, cursor, fileVars, late_acks,
                 shown, cursor_stale, lossy_acks>>

Run ==
  /\ pc = "idle"
  /\ \E o \in Option :
       /\ start' = (IF o.since = Saved THEN cursor_file ELSE o.since)
       /\ ack' = o.ack
  /\ stale' = (start' # 0 /\ cursor_stale)
  /\ pc' = "draining"
  /\ UNCHANGED <<mailboxVars, drained, cursor, fileVars, late_acks,
                 shown, cursor_stale, lossy_acks>>

Drain ==
  /\ pc = "draining"
  /\ drained' = ReadFrom(Owner, start).envelopes
  /\ cursor' = ReadFrom(Owner, start).cursor
  /\ pc' = "printing"
  /\ UNCHANGED <<mailboxVars, start, ack, fileVars, late_acks,
                 shown, stale, cursor_stale, lossy_acks>>

(* Mutant of PrintInbox: the cursor is advanced before the snapshot. *)
PrintThenCursor ==
  /\ pc = "printing"
  /\ shown' = shown \cup Range(drained)
  /\ pc' = "cursor"
  /\ UNCHANGED <<mailboxVars, commandVars, fileVars, late_acks,
                 stale, cursor_stale, lossy_acks>>

PrintInbox ==
  /\ pc = "printing"
  /\ shown' = shown \cup Range(drained)
  /\ pc' = "snapshot"
  /\ UNCHANGED <<mailboxVars, commandVars, fileVars, late_acks,
                 stale, cursor_stale, lossy_acks>>

(* Nothing after the snapshot uses what was drained. *)
SaveSnapshot ==
  /\ pc = "snapshot"
  /\ inbox_file' = Range(drained) /\ drained' = <<>>
  /\ pc' = "cursor"
  /\ UNCHANGED <<mailboxVars, start, ack, cursor, cursor_file, late_acks,
                 shown, stale, cursor_stale, lossy_acks>>

WriteCursor ==
  /\ pc = "cursor"
  /\ cursor_file' = cursor
  /\ cursor_stale' = stale
  /\ pc' = "acking"
  /\ UNCHANGED <<mailboxVars, commandVars, inbox_file, late_acks,
                 shown, stale, lossy_acks>>

MustAck == ack /\ cursor > start

NoAck ==
  /\ pc = "acking" /\ ~MustAck
  /\ Exit
  /\ UNCHANGED <<mailboxVars, fileVars, late_acks, shown, cursor_stale, lossy_acks>>

(* History: the queue's head left it, so that positions in it shifted.     *)
(* Position zero is never overtaken.                                       *)
Shifted ==
  IF /\ queues[Owner] # <<>>
     /\ queues'[Owner] = <<>> \/ Head(queues'[Owner]) # Head(queues[Owner])
  THEN Nat \ {0} ELSE {}

(* History: the positions that counted envelopes a restart took back, or   *)
(* before which it brought others back.                                    *)
TakenBack ==
  {position \in Nat :
     \/ position > Len(queues[Owner]) \/ position > Len(queues'[Owner])
     \/ \E i \in 1..position : queues'[Owner][i] # queues[Owner][i]}

(* What becomes of the marks when a step overtakes these positions. *)
CursorStale(overtaken) == cursor_stale \/ cursor_file \in overtaken

PositionStale(overtaken) ==
  stale \/ (pc # "idle" /\ (IF pc = "draining" THEN start ELSE cursor) \in overtaken)

AcksStale(acks, overtaken) ==
  {[late EXCEPT !.stale = late.stale \/ late.cursor \in overtaken] : late \in acks}

(* The mailbox handles an ack. *)
Free(c, is_stale) ==
  /\ Ack(Owner, c)
  /\ lossy_acks' =
       IF Range(SubSeq(queues[Owner], 1, Removed(Owner, c))) \subseteq shown THEN lossy_acks
       ELSE lossy_acks \cup {IF is_stale THEN "stale" ELSE "fresh"}

(* The ack is handled; its reply may or may not arrive. *)
SendAck ==
  /\ pc = "acking" /\ MustAck
  /\ Free(cursor, stale)
  /\ late_acks' = AcksStale(late_acks, Shifted)
  /\ cursor_stale' = CursorStale(Shifted)
  /\ Exit
  /\ UNCHANGED <<store_file, fileVars, shown>>

(* The command times out waiting for an ack that is not handled yet. *)
AckTimesOut ==
  /\ pc = "acking" /\ MustAck /\ Cardinality(late_acks) < LateRequests
  /\ late_acks' = late_acks \cup {[cursor |-> cursor, stale |-> stale]}
  /\ Exit
  /\ UNCHANGED <<mailboxVars, fileVars, shown, cursor_stale, lossy_acks>>

LateAck ==
  /\ \E late \in late_acks :
       /\ Free(late.cursor, late.stale)
       /\ late_acks' = AcksStale(late_acks \ {late}, Shifted)
  /\ stale' = PositionStale(Shifted)
  /\ cursor_stale' = CursorStale(Shifted)
  /\ UNCHANGED <<store_file, pc, commandVars, fileVars, shown>>

(* A request without an answer, a write that fails or a kill. *)
Abort ==
  /\ pc # "idle"
  /\ Exit
  /\ UNCHANGED <<mailboxVars, fileVars, late_acks, shown, cursor_stale, lossy_acks>>

-----------------------------------------------------------------------------
(* Meanwhile, at the mailbox. *)

Deliver ==
  /\ \E m \in MessageId : Accept(m, TRUE)
  /\ late_acks' = AcksStale(late_acks, Shifted)
  /\ stale' = PositionStale(Shifted)
  /\ cursor_stale' = CursorStale(Shifted)
  /\ UNCHANGED <<store_file, pc, commandVars, fileVars, shown, lossy_acks>>

(* A batch ends and its save sticks.  Batches are of any size, and any     *)
(* request that can change the store, also a duplicate, makes one dirty.   *)
SaveStore ==
  /\ store_file' = ToBytes
  /\ UNCHANGED <<storeVars, pc, commandVars, fileVars, late_acks,
                 shown, stale, cursor_stale, lossy_acks>>

(* The mailbox dies, in the middle of a batch or not, and is started. *)
RestartMailbox ==
  /\ FromBytes(store_file)
  /\ late_acks' = AcksStale(late_acks, TakenBack)
  /\ stale' = PositionStale(TakenBack)
  /\ cursor_stale' = CursorStale(TakenBack)
  /\ UNCHANGED <<store_file, pc, commandVars, fileVars, shown, lossy_acks>>

Command ==
  \/ Drain \/ PrintInbox \/ SaveSnapshot \/ WriteCursor \/ NoAck \/ SendAck \/ AckTimesOut

InboxNext ==
  Run \/ Command \/ Abort \/ LateAck \/ Deliver \/ SaveStore \/ RestartMailbox

InboxSpec == InboxInit /\ [][InboxNext]_inboxVars

(* A started command goes on to its next step. *)
FairInboxSpec == InboxSpec /\ WF_inboxVars(Command)

-----------------------------------------------------------------------------

(* What --ack promises: it frees the messages that were drained and        *)
(* listed.  A cursor is a position in the queue as it was when it was      *)
(* read, so this fails for a cursor saved before an ack, for an ack        *)
(* handled after the queue lost its head to an eviction or another ack,    *)
(* and after a restart of the mailbox that lost what the cursor counts.    *)
FreesOnlyListedMail == lossy_acks = {}

(* An ack frees only mail that was listed, unless an eviction, another ack *)
(* or a restart overtook its position: deliveries, redelivery of what was  *)
(* lost, lost replies, kills, delay and resuming from the saved cursor do  *)
(* no harm by themselves, nor does a restart from a file that begins with  *)
(* all that the position counts.                                           *)
FreshAcksFreeOnlyListedMail == "fresh" \notin lossy_acks

(* The cursor moves only past mail that `read` can see: inbox.json has it, *)
(* unless the position was overtaken while the command ran.  A command     *)
(* killed at any point leaves no cursor past mail that was never in the    *)
(* snapshot.  (The next run replaces inbox.json by what it drains.)        *)
CursorPassesOnlyReadableMail ==
  [][cursor_file' # cursor_file /\ ~cursor_stale' =>
       Range(SubSeq(queues[Owner], cursor_file + 1, cursor_file')) \subseteq inbox_file]_inboxVars

(* An owner whose command completes again and again, and whose cursor does *)
(* not go on being overtaken by acks, evictions and restarts, is shown     *)
(* every message that stays in the mailbox.                                *)
HeldMailIsListed ==
  ([]<>(pc = "acking") /\ <>[]~cursor_stale) =>
    \A m \in Followed : Held(m) ~> (m \in shown \/ ~Held(m))
=============================================================================
