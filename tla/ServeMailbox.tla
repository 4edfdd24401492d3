---------------------------- MODULE ServeMailbox ----------------------------
(***************************************************************************)
(* The serve-mailbox process of src/src/main.rs around the service: load   *)
(* the store, poll, handle each message of the batch and answer it, save   *)
(* the store once per batch, sleep.  Beside the loop a task refreshes the  *)
(* revocation set; around it the process crashes and is started again.     *)
(*                                                                         *)
(* The node (ce_rs) is external: a poll returns any messages, a call to it *)
(* may fail.  Messages of a batch are independent of each other, so a      *)
(* batch is its length and each message is chosen when its turn comes.     *)
(* The store file is written by the steps of AtomicWrite, between which    *)
(* the process may die and the machine lose power.                         *)
(***************************************************************************)
EXTENDS MailService, AtomicWrite

CONSTANTS
  Pid,         \* the process
  StorePath,   \* whether --store is given
  Legacy,      \* the store files an older version may have left there
  NoRequest,   \* no request is being answered
  PollMs,      \* --poll-ms, in the units of MaxBackoff
  MaxBackoff,  \* max_backoff_ms
  MaxBatch     \* bound: messages per poll

ASSUME ServeAssumption ==
  /\ Pid \in Process
  /\ StorePath \in BOOLEAN
  /\ PollMs \in Nat
  /\ MaxBackoff \in Nat \ {0}
  /\ MaxBatch \in Nat
  /\ \A file \in Legacy :
       /\ DOMAIN file = {"format", "queues", "capacity"} /\ file.format = "v1"
       /\ SavedStore(file)

VARIABLES
  pc,             \* where the process is
  left,           \* messages of the batch not handled yet
  request,        \* the request being answered
  reply,          \* and its reply
  dirty,          \* the batch may have changed the store
  backoff,        \* backoff_ms
  unsaved,        \* the last attempt to save failed
  chain_revoked   \* the pairs revoked on chain

loopVars == <<left, request, reply, dirty, backoff>>
saveVars == <<fileVars, unsaved>>
serveVars == <<serviceVars, pc, loopVars, saveVars, chain_revoked>>

Up == pc # "down"

ServeTypeOK ==
  /\ ServiceTypeOK
  /\ pc \in {"down", "polling", "serving", "replying", "saving", "sleeping", "backing_off"}
  /\ left \in 0..MaxBatch
  /\ request \in Request \cup {NoRequest} /\ reply \in MailReply
  /\ dirty \in BOOLEAN /\ unsaved \in BOOLEAN
  /\ backoff \in Nat
  /\ chain_revoked \subseteq Revocable

-----------------------------------------------------------------------------

ServeInit ==
  /\ New(1)
  /\ now = 0 /\ revoked = {} /\ requester = Self
  /\ pc = "down"
  /\ left = 0 /\ request = NoRequest /\ reply = Error /\ dirty = FALSE
  /\ backoff = PollMs
  /\ FileInit({NoFile} \cup Legacy)
  /\ unsaved = FALSE
  /\ chain_revoked = {}

(* The bytes a new store of capacity c would have. *)
NewStore(c) == [format |-> "v2", queues |-> Empty, capacity |-> c, receipts |-> Empty]

(* Load or create the store: a file that cannot be decoded ends the        *)
(* process before it serves.  The first fetch of the revocation set falls  *)
(* back to the empty set.  Bound: a process is started when the directory  *)
(* is settled.                                                             *)
Start ==
  /\ pc = "down" /\ ~(StorePath /\ disk = Torn) /\ survivors = {disk}
  /\ \E c \in Capacity : FromBytes(IF StorePath /\ disk # NoFile THEN disk ELSE NewStore(c))
  /\ revoked' \in {chain_revoked, {}}
  /\ pc' = "polling"
  /\ backoff' = PollMs
  /\ UNCHANGED <<now, requester, left, request, reply, dirty, saveVars, chain_revoked>>

PollOk ==
  /\ pc = "polling"
  /\ pc' = "serving"
  /\ left' \in 0..MaxBatch
  /\ dirty' = FALSE
  /\ backoff' = PollMs
  /\ UNCHANGED <<serviceVars, request, reply, saveVars, chain_revoked>>

PollFails ==
  /\ pc = "polling"
  /\ pc' = "backing_off"
  /\ UNCHANGED <<serviceVars, loopVars, saveVars, chain_revoked>>

(* Mutant of NextBackoff: beyond the cap it starts again without a wait. *)
BackoffWraps == IF 2 * backoff < MaxBackoff THEN 2 * backoff ELSE 0

NextBackoff == IF 2 * backoff < MaxBackoff THEN 2 * backoff ELSE MaxBackoff

(* Mutant of BackedOff: at the cap the loop gives up polling. *)
BackedOffUntilCap ==
  /\ pc = "backing_off" /\ backoff < MaxBackoff
  /\ pc' = "polling"
  /\ backoff' = NextBackoff
  /\ UNCHANGED <<serviceVars, left, request, reply, dirty, saveVars, chain_revoked>>

BackedOff ==
  /\ pc = "backing_off"
  /\ pc' = "polling"
  /\ backoff' = NextBackoff
  /\ UNCHANGED <<serviceVars, left, request, reply, dirty, saveVars, chain_revoked>>

(* A message on another topic, without a reply token, from a malformed     *)
(* sender or that does not decode.                                         *)
SkipMessage ==
  /\ pc = "serving" /\ left > 0
  /\ left' = left - 1
  /\ UNCHANGED <<serviceVars, pc, request, reply, dirty, backoff, saveVars, chain_revoked>>

(* Mutant of RequestMutates: collecting receipts looks like a read. *)
MutatesUnlessCollecting(req) == req.type \in {"Deliver", "Ack", "PutReceipt"}

RequestMutates(req) == req.type \in {"Deliver", "Ack", "PutReceipt", "CollectReceipts"}

HandleMessage(node, req) ==
  /\ pc = "serving" /\ left > 0
  /\ Handle(node, req)
  /\ request' = req
  /\ reply' = Reply(node, req)
  /\ dirty' = (dirty \/ (RequestMutates(req) /\ reply' # Error))
  /\ left' = left - 1
  /\ pc' = "replying"
  /\ UNCHANGED <<backoff, saveVars, chain_revoked>>

(* Mutant of SendReply: a message whose reply fails is put back. *)
SendReplyOrRequeue ==
  /\ pc = "replying"
  /\ pc' = "serving"
  /\ left' \in {left, left + 1}
  /\ request' = NoRequest /\ reply' = Error /\ requester' = Self
  /\ UNCHANGED <<storeVars, now, revoked, dirty, backoff, saveVars, chain_revoked>>

(* A reply that does not get through is only logged. *)
SendReply ==
  /\ pc = "replying"
  /\ pc' = "serving"
  /\ request' = NoRequest /\ reply' = Error /\ requester' = Self
  /\ UNCHANGED <<storeVars, now, revoked, left, dirty, backoff, saveVars, chain_revoked>>

BatchDone == pc = "serving" /\ left = 0

NothingToSave ==
  /\ BatchDone /\ ~(dirty /\ StorePath)
  /\ pc' = "sleeping"
  /\ UNCHANGED <<serviceVars, loopVars, saveVars, chain_revoked>>

(* Serialise the store and create the temporary file. *)
BeginPersist ==
  /\ BatchDone /\ dirty /\ StorePath
  /\ CreateTemp(Pid)
  /\ pc' = "saving"
  /\ UNCHANGED <<serviceVars, loopVars, unsaved, chain_revoked>>

(* Neither happened: logged, and the loop goes on. *)
CannotPersist ==
  /\ BatchDone /\ dirty /\ StorePath
  /\ unsaved' = TRUE
  /\ pc' = "sleeping"
  /\ UNCHANGED <<serviceVars, loopVars, fileVars, chain_revoked>>

Persist ==
  /\ pc = "saving"
  /\ \/ (WriteTemp(Pid, ToBytes) \/ SyncTemp(Pid)) /\ UNCHANGED unsaved
     \/ RenameTemp(Pid) /\ unsaved' = FALSE
  /\ UNCHANGED <<serviceVars, pc, loopVars, chain_revoked>>

Persisted ==
  /\ pc = "saving"
  /\ SyncDir(Pid)
  /\ pc' = "sleeping"
  /\ UNCHANGED <<serviceVars, loopVars, unsaved, chain_revoked>>

PersistFails ==
  /\ pc = "saving"
  /\ Abandon(Pid)
  /\ unsaved' = TRUE
  /\ pc' = "sleeping"
  /\ UNCHANGED <<serviceVars, loopVars, chain_revoked>>

Wake ==
  /\ pc = "sleeping"
  /\ pc' = "polling"
  /\ UNCHANGED <<serviceVars, loopVars, saveVars, chain_revoked>>

(* Of what the process held in memory nothing is left. *)
Halt ==
  /\ pc' = "down"
  /\ FromBytes(NewStore(1)) /\ revoked' = {} /\ requester' = Self
  /\ left' = 0 /\ request' = NoRequest /\ reply' = Error /\ dirty' = FALSE
  /\ backoff' = PollMs
  /\ unsaved' = FALSE
  /\ UNCHANGED <<now, chain_revoked>>

(* The process dies, anywhere. *)
Crash == Up /\ Halt /\ Die(Pid)

(* The machine loses power, with or without the process running. *)
PowerFails == Halt /\ LosePower

SettleFile ==
  /\ survivors # {disk} /\ WriteBack
  /\ UNCHANGED <<serviceVars, pc, loopVars, unsaved, chain_revoked>>

-----------------------------------------------------------------------------
(* The refresher task and the chain.  A refresh that fails keeps the set.  *)

(* Mutant of Refresh: a failed fetch clears the set. *)
RefreshOrClear ==
  /\ Up
  /\ revoked' \in {chain_revoked, {}}
  /\ UNCHANGED <<storeVars, now, requester, pc, loopVars, saveVars, chain_revoked>>

Refresh ==
  /\ Up
  /\ revoked' = chain_revoked
  /\ UNCHANGED <<storeVars, now, requester, pc, loopVars, saveVars, chain_revoked>>

RevokeOnChain ==
  /\ \E pair \in Revocable \ chain_revoked : chain_revoked' = chain_revoked \cup {pair}
  /\ UNCHANGED <<serviceVars, pc, loopVars, saveVars>>

Clock ==
  /\ Tick
  /\ UNCHANGED <<pc, loopVars, saveVars, chain_revoked>>

Loop ==
  \/ PollOk \/ PollFails \/ BackedOff
  \/ SkipMessage \/ (\E exchange \in Sent : HandleMessage(exchange[1], exchange[2])) \/ SendReply
  \/ NothingToSave \/ BeginPersist \/ CannotPersist \/ Persist \/ Persisted \/ PersistFails
  \/ Wake

ServeNext == Start \/ Loop \/ Crash \/ PowerFails \/ SettleFile \/ Refresh \/ RevokeOnChain \/ Clock

ServeSpec == ServeInit /\ [][ServeNext]_serveVars

(* The loop is one task that never waits for good: calls to the node and   *)
(* the disk return, sleeps end.  A poll is not refused for ever, and the   *)
(* refresher's interval keeps ticking while the process runs.              *)
Fairness ==
  /\ WF_serveVars(Loop)
  /\ SF_serveVars(PollOk)
  /\ WF_serveVars(Refresh)

FairServeSpec == ServeSpec /\ Fairness

-----------------------------------------------------------------------------

(* What is in a file, a missing or an older one included. *)
StoredIn(file) ==
  CASE file \in {NoFile, Torn} -> NewStore(1)
    [] file \in Legacy -> [NewStore(1) EXCEPT !.queues = file.queues]
    [] OTHER -> file

OnDisk == StoredIn(disk)

(* Between batches the file holds exactly the mail and receipts in memory, *)
(* unless the last write failed: no kind of request, no error path and no  *)
(* duplicate changes the store without marking it dirty.                   *)
FileCurrentBetweenBatches ==
  (StorePath /\ pc \in {"polling", "sleeping", "backing_off"} /\ ~unsaved) =>
    queues = OnDisk.queues /\ receipts = OnDisk.receipts

(* When the mailbox answers that it stored a message, the message is the   *)
(* newest it holds for its recipient (even at capacity zero); when it      *)
(* answers that it already had it, the recipient was already served it.    *)
DeliveredIsKept ==
  (pc = "replying" /\ reply.type = "Delivered") =>
    LET m == request.message
        a == To[m]
    IN  /\ m \in seen[a]
        /\ ~reply.duplicate => queues[a] # <<>> /\ queues[a][Len(queues[a])] = m

(* A failed poll is never followed by a shorter wait than a good one, as   *)
(* long as the wait after a good one is within the cap.                    *)
FailuresSlowPolling == PollMs <= MaxBackoff /\ pc = "backing_off" => backoff >= PollMs

Items(qs, rs) ==
  {<<"mail", m>> : m \in UNION {Range(qs[a]) : a \in Address}}
    \cup {<<"receipt", DedupKey(r)>> : r \in UNION {Range(rs[a]) : a \in Address}}

(* The file is replaced whole or not at all, the next process starts from  *)
(* it, and a power loss brings back nothing older than what was there at   *)
(* the last sync of the directory: the loop implements DurableMail.        *)
Durable == INSTANCE DurableMail WITH
  Item <- ({"mail"} \X MessageId) \cup ({"receipt"} \X ReceiptKey),
  up <- Up,
  held <- Items(queues, receipts),
  saved <- Items(OnDisk.queues, OnDisk.receipts),
  versions <- {Items(StoredIn(file).queues, StoredIn(file).receipts) : file \in survivors}

DurableSpec == Durable!Spec

(* A running process finishes every batch it started, and goes on polling: *)
(* neither failing polls, lost replies nor failed writes stop it.          *)
BatchesEnd == pc = "serving" ~> pc \in {"sleeping", "down"}

KeepsServing == <>[]Up => []<>(pc = "serving")

(* While the process runs, a revocation reaches the gate and stays there,  *)
(* whatever the set was when the process started.                          *)
RevocationTakesEffect ==
  <>[]Up => \A pair \in Revocable : (pair \in chain_revoked) ~> [](pair \in revoked)
=============================================================================
