---------------------------- MODULE MailPromises ----------------------------
(***************************************************************************)
(* The serving loop of ServeMailbox with a memory of what its peers were   *)
(* told: which messages senders know to be stored, and which ones their    *)
(* recipients acknowledged.  The memory survives the process.              *)
(***************************************************************************)
EXTENDS ServeMailbox

VARIABLES
  confirmed,  \* messages whose sender got a Delivered reply, still owed
  freed       \* messages their recipient acknowledged

promiseVars == <<serveVars, confirmed, freed>>

(* The messages a step removes from the queues. *)
Leaving == UNION {Range(queues[a]) \ Range(queues'[a]) : a \in Address}

PromiseInit == ServeInit /\ confirmed = {} /\ freed = {}

(* A message the mailbox evicts or frees on request is not owed any more. *)
PromiseHandle ==
  \E exchange \in Sent :
    /\ HandleMessage(exchange[1], exchange[2])
    /\ confirmed' = confirmed \ Leaving
    /\ freed' = IF exchange[2].type = "Ack" THEN freed \cup Leaving ELSE freed

(* A reply arrives or is lost. *)
PromiseReply ==
  /\ SendReply
  /\ \/ confirmed' = confirmed
     \/ /\ reply.type = "Delivered" /\ request.message \in Range(queues[To[request.message]])
        /\ confirmed' = confirmed \cup {request.message}
  /\ UNCHANGED freed

PromiseOther ==
  /\ \/ Start \/ PollOk \/ PollFails \/ BackedOff \/ SkipMessage \/ NothingToSave
     \/ BeginPersist \/ CannotPersist \/ Persist \/ Persisted \/ PersistFails \/ Wake
     \/ Crash \/ PowerFails \/ SettleFile \/ Refresh \/ RevokeOnChain \/ Clock
  /\ UNCHANGED <<confirmed, freed>>

PromiseNext == PromiseHandle \/ PromiseReply \/ PromiseOther

PromiseSpec == PromiseInit /\ [][PromiseNext]_promiseVars

(* What the module documentation of mailbox.rs promises: accepted mail is  *)
(* held durably.  When the process is down, the mail owed is in the file.  *)
ConfirmedMailIsDurable ==
  ~Up => \A m \in confirmed : m \in Range(OnDisk.queues[To[m]])

(* What the redelivery test promises: a redelivery of a message its        *)
(* recipient acknowledged does not store it again.                         *)
RedeliveryNeverResurrects ==
  (pc = "replying" /\ reply.type = "Delivered" /\ request.message \in freed)
    => reply.duplicate
=============================================================================
