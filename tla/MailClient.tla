----------------------------- MODULE MailClient -----------------------------
(***************************************************************************)
(* The high-level client of src/src/client.rs, used by two correspondents  *)
(* of one mailbox: the author sends (seals and stores the body and each    *)
(* attachment as blobs, then signs the envelope and delivers it) and       *)
(* collects receipts; the recipient drains, opens, screens and sends       *)
(* receipts.  A blob store or a mailbox may refuse, answer late or not at  *)
(* all; a call that timed out may still be handled; a blob may come back   *)
(* damaged, and a mailbox may slip in envelopes and receipts nobody        *)
(* signed.  Letters go through a mailbox; who answers a direct delivery is *)
(* outside the repository.                                                 *)
(*                                                                         *)
(* The store stands for the mailbox: its gates, which are those of         *)
(* MailService, may refuse any delivery and any receipt, and never refuse  *)
(* the two owners their own mail and receipts.  It replies to a request    *)
(* before it saves its store, and a save may fail: a restart finds the     *)
(* store of the last save that stuck.  Sealing takes a fresh key  *)
(* each time, so every attempt to send a letter has blobs and an id of its *)
(* own; only a letter without blobs, sent again within a second, has its   *)
(* old id.                                                                 *)
(***************************************************************************)
EXTENDS MailboxStore, Limits, Letters

CONSTANTS
  Author,          \* the sender's address
  Recipient,       \* the recipient's
  Correspondence,  \* pairs of the letters sent and the recipient's policy
  ClientLimits,    \* the limits of the sending client
  PostageOf        \* PostageOf[m]: what m's postage receipt is worth (Screening)

(* A recipient's policy (Screening). *)
Policy ==
  [allowlist : SUBSET Address, blocklist : SUBSET Address, min_postage : Nat, strict : BOOLEAN,
   waive_postage_for_established : BOOLEAN]

ASSUME ClientAssumption ==
  /\ Author \in Address \ {NoAddress} /\ Recipient \in Address \ {NoAddress}
  /\ Author # Recipient
  /\ \A m \in MessageId : To[m] = Recipient
  /\ ClientLimits \in Limits
  /\ Correspondence \subseteq [MessageId -> Letter] \X Policy

VARIABLES
  letters,       \* letters[m]: what the author writes as m
  store_file,    \* the mailbox's store, as the last save that stuck left it
  blobs,         \* the blob store
  send_pc,       \* where send is: idle, storing, delivering
  sending,       \* the message, as a sequence of none or one
  stored,        \* how many of its blobs are stored
  late,          \* deliveries given up on that may still arrive
  attempted,     \* history: the messages whose sending began
  returned,      \* history: the messages send returned an id for
  arrived,       \* history: the messages the mailbox ever stored
  inbox_pc,      \* where screen_inbox is: idle, opening, screening
  policy,        \* the recipient's policy
  established,   \* whether the author has a settled history
  envelopes,     \* the envelopes drained, each with who signed it
  messages,      \* the messages composed of them
  inbox, spam,   \* how the last call split them
  accepted,      \* history: the messages ever in the inbox
  outstanding,   \* history: receipts confirmed and not handed over or evicted
  saved_outstanding, \* history: those there were when the store was saved
  acknowledged   \* history: the receipts collect_receipts returned

fileVars == <<store_file, saved_outstanding>>
mailboxVars == <<storeVars, fileVars>>
sendVars == <<send_pc, sending, stored>>
inboxVars == <<inbox_pc, envelopes, messages, inbox, spam>>
worldVars == <<letters, policy, established>>
historyVars == <<attempted, returned, arrived, accepted, outstanding, acknowledged>>
clientVars == <<mailboxVars, blobs, sendVars, late, inboxVars, worldVars, historyVars>>

(* What stands for a signature is whose key made it: the envelope or       *)
(* receipt verifies when that is who it says it is from.  The mailbox has  *)
(* the key of neither correspondent; its own stands under NoAddress.       *)
Envelope == [id : MessageId, signer : Address]

(* A composed message: body and sealed_subject as SplitContent has them.   *)
Message(m, content) == [id |-> m, body |-> content.body, sealed_subject |-> content.sealed_subject]

IsMessage(x) == x.id \in MessageId /\ x = Message(x.id, x)

(* The body blob has number 0, the attachments follow. *)
BodyCid(m) == IF HasBodyBlob(letters[m]) THEN <<<<m, 0>>>> ELSE <<>>

(* The blobs of a message, in the order send stores them. *)
BlobsOf(m) == BodyCid(m) \o [i \in DOMAIN letters[m].attachments |-> <<m, i>>]

(* What is sealed into a blob. *)
Plaintext(blob) ==
  IF blob[2] = 0 THEN BodyPlaintext(letters[blob[1]])
  ELSE EncodeAttachment(letters[blob[1]].attachments[blob[2]])

(* Every blob is sealed with a key and a nonce of its own. *)
SealedBlob(blob) == SealTo(To[blob[1]], Plaintext(blob), <<"ephemeral", blob>>, <<"nonce", blob>>)

ClientTypeOK ==
  /\ TypeOK
  /\ store_file \in [format : {"v2"}, queues : [Address -> Seq(MessageId)], capacity : Nat,
                     receipts : [Address -> Seq(Receipt)]]
  /\ blobs \subseteq UNION {Range(BlobsOf(m)) : m \in MessageId}
  /\ send_pc \in {"idle", "storing", "delivering"}
  /\ sending \in {<<>>} \cup {<<m>> : m \in MessageId} /\ (send_pc = "idle") = (sending = <<>>)
  /\ stored \in Nat /\ (sending # <<>> => stored <= Len(BlobsOf(sending[1])))
  /\ late \subseteq MessageId
  /\ attempted \subseteq MessageId /\ returned \subseteq MessageId /\ arrived \subseteq MessageId
  /\ inbox_pc \in {"idle", "opening", "screening"}
  /\ <<letters, policy>> \in Correspondence /\ established \in BOOLEAN
  /\ envelopes \in Seq(Envelope)
  /\ \A list \in {messages, inbox, spam} : \A i \in DOMAIN list : IsMessage(list[i])
  /\ accepted \subseteq MessageId
  /\ outstanding \subseteq ReceiptKey /\ saved_outstanding \subseteq ReceiptKey
  /\ acknowledged \subseteq Receipt

-----------------------------------------------------------------------------

(* Screening with a policy of the recipient's. *)
Under(p) == INSTANCE Screening WITH
  Sender <- Address, Me <- Recipient, Amount <- {p.min_postage},
  allowlist <- p.allowlist, blocklist <- p.blocklist, min_postage <- p.min_postage,
  strict <- p.strict, waive_postage_for_established <- p.waive_postage_for_established

(* Mutant of Standing: a sender nobody could look up is taken as known. *)
StandingOrEstablished(found) == IF established \/ ~found THEN "Established" ELSE "Newcomer"

(* A lookup that fails makes the sender a newcomer. *)
Standing(found) == IF established /\ found THEN "Established" ELSE "Newcomer"

Verdict(m, standing) ==
  Under(policy)!Screen([from |-> Author, to |-> To[m], standing |-> standing, postage |-> PostageOf[m]])

-----------------------------------------------------------------------------

ClientInit ==
  /\ StoreInit /\ store_file = ToBytes /\ saved_outstanding = {}
  /\ blobs = {}
  /\ send_pc = "idle" /\ sending = <<>> /\ stored = 0 /\ late = {}
  /\ inbox_pc = "idle" /\ envelopes = <<>> /\ messages = <<>> /\ inbox = <<>> /\ spam = <<>>
  /\ \E pair \in Correspondence : letters = pair[1] /\ policy = pair[2]
  /\ established = FALSE
  /\ attempted = {} /\ returned = {} /\ arrived = {}
  /\ accepted = {} /\ outstanding = {} /\ acknowledged = {}

WithinLimits(letter) ==
  CheckLetter(ClientLimits, Len(letter.body),
              [i \in DOMAIN letter.attachments |-> Len(letter.attachments[i].bytes)])

(* A letter over the client's limits, and one with a file that cannot be   *)
(* read, is refused before anything is stored: no step.  One without blobs *)
(* may be sent again under its id.                                         *)
BeginSend(m) ==
  /\ send_pc = "idle"
  /\ WithinLimits(letters[m])
  /\ m \in attempted => BlobsOf(m) = <<>>
  /\ send_pc' = "storing" /\ sending' = <<m>> /\ stored' = 0
  /\ attempted' = attempted \cup {m}
  /\ UNCHANGED <<mailboxVars, blobs, late, inboxVars, worldVars, returned, arrived, accepted,
                 outstanding, acknowledged>>

(* send returns, with an id or with an error. *)
SendReturns == send_pc' = "idle" /\ sending' = <<>> /\ stored' = 0

MoreBlobs == send_pc = "storing" /\ stored < Len(BlobsOf(sending[1]))

NextBlob == BlobsOf(sending[1])[stored + 1]

PutBlob ==
  /\ MoreBlobs
  /\ blobs' = blobs \cup {NextBlob}
  /\ stored' = stored + 1
  /\ UNCHANGED <<mailboxVars, send_pc, sending, late, inboxVars, worldVars, historyVars>>

(* Mutant of PutBlobFails: a blob that cannot be stored is left out. *)
PutBlobSkips ==
  /\ MoreBlobs
  /\ stored' = stored + 1
  /\ UNCHANGED <<mailboxVars, blobs, send_pc, sending, late, inboxVars, worldVars, historyVars>>

(* The blob may be stored although the call failed. *)
PutBlobFails ==
  /\ MoreBlobs
  /\ blobs' \in {blobs, blobs \cup {NextBlob}}
  /\ SendReturns
  /\ UNCHANGED <<mailboxVars, late, inboxVars, worldVars, historyVars>>

(* Sign the envelope and send the request. *)
Seal ==
  /\ send_pc = "storing" /\ ~MoreBlobs
  /\ send_pc' = "delivering"
  /\ UNCHANGED <<mailboxVars, blobs, sending, stored, late, inboxVars, worldVars, historyVars>>

(* The mailbox handles a delivery. *)
Arrive(m) ==
  /\ Accept(m, TRUE)
  /\ arrived' = arrived \cup {m}

Delivered ==
  /\ send_pc = "delivering"
  /\ Arrive(sending[1])
  /\ returned' = returned \cup {sending[1]}
  /\ SendReturns
  /\ UNCHANGED <<fileVars, blobs, late, inboxVars, worldVars, attempted, accepted, outstanding,
                 acknowledged>>

(* Mutant of DeliveryFails: a request without an answer counts as sent. *)
DeliveryAssumed ==
  /\ send_pc = "delivering"
  /\ late' \in {late, late \cup {sending[1]}}
  /\ returned' = returned \cup {sending[1]}
  /\ SendReturns
  /\ UNCHANGED <<mailboxVars, blobs, inboxVars, worldVars, attempted, arrived, accepted,
                 outstanding, acknowledged>>

(* Refused, never arrived, or not answered in time: then the delivery was  *)
(* handled all the same, or will be.                                       *)
DeliveryFails ==
  /\ send_pc = "delivering"
  /\ \/ late' \in {late, late \cup {sending[1]}} /\ UNCHANGED <<storeVars, arrived>>
     \/ Arrive(sending[1]) /\ late' = late
  /\ SendReturns
  /\ UNCHANGED <<fileVars, blobs, inboxVars, worldVars, attempted, returned, accepted,
                 outstanding, acknowledged>>

LateDelivery ==
  /\ \E m \in late : Arrive(m) /\ late' = late \ {m}
  /\ UNCHANGED <<fileVars, blobs, sendVars, inboxVars, worldVars, attempted, returned, accepted,
                 outstanding, acknowledged>>

Send ==
  \/ \E m \in MessageId : BeginSend(m)
  \/ PutBlob \/ PutBlobFails \/ Seal \/ Delivered \/ DeliveryFails

-----------------------------------------------------------------------------
(* The recipient.                                                          *)

(* The mailbox answers with the mail it holds, and may put an envelope of  *)
(* its own making after it.                                                *)
Drain ==
  /\ inbox_pc = "idle"
  /\ \E since \in 0..MaxCursor, forged \in {<<>>} \cup {<<m>> : m \in MessageId} :
       LET held == ReadFrom(Recipient, since).envelopes
       IN  envelopes' = [i \in DOMAIN held |-> [id |-> held[i], signer |-> Author]]
                          \o [i \in DOMAIN forged |-> [id |-> forged[i], signer |-> NoAddress]]
  /\ inbox' = <<>> /\ spam' = <<>>
  /\ inbox_pc' = "opening"
  /\ UNCHANGED <<mailboxVars, blobs, sendVars, late, messages, worldVars, historyVars>>

(* What get_blob brings: the blob, a damaged one, or nothing. *)
Outcome == {"nothing", "intact"} \cup Damage

Fetched(blob, outcome) ==
  IF blob \notin blobs \/ outcome = "nothing" THEN None
  ELSE Some(IF outcome = "intact" THEN SealedBlob(blob) ELSE Damaged(SealedBlob(blob), outcome))

OpenBlob(blob, outcome) ==
  LET fetched == Fetched(blob, outcome)
  IN  IF fetched = None THEN None ELSE OpenSealed(Recipient, fetched[1])

(* open_content, with no content when any step of it fails. *)
OpenContent(m, outcome) ==
  LET plaintext == IF BodyCid(m) = <<>> THEN None ELSE OpenBlob(BodyCid(m)[1], outcome)
  IN  IF plaintext = None THEN NoContent ELSE SplitContent(plaintext[1])

(* open_attachment: nothing when it fails. *)
OpenAttachment(m, i, outcome) ==
  LET plaintext == OpenBlob(<<m, i>>, outcome)
  IN  IF plaintext = None THEN None ELSE DecodeAttachment(plaintext[1])

(* Mutant of Verifies: whatever the mailbox sends is taken. *)
VerifiesAnyway(signer, claimed) == signer \in Address /\ claimed \in Address

Verifies(signer, claimed) == signer = claimed

(* What a loop that goes on with some of a list, and skips the others,     *)
(* leaves of it, in order.                                                 *)
Sifted(s, places) ==
  LET sifted[i \in 0..Len(s)] ==
        IF i = 0 THEN <<>> ELSE IF i \in places THEN Append(sifted[i - 1], s[i]) ELSE sifted[i - 1]
  IN  sifted[Len(s)]

(* compose_messages: an envelope that does not verify is skipped; a body   *)
(* that cannot be fetched or opened is left empty, and its message listed  *)
(* all the same.                                                           *)
Open ==
  /\ inbox_pc = "opening"
  /\ LET good == Sifted(envelopes, {i \in DOMAIN envelopes : Verifies(envelopes[i].signer, Author)})
     IN  \E outcome \in [{good[i].id : i \in DOMAIN good} -> Outcome] :
           messages' = [i \in DOMAIN good |->
                          Message(good[i].id, OpenContent(good[i].id, outcome[good[i].id]))]
  /\ envelopes' = <<>>
  /\ inbox_pc' = "screening"
  /\ UNCHANGED <<mailboxVars, blobs, sendVars, late, inbox, spam, worldVars, historyVars>>

(* Each sender is looked up for each of its messages, and any lookup may   *)
(* fail.  A rejected message is dropped.                                   *)
Screen ==
  /\ inbox_pc = "screening"
  /\ \E found \in SUBSET {messages[i].id : i \in DOMAIN messages} :
       LET verdict(m) == Verdict(m, Standing(m \in found))
           rated(verdicts) == {i \in DOMAIN messages : verdict(messages[i].id) \in verdicts}
       IN  /\ inbox' = Sifted(messages, rated({"Inbox", "InboxPaid"}))
           /\ spam' = Sifted(messages, rated({"Spam"}))
  /\ accepted' = accepted \cup {inbox'[i].id : i \in DOMAIN inbox'}
  /\ messages' = <<>>
  /\ inbox_pc' = "idle"
  /\ UNCHANGED <<mailboxVars, blobs, sendVars, late, envelopes, worldVars,
                 attempted, returned, arrived, outstanding, acknowledged>>

(* Acks free what was drained, at the latest when a late one arrives. *)
AckInbox ==
  /\ \E cursor \in 1..MaxCursor : Ack(Recipient, cursor)
  /\ UNCHANGED <<fileVars, blobs, sendVars, late, inboxVars, worldVars, historyVars>>

(* The keys of the receipts that depositing r evicts. *)
Displaced(r) ==
  IF PutReceiptResult(Author, r, TRUE) = "Stored"
  THEN Keys(Evicted(Append(receipts[Author], r))) ELSE {}

(* send_receipt for a message that was in the inbox: confirmed, or the     *)
(* reply is lost or the request is handled after the client gave up.       *)
SendReceipt(r) ==
  /\ r.by = Recipient /\ r.message_id \in accepted
  /\ PutReceipt(Author, r, TRUE)
  /\ outstanding' \in {(outstanding \cup {DedupKey(r)}) \ Displaced(r), outstanding \ Displaced(r)}
  /\ UNCHANGED <<fileVars, blobs, sendVars, late, inboxVars, worldVars,
                 attempted, returned, arrived, accepted, acknowledged>>

(* The author's collect_receipts: handed over, or lost with the reply.     *)
(* The mailbox may add any receipts with its own signature; those that do  *)
(* not verify, in another's name, are left out.                            *)
Collect ==
  /\ CollectReceipts(Author)
  /\ outstanding' = {}
  /\ \/ acknowledged' = acknowledged
     \/ acknowledged' = acknowledged \cup Range(receipts[Author])
                           \cup {r \in Receipt : Verifies(NoAddress, r.by)}
  /\ UNCHANGED <<fileVars, blobs, sendVars, late, inboxVars, worldVars,
                 attempted, returned, arrived, accepted>>

(* The author settles its first interaction on chain. *)
Establish ==
  /\ ~established /\ established' = TRUE
  /\ UNCHANGED <<mailboxVars, blobs, sendVars, late, inboxVars, letters, policy, historyVars>>

(* A batch ends and its save sticks.  Batches are of any size, and any     *)
(* request that can change the store, also a duplicate, makes one dirty.   *)
SaveStore ==
  /\ store_file' = ToBytes /\ saved_outstanding' = outstanding
  /\ UNCHANGED <<storeVars, blobs, sendVars, late, inboxVars, worldVars, historyVars>>

(* The mailbox dies, in the middle of a batch or not, and is started: what *)
(* was deposited, displaced or collected since the save has not happened.  *)
RestartMailbox ==
  /\ FromBytes(store_file) /\ outstanding' = saved_outstanding
  /\ UNCHANGED <<fileVars, blobs, sendVars, late, inboxVars, worldVars,
                 attempted, returned, arrived, accepted, acknowledged>>

ClientNext ==
  \/ Send \/ LateDelivery
  \/ Drain \/ Open \/ Screen \/ AckInbox
  \/ \E r \in Receipt : SendReceipt(r)
  \/ Collect \/ Establish \/ SaveStore \/ RestartMailbox

ClientSpec == ClientInit /\ [][ClientNext]_clientVars

-----------------------------------------------------------------------------

(* Whatever call failed, timed out or was retried: an envelope that waits  *)
(* at the mailbox or was listed has all its blobs in the store, so that    *)
(* its body and attachments can be opened whenever the store is reachable. *)
MailHasItsBlobs ==
  \A m \in Range(queues[Recipient])
         \cup UNION {{list[i].id : i \in DOMAIN list} : list \in {messages, inbox, spam}} :
    Range(BlobsOf(m)) \subseteq blobs

(* What the inbox shows of a message is what its author wrote, to the      *)
(* byte: body, subject, and each attachment with its name and type, sealed *)
(* subject or not; or, when the body blob cannot be had whole, no body and *)
(* the envelope's subject.  A raw body may only be misread when it is, by  *)
(* itself, a complete structured one.                                      *)
OpenedAsComposed ==
  \A list \in {messages, inbox, spam} : \A i \in DOMAIN list :
    LET x == list[i]
        letter == letters[x.id]
        shown == [body |-> x.body, subject |-> ShownSubject(letter, x)]
    IN  /\ \/ shown = [body |-> letter.body, subject |-> letter.subject]
           \/ shown = [body |-> <<>>, subject |-> EnvelopeSubject(letter)]
           \/ /\ ~letter.seal_subject /\ letter.body # <<>> /\ letter.body[1] = BodyContentMagic
              /\ DecodeFields(Tail(letter.body), 2) # None
        /\ \A k \in DOMAIN letter.attachments : \A outcome \in Outcome :
             OpenAttachment(x.id, k, outcome)
               = IF outcome = "intact" THEN Some(letter.attachments[k]) ELSE None

(* Nothing is listed that its author never began to send: whatever the     *)
(* mailbox adds to a drain, a bad envelope costs only itself.              *)
ListedWereSent ==
  \A list \in {messages, inbox, spam} : \A i \in DOMAIN list : list[i].id \in attempted

(* An acknowledgement the author is given in the recipient's name is one   *)
(* the recipient made, of a message it had listed: the mailbox in between  *)
(* can acknowledge in its own name only.                                   *)
CollectedWereIssued ==
  \A r \in acknowledged : r.by = Recipient => r.message_id \in accepted

(* send returns an id only of a message the mailbox stored, in this or in  *)
(* an earlier attempt: a refusal or a timeout is never taken for success.  *)
ReturnedMailArrived == returned \subseteq arrived

(* "Never an over-trust": however many lookups fail, no message gets a     *)
(* better place than the policy gives it on the sender's actual standing.  *)
FailedLookupsNeverAdmit ==
  LET actual(m) == Verdict(m, IF established THEN "Established" ELSE "Newcomer")
  IN  /\ \A i \in DOMAIN inbox : actual(inbox[i].id) \in {"Inbox", "InboxPaid"}
      /\ \A i \in DOMAIN spam : actual(spam[i].id) # "Rejected"

(* A receipt whose deposit was confirmed, as new or as a duplicate, awaits *)
(* the author's next collection, unless newer receipts displaced it or a   *)
(* restart took its deposit back.  One that was saved survives restarts,   *)
(* which bring it back when its collection or displacement was not saved.  *)
ConfirmedReceiptsAwaitTheAuthor == outstanding \subseteq Keys(receipts[Author])
=============================================================================
