# ce-mail in TLA+

A verification project for `ce-mail`: store-and-forward mail between CE node
identities, in which an always-on *mailbox* node holds signed envelopes for
recipients that delegated to it. The modules here are written from the code in
`src/src/`; TLC checks them on small instances and TLAPS proves the theorems
listed below for every value of the constants.

## The system

| Part | State | Operations | Talks to |
|---|---|---|---|
| Mailbox store (`mailbox.rs`) | per recipient a queue of envelopes and the set of ids stored; per sender a list of receipts and the set of their keys; a capacity | `accept`, `ack`, `read_from`, `read_page`, `put_receipt`, `collect_receipts`, `try_to_bytes`, `from_bytes` | called by the service, or by threads through `SharedMailbox` |
| Mailbox service (`service.rs`, `proto.rs`) | the store and the limits | `handle`: `Deliver`, `Drain`, `DrainPage`, `Ack`, `PutReceipt`, `CollectReceipts` | `ce_iam_core::authorize`, the store |
| `serve-mailbox` (`main.rs`) | dirty flag, backoff, revocation set, the store file | poll, handle and answer a batch, persist, sleep; a task refreshes the revocation set | the node (`ce_rs`), the service, `atomic_write` |
| `inbox` command (`main.rs`, `client.rs`) | `inbox.json`, `inbox.cursor` | drain, list, save snapshot, save cursor, ack | the mailbox, by requests that may time out |
| Mail client (`client.rs`) | none | `send` (seal, store blobs, sign, deliver), drains, receipts, screening | blob store, mailbox |
| Conversations (`thread.rs`) | none | `resolve_root`, `group_threads`, `normalize_subject` | the client |
| Screening (`screening.rs`) | a policy | builder calls, `screen` | the client |
| Persistence (`persist.rs`) | a file, a temporary file per process id | `atomic_write`: create, write, sync, rename, sync the directory | the two commands above |
| Letters (`crypto.rs`, `attachment.rs`, body formats of `client.rs`) | none | seal and open, encode and decode bodies and attachments | the client |
| Limits (`limits.rs`) | the configured limits | `check_envelope`, `clamp_page`, the client's checks | the service, the client |
| Envelope, receipt (`envelope.rs`, `receipt.rs`) | none | ids, signatures, encoded length | everything |

What is hard here, and what makes each part correct:

* **Store.** Queues and indexes are separate maps that overflow, ack, collection
  and reload change differently. Correct when a message is held at most once,
  indexes agree with queues, retention is bounded, order of arrival is kept, and
  a message leaves only by ack or by displacement.
* **Service.** Authority comes from capability chains that expire, are delegated
  and are revoked; the same chain is shown by every sender. Correct when mail is
  added only for owners who trust the mailbox at that moment, and disclosed or
  freed only for the owner and for nodes the owner trusts.
* **Serving loop.** Replies leave before the batch is saved; writes, polls and
  replies fail; the process dies anywhere. Correct when the file is replaced
  whole, is current between batches, and the loop always goes on.
* **Inbox command.** A cursor is a position in a queue that acks, evictions and
  other devices shift, and that a mailbox which crashes before its save forgets;
  the command has two files and may stop between them. Correct when no mail is
  freed or skipped unseen.
* **Mail client.** A letter is several blobs and an envelope, stored and sent by
  calls each of which may fail, be lost or be handled late. Correct when no
  envelope arrives without its blobs, an id is returned only of mail that
  arrived, what is read is what was written or nothing, what a mailbox makes up
  is not believed, and what fails on the recipient's side never admits more.
* **Persistence.** Five steps, each of which may fail, with the death of the
  process or of the machine between any two. Correct when the path always names
  a whole file, and would after a power loss at that moment.
* **Limits.** Fields that each pass may be too large together. Correct when what
  a mailbox retains is bounded in bytes.
* **Conversations and screening.** Pure, but over any order of arrival, missing
  parents, disagreeing clocks, any subjects with prefixes piled on prefixes, and
  policies built by calls in any order.

`PROJECT.json` lists the hazards at their lines with the properties that cover
them, and those that nothing covers yet.

## Modules

| Module | Role |
|---|---|
| `MailboxStore` | the store; one action per mutating method, plus `Reload` (save and load) |
| `MessageLife` | abstract: absent, held, freed; what a mailbox promises of one message |
| `MailService` | extends the store with the gates and replies of `handle` |
| `Limits` | `check_envelope`, `encoded_len`, `clamp_page`, and what the client checks of a letter; strings are their lengths |
| `AtomicWrite` | `atomic_write` step by step for any processes that replace one path, with failures, deaths and power loss |
| `ServeMailbox` | extends the service and `AtomicWrite` with the loop, crashes, power loss, the refresher |
| `DurableMail` | abstract: memory, file and its unsettled versions, crash, power loss, recovery |
| `MailPromises` | the serving loop with a memory of what peers were told |
| `InboxClient` | the store, its last save and its restarts, with the owner's `inbox` command run again and again |
| `MailClient` | the store, its last save and its restarts, between two correspondents that use `MailClient`: send with its blobs, drain, open, screen (an instance of `Screening`), ack, receipts |
| `Letters` | sealing with symbolic primitives, damage, the formats of bodies and attachments; used by `MailClient` |
| `Threads` | conversations over an inbox that grows, with any subjects, and `normalize_subject` |
| `Screening` | the policy builder and `screen` |
| `Recursion` | lemmas for the proofs: least numbers, functions given step by step, sums, sequences of sequences, descent along links without a cycle |
| `MailboxStoreProofs`, `MailServiceProofs`, `ServeMailboxProofs`, `InboxClientProofs`, `MailClientProofs`, `ThreadsProofs`, `ScreeningProofs` | theorems |
| `MC*` | instances for TLC (`Screening` is run directly) |

`MailService` EXTENDS `MailboxStore`, `ServeMailbox` EXTENDS `MailService`, so
the process is composed by conjunction of the store's own actions: there is one
definition of `Accept` in the project. `InboxClient` composes the command with
the store directly: the owner's requests need no grant, so the service adds
nothing between them (`MayAct`, first disjunct).

A definition named "Mutant of X" is a plausible mistake in X. It is used by
nothing: it stands beside X to document which property would notice the mistake.

### How state and actions correspond to the code

* An envelope is its message id, which hashes everything that is signed, the
  recipient included (`To[m]`). Whether its signature verifies is a boolean of
  the request. Time of storage (`stored_at`) is written and never read, and is
  left out.
* A missing HashMap entry is an empty queue or index. `SharedMailbox` takes one
  lock per operation (`mailbox.rs:360`), so one operation is one step, and any
  interleaving of threads is an interleaving of `StoreNext`.
* Addresses are strings: the gate sees `ParseNodeId[a]`, the queues are keyed by
  the string itself. Two spellings of one node are two addresses.
* A chain is a sequence of links. `Authorize` is the verification of the
  external `ce_iam_core`, as `check_accept_grant`, `gate_delegate` and the tests
  use it: rooted at the owner, linked, ending in the audience, each link live.
  `handle` asks for each link under its own lock of the revocation set; as the
  set on chain only grows, the answer is that of the set before or after a
  concurrent refresh, and one step is enough.
* `Reply` is what `handle` answers, `Effect` what it does to the store; both are
  evaluated in the state in which the request is handled.
* The serving loop's `pc` follows `main.rs:318-379`. The batch is a number: its
  messages are independent, each is chosen when its turn comes. The reply is
  sent in a step after the store changed and before the batch is saved.
* The store file is a record as `try_to_bytes` writes it, a record of an older
  version, or nothing. `atomic_write` is its five steps, taken while `pc` is
  "saving"; `survivors` are the files the path may name after a power loss: what
  it named since the directory was synced last, torn if the content was not
  synced. A process that starts reads the file under any of them; one that finds
  a torn file ends before it serves (it never does: `FileIsWhole`).
* A temporary file that a dead process left has a name only a process with the
  same id looks for, and that one truncates it: in the model it is gone.
* `InboxClient` and `MailClient` have the mailbox's file, `store_file`, and what
  the loop does with it: replies leave before the save, `SaveStore` is the end of
  a dirty batch whose save sticks (any number of requests may lie between two of
  them, and a save that fails is none), and `RestartMailbox` loads `store_file`,
  so that what was confirmed since has not happened (`main.rs:282-289`,
  `359-376`). How a save comes about, and a power loss that brings back an older
  file, is `ServeMailbox`'s.
* `inbox_file` is the set of messages of `inbox.json`, which each run replaces: it
  is what `read` can see.
* A position in a queue is *stale* when it was overtaken since it was read: the
  queue lost its head to an eviction or an ack (`Shifted`), or a restart changed
  or cut off what stands before the position (`TakenBack`). `stale` is about the
  command's own position, `cursor_stale` about the saved cursor, and every ack
  under way carries its own mark. `lossy_acks` records what kind of ack ever freed
  mail that was not listed.
* `MailClient` has one step per call to the network (a blob, the delivery, the
  drain) and one for opening and one for screening a batch; which blobs come back
  damaged or not at all, and which standings cannot be fetched, is chosen anew for
  each message. Every attempt at a letter with blobs is a message of its own,
  since sealing takes a fresh key. The mailbox's gates are `MailService`'s; here a
  delivery may always be refused.
* A signature is whose key made it, and it verifies when that is who it is said
  to be from. A mailbox may add to a drain or to the receipts it hands over what
  it likes, with its own key, which stands under `NoAddress`.
* Sealing is symbolic: a node's secret and point, a shared secret that commutes,
  a ciphertext that opens under its own key and nonce only. A sequence of bytes is
  a sequence of numbers, since the body formats are told apart by their first
  byte and by whether the rest decodes; the length before a field takes one place.
* In `Limits` a string is its length, and an envelope its lengths. In `Threads` a
  subject is a sequence of words, signs, digits and blanks, and it is whatever its
  sender gave: nothing in the code makes a reply's subject from the one it answers,
  and a sealed letter's is the fixed text of `client.rs:270`.
* `unsaved`, `shown`, the stale marks, `lossy_acks`, `confirmed`, `requester`, and
  in `MailClient` `attempted`, `returned`, `arrived`, `accepted`, `outstanding`,
  `saved_outstanding` and `acknowledged` are history variables.
* Tuples of variables, and the specifications that put a part of the program
  beside its environment, stand for no lines of their own; `map` has their parts.
  The death of a process and of the machine is mapped as external.

## Runs

Passing runs:

| Run | Checks | Bounds, and why they are enough |
|---|---|---|
| `store` | `TypeOK`, `HeldOnce`, `ReceiptIndexExact`, `Bounded`, `LifeSpec`, `ArrivalOrderKept` | capacities 0 (taken as 1) and 2, three messages for alice: overflow by one at both; one message for bob, one for nobody; one receipt twice with different times. Queues are independent, so two recipients show any interference |
| `service` | `ServiceTypeOK`, `AddsOnlyForOwnersWhoTrustUs`, `DisclosesOnlyToTrusted`, `FreesOnlyForTrusted`, `PagesCoverTheQueue`, `RetainedBytesBounded` | owner, delegate, sender, stranger, mailbox; chains direct and expiring, delegated, for the delegate, forged, powerless, empty; two revocable links; two clock ticks; page ceiling 1 of capacity 2; limits 0, 1 and one that would wrap at 8; an envelope whose fields all pass and which is too large as a whole |
| `serve` | `ServeTypeOK`, `FileCurrentBetweenBatches`, `FileIsWhole`, `DeliveredIsKept`, `FailuresSlowPolling`, `DurableSpec`, and under fairness `BatchesEnd`, `KeepsServing`, `RevocationTakesEffect` | batches of up to two requests of every kind, among them a stranger's; no file or one of an older version with capacity 0, so that the capacity is 1 and a second message evicts; every step of a save failing, crashes and power losses anywhere; backoff 1, 2, 3; a grant that may be revoked, and one tick of the clock: a second request changes memory that the first has already dirtied, and the backoff doubles, then hits its cap |
| `inbox` | `InboxTypeOK`, `CursorPassesOnlyReadableMail`, `FreshAcksFreeOnlyListedMail`, under fairness `HeldMailIsListed` | three messages, capacity 2 so that the third evicts; saves and restarts of the mailbox at any moment; runs that resume from the saved cursor and ack, and runs that list anew from zero without (one that resumes without `--ack` leaves what a killed one leaves); one ack at a time that arrives late. Of the three messages, which are alike, the listing of one is followed (`Followed`) |
| `client` | `ClientTypeOK`, `MailHasItsBlobs`, `OpenedAsComposed`, `ListedWereSent`, `CollectedWereIssued`, `ReturnedMailArrived`, `FailedLookupsNeverAdmit`, `ConfirmedReceiptsAwaitTheAuthor` | four correspondences, each with a policy of its own: a sealed subject with a body and a picture, which is spam, beside a letter without blobs that pays its postage and may be sent again under its id; and three with one letter over the limits and one within: a raw body that begins like a structured one, with an empty file; a raw body that is a structured one; a sealed subject alone. Five kinds of damage; saves and restarts of the mailbox at any moment; an envelope and a receipt of the mailbox's making; two receipts for one message and capacities 1 (from 0) and 2, so that they displace each other or wait together |
| `threads` | `ThreadTypeOK`, `ConversationsAreComponents`, `ListedOnceLatestFirst`, `TitlesIgnorePrefixes` | all acyclic reply graphs on three messages and an unseen parent, two clock values, inboxes of up to four drained envelopes; three choices of subjects: one subject behind plain, counted and emptily counted prefixes; three unlike ones, with a bracket that is no count, a count behind the colon and a word that begins like a prefix; and nothing but prefixes beside a sealed one |
| `screening` | `ScreeningTypeOK`, `BlockOutranksAll`, `HardeningNeverAdmits` | three senders, amounts 0 to 2, every policy, every letter |

Two bounds of the `serve` run shorten it and are lifted by the proofs: a process
is started when the directory is settled (a start is otherwise the same step with
more files around it), and the directory can always be synced
(`DirSyncFails = FALSE`; `PathAlwaysWhole` holds for both values).

`inbox_resume_ack` has runs of the command and deliveries only, nothing killed,
lost, late or restarted (`SmoothSpec`), so that its counterexample is about
resuming and acking alone.

`Threads` does not check for deadlock: an inbox of the bounded length is final.

Runs that find a disagreement between the code and what it says of itself
(`PROJECT.json`, `findings`, quotes the lines):

| Run | What it shows |
|---|---|
| `store_seen` | the id index outgrows the capacity: ack never shrinks it |
| `service_alias` | mail to another spelling of a node id is confirmed and never replayed |
| `promise_durable` | a message confirmed within a batch is lost by a crash before the save |
| `promise_redelivery` | after an ack and a restart a redelivered message is stored again |
| `inbox_resume_ack` | resuming after `--ack` skips new mail, and the next ack frees it unlisted |

### Observed while modelling, without a run

* A write that fails is not tried again until another request changes the store:
  `dirty` is local to the batch (`main.rs:332`, `368`). `unsaved` keeps track of
  it, and `FileCurrentBetweenBatches` is stated for what is not `unsaved`.
* `--capacity` sets the capacity of a new store only; a store file keeps its own
  (`main.rs:285`). `Start` takes the capacity from the file.
* The directory is synced if it can be, and an error is ignored (`persist.rs:42`).
  The directory of a path without one (`--store store.bin`) is the empty string,
  which never opens, so there the rename is never made durable by the program:
  after a power loss the old file may come back, whole.
* A temporary file is left behind by a crash and by an error
  (`persist.rs:26-38`); nothing removes it.
* The backoff is capped at 30 s whatever `--poll-ms` is (`main.rs:327`), so with a
  longer poll interval a failed poll is repeated sooner than a successful one.
  `FailuresSlowPolling` is checked with a poll interval below the cap.
* An eviction, or an ack answered after its command gave up, between a drain and
  the next ack shifts the positions the ack is about (`mailbox.rs:143`, `250`).
  `FreshAcksFreeOnlyListedMail` says when an ack is safe: nothing overtook the
  position it counts from since it was read.
* A crash of the mailbox before its save does the same to a saved cursor, without
  the queue losing its head. The file holds one message, two more are delivered
  and drained, the cursor 3 is saved, and the mailbox restarts with one: what is
  delivered next takes the places of the lost two, resuming skips it, and the
  next ack frees it unlisted. A cursor past a queue's end is clamped without a
  word (`mailbox.rs:170`), so the command cannot notice. The properties
  of `InboxClient` call such a cursor stale and promise nothing of it.
* `inbox.json` is replaced by each run and holds only what that run listed, but
  the comment at `main.rs:197-198` has the cursor "never advance past mail the user
  can no longer see with `read`". It holds of the step that moves the cursor
  (`CursorPassesOnlyReadableMail`), and is over with the next run, whose snapshot
  no longer has the mail before the cursor.
* A conversation's subject is that of its first message by the senders' clocks
  (`thread.rs:149`); the comment above it (`thread.rs:146`) says "the subject of
  the root message". The two differ when the inbox never had the root or when a
  reply's clock is behind it. With prefixes alone between them the title is the
  same (`TitlesIgnorePrefixes`); a reply with a subject of its own, or a sealed
  one, which shows as a fixed text, then titles the conversation.
* The comment at `thread.rs:28-29` has `"Re: Re: [2]  Hello   World"` normalise
  "toward the same core" as `"Fwd: hello world"`: a count is taken off before the
  colon only, so the first comes out as `[2] hello world` (the second subject
  choice of the `threads` run has this form). It also says that a reply and its
  parent "group together even when an explicit pointer is absent": `group_threads`
  uses `in_reply_to` alone, as its own comment says, and
  `ConversationsAreComponents` is stated for that.
* 0xC5, the byte a structured body begins with (`client.rs:110`), is also the
  first byte of many letters in UTF-8 (small l with stroke, s with acute), so a
  plain text may well begin with it. What saves such a text is that it does not
  decode as a structured one; `OpenedAsComposed` exempts the bodies that do.
* A limit `max_page` of 0 makes `clamp_page` panic (`limits.rs:112`); no
  configuration in the repository has it, and `Limits` assumes it is at least 1.
* A receipt's strings have no limit (`service.rs:134`): only the number of
  receipts is bounded.
* A postage policy with a minimum of zero still asks for a receipt that verifies
  (`screening.rs:190`).

### Fairness

`FairServeSpec`, the specification of the `serve` run, assumes weak fairness of
the loop (one task, every call returns, every sleep ends), strong fairness of a
successful poll (the node is not unreachable for ever) and weak fairness of the
refresher's success. All liveness properties are of a process that stays up
(`<>[]Up`) or allow it to go down: nothing is assumed about restarts.
`FairInboxSpec` says that a
started command takes its next step; `HeldMailIsListed` moreover has as its
premise that the command gets to its end again and again, since nothing makes an
owner run it, and that its cursor is not overtaken for ever by acks, evictions
and restarts.

## Proofs

All proof modules are checked to the last leaf, for every value of the constants
under the named assumptions of the modules. What the assumptions ask: addresses
and message ids are any sets, an envelope has one recipient, capacities are
numbers, chains are finite sequences of links, a file left by an older version
holds what a store could have saved (`SavedStore`), the two correspondents of the
client are different addresses, attachments are a list, and message ids are
numbers (so that they are ordered). Of subjects nothing is assumed. TLC evaluates each of them on the
instances it checks. That replies have no cycle is no assumption but part of
`ThreadInit`: an id is a hash of a body that names its parent.

Every invariant that a passing run checks is stated by one of the theorems below.

* **`Recursion`.** The provers have no induction over a predicate. What stands in
  for it is a least or a last element: a set of numbers has a least one
  (`LeastNumber`), so a set that contains 0 and with a number the next contains all
  up to n (`CountingUp`). From it, functions defined step by step over 0..n exist
  and are unique (`RecursionExists`, `RecursionUnique`), sums are bounded
  (`SumBound`), and `FlattenSeq` is the parts one after another (`Flattening`).
  For recursion along links, every non-empty set has an element whose link leaves
  it (`WellFounded`); then a function that descends along them exists
  (`DescentExists`): its graph is the least set of pairs closed under the
  definition. A `CHOOSE` that a recursive function of the model
  stands for is thereby shown to be what the definition says.

* **`MailboxStoreProofs`.** The inductive invariant `IInv` is `TypeOK`,
  `HeldOnce`, `ReceiptIndexExact` and `Bounded` together. They need each other:
  an accepted message is new to the queue because queued ids are indexed
  (`HeldOnce`), evicting is at most one entry because the queue was within
  bounds (`Bounded`), and forgetting the evicted keys leaves the index exact
  because no two receipts held have one key (`ReceiptIndexExact`). The lemmas
  are about sequences: what appending and dropping a prefix does to a range, to
  injectivity, to length. `SavedBytes` and `LoadInv` say that what a sound store
  saves is a `SavedStore`, and that loading one gives a sound store. From `IInv`
  follow `StoreTypeOK`, `StoreHeldOnce`, `StoreReceiptIndexExact`, `StoreBounded`,
  the action property `StoreArrivalOrderKept`, and `StoreImplementsLife`: each
  step of the store is a step or a stutter of `MessageLife` under `LifeOf`.
* **`MailServiceProofs`.** `ServiceImplementsStore`: an admitted request is one
  store action, a refused one changes nothing, so the service inherits the
  store's theorems (`ServiceHeldOnce`, `ServiceBounded`).
  `ServiceHeldWithinLimits`: every envelope held passed `check_envelope`, which
  `ServiceRetainedBytesBounded` sums up by `SumBound`: what is kept for an address
  is at most the capacity times the largest envelope. `ServicePagesCoverTheQueue`:
  pages are contiguous and make progress, as long as the end of a queue and a page
  behind it is a number a `usize` holds (`QueuesFit`: a queue of 2^64 less a page
  does not fit into a memory); without it the sum in `read_page` could wrap.
  `ServiceTypesOK`. Access control, for chains of any
  length (`ServiceAddsOnlyForOwnersWhoTrustUs`, `ServiceFreesOnlyForTrusted`,
  `ServiceDisclosesOnlyToTrusted`): `Trusts` is the least set that follows live
  links, and the gate checks one chain. `ChainsConveyTrust` connects them: if the
  chain ended outside a set closed under live links that holds the owner, its
  first link to leave the set would contradict the closure. The first link exists
  because the numbers are well founded (`LeastNumber`), which stands in for an
  induction over the chain. `EffectAtTarget` then says what each request can
  change, and where.
* **`ServeMailboxProofs`.** First of `AtomicWrite` alone, `PathAlwaysWhole`: any
  number of processes, with any contents, interleaved, failing, dying and losing
  power at any step, with a directory that syncs or not. The invariant adds that a
  temporary file that is synced is whole, since only the process itself touches it.
  `ServeImplementsAtomicWrite` maps the loop's saves to it, whence `ServeFileWhole`.

  Of the loop, `FileCurrentBetweenBatches` is not inductive: within
  a batch memory runs ahead of the file. `ServeInv` is `IInv` with: each file is
  missing, old, or what a sound store wrote (`FilesKnown`), also those a power
  loss may bring back; the file equals memory whenever the process is up and
  nothing is dirty or unsaved (`CurrentUnlessDirty`); and what a save has written
  so far is what memory holds (`SavingInv`). The step that matters is that a
  request which does not mark the batch dirty leaves queues and receipts alone
  (`CleanRequestsChangeNothing`). From it follow `ServeFileCurrent`,
  `ServeHeldOnce` and `ServeBounded` across restarts, and `ServeDeliveredIsKept`.
  `ServeFailuresSlowPolling` holds if the poll interval is within the cap.
  `ServeTypesOK`: every request is answered with a reply of the protocol.

  Last, `ServeImplementsDurableMail`: with a store path the
  loop implements `DurableMail`, by the items in memory, in the file, and in each
  file that may come back. A rename is the abstract save, a synced directory
  settles it, every request adds one item at most.
* **`InboxClientProofs`.** A position is *covered* by a set of messages when the
  queue is that long and all before it is in the set. `Positions` says of each
  position that is not stale that listed mail covers it, `Batch` the same of what
  the running command has just drained and put into the snapshot. A step of the mailbox that leaves the
  queue's head alone only lengthens the queue (`UnshiftedLengthens`, from the
  arrival order and `HeldOnce`), and a restart leaves a position that it does not
  mark with the same messages before it, so positions stay covered; that the file
  is one a sound store saved (`SavedStore`) keeps `IInv` across the restart. From
  it: `InboxFreesOnlyListedMail` and `InboxCursorPassesOnlyReadableMail`, under
  `FollowsItsCursor`: the owner gives no `--since` of its own but 0.
  `InboxTypesOK` needs no such premise.
* **`MailClientProofs`.** A message is *posted* when its sending began and all its
  blobs are stored. It is before it is delivered, and no blob is ever removed, so
  `ClientInv` follows posted messages from the sender over the deliveries given up
  on to the queue, to the envelopes drained, and to what is listed. From it
  `ClientMailHasItsBlobs`, of mail that waits and of mail that is listed, and
  `ClientListedWereSent`. `ClientOpenedAsComposed`, for letters of any length with
  any number of attachments: what is serialised is read back
  (`FieldsRoundTrip`: the lengths put first say where each field begins, by
  `Flattening`), what is sealed opens under its own key and in no damaged form, and
  the two formats of a body are told apart unless the letter itself is a structured
  body, which the property exempts. `ClientFailedLookupsNeverAdmit` compares, position by position,
  what screening did with what it would have done had every lookup succeeded. For
  receipts, the invariant says that those the mailbox holds for the author are the
  recipient's, of listed messages (`ClientCollectedWereIssued`), and that what
  displaces a confirmed one is counted (`ClientReceiptsAwaitTheAuthor`). As a
  restart brings back the file, the invariant says of the file what it says of
  memory (`FileInv`): its mail is posted, its receipts are the recipient's, and
  those confirmed and waiting when it was saved are in it. Further
  `ClientReturnedMailArrived` and `ClientTypesOK`.
* **`ThreadsProofs`.** For inboxes and correspondences of any size. `Sorted` is a
  list of its set (`SortedLists`), the only one in its order (`ListsUnique`).
  `resolve_root` guards against cycles by what it has seen; as replies have none,
  a climb never comes back (`NothingAboveItself`), so the guard never stops it and
  a message has the root of its parent (`InboxRoots`). `Components`: if replies
  connect two messages, the messages of one root are closed under them; if two
  messages have one root, a closed set that holds the first holds a message
  whose parent is that root, or the root itself, and so the second. Hence
  `ThreadsAreComponents`, and with `PartsListOnce` `ThreadsListOnce`.
  `ThreadsTitlesIgnorePrefixes`: at each place of a subject at most one prefix ends
  (`EndsFromUnique`), so stripping is a descent to the right (`StartsExists`);
  behind text that is nothing but prefixes it arrives where it would have begun
  without that text (`TitleBehindPrefixes`), and the same tokens are kept there
  (`NormalBehindPrefixes`). So what is left of a subject without some of its
  prefixes has its normal form (`BareHasNormalForm`), and two subjects that can be
  left with one text have the same (`SharedText`). Further `ThreadTypesOK`.
* **`ScreeningProofs`.** The three properties of the `screening` run.

Model-checked only: liveness and fairness (`BatchesEnd`, `KeepsServing`,
`RevocationTakesEffect`, `HeldMailIsListed`), which are out of the prover's reach;
and the runs that find a disagreement, which are counterexamples. A theorem about
data of any size goes through the lemmas of `Recursion` instead of an induction;
where a definition of the model is recursive, it is a recursive function.

## Not modelled

* The byte layout of envelopes, receipts and of the store file, and hashing: an
  id is what fixes an envelope. The binary encoding of requests and replies.
* `id` and `read`, which print, and argument parsing; `from_file` is modelled, not
  the reading of the file.
* Direct delivery to a recipient's own node, whose answer is outside the
  repository, and a client that pages: no code in the repository follows the
  cursors of `DrainPage`; `PagesCoverTheQueue` states what such a client relies on.
* Two threads of one process that save one path at the same time would share the
  temporary file; no caller has them.
* In `InboxClient` and `MailClient`, a power loss that brings back a file older than
  the last save: `ServeMailbox` has it.
* In `InboxClient`, a delegate that runs the command with a grant (the gate is in
  `MailService`), and bodies that cannot be fetched (in `MailClient`).
* The external crates: the node (`ce_rs`), the chain verification
  (`ce_iam_core`), the file system and the ciphers are modelled from how the code
  uses them. The SMTP gateway is documented and not implemented.

## Plan

Everything of the first plan is done. What would still add to the project:

1. Two owners' devices, or an owner and a delegate, that run `inbox` against one
   mailbox, behind the gate: `InboxClient` over `MailService`.
2. Of the liveness properties, their safety parts as theorems: that each step of a
   batch that is not a crash brings its end closer.
3. `InboxFreesOnlyListedMail` for an owner who types a `--since` within what is
   listed, a premise weaker than `FollowsItsCursor`.
