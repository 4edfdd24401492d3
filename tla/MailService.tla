---------------------------- MODULE MailService ----------------------------
(***************************************************************************)
(* The request handler of src/src/service.rs in front of the store: it     *)
(* parses the address, enforces the limits, asks the capability gate, and  *)
(* only then runs the store operation.  handle takes the requester, the    *)
(* time and the revocation set as arguments; here they are the requester   *)
(* of each step and the variables now and revoked.                         *)
(*                                                                         *)
(* A capability chain is a sequence of links; ce_iam_core, which verifies  *)
(* it, is outside the repository and modelled from how service.rs,         *)
(* mailbox.rs and the grant-mailbox command use it.                        *)
(***************************************************************************)
EXTENDS MailboxStore, Limits

CONSTANTS
  Node,         \* node identities
  Self,         \* this mailbox's own identity
  NotANode,     \* what an address that is not 64 hex digits parses to
  ParseNodeId,  \* ParseNodeId[a]: the node an address names, in any spelling
  Limit,        \* the limits this mailbox enforces
  SizeOf,       \* SizeOf[m]: what the envelope with id m measures
  NodeIdHex,    \* NodeIdHex[n]: the spelling hex::encode gives node n
  Grant,        \* the chains requests carry, the empty one included
  Revocable,    \* the (issuer, nonce) pairs that may be revoked on chain
  Sent,         \* the pairs <<node, request>> that reach the mailbox
  MaxTime       \* bound: the last instant of the clock

(* One link of a chain.  `accepts` says whether it grants mail:accept on   *)
(* the issuing recipient's node; not_after 0 never expires.                *)
Link == [issuer : Node, audience : Node, nonce : Nat, not_after : Nat, accepts : BOOLEAN]

(* Requests (proto.rs).  `verifies` stands for the signature of the        *)
(* envelope or receipt carried.                                            *)
Request ==
  [type : {"Deliver"}, message : MessageId, verifies : BOOLEAN, grant : Grant]
  \cup [type : {"Drain"}, recipient : Address, since : Nat, grant : Grant]
  \cup [type : {"DrainPage"}, recipient : Address, since : Nat, limit : Nat, grant : Grant]
  \cup [type : {"Ack"}, recipient : Address, cursor : 0..MaxCursor, grant : Grant]
  \cup [type : {"PutReceipt"}, for_sender : Address, receipt : Receipt,
        verifies : BOOLEAN, grant : Grant]
  \cup [type : {"CollectReceipts"}, sender : Address, grant : Grant]

ASSUME ServiceAssumption ==
  /\ Self \in Node
  /\ NotANode \notin Node
  /\ ParseNodeId \in [Address -> Node \cup {NotANode}]
  /\ ParseNodeId[NoAddress] = NotANode
  /\ Limit \in Limits
  /\ SizeOf \in [MessageId -> EnvelopeSize]
  /\ NodeIdHex \in [Node -> Address]
  /\ \A n \in Node : ParseNodeId[NodeIdHex[n]] = n
  /\ Grant \subseteq Seq(Link)
  /\ Revocable \subseteq Node \X Nat
  /\ Sent \subseteq Node \X Request
  /\ MaxTime \in Nat

VARIABLES
  now,       \* unix seconds
  revoked,   \* the (issuer, nonce) pairs is_revoked answers TRUE for
  requester  \* the authenticated sender of the request handled last

serviceVars == <<storeVars, now, revoked, requester>>

ServiceTypeOK ==
  /\ TypeOK
  /\ now \in 0..MaxTime
  /\ revoked \subseteq Revocable
  /\ requester \in Node

-----------------------------------------------------------------------------
(* The gate.                                                               *)

LinkHolds(link) ==
  /\ link.accepts
  /\ link.not_after = 0 \/ now <= link.not_after
  /\ <<link.issuer, link.nonce>> \notin revoked

(* Mutant of Authorize: a chain may start at anyone. *)
AuthorizeAnyRoot(owner, audience, chain) ==
  /\ chain # <<>>
  /\ chain[Len(chain)].audience = audience
  /\ \A i \in 1..(Len(chain) - 1) : chain[i + 1].issuer = chain[i].audience
  /\ \A i \in DOMAIN chain : LinkHolds(chain[i])

(* authorize: the chain is rooted at the owner, each link is issued by the *)
(* audience of the one before, and the last one names the audience.        *)
Authorize(owner, audience, chain) ==
  /\ chain # <<>>
  /\ chain[1].issuer = owner
  /\ chain[Len(chain)].audience = audience
  /\ \A i \in 1..(Len(chain) - 1) : chain[i + 1].issuer = chain[i].audience
  /\ \A i \in DOMAIN chain : LinkHolds(chain[i])

(* check_accept_grant: this mailbox may hold mail for the owner of a. *)
MayHold(a, grant) ==
  ParseNodeId[a] # NotANode /\ Authorize(ParseNodeId[a], Self, grant)

(* Mutant of MayAct: the mailbox's own grant opens it to whoever shows it. *)
MayActWithOurGrant(node, a, grant) ==
  /\ ParseNodeId[a] # NotANode
  /\ node = ParseNodeId[a] \/ Authorize(ParseNodeId[a], Self, grant)

(* The owner of a, or a delegate for whom gate_delegate accepts the grant. *)
MayAct(node, a, grant) ==
  /\ ParseNodeId[a] # NotANode
  /\ node = ParseNodeId[a] \/ Authorize(ParseNodeId[a], node, grant)

(* Mutant of ClampPage: no ceiling. *)
ClampBelow(limit) == IF limit < 1 THEN 1 ELSE limit

ClampPage(limit) == Clamp(Limit, limit)

-----------------------------------------------------------------------------
(* Handling a request.                                                     *)

Error == [type |-> "Error"]

(* Replies (proto.rs). *)
MailReply ==
  {Error}
  \cup [type : {"Delivered", "ReceiptAccepted"}, duplicate : BOOLEAN]
  \cup [type : {"Drained"}, page : [envelopes : Seq(MessageId), cursor : Nat]]
  \cup [type : {"Page"}, page : [envelopes : Seq(MessageId), cursor : Nat, more : BOOLEAN]]
  \cup [type : {"Acked"}, removed : Nat]
  \cup [type : {"Receipts"}, receipts : Seq(Receipt)]

(* The address whose queue or receipts a request is about. *)
Target(req) ==
  CASE req.type = "Deliver" -> To[req.message]
    [] req.type = "PutReceipt" -> req.for_sender
    [] req.type = "CollectReceipts" -> req.sender
    [] OTHER -> req.recipient

(* Mutant of Admitted: an ack is gated like a delivery. *)
AdmittedAckLikeDeliver(node, req) ==
  IF req.type \in {"Deliver", "PutReceipt", "Ack"}
  THEN /\ req.type = "Deliver" => CheckEnvelope(Limit, SizeOf[req.message])
       /\ MayHold(Target(req), req.grant)
  ELSE MayAct(node, Target(req), req.grant)

(* What the gates in front of the store operation say. *)
Admitted(node, req) ==
  IF req.type \in {"Deliver", "PutReceipt"}
  THEN /\ req.type = "Deliver" => CheckEnvelope(Limit, SizeOf[req.message])
       /\ MayHold(Target(req), req.grant)
  ELSE MayAct(node, Target(req), req.grant)

PageOf(req) == ReadPage(req.recipient, req.since, ClampPage(req.limit))

StoreReply(result, type) ==
  IF result = "Error" THEN Error ELSE [type |-> type, duplicate |-> result = "Duplicate"]

(* What handle answers, in the state the request is handled in. *)
Reply(node, req) ==
  IF ~Admitted(node, req) THEN Error
  ELSE CASE req.type = "Deliver" ->
              StoreReply(AcceptResult(req.message, req.verifies), "Delivered")
         [] req.type = "Drain" ->
              [type |-> "Drained", page |-> ReadFrom(req.recipient, req.since)]
         [] req.type = "DrainPage" -> [type |-> "Page", page |-> PageOf(req)]
         [] req.type = "Ack" ->
              [type |-> "Acked", removed |-> Removed(req.recipient, req.cursor)]
         [] req.type = "PutReceipt" ->
              StoreReply(PutReceiptResult(req.for_sender, req.receipt, req.verifies),
                         "ReceiptAccepted")
         [] req.type = "CollectReceipts" ->
              [type |-> "Receipts", receipts |-> receipts[req.sender]]

(* What handle does to the store. *)
Effect(node, req) ==
  \/ req.type = "Deliver" /\ Admitted(node, req) /\ Accept(req.message, req.verifies)
  \/ req.type = "Ack" /\ Admitted(node, req) /\ Ack(req.recipient, req.cursor)
  \/ /\ req.type = "PutReceipt" /\ Admitted(node, req)
     /\ PutReceipt(req.for_sender, req.receipt, req.verifies)
  \/ req.type = "CollectReceipts" /\ Admitted(node, req) /\ CollectReceipts(req.sender)
  \/ req.type \in {"Drain", "DrainPage"} /\ UNCHANGED storeVars
  \/ ~Admitted(node, req) /\ UNCHANGED storeVars

Handle(node, req) ==
  /\ Effect(node, req)
  /\ requester' = node
  /\ UNCHANGED <<now, revoked>>

ServiceInit ==
  /\ StoreInit
  /\ now = 0
  /\ revoked = {}
  /\ requester = Self

Tick ==
  /\ now < MaxTime
  /\ now' = now + 1
  /\ UNCHANGED <<storeVars, revoked, requester>>

(* The revocation of a pair reaches the set the gate consults. *)
LearnRevocation ==
  /\ \E pair \in Revocable \ revoked : revoked' = revoked \cup {pair}
  /\ UNCHANGED <<storeVars, now, requester>>

ServiceNext ==
  \/ \E exchange \in Sent : Handle(exchange[1], exchange[2])
  \/ Tick
  \/ LearnRevocation

ServiceSpec == ServiceInit /\ [][ServiceNext]_serviceVars

-----------------------------------------------------------------------------

(* The nodes an owner trusts at this moment: the least set that holds the  *)
(* owner and follows every live link, whoever presents it.                 *)
LiveLinks == {link \in UNION {Range(chain) : chain \in Grant} : LinkHolds(link)}

Trusts(owner, node) ==
  \A S \in SUBSET Node :
    (owner \in S /\ \A link \in LiveLinks : link.issuer \in S => link.audience \in S)
      => node \in S

TrustedBy(a) == {node \in Node : ParseNodeId[a] # NotANode /\ Trusts(ParseNodeId[a], node)}

(* No open relay: mail and receipts are added only for an address whose    *)
(* owner trusts this mailbox at that moment, whoever brings them and       *)
(* whatever grant comes with them.                                         *)
AddsOnlyForOwnersWhoTrustUs ==
  [][\A a \in Address :
       (Range(queues'[a]) \ Range(queues[a]) # {} \/ Range(receipts'[a]) \ Range(receipts[a]) # {})
         => Self \in TrustedBy(a)]_serviceVars

(* Mail leaves a queue without new mail displacing it, and receipts leave, *)
(* only at the request of the owner or of a node the owner trusts: the     *)
(* grant a sender presents with its mail is no key to the mailbox.         *)
FreesOnlyForTrusted ==
  [][\A a \in Address :
       (\/ Range(queues[a]) \ Range(queues'[a]) # {} /\ Len(queues'[a]) < Len(queues[a])
        \/ receipts[a] # <<>> /\ receipts'[a] = <<>>)
         => requester' \in TrustedBy(a)]_serviceVars

(* Whatever state the mailbox is in, nobody but the owner and the nodes    *)
(* the owner trusts is answered with mail or receipts.                     *)
DisclosesOnlyToTrusted ==
  \A exchange \in Sent :
    LET node == exchange[1]
        req == exchange[2]
    IN  Reply(node, req).type \in {"Drained", "Page", "Receipts"} => node \in TrustedBy(Target(req))

(* A client that follows the cursors of its pages sees every envelope from *)
(* where it started, each one once, whatever limits it asks for.           *)
PagesCoverTheQueue ==
  \A exchange \in Sent :
    LET node == exchange[1]
        req == exchange[2]
        reply == Reply(node, req)
    IN  reply.type = "Page" =>
          /\ req.since <= Len(queues[req.recipient]) =>
               SubSeq(queues[req.recipient], 1, reply.page.cursor)
                 = SubSeq(queues[req.recipient], 1, req.since) \o reply.page.envelopes
          /\ reply.page.more = (reply.page.cursor < Len(queues[req.recipient]))
          /\ reply.page.more => reply.page.cursor > req.since /\ Len(reply.page.envelopes) <= Limit.max_page

(* What the mailbox retains for an address is bounded in bytes by the      *)
(* number of envelopes times max_envelope_bytes, and in entries by the     *)
(* capacity: no combination of fields that each pass, no padding of an     *)
(* address and no retry gets a larger envelope in.                         *)
RetainedBytesBounded ==
  \A a \in Address :
    LET bytes[i \in 0..Len(queues[a])] ==
          IF i = 0 THEN 0 ELSE bytes[i - 1] + EncodedLen(SizeOf[queues[a][i]])
    IN  /\ Len(queues[a]) <= capacity
        /\ bytes[Len(queues[a])] <= Len(queues[a]) * Limit.max_envelope_bytes

(* What the module documentation of mailbox.rs promises: mail held for a   *)
(* node is replayed to that node, which drains the address it was given    *)
(* by its own identity.                                                    *)
HeldMailIsReplayedToItsOwner ==
  \A a \in Address :
    ParseNodeId[a] # NotANode =>
      Range(queues[a]) \subseteq Range(ReadFrom(NodeIdHex[ParseNodeId[a]], 0).envelopes)
=============================================================================
