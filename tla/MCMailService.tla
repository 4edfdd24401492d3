---------------------------- MODULE MCMailService ----------------------------
(* A mailbox, alice who delegates to it (directly until time 1, and        *)
(* through carol's phone without expiry), bob who did not, and eve who     *)
(* signed herself a grant for alice's mail.  ALICE is alice's id in        *)
(* capitals.                                                               *)
EXTENDS MailService, TLC

CONSTANTS alice, carol, bob, eve, box, notANode,
          aliceHex, ALICE, carolHex, bobHex, eveHex, boxHex, none, m1, m2, m3, m4, m5

MCAddress == {aliceHex, ALICE, carolHex, bobHex, eveHex, boxHex, none}
MCNodeIdHex == alice :> aliceHex @@ carol :> carolHex @@ bob :> bobHex @@ eve :> eveHex
               @@ box :> boxHex
MCParseNodeId == aliceHex :> alice @@ ALICE :> alice @@ carolHex :> carol @@ bobHex :> bob
                 @@ eveHex :> eve @@ boxHex :> box @@ none :> notANode
MCMessageId == {m1, m2, m3, m4, m5}
MCTo == m1 :> aliceHex @@ m2 :> aliceHex @@ m3 :> ALICE @@ m4 :> bobHex @@ m5 :> aliceHex

(* m5 keeps to every limit on a field and is too large as a whole. *)
MCLimit ==
  [max_subject_bytes |-> 4, max_cid_bytes |-> 4, max_attachments |-> 2, max_postage_bytes |-> 2,
   max_envelope_bytes |-> 300, max_page |-> 1, max_attachment_bytes |-> 9, max_body_bytes |-> 9]
Small ==
  [addresses |-> 128, subject |-> 4, body_cid |-> 4, in_reply_to |-> 0, postage_receipt |-> 0,
   attachment_cids |-> <<>>]
MCSizeOf ==
  [m \in MCMessageId |->
     IF m = m5 THEN [Small EXCEPT !.in_reply_to = 4, !.postage_receipt = 2, !.attachment_cids = <<4, 4>>]
     ELSE Small]

LinkOf(issuer, audience, nonce, not_after) ==
  [issuer |-> issuer, audience |-> audience, nonce |-> nonce, not_after |-> not_after,
   accepts |-> TRUE]

Direct == <<LinkOf(alice, box, 1, 1)>>
ViaCarol == <<LinkOf(alice, carol, 2, 0), LinkOf(carol, box, 1, 0)>>
ForCarol == <<LinkOf(alice, carol, 2, 0)>>
Forged == <<LinkOf(eve, box, 1, 0)>>
Powerless == <<[LinkOf(alice, eve, 3, 0) EXCEPT !.accepts = FALSE]>>

MCGrant == {<<>>, Direct, ViaCarol, ForCarol, Forged, Powerless}
MCRevocable == {<<alice, 2>>, <<alice, 1>>}

MCReceipt == {[message_id |-> m4, kind |-> "Read", by |-> bobHex, at |-> 1]}
ReceiptOfM4 == CHOOSE r \in MCReceipt : TRUE

Deliver(m, grant) == [type |-> "Deliver", message |-> m, verifies |-> TRUE, grant |-> grant]
Drain(a, grant) == [type |-> "Drain", recipient |-> a, since |-> 0, grant |-> grant]
Page(a, since, limit, grant) ==
  [type |-> "DrainPage", recipient |-> a, since |-> since, limit |-> limit, grant |-> grant]
AckTo(a, cursor, grant) == [type |-> "Ack", recipient |-> a, cursor |-> cursor, grant |-> grant]
Deposit(a, grant) ==
  [type |-> "PutReceipt", for_sender |-> a, receipt |-> ReceiptOfM4, verifies |-> TRUE,
   grant |-> grant]
Collect(a, grant) == [type |-> "CollectReceipts", sender |-> a, grant |-> grant]

MCSent ==
  {<<bob, Deliver(m, g)>> : m \in {m1, m2}, g \in {Direct, ViaCarol, Forged, ForCarol}}
  \cup {<<bob, Deliver(m3, Direct)>>, <<alice, Deliver(m4, <<>>)>>, <<alice, Deliver(m4, Forged)>>,
        <<bob, Deliver(m5, Direct)>>,
        <<eve, [Deliver(m1, Direct) EXCEPT !.verifies = FALSE]>>}
  \cup {<<n, Drain(aliceHex, g)>> : n \in {alice, eve}, g \in {<<>>, Direct}}
  \cup {<<alice, Page(aliceHex, since, limit, <<>>)>> : since \in 0..2, limit \in {0, 1, 7}}
  \cup {<<eve, Page(aliceHex, 0, 1, g)>> : g \in {<<>>, Direct, Powerless}}
  \cup {<<n, AckTo(aliceHex, 1, g)>> : n \in {alice, carol, eve}, g \in {<<>>, Direct, ForCarol}}
  \cup {<<bob, Deposit(aliceHex, g)>> : g \in {<<>>, Direct, Forged}}
  \cup {<<n, Collect(aliceHex, g)>> : n \in {alice, eve, carol}, g \in {<<>>, Direct, ForCarol}}
  \cup {<<alice, Drain(ALICE, <<>>)>>, <<bob, Drain(none, <<>>)>>}
=============================================================================
