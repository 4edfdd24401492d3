--------------------------- MODULE MCServeMailbox ---------------------------
(* A mailbox that holds mail for alice; two messages, of which an older    *)
(* version saved m1, with a capacity of zero; the receipt of a message of  *)
(* hers; requests of every kind, an inadmissible one and a stranger's      *)
(* among them.  The grant may be revoked while the loop runs.              *)
EXTENDS ServeMailbox, TLC

CONSTANTS serve, alice, eve, box, notANode, aliceHex, eveHex, boxHex, none, m1, m2

MCAddress == {aliceHex, eveHex, boxHex, none}
MCNodeIdHex == alice :> aliceHex @@ eve :> eveHex @@ box :> boxHex
MCParseNodeId ==
  aliceHex :> alice @@ eveHex :> eve @@ boxHex :> box @@ none :> notANode
MCMessageId == {m1, m2}
MCTo == m1 :> aliceHex @@ m2 :> aliceHex

MCLimit == [DefaultLimits EXCEPT !.max_page = 1]
MCSizeOf ==
  [m \in MCMessageId |-> [addresses |-> 128, subject |-> 5, body_cid |-> 64, in_reply_to |-> 0,
                         postage_receipt |-> 0, attachment_cids |-> <<>>]]

Direct ==
  <<[issuer |-> alice, audience |-> box, nonce |-> 1, not_after |-> 0, accepts |-> TRUE]>>
MCGrant == {<<>>, Direct}
MCRevocable == {<<alice, 1>>}

Issued == [message_id |-> m2, kind |-> "Read", by |-> eveHex, at |-> 1]
MCReceipt == {Issued}

Deliver(m) == [type |-> "Deliver", message |-> m, verifies |-> TRUE, grant |-> Direct]
AckOne == [type |-> "Ack", recipient |-> aliceHex, cursor |-> 1, grant |-> <<>>]
MCSent ==
  {<<eve, Deliver(m1)>>, <<eve, Deliver(m2)>>,
   <<alice, [type |-> "Drain", recipient |-> aliceHex, since |-> 0, grant |-> <<>>]>>,
   <<alice, AckOne>>, <<eve, AckOne>>,
   <<eve, [type |-> "PutReceipt", for_sender |-> aliceHex, receipt |-> Issued,
           verifies |-> TRUE, grant |-> Direct]>>,
   <<alice, [type |-> "CollectReceipts", sender |-> aliceHex, grant |-> <<>>]>>}

MCLegacy ==
  {[format |-> "v1", capacity |-> 0,
    queues |-> [a \in MCAddress |-> IF a = aliceHex THEN <<m1>> ELSE <<>>]]}
=============================================================================
