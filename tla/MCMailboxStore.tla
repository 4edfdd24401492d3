--------------------------- MODULE MCMailboxStore ---------------------------
(* Two addresses and the empty string; three messages for alice, so that a *)
(* capacity of two overflows, one for bob and one addressed to nobody.     *)
(* Alice read bob's m1 and m2, and issued the receipt of m1 twice.         *)
EXTENDS MailboxStore, TLC

CONSTANTS alice, bob, none, m1, m2, m3, m4, m5

MCAddress == {alice, bob, none}
MCMessageId == {m1, m2, m3, m4, m5}
MCTo == m1 :> alice @@ m2 :> alice @@ m3 :> alice @@ m4 :> bob @@ m5 :> none
MCReceipt ==
  {[message_id |-> m, kind |-> "Read", by |-> alice, at |-> t] :
     <<m, t>> \in {<<m1, 1>>, <<m1, 2>>, <<m2, 1>>}}
MCCapacity == {0, 2}
=============================================================================
