--------------------------- MODULE MCInboxClient ---------------------------
(* One owner, alice, to whom three messages are sent.                      *)
EXTENDS InboxClient, TLC

CONSTANTS alice, none, m1, m2, m3

MCTo == m1 :> alice @@ m2 :> alice @@ m3 :> alice

(* Acking from the saved cursor, which is 0 at first, and listing anew     *)
(* from the start.  A run without --ack that resumes leaves the same files *)
(* as one with it that is killed before its ack.                           *)
Options == {[since |-> Saved, ack |-> TRUE], [since |-> 0, ack |-> FALSE]}

ResumingAndAcking == {[since |-> Saved, ack |-> TRUE]}

(* Nothing is killed, lost or late, and the mailbox never restarts.        *)
SmoothSpec == InboxInit /\ [][Run \/ Command \/ Deliver]_inboxVars
=============================================================================
