----------------------------- MODULE MessageLife -----------------------------
(***************************************************************************)
(* What a mailbox promises of each message, without queues or indexes: a   *)
(* message arrives, is held, and is freed when its recipient acknowledges  *)
(* it.  Once freed it is not held again while the mailbox process lives.   *)
(* A message is lost unacknowledged only when a newer message for the same *)
(* recipient displaces it, one for one.                                    *)
(***************************************************************************)
CONSTANTS
  MessageId,
  Address,
  To          \* To[m]: the recipient of m

VARIABLE life \* life[m]: what the mailbox knows of m

TypeOK == life \in [MessageId -> {"absent", "held", "freed"}]

Init == life = [m \in MessageId |-> "absent"]

HeldFor(a) == {m \in MessageId : life[m] = "held" /\ To[m] = a}

(* m is stored; at most one held message of its recipient makes room. *)
Arrive(m, displaced) ==
  /\ life[m] = "absent"
  /\ displaced \subseteq HeldFor(To[m])
  /\ \A x, y \in displaced : x = y
  /\ life' = [x \in MessageId |-> IF x = m THEN "held"
                                  ELSE IF x \in displaced THEN "absent" ELSE life[x]]

(* The recipient acknowledges some of the messages held for it. *)
Free(a, ms) ==
  /\ ms \subseteq HeldFor(a)
  /\ life' = [x \in MessageId |-> IF x \in ms THEN "freed" ELSE life[x]]

(* A restart: what was freed is no longer remembered. *)
Forget ==
  life' = [x \in MessageId |-> IF life[x] = "freed" THEN "absent" ELSE life[x]]

Next ==
  \/ \E m \in MessageId : \E displaced \in SUBSET HeldFor(To[m]) : Arrive(m, displaced)
  \/ \E a \in Address : \E ms \in SUBSET HeldFor(a) : Free(a, ms)
  \/ Forget

Spec == Init /\ [][Next]_life
=============================================================================
