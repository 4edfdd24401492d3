----------------------------- MODULE DurableMail -----------------------------
(***************************************************************************)
(* What a mailbox process that keeps its store in a file promises across   *)
(* crashes, whatever the items are: memory gains at most one item a step,  *)
(* the file is only ever replaced by all of memory, a crash loses memory   *)
(* and nothing else, a power loss may also bring back a version of the     *)
(* file that was not yet settled, and the next process starts from the     *)
(* file.                                                                   *)
(***************************************************************************)
CONSTANT Item

VARIABLES
  up,       \* a process is running
  held,     \* the items it holds in memory
  saved,    \* the items in the file
  versions  \* the versions of the file since it was settled last

Init == up = FALSE /\ held = {} /\ saved \subseteq Item /\ versions = {saved}

Recover == ~up /\ up' = TRUE /\ held' = saved /\ UNCHANGED <<saved, versions>>

Serve ==
  /\ up
  /\ \E i \in Item : held' \subseteq held \cup {i}
  /\ UNCHANGED <<up, saved, versions>>

Save == up /\ saved' = held /\ versions' = versions \cup {held} /\ UNCHANGED <<up, held>>

Settle == versions' = {saved} /\ UNCHANGED <<up, held, saved>>

Crash == up' = FALSE /\ held' = {} /\ UNCHANGED <<saved, versions>>

LosePower == up' = FALSE /\ held' = {} /\ saved' \in versions /\ versions' = {saved'}

Next == Recover \/ Serve \/ Save \/ Settle \/ Crash \/ LosePower

Spec == Init /\ [][Next]_<<up, held, saved, versions>>
=============================================================================
