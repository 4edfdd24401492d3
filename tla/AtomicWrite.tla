----------------------------- MODULE AtomicWrite -----------------------------
(***************************************************************************)
(* atomic_write of src/src/persist.rs, for one path that any number of     *)
(* processes replace: create a temporary file named by the process, write  *)
(* it, sync it, rename it over the path, sync the directory.  Every step   *)
(* may fail, the process may die between any two, and the machine may lose *)
(* power.                                                                  *)
(*                                                                         *)
(* The file system is external.  A file whose content was not synced may   *)
(* come back torn after a power loss; until the directory is synced, the   *)
(* path may come back as any file it named since the last sync.            *)
(***************************************************************************)

CONSTANTS
  Process,      \* the process ids
  DirSyncFails  \* whether the directory may fail to open or to sync

ASSUME FileAssumption == DirSyncFails \in BOOLEAN

VARIABLES
  disk,      \* what the path names
  survivors, \* what it may name after a power loss
  temp,      \* temp[p]: the temporary file of process p
  stage      \* stage[p]: how far p is in atomic_write

fileVars == <<disk, survivors, temp, stage>>

(* No file; an empty one, or a part of what was to be written. *)
NoFile == [format |-> "none"]
Torn == [format |-> "torn"]

FileInit(files) ==
  /\ disk \in files /\ survivors = {disk}
  /\ temp = [p \in Process |-> NoFile]
  /\ stage = [p \in Process |-> "idle"]

CreateTemp(p) ==
  /\ stage[p] = "idle"
  /\ temp' = [temp EXCEPT ![p] = Torn]
  /\ stage' = [stage EXCEPT ![p] = "created"]
  /\ UNCHANGED <<disk, survivors>>

WriteTemp(p, bytes) ==
  /\ stage[p] = "created"
  /\ temp' = [temp EXCEPT ![p] = bytes]
  /\ stage' = [stage EXCEPT ![p] = "written"]
  /\ UNCHANGED <<disk, survivors>>

SyncTemp(p) ==
  /\ stage[p] = "written"
  /\ stage' = [stage EXCEPT ![p] = "synced"]
  /\ UNCHANGED <<disk, survivors, temp>>

(* What may be found in the temporary file after a power loss. *)
Kept(p) == IF stage[p] = "synced" THEN {temp[p]} ELSE {temp[p], Torn}

(* Mutant of RenameTemp: nobody waits for the content to be synced. *)
RenameUnsynced(p) ==
  /\ stage[p] \in {"written", "synced"}
  /\ disk' = temp[p] /\ survivors' = survivors \cup Kept(p)
  /\ temp' = [temp EXCEPT ![p] = NoFile]
  /\ stage' = [stage EXCEPT ![p] = "renamed"]

RenameTemp(p) ==
  /\ stage[p] = "synced"
  /\ disk' = temp[p] /\ survivors' = survivors \cup Kept(p)
  /\ temp' = [temp EXCEPT ![p] = NoFile]
  /\ stage' = [stage EXCEPT ![p] = "renamed"]

(* A directory that cannot be opened or synced is ignored.  (The directory *)
(* of a path without one is "", which never opens.)                        *)
SyncDir(p) ==
  /\ stage[p] = "renamed"
  /\ survivors' = {disk} \/ (DirSyncFails /\ survivors' = survivors)
  /\ stage' = [stage EXCEPT ![p] = "idle"]
  /\ UNCHANGED <<disk, temp>>

(* Mutant of Abandon: the clean-up of an error removes the wrong file. *)
AbandonAndRemove(p) ==
  /\ stage[p] \in {"created", "written", "synced"}
  /\ disk' = NoFile /\ survivors' = survivors \cup {NoFile}
  /\ stage' = [stage EXCEPT ![p] = "idle"]
  /\ UNCHANGED temp

(* Writing, syncing or renaming failed: atomic_write returns the error and *)
(* leaves the temporary file.                                              *)
Abandon(p) ==
  /\ stage[p] \in {"created", "written", "synced"}
  /\ stage' = [stage EXCEPT ![p] = "idle"]
  /\ UNCHANGED <<disk, survivors, temp>>

(* Process p dies.  Its temporary file is left under a name nobody looks   *)
(* for: a process with the same id truncates it first.                     *)
Die(p) ==
  /\ temp' = [temp EXCEPT ![p] = NoFile]
  /\ stage' = [stage EXCEPT ![p] = "idle"]
  /\ UNCHANGED <<disk, survivors>>

(* The kernel writes the directory back by itself, in time. *)
WriteBack == survivors' = {disk} /\ UNCHANGED <<disk, temp, stage>>

LosePower ==
  /\ disk' \in survivors /\ survivors' = {disk'}
  /\ temp' = [p \in Process |-> NoFile]
  /\ stage' = [p \in Process |-> "idle"]

WriteStep(p, bytes) ==
  \/ CreateTemp(p) \/ WriteTemp(p, bytes) \/ SyncTemp(p) \/ RenameTemp(p) \/ SyncDir(p)
  \/ Abandon(p) \/ Die(p)

(* Any processes that write any whole contents to the path. *)
FileNext ==
  \/ LosePower \/ WriteBack
  \/ \E p \in Process : \E bytes : bytes # Torn /\ WriteStep(p, bytes)

FileSpec(files) == FileInit(files) /\ [][FileNext]_fileVars

-----------------------------------------------------------------------------

(* "A reader (or a restart) always sees either the old complete file or    *)
(* the new complete file": also after a power loss at this moment.         *)
FileIsWhole == Torn \notin {disk} \cup survivors
=============================================================================
