------------------------- MODULE ServeMailboxProofs -------------------------
(***************************************************************************)
(* Proofs about the serving loop: that it writes its file only by the      *)
(* steps of atomic_write, so that the file is never torn; that it leaves   *)
(* no change of the store unsaved between batches unless a write failed;   *)
(* that the store stays sound across crashes and power losses; and that    *)
(* the loop implements DurableMail.                                        *)
(*                                                                         *)
(* The invariant of the loop says when file and memory may differ: while   *)
(* the process is down, after a failed write, and inside a batch that is   *)
(* already marked dirty, until its file is renamed.  It also says that     *)
(* every file a power loss may bring back is one a sound store has         *)
(* written, which is what makes the store of the next process sound.       *)
(***************************************************************************)
EXTENDS ServeMailbox, MailServiceProofs

-----------------------------------------------------------------------------
(* atomic_write never lets a torn file be seen.  The invariant adds what   *)
(* the name of the file cannot show: that a temporary file is whole from   *)
(* the moment it is written to the moment it is renamed.                   *)

FileTypeOK ==
  /\ DOMAIN temp = Process /\ DOMAIN stage = Process

TempWhole == \A p \in Process : stage[p] \in {"written", "synced"} => temp[p] # Torn

WholeInv == FileTypeOK /\ FileIsWhole /\ TempWhole

(* One step of one process, whatever it writes, leaves path and temporary  *)
(* files whole.                                                            *)
LEMMA StepKeepsWhole ==
  ASSUME WholeInv, NEW p \in Process, NEW bytes, bytes # Torn, WriteStep(p, bytes)
  PROVE  WholeInv'
<1> USE DEF WholeInv, FileTypeOK, FileIsWhole, TempWhole
<1>1. CASE CreateTemp(p)
  BY <1>1 DEF CreateTemp
<1>2. CASE WriteTemp(p, bytes)
  BY <1>2 DEF WriteTemp
<1>3. CASE SyncTemp(p)
  BY <1>3 DEF SyncTemp
<1>4. CASE RenameTemp(p)
  <2>1. temp[p] # Torn /\ Kept(p) = {temp[p]}
    BY <1>4 DEF RenameTemp, Kept
  <2>2. FileIsWhole'
    BY <1>4, <2>1 DEF RenameTemp
  <2> QED
    BY <1>4, <2>2 DEF RenameTemp
<1>5. CASE SyncDir(p)
  BY <1>5 DEF SyncDir
<1>6. CASE Abandon(p)
  BY <1>6 DEF Abandon
<1>7. CASE Die(p)
  BY <1>7 DEF Die, NoFile, Torn
<1> QED
  BY <1>1, <1>2, <1>3, <1>4, <1>5, <1>6, <1>7 DEF WriteStep

(* Nor does a power loss show anything but a whole file. *)
LEMMA PowerLossKeepsWhole ==
  ASSUME WholeInv, LosePower \/ WriteBack
  PROVE  WholeInv'
<1>1. CASE LosePower
  BY <1>1 DEF LosePower, WholeInv, FileTypeOK, FileIsWhole, TempWhole
<1>2. CASE WriteBack
  BY <1>2 DEF WriteBack, WholeInv, FileTypeOK, FileIsWhole, TempWhole
<1> QED
  BY <1>1, <1>2

LEMMA StutterKeepsWhole == WholeInv /\ UNCHANGED fileVars => WholeInv'
  BY DEF WholeInv, FileTypeOK, FileIsWhole, TempWhole, fileVars

LEMMA StartsWhole ==
  ASSUME NEW files, Torn \notin files, FileInit(files)
  PROVE  WholeInv
  BY DEF FileInit, WholeInv, FileTypeOK, FileIsWhole, TempWhole

(* However many processes replace one path at once, whichever of their     *)
(* steps fail and whenever one dies or the power goes, the path names a    *)
(* whole file, and so it will after the next power loss.                   *)
THEOREM PathAlwaysWhole ==
  ASSUME NEW CONSTANT files, Torn \notin files
  PROVE  FileSpec(files) => []FileIsWhole
<1>1. FileInit(files) => WholeInv
  BY StartsWhole
<1>2. WholeInv /\ [FileNext]_fileVars => WholeInv'
  BY StepKeepsWhole, PowerLossKeepsWhole, StutterKeepsWhole DEF FileNext
<1>3. WholeInv => FileIsWhole
  BY DEF WholeInv
<1> QED
  BY <1>1, <1>2, <1>3, PTL DEF FileSpec

-----------------------------------------------------------------------------
(* What the files and the memory of the loop have to do with each other.   *)

Current == queues = OnDisk.queues /\ receipts = OnDisk.receipts

InBatch == pc \in {"serving", "replying", "saving"}

(* A file is missing, of an older version, or what to_bytes wrote. *)
Known(file) ==
  file = NoFile \/ file \in Legacy \/ (file.format = "v2" /\ SavedStore(file))

FilesKnown == Known(disk) /\ \A file \in survivors : Known(file)

CurrentUnlessDirty == StorePath /\ Up /\ ~unsaved /\ ~(InBatch /\ dirty) => Current

(* How far a save has come: the batch stays marked, what was written is    *)
(* what memory holds, and once it is renamed the file is current.          *)
SavingInv ==
  pc = "saving" =>
    /\ dirty
    /\ stage[Pid] \in {"written", "synced"} => temp[Pid] = ToBytes
    /\ stage[Pid] = "renamed" => Current

ServeInv == IInv /\ FileTypeOK /\ FilesKnown /\ CurrentUnlessDirty /\ SavingInv

-----------------------------------------------------------------------------

(* What is written, what is missing, what is torn and what is old differ.  *)
LEMMA FilesDiffer ==
  /\ ToBytes # Torn /\ ToBytes # NoFile /\ ToBytes \notin Legacy
  /\ Torn \notin {NoFile} \cup Legacy
  /\ NoFile \notin Legacy
<1>1. ToBytes.format = "v2"
  BY DEF ToBytes
<1>2. Torn.format = "torn" /\ NoFile.format = "none"
  BY DEF Torn, NoFile
<1>3. \A file \in Legacy : file.format = "v1"
  BY ServeAssumption
<1> QED
  BY <1>1, <1>2, <1>3

LEMMA BytesAreKnown == IInv => Known(ToBytes)
  BY SavedBytes DEF Known, ToBytes

LEMMA NewStoreSaved == \A c \in Nat : SavedStore(NewStore(c))
  BY DEF SavedStore, NewStore, Empty, IsInjective, AtLeastOne

(* Every step of the loop and its environment is a step of atomic_write,   *)
(* or leaves the file and its temporary alone.                             *)
LEMMA LoopWritesByAtomicWrite == [ServeNext]_serveVars => [FileNext]_fileVars
<1> SUFFICES ASSUME [ServeNext]_serveVars PROVE [FileNext]_fileVars
  OBVIOUS
<1>1. ASSUME WriteStep(Pid, ToBytes) PROVE FileNext
  BY <1>1, FilesDiffer, ServeAssumption DEF FileNext
<1>2. CASE BeginPersist
  BY <1>1, <1>2 DEF BeginPersist, WriteStep
<1>3. CASE Persist
  BY <1>1, <1>3 DEF Persist, WriteStep
<1>4. CASE Persisted
  BY <1>1, <1>4 DEF Persisted, WriteStep
<1>5. CASE PersistFails
  BY <1>1, <1>5 DEF PersistFails, WriteStep
<1>6. CASE Crash
  BY <1>1, <1>6 DEF Crash, WriteStep
<1>7. CASE PowerFails
  BY <1>7 DEF PowerFails, FileNext
<1>8. CASE SettleFile
  BY <1>8 DEF SettleFile, FileNext
<1>9. CASE Start \/ Refresh \/ RevokeOnChain \/ Clock \/ UNCHANGED serveVars
  BY <1>9 DEF Start, Refresh, RevokeOnChain, Clock, serveVars, saveVars
<1>10. CASE PollOk \/ PollFails \/ BackedOff \/ SkipMessage \/ SendReply \/ NothingToSave
            \/ CannotPersist \/ Wake
  BY <1>10 DEF PollOk, PollFails, BackedOff, SkipMessage, SendReply, NothingToSave,
               CannotPersist, Wake, saveVars
<1>11. CASE \E exchange \in Sent : HandleMessage(exchange[1], exchange[2])
  BY <1>11 DEF HandleMessage, saveVars
<1> QED
  BY <1>2, <1>3, <1>4, <1>5, <1>6, <1>7, <1>8, <1>9, <1>10, <1>11 DEF ServeNext, Loop

(* The serving process, with its crashes and the power losses around it,   *)
(* implements atomic_write of its store file.                              *)
THEOREM ServeImplementsAtomicWrite == ServeSpec => FileSpec({NoFile} \cup Legacy)
<1>1. ServeInit => FileInit({NoFile} \cup Legacy)
  BY DEF ServeInit
<1> QED
  BY <1>1, LoopWritesByAtomicWrite, PTL DEF ServeSpec, FileSpec

(* Whenever the process dies or the power goes, the store file is one that *)
(* the next process can decode: it is never a part of a store.             *)
THEOREM ServeFileWhole == ServeSpec => []FileIsWhole
<1>1. FileSpec({NoFile} \cup Legacy) => []FileIsWhole
  BY FilesDiffer, PathAlwaysWhole
<1> QED
  BY <1>1, ServeImplementsAtomicWrite, PTL

-----------------------------------------------------------------------------

(* A request that does not mutate, or is refused, leaves queues and        *)
(* receipts alone: the dirty flag of the loop misses no change.            *)
LEMMA CleanRequestsChangeNothing ==
  ASSUME NEW node, NEW req, Effect(node, req),
         ~(RequestMutates(req) /\ Reply(node, req) # Error)
  PROVE  UNCHANGED <<queues, receipts>>
<1>1. CASE req.type = "Deliver" /\ Admitted(node, req) /\ Accept(req.message, req.verifies)
  <2>1. Reply(node, req) = StoreReply(AcceptResult(req.message, req.verifies), "Delivered")
    BY <1>1 DEF Reply
  <2>2. StoreReply(AcceptResult(req.message, req.verifies), "Delivered") = Error
    BY <1>1, <2>1 DEF RequestMutates
  <2>3. AcceptResult(req.message, req.verifies) = "Error"
    BY <2>2 DEF StoreReply, Error
  <2> QED
    BY <1>1, <2>3 DEF Accept, storeVars
<1>2. CASE req.type = "Ack" /\ Admitted(node, req) /\ Ack(req.recipient, req.cursor)
  <2>1. Reply(node, req) = [type |-> "Acked", removed |-> Removed(req.recipient, req.cursor)]
    BY <1>2 DEF Reply
  <2> QED
    BY <1>2, <2>1 DEF RequestMutates, Error
<1>3. CASE /\ req.type = "PutReceipt" /\ Admitted(node, req)
           /\ PutReceipt(req.for_sender, req.receipt, req.verifies)
  <2> DEFINE result == PutReceiptResult(req.for_sender, req.receipt, req.verifies)
  <2>1. Reply(node, req) = StoreReply(result, "ReceiptAccepted")
    BY <1>3 DEF Reply
  <2>2. StoreReply(result, "ReceiptAccepted") = Error
    BY <1>3, <2>1 DEF RequestMutates
  <2>3. result = "Error"
    BY <2>2 DEF StoreReply, Error
  <2> QED
    BY <1>3, <2>3 DEF PutReceipt, storeVars
<1>4. CASE req.type = "CollectReceipts" /\ Admitted(node, req) /\ CollectReceipts(req.sender)
  <2>1. Reply(node, req) = [type |-> "Receipts", receipts |-> receipts[req.sender]]
    BY <1>4 DEF Reply
  <2> QED
    BY <1>4, <2>1 DEF RequestMutates, Error
<1>5. CASE UNCHANGED storeVars
  BY <1>5 DEF storeVars
<1> QED
  BY <1>1, <1>2, <1>3, <1>4, <1>5 DEF Effect

(* What is read back from a known file is what StoredIn says it holds.     *)
LEMMA LoadedIsStored ==
  ASSUME NEW file, Known(file), file # NoFile, FromBytes(file)
  PROVE  queues' = StoredIn(file).queues /\ receipts' = StoredIn(file).receipts
<1>1. CASE file \in Legacy
  <2>1. file.format = "v1" /\ file # Torn
    BY <1>1, ServeAssumption DEF Torn
  <2>2. StoredIn(file).queues = file.queues /\ StoredIn(file).receipts = Empty
    BY <1>1, <2>1 DEF StoredIn, NewStore
  <2> QED
    BY <2>1, <2>2 DEF FromBytes
<1>2. CASE file \notin Legacy
  <2>1. file.format = "v2" /\ file # Torn
    BY <1>2 DEF Known, Torn
  <2>2. StoredIn(file) = file
    BY <1>2, <2>1 DEF StoredIn
  <2> QED
    BY <2>1, <2>2 DEF FromBytes
<1> QED
  BY <1>1, <1>2

(* Loading the file, or starting empty where there is none, makes memory   *)
(* and file agree.                                                         *)
LEMMA StartLoads == ServeInv /\ Start /\ StorePath => Current'
<1> SUFFICES ASSUME ServeInv, Start, StorePath PROVE Current'
  OBVIOUS
<1>1. disk' = disk
  BY DEF Start, saveVars, fileVars
<1>2. CASE disk = NoFile
  <2>1. PICK c \in Capacity : FromBytes(NewStore(c))
    BY <1>2 DEF Start
  <2>2. queues' = Empty /\ receipts' = Empty
    BY <2>1 DEF FromBytes, NewStore
  <2>3. OnDisk'.queues = Empty /\ OnDisk'.receipts = Empty
    BY <1>1, <1>2, FilesDiffer DEF OnDisk, StoredIn, NewStore
  <2> QED
    BY <2>2, <2>3 DEF Current
<1>3. CASE disk # NoFile
  <2>1. FromBytes(disk)
    BY <1>3 DEF Start
  <2>2. OnDisk' = StoredIn(disk)
    BY <1>1 DEF OnDisk, StoredIn
  <2>3. Known(disk)
    BY DEF ServeInv, FilesKnown
  <2> QED
    BY <1>3, <2>1, <2>2, <2>3, LoadedIsStored DEF Current
<1> QED
  BY <1>2, <1>3

(* What is loaded is sound, as everything was that was ever saved.         *)
LEMMA StartInv == ServeInv /\ Start => ServeInv'
<1> SUFFICES ASSUME ServeInv, Start PROVE ServeInv'
  OBVIOUS
<1>1. UNCHANGED <<disk, survivors, temp, stage>> /\ pc' = "polling"
  BY DEF Start, saveVars, fileVars
<1>2. FilesKnown' /\ FileTypeOK'
  BY <1>1 DEF ServeInv, FilesKnown, Known, FileTypeOK
<1>3. IInv'
  <2>1. PICK c \in Capacity :
          FromBytes(IF StorePath /\ disk # NoFile THEN disk ELSE NewStore(c))
    BY DEF Start
  <2>2. SavedStore(NewStore(c))
    BY StoreAssumption, NewStoreSaved
  <2>3. disk # NoFile => SavedStore(disk)
    BY ServeAssumption DEF ServeInv, FilesKnown, Known
  <2> QED
    BY <2>1, <2>2, <2>3, LoadInv
<1>4. SavingInv'
  BY <1>1 DEF SavingInv
<1> QED
  BY <1>2, <1>3, <1>4, StartLoads DEF ServeInv, CurrentUnlessDirty

(* A step that leaves store and file alone, begins no save, and neither    *)
(* ends a dirty batch nor clears a flag, keeps the invariant.              *)
LEMMA IdleInv ==
  ASSUME ServeInv, UNCHANGED <<storeVars, disk, survivors, temp, stage>>,
         (StorePath /\ Up /\ ~unsaved /\ ~(InBatch /\ dirty))'
           => (StorePath /\ Up /\ ~unsaved /\ ~(InBatch /\ dirty)),
         pc' = "saving" => pc = "saving" /\ dirty' = dirty
  PROVE  ServeInv'
<1>1. OnDisk' = OnDisk /\ ToBytes' = ToBytes
  BY DEF OnDisk, StoredIn, ToBytes, storeVars
<1>2. FilesKnown' /\ FileTypeOK'
  BY DEF ServeInv, FilesKnown, Known, FileTypeOK
<1>3. Current' = Current
  BY <1>1 DEF Current, storeVars
<1>4. SavingInv'
  BY <1>1, <1>3 DEF ServeInv, SavingInv
<1> QED
  BY <1>2, <1>3, <1>4, UnchangedInv DEF ServeInv, CurrentUnlessDirty

(* Handling a message changes memory only in a batch that is then dirty.   *)
LEMMA HandleInv ==
  ASSUME ServeInv, NEW node, NEW req \in Request, HandleMessage(node, req)
  PROVE  ServeInv'
<1>1. /\ Effect(node, req)
      /\ dirty' = (dirty \/ (RequestMutates(req) /\ Reply(node, req) # Error))
      /\ pc = "serving" /\ pc' = "replying"
      /\ UNCHANGED <<disk, survivors, temp, stage, unsaved>>
  BY DEF HandleMessage, Handle, saveVars, fileVars
<1>2. IInv' /\ FilesKnown' /\ FileTypeOK' /\ SavingInv'
  <2>1. IInv'
    BY <1>1, EffectIsStoreStep, StepInv DEF ServeInv
  <2> QED
    BY <1>1, <2>1 DEF ServeInv, FilesKnown, Known, FileTypeOK, SavingInv
<1>3. CASE RequestMutates(req) /\ Reply(node, req) # Error
  <2>1. dirty' = TRUE
    BY <1>1, <1>3
  <2> QED
    BY <1>1, <1>2, <2>1 DEF ServeInv, CurrentUnlessDirty, InBatch
<1>4. CASE ~(RequestMutates(req) /\ Reply(node, req) # Error)
  <2>1. UNCHANGED <<queues, receipts>>
    BY <1>1, <1>4, CleanRequestsChangeNothing
  <2>2. Current' = Current
    BY <1>1, <2>1 DEF Current, OnDisk, StoredIn
  <2>3. dirty' = dirty \/ (dirty' = FALSE /\ dirty # TRUE)
    BY <1>1, <1>4
  <2>4. CurrentUnlessDirty'
    BY <1>1, <2>2, <2>3 DEF ServeInv, CurrentUnlessDirty, Up, InBatch
  <2> QED
    BY <1>2, <2>4 DEF ServeInv
<1> QED
  BY <1>3, <1>4

(* The batch that is being saved stays marked, and what is written is what *)
(* memory holds.                                                           *)
LEMMA WriteInv == ServeInv /\ (BeginPersist \/ Persist) => ServeInv'
<1> SUFFICES ASSUME ServeInv, BeginPersist \/ Persist PROVE ServeInv'
  OBVIOUS
<1>1. /\ UNCHANGED <<queues, receipts, capacity, dirty>> /\ dirty /\ pc' = "saving"
      /\ UNCHANGED storeVars
      /\ Pid \in DOMAIN temp /\ Pid \in DOMAIN stage
  BY ServeAssumption DEF BeginPersist, Persist, ServeInv, SavingInv, FileTypeOK, serviceVars,
                         storeVars, loopVars
<1>2. ToBytes' = ToBytes
  BY <1>1 DEF ToBytes
<1>3. CurrentUnlessDirty' /\ IInv'
  BY <1>1, UnchangedInv DEF ServeInv, CurrentUnlessDirty, InBatch
<1>4. ASSUME UNCHANGED <<disk, survivors>> PROVE FilesKnown' /\ Current' = Current
  BY <1>1, <1>4 DEF ServeInv, FilesKnown, Known, Current, OnDisk, StoredIn
<1>5. CASE BeginPersist
  <2>1. FileTypeOK' /\ SavingInv'
    BY <1>1, <1>5 DEF BeginPersist, CreateTemp, ServeInv, FileTypeOK, SavingInv
  <2> QED
    BY <1>3, <1>4, <1>5, <2>1 DEF BeginPersist, CreateTemp, ServeInv
<1>6. CASE Persist /\ WriteTemp(Pid, ToBytes)
  <2>1. FileTypeOK' /\ SavingInv'
    BY <1>1, <1>2, <1>6 DEF WriteTemp, ServeInv, FileTypeOK, SavingInv
  <2> QED
    BY <1>3, <1>4, <1>6, <2>1 DEF WriteTemp, ServeInv
<1>7. CASE Persist /\ SyncTemp(Pid)
  <2>1. FileTypeOK' /\ temp' = temp /\ stage[Pid] = "written" /\ stage'[Pid] = "synced"
    BY <1>1, <1>7 DEF SyncTemp, ServeInv, FileTypeOK
  <2>2. SavingInv'
    BY <1>1, <1>2, <1>7, <2>1 DEF Persist, ServeInv, SavingInv
  <2> QED
    BY <1>3, <1>4, <1>7, <2>1, <2>2 DEF SyncTemp, ServeInv
<1>8. CASE Persist /\ RenameTemp(Pid)
  <2>1. disk' = ToBytes /\ survivors' = survivors \cup {ToBytes}
    BY <1>8 DEF Persist, RenameTemp, Kept, ServeInv, SavingInv
  <2>2. Current'
    <3>1. OnDisk' = StoredIn(ToBytes)
      BY <1>1, <2>1 DEF OnDisk, StoredIn
    <3>2. StoredIn(ToBytes) = ToBytes
      BY FilesDiffer DEF StoredIn
    <3> QED
      BY <1>1, <3>1, <3>2 DEF Current, ToBytes
  <2>3. FilesKnown'
    BY <2>1, BytesAreKnown DEF ServeInv, FilesKnown, Known
  <2>4. FileTypeOK' /\ SavingInv'
    BY <1>1, <1>8, <2>2 DEF RenameTemp, ServeInv, FileTypeOK, SavingInv
  <2> QED
    BY <1>3, <2>3, <2>4 DEF ServeInv
<1> QED
  BY <1>5, <1>6, <1>7, <1>8 DEF Persist

(* A save ends with the file renamed and current, or is marked as failed.  *)
LEMMA SavedInv == ServeInv /\ (Persisted \/ PersistFails) => ServeInv'
<1> SUFFICES ASSUME ServeInv, Persisted \/ PersistFails PROVE ServeInv'
  OBVIOUS
<1>1. /\ UNCHANGED <<storeVars, queues, receipts, disk, temp>> /\ pc' = "sleeping"
      /\ survivors' = {disk} \/ survivors' = survivors
  BY DEF Persisted, PersistFails, SyncDir, Abandon, serviceVars, storeVars
<1>2. IInv' /\ FilesKnown' /\ Current' = Current /\ SavingInv'
  BY <1>1, UnchangedInv DEF ServeInv, FilesKnown, Known, Current, OnDisk, StoredIn, SavingInv
<1>3. FileTypeOK'
  BY <1>1 DEF Persisted, PersistFails, SyncDir, Abandon, ServeInv, FileTypeOK
<1>4. CASE Persisted
  <2>1. Current
    BY <1>4 DEF Persisted, SyncDir, ServeInv, SavingInv
  <2> QED
    BY <1>2, <1>3, <2>1 DEF ServeInv, CurrentUnlessDirty
<1>5. CASE PersistFails
  BY <1>2, <1>3, <1>5 DEF PersistFails, ServeInv, CurrentUnlessDirty
<1> QED
  BY <1>4, <1>5

(* Whatever a dead process left, or a power loss brought back, is known.   *)
LEMMA DownInv == ServeInv /\ (Crash \/ PowerFails) => ServeInv'
<1> SUFFICES ASSUME ServeInv, Crash \/ PowerFails PROVE ServeInv'
  OBVIOUS
<1>1. pc' = "down"
  BY DEF Crash, PowerFails, Halt
<1>2. IInv' /\ FilesKnown' /\ FileTypeOK'
  <2>1. IInv'
    BY NewStoreSaved, LoadInv DEF Crash, PowerFails, Halt
  <2>2. CASE Crash
    BY <2>1, <2>2 DEF Crash, Die, ServeInv, FilesKnown, Known, FileTypeOK
  <2>3. CASE PowerFails
    BY <2>1, <2>3 DEF PowerFails, LosePower, ServeInv, FilesKnown, Known, FileTypeOK
  <2> QED
    BY <2>2, <2>3
<1> QED
  BY <1>1, <1>2 DEF ServeInv, CurrentUnlessDirty, SavingInv, Up

LEMMA SettleInv == ServeInv /\ SettleFile => ServeInv'
<1> SUFFICES ASSUME ServeInv, SettleFile PROVE ServeInv'
  OBVIOUS
<1>1. /\ UNCHANGED <<storeVars, queues, receipts, capacity>>
      /\ UNCHANGED <<pc, dirty, unsaved, disk, temp, stage>>
      /\ survivors' = {disk}
  BY DEF SettleFile, WriteBack, serviceVars, storeVars, loopVars
<1>2. FilesKnown' /\ FileTypeOK' /\ Current' = Current /\ ToBytes' = ToBytes
  BY <1>1 DEF ServeInv, FilesKnown, Known, FileTypeOK, Current, OnDisk, StoredIn, ToBytes
<1>3. CurrentUnlessDirty'
  BY <1>1, <1>2 DEF ServeInv, CurrentUnlessDirty, Up, InBatch
<1>4. SavingInv'
  BY <1>1, <1>2 DEF ServeInv, SavingInv
<1> QED
  BY <1>1, <1>2, <1>3, <1>4, UnchangedInv DEF ServeInv

(* Every step of the process and its environment preserves the invariant.  *)
LEMMA ServeStep == ServeInv /\ [ServeNext]_serveVars => ServeInv'
<1> SUFFICES ASSUME ServeInv, [ServeNext]_serveVars PROVE ServeInv'
  OBVIOUS
<1> USE DEF serviceVars, storeVars, loopVars, saveVars, fileVars
<1>1. CASE Start
  BY <1>1, StartInv
<1>2. CASE PollOk
  BY <1>2, IdleInv DEF PollOk, Up, InBatch
<1>3. CASE PollFails
  BY <1>3, IdleInv DEF PollFails, Up, InBatch
<1>4. CASE BackedOff
  BY <1>4, IdleInv DEF BackedOff, Up, InBatch
<1>5. CASE SkipMessage
  BY <1>5, IdleInv DEF SkipMessage, Up, InBatch
<1>6. CASE \E exchange \in Sent : HandleMessage(exchange[1], exchange[2])
  BY <1>6, HandleInv, ServiceAssumption
<1>7. CASE SendReply
  BY <1>7, IdleInv DEF SendReply, Up, InBatch
<1>8. CASE NothingToSave
  BY <1>8, IdleInv DEF NothingToSave, BatchDone, Up, InBatch
<1>9. CASE CannotPersist
  BY <1>9, IdleInv DEF CannotPersist, Up, InBatch
<1>10. CASE BeginPersist \/ Persist
  BY <1>10, WriteInv
<1>11. CASE Persisted \/ PersistFails
  BY <1>11, SavedInv
<1>12. CASE Wake
  BY <1>12, IdleInv DEF Wake, Up, InBatch
<1>13. CASE Crash \/ PowerFails
  BY <1>13, DownInv
<1>14. CASE SettleFile
  BY <1>14, SettleInv
<1>15. CASE Refresh
  BY <1>15, IdleInv DEF Refresh, Up, InBatch
<1>16. CASE RevokeOnChain
  BY <1>16, IdleInv DEF RevokeOnChain, Up, InBatch
<1>17. CASE Clock
  BY <1>17, IdleInv DEF Clock, Tick, Up, InBatch
<1>18. CASE UNCHANGED serveVars
  BY <1>18, IdleInv DEF serveVars, Up, InBatch
<1> QED
  BY <1>1, <1>2, <1>3, <1>4, <1>5, <1>6, <1>7, <1>8, <1>9, <1>10, <1>11, <1>12, <1>13,
     <1>14, <1>15, <1>16, <1>17, <1>18 DEF ServeNext, Loop

LEMMA ServeStart == ServeInit => ServeInv
<1> SUFFICES ASSUME ServeInit PROVE ServeInv
  OBVIOUS
<1>1. IInv
  <2>1. TypeOK
    BY DEF ServeInit, New, TypeOK, Empty, AtLeastOne
  <2> QED
    BY <2>1 DEF ServeInit, New, Empty, Keys, IInv, HeldOnce, ReceiptIndexExact, Bounded,
                IsInjective, TypeOK
<1> QED
  BY <1>1 DEF ServeInit, FileInit, ServeInv, FileTypeOK, FilesKnown, Known,
              CurrentUnlessDirty, SavingInv, Up

THEOREM ServeInvariant == ServeSpec => []ServeInv
  BY ServeStart, ServeStep, PTL DEF ServeSpec

(* Between batches the store file is current unless the last write failed: *)
(* for every mix of requests, crashes, power losses, lost replies and      *)
(* failing polls, no change of the store escapes the dirty flag.           *)
THEOREM ServeFileCurrent == ServeSpec => []FileCurrentBetweenBatches
<1>1. ServeInv => FileCurrentBetweenBatches
  BY DEF ServeInv, CurrentUnlessDirty, FileCurrentBetweenBatches, Current, Up, InBatch
<1> QED
  BY <1>1, ServeInvariant, PTL

(* No crash, power loss or restart, from a file of any version and at      *)
(* whatever step of a save, makes a mailbox hold a message twice, file it  *)
(* under another address or forget that it holds it.                       *)
THEOREM ServeHeldOnce == ServeSpec => []HeldOnce
<1>1. ServeInv => HeldOnce
  BY DEF ServeInv, IInv
<1> QED
  BY <1>1, ServeInvariant, PTL

(* Nor does it make a queue outgrow the capacity.                          *)
THEOREM ServeBounded == ServeSpec => []Bounded
<1>1. ServeInv => Bounded
  BY DEF ServeInv, IInv
<1> QED
  BY <1>1, ServeInvariant, PTL

-----------------------------------------------------------------------------
(* What the answer to a delivery means.                                    *)

(* Handling a request keeps what the answer says: the message stored is    *)
(* never the one that is evicted, for the capacity is positive.            *)
LEMMA HandleKeeps ==
  ASSUME ServeInv, ServeInv', NEW node, NEW req \in Request, HandleMessage(node, req)
  PROVE  DeliveredIsKept'
<1> SUFFICES ASSUME reply'.type = "Delivered"
             PROVE  LET m == request'.message
                        a == To[m]
                    IN  /\ m \in seen'[a]
                        /\ ~reply'.duplicate =>
                             queues'[a] # <<>> /\ queues'[a][Len(queues'[a])] = m
  BY DEF DeliveredIsKept
<1> DEFINE m == req.message
           a == To[m]
           q == queues[a]
           p == Append(q, m)
<1>1. /\ request' = req /\ reply' = Reply(node, req) /\ Effect(node, req)
  BY DEF HandleMessage, Handle
<1>2. req.type = "Deliver" /\ Admitted(node, req)
  BY <1>1 DEF Reply, Error, StoreReply, Request
<1>3. /\ reply' = StoreReply(AcceptResult(m, req.verifies), "Delivered")
      /\ Accept(m, req.verifies)
  BY <1>1, <1>2 DEF Reply, Effect
<1>4. /\ AcceptResult(m, req.verifies) # "Error"
      /\ reply'.duplicate = (AcceptResult(m, req.verifies) = "Duplicate")
  BY <1>3 DEF StoreReply, Error
<1>5. m \in MessageId /\ a \in Address
  BY <1>2, RequestFields, StoreAssumption
<1>6. CASE AcceptResult(m, req.verifies) = "Stored"
  <2>1. queues' = [queues EXCEPT ![a] = Retained(p)]
    BY <1>3, <1>6 DEF Accept
  <2>2. q \in Seq(MessageId) /\ capacity \in Nat \ {0} /\ queues'[a] = Retained(p)
    BY <1>5, <2>1 DEF ServeInv, IInv, TypeOK
  <2>3. /\ p \in Seq(MessageId) /\ Len(p) = Len(q) + 1
        /\ \A i \in 1..Len(q) : p[i] = q[i]
        /\ p[Len(q) + 1] = m
    BY <1>5, <2>2, AppendProperties
  <2> HIDE DEF p, q
  <2>4. /\ Retained(p) \in Seq(MessageId)
        /\ Overflow(p) \in 0..Len(q)
        /\ Len(Retained(p)) = Len(q) + 1 - Overflow(p)
        /\ Retained(p)[Len(q) + 1 - Overflow(p)] = m
    BY <1>5, <2>2, <2>3, AppendRetention
  <2>5. Len(queues'[a]) \in DOMAIN queues'[a] /\ queues'[a][Len(queues'[a])] = m
    BY <2>2, <2>4, LenProperties
  <2>6. m \in seen'[a]
    BY <1>5, <2>5 DEF ServeInv, IInv, HeldOnce
  <2>7. queues'[a] # <<>>
    BY <2>2, <2>4, LenProperties
  <2> QED
    BY <1>1, <2>5, <2>6, <2>7
<1>7. CASE AcceptResult(m, req.verifies) = "Duplicate"
  <2>1. m \in seen[a] /\ seen' = seen
    BY <1>3, <1>7 DEF AcceptResult, Accept, storeVars
  <2> QED
    BY <1>1, <1>4, <1>7, <2>1
<1> QED
  BY <1>4, <1>6, <1>7 DEF AcceptResult

LEMMA KeptStep ==
  ServeInv /\ ServeInv' /\ DeliveredIsKept /\ [ServeNext]_serveVars => DeliveredIsKept'
<1> SUFFICES ASSUME ServeInv, ServeInv', DeliveredIsKept, [ServeNext]_serveVars
             PROVE  DeliveredIsKept'
  OBVIOUS
<1>1. CASE \E exchange \in Sent : HandleMessage(exchange[1], exchange[2])
  BY <1>1, HandleKeeps, ServiceAssumption
<1>2. CASE Refresh \/ RevokeOnChain \/ Clock \/ SettleFile \/ UNCHANGED serveVars
  <2>1. UNCHANGED <<pc, request, reply, queues, seen>>
    BY <1>2 DEF Refresh, RevokeOnChain, Clock, Tick, SettleFile, serveVars, serviceVars,
                storeVars, loopVars
  <2> QED
    BY <2>1 DEF DeliveredIsKept
<1>3. CASE \/ Start \/ PollOk \/ PollFails \/ BackedOff \/ SkipMessage \/ SendReply
           \/ NothingToSave \/ BeginPersist \/ CannotPersist \/ Persist \/ Persisted
           \/ PersistFails \/ Wake \/ Crash \/ PowerFails
  <2>1. pc' # "replying"
    BY <1>3 DEF Start, PollOk, PollFails, BackedOff, SkipMessage, SendReply, NothingToSave,
                BeginPersist, CannotPersist, Persist, Persisted, PersistFails, Wake, Crash,
                PowerFails, Halt
  <2> QED
    BY <2>1 DEF DeliveredIsKept
<1> QED
  BY <1>1, <1>2, <1>3 DEF ServeNext, Loop

(* A sender that is told its message was stored finds it at the end of the *)
(* recipient's queue, whatever the capacity and whatever was there; one    *)
(* that is told it was a duplicate, in the index of what was stored.       *)
THEOREM ServeDeliveredIsKept == ServeSpec => []DeliveredIsKept
<1>1. ServeInit => DeliveredIsKept
  BY DEF ServeInit, DeliveredIsKept
<1> QED
  BY <1>1, KeptStep, ServeInvariant, PTL DEF ServeSpec

-----------------------------------------------------------------------------

(* The wait is never below the poll interval, if the cap is not.           *)
BackoffInv == backoff \in Nat /\ (PollMs <= MaxBackoff => backoff >= PollMs)

LEMMA BackoffStep == BackoffInv /\ [ServeNext]_serveVars => BackoffInv'
<1> SUFFICES ASSUME BackoffInv, [ServeNext]_serveVars PROVE BackoffInv'
  OBVIOUS
<1>1. CASE backoff' = backoff
  BY <1>1 DEF BackoffInv
<1>2. CASE backoff' = PollMs
  BY <1>2, ServeAssumption DEF BackoffInv
<1>3. CASE backoff' = NextBackoff
  BY <1>3, ServeAssumption DEF BackoffInv, NextBackoff
<1>4. backoff' \in {backoff, PollMs, NextBackoff}
  <2>1. CASE \E exchange \in Sent : HandleMessage(exchange[1], exchange[2])
    BY <2>1 DEF HandleMessage
  <2>2. CASE ~\E exchange \in Sent : HandleMessage(exchange[1], exchange[2])
    BY <2>2 DEF ServeNext, Loop, Start, PollOk, PollFails, BackedOff, SkipMessage, SendReply,
                NothingToSave, BeginPersist, CannotPersist, Persist, Persisted, PersistFails,
                Wake, Crash, PowerFails, Halt, SettleFile, Refresh, RevokeOnChain, Clock,
                serveVars, loopVars
  <2> QED
    BY <2>1, <2>2
<1> QED
  BY <1>1, <1>2, <1>3, <1>4

(* However often polls fail in a row, the loop never waits less after a    *)
(* failure than after a success.                                           *)
THEOREM ServeFailuresSlowPolling == ServeSpec => []FailuresSlowPolling
<1>1. ServeInit => BackoffInv
  BY ServeAssumption DEF ServeInit, BackoffInv
<1>2. BackoffInv => FailuresSlowPolling
  BY DEF BackoffInv, FailuresSlowPolling
<1> QED
  BY <1>1, <1>2, BackoffStep, PTL DEF ServeSpec

-----------------------------------------------------------------------------
(* The types of the loop's state.                                          *)

(* What a read from any position up to the end of the queue hands out.     *)
LEMMA SliceType ==
  ASSUME IInv, NEW a \in Address, NEW since \in Nat, NEW end \in 0..Len(queues[a])
  PROVE  SubSeq(queues[a], since + 1, end) \in Seq(MessageId)
<1>1. queues[a] \in Seq(MessageId) /\ Len(queues[a]) \in Nat
  BY LenProperties DEF IInv, TypeOK
<1>2. \A i \in (since + 1)..end : queues[a][i] \in MessageId
  BY <1>1, ElementOfSeq
<1> QED
  BY <1>1, <1>2, SubSeqProperties

(* Every request is answered with a reply of the protocol.                 *)
LEMMA ReplyType ==
  ASSUME IInv, NEW node, NEW req \in Request
  PROVE  Reply(node, req) \in MailReply
<1>1. CASE ~Admitted(node, req)
  BY <1>1 DEF Reply, MailReply
<1>2. ASSUME NEW result, NEW type \in {"Delivered", "ReceiptAccepted"}
      PROVE  StoreReply(result, type) \in MailReply
  BY DEF StoreReply, MailReply
<1>3. CASE Admitted(node, req) /\ req.type \in {"Deliver", "PutReceipt"}
  BY <1>2, <1>3 DEF Reply
<1>4. CASE Admitted(node, req) /\ req.type \in {"Drain", "DrainPage", "Ack"}
  <2> DEFINE a == req.recipient
             q == queues[a]
  <2>1. a \in Address /\ Len(q) \in Nat
    BY <1>4, LenProperties DEF Request, IInv, TypeOK
  <2>2. CASE req.type = "Drain"
    <3>1. req.since \in Nat /\ Len(q) \in 0..Len(q)
      BY <2>1, <2>2 DEF Request
    <3>2. SubSeq(q, req.since + 1, Len(q)) \in Seq(MessageId)
      BY <2>1, <3>1, SliceType
    <3>3. Reply(node, req)
            = [type |-> "Drained",
               page |-> [envelopes |-> SubSeq(q, req.since + 1, Len(q)), cursor |-> Len(q)]]
      BY <1>4, <2>2 DEF Reply, ReadFrom
    <3> HIDE DEF q
    <3> QED
      BY <2>1, <3>2, <3>3 DEF MailReply
  <2>3. CASE req.type = "DrainPage"
    <3> DEFINE limit == ClampPage(req.limit)
               end == PageEnd(a, req.since, limit)
               envelopes == SubSeq(q, req.since + 1, end)
    <3>1. req.since \in Nat /\ req.limit \in Nat
      BY <2>3 DEF Request
    <3>2. limit \in Nat
      BY <3>1, ServiceAssumption DEF ClampPage, Clamp, Limits
    <3>3. end \in 0..Len(q)
      <4>1. AtLeastOne(limit) \in Nat
        BY <3>2 DEF AtLeastOne
      <4> HIDE DEF limit
      <4>2. (req.since + AtLeastOne(limit)) % UsizeModulus \in Nat
        BY <3>1, <4>1, StoreAssumption
      <4> QED
        BY <2>1, <4>2 DEF PageEnd
    <3>4. envelopes \in Seq(MessageId)
      BY <2>1, <3>1, <3>3, SliceType
    <3>5. Reply(node, req)
            = [type |-> "Page",
               page |-> [envelopes |-> envelopes, cursor |-> end, more |-> end < Len(q)]]
      BY <1>4, <2>3 DEF Reply, PageOf, ReadPage
    <3> HIDE DEF q, end, envelopes
    <3>6. end \in Nat /\ (end < Len(q)) \in BOOLEAN
      BY <2>1, <3>3
    <3> QED
      BY <3>4, <3>5, <3>6 DEF MailReply
  <2>4. CASE req.type = "Ack"
    <3>1. Removed(a, req.cursor) \in Nat
      BY <2>1, <2>4, RequestFields, StoreAssumption DEF Removed
    <3>2. Reply(node, req) = [type |-> "Acked", removed |-> Removed(a, req.cursor)]
      BY <1>4, <2>4 DEF Reply
    <3> QED
      BY <3>1, <3>2 DEF MailReply
  <2> QED
    BY <1>4, <2>2, <2>3, <2>4
<1>5. CASE Admitted(node, req) /\ req.type = "CollectReceipts"
  <2>1. receipts[req.sender] \in Seq(Receipt)
    BY <1>5, RequestFields DEF IInv, TypeOK
  <2>2. Reply(node, req) = [type |-> "Receipts", receipts |-> receipts[req.sender]]
    BY <1>5 DEF Reply
  <2> QED
    BY <2>1, <2>2 DEF MailReply
<1> QED
  BY <1>1, <1>3, <1>4, <1>5 DEF Request

LEMMA ErrorIsAReply == Error \in MailReply
  BY DEF MailReply

LEMMA ServeTypeStep ==
  IInv /\ TypeOK' /\ ServeTypeOK /\ [ServeNext]_serveVars => ServeTypeOK'
<1> SUFFICES ASSUME IInv, TypeOK', ServeTypeOK, [ServeNext]_serveVars PROVE ServeTypeOK'
  OBVIOUS
<1> USE ServiceAssumption, ServeAssumption DEF ServeTypeOK, ServiceTypeOK
<1>0. 0 \in 0..MaxBatch /\ PollMs \in Nat /\ Self \in Node /\ {} \subseteq Revocable
  OBVIOUS
<1>1. CASE Start
  BY <1>1 DEF Start, saveVars
<1>2. CASE PollOk \/ PollFails \/ BackedOff \/ SkipMessage \/ SendReply \/ NothingToSave
             \/ CannotPersist \/ Wake
  <2> USE DEF serviceVars, loopVars, saveVars
  <2>1. CASE PollOk \/ PollFails \/ NothingToSave \/ CannotPersist \/ Wake
    BY <1>2, <2>1 DEF PollOk, PollFails, NothingToSave, CannotPersist, Wake
  <2>2. CASE BackedOff
    BY <2>2 DEF BackedOff, NextBackoff
  <2>3. CASE SkipMessage
    BY <2>3 DEF SkipMessage
  <2>4. CASE SendReply
    BY <2>4, ErrorIsAReply DEF SendReply
  <2> QED
    BY <1>2, <2>1, <2>2, <2>3, <2>4
<1>3. CASE \E exchange \in Sent : HandleMessage(exchange[1], exchange[2])
  <2>1. PICK exchange \in Sent : HandleMessage(exchange[1], exchange[2])
    BY <1>3
  <2>2. exchange[1] \in Node /\ exchange[2] \in Request
    OBVIOUS
  <2>3. reply' \in MailReply /\ request' \in Request
    BY <2>1, <2>2, ReplyType DEF HandleMessage
  <2>4. /\ requester' \in Node /\ UNCHANGED <<now, revoked, backoff, unsaved, chain_revoked>>
        /\ left' \in 0..MaxBatch /\ pc' = "replying"
        /\ dirty' \in BOOLEAN
    BY <2>1, <2>2 DEF HandleMessage, Handle, saveVars
  <2> QED
    BY <2>3, <2>4
<1>4. CASE BeginPersist \/ Persist \/ Persisted \/ PersistFails
  BY <1>4 DEF BeginPersist, Persist, Persisted, PersistFails, serviceVars, loopVars
<1>5. CASE Crash \/ PowerFails
  <2>1. /\ pc' = "down" /\ revoked' = {} /\ requester' = Self /\ left' = 0 /\ dirty' = FALSE
        /\ request' = NoRequest /\ reply' = Error /\ backoff' = PollMs /\ unsaved' = FALSE
        /\ UNCHANGED <<now, chain_revoked>>
    BY <1>5 DEF Crash, PowerFails, Halt
  <2>2. reply' \in MailReply /\ request' \in Request \cup {NoRequest}
    BY <2>1, ErrorIsAReply
  <2>3. now' \in 0..MaxTime /\ revoked' \subseteq Revocable /\ requester' \in Node
    BY <1>0, <2>1
  <2> QED
    BY <1>0, <2>1, <2>2, <2>3
<1>6. CASE SettleFile \/ Refresh \/ RevokeOnChain \/ Clock \/ UNCHANGED serveVars
  BY <1>6 DEF SettleFile, Refresh, RevokeOnChain, Clock, Tick, serveVars, serviceVars, loopVars,
              saveVars
<1> QED
  BY <1>1, <1>2, <1>3, <1>4, <1>5, <1>6 DEF ServeNext, Loop

(* The loop's state keeps its types, and every request it answers, whoever *)
(* sent it and whatever it asks for, is answered with a reply of the       *)
(* protocol that a client can decode.                                      *)
THEOREM ServeTypesOK == ServeSpec => []ServeTypeOK
<1>1. ServeInit => ServeTypeOK
  <2> SUFFICES ASSUME ServeInit PROVE ServeTypeOK
    OBVIOUS
  <2>1. TypeOK
    BY ServeStart DEF ServeInv, IInv
  <2>2. /\ pc = "down" /\ now = 0 /\ revoked = {} /\ requester = Self /\ left = 0
        /\ dirty = FALSE /\ request = NoRequest /\ reply = Error /\ backoff = PollMs
        /\ unsaved = FALSE /\ chain_revoked = {}
    BY DEF ServeInit
  <2>3. 0 \in 0..MaxBatch /\ 0 \in 0..MaxTime /\ PollMs \in Nat /\ Self \in Node
    BY ServiceAssumption, ServeAssumption
  <2>4. reply \in MailReply
    BY <2>2, ErrorIsAReply
  <2> QED
    BY <2>1, <2>2, <2>3, <2>4 DEF ServeTypeOK, ServiceTypeOK
<1>2. ServeInv => IInv /\ TypeOK
  BY DEF ServeInv, IInv
<1> QED
  BY <1>1, <1>2, ServeTypeStep, ServeInvariant, PTL DEF ServeSpec

-----------------------------------------------------------------------------
(* The loop with --store implements DurableMail: each of its steps, seen   *)
(* through the items in memory, in the file and in the versions of the     *)
(* file that may survive, is a step of DurableMail or changes nothing.     *)

ItemsIn(file) == Items(StoredIn(file).queues, StoredIn(file).receipts)

InMemory == Items(queues, receipts)
InFile == Items(OnDisk.queues, OnDisk.receipts)
Surviving == {ItemsIn(file) : file \in survivors}

LEMMA MemoryKept == UNCHANGED <<queues, receipts>> => InMemory' = InMemory
  BY DEF InMemory, Items, Range

LEMMA NothingInEmpty == Items(Empty, Empty) = {}
  BY DEF Items, Empty, Range

LEMMA InFileIs == InFile = ItemsIn(disk) /\ InFile' = ItemsIn(disk')
  BY DEF InFile, ItemsIn, OnDisk, StoredIn

LEMMA SurvivingIs == Surviving' = {ItemsIn(file) : file \in survivors'}
  BY DEF Surviving, ItemsIn, StoredIn

-----------------------------------------------------------------------------
(* One request adds at most one item to memory.                            *)

LEMMA RetainedRange ==
  ASSUME NEW S, NEW q \in Seq(S), NEW e \in S, capacity \in Nat \ {0}
  PROVE  Range(Retained(Append(q, e))) \subseteq Range(q) \cup {e}
<1> DEFINE p == Append(q, e)
           k == Overflow(p)
<1>1. /\ p \in Seq(S) /\ Len(p) = Len(q) + 1 /\ p[Len(q) + 1] = e
      /\ \A i \in 1..Len(q) : p[i] = q[i]
  BY AppendProperties
<1> HIDE DEF p
<1>2. /\ k \in 0..Len(q)
      /\ DOMAIN Retained(p) = 1..(Len(q) + 1 - k)
      /\ \A i \in 1..(Len(q) - k) : Retained(p)[i] = q[i + k]
      /\ Retained(p)[Len(q) + 1 - k] = e
  BY <1>1, AppendRetention
<1>3. Len(q) \in Nat /\ DOMAIN q = 1..Len(q)
  BY LenProperties
<1> HIDE DEF k
<1>4. ASSUME NEW i \in 1..(Len(q) + 1 - k)
      PROVE  Retained(p)[i] = e \/ \E j \in 1..Len(q) : Retained(p)[i] = q[j]
  <2>1. CASE i = Len(q) + 1 - k
    BY <1>2, <2>1
  <2>2. CASE i # Len(q) + 1 - k
    <3>1. i \in 1..(Len(q) - k) /\ i + k \in 1..Len(q)
      BY <1>2, <1>3, <2>2
    <3> QED
      BY <1>2, <3>1
  <2> QED
    BY <2>1, <2>2
<1>5. Range(Retained(p)) \subseteq Range(q) \cup {e}
  <2>1. Range(Retained(p)) = {Retained(p)[i] : i \in 1..(Len(q) + 1 - k)}
    BY <1>2 DEF Range
  <2>2. Range(q) = {q[j] : j \in 1..Len(q)}
    BY <1>3 DEF Range
  <2> QED
    BY <1>4, <2>1, <2>2
<1> QED
  BY <1>5 DEF p

LEMMA DroppedRange ==
  ASSUME NEW S, NEW q \in Seq(S), NEW n \in 0..Len(q)
  PROVE  Range(SubSeq(q, n + 1, Len(q))) \subseteq Range(q)
<1>1. /\ DOMAIN SubSeq(q, n + 1, Len(q)) = 1..(Len(q) - n)
      /\ \A i \in 1..(Len(q) - n) :
           i + n \in 1..Len(q) /\ SubSeq(q, n + 1, Len(q))[i] = q[i + n]
  BY DropProperties
<1>2. DOMAIN q = 1..Len(q)
  BY LenProperties
<1> QED
  BY <1>1, <1>2 DEF Range

Item == ({"mail"} \X MessageId) \cup ({"receipt"} \X ReceiptKey)

LEMMA MemoryHoldsItems == IInv => InMemory \subseteq Item
<1> SUFFICES ASSUME IInv PROVE InMemory \subseteq Item
  OBVIOUS
<1>1. \A a \in Address : Range(queues[a]) \subseteq MessageId /\ Range(receipts[a]) \subseteq Receipt
  BY RangeOfSeq DEF IInv, TypeOK
<1>2. \A r \in Receipt : DedupKey(r) \in ReceiptKey
  BY StoreAssumption DEF DedupKey, ReceiptKey
<1> QED
  BY <1>1, <1>2 DEF InMemory, Items, Item

LEMMA EffectAddsOne ==
  ASSUME IInv, NEW node, NEW req \in Request, Effect(node, req)
  PROVE  InMemory' \subseteq InMemory \/ \E i \in Item : InMemory' \subseteq InMemory \cup {i}
<1>1. capacity \in Nat \ {0}
  BY DEF IInv, TypeOK
<1>2. CASE UNCHANGED <<queues, receipts>>
  BY <1>2, MemoryKept
<1>3. CASE req.type = "Deliver" /\ Accept(req.message, req.verifies)
  <2> DEFINE m == req.message
             a == To[m]
  <2>1. CASE queues' = [queues EXCEPT ![a] = Retained(Append(queues[a], m))]
             /\ receipts' = receipts
    <3>1. m \in MessageId /\ a \in Address /\ queues[a] \in Seq(MessageId)
      BY <1>3, RequestFields, StoreAssumption DEF IInv, TypeOK
    <3>2. Range(Retained(Append(queues[a], m))) \subseteq Range(queues[a]) \cup {m}
      BY <1>1, <3>1, RetainedRange
    <3>3. \A b \in Address : Range(queues'[b]) \subseteq Range(queues[b]) \cup {m}
      BY <2>1, <3>2 DEF IInv, TypeOK
    <3>4. InMemory' \subseteq InMemory \cup {<<"mail", m>>}
      BY <2>1, <3>3 DEF InMemory, Items
    <3>5. <<"mail", m>> \in Item
      BY <3>1 DEF Item
    <3> QED
      BY <3>4, <3>5
  <2> QED
    BY <1>2, <1>3, <2>1 DEF Accept, storeVars
<1>4. CASE req.type = "Ack" /\ Ack(req.recipient, req.cursor)
  <2> DEFINE a == req.recipient
             n == Removed(a, req.cursor)
  <2>1. a \in Address /\ req.cursor \in Nat /\ queues[a] \in Seq(MessageId)
    BY <1>4, RequestFields, StoreAssumption DEF IInv, TypeOK
  <2>2. n \in 0..Len(queues[a])
    BY <2>1, LenProperties DEF Removed
  <2>3. Range(SubSeq(queues[a], n + 1, Len(queues[a]))) \subseteq Range(queues[a])
    BY <2>1, <2>2, DroppedRange
  <2>4. \A b \in Address : Range(queues'[b]) \subseteq Range(queues[b])
    BY <1>4, <2>3 DEF Ack, IInv, TypeOK
  <2>5. InMemory' \subseteq InMemory
    BY <1>4, <2>4 DEF Ack, InMemory, Items
  <2> QED
    BY <2>5
<1>5. CASE req.type = "PutReceipt" /\ PutReceipt(req.for_sender, req.receipt, req.verifies)
  <2> DEFINE r == req.receipt
             a == req.for_sender
  <2>1. CASE receipts' = [receipts EXCEPT ![a] = Retained(Append(receipts[a], r))]
             /\ queues' = queues
    <3>1. r \in Receipt /\ a \in Address /\ receipts[a] \in Seq(Receipt)
      BY <1>5, RequestFields DEF IInv, TypeOK
    <3>2. Range(Retained(Append(receipts[a], r))) \subseteq Range(receipts[a]) \cup {r}
      BY <1>1, <3>1, RetainedRange
    <3>3. \A b \in Address : Range(receipts'[b]) \subseteq Range(receipts[b]) \cup {r}
      BY <2>1, <3>2 DEF IInv, TypeOK
    <3>4. InMemory' \subseteq InMemory \cup {<<"receipt", DedupKey(r)>>}
      BY <2>1, <3>3 DEF InMemory, Items
    <3>5. <<"receipt", DedupKey(r)>> \in Item
      BY <3>1, StoreAssumption DEF Item, DedupKey, ReceiptKey
    <3> QED
      BY <3>4, <3>5
  <2> QED
    BY <1>2, <1>5, <2>1 DEF PutReceipt, storeVars
<1>6. CASE req.type = "CollectReceipts" /\ CollectReceipts(req.sender)
  <2>1. queues' = queues /\ \A b \in Address : Range(receipts'[b]) \subseteq Range(receipts[b])
    BY <1>6 DEF CollectReceipts, IInv, TypeOK, Range
  <2>2. InMemory' \subseteq InMemory
    BY <2>1 DEF InMemory, Items
  <2> QED
    BY <2>2
<1> QED
  BY <1>2, <1>3, <1>4, <1>5, <1>6 DEF Effect, storeVars

-----------------------------------------------------------------------------
(* Every step of the loop is a step of DurableMail, or none.               *)

LEMMA DurableStart == ServeInit => Durable!Init
<1> SUFFICES ASSUME ServeInit PROVE Durable!Init
  OBVIOUS
<1>1. InMemory = {}
  BY NothingInEmpty DEF InMemory, ServeInit, New
<1>2. disk \in {NoFile} \cup Legacy /\ survivors = {disk} /\ ~Up
  BY DEF ServeInit, FileInit, Up
<1>3. /\ StoredIn(disk).queues \in [Address -> Seq(MessageId)]
      /\ StoredIn(disk).receipts = Empty
  <2>1. CASE disk = NoFile
    <3>1. StoredIn(disk) = NewStore(1)
      BY <2>1, FilesDiffer DEF StoredIn
    <3> QED
      BY <3>1 DEF NewStore, Empty
  <2>2. CASE disk # NoFile
    BY <1>2, <2>2, FilesDiffer, ServeAssumption DEF StoredIn, NewStore, SavedStore
  <2> QED
    BY <2>1, <2>2
<1>4. InFile \subseteq {"mail"} \X MessageId
  <2>1. \A a \in Address : Range(StoredIn(disk).queues[a]) \subseteq MessageId
    BY <1>3, RangeOfSeq
  <2> QED
    BY <1>3, <2>1 DEF InFile, Items, OnDisk, Empty, Range
<1>5. Surviving = {InFile}
  BY <1>2, InFileIs DEF Surviving
<1> QED
  BY <1>1, <1>2, <1>4, <1>5 DEF Durable!Init, InMemory, InFile, Surviving, ItemsIn

(* The file and its versions stay as they are. *)
FileKept == InFile' = InFile /\ Surviving' = Surviving

LEMMA FileKeptBy == UNCHANGED <<disk, survivors>> => FileKept
  BY InFileIs, SurvivingIs DEF FileKept, Surviving

LEMMA Recovers == StorePath /\ ServeInv /\ Start => Durable!Recover
<1> SUFFICES ASSUME StorePath, ServeInv, Start PROVE Durable!Recover
  OBVIOUS
<1>1. UNCHANGED <<disk, survivors>> /\ ~Up /\ Up'
  BY DEF Start, saveVars, fileVars, Up
<1>2. InMemory' = InFile'
  BY StartLoads DEF Current, InMemory, InFile
<1>3. FileKept
  BY <1>1, FileKeptBy
<1> QED
  BY <1>1, <1>2, <1>3 DEF FileKept, Durable!Recover, InMemory, InFile, Surviving, ItemsIn

(* What a step that changes neither memory, file nor process looks like.   *)
Stutter == UNCHANGED <<Up, InMemory, InFile, Surviving>>

LEMMA Stutters ==
  ASSUME UNCHANGED <<queues, receipts, disk, survivors>>, Up' = Up
  PROVE  Stutter
  BY MemoryKept, FileKeptBy DEF FileKept, Stutter

LEMMA Serves ==
  ASSUME ServeInv, NEW node, NEW req \in Request, HandleMessage(node, req)
  PROVE  Durable!Serve \/ Stutter
<1>1. Effect(node, req) /\ Up /\ Up' /\ UNCHANGED <<disk, survivors>>
  BY DEF HandleMessage, Handle, Up, saveVars, fileVars
<1>2. FileKept
  BY <1>1, FileKeptBy
<1>3. CASE InMemory' = InMemory
  BY <1>1, <1>2, <1>3 DEF FileKept, Stutter
<1>4. CASE InMemory' # InMemory
  <2>1. \E i \in Item : InMemory' \subseteq InMemory \cup {i}
    BY <1>1, <1>4, EffectAddsOne, MemoryHoldsItems DEF ServeInv
  <2> QED
    BY <1>1, <1>2, <2>1 DEF FileKept, Durable!Serve, InMemory, InFile, Surviving, ItemsIn, Item
<1> QED
  BY <1>3, <1>4

(* Renaming the temporary file is the step that saves. *)
LEMMA Saves == ServeInv /\ Persist /\ RenameTemp(Pid) => Durable!Save
<1> SUFFICES ASSUME ServeInv, Persist, RenameTemp(Pid) PROVE Durable!Save
  OBVIOUS
<1>1. /\ Up /\ Up' /\ UNCHANGED <<queues, receipts>>
      /\ disk' = ToBytes /\ survivors' = survivors \cup {ToBytes}
  BY DEF Persist, RenameTemp, Kept, ServeInv, SavingInv, Up, serviceVars, storeVars
<1>2. ItemsIn(ToBytes) = InMemory
  <2>1. StoredIn(ToBytes) = ToBytes
    BY FilesDiffer DEF StoredIn
  <2> QED
    BY <2>1 DEF ItemsIn, InMemory, ToBytes
<1>3. InFile' = InMemory
  BY <1>1, <1>2, InFileIs
<1>4. Surviving' = Surviving \cup {InMemory}
  BY <1>1, <1>2, SurvivingIs DEF Surviving
<1>5. InMemory' = InMemory
  BY <1>1, MemoryKept
<1> QED
  BY <1>1, <1>3, <1>4, <1>5 DEF Durable!Save, InMemory, InFile, Surviving, ItemsIn

LEMMA Settles ==
  ASSUME UNCHANGED <<queues, receipts, disk>>, survivors' = {disk}, Up' = Up
  PROVE  Durable!Settle
<1>1. InMemory' = InMemory /\ InFile' = InFile
  BY MemoryKept, InFileIs
<1>2. Surviving' = {InFile}
  BY SurvivingIs, InFileIs
<1> QED
  BY <1>1, <1>2 DEF Durable!Settle, InMemory, InFile, Surviving, ItemsIn

LEMMA Crashes == Crash => Durable!Crash
<1> SUFFICES ASSUME Crash PROVE Durable!Crash
  OBVIOUS
<1>1. ~Up' /\ queues' = Empty /\ receipts' = Empty /\ UNCHANGED <<disk, survivors>>
  BY DEF Crash, Halt, Up, Die, FromBytes, NewStore
<1>2. InMemory' = {}
  BY <1>1, NothingInEmpty DEF InMemory
<1>3. FileKept
  BY <1>1, FileKeptBy
<1> QED
  BY <1>1, <1>2, <1>3 DEF FileKept, Durable!Crash, InMemory, InFile, Surviving, ItemsIn

LEMMA LosesPower == PowerFails => Durable!LosePower
<1> SUFFICES ASSUME PowerFails PROVE Durable!LosePower
  OBVIOUS
<1>1. /\ ~Up' /\ queues' = Empty /\ receipts' = Empty
      /\ disk' \in survivors /\ survivors' = {disk'}
  BY DEF PowerFails, Halt, Up, LosePower, FromBytes, NewStore
<1>2. InMemory' = {}
  BY <1>1, NothingInEmpty DEF InMemory
<1>3. InFile' \in Surviving /\ Surviving' = {InFile'}
  BY <1>1, InFileIs, SurvivingIs DEF Surviving
<1> QED
  BY <1>1, <1>2, <1>3 DEF Durable!LosePower, InMemory, InFile, Surviving, ItemsIn

LEMMA DurableStep ==
  ASSUME StorePath, ServeInv, [ServeNext]_serveVars
  PROVE  Durable!Next \/ Stutter
<1>1. CASE Start
  BY <1>1, Recovers DEF Durable!Next
<1>2. CASE \E exchange \in Sent : HandleMessage(exchange[1], exchange[2])
  BY <1>2, Serves, ServiceAssumption DEF Durable!Next
<1>3. CASE Persist
  <2>1. CASE RenameTemp(Pid)
    BY <1>3, <2>1, Saves DEF Durable!Next
  <2>2. CASE WriteTemp(Pid, ToBytes) \/ SyncTemp(Pid)
    BY <1>3, <2>2, Stutters DEF Persist, WriteTemp, SyncTemp, serviceVars, storeVars, Up
  <2> QED
    BY <1>3, <2>1, <2>2 DEF Persist
<1>4. CASE Persisted
  <2>1. UNCHANGED <<queues, receipts, disk>> /\ Up' = Up
    BY <1>4 DEF Persisted, SyncDir, serviceVars, storeVars, Up
  <2>2. CASE survivors' = {disk}
    BY <2>1, <2>2, Settles DEF Durable!Next
  <2>3. CASE survivors' = survivors
    BY <2>1, <2>3, Stutters
  <2> QED
    BY <1>4, <2>2, <2>3 DEF Persisted, SyncDir
<1>5. CASE SettleFile
  BY <1>5, Settles DEF SettleFile, WriteBack, serviceVars, storeVars, Up, Durable!Next
<1>6. CASE Crash
  BY <1>6, Crashes DEF Durable!Next
<1>7. CASE PowerFails
  BY <1>7, LosesPower DEF Durable!Next
<1>8. CASE PollOk \/ PollFails \/ BackedOff \/ SkipMessage \/ SendReply \/ NothingToSave
           \/ CannotPersist \/ Wake
  BY <1>8, Stutters DEF PollOk, PollFails, BackedOff, SkipMessage, SendReply, NothingToSave,
     CannotPersist, Wake, BatchDone, serviceVars, storeVars, saveVars, fileVars, Up
<1>9. CASE BeginPersist \/ PersistFails
  BY <1>9, Stutters DEF BeginPersist, PersistFails, CreateTemp, Abandon, BatchDone,
     serviceVars, storeVars, Up
<1>10. CASE Refresh \/ RevokeOnChain \/ Clock \/ UNCHANGED serveVars
  BY <1>10, Stutters DEF Refresh, RevokeOnChain, Clock, Tick, serveVars, serviceVars,
     storeVars, saveVars, fileVars, Up
<1> QED
  BY <1>1, <1>2, <1>3, <1>4, <1>5, <1>6, <1>7, <1>8, <1>9, <1>10 DEF ServeNext, Loop

(* The serving loop started with --store keeps what DurableMail promises:  *)
(* a file that is only ever replaced by all of memory, a process that      *)
(* starts from it, a crash that costs memory only, a power loss that       *)
(* brings back no version older than the last one that was settled.        *)
THEOREM ServeImplementsDurableMail == StorePath => (ServeSpec => DurableSpec)
<1> SUFFICES ASSUME StorePath PROVE ServeSpec => DurableSpec
  OBVIOUS
<1>1. ServeInv /\ [ServeNext]_serveVars =>
        [Durable!Next]_<<Up, InMemory, InFile, Surviving>>
  BY DurableStep DEF Stutter
<1>2. ServeInv /\ [ServeNext]_serveVars =>
        [Durable!Next]_<<Up, Items(queues, receipts), Items(OnDisk.queues, OnDisk.receipts),
                         {Items(StoredIn(file).queues, StoredIn(file).receipts) :
                            file \in survivors}>>
  BY <1>1 DEF InMemory, InFile, Surviving, ItemsIn
<1> QED
  BY <1>2, DurableStart, ServeInvariant, PTL DEF ServeSpec, DurableSpec, Durable!Spec
=============================================================================
