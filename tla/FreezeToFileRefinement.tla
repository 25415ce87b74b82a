----------------------- MODULE FreezeToFileRefinement -----------------------
(***************************************************************************)
(* freezeToFile implements the spec's snapshot store (FreezeStore) under   *)
(* the mapping saved = the version main.fz holds, prev = the version       *)
(* backup.fz holds, for every number of calls and of state changes.        *)
(***************************************************************************)
EXTENDS FreezeToFileProofs

(***************************************************************************)
(* backup.fz is only ever an old main.fz: an older inode than main.fz, a  *)
(* whole snapshot, and synced, so neither a write to the temp file nor a  *)
(* crash changes what it holds.                                            *)
(***************************************************************************)
BackupSynced ==
    backup # NoFile =>
        /\ backup < main
        /\ content[backup].kind = "snap" /\ durable[backup]

RInv == IInv /\ BackupSynced

\* The abstract state the mapping gives.
SVars == <<ver, Version(main), Version(backup)>>

-----------------------------------------------------------------------------
\* A step that moves no name and keeps ver, and keeps what main.fz and
\* backup.fz hold, is a stutter of the store.
LEMMA StoreStutter ==
    ASSUME UNCHANGED <<ver, main, backup>>,
           main # NoFile => content'[main] = content[main],
           backup # NoFile => content'[backup] = content[backup]
    PROVE  UNCHANGED SVars
  BY DEF SVars, Version

\* The steps that leave the disk alone.
LEMMA DiskFrameStep ==
    ASSUME RInv, Call \/ CloseLog \/ FreezeState \/ OpenLog
    PROVE  BackupSynced' /\ UNCHANGED SVars
  <1>1. UNCHANGED <<ver, content, durable, main, backup>>
    BY DEF Call, CloseLog, FreezeState, OpenLog, Disk
  <1>2. QED
    BY <1>1, StoreStutter DEF RInv, BackupSynced

\* f.Sync() only marks the temp file synced.
LEMMA SyncTempStep ==
    ASSUME RInv, SyncTemp
    PROVE  BackupSynced' /\ UNCHANGED SVars
  <1>1. UNCHANGED <<ver, content, main, backup>>
    BY DEF SyncTemp
  <1>2. backup # NoFile => durable'[backup]
    BY DEF SyncTemp, RInv, BackupSynced, IInv, TypeOK, Inodes, NoFile
  <1>3. QED
    BY <1>1, <1>2, StoreStutter DEF RInv, BackupSynced

\* CreateTemp and WriteTemp touch inode calls only, which is newer than
\* main.fz and so than backup.fz.
LEMMA TempWriteStep ==
    ASSUME RInv, CreateTemp \/ WriteTemp
    PROVE  BackupSynced' /\ UNCHANGED SVars
  <1>1. /\ main < calls /\ calls \in Inodes
        /\ (WriteTemp => tmp = calls)
        /\ main \in Inodes \cup {NoFile} /\ backup \in Inodes \cup {NoFile}
        /\ content \in [Inodes -> Contents]
    BY DEF RInv, IInv, TempFile, TypeOK, CreateTemp, WriteTemp, Inodes, NoFile
  <1>2. /\ UNCHANGED <<ver, durable, main, backup>>
        /\ \A i \in Inodes : i # calls => content'[i] = content[i]
    BY <1>1 DEF CreateTemp, WriteTemp
  <1>3. main # NoFile => content'[main] = content[main]
    BY <1>1, <1>2 DEF Inodes, NoFile
  <1>4. backup # NoFile => content'[backup] = content[backup]
    BY <1>1, <1>2 DEF RInv, BackupSynced, Inodes, NoFile
  <1>5. QED
    BY <1>2, <1>3, <1>4, StoreStutter DEF RInv, BackupSynced

\* A crash keeps the synced contents, and both names are synced.
LEMMA CrashStep ==
    ASSUME RInv, Crash
    PROVE  BackupSynced' /\ UNCHANGED SVars
  <1>1. UNCHANGED <<ver, durable, main, backup>>
    BY DEF Crash
  <1>2. main # NoFile => content'[main] = content[main]
    BY DEF Crash, RInv, IInv, TypeOK, MainSynced, NoFile, Inodes
  <1>3. backup # NoFile => content'[backup] = content[backup]
    BY DEF Crash, RInv, IInv, TypeOK, BackupSynced, MainSynced, NoFile, Inodes
  <1>4. QED
    BY <1>1, <1>2, <1>3, StoreStutter DEF RInv, BackupSynced

\* A change of the server state is a Change of the store.
LEMMA MutateStep ==
    ASSUME RInv, Mutate
    PROVE  BackupSynced' /\ Store!Next
  BY DEF Mutate, Disk, RInv, BackupSynced, Store!Next, Store!Change, Version

\* Rename on first launch and ReplaceFile after are each one freeze of the
\* store: main.fz becomes the synced temp file, which holds the current
\* state, and backup.fz the old main.fz (none on first launch).
LEMMA InstallStep ==
    ASSUME RInv, Install
    PROVE  BackupSynced' /\ [Store!Next]_SVars
  <1>1. /\ tmp = calls /\ tmp \in Inodes /\ content[tmp] = Snap(snap)
        /\ snap = ver /\ main < calls
        /\ main \in Inodes \cup {NoFile} /\ backup \in Inodes \cup {NoFile}
    BY DEF Install, RInv, IInv, TypeOK, TempFile, Versioned, InCall, Inodes,
       NoFile
  <1>2. UNCHANGED <<ver, snap, calls, content, durable>>
    BY DEF Install
  <1>3. CASE main = NoFile /\ main' = tmp /\ UNCHANGED backup
    <2>1. backup = NoFile
      BY <1>1, <1>3 DEF RInv, BackupSynced, Inodes, NoFile
    <2>2. Version(main)' = ver /\ Version(backup)' = Version(main)
      BY <1>1, <1>2, <1>3, <2>1 DEF Version, Snap, Inodes, NoFile
    <2>3. QED
      BY <1>2, <1>3, <2>1, <2>2 DEF BackupSynced, Store!Next, Store!Save,
         SVars
  <1>4. CASE main # NoFile /\ main' = tmp /\ backup' = main
    <2>1. content[main].kind = "snap" /\ durable[main]
      BY <1>4 DEF RInv, IInv, MainSynced
    <2>2. Version(main)' = ver /\ Version(backup)' = Version(main)
      BY <1>1, <1>2, <1>4 DEF Version, Snap, Inodes, NoFile
    <2>3. BackupSynced'
      BY <1>1, <1>2, <1>4, <2>1 DEF BackupSynced
    <2>4. QED
      BY <1>2, <2>2, <2>3 DEF Store!Next, Store!Save, SVars
  <1>5. CASE UNCHANGED <<main, backup>>
    BY <1>2, <1>5, StoreStutter DEF RInv, BackupSynced
  <1>6. QED
    BY <1>3, <1>4, <1>5 DEF Install

LEMMA RInvInit == Init => RInv
  BY IInvInit DEF Init, RInv, BackupSynced

\* Every step keeps RInv and is a step or a stutter of the store.
LEMMA RefineNext == RInv /\ [Next]_vars => RInv' /\ [Store!Next]_SVars
  <1> SUFFICES ASSUME RInv, [Next]_vars
               PROVE  RInv' /\ [Store!Next]_SVars
    OBVIOUS
  <1>1. IInv'
    BY IInvNext DEF RInv
  <1>2. BackupSynced' /\ [Store!Next]_SVars
    <2>1. CASE UNCHANGED vars
      BY <2>1, StoreStutter DEF vars, RInv, BackupSynced
    <2>2. QED
      BY <2>1, DiskFrameStep, SyncTempStep, TempWriteStep, CrashStep,
         MutateStep, InstallStep DEF Next
  <1>3. QED
    BY <1>1, <1>2 DEF RInv

(***************************************************************************)
(* Freeze atomicity with the backup (spec section 3 and invariant 7) for  *)
(* every bound: through every failure of freezeToFile's I/O calls and     *)
(* every crash, main.fz and backup.fz change only together, main.fz to a  *)
(* whole snapshot of the current server state and backup.fz to the       *)
(* snapshot main.fz held before.                                           *)
(***************************************************************************)
THEOREM FreezeImplementsStore == Spec => StoreRefined
  <1>1. Init => Store!Init
    BY DEF Init, Store!Init, Version
  <1>2. Spec => [][Store!Next]_SVars
    BY RInvInit, RefineNext, PTL DEF Spec
  <1>3. QED
    BY <1>1, <1>2, PTL DEF Spec, StoreRefined, Store!Spec, SVars
====
