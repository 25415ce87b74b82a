------------------------- MODULE FreezeToFileProofs -------------------------
(***************************************************************************)
(* Freeze atomicity and durability for every number of calls and of state *)
(* changes.                                                                *)
(***************************************************************************)
EXTENDS FreezeToFile, TLAPS

(***************************************************************************)
(* The inductive invariant.  MainComplete alone is not inductive: a crash *)
(* keeps main.fz whole only because its content was fsynced, and a write  *)
(* to the temp file leaves main.fz alone only because the temp file is a  *)
(* new inode, never the one main.fz names.  So it carries:                 *)
(*   - main.fz names a synced snapshot of an earlier or the current call;  *)
(*   - during a call after CreateTemp the temp file is inode calls, newer  *)
(*     than main.fz, and it holds this call's snapshot once written, and   *)
(*     a synced one once synced;                                           *)
(*   - the snapshot of a call is the current server state, which only     *)
(*     grows, so no later success saves an older state than an earlier.   *)
(***************************************************************************)
InCall == pc \in {"create", "write", "sync", "close"}

MainSynced ==
    /\ main <= calls
    /\ main # NoFile => content[main].kind = "snap" /\ durable[main]
                        /\ content[main].v <= ver

TempFile ==
    /\ pc # "idle" => main < calls
    /\ pc \in {"write", "sync", "close"} => tmp = calls
    /\ pc \in {"sync", "close"} => content[tmp] = Snap(snap)
    /\ pc = "close" => durable[tmp]

Versioned ==
    /\ lastOk <= ver
    /\ InCall => snap = ver
    /\ lastOk # 0 => main # NoFile /\ content[main].v >= lastOk

IInv == TypeOK /\ MainSynced /\ TempFile /\ Versioned

-----------------------------------------------------------------------------
USE FreezeAssumption

\* What a file may hold.
LEMMA BlankContent ==
    ASSUME NEW k \in {"none", "empty", "partial"} PROVE Blank(k) \in Contents
  BY DEF Contents

LEMMA SnapContent ==
    ASSUME NEW v \in Versions PROVE Snap(v) \in Contents
  BY DEF Contents

LEMMA ContentVersion ==
    ASSUME NEW c \in Contents PROVE c.v \in 0..MaxVersion
  BY DEF Contents, Blank, Snap, Versions

LEMMA IInvInit == Init => IInv
  <1> SUFFICES ASSUME Init PROVE IInv
    OBVIOUS
  <1>1. Blank("none") \in Contents
    BY BlankContent
  <1>2. content \in [Inodes -> Contents]
    BY <1>1 DEF Init
  <1>3. ver \in Versions /\ snap \in Versions
    BY DEF Init, Versions
  <1>4. TypeOK
    <2>1. pc \in Pcs /\ freezelog \in {"nil", "open", "closed"}
      BY DEF Init, Pcs
    <2>2. calls \in 0..MaxCalls /\ lastOk \in 0..MaxVersion
      BY DEF Init
    <2>3. tmp \in Inodes \cup {NoFile} /\ main \in Inodes \cup {NoFile}
          /\ backup \in Inodes \cup {NoFile}
      BY DEF Init
    <2>4. durable \in [Inodes -> BOOLEAN]
      BY DEF Init
    <2>5. result \in {"none", "ok", "err"} /\ faulted \in BOOLEAN
      BY DEF Init
    <2>6. QED
      BY <1>2, <1>3, <2>1, <2>2, <2>3, <2>4, <2>5 DEF TypeOK
  <1>5. QED
    BY <1>4 DEF Init, IInv, MainSynced, TempFile, Versioned, InCall, NoFile

LEMMA CallIInv == IInv /\ Call => IInv'
  <1> SUFFICES ASSUME IInv, Call PROVE IInv'
    OBVIOUS
  <1>1. TypeOK'
    <2>1. calls' \in 0..MaxCalls
      BY DEF Call, IInv, TypeOK
    <2>2. pc' \in Pcs /\ tmp' \in Inodes \cup {NoFile}
      BY DEF Call, Pcs
    <2>3. QED
      BY <2>1, <2>2 DEF Call, IInv, TypeOK
  <1>2. MainSynced' /\ TempFile'
    BY DEF Call, IInv, TypeOK, MainSynced, TempFile, NoFile, Inodes
  <1>3. Versioned'
    BY DEF Call, IInv, Versioned, InCall
  <1>4. QED
    BY <1>1, <1>2, <1>3 DEF IInv

LEMMA CloseLogIInv == IInv /\ CloseLog => IInv'
  <1> SUFFICES ASSUME IInv, CloseLog PROVE IInv'
    OBVIOUS
  <1>1. TypeOK'
    BY DEF CloseLog, Fail, Disk, IInv, TypeOK, Pcs
  <1>2. MainSynced' /\ TempFile'
    BY DEF CloseLog, Fail, Disk, IInv, MainSynced, TempFile
  <1>3. Versioned'
    BY DEF CloseLog, Fail, Disk, IInv, Versioned, InCall
  <1>4. QED
    BY <1>1, <1>2, <1>3 DEF IInv

LEMMA FreezeStateIInv == IInv /\ FreezeState => IInv'
  <1> SUFFICES ASSUME IInv, FreezeState PROVE IInv'
    OBVIOUS
  <1>1. TypeOK'
    BY DEF FreezeState, Fail, Disk, IInv, TypeOK, Pcs
  <1>2. MainSynced' /\ TempFile'
    BY DEF FreezeState, Fail, Disk, IInv, MainSynced, TempFile
  <1>3. Versioned'
    BY DEF FreezeState, Fail, Disk, IInv, Versioned, InCall
  <1>4. QED
    BY <1>1, <1>2, <1>3 DEF IInv

LEMMA CreateTempIInv == IInv /\ CreateTemp => IInv'
  <1> SUFFICES ASSUME IInv, CreateTemp PROVE IInv'
    OBVIOUS
  <1>1. calls \in Inodes /\ main # calls
    BY DEF CreateTemp, IInv, TypeOK, TempFile, Inodes, NoFile
  <1>2. TypeOK'
    BY <1>1, BlankContent DEF CreateTemp, Fail, IInv, TypeOK, Pcs
  <1>3. MainSynced' /\ TempFile'
    BY <1>1 DEF CreateTemp, Fail, IInv, TypeOK, MainSynced, TempFile, Inodes, NoFile
  <1>4. Versioned'
    BY <1>1 DEF CreateTemp, Fail, IInv, TypeOK, Versioned, InCall, Inodes, NoFile
  <1>5. QED
    BY <1>2, <1>3, <1>4 DEF IInv

LEMMA WriteTempIInv == IInv /\ WriteTemp => IInv'
  <1> SUFFICES ASSUME IInv, WriteTemp PROVE IInv'
    OBVIOUS
  <1>1. tmp = calls /\ tmp \in Inodes /\ main # tmp /\ snap \in Versions
    BY DEF WriteTemp, IInv, TypeOK, TempFile, Inodes, NoFile
  <1>2. TypeOK'
    BY <1>1, BlankContent, SnapContent DEF WriteTemp, Fail, IInv, TypeOK, Pcs
  <1>3. MainSynced' /\ TempFile'
    BY <1>1 DEF WriteTemp, Fail, IInv, TypeOK, MainSynced, TempFile, Inodes, NoFile
  <1>4. Versioned'
    BY <1>1 DEF WriteTemp, Fail, IInv, TypeOK, Versioned, InCall, Inodes, NoFile
  <1>5. QED
    BY <1>2, <1>3, <1>4 DEF IInv

LEMMA SyncTempIInv == IInv /\ SyncTemp => IInv'
  <1> SUFFICES ASSUME IInv, SyncTemp PROVE IInv'
    OBVIOUS
  <1>1. tmp = calls /\ tmp \in Inodes /\ main # tmp
    BY DEF SyncTemp, IInv, TypeOK, TempFile, Inodes, NoFile
  <1>2. TypeOK'
    BY <1>1 DEF SyncTemp, Fail, IInv, TypeOK, Pcs
  <1>3. MainSynced' /\ TempFile'
    BY <1>1 DEF SyncTemp, Fail, IInv, TypeOK, MainSynced, TempFile, Inodes,
       NoFile
  <1>4. Versioned'
    BY <1>1 DEF SyncTemp, Fail, IInv, Versioned, InCall
  <1>5. QED
    BY <1>2, <1>3, <1>4 DEF IInv

\* The install makes main.fz the synced temp file of this call, which holds
\* the current state; a failure leaves the files as they were.
LEMMA InstallIInv == IInv /\ Install => IInv'
  <1> SUFFICES ASSUME IInv, Install PROVE IInv'
    OBVIOUS
  <1>1. /\ tmp = calls /\ tmp \in Inodes /\ content[tmp] = Snap(snap)
        /\ durable[tmp] /\ snap = ver /\ lastOk <= snap /\ snap \in Versions
        /\ main < calls
    BY DEF Install, IInv, TypeOK, TempFile, Versioned, InCall, Inodes, NoFile
  <1>2. UNCHANGED <<freezelog, ver, snap, calls, content, durable>>
    BY DEF Install
  \* Rename (106) and ReplaceFile (109): main.fz becomes the temp file.
  <1>3. CASE /\ main' = tmp /\ backup' \in {backup, main}
             /\ pc' = "idle" /\ result' = "ok" /\ lastOk' = snap
             /\ tmp' = NoFile /\ UNCHANGED faulted
    <2>1. TypeOK'
      <3>1. lastOk' \in 0..MaxVersion
        BY <1>1, <1>3 DEF Versions
      <3>2. main' \in Inodes /\ backup' \in Inodes \cup {NoFile}
            /\ tmp' \in Inodes \cup {NoFile}
        BY <1>1, <1>3 DEF IInv, TypeOK, NoFile
      <3>3. pc' \in Pcs /\ result' \in {"none", "ok", "err"}
        BY <1>3 DEF Pcs
      <3>4. QED
        BY <1>2, <1>3, <3>1, <3>2, <3>3 DEF IInv, TypeOK
    <2>2. /\ content'[main'] = Snap(ver) /\ durable'[main']
          /\ main' = calls /\ calls' = calls /\ ver' = ver /\ main' # NoFile
          /\ ver \in Nat /\ snap = ver /\ lastOk' = ver /\ calls \in Nat
      BY <1>1, <1>2, <1>3 DEF IInv, TypeOK, Inodes, NoFile, Versions
    <2>3. MainSynced'
      BY <2>2 DEF MainSynced, Snap
    <2>4. TempFile'
      BY <1>3 DEF TempFile
    <2>5. Versioned'
      BY <2>2, <1>1, <1>3 DEF Versioned, InCall, Snap
    <2>6. QED
      BY <2>1, <2>3, <2>4, <2>5 DEF IInv
  <1>4. CASE Fail /\ UNCHANGED <<main, backup, lastOk, tmp>>
    <2>1. TypeOK'
      BY <1>2, <1>4 DEF Fail, IInv, TypeOK, Pcs
    <2>2. MainSynced' /\ TempFile'
      BY <1>2, <1>4 DEF Fail, IInv, MainSynced, TempFile
    <2>3. Versioned'
      BY <1>2, <1>4 DEF Fail, IInv, Versioned, InCall
    <2>4. QED
      BY <2>1, <2>2, <2>3 DEF IInv
  <1>5. QED
    BY <1>3, <1>4 DEF Install

LEMMA MutateIInv == IInv /\ Mutate => IInv'
  <1> SUFFICES ASSUME IInv, Mutate PROVE IInv'
    OBVIOUS
  <1>1. TypeOK'
    <2>1. ver' \in Versions
      BY DEF Mutate, IInv, TypeOK, Versions
    <2>2. QED
      BY <2>1 DEF Mutate, Disk, IInv, TypeOK
  <1>2. main # NoFile => content[main].v \in 0..MaxVersion
    BY ContentVersion DEF IInv, TypeOK, NoFile
  <1>3. MainSynced' /\ TempFile'
    BY <1>2 DEF Mutate, Disk, IInv, TypeOK, MainSynced, TempFile, Versions
  <1>4. Versioned'
    BY <1>2 DEF Mutate, Disk, IInv, TypeOK, Versioned, InCall, Versions
  <1>5. QED
    BY <1>1, <1>3, <1>4 DEF IInv

LEMMA OpenLogIInv == IInv /\ OpenLog => IInv'
  BY DEF OpenLog, Disk, IInv, TypeOK, MainSynced, TempFile, Versioned, InCall

\* A crash keeps main.fz whole because main.fz was synced; what it cuts
\* short is a temp file that is no longer in a call.
LEMMA CrashIInv == IInv /\ Crash => IInv'
  <1> SUFFICES ASSUME IInv, Crash PROVE IInv'
    OBVIOUS
  <1>1. Blank("partial") \in Contents
    BY BlankContent
  <1>2. TypeOK'
    BY <1>1 DEF Crash, IInv, TypeOK, Pcs, NoFile
  <1>3. main # NoFile => content'[main] = content[main]
    BY DEF Crash, IInv, TypeOK, MainSynced, NoFile, Inodes
  <1>4. MainSynced' /\ TempFile'
    BY <1>3 DEF Crash, IInv, TypeOK, MainSynced, TempFile
  <1>5. Versioned'
    BY <1>3 DEF Crash, IInv, TypeOK, Versioned, InCall
  <1>6. QED
    BY <1>2, <1>4, <1>5 DEF IInv

LEMMA IInvNext == IInv /\ [Next]_vars => IInv'
  <1> SUFFICES ASSUME IInv, [Next]_vars PROVE IInv'
    OBVIOUS
  <1>1. CASE UNCHANGED vars
    BY <1>1 DEF vars, IInv, TypeOK, MainSynced, TempFile, Versioned, InCall
  <1>2. QED
    BY <1>1, CallIInv, CloseLogIInv, FreezeStateIInv, CreateTempIInv,
       WriteTempIInv, SyncTempIInv, InstallIInv, MutateIInv, OpenLogIInv,
       CrashIInv DEF Next

(***************************************************************************)
(* Freeze atomicity (spec, invariant 7) for every number of calls and of  *)
(* state changes: whatever I/O call of freezeToFile fails and wherever    *)
(* the process crashes, main.fz holds a whole snapshot, and once          *)
(* freezeToFile has returned nil main.fz holds that snapshot or a later   *)
(* one.  It rests on the f.Sync() at line 89 coming before the rename or  *)
(* ReplaceFile at 106/109.                                                 *)
(***************************************************************************)
THEOREM FreezeAtomic == Spec => [](MainComplete /\ SnapshotDurable)
  <1>1. Init => IInv
    BY IInvInit
  <1>2. IInv /\ [Next]_vars => IInv'
    BY IInvNext
  <1>3. IInv => MainComplete /\ SnapshotDurable
    BY DEF IInv, MainSynced, Versioned, MainComplete, SnapshotDurable
  <1>4. QED
    BY <1>1, <1>2, <1>3, PTL DEF Spec

(***************************************************************************)
(* Durability of a reported success for every bound: once freezeToFile    *)
(* has returned nil, main.fz holds that snapshot or a later one, through  *)
(* later failed calls and crashes.                                         *)
(***************************************************************************)
THEOREM SnapshotDurableHolds == Spec => []SnapshotDurable
  BY FreezeAtomic, PTL
====
