--------------------------- MODULE LockFileProofs ---------------------------
(* Proofs about LockFile for every set of processes.                       *)
EXTENDS LockFile, TLAPS

\* The lock path names the file of a process that holds the lock, is
\* writing its pid into it, or stopped there (write error or crash).
NamedCreator ==
    path \in Procs =>
        pc[path] \in {"write", "held", "failed", "crashed"}
        /\ (written[path] => pc[path] \in {"held", "crashed"})

IInv == TypeOK /\ NamedCreator

\* The model value for "no file" is not a process (a pid).
NoFileFresh == NoFile \notin Procs

\* The initial state satisfies the invariant: no lock file exists.
LEMMA IInvInit ==
    ASSUME NoFileFresh PROVE Init => IInv
BY DEF NoFileFresh, Init, IInv, TypeOK, NamedCreator, Pcs

\* OpenLock creates the lock file only when none exists, naming a writer.
LEMMA OpenLockIInv ==
    ASSUME NoFileFresh, IInv, NEW p \in Procs, OpenLock(p)
    PROVE  IInv'
BY DEF NoFileFresh, IInv, TypeOK, NamedCreator, OpenLock, Pcs

\* WritePid moves the named writer to held, or leaves the file empty.
LEMMA WritePidIInv ==
    ASSUME IInv, NEW p \in Procs, WritePid(p)
    PROVE  IInv'
BY DEF IInv, TypeOK, NamedCreator, WritePid, Pcs

\* CheckLock moves a process the path cannot name, whatever kill finds.
LEMMA CheckLockIInv ==
    ASSUME IInv, NEW p \in Procs, CheckLock(p)
    PROVE  IInv'
BY DEF IInv, TypeOK, NamedCreator, CheckLock, Pcs

\* WriteTemp writes into a file the path does not name.
LEMMA WriteTempIInv ==
    ASSUME IInv, NEW p \in Procs, WriteTemp(p)
    PROVE  IInv'
BY DEF IInv, TypeOK, NamedCreator, WriteTemp, Pcs

\* RenameLock makes the path name the renamer, which then holds.
LEMMA RenameLockIInv ==
    ASSUME IInv, NEW p \in Procs, RenameLock(p)
    PROVE  IInv'
BY DEF IInv, TypeOK, NamedCreator, RenameLock, Pcs

\* Release removes the lock file.
LEMMA ReleaseIInv ==
    ASSUME NoFileFresh, IInv, NEW p \in Procs, Release(p)
    PROVE  IInv'
BY DEF NoFileFresh, IInv, TypeOK, NamedCreator, Release, Pcs

\* Crash leaves the named process in crashed.
LEMMA CrashIInv ==
    ASSUME IInv, NEW p \in Procs, Crash(p)
    PROVE  IInv'
BY DEF IInv, TypeOK, NamedCreator, Crash, Alive, Pcs

\* Every step preserves the invariant.
LEMMA IInvNext ==
    ASSUME NoFileFresh PROVE IInv /\ [Next]_vars => IInv'
<1> SUFFICES ASSUME IInv, [Next]_vars PROVE IInv'
  OBVIOUS
<1>1. CASE \E p \in Procs : OpenLock(p) \/ WritePid(p) \/ CheckLock(p)
                            \/ WriteTemp(p) \/ RenameLock(p) \/ Release(p)
                            \/ Crash(p)
  BY <1>1, OpenLockIInv, WritePidIInv, CheckLockIInv, WriteTempIInv,
     RenameLockIInv, ReleaseIInv, CrashIInv
<1>2. CASE UNCHANGED vars
  BY <1>2 DEF IInv, TypeOK, NamedCreator, vars
<1>3. QED
  BY <1>1, <1>2 DEF Next

\* Spec: when NoFile is no process, the lock-file invariant holds in every
\* reachable state: the lock path only ever names the file of a process that
\* holds the lock, is writing its pid into it, or stopped there, and a pid
\* in it is that of a holder or of a crashed holder.
THEOREM LockInvariant ==
    ASSUME NoFileFresh PROVE Spec => []IInv
<1>1. Init => IInv
  BY IInvInit
<1>2. IInv /\ [Next]_vars => IInv'
  BY IInvNext
<1>3. QED
  BY <1>1, <1>2, PTL DEF Spec
====
