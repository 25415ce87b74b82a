------------------------------ MODULE LockFile ------------------------------
(***************************************************************************)
(* The blobstore lock file of src/tlsserver.go: AcquireLockFile (404-456)  *)
(* and ReleaseLockFile (459-461), run by several server processes on the   *)
(* same data directory.  A process calls AcquireLockFile once at startup   *)
(* and exits when it fails (spec: a lock error is fatal); it holds the     *)
(* lock until it releases it at shutdown or crashes.                       *)
(*                                                                         *)
(* Files are inodes.  Each process creates at most one inode, the lock     *)
(* file it creates with O_EXCL or the temp file it renames over the lock,  *)
(* so inodes are named by their creators; the only content a process ever *)
(* writes is its own pid.  path is the inode the lock path names.          *)
(***************************************************************************)
EXTENDS Naturals

CONSTANTS
    Procs,  \* server processes (their pids)
    NoFile  \* the lock path names no file

VARIABLES
    pc,      \* pc[p]: where process p is in AcquireLockFile, or what it returned
    path,    \* the inode at the lock path, or NoFile
    written  \* written[i]: inode i holds its creator's pid

vars == <<pc, path, written>>

\* "idle": not yet called; "write": created the lock with O_EXCL (430-436);
\* "read": O_EXCL found the file (410); "tmp": the content is no live pid
\* (421); "rename": the temp file holds the pid and is closed (433);
\* "held": returned nil; "released": ReleaseLockFile ran and the process
\* exited; "locked": returned ErrLocked; "failed": returned another error.
Pcs == {"idle", "write", "read", "tmp", "rename", "held",
        "released", "locked", "failed", "crashed"}

\* The processes that have not exited.
Alive(p) == pc[p] \in {"idle", "write", "read", "tmp", "rename", "held"}

TypeOK ==
    /\ pc \in [Procs -> Pcs]
    /\ path \in Procs \cup {NoFile}
    /\ written \in [Procs -> BOOLEAN]

Init ==
    /\ pc = [p \in Procs |-> "idle"]
    /\ path = NoFile
    /\ written = [p \in Procs |-> FALSE]

\* os.OpenFile(lockfn, O_WRONLY|O_CREATE|O_EXCL): creates an empty lock
\* file, finds one there (EEXIST), or fails otherwise.
OpenLock(p) ==
    /\ pc[p] = "idle"
    /\ \/ /\ path = NoFile
          /\ path' = p
          /\ written' = [written EXCEPT ![p] = FALSE]
          /\ pc' = [pc EXCEPT ![p] = "write"]
       \/ /\ path # NoFile
          /\ pc' = [pc EXCEPT ![p] = "read"]
          /\ UNCHANGED <<path, written>>
       \/ /\ pc' = [pc EXCEPT ![p] = "failed"]
          /\ UNCHANGED <<path, written>>

\* lockfile.WriteString(pid) on the file opened with O_EXCL, then Close and
\* return nil; the write goes to the inode opened, whatever the path names
\* now.  A write error returns and leaves the lock file empty.
WritePid(p) ==
    /\ pc[p] = "write"
    /\ \/ /\ written' = [written EXCEPT ![p] = TRUE]
          /\ pc' = [pc EXCEPT ![p] = "held"]
       \/ /\ pc' = [pc EXCEPT ![p] = "failed"]
          /\ UNCHANGED written
    /\ UNCHANGED path

\* ioutil.ReadFile, strconv.Atoi and syscall.Kill(pid, 0): an error if the
\* file is gone; ErrLocked if kill finds the pid it names; otherwise (empty,
\* so Atoi fails, or no process has the pid) go on to replace it. kill finds
\* the pid of a creator that has not exited; once the creator has exited
\* the pid may have been reused by any process, a restarted server
\* included, so kill may find it or not.
CheckLock(p) ==
    /\ pc[p] = "read"
    /\ \/ /\ path = NoFile
          /\ pc' = [pc EXCEPT ![p] = "failed"]
       \/ /\ path # NoFile /\ written[path]
          /\ pc' = [pc EXCEPT ![p] = "locked"]
       \/ /\ path # NoFile /\ ~(written[path] /\ Alive(path))
          /\ pc' = [pc EXCEPT ![p] = "tmp"]
    /\ UNCHANGED <<path, written>>

\* ioutil.TempFile, WriteString(pid) and Close; any error returns.
WriteTemp(p) ==
    /\ pc[p] = "tmp"
    /\ \/ /\ written' = [written EXCEPT ![p] = TRUE]
          /\ pc' = [pc EXCEPT ![p] = "rename"]
       \/ /\ pc' = [pc EXCEPT ![p] = "failed"]
          /\ UNCHANGED written
    /\ UNCHANGED path

\* os.Rename(curfn, lockfn) replaces whatever the lock path names; on an
\* error the temp file is removed and ErrLockAcquirement returned.
RenameLock(p) ==
    /\ pc[p] = "rename"
    /\ \/ /\ path' = p
          /\ pc' = [pc EXCEPT ![p] = "held"]
       \/ /\ pc' = [pc EXCEPT ![p] = "failed"]
          /\ UNCHANGED path
    /\ UNCHANGED written

\* ReleaseLockFile: os.Remove(path), whichever file the path names.
Release(p) ==
    /\ pc[p] = "held"
    /\ path' = NoFile
    /\ pc' = [pc EXCEPT ![p] = "released"]
    /\ UNCHANGED written

\* The process dies wherever it is; its files stay.
Crash(p) ==
    /\ Alive(p)
    /\ pc' = [pc EXCEPT ![p] = "crashed"]
    /\ UNCHANGED <<path, written>>

Terminated == \A p \in Procs : ~Alive(p)

Next ==
    \/ \E p \in Procs :
          \/ OpenLock(p) \/ WritePid(p) \/ CheckLock(p) \/ WriteTemp(p)
          \/ RenameLock(p) \/ Release(p) \/ Crash(p)
    \/ Terminated /\ UNCHANGED vars

Spec == Init /\ [][Next]_vars

-----------------------------------------------------------------------------
(* Properties.                                                             *)

\* Spec: the pid file guards the data directory; at most one server process
\* has AcquireLockFile return nil and has not released the lock.
MutualExclusion ==
    \A p, q \in Procs : pc[p] = "held" /\ pc[q] = "held" => p = q

====
