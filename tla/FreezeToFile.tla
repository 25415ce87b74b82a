---------------------------- MODULE FreezeToFile ----------------------------
(***************************************************************************)
(* Server.freezeToFile (src/pkg/database/ban_test.go 62-110) on a disk     *)
(* that can lose what was not fsynced: close the freeze log, snapshot the *)
(* server with Freeze(), write the snapshot to a fresh temp file, fsync   *)
(* and close it, then install it as main.fz, with os.Rename on first       *)
(* launch and ReplaceFile (keeping the old main.fz as backup.fz) after.    *)
(* Every I/O call may fail and return the error; the process may crash    *)
(* anywhere, and a crash loses file contents that were not synced.         *)
(* freezeToFile runs on the server's handler goroutine, so the server      *)
(* state does not change during a call.                                    *)
(*                                                                         *)
(* Files are inodes 1..MaxCalls, inode k being the temp file of call k.    *)
(* The snapshot a file holds is the server state version it was taken of. *)
(***************************************************************************)
EXTENDS Naturals

CONSTANTS
    MaxVersion, \* how many times the server state may change
    MaxCalls    \* how many times freezeToFile may be called

ASSUME FreezeAssumption ==
    /\ MaxVersion \in Nat \ {0}
    /\ MaxCalls \in Nat \ {0}

NoFile == 0
Inodes == 1..MaxCalls
Versions == 1..MaxVersion
\* "none": not created; "empty": created, nothing written; "partial": a
\* write cut short or lost in a crash; "snap": the whole snapshot of v.
Blank(kind) == [kind |-> kind, v |-> 0]
Snap(v) == [kind |-> "snap", v |-> v]
Contents == {Blank(k) : k \in {"none", "empty", "partial"}} \cup {Snap(v) : v \in Versions}

VARIABLES
    pc,       \* where the running call is, "idle" between calls
    freezelog,\* server.freezelog: "nil", an "open" file, or a "closed" one
    ver,      \* the version of the server state
    snap,     \* the version Freeze() captured in this call
    calls,    \* calls made so far; the temp file of the current call is inode calls
    tmp,      \* the temp file of this call, or NoFile
    content,  \* content[i]: what inode i holds as the disk sees it
    durable,  \* durable[i]: the content of i has been fsynced
    main,     \* the inode main.fz names, or NoFile
    backup,   \* the inode backup.fz names, or NoFile
    result,   \* what the last call returned: "none" while running, "ok", "err"
    faulted,  \* an I/O call of the current call failed
    lastOk    \* the version the last successful call saved, 0 before any

vars == <<pc, freezelog, ver, snap, calls, tmp, content, durable, main,
          backup, result, faulted, lastOk>>

Pcs == {"idle", "closeLog", "freeze", "create", "write", "sync", "close"}

TypeOK ==
    /\ pc \in Pcs
    /\ freezelog \in {"nil", "open", "closed"}
    /\ ver \in Versions /\ snap \in Versions
    /\ calls \in 0..MaxCalls
    /\ tmp \in Inodes \cup {NoFile}
    /\ content \in [Inodes -> Contents]
    /\ durable \in [Inodes -> BOOLEAN]
    /\ main \in Inodes \cup {NoFile} /\ backup \in Inodes \cup {NoFile}
    /\ result \in {"none", "ok", "err"}
    /\ faulted \in BOOLEAN
    /\ lastOk \in 0..MaxVersion

\* First launch: no main.fz, the freeze log open.
Init ==
    /\ pc = "idle"
    /\ freezelog = "open"
    /\ ver = 1 /\ snap = 1
    /\ calls = 0 /\ tmp = NoFile
    /\ content = [i \in Inodes |-> Blank("none")]
    /\ durable = [i \in Inodes |-> FALSE]
    /\ main = NoFile /\ backup = NoFile
    /\ result = "none" /\ faulted = FALSE /\ lastOk = 0

\* `if err != nil { return err }` after an I/O call that failed.
Fail ==
    /\ pc' = "idle" /\ result' = "err" /\ faulted' = TRUE

Disk == <<content, durable, main, backup>>

\* The server calls freezeToFile.
Call ==
    /\ pc = "idle" /\ calls < MaxCalls
    /\ pc' = "closeLog" /\ calls' = calls + 1
    /\ result' = "none" /\ faulted' = FALSE /\ tmp' = NoFile
    /\ UNCHANGED <<freezelog, ver, snap, content, durable, main, backup, lastOk>>

\* Lines 63-70.  os.File.Close marks the file closed even when the close
\* fails, and a second Close returns os.ErrClosed; freezelog is set to nil
\* only after a Close that succeeded.
CloseLog ==
    /\ pc = "closeLog"
    /\ \/ /\ freezelog = "nil"
          /\ pc' = "freeze"
          /\ UNCHANGED <<freezelog, result, faulted>>
       \/ /\ freezelog = "open"
          /\ freezelog' = "nil"
          /\ pc' = "freeze"
          /\ UNCHANGED <<result, faulted>>
       \/ /\ freezelog = "open"
          /\ freezelog' = "closed"
          /\ Fail
       \/ /\ freezelog = "closed"
          /\ pc' = "idle" /\ result' = "err"
          /\ UNCHANGED <<freezelog, faulted>>
    /\ UNCHANGED <<ver, snap, calls, tmp, Disk, lastOk>>

\* Mutant: the snapshot of the previous call reused, Freeze() not called.
FreezeStateStale ==
    /\ pc = "freeze"
    /\ \/ pc' = "create" /\ UNCHANGED <<snap, result, faulted>>
       \/ Fail /\ UNCHANGED snap
    /\ UNCHANGED <<freezelog, ver, calls, tmp, Disk, lastOk>>

\* Line 73: server.Freeze() snapshots the state.
FreezeState ==
    /\ pc = "freeze"
    /\ \/ snap' = ver /\ pc' = "create" /\ UNCHANGED <<result, faulted>>
       \/ Fail /\ UNCHANGED snap
    /\ UNCHANGED <<freezelog, ver, calls, tmp, Disk, lastOk>>

\* Line 77: os.CreateTemp in the server directory.
CreateTemp ==
    /\ pc = "create"
    /\ \/ /\ tmp' = calls
          /\ content' = [content EXCEPT ![calls] = Blank("empty")]
          /\ pc' = "write"
          /\ UNCHANGED <<result, faulted>>
       \/ Fail /\ UNCHANGED <<tmp, content>>
    /\ UNCHANGED <<freezelog, ver, snap, calls, durable, main, backup, lastOk>>

\* Lines 81-88: proto.Marshal and f.Write; a failed write may leave part of
\* the snapshot, and the temp file stays behind.
WriteTemp ==
    /\ pc = "write"
    /\ \/ /\ content' = [content EXCEPT ![tmp] = Snap(snap)]
          /\ pc' = "sync"
          /\ UNCHANGED <<result, faulted>>
       \/ /\ content' = [content EXCEPT ![tmp] = Blank("partial")]
          /\ Fail
    /\ UNCHANGED <<freezelog, ver, snap, calls, tmp, durable, main, backup, lastOk>>

\* Mutant: the f.Sync() call left out.
SyncTempSkipped ==
    /\ pc = "sync"
    /\ pc' = "close"
    /\ UNCHANGED <<freezelog, ver, snap, calls, tmp, Disk, result, faulted, lastOk>>

\* Lines 89-92: f.Sync().
SyncTemp ==
    /\ pc = "sync"
    /\ \/ durable' = [durable EXCEPT ![tmp] = TRUE] /\ pc' = "close"
          /\ UNCHANGED <<result, faulted>>
       \/ Fail /\ UNCHANGED durable
    /\ UNCHANGED <<freezelog, ver, snap, calls, tmp, content, main, backup, lastOk>>

\* Mutant: ReplaceFile given backup.fz and main.fz the wrong way round.
InstallSwapped ==
    /\ pc = "close"
    /\ \/ /\ main = NoFile
          /\ main' = tmp
          /\ UNCHANGED backup
          /\ pc' = "idle" /\ result' = "ok" /\ lastOk' = snap /\ tmp' = NoFile
          /\ UNCHANGED faulted
       \/ /\ main # NoFile
          /\ backup' = tmp
          /\ UNCHANGED main
          /\ pc' = "idle" /\ result' = "ok" /\ lastOk' = snap /\ tmp' = NoFile
          /\ UNCHANGED faulted
       \/ /\ Fail
          /\ UNCHANGED <<main, backup, lastOk, tmp>>
    /\ UNCHANGED <<freezelog, ver, snap, calls, content, durable>>

\* Lines 93-109: f.Close(), then os.Stat(main.fz); when it does not exist,
\* os.Rename the temp file to it, otherwise ReplaceFile(main.fz, temp,
\* backup.fz), which atomically makes the temp file main.fz and the old
\* main.fz backup.fz.  A failed Close, Rename or ReplaceFile returns its
\* error and leaves the files as they were (a failed close and a failed
\* install end in the same state, so they are one disjunct).
Install ==
    /\ pc = "close"
    /\ \/ /\ main = NoFile
          /\ main' = tmp
          /\ UNCHANGED backup
          /\ pc' = "idle" /\ result' = "ok" /\ lastOk' = snap /\ tmp' = NoFile
          /\ UNCHANGED faulted
       \/ /\ main # NoFile
          /\ main' = tmp /\ backup' = main
          /\ pc' = "idle" /\ result' = "ok" /\ lastOk' = snap /\ tmp' = NoFile
          /\ UNCHANGED faulted
       \/ /\ Fail
          /\ UNCHANGED <<main, backup, lastOk, tmp>>
    /\ UNCHANGED <<freezelog, ver, snap, calls, content, durable>>

-----------------------------------------------------------------------------
(* The rest of the server, between calls.                                  *)

\* The server's state changes (a channel, a user, an ACL).
Mutate ==
    /\ pc = "idle" /\ ver < MaxVersion
    /\ ver' = ver + 1
    /\ UNCHANGED <<pc, freezelog, snap, calls, tmp, Disk, result, faulted, lastOk>>

\* The server opens a new freeze log for the changes after a snapshot; it
\* opens one only where freezelog is nil.
OpenLog ==
    /\ pc = "idle" /\ freezelog = "nil"
    /\ freezelog' = "open"
    /\ UNCHANGED <<pc, ver, snap, calls, tmp, Disk, result, faulted, lastOk>>

\* The process dies anywhere and is restarted: what was written and not
\* synced may be lost, so an unsynced snapshot reads back partial; the
\* restarted server opens a fresh freeze log.  Renames are kept.
Crash ==
    /\ content' = [i \in Inodes |->
                     IF content[i].kind = "snap" /\ ~durable[i]
                     THEN Blank("partial") ELSE content[i]]
    /\ pc' = "idle" /\ freezelog' = "open" /\ tmp' = NoFile
    /\ result' = "none" /\ faulted' = FALSE
    /\ UNCHANGED <<ver, snap, calls, durable, main, backup, lastOk>>

Next ==
    \/ Call \/ CloseLog \/ FreezeState \/ CreateTemp \/ WriteTemp
    \/ SyncTemp \/ Install
    \/ Mutate \/ OpenLog \/ Crash

Spec == Init /\ [][Next]_vars

-----------------------------------------------------------------------------
(* Properties.                                                             *)

\* Spec, freeze atomicity: main.fz always holds a whole snapshot, whatever
\* fails or crashes; the temp file is fsynced (89) before it is renamed
\* or replaced over main.fz (106, 109).
MainComplete == main # NoFile => content[main].kind = "snap"

\* Once freezeToFile has returned nil for a snapshot, main.fz holds that
\* snapshot or a later one, across later failed calls and crashes: the
\* success the caller sees is durable.
SnapshotDurable ==
    lastOk # 0 => main # NoFile /\ content[main].kind = "snap"
                  /\ content[main].v >= lastOk

\* A call of freezeToFile in which no I/O call fails returns nil: a failed
\* close of the freeze log (65-67) does not make later calls fail.
FailsOnlyOnFault == result = "err" => faulted

\* The version of the snapshot a file names holds, 0 for no file.
Version(f) == IF f = NoFile THEN 0 ELSE content[f].v

Store == INSTANCE FreezeStore WITH saved <- Version(main), prev <- Version(backup)

\* Spec, freeze atomicity and the backup (section 3): seen through what
\* main.fz and backup.fz hold, every step of freezeToFile, of its failures
\* and of crashes either leaves both alone or is one freeze that makes
\* main.fz the current state and backup.fz the old main.fz.
StoreRefined == Store!Spec
====
