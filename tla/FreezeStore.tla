----------------------------- MODULE FreezeStore -----------------------------
(***************************************************************************)
(* What the spec promises of a virtual server's snapshots (section 3,      *)
(* Freezing, and invariant 7, freeze atomicity): main.fz holds a whole     *)
(* snapshot, and a freeze replaces it in one step by a snapshot of the     *)
(* current server state, the prior snapshot being kept as backup.fz.       *)
(* A snapshot is named by the version of the state it was taken of; 0     *)
(* stands for no file.                                                     *)
(***************************************************************************)
EXTENDS Naturals

VARIABLES
    ver,    \* the version of the server state
    saved,  \* the version main.fz holds, 0 when there is no main.fz
    prev    \* the version backup.fz holds, 0 when there is no backup.fz

Init == ver = 1 /\ saved = 0 /\ prev = 0

\* The server state changes.
Change == ver' = ver + 1 /\ UNCHANGED <<saved, prev>>

\* A freeze succeeds: main.fz becomes the current state, backup.fz the old
\* main.fz.
Save == saved' = ver /\ prev' = saved /\ UNCHANGED ver

Next == Change \/ Save

Spec == Init /\ [][Next]_<<ver, saved, prev>>
====
