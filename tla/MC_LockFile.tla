----------------------------- MODULE MC_LockFile -----------------------------
(* LockFile for TLC: three server processes, enough for one to crash      *)
(* holding the lock while two others race to replace it.                  *)
EXTENDS LockFile, TLC

CONSTANTS p1, p2, p3
MCProcs == {p1, p2, p3}
MCSymmetry == Permutations(MCProcs)
====
