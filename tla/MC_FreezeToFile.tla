--------------------------- MODULE MC_FreezeToFile ---------------------------
(* Three calls, so that a snapshot replaces one that replaced another, and *)
(* two server states, so that a later snapshot differs from an earlier.    *)
EXTENDS FreezeToFile

MCMaxVersion == 2
MCMaxCalls == 3
====
