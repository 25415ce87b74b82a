--------------------------- MODULE MC_CryptResync ---------------------------
(* Clock steps of up to 7 seconds, more than the 5-second thresholds, two  *)
(* of them so that a step back can follow a request and a step forward.   *)
EXTENDS CryptResync

MCMaxStep == 7
MCMaxSteps == 2
====
