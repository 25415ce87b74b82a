---------------------------- MODULE CryptResync ----------------------------
(***************************************************************************)
(* Client.cryptResync (src/unnamed/part_000 577-591), called by the       *)
(* server's UDP reader for every datagram of the client that fails to     *)
(* decrypt.  It asks the client for a resync (a CryptSetup message) when  *)
(* no datagram has decrypted for more than 5 seconds and no resync was    *)
(* asked for in the last 5, both measured on the wall clock               *)
(* (time.Now().Unix()).                                                    *)
(*                                                                         *)
(* Time is kept as the two ages the code computes, goodElapsed =          *)
(* now - crypt.LastGoodTime and requestElapsed = now - lastResync.  The   *)
(* code only asks whether they exceed 5, so an age above 6 is stored as   *)
(* 6.  The wall clock may be stepped (NTP, an operator) a bounded number  *)
(* of times by a bounded amount, backwards or forwards, which moves both   *)
(* ages together and may make them negative.                              *)
(***************************************************************************)
EXTENDS Integers

CONSTANTS
    MaxStep,  \* the largest wall-clock step, in seconds
    MaxSteps  \* how many times the wall clock may be stepped

ASSUME CryptResyncAssumption ==
    /\ MaxStep \in Nat \ {0}
    /\ MaxSteps \in Nat

VARIABLES
    goodAge,      \* now - client.crypt.LastGoodTime, at most 6
    reqAge,       \* now - client.lastResync, at most 6
    steps,        \* wall-clock steps so far
    desync,       \* the client's and the server's crypt states disagree
    requested,    \* a CryptSetup was sent since the crypt states diverged
    disconnected  \* the send failed and Panicf disconnected the client

vars == <<goodAge, reqAge, steps, desync, requested, disconnected>>

Ages == -MaxStep .. 6
Sat(n) == IF n > 6 THEN 6 ELSE n

TypeOK ==
    /\ goodAge \in Ages /\ reqAge \in Ages
    /\ steps \in 0..MaxSteps
    /\ desync \in BOOLEAN /\ requested \in BOOLEAN /\ disconnected \in BOOLEAN

\* After the crypt setup of the handshake: a fresh LastGoodTime, and
\* lastResync still 0 (the zero value), so long ago.
Init ==
    /\ goodAge = 0 /\ reqAge = 6 /\ steps = 0
    /\ desync = FALSE /\ requested = FALSE /\ disconnected = FALSE

\* A second passes.
Tick ==
    /\ goodAge' = Sat(goodAge + 1) /\ reqAge' = Sat(reqAge + 1)
    /\ UNCHANGED <<steps, desync, requested, disconnected>>

\* The wall clock is stepped by d seconds (negative: backwards); both ages
\* move by d, and stay within -MaxStep.
ClockStep ==
    /\ steps < MaxSteps
    /\ \E d \in (-MaxStep .. MaxStep) \ {0} :
          /\ goodAge' = Sat(IF goodAge + d < -MaxStep THEN -MaxStep ELSE goodAge + d)
          /\ reqAge' = Sat(IF reqAge + d < -MaxStep THEN -MaxStep ELSE reqAge + d)
    /\ steps' = steps + 1
    /\ UNCHANGED <<desync, requested, disconnected>>

\* A datagram decrypts: the crypt state sets LastGoodTime to now.
GoodPacket ==
    /\ ~disconnected /\ ~desync
    /\ goodAge' = 0
    /\ UNCHANGED <<reqAge, steps, desync, requested, disconnected>>

\* The crypt states diverge (lost or reordered packets past the window).
Desync ==
    /\ ~disconnected /\ ~desync
    /\ desync' = TRUE /\ requested' = FALSE
    /\ UNCHANGED <<goodAge, reqAge, steps, disconnected>>

\* Mutant: lastResync stamped on every call once the crypt has been bad
\* for 5 seconds, not only when a resync is sent.
BadPacketEagerStamp ==
    /\ ~disconnected
    /\ IF goodAge > 5
       THEN /\ reqAge' = 0
            /\ IF reqAge > 5
               THEN \/ requested' = TRUE /\ UNCHANGED disconnected
                    \/ disconnected' = TRUE /\ UNCHANGED requested
               ELSE UNCHANGED <<requested, disconnected>>
       ELSE UNCHANGED <<reqAge, requested, disconnected>>
    /\ UNCHANGED <<goodAge, steps, desync>>

\* A datagram fails to decrypt and the reader calls cryptResync: when both
\* ages exceed 5, stamp lastResync and send CryptSetup; a failed send
\* Panicf's the client.
BadPacket ==
    /\ ~disconnected
    /\ IF goodAge > 5 /\ reqAge > 5
       THEN /\ reqAge' = 0
            /\ \/ requested' = TRUE /\ UNCHANGED disconnected
               \/ disconnected' = TRUE /\ UNCHANGED requested
       ELSE UNCHANGED <<reqAge, requested, disconnected>>
    /\ UNCHANGED <<goodAge, steps, desync>>

\* The client answers the CryptSetup and both sides reset their state.
Resynced ==
    /\ ~disconnected /\ desync /\ requested
    /\ desync' = FALSE /\ requested' = FALSE /\ goodAge' = 0
    /\ UNCHANGED <<reqAge, steps, disconnected>>

Next ==
    \/ Tick \/ ClockStep \/ GoodPacket \/ Desync \/ BadPacket \/ Resynced

(* Time passes; a client whose voice or pings fail to decrypt keeps       *)
(* sending them (the client pings over UDP every few seconds), so the     *)
(* reader keeps calling cryptResync; a client asked to resync answers.    *)
Fairness == WF_vars(Tick) /\ WF_vars(BadPacket) /\ WF_vars(Resynced)

Spec == Init /\ [][Next]_vars /\ Fairness

-----------------------------------------------------------------------------
\* A client whose crypt state has diverged is asked to resync, and gets back
\* in sync, unless the request failed and disconnected it: a wall-clock step
\* delays the request by at most its size but never suppresses it.
ResyncEventually == desync ~> (~desync \/ disconnected)
====
