---------------------------- MODULE ConnLifecycle ----------------------------
(***************************************************************************)
(* What the spec promises of a client's lifecycle (section 3, Client):     *)
(* Connected -> ServerSentVersion -> ClientSentVersion -> Authenticated -> *)
(* Ready, one state at a time, and Disconnected, reachable from every      *)
(* state and absorbing.                                                    *)
(***************************************************************************)
EXTENDS Naturals

VARIABLE lstate

Order == <<"Connected", "ServerSentVersion", "ClientSentVersion",
           "Authenticated", "Ready">>

LStates == {Order[i] : i \in 1..5} \cup {"Disconnected"}

Init == lstate = "Connected"

\* The handshake moves one state forward.
Advance ==
    \E i \in 1..4 : lstate = Order[i] /\ lstate' = Order[i + 1]

\* Any state but Disconnected may end in Disconnected.
Disconnect ==
    lstate # "Disconnected" /\ lstate' = "Disconnected"

Next == Advance \/ Disconnect

Spec == Init /\ [][Next]_lstate
====
