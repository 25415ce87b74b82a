------------------------ MODULE ClientConnRefinement ------------------------
(***************************************************************************)
(* ClientConn implements the spec's client lifecycle (ConnLifecycle) under *)
(* the mapping lstate = "Disconnected" once disconnect() has set the flag  *)
(* (line 189), and lstate = client.state before.  Every step of the five   *)
(* goroutines is either a stutter of the lifecycle, one handshake step, or *)
(* the disconnect.                                                          *)
(***************************************************************************)
EXTENDS ClientConnProofs

\* The refinement mapping, the expression the INSTANCE in ClientConn uses.
LState == IF disconnected THEN "Disconnected" ELSE state

(***************************************************************************)
(* The handoff to finishAuthenticate happens with the client Authenticated *)
(* and nothing moves the state until the handler has taken it: the        *)
(* receiver is blocked on clientReady (482) and handleAuthenticate is     *)
(* done.  This is what makes finishAuthenticate's `state = Ready' (line    *)
(* 455 of the model) a single step of the lifecycle.                       *)
(***************************************************************************)
AuthQueuedState == authQueued => state = "Authenticated"

RInv == IInv /\ AuthQueuedState

\* The steps that leave both the state and the flag alone are stutters.
LEMMA StutterStep ==
    ASSUME UNCHANGED <<state, disconnected>>
    PROVE  UNCHANGED LState
  BY DEF LState

\* A disconnect body sets the flag: a client not yet disconnected moves to
\* Disconnected, one already disconnected stutters.
LEMMA DisconnectStep ==
    ASSUME TypeOK, disconnected' = TRUE
    PROVE  Lifecycle!Next \/ UNCHANGED LState
  <1>1. CASE disconnected
    BY <1>1 DEF LState
  <1>2. CASE ~disconnected
    <2>1. state # "Disconnected"
      BY DEF TypeOK, States
    <2>2. QED
      BY <1>2, <2>1 DEF LState, Lifecycle!Next, Lifecycle!Disconnect
  <1>3. QED
    BY <1>1, <1>2

LEMMA RInvInit == Init => RInv
  BY IInvInit DEF RInv, AuthQueuedState, Init

\* The actions that move the state while the client stays connected.
LEMMA RecvSendVersionStep ==
    IInv /\ RecvSendVersion => Lifecycle!Next \/ UNCHANGED LState
  BY DEF RecvSendVersion, LState, Lifecycle!Next, Lifecycle!Advance,
         Lifecycle!Order

LEMMA RecvReadVersionStep ==
    IInv /\ RecvReadVersion => Lifecycle!Next \/ UNCHANGED LState
  <1> SUFFICES ASSUME IInv, RecvReadVersion
               PROVE  Lifecycle!Next \/ UNCHANGED LState
    OBVIOUS
  <1>1. CASE disconnected
    BY <1>1 DEF RecvReadVersion, LState
  <1>2. CASE ~disconnected /\ state' = state
    BY <1>2 DEF RecvReadVersion, LState
  <1>3. CASE ~disconnected /\ state' # state
    <2>1. state = "ServerSentVersion" /\ state' = "ClientSentVersion"
      BY <1>3 DEF RecvReadVersion, CallDisconnect
    <2>2. QED
      BY <1>3, <2>1 DEF RecvReadVersion, LState, Lifecycle!Next,
         Lifecycle!Advance, Lifecycle!Order
  <1>4. QED
    BY <1>1, <1>2, <1>3

LEMMA HandleAuthenticateStep ==
    IInv /\ HandleAuthenticate => Lifecycle!Next \/ UNCHANGED LState
  <1> SUFFICES ASSUME IInv, HandleAuthenticate
               PROVE  Lifecycle!Next \/ UNCHANGED LState
    OBVIOUS
  <1>1. state = "ClientSentVersion"
    BY DEF HandleAuthenticate, IInv, HandOff
  <1>2. QED
    BY <1>1 DEF HandleAuthenticate, LState, Lifecycle!Next,
       Lifecycle!Advance, Lifecycle!Order

LEMMA FinishAuthenticateStep ==
    RInv /\ FinishAuthenticate => Lifecycle!Next \/ UNCHANGED LState
  <1> SUFFICES ASSUME RInv, FinishAuthenticate
               PROVE  Lifecycle!Next \/ UNCHANGED LState
    OBVIOUS
  <1>1. state = "Authenticated"
    BY DEF FinishAuthenticate, RInv, AuthQueuedState
  <1>2. QED
    BY <1>1 DEF FinishAuthenticate, LState, Lifecycle!Next,
       Lifecycle!Advance, Lifecycle!Order

-----------------------------------------------------------------------------
\* A step that leaves the state and the queue flag alone keeps the handoff.
LEMMA AuthQueuedFrame ==
    ASSUME AuthQueuedState, UNCHANGED <<state, authQueued>>
    PROVE  AuthQueuedState'
  BY DEF AuthQueuedState

LEMMA AuthQueuedNext == RInv /\ [Next]_vars => AuthQueuedState'
  <1> SUFFICES ASSUME RInv, [Next]_vars PROVE AuthQueuedState'
    OBVIOUS
  <1>1. IInv /\ AuthQueuedState
    BY DEF RInv
  <1>2. CASE RecvSendVersion \/ RecvReadVersion
    BY <1>1, <1>2 DEF RecvSendVersion, RecvReadVersion, IInv, HandOff,
       AuthQueuedState
  <1>3. CASE RecvDisconnect
    BY <1>1, <1>3 DEF RecvDisconnect, IInv, HandOff, AuthQueuedState
  <1>4. CASE HandleAuthenticate \/ FinishAuthenticate
    BY <1>1, <1>4 DEF HandleAuthenticate, FinishAuthenticate, AuthQueuedState
  <1>5. CASE \/ RecvReadAuthenticate \/ RecvAwaitReady \/ RecvCheckDisconnected
             \/ RecvReadReady \/ RecvTunnel
    BY <1>1, <1>5, AuthQueuedFrame DEF RecvReadAuthenticate, RecvAwaitReady,
       RecvCheckDisconnected, RecvReadReady, RecvTunnel
  <1>6. CASE UdpLoop \/ AuthDisconnect \/ SignalReady \/ ServerDisconnect
    BY <1>1, <1>6, AuthQueuedFrame DEF UdpLoop, UdpExit, UdpHandle,
       UdpDisconnect, AuthDisconnect, SignalReady, ServerDisconnect
  <1>7. CASE UdpListenerDeliver \/ Environment
    BY <1>1, <1>7, AuthQueuedFrame DEF UdpListenerDeliver, Environment,
       PeerSend, PeerClose, Kick, UdpListenerRecv
  <1>8. CASE UNCHANGED vars
    BY <1>1, <1>8, AuthQueuedFrame DEF vars
  <1>9. QED
    BY <1>2, <1>3, <1>4, <1>5, <1>6, <1>7, <1>8
       DEF Next, Recv, Auth, Server

LEMMA RInvNext == RInv /\ [Next]_vars => RInv'
  BY IInvNext, AuthQueuedNext DEF RInv

\* Every step of ClientConn is a lifecycle step or leaves the mapped state.
LEMMA RefineNext == RInv /\ [Next]_vars => [Lifecycle!Next]_LState
  <1> SUFFICES ASSUME RInv, [Next]_vars
               PROVE  Lifecycle!Next \/ UNCHANGED LState
    OBVIOUS
  <1>1. IInv /\ TypeOK
    BY DEF RInv, IInv
  <1>2. CASE RecvSendVersion
    BY <1>1, <1>2, RecvSendVersionStep
  <1>3. CASE RecvReadVersion
    BY <1>1, <1>3, RecvReadVersionStep
  <1>4. CASE HandleAuthenticate
    BY <1>1, <1>4, HandleAuthenticateStep
  <1>5. CASE FinishAuthenticate
    BY <1>5, FinishAuthenticateStep
  <1>6. CASE RecvDisconnect \/ UdpDisconnect \/ AuthDisconnect \/ ServerDisconnect
    BY <1>1, <1>6, DisconnectStep DEF RecvDisconnect, UdpDisconnect,
       AuthDisconnect, ServerDisconnect, DisconnectBody
  <1>7. CASE \/ RecvReadAuthenticate \/ RecvAwaitReady \/ RecvCheckDisconnected
             \/ RecvReadReady \/ RecvTunnel
    BY <1>7, StutterStep DEF RecvReadAuthenticate, RecvAwaitReady,
       RecvCheckDisconnected, RecvReadReady, RecvTunnel
  <1>8. CASE UdpExit \/ UdpHandle \/ SignalReady
    BY <1>8, StutterStep DEF UdpExit, UdpHandle, SignalReady
  <1>9. CASE UdpListenerDeliver \/ Environment
    BY <1>9, StutterStep DEF UdpListenerDeliver, Environment, PeerSend,
       PeerClose, Kick, UdpListenerRecv
  <1>10. CASE UNCHANGED vars
    BY <1>10, StutterStep DEF vars
  <1>11. QED
    BY <1>2, <1>3, <1>4, <1>5, <1>6, <1>7, <1>8, <1>9, <1>10
       DEF Next, Recv, UdpLoop, Auth, Server

(***************************************************************************)
(* The handshake of tlsRecvLoop, handleAuthenticate and finishAuthenticate *)
(* keeps the handoff invariant for every bound on frames and datagrams.    *)
(***************************************************************************)
THEOREM RefinementInvariant == Spec => []RInv
  BY RInvInit, RInvNext, PTL DEF Spec

(***************************************************************************)
(* The client's lifecycle is the spec's for every bound: the goroutines of *)
(* a connection move client.state through Connected, ServerSentVersion,    *)
(* ClientSentVersion, Authenticated and Ready one state at a time, and     *)
(* disconnect() ends it, whatever the interleaving.                        *)
(***************************************************************************)
THEOREM LifecycleImplemented == Spec => LifecycleRefined
  <1>1. Init => Lifecycle!Init
    BY DEF Init, Lifecycle!Init
  <1>2. Spec => [][Lifecycle!Next]_LState
    BY RInvInit, RInvNext, RefineNext, PTL DEF Spec
  <1>3. QED
    BY <1>1, <1>2, PTL DEF Spec, LifecycleRefined, Lifecycle!Spec, LState
====
