-------------------------- MODULE ClientConnProofs --------------------------
(***************************************************************************)
(* Proofs about ClientConn for every value of the constants: the type     *)
(* invariant, and the invariants of the readiness hand-off between        *)
(* tlsRecvLoop, handleAuthenticate and finishAuthenticate.                 *)
(***************************************************************************)
EXTENDS ClientConn, SequenceTheorems, TLAPS

(***************************************************************************)
(* The inductive invariant. Besides the three properties it carries what  *)
(* they rest on:                                                          *)
(*   - a closed clientReady means the client is disconnected and udprecv  *)
(*     is closed too (disconnect closes both, udprecv first);             *)
(*   - a disconnect that did not panic has closed the connection;        *)
(*   - the authentication result is handed on (authQueued) only by a      *)
(*     finished handleAuthenticate;                                        *)
(*   - finishAuthenticate signals only a Ready client whose clientReady   *)
(*     is not closed, after handleAuthenticate is over;                   *)
(*   - before the client's Version has been read, and while the receiver  *)
(*     is about to read the Authenticate frame, even after a disconnect,  *)
(*     no authentication is in progress.                                  *)
(***************************************************************************)
HandOff ==
    /\ clientReady = "closed" => disconnected /\ udprecv = "closed"
    /\ disconnected /\ Alive => connClosed
    /\ authQueued => apc = "done"
    /\ spc = "signal" =>
          /\ state = "Ready" /\ apc = "done" /\ ~authQueued
          /\ clientReady # "closed"
    /\ rpc = "checkDisc" /\ ~disconnected =>
          apc = "done" /\ ~authQueued /\ spc # "signal"
    /\ rpc = "dcVersion" => state = "ServerSentVersion"
    /\ state \in {"Connected", "ServerSentVersion"} =>
          apc = "idle" /\ ~authQueued /\ spc # "signal"
    /\ state = "ClientSentVersion" /\ rpc = "top" =>
          apc = "idle" /\ ~authQueued
    /\ rpc = "sendTunnel" => state = "Ready"
    /\ apc = "run" => state = "ClientSentVersion"

IInv ==
    /\ TypeOK
    /\ SignalDelivered
    /\ AuthExclusive
    /\ ReadyChanSafe
    /\ HandOff

-----------------------------------------------------------------------------
USE ConstAssumption

\* The frame a successful read returns is a frame, and what is left is a
\* sequence of frames.
LEMMA ReadFacts ==
  ASSUME TypeOK, wire # <<>>
  PROVE  /\ ReadMsg \in Msgs
         /\ ReadMsg.kind \in MsgKinds
         /\ ReadMsg.kind = "UDPTunnel" => ReadMsg.dgram \in Datagrams
         /\ Tail(wire) \in Seq(Msgs)
  <1>1. ReadMsg \in Msgs /\ Tail(wire) \in Seq(Msgs)
    BY HeadTailProperties DEF TypeOK, ReadMsg
  <1>2. QED
    BY <1>1 DEF Msgs, MsgKinds

\* A connection with nothing in flight has a well-typed (empty) wire.
LEMMA EmptyWire == <<>> \in Seq(Msgs)
  BY EmptySeq

\* The freshly accepted client of Init is well typed.
LEMMA TypeInit == Init => TypeOK
  <1> SUFFICES ASSUME Init PROVE TypeOK
    OBVIOUS
  <1>1. wire \in Seq(Msgs)
    BY EmptyWire DEF Init
  <1>2. peerSent \in 0..MaxMsgs /\ dgramsIn \in 0..MaxDgrams
    BY DEF Init
  <1>3. QED
    BY <1>1, <1>2 DEF Init, TypeOK, States, ChanStates, Panics, RecvPcs,
                      UdpPcs, AuthPcs, SrvPcs, MsgKinds

\* The body of disconnect keeps the variables it writes in their types;
\* conn.Close keeps a prefix of the wire, a sequence of frames.
LEMMA DisconnectType ==
  ASSUME TypeOK, DisconnectBody
  PROVE  /\ disconnected' \in BOOLEAN /\ udprecv' \in {"open", "closed"}
         /\ clientReady' \in ChanStates /\ connClosed' \in BOOLEAN
         /\ panic' \in Panics /\ wire' \in Seq(Msgs)
  <1>1. \A k \in 0..Len(wire) : SubSeq(wire, 1, k) \in Seq(Msgs)
    <2> TAKE k \in 0..Len(wire)
    <2>1. \A i \in 1..k : wire[i] \in Msgs
      BY ElementOfSeq DEF TypeOK
    <2>2. QED
      BY <2>1, SubSeqProperties
  <1>2. wire' \in Seq(Msgs)
    BY <1>1 DEF DisconnectBody, TypeOK
  <1>3. QED
    BY <1>2 DEF DisconnectBody, TypeOK, Panic, ChanStates, Panics

\* The step RecvSendVersion keeps every variable in its type.
LEMMA RecvSendVersionType == TypeOK /\ RecvSendVersion => TypeOK'
  BY DEF RecvSendVersion, TypeOK, Panic, DisconnectBody, ClosesReady, CallDisconnect, CanRead, ReadFails, ReadMsg, RecvReadError, Msgs, MsgKinds, SendUDPMaySucceed, States, ChanStates, Panics, RecvPcs, UdpPcs, AuthPcs, SrvPcs

\* The step RecvReadVersion keeps every variable in its type.
LEMMA RecvReadVersionType == TypeOK /\ RecvReadVersion => TypeOK'
  <1> SUFFICES ASSUME TypeOK, RecvReadVersion PROVE TypeOK'
    OBVIOUS
  <1>1. CASE ReadFails
    <2>1. RecvReadError /\ UNCHANGED <<state, disconnected, udprecv, clientReady, connClosed, udp, peerSent, peerClosed, tunnelBuf, upc, ubuf, apc, authMsg, authQueued, spc, dpc, dbuf, dgramsIn, panic>>
      BY <1>1 DEF RecvReadVersion
    <2>2. wire' \in Seq(Msgs) /\ rpc' \in RecvPcs
      BY <2>1, EmptyWire DEF RecvReadError, CallDisconnect, RecvPcs
    <2>3. QED
      BY <2>1, <2>2 DEF TypeOK
  <1>2. CASE ~ReadFails
    <2>1. wire # <<>>
      BY <1>2 DEF ReadFails
    <2>2. QED
      BY <1>2, <2>1, ReadFacts DEF RecvReadVersion, TypeOK, CallDisconnect, States, RecvPcs
  <1>3. QED
    BY <1>1, <1>2

\* The step RecvReadAuthenticate keeps every variable in its type.
LEMMA RecvReadAuthenticateType == TypeOK /\ RecvReadAuthenticate => TypeOK'
  <1> SUFFICES ASSUME TypeOK, RecvReadAuthenticate PROVE TypeOK'
    OBVIOUS
  <1>1. CASE ReadFails
    <2>1. RecvReadError /\ UNCHANGED <<state, disconnected, udprecv, clientReady, connClosed, udp, peerSent, peerClosed, tunnelBuf, upc, ubuf, apc, authMsg, authQueued, spc, dpc, dbuf, dgramsIn, panic>>
      BY <1>1 DEF RecvReadAuthenticate
    <2>2. wire' \in Seq(Msgs) /\ rpc' \in RecvPcs
      BY <2>1, EmptyWire DEF RecvReadError, CallDisconnect, RecvPcs
    <2>3. QED
      BY <2>1, <2>2 DEF TypeOK
  <1>2. CASE ~ReadFails
    <2>1. wire # <<>>
      BY <1>2 DEF ReadFails
    <2>2. QED
      BY <1>2, <2>1, ReadFacts DEF RecvReadAuthenticate, TypeOK, RecvPcs, MsgKinds, ChanStates, AuthPcs
  <1>3. QED
    BY <1>1, <1>2

\* The step RecvAwaitReady keeps every variable in its type.
LEMMA RecvAwaitReadyType == TypeOK /\ RecvAwaitReady => TypeOK'
  BY DEF RecvAwaitReady, TypeOK, Panic, DisconnectBody, ClosesReady, CallDisconnect, CanRead, ReadFails, ReadMsg, RecvReadError, Msgs, MsgKinds, SendUDPMaySucceed, States, ChanStates, Panics, RecvPcs, UdpPcs, AuthPcs, SrvPcs

\* The step RecvCheckDisconnected keeps every variable in its type.
LEMMA RecvCheckDisconnectedType == TypeOK /\ RecvCheckDisconnected => TypeOK'
  BY DEF RecvCheckDisconnected, TypeOK, Panic, DisconnectBody, ClosesReady, CallDisconnect, CanRead, ReadFails, ReadMsg, RecvReadError, Msgs, MsgKinds, SendUDPMaySucceed, States, ChanStates, Panics, RecvPcs, UdpPcs, AuthPcs, SrvPcs

\* The step RecvReadReady keeps every variable in its type.
LEMMA RecvReadReadyType == TypeOK /\ RecvReadReady => TypeOK'
  <1> SUFFICES ASSUME TypeOK, RecvReadReady PROVE TypeOK'
    OBVIOUS
  <1>1. CASE ReadFails
    <2>1. RecvReadError /\ UNCHANGED <<state, disconnected, udprecv, clientReady, connClosed, udp, peerSent, peerClosed, tunnelBuf, upc, ubuf, apc, authMsg, authQueued, spc, dpc, dbuf, dgramsIn, panic>>
      BY <1>1 DEF RecvReadReady
    <2>2. wire' \in Seq(Msgs) /\ rpc' \in RecvPcs
      BY <2>1, EmptyWire DEF RecvReadError, CallDisconnect, RecvPcs
    <2>3. QED
      BY <2>1, <2>2 DEF TypeOK
  <1>2. CASE ~ReadFails
    <2>1. wire # <<>>
      BY <1>2 DEF ReadFails
    <2>2. wire' = Tail(wire) /\ UNCHANGED <<state, disconnected, udprecv, clientReady, connClosed, peerSent, peerClosed, upc, ubuf, apc, authMsg, authQueued, spc, dpc, dbuf, dgramsIn, panic>>
      BY <1>2 DEF RecvReadReady
    <2>3. /\ rpc' \in RecvPcs /\ udp' \in BOOLEAN
          /\ tunnelBuf' \in Datagrams \cup {"none"}
      BY <1>2, <2>1, ReadFacts DEF RecvReadReady, TypeOK, RecvPcs
    <2>4. QED
      BY <2>1, <2>2, <2>3, ReadFacts DEF TypeOK
  <1>3. QED
    BY <1>1, <1>2

\* The step RecvTunnel keeps every variable in its type.
LEMMA RecvTunnelType == TypeOK /\ RecvTunnel => TypeOK'
  BY DEF RecvTunnel, TypeOK, Panic, DisconnectBody, ClosesReady, CallDisconnect, CanRead, ReadFails, ReadMsg, RecvReadError, Msgs, MsgKinds, SendUDPMaySucceed, States, ChanStates, Panics, RecvPcs, UdpPcs, AuthPcs, SrvPcs

\* The step RecvDisconnect keeps every variable in its type.
LEMMA RecvDisconnectType == TypeOK /\ RecvDisconnect => TypeOK'
  <1> SUFFICES ASSUME TypeOK, RecvDisconnect PROVE TypeOK'
    OBVIOUS
  <1>1. DisconnectBody
    BY DEF RecvDisconnect
  <1>2. QED
    BY <1>1, DisconnectType DEF RecvDisconnect, TypeOK, CallDisconnect, States, RecvPcs,
                                UdpPcs, AuthPcs, SrvPcs

\* The step UdpExit keeps every variable in its type.
LEMMA UdpExitType == TypeOK /\ UdpExit => TypeOK'
  BY DEF UdpExit, TypeOK, Panic, DisconnectBody, ClosesReady, CallDisconnect, CanRead, ReadFails, ReadMsg, RecvReadError, Msgs, MsgKinds, SendUDPMaySucceed, States, ChanStates, Panics, RecvPcs, UdpPcs, AuthPcs, SrvPcs

\* The step UdpHandle keeps every variable in its type.
LEMMA UdpHandleType == TypeOK /\ UdpHandle => TypeOK'
  BY DEF UdpHandle, TypeOK, Panic, DisconnectBody, ClosesReady, CallDisconnect, CanRead, ReadFails, ReadMsg, RecvReadError, Msgs, MsgKinds, SendUDPMaySucceed, States, ChanStates, Panics, RecvPcs, UdpPcs, AuthPcs, SrvPcs

\* The step UdpDisconnect keeps every variable in its type.
LEMMA UdpDisconnectType == TypeOK /\ UdpDisconnect => TypeOK'
  <1> SUFFICES ASSUME TypeOK, UdpDisconnect PROVE TypeOK'
    OBVIOUS
  <1>1. DisconnectBody
    BY DEF UdpDisconnect
  <1>2. QED
    BY <1>1, DisconnectType DEF UdpDisconnect, TypeOK, CallDisconnect, States, RecvPcs,
                                UdpPcs, AuthPcs, SrvPcs

\* The step HandleAuthenticate keeps every variable in its type.
LEMMA HandleAuthenticateType == TypeOK /\ HandleAuthenticate => TypeOK'
  BY DEF HandleAuthenticate, TypeOK, Panic, DisconnectBody, ClosesReady, CallDisconnect, CanRead, ReadFails, ReadMsg, RecvReadError, Msgs, MsgKinds, SendUDPMaySucceed, States, ChanStates, Panics, RecvPcs, UdpPcs, AuthPcs, SrvPcs

\* The step AuthDisconnect keeps every variable in its type.
LEMMA AuthDisconnectType == TypeOK /\ AuthDisconnect => TypeOK'
  <1> SUFFICES ASSUME TypeOK, AuthDisconnect PROVE TypeOK'
    OBVIOUS
  <1>1. DisconnectBody
    BY DEF AuthDisconnect
  <1>2. QED
    BY <1>1, DisconnectType DEF AuthDisconnect, TypeOK, CallDisconnect, States, RecvPcs,
                                UdpPcs, AuthPcs, SrvPcs

\* The step FinishAuthenticate keeps every variable in its type.
LEMMA FinishAuthenticateType == TypeOK /\ FinishAuthenticate => TypeOK'
  BY DEF FinishAuthenticate, TypeOK, Panic, DisconnectBody, ClosesReady, CallDisconnect, CanRead, ReadFails, ReadMsg, RecvReadError, Msgs, MsgKinds, SendUDPMaySucceed, States, ChanStates, Panics, RecvPcs, UdpPcs, AuthPcs, SrvPcs

\* The step SignalReady keeps every variable in its type.
LEMMA SignalReadyType == TypeOK /\ SignalReady => TypeOK'
  BY DEF SignalReady, TypeOK, Panic, DisconnectBody, ClosesReady, CallDisconnect, CanRead, ReadFails, ReadMsg, RecvReadError, Msgs, MsgKinds, SendUDPMaySucceed, States, ChanStates, Panics, RecvPcs, UdpPcs, AuthPcs, SrvPcs

\* The step ServerDisconnect keeps every variable in its type.
LEMMA ServerDisconnectType == TypeOK /\ ServerDisconnect => TypeOK'
  <1> SUFFICES ASSUME TypeOK, ServerDisconnect PROVE TypeOK'
    OBVIOUS
  <1>1. DisconnectBody
    BY DEF ServerDisconnect
  <1>2. QED
    BY <1>1, DisconnectType DEF ServerDisconnect, TypeOK, CallDisconnect, States, RecvPcs,
                                UdpPcs, AuthPcs, SrvPcs

\* The step UdpListenerDeliver keeps every variable in its type.
LEMMA UdpListenerDeliverType == TypeOK /\ UdpListenerDeliver => TypeOK'
  BY DEF UdpListenerDeliver, TypeOK, Panic, DisconnectBody, ClosesReady, CallDisconnect, CanRead, ReadFails, ReadMsg, RecvReadError, Msgs, MsgKinds, SendUDPMaySucceed, States, ChanStates, Panics, RecvPcs, UdpPcs, AuthPcs, SrvPcs

\* The step PeerSend keeps every variable in its type.
LEMMA PeerSendType == TypeOK /\ PeerSend => TypeOK'
  BY DEF PeerSend, TypeOK, Panic, DisconnectBody, ClosesReady, CallDisconnect, CanRead, ReadFails, ReadMsg, RecvReadError, Msgs, MsgKinds, SendUDPMaySucceed, States, ChanStates, Panics, RecvPcs, UdpPcs, AuthPcs, SrvPcs

\* The step PeerClose keeps every variable in its type.
LEMMA PeerCloseType == TypeOK /\ PeerClose => TypeOK'
  BY DEF PeerClose, TypeOK, Panic, DisconnectBody, ClosesReady, CallDisconnect, CanRead, ReadFails, ReadMsg, RecvReadError, Msgs, MsgKinds, SendUDPMaySucceed, States, ChanStates, Panics, RecvPcs, UdpPcs, AuthPcs, SrvPcs

\* The step Kick keeps every variable in its type.
LEMMA KickType == TypeOK /\ Kick => TypeOK'
  BY DEF Kick, TypeOK, Panic, DisconnectBody, ClosesReady, CallDisconnect, CanRead, ReadFails, ReadMsg, RecvReadError, Msgs, MsgKinds, SendUDPMaySucceed, States, ChanStates, Panics, RecvPcs, UdpPcs, AuthPcs, SrvPcs

\* The step UdpListenerRecv keeps every variable in its type.
LEMMA UdpListenerRecvType == TypeOK /\ UdpListenerRecv => TypeOK'
  BY DEF UdpListenerRecv, TypeOK, Panic, DisconnectBody, ClosesReady, CallDisconnect, CanRead, ReadFails, ReadMsg, RecvReadError, Msgs, MsgKinds, SendUDPMaySucceed, States, ChanStates, Panics, RecvPcs, UdpPcs, AuthPcs, SrvPcs


\* Every step of the connection keeps every variable in its type.
LEMMA TypeNext == TypeOK /\ [Next]_vars => TypeOK'
  <1> SUFFICES ASSUME TypeOK, [Next]_vars PROVE TypeOK'
    OBVIOUS
  <1>1. CASE Recv
    BY <1>1, RecvSendVersionType, RecvReadVersionType,
       RecvReadAuthenticateType, RecvAwaitReadyType,
       RecvCheckDisconnectedType, RecvReadReadyType, RecvTunnelType,
       RecvDisconnectType DEF Recv
  <1>2. CASE UdpLoop
    BY <1>2, UdpExitType, UdpHandleType, UdpDisconnectType DEF UdpLoop
  <1>3. CASE Auth
    BY <1>3, HandleAuthenticateType, AuthDisconnectType DEF Auth
  <1>4. CASE Server
    BY <1>4, FinishAuthenticateType, SignalReadyType, ServerDisconnectType
       DEF Server
  <1>5. CASE UdpListenerDeliver
    BY <1>5, UdpListenerDeliverType
  <1>6. CASE Environment
    BY <1>6, PeerSendType, PeerCloseType, KickType, UdpListenerRecvType
       DEF Environment
  <1>7. CASE UNCHANGED vars
    BY <1>7 DEF vars, TypeOK
  <1>8. QED
    BY <1>1, <1>2, <1>3, <1>4, <1>5, <1>6, <1>7 DEF Next

(***************************************************************************)
(* Type correctness: in every reachable state every variable of the       *)
(* connection, the goroutines' program counters and the wire included,    *)
(* holds a value of its type.                                              *)
(***************************************************************************)
THEOREM TypeCorrect == Spec => []TypeOK
  <1>1. Init => TypeOK
    BY TypeInit
  <1>2. TypeOK /\ [Next]_vars => TypeOK'
    BY TypeNext
  <1>3. QED
    BY <1>1, <1>2, PTL DEF Spec


\* The inductive invariant holds initially.
LEMMA IInvInit == Init => IInv
  BY TypeInit DEF Init, IInv, SignalDelivered, AuthExclusive, ReadyChanSafe, HandOff, Alive

\* The step RecvSendVersion keeps the inductive invariant.
LEMMA RecvSendVersionIInv == IInv /\ RecvSendVersion => IInv'
  BY RecvSendVersionType DEF IInv, RecvSendVersion, SignalDelivered, AuthExclusive, ReadyChanSafe, HandOff, Alive, Panic, DisconnectBody, ClosesReady, CallDisconnect, RecvReadError, TypeOK, ChanStates, RecvPcs, AuthPcs, SrvPcs

\* The step RecvReadVersion keeps the inductive invariant.
LEMMA RecvReadVersionIInv == IInv /\ RecvReadVersion => IInv'
  BY RecvReadVersionType DEF IInv, RecvReadVersion, SignalDelivered, AuthExclusive, ReadyChanSafe, HandOff, Alive, Panic, DisconnectBody, ClosesReady, CallDisconnect, RecvReadError, TypeOK, ChanStates, RecvPcs, AuthPcs, SrvPcs

\* The step RecvReadAuthenticate keeps the inductive invariant.
LEMMA RecvReadAuthenticateIInv == IInv /\ RecvReadAuthenticate => IInv'
  <1> SUFFICES ASSUME IInv, Alive, RecvReadAuthenticate PROVE IInv'
    BY DEF RecvReadAuthenticate
  <1>1. TypeOK'
    BY RecvReadAuthenticateType DEF IInv
  <1>2. CASE ReadFails
    BY <1>1, <1>2 DEF IInv, RecvReadAuthenticate, SignalDelivered,
       AuthExclusive, ReadyChanSafe, HandOff, Alive, CallDisconnect,
       RecvReadError
  <1>3. CASE ~ReadFails
    <2>1. apc = "idle" /\ ~authQueued /\ spc # "signal"
      BY DEF RecvReadAuthenticate, IInv, HandOff
    <2>2. QED
      BY <1>1, <1>3, <2>1 DEF IInv, RecvReadAuthenticate,
         SignalDelivered, AuthExclusive, ReadyChanSafe, HandOff, Alive
  <1>4. QED
    BY <1>2, <1>3

\* The step RecvAwaitReady keeps the inductive invariant.
LEMMA RecvAwaitReadyIInv == IInv /\ RecvAwaitReady => IInv'
  BY RecvAwaitReadyType DEF IInv, RecvAwaitReady, SignalDelivered, AuthExclusive, ReadyChanSafe, HandOff, Alive, Panic, DisconnectBody, ClosesReady, CallDisconnect, RecvReadError, TypeOK, ChanStates, RecvPcs, AuthPcs, SrvPcs

\* The step RecvCheckDisconnected keeps the inductive invariant.
LEMMA RecvCheckDisconnectedIInv == IInv /\ RecvCheckDisconnected => IInv'
  BY RecvCheckDisconnectedType DEF IInv, RecvCheckDisconnected, SignalDelivered, AuthExclusive, ReadyChanSafe, HandOff, Alive, Panic, DisconnectBody, ClosesReady, CallDisconnect, RecvReadError, TypeOK, ChanStates, RecvPcs, AuthPcs, SrvPcs

\* The step RecvReadReady keeps the inductive invariant.
LEMMA RecvReadReadyIInv == IInv /\ RecvReadReady => IInv'
  BY RecvReadReadyType DEF IInv, RecvReadReady, SignalDelivered, AuthExclusive, ReadyChanSafe, HandOff, Alive, Panic, DisconnectBody, ClosesReady, CallDisconnect, RecvReadError, TypeOK, ChanStates, RecvPcs, AuthPcs, SrvPcs

\* The step RecvTunnel keeps the inductive invariant.
LEMMA RecvTunnelIInv == IInv /\ RecvTunnel => IInv'
  BY RecvTunnelType DEF IInv, RecvTunnel, SignalDelivered, AuthExclusive, ReadyChanSafe, HandOff, Alive, Panic, DisconnectBody, ClosesReady, CallDisconnect, RecvReadError, TypeOK, ChanStates, RecvPcs, AuthPcs, SrvPcs

\* The step RecvDisconnect keeps the inductive invariant.
LEMMA RecvDisconnectIInv == IInv /\ RecvDisconnect => IInv'
  BY RecvDisconnectType DEF IInv, RecvDisconnect, SignalDelivered, AuthExclusive, ReadyChanSafe, HandOff, Alive, Panic, DisconnectBody, ClosesReady, CallDisconnect, RecvReadError, TypeOK, ChanStates, RecvPcs, AuthPcs, SrvPcs

\* The step UdpExit keeps the inductive invariant.
LEMMA UdpExitIInv == IInv /\ UdpExit => IInv'
  BY UdpExitType DEF IInv, UdpExit, SignalDelivered, AuthExclusive, ReadyChanSafe, HandOff, Alive, Panic, DisconnectBody, ClosesReady, CallDisconnect, RecvReadError, TypeOK, ChanStates, RecvPcs, AuthPcs, SrvPcs

\* The step UdpHandle keeps the inductive invariant.
LEMMA UdpHandleIInv == IInv /\ UdpHandle => IInv'
  BY UdpHandleType DEF IInv, UdpHandle, SignalDelivered, AuthExclusive, ReadyChanSafe, HandOff, Alive, Panic, DisconnectBody, ClosesReady, CallDisconnect, RecvReadError, TypeOK, ChanStates, RecvPcs, AuthPcs, SrvPcs

\* The step UdpDisconnect keeps the inductive invariant.
LEMMA UdpDisconnectIInv == IInv /\ UdpDisconnect => IInv'
  BY UdpDisconnectType DEF IInv, UdpDisconnect, SignalDelivered, AuthExclusive, ReadyChanSafe, HandOff, Alive, Panic, DisconnectBody, ClosesReady, CallDisconnect, RecvReadError, TypeOK, ChanStates, RecvPcs, AuthPcs, SrvPcs

\* The step HandleAuthenticate keeps the inductive invariant.
LEMMA HandleAuthenticateIInv == IInv /\ HandleAuthenticate => IInv'
  <1> SUFFICES ASSUME IInv, Alive, HandleAuthenticate PROVE IInv'
    BY DEF HandleAuthenticate
  <1>1. TypeOK'
    BY HandleAuthenticateType DEF IInv
  <1>2. rpc = "waitReady" \/ disconnected
    BY DEF IInv, HandleAuthenticate, AuthExclusive
  <1>3. state = "ClientSentVersion"
    BY DEF IInv, HandleAuthenticate, HandOff
  <1>4. CASE authMsg = "Authenticate" /\ state' = "Authenticated"
             /\ authQueued' = TRUE /\ apc' = "done"
    <2>1. spc # "signal" /\ UNCHANGED <<rpc, disconnected, spc, panic, clientReady, udprecv, connClosed>>
      BY DEF IInv, HandOff, HandleAuthenticate
    <2>2. SignalDelivered' /\ AuthExclusive' /\ ReadyChanSafe'
      BY <1>2, <2>1 DEF IInv, SignalDelivered, AuthExclusive, ReadyChanSafe
    <2>3. HandOff'
      BY <1>2, <1>3, <1>4, <2>1 DEF IInv, HandOff, Alive
    <2>4. QED
      BY <1>1, <2>2, <2>3 DEF IInv
  <1>5. CASE apc' = CallDisconnect("done", "dcExit")
             /\ UNCHANGED <<state, authQueued>>
    BY <1>1, <1>2, <1>3, <1>5 DEF IInv, HandleAuthenticate, SignalDelivered, AuthExclusive,
       ReadyChanSafe, HandOff, Alive, CallDisconnect
  <1>6. QED
    BY <1>4, <1>5 DEF HandleAuthenticate

\* The step AuthDisconnect keeps the inductive invariant.
LEMMA AuthDisconnectIInv == IInv /\ AuthDisconnect => IInv'
  BY AuthDisconnectType DEF IInv, AuthDisconnect, SignalDelivered, AuthExclusive, ReadyChanSafe, HandOff, Alive, Panic, DisconnectBody, ClosesReady, CallDisconnect, RecvReadError, TypeOK, ChanStates, RecvPcs, AuthPcs, SrvPcs

\* The step FinishAuthenticate keeps the inductive invariant.
LEMMA FinishAuthenticateIInv == IInv /\ FinishAuthenticate => IInv'
  BY FinishAuthenticateType DEF IInv, FinishAuthenticate, SignalDelivered, AuthExclusive, ReadyChanSafe, HandOff, Alive, Panic, DisconnectBody, ClosesReady, CallDisconnect, RecvReadError, TypeOK, ChanStates, RecvPcs, AuthPcs, SrvPcs

\* The step SignalReady keeps the inductive invariant.
LEMMA SignalReadyIInv == IInv /\ SignalReady => IInv'
  BY SignalReadyType DEF IInv, SignalReady, SignalDelivered, AuthExclusive, ReadyChanSafe, HandOff, Alive, Panic, DisconnectBody, ClosesReady, CallDisconnect, RecvReadError, TypeOK, ChanStates, RecvPcs, AuthPcs, SrvPcs

\* The step ServerDisconnect keeps the inductive invariant.
LEMMA ServerDisconnectIInv == IInv /\ ServerDisconnect => IInv'
  BY ServerDisconnectType DEF IInv, ServerDisconnect, SignalDelivered, AuthExclusive, ReadyChanSafe, HandOff, Alive, Panic, DisconnectBody, ClosesReady, CallDisconnect, RecvReadError, TypeOK, ChanStates, RecvPcs, AuthPcs, SrvPcs

\* The step UdpListenerDeliver keeps the inductive invariant.
LEMMA UdpListenerDeliverIInv == IInv /\ UdpListenerDeliver => IInv'
  BY UdpListenerDeliverType DEF IInv, UdpListenerDeliver, SignalDelivered, AuthExclusive, ReadyChanSafe, HandOff, Alive, Panic, DisconnectBody, ClosesReady, CallDisconnect, RecvReadError, TypeOK, ChanStates, RecvPcs, AuthPcs, SrvPcs

\* The step PeerSend keeps the inductive invariant.
LEMMA PeerSendIInv == IInv /\ PeerSend => IInv'
  BY PeerSendType DEF IInv, PeerSend, SignalDelivered, AuthExclusive, ReadyChanSafe, HandOff, Alive, Panic, DisconnectBody, ClosesReady, CallDisconnect, RecvReadError, TypeOK, ChanStates, RecvPcs, AuthPcs, SrvPcs

\* The step PeerClose keeps the inductive invariant.
LEMMA PeerCloseIInv == IInv /\ PeerClose => IInv'
  BY PeerCloseType DEF IInv, PeerClose, SignalDelivered, AuthExclusive, ReadyChanSafe, HandOff, Alive, Panic, DisconnectBody, ClosesReady, CallDisconnect, RecvReadError, TypeOK, ChanStates, RecvPcs, AuthPcs, SrvPcs

\* The step Kick keeps the inductive invariant.
LEMMA KickIInv == IInv /\ Kick => IInv'
  BY KickType DEF IInv, Kick, SignalDelivered, AuthExclusive, ReadyChanSafe, HandOff, Alive, Panic, DisconnectBody, ClosesReady, CallDisconnect, RecvReadError, TypeOK, ChanStates, RecvPcs, AuthPcs, SrvPcs

\* The step UdpListenerRecv keeps the inductive invariant.
LEMMA UdpListenerRecvIInv == IInv /\ UdpListenerRecv => IInv'
  BY UdpListenerRecvType DEF IInv, UdpListenerRecv, SignalDelivered, AuthExclusive, ReadyChanSafe, HandOff, Alive, Panic, DisconnectBody, ClosesReady, CallDisconnect, RecvReadError, TypeOK, ChanStates, RecvPcs, AuthPcs, SrvPcs


\* Every step keeps the inductive invariant; the stutter
\* of a finished or panicked process keeps it trivially.
LEMMA IInvNext == IInv /\ [Next]_vars => IInv'
  <1> SUFFICES ASSUME IInv, [Next]_vars PROVE IInv'
    OBVIOUS
  <1>1. CASE Recv
    BY <1>1, RecvSendVersionIInv, RecvReadVersionIInv,
       RecvReadAuthenticateIInv, RecvAwaitReadyIInv,
       RecvCheckDisconnectedIInv, RecvReadReadyIInv, RecvTunnelIInv,
       RecvDisconnectIInv DEF Recv
  <1>2. CASE UdpLoop
    BY <1>2, UdpExitIInv, UdpHandleIInv, UdpDisconnectIInv DEF UdpLoop
  <1>3. CASE Auth
    BY <1>3, HandleAuthenticateIInv, AuthDisconnectIInv DEF Auth
  <1>4. CASE Server
    BY <1>4, FinishAuthenticateIInv, SignalReadyIInv, ServerDisconnectIInv
       DEF Server
  <1>5. CASE UdpListenerDeliver
    BY <1>5, UdpListenerDeliverIInv
  <1>6. CASE Environment
    BY <1>6, PeerSendIInv, PeerCloseIInv, KickIInv, UdpListenerRecvIInv
       DEF Environment
  <1>7. CASE UNCHANGED vars
    BY <1>7 DEF vars, IInv, TypeOK, SignalDelivered, AuthExclusive,
       ReadyChanSafe, HandOff, Alive
  <1>8. QED
    BY <1>1, <1>2, <1>3, <1>4, <1>5, <1>6, <1>7 DEF Next

(***************************************************************************)
(* The readiness hand-off between tlsRecvLoop (lines 480-492),             *)
(* handleAuthenticate and finishAuthenticate is safe for every bound on    *)
(* frames and datagrams: a receiver woken while connected finds the client *)
(* Ready, it stays blocked while authentication is in progress, and        *)
(* clientReady is never closed twice nor sent on after its close.          *)
(***************************************************************************)
THEOREM HandOffSafe ==
    Spec => [](SignalDelivered /\ AuthExclusive /\ ReadyChanSafe)
  <1>1. Init => IInv
    BY IInvInit
  <1>2. IInv /\ [Next]_vars => IInv'
    BY IInvNext
  <1>3. IInv => SignalDelivered /\ AuthExclusive /\ ReadyChanSafe
    BY DEF IInv
  <1>4. QED
    BY <1>1, <1>2, <1>3, PTL DEF Spec

\* The receiver stays blocked at line 482 for the whole hand-off to
\* handleAuthenticate and finishAuthenticate, for every bound: no second
\* Authenticate is read and no frame forwarded meanwhile.
THEOREM AuthExclusiveHolds == Spec => []AuthExclusive
  BY HandOffSafe, PTL

\* disconnect (195-204) and finishAuthenticate never close clientReady twice
\* nor send on it once closed, for every bound.
THEOREM ReadyChanSafeHolds == Spec => []ReadyChanSafe
  BY HandOffSafe, PTL

=============================================================================
