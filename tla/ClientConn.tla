----------------------------- MODULE ClientConn -----------------------------
(***************************************************************************)
(* One client connection of the server (src/unnamed/part_000, type Client) *)
(* and the goroutines that touch it:                                       *)
(*   recv   tlsRecvLoop: version handshake, hand-off of Authenticate to a  *)
(*          fresh goroutine, then reading control messages and forwarding  *)
(*          UDPTunnel payloads to the UDP loop;                           *)
(*   udp    udpRecvLoop: ranges over the unbuffered channel udprecv;       *)
(*   auth   the handleAuthenticate goroutine started by recv;              *)
(*   srv    the server handler goroutine: finishAuthenticate, which sends  *)
(*          the readiness signal, and server-side disconnects (kick, ban,  *)
(*          shutdown, a failed send in a handler);                         *)
(*   disp   the server's UDP socket reader, which hands decrypted          *)
(*          datagrams to the client's udprecv.                             *)
(* Every one of them may call disconnect(), whose test of disconnected and *)
(* the assignment that follows it are two steps: nothing makes them atomic.*)
(* A Go panic (close of a closed or nil channel, send on a closed channel) *)
(* kills the whole server process: it is recorded in panic, and stops     *)
(* every goroutine.                                                        *)
(***************************************************************************)
EXTENDS Naturals, Sequences

CONSTANTS
    Datagrams,  \* classes of UDP datagrams as udpRecvLoop tells them apart
    MaxMsgs,    \* control messages the peer sends on the TLS connection
    MaxDgrams   \* datagrams the server's UDP reader hands to the client

\* The classes udpRecvLoop distinguishes, by the branch each one takes.
DatagramClasses == {"Empty", "OverLimit", "Malformed", "Ping", "Loopback", "Voice"}

ASSUME ConstAssumption ==
    /\ Datagrams \subseteq DatagramClasses
    /\ MaxMsgs \in Nat
    /\ MaxDgrams \in Nat

\* Client.state; StateClientAuthenticated is written by handleAuthenticate.
States == {"Connected", "ServerSentVersion", "ClientSentVersion",
           "Authenticated", "Ready"}

\* A control frame: its kind, and for UDPTunnel the datagram it carries.
\* "Bad" is a frame readProtoMessage cannot read (short length, I/O error).
MsgKinds == {"Version", "Authenticate", "Other", "Bad", "UDPTunnel"}
Msgs == [kind : MsgKinds \ {"UDPTunnel"}, dgram : {"none"}]
        \cup [kind : {"UDPTunnel"}, dgram : Datagrams]

ChanStates == {"nil", "open", "closed"}
Panics == {"none", "closeClosedUdprecv", "closeNilReady", "closeClosedReady",
           "sendClosedReady", "tunnelSendClosedUdprecv", "dispSendClosedUdprecv"}

VARIABLES
    state,         \* client.state
    disconnected,  \* client.disconnected
    udprecv,       \* client.udprecv: "open" or "closed"
    clientReady,   \* client.clientReady: "nil", "open" or "closed"
    connClosed,    \* client.conn has been closed by disconnect
    udp,           \* client.udp: outgoing UDP goes direct, not tunnelled
    wire,          \* frames the peer has written and recv has not read
    peerSent,      \* number of frames the peer has written
    peerClosed,    \* the peer has closed its side (recv then reads EOF)
    rpc, tunnelBuf,  \* recv: program counter, datagram being handed over
    upc, ubuf,       \* udp loop: program counter, datagram in hand
    apc, authMsg,    \* auth goroutine: program counter, message it handles
    authQueued,      \* client sent on server.clientAuthenticated
    spc,             \* server handler: program counter for this client
    dpc, dbuf, dgramsIn,  \* UDP socket reader: pc, datagram, count
    panic            \* the reason the process panicked, or "none"

vars == <<state, disconnected, udprecv, clientReady, connClosed, udp, wire,
          peerSent, peerClosed, rpc, tunnelBuf, upc, ubuf, apc, authMsg,
          authQueued, spc, dpc, dbuf, dgramsIn, panic>>

RecvPcs == {"top", "waitReady", "checkDisc", "sendTunnel", "dcExit",
            "dcVersion", "done"}
UdpPcs == {"wait", "handle", "dcLoop", "done"}
AuthPcs == {"idle", "run", "dcExit", "done"}
SrvPcs == {"idle", "signal", "dcIdle"}

TypeOK ==
    /\ state \in States
    /\ disconnected \in BOOLEAN
    /\ udprecv \in {"open", "closed"}
    /\ clientReady \in ChanStates
    /\ connClosed \in BOOLEAN
    /\ udp \in BOOLEAN
    /\ wire \in Seq(Msgs)
    /\ peerSent \in 0..MaxMsgs
    /\ peerClosed \in BOOLEAN
    /\ rpc \in RecvPcs
    /\ tunnelBuf \in Datagrams \cup {"none"}
    /\ upc \in UdpPcs
    /\ ubuf \in Datagrams \cup {"none"}
    /\ apc \in AuthPcs
    /\ authMsg \in MsgKinds \cup {"none"}
    /\ authQueued \in BOOLEAN
    /\ spc \in SrvPcs
    /\ dpc \in {"idle", "send"}
    /\ dbuf \in Datagrams \cup {"none"}
    /\ dgramsIn \in 0..MaxDgrams
    /\ panic \in Panics

-----------------------------------------------------------------------------
(* The struct's zero values (a Go chan field is nil until made), plus the  *)
(* fields the accept path sets: state Connected and udprecv made.          *)
Init ==
    /\ state = "Connected"
    /\ disconnected = FALSE
    /\ udprecv = "open"
    /\ clientReady = "nil"
    /\ connClosed = FALSE
    /\ udp = FALSE
    /\ wire = <<>>
    /\ peerSent = 0
    /\ peerClosed = FALSE
    /\ rpc = "top"
    /\ tunnelBuf = "none"
    /\ upc = "wait"
    /\ ubuf = "none"
    /\ apc = "idle"
    /\ authMsg = "none"
    /\ authQueued = FALSE
    /\ spc = "idle"
    /\ dpc = "idle"
    /\ dbuf = "none"
    /\ dgramsIn = 0
    /\ panic = "none"

Alive == panic = "none"

Panic(reason) == panic' = reason

\* A variant that also closes clientReady of a Ready client (a test of
\* state >= StateClientSentVersion).
ClosesReadyFromVersion ==
    state \in {"ClientSentVersion", "Authenticated", "Ready"}

\* disconnect() closes clientReady only in these two states (line 202).
ClosesReady == state \in {"ClientSentVersion", "Authenticated"}

(* Lines 189-209, the body of disconnect() run by a goroutine that has     *)
(* already found disconnected = FALSE: set the flag, close udprecv, close  *)
(* clientReady in the two handshake states, close the connection. A close *)
(* of a closed or nil channel panics at that statement. conn.Close (207)   *)
(* loses the frames still on the connection, but not those the           *)
(* bufio.Reader client.reader (line 35) has already read ahead: some      *)
(* prefix of what the peer wrote stays readable.                          *)
DisconnectBody ==
    /\ disconnected' = TRUE
    /\ \/ /\ udprecv = "closed"
          /\ Panic("closeClosedUdprecv")
          /\ UNCHANGED <<udprecv, clientReady, connClosed, wire>>
       \/ /\ udprecv = "open"
          /\ udprecv' = "closed"
          /\ ClosesReady
          /\ clientReady # "open"
          /\ Panic(IF clientReady = "nil" THEN "closeNilReady"
                                           ELSE "closeClosedReady")
          /\ UNCHANGED <<clientReady, connClosed, wire>>
       \/ /\ udprecv = "open"
          /\ udprecv' = "closed"
          /\ ClosesReady => clientReady = "open"
          /\ clientReady' = IF ClosesReady THEN "closed" ELSE clientReady
          /\ connClosed' = TRUE
          /\ \E k \in 0..Len(wire) : wire' = SubSeq(wire, 1, k)
          /\ UNCHANGED panic

\* disconnect(), line 188: the goroutine whose pc is being set continues at
\* `cont` when the flag is already set, and runs the body at `body` otherwise.
CallDisconnect(cont, body) == IF disconnected THEN cont ELSE body

-----------------------------------------------------------------------------
(* readProtoMessage (lines 246-277) reads client.reader. It blocks until  *)
(* a frame is there, the peer closed (EOF) or the server closed the conn;  *)
(* after the close it still returns the frames the reader had buffered.    *)
CanRead == wire # <<>> \/ peerClosed \/ connClosed

\* The read returns an error: nothing left to read (EOF, or the closed
\* connection once the buffer is drained) or an unreadable frame.
ReadFails ==
    wire = <<>> \/ (wire # <<>> /\ Head(wire).kind = "Bad")

\* The frame the read returns when it does not fail.
ReadMsg == Head(wire)

\* After a failed read the receiver calls Disconnect/Panicf and returns; the
\* rest of the stream is never read.
RecvReadError ==
    /\ wire' = <<>>
    /\ rpc' = CallDisconnect("done", "dcExit")

-----------------------------------------------------------------------------
(***************************************************************************)
(* tlsRecvLoop (lines 441-527). Each action is one branch of the loop,     *)
(* selected by client.state when the loop reaches it.                      *)
(***************************************************************************)

\* Lines 498-511: send the server's Version; a send error is ignored.
RecvSendVersion ==
    /\ Alive /\ rpc = "top" /\ state = "Connected"
    /\ state' = "ServerSentVersion"
    /\ UNCHANGED <<disconnected, udprecv, clientReady, connClosed, udp, wire,
                   peerSent, peerClosed, rpc, tunnelBuf, upc, ubuf, apc,
                   authMsg, authQueued, spc, dpc, dbuf, dgramsIn, panic>>

\* Lines 512-525: read the peer's Version and hand it to handleVersionMessage,
\* which panics the client on a frame it cannot decode; state becomes
\* ClientSentVersion either way (line 524).
RecvReadVersion ==
    /\ Alive /\ rpc = "top" /\ state = "ServerSentVersion" /\ CanRead
    /\ \/ /\ ReadFails
          /\ RecvReadError
          /\ UNCHANGED state
       \/ /\ ~ReadFails
          /\ wire' = Tail(wire)
          /\ IF ReadMsg.kind = "Version"
                THEN state' = "ClientSentVersion" /\ UNCHANGED rpc
                ELSE /\ rpc' = CallDisconnect("top", "dcVersion")
                     /\ state' = IF disconnected THEN "ClientSentVersion"
                                                 ELSE state
    /\ UNCHANGED <<disconnected, udprecv, clientReady, connClosed, udp,
                   peerSent, peerClosed, tunnelBuf, upc, ubuf, apc, authMsg,
                   authQueued, spc, dpc, dbuf, dgramsIn, panic>>

\* A variant that starts handleAuthenticate and reads on without waiting.
RecvReadAuthenticateNoWait ==
    /\ Alive /\ rpc = "top" /\ state = "ClientSentVersion" /\ CanRead
    /\ \/ /\ ReadFails
          /\ RecvReadError
          /\ UNCHANGED <<clientReady, apc, authMsg>>
       \/ /\ ~ReadFails
          /\ wire' = Tail(wire)
          /\ clientReady' = "open"
          /\ apc' = "run"
          /\ authMsg' = ReadMsg.kind
          /\ UNCHANGED rpc
    /\ UNCHANGED <<state, disconnected, udprecv, connClosed, udp, peerSent,
                   peerClosed, tunnelBuf, upc, ubuf, authQueued, spc, dpc,
                   dbuf, dgramsIn, panic>>

\* Lines 468-482: read the next frame, make clientReady, start
\* handleAuthenticate on it in a new goroutine and block on clientReady.
RecvReadAuthenticate ==
    /\ Alive /\ rpc = "top" /\ state = "ClientSentVersion" /\ CanRead
    /\ \/ /\ ReadFails
          /\ RecvReadError
          /\ UNCHANGED <<clientReady, apc, authMsg>>
       \/ /\ ~ReadFails
          /\ wire' = Tail(wire)
          /\ clientReady' = "open"
          /\ apc' = "run"
          /\ authMsg' = ReadMsg.kind
          /\ rpc' = "waitReady"
    /\ UNCHANGED <<state, disconnected, udprecv, connClosed, udp, peerSent,
                   peerClosed, tunnelBuf, upc, ubuf, authQueued, spc, dpc,
                   dbuf, dgramsIn, panic>>

\* A variant whose receive does not block on an open clientReady (as a
\* select with a default case would).
RecvAwaitReadyNonBlocking ==
    /\ Alive /\ rpc = "waitReady" /\ clientReady \in {"open", "closed"}
    /\ rpc' = "checkDisc"
    /\ UNCHANGED <<state, disconnected, udprecv, clientReady, connClosed, udp,
                   wire, peerSent, peerClosed, tunnelBuf, upc, ubuf, apc,
                   authMsg, authQueued, spc, dpc, dbuf, dgramsIn, panic>>

\* Line 482 woken by a close of clientReady (disconnect, line 203). The wake
\* by finishAuthenticate's send is the rendezvous in SignalReady.
RecvAwaitReady ==
    /\ Alive /\ rpc = "waitReady" /\ clientReady = "closed"
    /\ rpc' = "checkDisc"
    /\ UNCHANGED <<state, disconnected, udprecv, clientReady, connClosed, udp,
                   wire, peerSent, peerClosed, tunnelBuf, upc, ubuf, apc,
                   authMsg, authQueued, spc, dpc, dbuf, dgramsIn, panic>>

\* Lines 487-492: return if disconnected, otherwise close clientReady (a
\* close of a closed channel panics) and drop it.
RecvCheckDisconnected ==
    /\ Alive /\ rpc = "checkDisc"
    /\ \/ /\ disconnected
          /\ rpc' = "done"
          /\ UNCHANGED <<clientReady, panic>>
       \/ /\ ~disconnected /\ clientReady \in {"open", "closed"}
          /\ Panic(IF clientReady = "closed" THEN "closeClosedReady" ELSE "none")
          /\ clientReady' = "nil"
          /\ rpc' = "top"
    /\ UNCHANGED <<state, disconnected, udprecv, connClosed, udp, wire,
                   peerSent, peerClosed, tunnelBuf, upc, ubuf, apc, authMsg,
                   authQueued, spc, dpc, dbuf, dgramsIn>>

\* Lines 445-465: read a frame; a UDPTunnel frame clears udp and goes to the
\* UDP loop, any other goes to server.incoming.
RecvReadReady ==
    /\ Alive /\ rpc = "top" /\ state = "Ready" /\ CanRead
    /\ \/ /\ ReadFails
          /\ RecvReadError
          /\ UNCHANGED <<udp, tunnelBuf>>
       \/ /\ ~ReadFails
          /\ wire' = Tail(wire)
          /\ ReadMsg.kind = "UDPTunnel"
          /\ udp' = FALSE
          /\ tunnelBuf' = ReadMsg.dgram
          /\ rpc' = "sendTunnel"
       \/ /\ ~ReadFails
          /\ wire' = Tail(wire)
          /\ ReadMsg.kind # "UDPTunnel"
          /\ UNCHANGED <<rpc, udp, tunnelBuf>>
    /\ UNCHANGED <<state, disconnected, udprecv, clientReady, connClosed,
                   peerSent, peerClosed, upc, ubuf, apc, authMsg, authQueued,
                   spc, dpc, dbuf, dgramsIn, panic>>

\* Line 460, client.udprecv <- msg.buf: a rendezvous with udpRecvLoop on
\* the unbuffered channel; a send on the closed channel panics.
RecvTunnel ==
    /\ Alive /\ rpc = "sendTunnel"
    /\ \/ /\ udprecv = "closed"
          /\ Panic("tunnelSendClosedUdprecv")
          /\ UNCHANGED <<rpc, tunnelBuf, upc, ubuf>>
       \/ /\ udprecv = "open" /\ upc = "wait"
          /\ upc' = "handle"
          /\ ubuf' = tunnelBuf
          /\ tunnelBuf' = "none"
          /\ rpc' = "top"
          /\ UNCHANGED panic
    /\ UNCHANGED <<state, disconnected, udprecv, clientReady, connClosed, udp,
                   wire, peerSent, peerClosed, apc, authMsg, authQueued, spc,
                   dpc, dbuf, dgramsIn>>

\* The body of a disconnect the receiver started; after the one started by
\* handleVersionMessage the loop goes on at line 524.
RecvDisconnect ==
    /\ Alive /\ rpc \in {"dcExit", "dcVersion"}
    /\ DisconnectBody
    /\ rpc' = IF rpc = "dcExit" THEN "done" ELSE "top"
    /\ state' = IF rpc = "dcExit" THEN state ELSE "ClientSentVersion"
    /\ UNCHANGED <<udp, peerSent, peerClosed, tunnelBuf, upc, ubuf, apc,
                   authMsg, authQueued, spc, dpc, dbuf, dgramsIn>>

Recv ==
    \/ RecvSendVersion \/ RecvReadVersion \/ RecvReadAuthenticate
    \/ RecvAwaitReady \/ RecvCheckDisconnected \/ RecvReadReady
    \/ RecvTunnel \/ RecvDisconnect

-----------------------------------------------------------------------------
(***************************************************************************)
(* udpRecvLoop (lines 330-376): `for buf := range client.udprecv`.         *)
(***************************************************************************)

\* The range ends once udprecv is closed and nothing is being sent.
UdpExit ==
    /\ Alive /\ upc = "wait" /\ udprecv = "closed"
    /\ upc' = "done"
    /\ UNCHANGED <<state, disconnected, udprecv, clientReady, connClosed, udp,
                   wire, peerSent, peerClosed, rpc, tunnelBuf, ubuf, apc,
                   authMsg, authQueued, spc, dpc, dbuf, dgramsIn, panic>>

\* SendUDP (lines 381-389) fails when the tunnelled write hits the closed
\* connection, and may fail on any write error.
SendUDPMaySucceed == udp \/ ~connClosed

\* Lines 331-374 for one buffer. An empty buffer, a frame over the bandwidth
\* limit and an unparsable packet each `return` from the loop; a ping or a
\* loopback packet is echoed with SendUDP, whose failure Panicf's the
\* client and the loop goes on; other audio goes to server.voicebroadcast.
UdpHandle ==
    /\ Alive /\ upc = "handle"
    /\ ubuf' = "none"
    /\ \/ /\ ubuf \in {"Empty", "OverLimit", "Malformed"}
          /\ upc' = "done"
       \/ /\ ubuf = "Voice"
          /\ upc' = "wait"
       \/ /\ ubuf \in {"Ping", "Loopback"} /\ SendUDPMaySucceed
          /\ upc' = "wait"
       \/ /\ ubuf \in {"Ping", "Loopback"}
          /\ upc' = CallDisconnect("wait", "dcLoop")
    /\ UNCHANGED <<state, disconnected, udprecv, clientReady, connClosed, udp,
                   wire, peerSent, peerClosed, rpc, tunnelBuf, apc, authMsg,
                   authQueued, spc, dpc, dbuf, dgramsIn, panic>>

\* The body of the disconnect started by a failed SendUDP.
UdpDisconnect ==
    /\ Alive /\ upc = "dcLoop"
    /\ DisconnectBody
    /\ upc' = "wait"
    /\ UNCHANGED <<state, udp, peerSent, peerClosed, rpc, tunnelBuf,
                   ubuf, apc, authMsg, authQueued, spc, dpc, dbuf, dgramsIn>>

UdpLoop == UdpExit \/ UdpHandle \/ UdpDisconnect

-----------------------------------------------------------------------------
(***************************************************************************)
(* handleAuthenticate, the goroutine started at line 481. Its body is     *)
(* server code outside this file: a frame that is not Authenticate panics *)
(* the client; a refused one is RejectAuth (lines 231-243: send Reject,   *)
(* ForceDisconnect); an accepted one sets StateClientAuthenticated and     *)
(* passes the client to the handler goroutine on clientAuthenticated.      *)
(***************************************************************************)
\* A variant that queues the client for the handler without setting
\* StateClientAuthenticated.
HandleAuthenticateNoState ==
    /\ Alive /\ apc = "run"
    /\ \/ /\ authMsg = "Authenticate"
          /\ authQueued' = TRUE
          /\ apc' = "done"
          /\ UNCHANGED state
       \/ /\ apc' = CallDisconnect("done", "dcExit")
          /\ UNCHANGED <<state, authQueued>>
    /\ UNCHANGED <<disconnected, udprecv, clientReady, connClosed, udp, wire,
                   peerSent, peerClosed, rpc, tunnelBuf, upc, ubuf, authMsg,
                   spc, dpc, dbuf, dgramsIn, panic>>

HandleAuthenticate ==
    /\ Alive /\ apc = "run"
    /\ \/ /\ authMsg = "Authenticate"
          /\ state' = "Authenticated"
          /\ authQueued' = TRUE
          /\ apc' = "done"
       \/ /\ apc' = CallDisconnect("done", "dcExit")
          /\ UNCHANGED <<state, authQueued>>
    /\ UNCHANGED <<disconnected, udprecv, clientReady, connClosed, udp, wire,
                   peerSent, peerClosed, rpc, tunnelBuf, upc, ubuf, authMsg,
                   spc, dpc, dbuf, dgramsIn, panic>>

AuthDisconnect ==
    /\ Alive /\ apc = "dcExit"
    /\ DisconnectBody
    /\ apc' = "done"
    /\ UNCHANGED <<state, udp, peerSent, peerClosed, rpc, tunnelBuf, upc,
                   ubuf, authMsg, authQueued, spc, dpc, dbuf, dgramsIn>>

Auth == HandleAuthenticate \/ AuthDisconnect

-----------------------------------------------------------------------------
(***************************************************************************)
(* The server handler goroutine, as far as this client goes.              *)
(* finishAuthenticate sends CryptSetup, the channel tree (sendChannelList, *)
(* lines 529-574), the users and ServerSync; a failed send Panicf's the    *)
(* client. On success it sets StateClientReady and then sends true on     *)
(* clientReady.                                                            *)
(***************************************************************************)
FinishAuthenticate ==
    /\ Alive /\ spc = "idle" /\ authQueued
    /\ authQueued' = FALSE
    /\ \/ /\ ~connClosed
          /\ state' = "Ready"
          /\ spc' = "signal"
       \/ /\ spc' = CallDisconnect("idle", "dcIdle")
          /\ UNCHANGED state
    /\ UNCHANGED <<disconnected, udprecv, clientReady, connClosed, udp, wire,
                   peerSent, peerClosed, rpc, tunnelBuf, upc, ubuf, apc,
                   authMsg, dpc, dbuf, dgramsIn, panic>>

\* client.clientReady <- true: a rendezvous with the receiver blocked at
\* line 482; a send on the closed channel panics, on a nil one blocks.
SignalReady ==
    /\ Alive /\ spc = "signal"
    /\ \/ clientReady = "closed"
       \/ clientReady = "open" /\ rpc = "waitReady"
    /\ Panic(IF clientReady = "closed" THEN "sendClosedReady" ELSE "none")
    /\ rpc' = IF clientReady = "open" THEN "checkDisc" ELSE rpc
    /\ spc' = "idle"
    /\ UNCHANGED <<state, disconnected, udprecv, clientReady, connClosed, udp,
                   wire, peerSent, peerClosed, tunnelBuf, upc, ubuf, apc,
                   authMsg, authQueued, dpc, dbuf, dgramsIn>>

\* A handler disconnects the client: ForceDisconnect for a kick or a ban,
\* Panicf after a failed send (sendPermissionDenied*, lines 280-327), or
\* server shutdown. This is the test at line 188.
Kick ==
    /\ Alive /\ spc = "idle" /\ ~disconnected
    /\ spc' = "dcIdle"
    /\ UNCHANGED <<state, disconnected, udprecv, clientReady, connClosed, udp,
                   wire, peerSent, peerClosed, rpc, tunnelBuf, upc, ubuf, apc,
                   authMsg, authQueued, dpc, dbuf, dgramsIn, panic>>

ServerDisconnect ==
    /\ Alive /\ spc = "dcIdle"
    /\ DisconnectBody
    /\ spc' = "idle"
    /\ UNCHANGED <<state, udp, peerSent, peerClosed, rpc, tunnelBuf, upc,
                   ubuf, apc, authMsg, authQueued, dpc, dbuf, dgramsIn>>

Server == FinishAuthenticate \/ SignalReady \/ ServerDisconnect

-----------------------------------------------------------------------------
(***************************************************************************)
(* The server's UDP socket reader (server code): it finds the client by   *)
(* address among the connected clients once its crypt state is set up     *)
(* (Ready), marks UDP as working, and sends the plaintext on udprecv.     *)
(***************************************************************************)
UdpListenerRecv ==
    /\ Alive /\ dpc = "idle" /\ dgramsIn < MaxDgrams
    /\ state = "Ready" /\ ~disconnected
    /\ \E d \in Datagrams : dbuf' = d
    /\ dpc' = "send"
    /\ udp' = TRUE
    /\ dgramsIn' = dgramsIn + 1
    /\ UNCHANGED <<state, disconnected, udprecv, clientReady, connClosed, wire,
                   peerSent, peerClosed, rpc, tunnelBuf, upc, ubuf, apc,
                   authMsg, authQueued, spc, panic>>

UdpListenerDeliver ==
    /\ Alive /\ dpc = "send"
    /\ \/ /\ udprecv = "closed"
          /\ Panic("dispSendClosedUdprecv")
          /\ UNCHANGED <<dpc, dbuf, upc, ubuf>>
       \/ /\ udprecv = "open" /\ upc = "wait"
          /\ upc' = "handle"
          /\ ubuf' = dbuf
          /\ dpc' = "idle"
          /\ dbuf' = "none"
          /\ UNCHANGED panic
    /\ UNCHANGED <<state, disconnected, udprecv, clientReady, connClosed, udp,
                   wire, peerSent, peerClosed, rpc, tunnelBuf, apc, authMsg,
                   authQueued, spc, dgramsIn>>

-----------------------------------------------------------------------------
(* The peer: writes frames of any kind in any state, then closes.          *)
PeerSend ==
    /\ Alive /\ ~peerClosed /\ ~connClosed /\ peerSent < MaxMsgs
    /\ \E m \in Msgs : wire' = Append(wire, m)
    /\ peerSent' = peerSent + 1
    /\ UNCHANGED <<state, disconnected, udprecv, clientReady, connClosed, udp,
                   peerClosed, rpc, tunnelBuf, upc, ubuf, apc, authMsg,
                   authQueued, spc, dpc, dbuf, dgramsIn, panic>>

PeerClose ==
    /\ Alive /\ ~peerClosed
    /\ peerClosed' = TRUE
    /\ UNCHANGED <<state, disconnected, udprecv, clientReady, connClosed, udp,
                   wire, peerSent, rpc, tunnelBuf, upc, ubuf, apc, authMsg,
                   authQueued, spc, dpc, dbuf, dgramsIn, panic>>

Environment == PeerSend \/ PeerClose \/ Kick \/ UdpListenerRecv

\* The receiver blocked for good at line 482: disconnect() has run, so it
\* will not close the clientReady made at line 480 (Terminated adds that no
\* finishAuthenticate is left to send on it).
ReceiverStuck ==
    /\ rpc = "waitReady" /\ clientReady = "open" /\ disconnected

\* Every goroutine of the connection has returned or is blocked for good,
\* or the process panicked.
Terminated ==
    \/ ~Alive
    \/ /\ rpc = "done" \/ ReceiverStuck
       /\ upc = "done" /\ apc \in {"idle", "done"}
       /\ spc = "idle" /\ dpc = "idle" /\ ~authQueued
       /\ peerClosed

Next ==
    \/ Recv \/ UdpLoop \/ Auth \/ Server \/ UdpListenerDeliver
    \/ Environment
    \/ Terminated /\ UNCHANGED vars

(* Go's scheduler runs every runnable goroutine eventually: each goroutine *)
(* is weakly fair. The peer, the kicks and arriving datagrams are not.     *)
Fairness ==
    /\ WF_vars(Recv)
    /\ WF_vars(UdpLoop)
    /\ WF_vars(Auth)
    /\ WF_vars(Server)
    /\ WF_vars(UdpListenerDeliver)

Spec == Init /\ [][Next]_vars /\ Fairness

-----------------------------------------------------------------------------
(***************************************************************************)
(* Properties.                                                             *)
(***************************************************************************)

\* The readiness hand-off (lines 480-492 with finishAuthenticate): when the
\* receiver wakes from <-clientReady and the client is still connected, the
\* wake was finishAuthenticate's signal, so the client is Ready; it never
\* goes on reading control frames of a client that is not Ready.
SignalDelivered ==
    rpc = "checkDisc" /\ ~disconnected => state = "Ready"

\* While handleAuthenticate runs, while its result waits for the handler
\* goroutine, and until finishAuthenticate has signalled, the receiver of a
\* connected client stays blocked at line 482: no second Authenticate is
\* read and no frame of the client is forwarded during the hand-off.
AuthExclusive ==
    (apc \in {"run", "dcExit"} \/ authQueued \/ spc = "signal")
        => (rpc = "waitReady" \/ disconnected)

\* The comment at lines 195-203: clientReady is closed by disconnect only
\* when the receiver is (or will be) waiting on it, so it is never closed
\* twice and finishAuthenticate never sends on a closed clientReady.
ReadyChanSafe ==
    panic \notin {"closeClosedReady", "sendClosedReady"}

\* The comment at lines 195-202: after a premature disconnect the receiver
\* can exit; it never stays blocked on the readiness signal, each wait at
\* line 482 ending with the signal or the close of clientReady.
ReadyWaitEnds ==
    rpc = "waitReady" ~> (rpc # "waitReady" \/ ~Alive)

\* The client's lifecycle is the spec's: the handshake states in order, one
\* at a time, and Disconnected once disconnect() has set client.disconnected
\* (line 189), whatever state the other goroutines still write afterwards.
Lifecycle == INSTANCE ConnLifecycle
                 WITH lstate <- IF disconnected THEN "Disconnected" ELSE state
LifecycleRefined == Lifecycle!Spec

\* disconnect() runs its body once: udprecv is never closed twice.
NoDoubleCloseUdprecv == panic # "closeClosedUdprecv"

\* The receiver's hand-off of a tunnelled datagram (line 460) never sends on
\* a udprecv that disconnect has closed.
NoTunnelSendOnClosed == panic # "tunnelSendClosedUdprecv"

\* disconnect() never closes a clientReady the receiver has not made yet.
NoCloseOfNilReady == panic # "closeNilReady"

\* A peer that closes its connection is eventually disconnected: the
\* receiver reads the EOF and calls Disconnect (lines 449-450).
PeerCloseNoticed ==
    peerClosed ~> (disconnected \/ ~Alive)

====
