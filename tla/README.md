# Formal models of grumble

This directory holds TLA+ models of the Go sources under `src/`, the TLC
configurations that model-check them, and TLAPS proofs about them.

## The system and its parts

`src/unnamed/part_000` is the server's per-client code (`type Client`). Each
accepted client is served by several goroutines that share the `Client`
struct:

| goroutine | code | what it does |
|---|---|---|
| receiver | `tlsRecvLoop` (441-527) | drives the handshake state machine Connected → ServerSentVersion → ClientSentVersion → (Authenticated) → Ready; in Ready reads control frames, hands `UDPTunnel` frames to `udprecv` and everything else to `server.incoming` |
| UDP loop | `udpRecvLoop` (330-376) | ranges over the unbuffered channel `udprecv`; echoes pings and loopback audio with `SendUDP`, forwards voice, and *returns* on an empty, over-limit or unparsable buffer |
| authenticator | `server.handleAuthenticate`, started at line 481 | checks the Authenticate frame, rejects (`RejectAuth`, 231-243) or sets Authenticated and queues the client for the handler |
| handler | `finishAuthenticate` and the message handlers | sends CryptSetup, the channel tree (`sendChannelTree`, 529-574), users, ServerSync, sets Ready and sends `true` on `clientReady`; kicks/bans call `ForceDisconnect`; every failed send (`sendPermissionDenied*`, 280-327) calls `Panicf` |
| UDP reader | the server's socket reader | finds the client by address once it is Ready, sets `udp = true`, sends the datagram on `udprecv` |

They interact through three things: the unbuffered channels `udprecv` and
`clientReady`, the flag `disconnected`, and the connection itself. Any of them
may call `disconnect` (187-211), which tests and sets `disconnected` without
a lock, closes `udprecv`, closes `clientReady` when the state is
ClientSentVersion or Authenticated, and closes the connection.

`src/tlsserver.go` concatenates several packages: the TLS listener setup
(1-88), the mumbleproto UDP packet codec (89-388), the blobstore lock file
(`AcquireLockFile`, 403-461) and the database ban store (465-499).
`src/pkg/database/ban_test.go` holds a test and `freezeToFile` (62-110), which
writes the server's frozen state to a temp file and renames or replaces the
destination.

### Inventory (state, operations, hard behaviour, properties)

* **Connection lifecycle** — state: `state`, `disconnected`, `udprecv`,
  `clientReady`, the connection, `udp`. Operations: the four branches of
  `tlsRecvLoop`, `disconnect`/`Disconnect`/`ForceDisconnect`/`Panic(f)`,
  `RejectAuth`. Hard: unsynchronised disconnects from four goroutines, close
  of nil or closed channels, send on closed channels, unbuffered rendezvous.
  Properties: the readiness hand-off is safe; the receiver never blocks
  forever on `clientReady` and the peer's close is noticed (both violated).
* **UDP loop / SendUDP** — state: the buffer in hand. Hard: returns from the
  range loop leave the unbuffered channel without a receiver.
* **Crypt resync** (577-590) — `lastResync` and wall-clock tests.
* **UDP codec** — pure functions; hard cases are header values, lengths 12/24
  and byte offsets (see hazards).
* **Lock file** — processes racing on O_EXCL create, stale-pid test, rename.
* **Ban store** — one table for all servers; `BanWrite` deletes all of it.
* **Freeze** — temp file write, Stat, Rename/ReplaceFile, with crashes.

## Module ClientConn

`ClientConn.tla` models one client with all five goroutines, the peer at the
other end of the TLS connection, and the UDP reader. Variables:

| variable | code |
|---|---|
| `state` | `client.state` |
| `disconnected` | `client.disconnected` |
| `udprecv`, `clientReady` | the channels: `"nil"` (Go zero value), `"open"`, `"closed"` |
| `connClosed` | `client.conn.Close()` has run |
| `udp` | `client.udp` |
| `wire`, `peerSent`, `peerClosed` | frames from the peer not yet read (on the connection or in `client.reader`'s buffer), how many it sent, its close (EOF) |
| `rpc`, `tunnelBuf` | receiver's program counter and the tunnelled datagram it holds |
| `upc`, `ubuf` | UDP loop's program counter and buffer |
| `apc`, `authMsg` | authenticator's program counter and the frame it was given |
| `authQueued`, `spc` | the authenticated client waiting for the handler; handler's program counter |
| `dpc`, `dbuf`, `dgramsIn` | UDP reader's program counter and datagram; datagrams delivered so far |
| `panic` | the reason the Go runtime panicked (`"none"` while the process lives) |

Each action is one atomic step of one goroutine between two points where
another goroutine can interleave: a read, a channel operation, or a call of
`disconnect`. `disconnect` is split in two steps, the test at line 188
(`CallDisconnect`, which moves the caller's program counter to a
`dc…` point) and the body (`DisconnectBody`), because the flag is not
protected and another goroutine may run between them. Channel operations
follow Go: an unbuffered send is a rendezvous with a waiting receiver
(`RecvTunnel`, `SignalReady`, `UdpListenerDeliver`), a send on or a close of a
closed channel, or a close of a nil one, sets `panic`; after a panic no
action is enabled. `readProtoMessage` reads `client.reader`, a
`bufio.Reader` (line 35): `conn.Close()` in `DisconnectBody` drops the frames
still on the connection but not those the reader has read ahead, so the wire
is cut to a prefix of any length and a read after the close returns the
buffered frames before it fails. `Terminated` lets the model stop when every
goroutine has returned or the receiver is blocked for good at 482
(`ReceiverStuck`). Messages are abstracted to their kind (`Version`,
`Authenticate`, `Other`, `Bad` for an unreadable frame, `UDPTunnel` with a
datagram class), datagrams to the class that decides `udpRecvLoop`'s branch
(`Empty`, `OverLimit`, `Malformed`, `Ping`, `Loopback`, `Voice`).

Code not under `src/` is modelled from the spec (handshake steps 3-5 and the
concurrency section) and marked `spec_modelled` in PROJECT.json:
`HandleAuthenticate`, `SignalReady`, `UdpListenerRecv`, `UdpListenerDeliver`.
Two assumptions about that code matter: the accept path makes `udprecv` but
not `clientReady` (so `clientReady` is nil until line 480), and
`finishAuthenticate` sets Ready and signals only when its sends succeeded.

Abstracted away: frame contents, logging, bandwidth accounting, the blocking
of `server.incoming <- msg` (line 463, taken as non-blocking), the removal of
the client from the server's indexes and `updateCodecVersions`.

### Runs (MC_ClientConn, `Datagrams` = all six classes, `MaxMsgs` = 4, `MaxDgrams` = 2)

Four peer frames are enough for Version, Authenticate, a tunnelled datagram
and one more; two datagrams from the UDP reader let a second delivery meet a
loop that has returned or a closed channel. The state space has 719,382
states.

| run | expect | property | shows |
|---|---|---|---|
| handshake | pass | `SignalDelivered`, `AuthExclusive`, `ReadyChanSafe`, `LifecycleRefined` | the hand-off at 480-492 is safe under all interleavings, and `client.state`/`disconnected` move as the abstract lifecycle `ConnLifecycle` allows |
| ready_wait_ends | violation | `ReadyWaitEnds` | a disconnect in ServerSentVersion (here `handleVersionMessage` on a bad first frame) does not close `clientReady`; line 524 still sets ClientSentVersion, the receiver reads a frame `client.reader` had buffered, makes a fresh `clientReady` at 480 and blocks at 482 forever, against the comment at 195-202 |
| double_close_udprecv | violation | `NoDoubleCloseUdprecv` | two disconnects race past line 188 and close `udprecv` twice |
| tunnel_send_closed | violation | `NoTunnelSendOnClosed` | line 460 sends on a `udprecv` another goroutine closed |
| close_nil_ready | violation | `NoCloseOfNilReady` | a disconnect in ClientSentVersion before line 480 closes nil `clientReady` (e.g. EOF after Version) |
| peer_close_noticed | violation | `PeerCloseNoticed` | after `udpRecvLoop` returned on a bad buffer the receiver blocks at 460 forever |

Each property of a passing run has a mutant in PROJECT.json: a plausible bug
in the code it is about (a non-blocking wait on `clientReady`, not waiting for
`handleAuthenticate`, closing `clientReady` also in Ready, a
`handleAuthenticate` that forgets the Authenticated state) for which TLC
finds the property violated.

**Fairness.** Every goroutine is weakly fair (`WF_vars` of its disjunction of
actions): Go's scheduler eventually runs a runnable goroutine. The peer, kicks
and arriving datagrams are environment and get no fairness. Both liveness
properties of this module are violated even so: the counterexamples are
stuck states, not unfair schedules.

## Proofs (ClientConnProofs)

For every value of the constants (under `ConstAssumption`):

* `TypeCorrect`: `Spec => []TypeOK`, from one lemma per action. Reads use
  `HeadTailProperties` and `EmptySeq` from SequenceTheorems.
* `HandOffSafe`: `Spec => [](SignalDelivered /\ AuthExclusive /\ ReadyChanSafe)`.
  The three properties are not inductive on their own. The inductive
  invariant `IInv` adds `HandOff`: a closed `clientReady` implies the client
  is disconnected and `udprecv` closed (disconnect closes them in that order),
  so a later disconnect panics on `udprecv` before reaching `clientReady`; a
  disconnect that did not panic closed the connection; the handler signals only a Ready client whose
  `clientReady` is open and whose authenticator has finished; a running
  authenticator implies ClientSentVersion; before the client's Version and
  while the receiver is at the top of ClientSentVersion, disconnected or
  not, no authentication is in progress. A read after the close may return a
  buffered frame, so the invariant cannot lean on reads failing after a
  disconnect. `DisconnectType` shows the cut wire is still a sequence of
  frames (`SubSeqProperties`). `IInv` was checked with TLC on the full state space before it
  was proved: `IInvInit`, one preservation lemma per action, and `IInvNext`.

The module's liveness properties are violated runs, so there is nothing
further to prove about them.

## Abstract lifecycle and refinement (ConnLifecycle, ClientConnRefinement)

`ConnLifecycle.tla` is the spec's view of a client: one variable `lstate`
that advances Connected → ServerSentVersion → ClientSentVersion →
Authenticated → Ready one state at a time, and can go to Disconnected from
any state but Disconnected. `ClientConn` instantiates it with
`lstate <- IF disconnected THEN "Disconnected" ELSE state` and states
`LifecycleRefined == Lifecycle!Spec`. The run `handshake` checks it on the
full state space. The mutant drops the state change of `handleAuthenticate`,
so `finishAuthenticate` jumps from ClientSentVersion to Ready.

`ClientConnRefinement` proves `LifecycleImplemented` (`Spec => LifecycleRefined`)
for every value of the constants. The proof has three parts:

* `RefineNext`: every `ClientConn` step is a lifecycle step or a stutter of
  `lstate`. There is one lemma per action that moves `state`. Every
  `DisconnectBody` sets the flag, so it is a `Disconnect` step, or a stutter
  when the flag was already set.
* The invariant that step needs is `RInv == IInv /\ AuthQueuedState`. While
  the client is queued for `finishAuthenticate`, its state is Authenticated:
  the receiver is blocked at 482 and `handleAuthenticate` has finished, so
  nothing else moves the state. Without `AuthQueuedState`, the step of
  `finishAuthenticate` that sets Ready could be a jump.
* `AuthQueuedState` was checked with TLC (680,518 states) before it was
  proved.

## Module UdpCodec (src/tlsserver.go 89-388, udpRecvLoop 344-374)

Datagrams are sequences of byte values. Each parser is an operator over the
`packetdata` cursor `[buf, off, ok]`, and so are the four `LegacyData` /
`ProtobufData` encoders. The module has no `RECURSIVE` operator, so TLAPS can
reason about it:

* the TOC loop of the CELT/Speex parser is a recursive function `it[j]` over
  iterations. `Len(c.buf) + 1` iterations reach the loop's break, because each
  one reads a byte or ends the loop.
* `LE` and `LEBytes` are `binary.LittleEndian.Uint64` and `AppendUint64`
  written out for their eight bytes.
* the CELT/Speex TOC chains a client sends are the constant `CeltTocs`.
  `MC_UdpCodec` builds them from frame lists with the spec's framing: each
  frame behind a length byte, and the continuation bit on all but the last.

The constants have two named assumptions. `FieldAssumption` says targets fit
the 5-bit field, codecs are the legacy ones, and sessions, frame numbers and
timestamps take the one- and two-byte varint forms. `BytesAssumption` says
payloads, TOC chains and raw datagrams are byte strings, and an Opus payload
is shorter than 128 bytes.
`mumbleproto` is not under `src/`. Its messages are abstracted to a tag byte
(`PbPing`, `PbAudio`) followed by one byte per field, and these helpers are
`spec_modelled`.

The state is one exchange:

1. A client sends a packet, chosen from `Packets`. It may be a well-formed
   packet built by the spec's framing (section 4.b) or any raw datagram of up
   to three bytes.
2. `udpRecvLoop` parses it. It then drops it (`UdpRecvDrop`), echoes a ping or
   loopback voice (`UdpRecvEcho`), or broadcasts voice (`UdpRecvBroadcast`).
3. The client parses the echo (`ClientRecv`).

`MC_UdpCodec` uses targets {0, 1, 31}. Target 1 makes the CELT-alpha header
byte 1 appear; 31 is loopback. It uses:

* two sessions;
* a one-byte and a two-byte varint frame counter;
* timestamps 0 and 5;
* Opus payloads of up to two bytes;
* CELT chains of up to two frames, which exercise the continuation bit;
* raw datagrams over the bytes that select the parser's branches.

The run `codec_ping_echo` (pass, 1,386 states) checks `PingEcho`: a ping is
echoed and parsed back as it was, in both formats. `UdpCodecProofs` proves
it for every choice of the constants (see below).

The module also states five properties that TLC finds violated. Each has a
cfg of its own, but none is one of the runs recorded in PROJECT.json:

| cfg | property | what TLC finds |
|---|---|---|
| UdpCodec_LegacyTargetRecovered.cfg | `LegacyTargetRecovered` | the target is read from the session byte (306): voice for target 0 from session 1 goes to target 1. The property also fails when header byte 1 is taken for a protobuf ping (235) |
| UdpCodec_PayloadWithinDatagram.cfg | `PayloadWithinDatagram` | the Opus payload slice at 352 adds the payload size to an offset that already counts it, so it reads past the datagram into the buffer's stale bytes, or panics past its capacity |
| UdpCodec_LegacyRoundTrip.cfg | `LegacyRoundTrip` | `AudioPacket.LegacyData` drops the target from the header (171-181) |
| UdpCodec_ProtobufRoundTrip.cfg | `ProtobufRoundTrip` | `AudioPacket.ProtobufData` writes the ping header (206) |
| UdpCodec_ExtendedPingRecognised.cfg | `ExtendedPingRecognised` | `parsePingPacketLegacy` accepts only 12 bytes, although its caller offers 24 (242, 275) |

The mutant of `PingEcho` drops the `<< 5` of the legacy ping header.

## Module LockFile (src/tlsserver.go 404-461)

Several processes run `AcquireLockFile` once each. Each process has a `pc`,
and inodes are named by the process that created them. `path` is the inode
the lock path names, and `written[i]` says whether inode i holds its
creator's pid. There is one action per step:

* the O_EXCL create;
* the pid write;
* the read, Atoi and kill(pid, 0) test;
* the temp-file write;
* the rename;
* `ReleaseLockFile`.

A process may crash anywhere. kill(pid, 0) finds the pid of a creator
that has not exited; once the creator has exited, its pid may have been
given to another process (the restarted server itself, pid 1 in a
container), so `CheckLock` may find it or not. `MC_LockFile` has
three processes, symmetric. That is enough for one to die holding the lock
while two race to replace it.

* `lockfile_mutual_exclusion` (violation): two processes find the same stale
  lock, both rename over it, and both return nil.

Because of pid reuse, a process can be refused with ErrLocked while nobody
holds the lock: a stale lock file is not always replaced, and no property
claims it is.

`LockFileProofs` proves `LockInvariant` (`Spec => []IInv`) for any set of
processes, from the hypothesis `NoFileFresh` (the "no file" value is no
process) and whatever kill finds. `IInv` adds `NamedCreator`:
the lock path names a process that is writing its pid, holds the lock, or
stopped there, and a written lock file belongs to a holder or a crashed
process.

## Module BanStore (src/tlsserver.go 465-499)

There is one `bans` table for all virtual servers. `BanWrite(s)` deletes with
the condition `"TRUE"` and inserts `s`'s list. `BanRead(s)` returns the rows
of `s` with `LIMIT` and `OFFSET` applied. `banstore_read_your_writes` (violation) shows
that after server A writes, B's bans are gone. The `Count` result
is not modelled.

## Module FreezeToFile (src/pkg/database/ban_test.go 62-110)

There is one action per step of `freezeToFile`, each with its
`if err != nil { return err }`:

1. close the freeze log;
2. `Freeze()`;
3. `CreateTemp`;
4. marshal and write;
5. `Sync`;
6. `Close`, `Stat`, then `Rename` or `ReplaceFile`.

Between calls, the server state changes (`Mutate`) and a fresh log is opened
(`OpenLog`).

The fault model:

* every I/O call may fail;
* `Crash` may happen in any state. It turns every unsynced snapshot into a
  partial file and resets the volatile state (pc, log, result). It keeps
  renames and synced contents.

`ReplaceFile` is not under `src/`. It is taken as its documented atomic swap
(temp file becomes main.fz, the old main.fz becomes backup.fz). A rename is
taken as durable. `MC_FreezeToFile` allows two state versions and three
calls, so a call can fail or crash after a success, and a later call can
replace it (3,276 states).

| run | expect | property | shows |
|---|---|---|---|
| freeze_atomic | pass | `MainComplete`, `SnapshotDurable`, `StoreRefined` | main.fz is always a whole snapshot (mutant: `Sync` left out); a snapshot reported saved survives failures and crashes (mutant: `ReplaceFile` arguments swapped); main.fz and backup.fz change only as the abstract store `FreezeStore` allows (mutant: the previous call's snapshot reused instead of calling `Freeze()`) |
| freeze_fails_only_on_fault | violation | `FailsOnlyOnFault` | after one failed `Close` of the log, `freezelog` stays set; every later call fails with ErrClosed |

`FreezeToFileProofs` proves `FreezeAtomic`, which is
`Spec => [](MainComplete /\ SnapshotDurable)`, for every bound. The
inductive invariant adds three conjuncts:

* `MainSynced`: main.fz is a synced snapshot no newer than the state.
* `TempFile`: during a call, the temp file is the call's own inode, newer
  than main. After the write it holds the frozen snapshot, and after the sync
  it is durable.
* `Versioned`: the snapshot of a running call is the current state.

`Crash` keeps main.fz, because main.fz is durable. `Install` keeps it
complete, because the temp file is durable by the time it is renamed.
`SnapshotDurableHolds` restates the second half of `FreezeAtomic` on its
own.

### The abstract snapshot store (FreezeStore, FreezeToFileRefinement)

`FreezeStore.tla` is the spec's promise about snapshots (section 3,
Freezing; invariant 7; the layout's `backup.fz`). It has three variables:

* `ver`, the state version;
* `saved`, the version `main.fz` holds (0 for none);
* `prev`, the version `backup.fz` holds.

It has two actions. `Change` advances the state. `Save` makes `saved` the
current version and `prev` the old `saved`, in one step.

`FreezeToFile` instantiates it with
`saved <- Version(main), prev <- Version(backup)` and states
`StoreRefined == Store!Spec`. The `freeze_atomic` run checks it.

`FreezeToFileRefinement` proves `FreezeImplementsStore`
(`Spec => StoreRefined`) for every bound. The proof argument:

* Every step but `Install`'s success and `Mutate` is a stutter of the store:
  it moves no name and keeps what both names hold.
* The invariant it needs is `RInv == IInv /\ BackupSynced`. `BackupSynced`
  says backup.fz is an older inode than main.fz, a whole snapshot, and
  synced.
* Because of `BackupSynced`, writes to the temp file (a newer inode) and
  crashes (which keep synced contents) cannot touch what backup.fz holds.
* `Rename` and `ReplaceFile` are each one `Save`: the temp file holds
  `Snap(snap)`, and `snap = ver` during a call. On first launch, no
  backup.fz exists because no main.fz does.
* TLC checked `RInv` on the run's 3,276 states before it was proved.

## Module CryptResync (part_000 577-591)

`cryptResync` compares two wall-clock ages with 5 seconds. The model keeps
the ages the code computes: `goodAge` (since `LastGoodTime`) and `reqAge`
(since `lastResync`). Both saturate at 6, because only `> 5` is ever asked.
Actions:

* `Tick` advances both ages.
* `ClockStep` jumps the wall clock by up to `MaxStep` seconds either way, at
  most `MaxSteps` times. This is NTP or an operator, and it may make the ages
  negative.
* `GoodPacket` and `Desync` are the decrypt outcomes.
* `BadPacket` is `cryptResync` itself. Its failed send `Panicf`s.
* `Resynced` is the client answering.

`MC_CryptResync` uses steps of up to 7 seconds, two of them.

**Fairness**, and why the code justifies it:

* `Tick` is weakly fair because time passes.
* `BadPacket` is weakly fair because a desynchronised client keeps sending
  voice and UDP pings every few seconds, and each failed decrypt calls
  `cryptResync`.
* `Resynced` is weakly fair because a client that is sent CryptSetup
  answers it.

The decrypt outcomes and the clock steps get no fairness.

`crypt_resync` (pass) checks `ResyncEventually`: a desynchronised client is
eventually back in sync, or disconnected. The mutant stamps `lastResync` on
every call once the crypt has been bad for 5 seconds. The rate limit then
never expires, and the property fails.

## What is proved, and what is only model-checked

Six modules hold proofs, and tlapm checks all of them:

* `ClientConnProofs`: `TypeCorrect`, `HandOffSafe`, and its corollaries
  `AuthExclusiveHolds` and `ReadyChanSafeHolds`.
* `ClientConnRefinement`: `RefinementInvariant` and `LifecycleImplemented`.
* `LockFileProofs`: `LockInvariant`.
* `FreezeToFileProofs`: `FreezeAtomic` and `SnapshotDurableHolds`.
* `FreezeToFileRefinement`: `FreezeImplementsStore`.
* `UdpCodecProofs`: `PingEchoHolds` (`Spec => []PingEcho`).

### How PingEcho is proved (UdpCodecProofs)

`PingEcho` is not inductive. The invariant `IInv` adds four facts:

* a legacy client's datagram in `udprecv` is a legacy datagram
  (`LegacyDgram`). That is a byte string, or a protobuf ping of at most four
  elements;
* a packet parsed as legacy came from a legacy client;
* `PingOK`: a parsed ping is a well-formed `Ping`. A legacy one is extended,
  and its timestamp is a uint64;
* while the reply is in flight, it is `Data(res.pkt, res.legacy)`.

TLC checked `IInv` on the run's 1,386 states before it was proved, with the
uint64 bound lowered to what TLC's integers hold.

The steps, one lemma each:

* `LegacyEncode`: everything a legacy client may send is a legacy datagram.
  The Opus size varint stays below 0x4000. `OpusFlag` writes the code's
  `flag |= 0x2000` as an addition, which is the same because the payload
  length is below 128 (`BytesAssumption`).
* `ParseOK`: `ParseUDPPacket` reports a legacy packet only in legacy mode.
  The audio parsers never yield a ping. A legacy ping comes from a 12-byte
  body of bytes, so `LEBound` makes its timestamp a uint64.
* `EchoOK`: the reply parses back as the same ping:
  * `EchoProtobuf`: `UnmarshalPing` inverts `MarshalPing`, and header 1 is
    parsed as protobuf in either mode;
  * `EchoLegacy`: the 13-byte legacy reply has kind 1 in its top three bits
    and four zero bytes. `LERoundTrip` gives `LE(LEBytes(v)) = v` for every
    uint64 `v`, from the eight-step identity `v = v % 256 + 256 * (v \div 256)`.

One fix to the model came out of the proof. `Data`'s arms overlapped
(`ping /\ legacy` and `ping`). TLC takes the first true arm, but in TLA+ the
value of overlapping arms is left open. The arms are now disjoint, as in the
code's method dispatch.

Each rests on the named assumptions of its constants. The following are only
model-checked:

* The liveness property `ResyncEventually`. TLAPS does not reason about
  fairness or ENABLED.
* The TOC loop's result (`TocLoop`). The proofs never need it, because the
  audio parsers are shown to yield no ping whatever the loop returns. What a
  recursive function computes for every input would need induction over
  data, which the installed provers cannot instantiate.
* CryptResync. Its only promise in the spec, that a resync is eventually
  requested, is a liveness property.
* The violated properties. They are findings, and there is nothing to
  prove.

## Not modelled

* **TLS listener setup** (`NewTLSListener`, tlsserver.go 1-88): configuration
  and I/O wiring, with no state machine.
* **Client accessors, logging and `sendMessage` framing**: getters and
  formatting. The model keeps only whether a send succeeds.
* **`TestBanList`**: test code.
* **gorm's `Count`** and database errors in
  `BanRead`/`BanWrite`.
* **Field-level protobuf encoding**: mumbleproto is not under `src/`.
* **Directory fsync after a rename**, in the freeze path.
* **The server's side of a forwarded frame** (`server.incoming`, line 463) and
  the unsynchronised `client.udp` flag (459). These are hazards without a
  property (see PROJECT.json).
