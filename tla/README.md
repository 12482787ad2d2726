# A verification of Oxide VPN

Oxide VPN is a small client/server VPN in Rust (`src/src/`). A server keeps one
TCP connection per client, reads AES-GCM encrypted packets from it, echoes data,
hands out configurations, stores route updates and evicts clients that fall
silent. This directory holds TLA+ models of it, the configurations with which
TLC checks them, and theorems that the TLA+ proof system checks.

1. [The system](#1-the-system)
2. [Modules](#2-modules)
3. [VpnServer and ClientService](#3-vpnserver-and-clientservice)
4. [VpnSession](#4-vpnsession)
5. [PacketCodec](#5-packetcodec)
6. [ConnectionManager](#6-connectionmanager)
7. [KeepaliveTiming and Programs](#7-keepalivetiming-and-programs)
8. [Theorems](#8-theorems)
9. [Where the code and its comments or examples differ](#9-where-the-code-and-its-comments-or-examples-differ)
10. [Not modelled](#10-not-modelled)
11. [Plan](#11-plan)
12. [Running the checks](#12-running-the-checks)

## 1. The system

| Component | Source | State | Operations |
|---|---|---|---|
| VpnService | `vpn/vpn_service.rs` | thread handles, `shutdown_flag`, `routes`, `client_configs` | `start`, `shutdown`, the keepalive monitor (`check_client_keepalive`) |
| VpnWorker | `vpn/vpn_worker.rs` | shared references to the server, handler, routes, configs | `main_loop`: one frame of each client per pass; handlers of data, keepalive, config, routes, disconnect |
| TcpServer | `network/tcp_server.rs` | `clients` (address to stream and `last_seen`), its own `shutdown_flag`, listener handle | accept loop, `service_read_packet`, `write_packet`, `get_client_ids`, `get_stale_clients`, `update_client_timestamp`, `remove_client`, `server_shutdown` |
| VpnClient | `vpn/vpn_client.rs` | `connected`, `config`, keepalive thread, its (never set) `shutdown_flag` | `new` (handshake), `send_packet`, `disconnect`, `Drop` |
| TcpClient | `network/tcp_client.rs` | the socket, 45 s timeouts, TCP_NODELAY | `write_packet` (prefix, then body), `client_read_packet` |
| Packet codec | `protocol/packet.rs`, `protocol/handler.rs`, `crypto/encryption.rs` | the key | `to_bytes`, `from_bytes`, `pack`, `unpack`, `encrypt`, `decrypt` |
| ConnectionManager | `network/connection.rs` | `connections` (address to statistics), a TcpServer | its own loop `handle_connections` with handlers, the cleanup thread, `remove_connection`, `Drop` |
| Programs | `main.rs`, `examples/*.rs` | none | start a service, run clients one after the other, shut down |
| Errors | `error.rs` | none | the kinds of error that steer the worker |
| Settings, key exchange | `config/settings.rs`, `crypto/key_exchange.rs` | none | see section 10 |

**Interaction.** The server process has four threads. `main` starts the other
three and joins them. The *listener* accepts connections and inserts them into
`clients`. The *monitor* lists clients whose `last_seen` is too old and removes
them. The *worker* takes a snapshot of the addresses, reads one frame of each
client and answers it. They share `Arc<Mutex<TcpServer>>` (the server mutex), the
inner mutex of `clients`, the mutexes of the tables, and two flags. The listener
uses only the inner mutex. A client has two threads, the caller's and the
keepalive thread, that write to clones of one socket without a lock.

`ConnectionManager` is a second server on top of `TcpServer`, with one thread for the
clients and one for the cleanup, and a map of its own that is kept beside
`TcpServer`'s. The programs put a service and its clients into one process, and one
thread drives them all.

**What is hard.** Almost everything the worker does consists of several critical
sections, and the clients are known by address only: a client can be evicted, replaced by a
new connection from the same address, or reset between the read of a frame and
its answer. The stale list is made in one critical section and used in others.
`handle_disconnect` clears three maps one after the other. Shutdown joins threads
while they use the lock that the join is under. The server's socket does not block but
is read with `read_exact` and written with `write_all`, so frames are torn; the
client's two threads interleave their frames; a request that timed out leaves
its answer in the stream for the next one. `disconnect` joins a thread that
is never told to stop and depends on what the server and the clock do. Three intervals and two
timeouts in four files have to fit together, and lengths are limited by constants in
four files that have to agree. `PROJECT.json` lists each of these with its line
and the properties that watch it.

**What makes each part correct.**

- *Server:* answers go to the client that asked and in order; a client leaves the
  map only for a reason; acknowledged changes are in the tables, acknowledged
  disconnects leave nothing; nobody starves; shutdown returns and leaves nothing running.
- *Session:* requests get their own answers; calls, `disconnect` and the keepalive
  thread end; a session fails only when something outside it went wrong.
- *Codec:* what one end packs the other unpacks; the limits agree; nothing a client packs panics.
- *ConnectionManager:* the same promise to clients as the server's; its two maps do not
  drift apart for ever; who is heard of and falls silent is removed.
- *Timing:* a live client is never evicted, a dead one in time; when `disconnect` returns the
  server has let go. It returns in time, and a program ends, unless its Disconnect was lost on
  the way or could not be acknowledged: then the keepalives of the thread that `disconnect`
  joins keep the client registered, and `disconnect` does not return until something else breaks
  the connection. Nothing in the code bounds that.

## 2. Modules

| Module | Models | Checked by |
|---|---|---|
| `ClientService` | what a server promises its clients, abstractly | implemented by the next two |
| `VpnServer` | service, worker, TCP server: threads, maps, locks, many clients; whole frames | `MCVpnServer`, four runs; `VpnServerProofs`, `VpnServerTableProofs`, `VpnServerServiceProofs` |
| `ConnectionManager` | the other server: loop, cleanup thread, two maps, dropped clones | one run, directly; `ConnectionManagerProofs` |
| `VpnSession` | one client with its two threads, the byte streams, the server's end | three runs, directly; `VpnSessionProofs` |
| `PacketCodec` | contents of packets and answers, one request after the other | `MCPacketCodec`, one run; `PacketCodecProofs` |
| `KeepaliveTiming` | the service and its clients with a clock | two runs, directly; `KeepaliveTimingProofs` |
| `Programs` | `main.rs` and the examples; extends `KeepaliveTiming` | one run, directly; `ProgramsProofs` |

They cut the system along different lines. `VpnServer` and `ConnectionManager` take a frame as a
unit that has been read or not, and look at threads and clients. `VpnSession`
takes one client and looks at how frames are cut up and mixed on the stream.
`PacketCodec` takes streams and threads to work and looks at what is inside.
`KeepaliveTiming` takes all of these to work and looks at how long they take. What
one module assumes of the next is in its actions as a possible outcome:
`VpnServer` lets any frame be `partial` (its body had not arrived), `oversize` or
`garbage` because `VpnSession` shows how such frames come about, both let a
write fail, and in `KeepaliveTiming` a read may lose frames, or cost the sender its registration.

Operators with a comment "Mutant of X" are not part of a model. Each is X as a
plausible bug would have it, and putting it in X's place must break the property
that `PROJECT.json` pairs it with: it shows that the property can fail.

## 3. VpnServer and ClientService

**State.** A connection is a number, given in the order in which the kernel
establishes it; `addr` gives its peer's address, which is all the code knows.
`frames[c]` are the frames that have arrived and `rd[c]` how many were read.
`clients`, `routes`, `configs` are the maps of the code; a route entry is
represented by the frame that brought it, a config by the connection it was made
for. `stale` holds the connections whose `last_seen` is older than the timeout:
time is that one bit per connection, set by `Elapse` at any moment and reset by
the code's updates of `last_seen`. `mpc`, `lpc`, `kpc`, `wpc` are the threads'
control, `todo`, `batch`, `cur`, `req` their local variables. `out` and `listed`
are histories for the properties.

**Steps.** One step of a thread is what it does under one acquisition of a
mutex, or one test of a flag. The inner mutex of `clients`, and those of the handler
and the configs, are released within the step; the server mutex is the variable
`serverLock`, because two threads hold it across several steps: the monitor
during `check_client_keepalive`, and `main` while `server_shutdown` joins the
listener.

| Code | Actions |
|---|---|
| `VpnService::start` | `StartListener`, `StartMonitor`, `StartWorker` |
| `VpnService::shutdown`, `server_shutdown` | `Shutdown`, `JoinWorker`, `JoinMonitor`, `StopServer`, `JoinListener` |
| `start_accept_loop` | `ListenerCheck`, `Accept`, `Insert` |
| monitor thread, `check_client_keepalive` | `MonitorCheck`, `ListStale`, `Evict`, `EndCheck` |
| `main_loop` | `WorkerCheck`, `Snapshot`, `Visit`, `Remove` |
| handlers | `Touch` (keepalive), `GetConfig`, `UpdateRoutes`, `Reply`, `DisconnectClient`, `DropRoutes`, `DropConfig` |
| peers, kernel, clock | `Connect`, `Send`, `PeerClose`, `PeerReset`, `Elapse` |

A peer may connect again from an address once it has closed its former
connection. `Reply` may fail with an Io error at any time (the client's window
may be full) and must fail after a reset.

**Runs** (`MCVpnServer_*.cfg`).

| Run | Bounds | Properties |
|---|---|---|
| `server_traffic` | 1 address, 2 connections, 1 frame of any of the 10 kinds on each, close and reset | `TypeOK`, `EvictsOnlyUnrefreshed`, `RemovedForCause`, `NothingAfterShutdown`, `AnswersItsClients` |
| `server_updates` | 1 address, 2 connections, 2 frames (config, routes, disconnect) on each | `RepliesInOrder`, `AckedRoutesInstalled`, `DisconnectLeavesNothing` |
| `server_progress` | 2 addresses, 2 connections that stay, data, fair | `ShutdownCompletes`, `FramesAreRead`, `ConnectionsAccepted`, `ServesClients` |
| `server_eviction` | 2 addresses, 2 connections of one or of both, at most one Disconnect on each, peers that close, fair | `NoReplyAstray`, `GonePeersEvicted` |

*Why the bounds are enough.* The code keys everything by address and never looks
at two entries together, so what can go wrong between two connections of one
address needs one address and two connections, and what can go wrong between
clients needs two addresses. `server_eviction` has both cases: its two connections come from one
address or from two, so an answer could go astray to another client as well as to a successor. A Disconnect is answered
like any frame, and its acknowledgment may fail, which leaves the client to the monitor. Two frames on a connection are needed for an update
and a disconnect, or two updates, of the same client. The safety properties are also proved
without any bounds (section 8).

*What they show.* The monitor can evict a connection that it never listed: one
that replaced the stale one between the list and the removal.
`EvictsOnlyUnrefreshed` says that this is the only way, and
that a frame which refreshes `last_seen` cannot be overtaken by the eviction
(both are under the server mutex). `RemovedForCause` covers all removals, the worker's as well. A
connection that replaced another may go in its place only while the removal of the other is pending: the
monitor still holds the address on its list (`ListedBefore`), or the worker is about to remove the address for an
earlier connection's frame or because it found nobody there (`DiscardedBefore`). Otherwise it takes a fatal frame
or a Disconnect of its own (`EndsItself`). Likewise an answer may reach a later connection
of the same address (`NoReplyAstray`), never another client. `GonePeersEvicted`
rests on the monitor alone, since `peek` at the end of a stream is taken for
"nothing to read".

**Refinement.** `ClientService` says what is left for clients when threads, locks, tables
and the accept queue are taken away: connections are admitted in order and served
until they are dismissed, once; requests are taken from served connections, one at a
time and in order, and each is answered at most once, to an address that is the
asker's, before the next is taken. `AnswersItsClients` says that `VpnServer` implements it
under the mapping `Service`: a connection is admitted when `Insert` puts it
into the map (`Admitted` leaves out the one in the listener's hands), served while
`Registered`, and a request is in hand from `Visit` until `Reply` or an error.
`ServesClients` adds that nothing stays in hand for ever (`ClientService!FairSpec`),
which needs the fairness below, the worker's strong fairness above all. What the mapping says and
the invariants do not: an evicted connection is never served again, and all
of the worker's handlers give the request up before the next `Visit`. `AnswersItsClients` is also a
theorem (section 8); the fairness that `ServesClients` adds is left to TLC.

**Fairness.** Every thread is scheduled (weak fairness). The worker gets strong
fairness because it competes for the server mutex with the monitor, and the
monitor sleeps `keepalive_interval` seconds without that mutex after every check.
`main` is fair inside `start` and inside `shutdown`; nothing makes it call
`shutdown`. Peers owe nothing. `server_eviction` also assumes that a clock which is
not reset runs out (`TimedSpec`). `server_progress` does without (`FairSpec`): otherwise a
client that is never read would be evicted in the end, and `FramesAreRead` could not tell.

**Locks and joins.** `shutdown` joins worker and monitor before it takes the server mutex, so the
listener is joined with the mutex held, but the listener never takes that mutex.
TLC checks that no state but the end deadlocks, and `ShutdownCompletes` that the end
is reached.

## 4. VpnSession

**State.** A stream is a sequence of units: a length prefix is one unit, a body
`BodyLen` units. `up` is written and under way, `inbox` has arrived at the server,
`down` at the client. `link` is the connection as the client's kernel knows it.
`mpc` and `kpc` are the client's two threads, `pend` is the frame that the server's worker
has to answer, `ended` why the server dropped the client. `late`, `torn`, `mixed` are histories: a
timeout, a prefix read before its body, one thread's frame begun inside
the other's. A unit of ciphertext that is taken for a length prefix has any
value, since that is what the first bytes of a ciphertext may be.

| Code | Actions |
|---|---|
| `VpnClient::new`, `send_packet`, `disconnect`, `Drop` | `Connect`, `Request`, `Drop`, `Join` |
| `TcpClient::write_packet` | `WritePrefix`, `WriteBody` (`KeepalivePrefix`, `KeepaliveBody` in the other thread) |
| `client_read_packet` | `ReadPrefix`, `ReadBody`, `ReadFails` |
| keepalive thread | `KeepalivePrefix`, `KeepaliveBody`, `Wake` |
| `service_read_packet`, `write_packet`, `handle_disconnect` | `ServerRead`, `ServerReply` |
| the monitor; TCP | `Evict`; `Deliver`, `ResetArrives` |

Blocking writes fail once the buffers are full for 45 s, blocking reads when
nothing comes for 45 s; both lose what was transferred of the frame. The server does not
block: it loses what `read_exact` has taken when the rest is not there, and writes
as much of an answer as fits.

**Runs** (`VpnSession_*.cfg`).

| Run | Bounds | Properties |
|---|---|---|
| `session_stream` | bodies of 2 units, buffers of 6, 3 requests | `AnswersMatch`, `ExpelledOnlyAfterRace`, `FailsOnlyAfterRace` |
| `session_backlog` | bodies of 1, buffers of 2, 4 requests, fair | `TypeOK`, `AnswersInOrder`, `CallsReturn`, `DisconnectReturns`, `KeepaliveEnds` |
| `session_requests` | bodies of 1, buffers of 6, 2 requests, no evictions | `RequestsSucceed`: violated, section 9 |

The handshake is one of the requests. Bodies of two units can be torn within the body as well as
after the prefix; buffers of two units hold one frame, so that the next write is
cut off or fails; four requests let answers fall behind by several.

*What they show.* `AnswersMatch` and `AnswersInOrder` together: without a timeout
a request returns its own answer; after one, answers may lag behind for the rest of the
session, but each is returned once and in order. A request of an established
session fails only after a timeout, an eviction, or one of two races that the
code has (`FailsOnlyAfterRace`): the torn read of section 9, and two threads'
frames written into one another. `DisconnectReturns` has the same races in it:
`disconnect` joins a thread that nobody tells to stop, and which ends only when
the server has closed the connection and a write fails.

**Fairness.** The network delivers, the server's worker runs, the client's threads
run, and the timeouts and the keepalive's sleep run out. Nothing makes the
application call anything, and nothing makes the monitor evict.

## 5. PacketCodec

The bytes of packets, configs and routes are modelled as they are (`ToBytes`,
`FromBytes`, `Unpacked`, `ParseRoutes`, `SerializeConfig`, `ConfigFromBytes`) and
so are the length limits (`ReadFrame`). Encryption is taken at its promise: a
ciphertext opens under the key that sealed it, gives back the plaintext and is 28
bytes longer. Under that promise whoever packs a frame is a holder of the key running
`pack`, which is why plaintexts that `pack` cannot make do not occur in `Spec`;
`Unpacked` covers them all the same, including the 8 and 9 bytes at which
`unpack` panics.

The state machine is one client and its exchanges: `Handshake`, `SendPacket`, one
action for each of the worker's handlers and one for unreadable frames, `FinishHandshake`,
`Return`. The keys of the two ends may differ. The fields of a packet are public
in the code, so `Packets` has control types where they do not belong and data
packets without one.

| Run | Bounds | Properties |
|---|---|---|
| `codec` | 2 keys, 2 initial configs, 16 packets: every type, payloads of 0, 1, 65497 and 65498 bytes, around multiples of 16 | `AnswersUnderstood`, `DroppedIffUnacceptable`, `NeverPanics`, `RoutesAsSent`, `ConfigAgreed` |

65497 is the longest payload that fits: 65535 less 10 bytes of header and 28 of
encryption. The properties compare what arrives with a statement of its own of what is
acceptable and what is expected (`Acceptable`, `Expected`, `Encodes`), not with the codec's operators.
Numbers are u32 and their bytes are written by division, in range for the values that occur
(route metrics stay below 2^31, where TLC's integers end).

## 6. ConnectionManager

`ConnectionManager` is exported and used by nothing in the repository, but it is a
complete server. Its loop reads and answers clients as `VpnWorker` does,
with the same outcomes, but calls `TcpServer` without a mutex around it.
It keeps `connections`, statistics by address, and
the cleanup thread looks for stale entries there, not in `TcpServer.clients`.

**State and steps.** `clients` and the connections are as in `VpnServer`; `entries` are the
addresses that have statistics and `stale` those of them whose `last_seen` is 90 s
ago. A step is one critical section. The cleanup holds the mutex of `connections`
for a scan (`scanning`) and takes the inner mutex of `clients` once per removal.
`remove_connection` (`DropEntry`, `DropClient`) takes the two one after the other, as does
`Drop` of a clone (`BeginDrop` to `EndDrop`), which removes every client of
the server that the clones share. The listener's work is one step here
(`Arrive`), its separate steps being in `VpnServer`. A frame that is reset with its connection
is one that is not read any more, and a write may always fail. Of the statistics only their presence and age is
modelled. The counters steer nothing; every frame adds to the packets sent as well as to
those received, and `update_connection_stats` is passed the bytes received where it
expects those sent.

**Run** `connection_manager`: one address, two successive connections, a frame of any kind on each,
one clone dropped at any time, fair. One address suffices because nothing looks at
two entries together; two connections are needed for statistics that outlive theirs.

| Property | What it shows |
|---|---|
| `RemovedForCause` | the statistics that expire may be those of an earlier connection, and then the new one goes with them (`FellSilent`); a client of an address that was never heard of is never evicted by the cleanup. The loop removes a client for a frame of its own (`EndsItself`), or because it took its address while the loop was removing what was there (`DiscardedBefore`) |
| `SpokenPeersEvicted` | so a peer that has gone is evicted if there are statistics of it: the counterpart of `GonePeersEvicted`, which needs no such condition |
| `OrphansCleaned` | a frame that is being handled while its client is removed inserts statistics again; the cleanup removes them |
| `ServesClients` | the promise of `ClientService` is kept, drops and cleanups included |

**Fairness.** The loop and a drop that has begun get strong fairness because they
wait for the mutex of `connections`, which the cleanup leaves free for 30 s after
each scan. A clock that is not reset runs out. Nothing makes a clone be dropped.

## 7. KeepaliveTiming and Programs

**State.** The clock advances by `Tick`, in units of `Unit` seconds. Every thread that
sleeps or waits has a clock of its own (`mslept`, `slept`, `lasts`), and so has `last_seen` (`age`)
and whatever waits for the server (`waited`). What a thread does takes no time, but
it may come up to `Lag` units late, and so may a frame: `Urgent` stops
`Tick` when somebody's time is up. Durations are compared after rounding to units, so
`StaleSets` lets a connection at exactly the timeout be listed or not.

| Code | Actions |
|---|---|
| `VpnService::start`, `shutdown` | `Start`, `Shutdown` |
| listener, worker, monitor | `Accept`, `ServerRead`, `MonitorWakes` |
| `VpnClient::new`, `send_packet`, `disconnect`, `Drop` | `New`, `Request`, `CallFails`, `Disconnect`, `Joined` |
| keepalive thread | `KeepaliveWakes` |
| a client's process, a test connection | `Vanish`, `Probe` |

`ServerRead` has four outcomes. The frame is read whole and answered. It is a Disconnect that is acknowledged,
and the client is removed. It is too large, or torn so that the next length is, which is fatal. Or
something is lost and the client stays:

- `Lose`: a torn read is an Io error, which is not fatal (`vpn_worker.rs:75-77`). The next length is taken from the
  middle of the frame; if it is small enough, `read_exact` swallows what is there, whole frames behind it
  included, and the stream may be in step again. If all of that length was there, `last_seen` is set even so, and
  what was read does not decrypt, which is not fatal either.
- `Unanswered`: the frame was read but the answer cannot be written. `handle_disconnect` then returns before it removes
  the client (`vpn_worker.rs:126-129`).

`lost` records which requests of a connection were lost or not answered, of those that the client cannot
make up for: its ConfigRequest and its Disconnect. `missed` counts the reads that lost something since the last
whole frame. The passes of 10 ms in which a stream comes back into step are one step; how it got out of step, byte by
byte, is in `VpnSession`. What is left of a lost frame may be unread when the socket is closed, and then the client
gets a reset (`Dropped`). An answer of which a part was written makes the next one unreadable when it
comes; in this model that next call succeeds, which only a program's decision to give up can tell, and `packet_size`, the only
one that decides, has given up by then.

A write to a connection that the server has closed succeeds once.
Every connection has an address of its own. Once the service stops nobody reads, what is written
is not kept, and a write may fail once the buffers are full for 45 s (`NotWritten`; `tcp_client.rs:18`).

| Run | Bounds | Properties |
|---|---|---|
| `keepalive` | 1 connection, 6 s, monitor every 120 s, lag 6 s, losses; the application does what it likes | `TypeOK`, `KeptAlive`, `EvictedInTime`, `EndsAfterRemoval`, `DisconnectInTime` |
| `timeout_comment` | 1 connection, 15 s, monitor every 30 s, lag 15 s, no losses | `EvictedAfterAMinute`: violated, section 9 |
| `programs` | all four programs, 4 connections with losses on the first two, 8 s, monitor every 30 s, lag 8 s, 2 rounds | `KeptAlive`, `ClientsFollowOneAnother`, `ProgramEnds` |

*Why the bounds are enough.* Clients do not affect one another in this model but through the
programs, where there are four connections. 120 s is an interval beyond the timeout, as an operator may choose it
(30 s is that of the programs). A lag of 6 s is more than
the worker's pauses of milliseconds; with 8 s in `programs` it
covers their sleeps of 2 s and 0.5 s, which are part of the lag of the program's own steps. `multiple_clients` runs three clients,
the model two (`Rounds`): each leaves nothing but its test connection, and what its losses leave, to the next.
`Lossy` bounds the connections on which something may be lost: in `programs` these are the first test connection and the first client
(the only client of `packet_size` is connection 1), so that a second client is there to meet what the first has left. In `keepalive`
the one connection is. The 15 s of `timeout_comment` suffice for its counterexample.

*What they show.* `KeptAlive`: the config that a client gets says 30 s
whatever the server's own `keepalive_interval` is, and that is what keeps clients
alive; with the server's interval in its place they would be evicted. A client survives one read that loses its keepalive, with whatever that read swallows; two in a row
may cost it its registration, which is why `KeptAlive` asks for `missed[c] < 2`. `EvictedInTime`: the timeout
and one turn of the monitor is the longest that a client stays of which nothing is read. `DisconnectInTime`: the joined thread
wakes up, writes into a closed connection, which succeeds, and fails 30 s later: two intervals
and the lag of each, `2 * (Interval + Lag)`. The excuse is a Disconnect that was lost or not acknowledged: nobody sends it again, the
keepalives go on and are read, and the join waits for ever. `VpnSession.DisconnectReturns` has the same excuse, in
terms of the races on the stream. `EndsAfterRemoval` needs no excuse: as long as the server is up, when the thread ends the server has let
go, so `disconnect` returning from its join means that the client is gone there. In `programs` that makes clients follow one another
(`ClientsFollowOneAnother`) although nothing in the programs waits for it. What can stay behind is a client whose ConfigRequest was
lost or not answered: `new` fails after 45 s, and the registration is left to the monitor. Programs
end (`ProgramEnds`) although `shutdown` waits for a monitor that may sleep for its whole interval, unless a Disconnect
was lost or not acknowledged.

**Fairness.** Only `programs` states any: its next-state relation as a whole is weakly fair,
which says that time goes on. Deadlines do the rest. While time passes the state
changes until the program has ended, so no other fairness is needed.

## 8. Theorems

Eight modules hold theorems; every proof is checked to the last leaf.

| Module | Proves | Assumption |
|---|---|---|
| `VpnServerProofs` | the server's invariant `IInv`, and what follows from it | `ConstantsAssumption` |
| `VpnServerTableProofs` | order of the answers, tables, removals; invariant `AInv` | the same |
| `VpnServerServiceProofs` | the server implements `ClientService` | the same |
| `VpnSessionProofs` | all safety properties of a session; invariant `SInv` | `SessionAssumption` |
| `PacketCodecProofs` | round trip, limits, what both ends keep | `CodecAssumption` |
| `ConnectionManagerProofs` | types, removals, implements `ClientService`; invariant `MInv` | `ManagerAssumption` |
| `KeepaliveTimingProofs` | the times; invariant `TInv` | `TimingAssumption` |
| `ProgramsProofs` | clients of a program follow one another | `TimingAssumption`, `ProgramsAssumption` |

The assumptions are on constants only and are as weak as the types of the code: numbers
are natural, the value for "no client" is no client, a buffer holds a frame, a program has
connections enough. So the results hold for every number of addresses, connections, frames
and calls, for every packet, payload and key, every size of bodies and buffers and every interval. Three
theorems about time have a hypothesis beside these; it is discussed below.

**VpnServer.** `Invariance` proves the inductive invariant `IInv`, the others follow.

| Part of `IInv` | Says | Needed because |
|---|---|---|
| `MapOK` | the map holds inserted connections under their own address | the code looks connections up by address |
| `WorkerOK` | the worker handles a frame of `req`, whose address is `cur`, and the map has `req` or a later connection there | `Reply` writes to whatever the map has by then |
| `AddressesOK` | of the connections of one address all but the last are closed by their peer | an answer to a later connection is harmless only so |
| `WrittenOK`, `ReadsArrived` | only established connections are written to, only arrived frames are read | a new connection must not inherit answers; types |
| `LockOK` | who holds the server mutex | a frame must not refresh a listed client while the monitor evicts |
| `ListedOK` | what was listed had been inserted | a connection inserted later is a later one |
| `JoinsOK` | the threads whose join lies behind `main` have exited, those that `main` has not come to have not started | quiet after shutdown |

From it: `TypeCorrect` (`TypeOK`), `RepliesReachTheirClient` (`NoReplyAstray`),
`EvictionsAreDue` (`EvictsOnlyUnrefreshed`) and the action property
`QuietAfterShutdown` (`NothingAfterShutdown`). The proof of each conjunct goes actor by
actor; the lemma `Untouched` states once what each actor never changes.

`VpnServerTableProofs` adds a second invariant, `AInv`, about answers, tables and the
frame in hand.

| Part of `AInv` | Says | Needed because |
|---|---|---|
| `AnswersRead`, `RequestNew` | answered frames were read, and the one in hand is later than all answered of its address | order: frames of two connections of one address count as one sequence |
| `HandlersOK` | what each handler knows of its frame, of the tables it has changed and of the map it has cleared | an acknowledgment is written some steps after the change |
| `RemoveOK` | if the worker is to remove an address for a frame, that frame was fatal or its connection has gone already, and it was the last of the address when it was read | the reason for a removal is found in an earlier step, and the address may have a new connection since |
| `DisconnectsOK` | what is in the tables is later than any acknowledged Disconnect, or the worker is about to clear it | three maps are cleared in three steps |

From it: `AnswersInOrder` (`RepliesInOrder`), `AcknowledgedRoutesHold` (`AckedRoutesInstalled`),
`DisconnectIsComplete` (`DisconnectLeavesNothing`) and `RemovalsHaveCause` (`RemovedForCause`).

`ServerImplementsService` goes step by step: `Insert` is the service's admission, the removals are
dismissals, `Visit` takes a request, `Reply` answers it, a handler's way out drops it, and all
other steps stutter. `IInv` is needed where the service names the connection and the code the address.

**ConnectionManager.** `MInv` says that the map has the latest connection of an address or
none (`MapOK`), that there are statistics only of addresses from which a frame was read (`StatisticsOK`) and
what the loop knows of its frame (`LoopOK`): if it removes an address, then for a frame that ends its
connection, or because the connection that it came for is no longer the one at the address. This gives `ManagerTypeCorrect` (`TypeOK`; a scan never meets
statistics that are gone), `ManagerRemovesForCause` (`RemovedForCause`) and
`ManagerImplementsService`, the safety part of `ServesClients`.

**VpnSession.** `SInv` follows each request from the client's call to the answer's return.

| Part of `SInv` | Says | Needed because |
|---|---|---|
| `Control`, `Handshake`, `LinkOK`, `Left` | where the two threads and the connection are; a keepalive thread exists after the handshake only; the server has let go only where it was asked to | which steps can be next |
| `Order`, `Heads` | the requests whose prefixes are in the streams, in hand and returned are in this order: returned, being read, on the way back, in hand, on the way there; keepalives are not answered | answers in order although timeouts leave them behind |
| `Fresh` | no unit in a stream is of a later request than the current one | a request that is about to be written is new to the streams |
| `Match` | until something times out, only the current request or its answer is between the two ends | the request's own answer is the next one read |
| `Whole` | a stream that is not spoilt is a sequence of whole frames, and the prefix of the one being written | the server meets no false length |

From it: `SessionTypeCorrect` (`TypeOK`), `RequestsAnswered` (`AnswersMatch`),
`RequestsAnsweredInOrder` (`AnswersInOrder`), `ExpelledForARace` (`ExpelledOnlyAfterRace`),
`FailuresHaveCause` (`FailsOnlyAfterRace`). TLC checked `SInv` on the instances of
`session_stream` and `session_backlog` before it was proved. `Order` looks at the prefixes of requests alone,
because a timeout may cut a frame anywhere and the rest of `Whole` is then lost.

**PacketCodec.** `RoundTrip`: unpacking the bytes of any packet gives it back, with
the control type that its packet type calls for. `ParsersAgree`: `from_bytes` and
`unpack` agree on all byte strings but those of eight or nine bytes.
`Transmission`: what a reader makes of a packed frame. With these the state machine's invariant
(`SessionOK`: the client is where its exchange with the server has brought it; `ReplyOK`: an
answer that is under way is the expected one and fits) gives `AnswersReachTheClient`
(`AnswersUnderstood`), `LimitsAgree` (`DroppedIffUnacceptable`) and
`WorkerSurvives` (`NeverPanics`) for every payload up to and beyond the limit.
`KeptInvariance` adds what the two ends keep (`ConfigKept`, `RoutesKept`). With the lemmas `ConfigRead` (a
serialized configuration reads back) and `RoutesParsed` (entry i of a parsed update stands for bytes 16i - 15 to 16i
of it) it gives `ConfigurationsAgree` (`ConfigAgreed`) and `RoutesArrive` (`RoutesAsSent`), the latter for tables of every length.

**KeepaliveTiming.** `TInv` has, for each connection, the states that it goes through on both sides (`Life`) and what its
clocks show (`Clocks`). It needs no hypothesis and gives `TimedTypeCorrect` (`TypeOK`),
`EvictionInTime` (`EvictedInTime`) and `EndingAfterRemoval` (`EndsAfterRemoval`).

- `ClientsKeptAlive` (`KeptAlive`) needs `2 * (Interval + 2 * Lag) < Timeout`: the thread may be late, and then the server, and
  then all of this again because a read may have lost what the thread wrote. Its invariant
  `Silent` relates `age` to the thread's sleep, to the wait of what it wrote and to the pause that a loss has cost (`Pause`). With the code's
  30 s and 90 s the hypothesis allows each to be 7 s late.
- `DisconnectsInTime` (`DisconnectInTime`) needs `2 * Lag < Interval`: a keepalive is read before the next one is due.
  Its invariant says what can be in the queue as long as no Disconnect was lost (`Queue`: a keepalive and one frame of the
  application at most) and how much longer the join can take (`Joining`). Without the hypothesis TLC finds the property violated, at
  15 s and a lag of two units: the queue still holds a keepalive when the next is written, and the thread's first write
  meets a connection that is open still.

**Programs.** A program's steps are steps of `KeepaliveTiming`, so `TInv` holds of the programs too
(`ProgramInvariance`, with `Control`: where the program is and how many connections it has made). `OneClientAtATime`
(`ClientsFollowOneAnother`) needs `2 * Lag < ReadTimeout`: a handshake that is not lost is answered before `VpnClient::new` gives up; otherwise `new` fails and leaves a registered
connection behind although nothing was lost, which TLC finds at 15 s and a lag of two units. Its invariants are `Handshake` (how long the call has
waited) and `Own` (only the current client is in use, those that were left are not registered, but for a lost handshake). `ProgramClientsKeptAlive` carries `KeptAlive` over, under the condition above.

**Model-checked only.** The liveness properties (`ShutdownCompletes`, `FramesAreRead`,
`GonePeersEvicted`, `ConnectionsAccepted`, `CallsReturn`, `DisconnectReturns`,
`KeepaliveEnds`, `OrphansCleaned`, `SpokenPeersEvicted`, `ProgramEnds`) and the fairness in `ServesClients` of both
servers: fairness and ENABLED are out of the prover's reach. The two properties of section 9 that are violated have
counterexamples, which TLC finds. No module uses recursion, so no induction over data is needed.

## 9. Where the code and its comments or examples differ

`service_read_packet` peeks for four bytes, reads the length prefix, and then calls
`read_exact` for the body (`tcp_server.rs:148`) on a socket that does not block.
The client writes prefix and body by two calls with TCP_NODELAY
(`tcp_client.rs:15,46-47`), so the body may not be there. Then the read fails,
which is not fatal, but the prefix is gone: the worker next takes bytes of the body for a
length, and removes the client or waits for bytes that do not come. The request
fails although nothing timed out and nobody was evicted. `examples/packet_size.rs`
expects such requests to succeed (`:90`, `:100`) and calls the error a failed test
(`:66-68`). The run `session_requests` finds the shortest such behaviour.

`get_stale_clients` takes clients whose `last_seen` is more than
`Duration::from_secs(90)` ago, and the comment on that line says "1 minute timeout" (`tcp_server.rs:190`, and
again `connection.rs:89`). The run `timeout_comment` finds a silent client that
is registered for longer than a minute and one turn of the monitor.

## 10. Not modelled

- `Settings`: `from_file` reads a config from a JSON file and `validate` accepts everything;
  nothing calls either, and there is no state.
- `crypto/key_exchange.rs` is not named by `crypto/mod.rs`, so it is not compiled.
- `start` or `shutdown` called a second time. No program does; the flags are never reset
  (`vpn_service.rs:81`), see the plan.
- Failures of thread creation, of `bind`, of cloning a socket, and poisoned mutexes.
  A panic of the worker is a state of `PacketCodec`, where it is shown not to happen.
- The counters of the statistics in `ConnectionManager`, and its read-only `get_connection_info`.
- Texts of errors and logs, and what the programs print. Errors count by their kind.

## 11. Plan

Done: all modules of section 2, both refinements, and a theorem for every safety and action property
that the runs check. Left, in this order:

1. `ServiceLifecycle`: `start` and `shutdown` called any number of times on one `VpnService`, where the flags
   are never reset and the handles are overwritten.
2. The tables of `VpnServer` as a resource: entries of clients that left without a Disconnect stay until the
   address says Disconnect. A property that bounds them needs a bound that the code does not have.

## 12. Running the checks

    tlc -workers 2 -config MCVpnServer_traffic.cfg MCVpnServer.tla
    tlc -workers 2 -config VpnSession_stream.cfg VpnSession.tla
    tlc -workers 2 -config MCPacketCodec.cfg MCPacketCodec.tla
    tlc -workers 2 -config ConnectionManager.cfg ConnectionManager.tla
    tlc -workers 2 -config KeepaliveTiming.cfg KeepaliveTiming.tla
    tlc -workers 2 -config Programs.cfg Programs.tla
    tlapm VpnServerProofs.tla
    tlapm VpnServerTableProofs.tla
    tlapm VpnServerServiceProofs.tla
    tlapm VpnSessionProofs.tla
    tlapm PacketCodecProofs.tla
    tlapm ConnectionManagerProofs.tla
    tlapm KeepaliveTimingProofs.tla
    tlapm ProgramsProofs.tla

Each run of TLC takes between seconds and five minutes. `session_requests` and
`timeout_comment` are expected to report a violation. tlapm proves each module from nothing
within five minutes.
