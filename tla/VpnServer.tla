----------------------------- MODULE VpnServer -----------------------------
(***************************************************************************)
(* The running VPN server: VpnService (src/src/vpn/vpn_service.rs), its    *)
(* packet worker VpnWorker (vpn_worker.rs) and the TcpServer they share    *)
(* (network/tcp_server.rs).                                                *)
(*                                                                         *)
(* Four threads: `main` starts the service and shuts it down, the listener *)
(* accepts connections, the monitor (keep_alive_thread) evicts stale       *)
(* clients, the worker reads one frame of every client per pass.  A step   *)
(* of a thread is what it does between two points where another thread can *)
(* get in, i.e. one critical section of a mutex.                           *)
(*                                                                         *)
(* The inner mutex `clients` and the mutexes of the protocol handler and   *)
(* of the configs are never held across another acquisition, so they are   *)
(* implicit in the atomicity of a step.  The mutex around the TcpServer is *)
(* held across several steps by the monitor and by server_shutdown: it is  *)
(* the variable serverLock.  Only the worker locks `routes`.               *)
(*                                                                         *)
(* Connections are numbered in the order in which the kernel establishes   *)
(* them, which is also the order in which accept() returns them.  The code *)
(* knows a connection by its peer's address only.                          *)
(***************************************************************************)
EXTENDS Naturals, Sequences

CONSTANTS
  ClientId,   \* peer addresses, the keys of the code's maps
  NoClient,   \* not an address
  MaxConn,    \* bound: connections ever established
  MaxFrames,  \* bound: frames that arrive on one connection
  Traffic,    \* the kinds of frame that peers send
  Endings     \* the ways in which peers end a connection

(***************************************************************************)
(* A frame is classified by what the server makes of it.                   *)
(*   data, keepalive, config, routes, disconnect  the five requests        *)
(*   badroutes   RouteUpdate whose payload is no multiple of 16 bytes      *)
(*   unexpected  a control packet that only a server sends                 *)
(*   oversize    length prefix above 65535                                 *)
(*   garbage     read in full, then ignored: shorter than 4 bytes, or its  *)
(*               decryption fails                                          *)
(*   partial     the body had not arrived in full, read_exact fails        *)
(***************************************************************************)
FrameKind == {"data", "keepalive", "config", "routes", "disconnect", "badroutes",
              "unexpected", "oversize", "garbage", "partial"}

\* Frames whose handling ends in VpnError::Protocol, which is_fatal_error picks.
Fatal == {"badroutes", "unexpected", "oversize"}

\* Frames after which service_read_packet returns before it sets last_seen.
ReadFails == {"oversize", "partial"}

ASSUME ConstantsAssumption ==
  /\ NoClient \notin ClientId
  /\ MaxConn \in Nat
  /\ MaxFrames \in Nat
  /\ Traffic \subseteq FrameKind
  /\ Endings \subseteq {"closed", "reset"}

Conn == 1 .. MaxConn
NoConn == 0

VARIABLES
  nconn,      \* connections established by the kernel: 1 .. nconn
  nacc,       \* of these, returned by accept(): 1 .. nacc
  addr,       \* peer address of a connection
  peer,       \* the peer's end of a connection
  frames,     \* frames that have arrived on a connection
  rd,         \* how many of them the worker has read
  out,        \* history: the frames answered on a connection
  stale,      \* connections whose last_seen is more than the timeout ago
  clients,    \* TcpServer.clients: address to connection
  routes,     \* VpnService.routes: address to the frame whose update it holds
  configs,    \* VpnService.client_configs: address to the connection that created it
  serverLock, \* owner of Arc<Mutex<TcpServer>>, if held across steps
  stopping,   \* VpnService.shutdown_flag
  lstopping,  \* TcpServer.shutdown_flag
  mpc, lpc,   \* control of main and of the listener
  kpc, todo,  \* control of the monitor, and its stale_clients not yet removed
  listed,     \* history: the connections that get_stale_clients listed
  wpc, batch, \* control of the worker, and its client_ids not yet visited
  cur, req    \* client_id being handled, and the connection its frame came from

socketVars  == <<nconn, addr, peer, frames>>
tableVars   == <<routes, configs>>
mainVars    == <<mpc, stopping, lstopping>>
monitorVars == <<kpc, todo, listed>>
workerVars  == <<wpc, batch, cur, req>>
vars == <<socketVars, nacc, rd, out, stale, clients, tableVars, serverLock,
          mainVars, lpc, monitorVars, workerVars>>

\* A frame is named by its connection and its place there; NoFrame is none.
NoFrame == <<NoConn, 0>>

Init ==
  /\ nconn = 0 /\ nacc = 0
  /\ addr = [c \in Conn |-> NoClient]
  /\ peer = [c \in Conn |-> "none"]
  /\ frames = [c \in Conn |-> <<>>]
  /\ rd = [c \in Conn |-> 0]
  /\ out = [c \in Conn |-> <<>>]
  /\ stale = {}
  /\ clients = [id \in ClientId |-> NoConn]
  /\ routes = [id \in ClientId |-> NoFrame]
  /\ configs = [id \in ClientId |-> NoConn]
  /\ serverLock = "free"
  /\ stopping = FALSE /\ lstopping = FALSE
  /\ mpc = "start"
  /\ lpc = "unborn"
  /\ kpc = "unborn" /\ todo = {} /\ listed = {}
  /\ wpc = "unborn" /\ batch = {} /\ cur = NoClient /\ req = NoConn

Registered(c) == c \in Conn /\ addr[c] \in ClientId /\ clients[addr[c]] = c

\* The server still holds the socket: in the accept queue, in the listener's
\* hands, or in the map.
Attached(c) ==
  \/ c > nacc
  \/ lpc = "insert" /\ c = nacc
  \/ Registered(c)

-----------------------------------------------------------------------------
(***************************************************************************)
(* Peers and the kernel.                                                   *)
(***************************************************************************)

\* A peer connects from address id.  The address is free once the peer has
\* closed its previous connection; the kernel then resets what is left of it.
Connect(id) ==
  LET reused(c) == c <= nconn /\ addr[c] = id
  IN /\ nconn < MaxConn
     /\ \A c \in Conn : reused(c) => peer[c] # "open"
     /\ nconn' = nconn + 1
     /\ addr' = [addr EXCEPT ![nconn + 1] = id]
     /\ peer' = [c \in Conn |-> IF c = nconn + 1 THEN "open"
                                ELSE IF reused(c) THEN "reset" ELSE peer[c]]
     /\ frames' = [c \in Conn |-> IF reused(c) THEN SubSeq(frames[c], 1, rd[c])
                                  ELSE frames[c]]
     /\ UNCHANGED <<nacc, rd, out, stale, clients, tableVars, serverLock, mainVars, lpc,
                    monitorVars, workerVars>>

Send(c, k) ==
  /\ c <= nconn /\ peer[c] = "open" /\ Attached(c)
  /\ Len(frames[c]) < MaxFrames
  /\ frames' = [frames EXCEPT ![c] = Append(@, k)]
  /\ UNCHANGED <<nconn, addr, peer, nacc, rd, out, stale, clients, tableVars, serverLock,
                 mainVars, lpc, monitorVars, workerVars>>

\* An orderly close leaves what was sent readable, a reset discards it.
PeerClose(c) ==
  /\ "closed" \in Endings /\ peer[c] = "open"
  /\ peer' = [peer EXCEPT ![c] = "closed"]
  /\ UNCHANGED <<nconn, addr, frames, nacc, rd, out, stale, clients, tableVars, serverLock,
                 mainVars, lpc, monitorVars, workerVars>>

PeerReset(c) ==
  /\ "reset" \in Endings /\ peer[c] \in {"open", "closed"}
  /\ peer' = [peer EXCEPT ![c] = "reset"]
  /\ frames' = [frames EXCEPT ![c] = SubSeq(@, 1, rd[c])]
  /\ UNCHANGED <<nconn, addr, nacc, rd, out, stale, clients, tableVars, serverLock,
                 mainVars, lpc, monitorVars, workerVars>>

\* last_seen of a registered connection becomes older than the timeout.
Elapse(c) ==
  /\ Registered(c) /\ c \notin stale
  /\ stale' = stale \cup {c}
  /\ UNCHANGED <<socketVars, nacc, rd, out, clients, tableVars, serverLock, mainVars, lpc,
                 monitorVars, workerVars>>

Environment ==
  \/ \E id \in ClientId : Connect(id)
  \/ \E c \in Conn : \/ \E k \in Traffic : Send(c, k)
                     \/ PeerClose(c)
                     \/ PeerReset(c)
                     \/ Elapse(c)

-----------------------------------------------------------------------------
(***************************************************************************)
(* main: VpnService::start, then VpnService::shutdown.                     *)
(***************************************************************************)

StartListener ==
  /\ mpc = "start" /\ serverLock = "free"
  /\ mpc' = "spawnMonitor" /\ lpc' = "check"
  /\ UNCHANGED <<socketVars, nacc, rd, out, stale, clients, tableVars, serverLock, stopping,
                 lstopping, monitorVars, workerVars>>

StartMonitor ==
  /\ mpc = "spawnMonitor"
  /\ mpc' = "spawnWorker" /\ kpc' = "check"
  /\ UNCHANGED <<socketVars, nacc, rd, out, stale, clients, tableVars, serverLock, stopping,
                 lstopping, lpc, todo, listed, workerVars>>

StartWorker ==
  /\ mpc = "spawnWorker"
  /\ mpc' = "running" /\ wpc' = "poll"
  /\ UNCHANGED <<socketVars, nacc, rd, out, stale, clients, tableVars, serverLock, stopping,
                 lstopping, lpc, monitorVars, batch, cur, req>>

Shutdown ==
  /\ mpc = "running"
  /\ mpc' = "joinWorker" /\ stopping' = TRUE
  /\ UNCHANGED <<socketVars, nacc, rd, out, stale, clients, tableVars, serverLock, lstopping,
                 lpc, monitorVars, workerVars>>

\* Mutant of JoinWorker: the handle is dropped, which detaches the thread.
DetachWorker ==
  /\ mpc = "joinWorker" /\ mpc' = "joinMonitor"
  /\ UNCHANGED <<socketVars, nacc, rd, out, stale, clients, tableVars, serverLock, stopping,
                 lstopping, lpc, monitorVars, workerVars>>

JoinWorker ==
  /\ mpc = "joinWorker" /\ wpc = "exited"
  /\ mpc' = "joinMonitor"
  /\ UNCHANGED <<socketVars, nacc, rd, out, stale, clients, tableVars, serverLock, stopping,
                 lstopping, lpc, monitorVars, workerVars>>

JoinMonitor ==
  /\ mpc = "joinMonitor" /\ kpc = "exited"
  /\ mpc' = "stopServer"
  /\ UNCHANGED <<socketVars, nacc, rd, out, stale, clients, tableVars, serverLock, stopping,
                 lstopping, lpc, monitorVars, workerVars>>

\* Mutant of StopServer: the listener's flag is not set.
StopServerSilently ==
  /\ mpc = "stopServer" /\ serverLock = "free"
  /\ mpc' = "joinListener" /\ serverLock' = "main"
  /\ UNCHANGED <<socketVars, nacc, rd, out, stale, clients, tableVars, stopping, lstopping,
                 lpc, monitorVars, workerVars>>

\* server_shutdown runs under the server mutex and joins the listener there.
StopServer ==
  /\ mpc = "stopServer" /\ serverLock = "free"
  /\ mpc' = "joinListener" /\ lstopping' = TRUE /\ serverLock' = "main"
  /\ UNCHANGED <<socketVars, nacc, rd, out, stale, clients, tableVars, stopping, lpc,
                 monitorVars, workerVars>>

JoinListener ==
  /\ mpc = "joinListener" /\ lpc = "exited"
  /\ mpc' = "done" /\ serverLock' = "free"
  /\ UNCHANGED <<socketVars, nacc, rd, out, stale, clients, tableVars, stopping, lstopping,
                 lpc, monitorVars, workerVars>>

Main == \/ StartListener \/ StartMonitor \/ StartWorker
        \/ Shutdown \/ JoinWorker \/ JoinMonitor \/ StopServer \/ JoinListener

-----------------------------------------------------------------------------
(***************************************************************************)
(* The listener: the thread of TcpServer::start_accept_loop.               *)
(***************************************************************************)

ListenerCheck ==
  /\ lpc = "check"
  /\ lpc' = IF lstopping THEN "exited" ELSE "accept"
  /\ UNCHANGED <<socketVars, nacc, rd, out, stale, clients, tableVars, serverLock, mainVars,
                 monitorVars, workerVars>>

\* WouldBlock: sleep, then round the loop.
\* Mutant of NothingToAccept: the loop ends at the first error.
BreakOnError == lpc' = "exited" /\ UNCHANGED nacc

NothingToAccept == lpc' = "check" /\ UNCHANGED nacc

\* Mutant of Accept: an empty queue is not told apart.
AcceptBlindly ==
  /\ lpc = "accept"
  /\ nacc' = nacc + 1 /\ lpc' = "insert"
  /\ UNCHANGED <<socketVars, rd, out, stale, clients, tableVars, serverLock, mainVars,
                 monitorVars, workerVars>>

\* accept() takes the oldest connection of the queue, or finds none (WouldBlock).
Accept ==
  /\ lpc = "accept"
  /\ IF nacc < nconn THEN nacc' = nacc + 1 /\ lpc' = "insert"
                     ELSE NothingToAccept
  /\ UNCHANGED <<socketVars, rd, out, stale, clients, tableVars, serverLock, mainVars,
                 monitorVars, workerVars>>

\* Mutant of ClientKey: the port is left out of the key, all peers share one host.
HostKey(c) == CHOOSE id \in ClientId : TRUE

\* client_id = addr.to_string()
ClientKey(c) == addr[c]

\* The new ClientInfo replaces, and so closes, one left under the same address.
Insert ==
  /\ lpc = "insert"
  /\ clients' = [clients EXCEPT ![ClientKey(nacc)] = nacc]
  /\ lpc' = "check"
  /\ UNCHANGED <<socketVars, nacc, rd, out, stale, tableVars, serverLock, mainVars,
                 monitorVars, workerVars>>

Listener == ListenerCheck \/ Accept \/ Insert

-----------------------------------------------------------------------------
(***************************************************************************)
(* The monitor: the keepalive thread of VpnService::start.                 *)
(***************************************************************************)

MonitorCheck ==
  /\ kpc = "check"
  /\ kpc' = IF stopping THEN "exited" ELSE "list"
  /\ UNCHANGED <<socketVars, nacc, rd, out, stale, clients, tableVars, serverLock, mainVars,
                 lpc, todo, listed, workerVars>>

\* Mutant of StaleClients: the comparison is the wrong way round.
FreshClients == {id \in ClientId : clients[id] # NoConn /\ clients[id] \notin stale}

\* get_stale_clients
StaleClients == {id \in ClientId : clients[id] \in stale}

\* Mutant of ListStale: the server mutex is released once the list is made.
ListStaleAndRelease ==
  /\ kpc = "list" /\ serverLock = "free"
  /\ kpc' = "evict"
  /\ todo' = StaleClients /\ listed' = {c \in stale : Registered(c)}
  /\ UNCHANGED <<socketVars, nacc, rd, out, stale, clients, tableVars, serverLock, mainVars,
                 lpc, workerVars>>

\* Takes the server mutex for the whole of check_client_keepalive, and the inner
\* one for get_stale_clients only.
ListStale ==
  /\ kpc = "list" /\ serverLock = "free"
  /\ serverLock' = "monitor" /\ kpc' = "evict"
  /\ todo' = StaleClients /\ listed' = {c \in stale : Registered(c)}
  /\ UNCHANGED <<socketVars, nacc, rd, out, stale, clients, tableVars, mainVars, lpc,
                 workerVars>>

Evict(id) ==
  /\ kpc = "evict" /\ id \in todo
  /\ clients' = [clients EXCEPT ![id] = NoConn]
  /\ todo' = todo \ {id}
  /\ UNCHANGED <<socketVars, nacc, rd, out, stale, tableVars, serverLock, mainVars, lpc, kpc,
                 listed, workerVars>>

\* Mutant of EndCheck: the guard of the server mutex lives on through the sleep.
EndCheckHolding ==
  /\ kpc = "evict" /\ todo = {}
  /\ kpc' = "check" /\ listed' = {}
  /\ UNCHANGED <<socketVars, nacc, rd, out, stale, clients, tableVars, serverLock, mainVars, lpc,
                 todo, workerVars>>

EndCheck ==
  /\ kpc = "evict" /\ todo = {}
  /\ serverLock' = "free" /\ kpc' = "check" /\ listed' = {}
  /\ UNCHANGED <<socketVars, nacc, rd, out, stale, clients, tableVars, mainVars, lpc, todo,
                 workerVars>>

Monitor == MonitorCheck \/ ListStale \/ EndCheck \/ \E id \in ClientId : Evict(id)

-----------------------------------------------------------------------------
(***************************************************************************)
(* The worker: VpnWorker::main_loop.                                       *)
(***************************************************************************)

\* The handling of cur's frame is over; the pass goes on.
Handled == wpc' = "poll" /\ cur' = NoClient /\ req' = NoConn

\* remove_client follows.
Discard == wpc' = "remove" /\ UNCHANGED <<cur, req>>

\* Mutant of IoError: is_fatal_error takes Io errors for fatal.
IoFatal == Discard

\* An Io error is reported and costs nothing else.
IoError == Handled

\* Mutant of Rest: any result ends the pass.
EndOfPass(id) == {}

\* The clients of the pass after id.
Rest(id) == batch \ {id}

\* Mutant of Delivered: the handler writes the answer and so does its caller.
DeliveredTwice(c, f) == [out EXCEPT ![c] = @ \o <<f, f>>]

\* The answer to frame f, written to connection c.
Delivered(c, f) == [out EXCEPT ![c] = Append(@, f)]

\* Mutant of Installed: only an address without routes gets them, as send_config does.
InstalledIfAbsent(id, f) == [routes EXCEPT ![id] = IF @ = NoFrame THEN f ELSE @]

Installed(id, f) == [routes EXCEPT ![id] = f]

\* Mutant of WithoutRoutes: the clean-up is forgotten.
RoutesKept(id) == routes

WithoutRoutes(id) == [routes EXCEPT ![id] = NoFrame]

\* End of a pass, and the loop's test of the flag.
WorkerCheck ==
  /\ wpc = "poll" /\ batch = {}
  /\ wpc' = IF stopping THEN "exited" ELSE "snapshot"
  /\ UNCHANGED <<socketVars, nacc, rd, out, stale, clients, tableVars, serverLock, mainVars,
                 lpc, monitorVars, batch, cur, req>>

\* get_client_ids
Snapshot ==
  /\ wpc = "snapshot" /\ serverLock = "free"
  /\ batch' = {id \in ClientId : clients[id] # NoConn}
  /\ wpc' = "poll"
  /\ UNCHANGED <<socketVars, nacc, rd, out, stale, clients, tableVars, serverLock, mainVars,
                 lpc, monitorVars, cur, req>>

\* Where the handling of a frame of kind k continues after it was read.
Dispatch(k) ==
  CASE k \in {"data", "disconnect"}  -> "reply"
    [] k = "keepalive"               -> "touch"
    [] k = "config"                  -> "config"
    [] k = "routes"                  -> "routes"
    [] k \in Fatal                   -> "remove"
    [] k \in {"garbage", "partial"}  -> "poll"

\* service_read_packet for the next client of the pass, then unpack and dispatch.
Visit(id) ==
  LET c == clients[id]
  IN /\ wpc = "poll" /\ id \in batch /\ serverLock = "free"
     /\ batch' = Rest(id)
     /\ \/ /\ c = NoConn                                 \* ClientNotFound
           /\ wpc' = "remove" /\ cur' = id /\ req' = NoConn
           /\ UNCHANGED <<rd, stale>>
        \/ /\ c # NoConn /\ rd[c] = Len(frames[c])       \* peek: nothing to read
           /\ Handled
           /\ UNCHANGED <<rd, stale>>
        \/ /\ c # NoConn /\ rd[c] < Len(frames[c])
           /\ LET k == frames[c][rd[c] + 1]
              IN /\ rd' = [rd EXCEPT ![c] = @ + 1]
                 /\ stale' = IF k \in ReadFails THEN stale ELSE stale \ {c}
                 /\ IF Dispatch(k) = "poll"
                    THEN Handled
                    ELSE wpc' = Dispatch(k) /\ cur' = id /\ req' = c
     /\ UNCHANGED <<socketVars, nacc, out, clients, tableVars, serverLock, mainVars, lpc,
                    monitorVars>>

\* handle_keepalive: update_client_timestamp
Touch ==
  /\ wpc = "touch" /\ serverLock = "free"
  /\ IF clients[cur] = NoConn
     THEN Discard /\ UNCHANGED stale
     ELSE Handled /\ stale' = stale \ {clients[cur]}
  /\ UNCHANGED <<socketVars, nacc, rd, out, clients, tableVars, serverLock, mainVars, lpc,
                 monitorVars, batch>>

\* send_config up to the write: the config is created if the address has none.
GetConfig ==
  /\ wpc = "config"
  /\ configs' = [configs EXCEPT ![cur] = IF @ = NoConn THEN req ELSE @]
  /\ wpc' = "reply"
  /\ UNCHANGED <<socketVars, nacc, rd, out, stale, clients, routes, serverLock, mainVars, lpc,
                 monitorVars, batch, cur, req>>

\* update_routes up to the write.
UpdateRoutes ==
  /\ wpc = "routes"
  /\ routes' = Installed(cur, <<req, rd[req]>>)
  /\ wpc' = "reply"
  /\ UNCHANGED <<socketVars, nacc, rd, out, stale, clients, configs, serverLock, mainVars, lpc,
                 monitorVars, batch, cur, req>>

\* write_packet of the answer, to whatever connection the address names by now.
\* The write may fail (buffer full, peer gone) and must fail after a reset.
Reply ==
  LET c == clients[cur]
  IN /\ wpc = "reply" /\ serverLock = "free"
     /\ \/ /\ c = NoConn                                 \* ClientNotFound
           /\ Discard
           /\ UNCHANGED out
        \/ /\ c # NoConn                                 \* Io error
           /\ IoError
           /\ UNCHANGED out
        \/ /\ c # NoConn /\ peer[c] # "reset"
           /\ out' = Delivered(c, <<req, rd[req]>>)
           /\ IF frames[req][rd[req]] = "disconnect"
              THEN wpc' = "discRemove" /\ UNCHANGED <<cur, req>>
              ELSE Handled
     /\ UNCHANGED <<socketVars, nacc, rd, stale, clients, tableVars, serverLock, mainVars, lpc,
                    monitorVars, batch>>

\* remove_client after ClientNotFound or a fatal error.
Remove ==
  /\ wpc = "remove" /\ serverLock = "free"
  /\ clients' = [clients EXCEPT ![cur] = NoConn]
  /\ Handled
  /\ UNCHANGED <<socketVars, nacc, rd, out, stale, tableVars, serverLock, mainVars, lpc,
                 monitorVars, batch>>

\* handle_disconnect after its acknowledgment was written.
DisconnectClient ==
  /\ wpc = "discRemove" /\ serverLock = "free"
  /\ clients' = [clients EXCEPT ![cur] = NoConn]
  /\ wpc' = "discRoutes"
  /\ UNCHANGED <<socketVars, nacc, rd, out, stale, tableVars, serverLock, mainVars, lpc,
                 monitorVars, batch, cur, req>>

DropRoutes ==
  /\ wpc = "discRoutes"
  /\ routes' = WithoutRoutes(cur)
  /\ wpc' = "discConfig"
  /\ UNCHANGED <<socketVars, nacc, rd, out, stale, clients, configs, serverLock, mainVars, lpc,
                 monitorVars, batch, cur, req>>

DropConfig ==
  /\ wpc = "discConfig"
  /\ configs' = [configs EXCEPT ![cur] = NoConn]
  /\ Handled
  /\ UNCHANGED <<socketVars, nacc, rd, out, stale, clients, routes, serverLock, mainVars, lpc,
                 monitorVars, batch>>

Worker == \/ WorkerCheck \/ Snapshot \/ Touch \/ GetConfig \/ UpdateRoutes \/ Reply \/ Remove
          \/ DisconnectClient \/ DropRoutes \/ DropConfig
          \/ \E id \in ClientId : Visit(id)

-----------------------------------------------------------------------------
\* The process has nothing left to run: the only state it may stop in.
Terminated == mpc = "done" /\ UNCHANGED vars

Next == Environment \/ Main \/ Listener \/ Monitor \/ Worker \/ Terminated

Spec == Init /\ [][Next]_vars

(***************************************************************************)
(* Each thread is scheduled.  main is fair once it has called start or     *)
(* shutdown; nothing makes it call shutdown.  The worker competes with the *)
(* monitor for the server mutex: the monitor sleeps keepalive_interval     *)
(* without it after every check, so a waiting worker gets it (strong       *)
(* fairness).  Peers owe nothing.                                          *)
(***************************************************************************)
Fairness ==
  /\ WF_vars(StartListener \/ StartMonitor \/ StartWorker)
  /\ WF_vars(JoinWorker \/ JoinMonitor \/ StopServer \/ JoinListener)
  /\ WF_vars(Listener)
  /\ WF_vars(Monitor)
  /\ SF_vars(Worker)

FairSpec == Spec /\ Fairness

\* Besides, a clock that is not reset runs out.
TimedSpec == FairSpec /\ \A c \in Conn : WF_vars(Elapse(c))

-----------------------------------------------------------------------------
(***************************************************************************)
(* Properties.                                                             *)
(***************************************************************************)

WorkerPC == {"unborn", "poll", "snapshot", "touch", "config", "routes", "reply", "remove",
             "discRemove", "discRoutes", "discConfig", "exited"}

\* The values of the state, thread by thread.
TypeOK ==
  /\ nconn \in 0 .. MaxConn /\ nacc \in 0 .. nconn
  /\ addr \in [Conn -> ClientId \cup {NoClient}]
  /\ peer \in [Conn -> {"none", "open", "closed", "reset"}]
  /\ frames \in [Conn -> Seq(FrameKind)]
  /\ rd \in [Conn -> Nat]
  /\ out \in [Conn -> Seq(Conn \X Nat)]
  /\ stale \subseteq Conn
  /\ clients \in [ClientId -> Conn \cup {NoConn}]
  /\ routes \in [ClientId -> (Conn \cup {NoConn}) \X Nat]
  /\ configs \in [ClientId -> Conn \cup {NoConn}]
  /\ serverLock \in {"free", "monitor", "main"}
  /\ stopping \in BOOLEAN /\ lstopping \in BOOLEAN
  /\ mpc \in {"start", "spawnMonitor", "spawnWorker", "running", "joinWorker",
              "joinMonitor", "stopServer", "joinListener", "done"}
  /\ lpc \in {"unborn", "check", "accept", "insert", "exited"}
  /\ kpc \in {"unborn", "check", "list", "evict", "exited"}
  /\ todo \subseteq ClientId /\ listed \subseteq Conn
  /\ wpc \in WorkerPC /\ batch \subseteq ClientId
  /\ cur \in ClientId \cup {NoClient} /\ req \in Conn \cup {NoConn}

\* Frame f arrived before frame g, or on an earlier connection.
Before(f, g) == f[1] < g[1] \/ (f[1] = g[1] /\ f[2] < g[2])

KindOf(f) == frames[f[1]][f[2]]

\* The frames of kind k that were answered, on whatever connection.
AnsweredOf(k) == {f \in UNION {{out[c][i] : i \in DOMAIN out[c]} : c \in Conn} : KindOf(f) = k}

\* The monitor lists the stale clients and removes them by address, in separate
\* critical sections of the inner mutex (check_client_keepalive).  Whatever the
\* other threads do meanwhile, it removes a connection it did list, and which no
\* frame has refreshed since, or one that replaced such a connection.
EvictsOnlyUnrefreshed ==
  kpc = "evict" => \A id \in todo :
    LET c == clients[id]
    IN \/ c \in listed /\ c \in stale
       \/ \E d \in listed : addr[d] = id /\ d < c

\* The worker reads a frame and answers it in different critical sections, by
\* address.  The answer reaches the connection that asked, or a later connection
\* from the same address after the one that asked was closed by its peer; never
\* another client.
NoReplyAstray ==
  \A c \in Conn : \A i \in DOMAIN out[c] :
    LET p == out[c][i][1]
    IN \/ p = c
       \/ p < c /\ addr[p] = addr[c] /\ peer[p] # "open"

\* What a peer address is sent, over all its connections, answers its frames in
\* the order they were sent in, each at most once.
RepliesInOrder ==
  \A c, d \in Conn : \A i \in DOMAIN out[c], j \in DOMAIN out[d] :
    addr[c] = addr[d] /\ (c < d \/ (c = d /\ i < j)) => Before(out[c][i], out[d][j])

\* update_routes installs before it acknowledges: an acknowledged RouteUpdate is in
\* the table until a later one from the address replaces it or an acknowledged
\* Disconnect of the address removes it.
AckedRoutesInstalled ==
  \A f \in AnsweredOf("routes") :
    LET held == routes[addr[f[1]]]
    IN \/ held = f \/ Before(f, held)
       \/ \E g \in AnsweredOf("disconnect") : addr[g[1]] = addr[f[1]] /\ Before(f, g)

\* handle_disconnect clears three maps one after the other.  Once the worker has
\* moved on, nothing that the address had before an acknowledged Disconnect is left
\* in any of them, of this connection or of an earlier one.
DisconnectLeavesNothing ==
  wpc \in {"poll", "snapshot", "exited"} =>
    \A f \in AnsweredOf("disconnect") :
      LET id == addr[f[1]]
      IN /\ clients[id] # NoConn => clients[id] > f[1]
         /\ routes[id] # NoFrame => Before(f, routes[id])
         /\ configs[id] # NoConn => configs[id] > f[1]

\* The monitor holds the address: it listed an earlier connection from it, which c replaced
\* before the monitor came to remove it.
ListedBefore(c) == addr[c] \in todo /\ \E d \in listed : d < c /\ addr[d] = addr[c]

\* The worker is about to remove the address, because of a frame of an earlier connection
\* from it, or because it found the address empty; c was registered since.
DiscardedBefore(c) ==
  wpc \in {"remove", "discRemove"} /\ cur = addr[c] /\ (req = NoConn \/ req < c)

\* The worker has read a frame of c that ends the connection, and is dealing with it.
EndsItself(c) == req = c /\ rd[c] > 0 /\ frames[c][rd[c]] \in Fatal \cup {"disconnect"}

\* A connection leaves the map without being replaced only because the monitor listed it
\* and no frame has refreshed it since, because of its own frame that the worker has in
\* hand, or because it took its address while the removal of what was there before was
\* pending.  A failed write never costs a client its registration, and a connection
\* that replaced another is as safe as any once nothing of the other is pending.
RemovedForCause ==
  [][\A id \in ClientId :
       LET c == clients[id]
       IN c # NoConn /\ clients'[id] = NoConn =>
            \/ c \in listed /\ c \in stale
            \/ EndsItself(c)
            \/ ListedBefore(c) \/ DiscardedBefore(c)]_vars

\* shutdown returns only when every thread is gone: from then on nothing is read,
\* answered, accepted or changed in a map.
NothingAfterShutdown ==
  [][mpc = "done" => UNCHANGED <<nacc, rd, out, clients, routes, configs, stopping>>]_vars

\* shutdown joins the threads while they use the server mutex, and the listener
\* while it holds that mutex itself: it returns.
ShutdownCompletes == stopping ~> mpc = "done"

\* No client starves: a frame that has arrived on a registered connection is read,
\* unless the connection goes first or the service stops.
FramesAreRead ==
  \A c \in Conn :
    (Registered(c) /\ rd[c] < Len(frames[c])) ~>
      (rd[c] = Len(frames[c]) \/ ~Registered(c) \/ stopping)

\* A peer that is gone does not stay registered: reading from its connection never
\* reports the end of the stream, the monitor evicts it.
GonePeersEvicted ==
  \A c \in Conn :
    (Registered(c) /\ peer[c] # "open") ~> (~Registered(c) \/ stopping)

\* A connection the kernel has established is registered unless the service stops.
ConnectionsAccepted ==
  \A c \in Conn : (c <= nconn) ~> ((c <= nacc /\ lpc # "insert") \/ lstopping)

(***************************************************************************)
(* The server implements ClientService.  A connection is admitted once it  *)
(* is in the map, and a request is in hand from the time it is read until  *)
(* its answer is written or given up.                                      *)
(***************************************************************************)
Admitted == IF lpc = "insert" THEN nacc - 1 ELSE nacc

Service == INSTANCE ClientService WITH
  admitted <- Admitted,
  addr     <- [c \in Conn |-> IF c <= Admitted THEN addr[c] ELSE NoClient],
  served   <- {c \in Conn : Registered(c)},
  asked    <- rd,
  inHand   <- IF wpc \in {"touch", "config", "routes", "reply"} THEN <<req, rd[req]>> ELSE NoFrame,
  answers  <- out

\* What clients may rely on, whatever the threads do meanwhile: connections are served
\* once, requests are taken one at a time and in order, and each is answered at most once
\* and to its own address before the next is taken.
AnswersItsClients == Service!Spec

\* Besides, no request that was taken stays in hand for ever: it is answered or given up.
ServesClients == Service!FairSpec
=============================================================================
