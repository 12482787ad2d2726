------------------------- MODULE ConnectionManager -------------------------
(***************************************************************************)
(* The other server of the library: ConnectionManager                      *)
(* (src/src/network/connection.rs) over a TcpServer.  It reads and answers *)
(* clients by one loop, as VpnWorker does, but keeps statistics of them in *)
(* a map of its own, `connections`.  A cleanup thread goes through that    *)
(* map, and not through the TcpServer's clients, for what is stale.        *)
(*                                                                         *)
(* A step is one critical section.  The mutex of `connections` is held by  *)
(* the cleanup for a whole scan, during which it takes the TcpServer's for *)
(* each client that it removes: it is the variable scanning.  The loop     *)
(* never ends; clones of the manager may be dropped at any time, and       *)
(* dropping one removes every client of the server they share.             *)
(***************************************************************************)
EXTENDS Naturals, Sequences

CONSTANTS
  ClientId,   \* peer addresses, the keys of both maps
  NoClient,   \* not an address
  MaxConn,    \* bound: connections ever accepted
  MaxFrames,  \* bound: frames that arrive on one connection
  Traffic,    \* the kinds of frame that peers send
  Clones      \* bound: clones of the manager that are dropped

(***************************************************************************)
(* A frame is classified by what the manager makes of it.                  *)
(*   data, keepalive, control, disconnect   the requests; control is a     *)
(*               ConfigRequest or a RouteUpdate of any length              *)
(*   unexpected  a control packet that only a server sends                 *)
(*   oversize    length prefix above 65535                                 *)
(*   garbage     its decryption fails                                      *)
(*   partial     the body had not arrived in full, read_exact fails        *)
(***************************************************************************)
FrameKind == {"data", "keepalive", "control", "disconnect", "unexpected", "oversize",
              "garbage", "partial"}

\* Frames whose handling ends in VpnError::Protocol.
Fatal == {"unexpected", "oversize"}

ASSUME ManagerAssumption ==
  /\ NoClient \notin ClientId
  /\ {MaxConn, MaxFrames, Clones} \subseteq Nat
  /\ Traffic \subseteq FrameKind

Conn == 1 .. MaxConn
NoConn == 0

VARIABLES
  nconn,       \* connections that the accept loop has inserted: 1 .. nconn
  addr,        \* peer address of a connection
  open,        \* connections that their peers have not closed
  frames,      \* frames that have arrived on a connection
  rd,          \* how many of them the loop has read
  out,         \* history: the frames answered on a connection
  clients,     \* TcpServer.clients: address to connection
  entries,     \* connections: the addresses of which there are statistics
  stale,       \* of these, those whose last_seen is the timeout ago
  scanning,    \* the cleanup is within retain, under the lock of connections
  todo,        \* what it has still to look at
  lpc, batch,  \* control of the loop, and its client ids not yet visited
  cur, req,    \* client_id being handled, and the connection its frame came from
  drops,       \* clones dropped so far
  dpc, dtodo,  \* control of the Drop of a clone, and its client_ids not yet removed
  dcur         \* the client being removed by it

netVars  == <<nconn, addr, open, frames>>
scanVars == <<scanning, todo>>
loopVars == <<lpc, batch, cur, req>>
dropVars == <<drops, dpc, dtodo, dcur>>
vars == <<netVars, rd, out, clients, entries, stale, scanVars, loopVars, dropVars>>

Init ==
  /\ nconn = 0
  /\ addr = [c \in Conn |-> NoClient]
  /\ open = {}
  /\ frames = [c \in Conn |-> <<>>]
  /\ rd = [c \in Conn |-> 0] /\ out = [c \in Conn |-> <<>>]
  /\ clients = [id \in ClientId |-> NoConn]
  /\ entries = {} /\ stale = {}
  /\ scanning = FALSE /\ todo = {}
  /\ lpc = "poll" /\ batch = {} /\ cur = NoClient /\ req = NoConn
  /\ drops = 0 /\ dpc = "idle" /\ dtodo = {} /\ dcur = NoClient

Registered(c) == c <= nconn /\ clients[addr[c]] = c

\* The addresses in the TcpServer's map (get_client_ids).
ClientIds == {id \in ClientId : clients[id] # NoConn}

\* remove_client
WithoutClient(id) == [clients EXCEPT ![id] = NoConn]

-----------------------------------------------------------------------------
(***************************************************************************)
(* Peers, the accept loop of the TcpServer, the clock.                     *)
(***************************************************************************)

\* A connection is accepted and inserted.  Nothing is done about the statistics.
Arrive(id) ==
  /\ nconn < MaxConn /\ \A c \in open : addr[c] # id
  /\ nconn' = nconn + 1
  /\ addr' = [addr EXCEPT ![nconn + 1] = id]
  /\ open' = open \cup {nconn + 1}
  /\ clients' = [clients EXCEPT ![id] = nconn + 1]
  /\ UNCHANGED <<frames, rd, out, entries, stale, scanVars, loopVars, dropVars>>

Send(c, k) ==
  /\ c \in open /\ Registered(c) /\ Len(frames[c]) < MaxFrames
  /\ frames' = [frames EXCEPT ![c] = Append(@, k)]
  /\ UNCHANGED <<nconn, addr, open, rd, out, clients, entries, stale, scanVars, loopVars, dropVars>>

Close(c) ==
  /\ c \in open
  /\ open' = open \ {c}
  /\ UNCHANGED <<nconn, addr, frames, rd, out, clients, entries, stale, scanVars, loopVars, dropVars>>

Elapse(id) ==
  /\ id \in entries \ stale
  /\ stale' = stale \cup {id}
  /\ UNCHANGED <<netVars, rd, out, clients, entries, scanVars, loopVars, dropVars>>

Environment == \/ \E id \in ClientId : Arrive(id) \/ Elapse(id)
               \/ \E c \in Conn : Close(c) \/ \E k \in Traffic : Send(c, k)

-----------------------------------------------------------------------------
(***************************************************************************)
(* The cleanup thread: cleanup_stale_connections, then 30 s of sleep.      *)
(***************************************************************************)

BeginScan ==
  /\ ~scanning
  /\ scanning' = TRUE /\ todo' = entries
  /\ UNCHANGED <<netVars, rd, out, clients, entries, stale, loopVars, dropVars>>

\* Mutant of Expired: statistics without a client are passed over.
ExpiredClient(id) == id \in stale /\ clients[id] # NoConn

Expired(id) == id \in stale

\* Mutant of Evicted: only the statistics go.
Forgotten(id) == clients

\* The client goes with its statistics, whichever connection it is by now.
Evicted(id) == WithoutClient(id)

\* The closure of retain, for one entry.
Scan(id) ==
  /\ scanning /\ id \in todo
  /\ todo' = todo \ {id}
  /\ IF Expired(id)
     THEN clients' = Evicted(id) /\ entries' = entries \ {id} /\ stale' = stale \ {id}
     ELSE UNCHANGED <<clients, entries, stale>>
  /\ UNCHANGED <<netVars, rd, out, scanning, loopVars, dropVars>>

EndScan ==
  /\ scanning /\ todo = {}
  /\ scanning' = FALSE
  /\ UNCHANGED <<netVars, rd, out, clients, entries, stale, todo, loopVars, dropVars>>

Cleanup == BeginScan \/ EndScan \/ \E id \in ClientId : Scan(id)

-----------------------------------------------------------------------------
(***************************************************************************)
(* The loop: handle_connections.                                           *)
(***************************************************************************)

Handled == lpc' = "poll" /\ cur' = NoClient /\ req' = NoConn

\* remove_connection follows.
Remove == lpc' = "dropEntry" /\ UNCHANGED <<cur, req>>

\* Mutant of IoError: any error is fatal.
AnyErrorFatal == Remove

\* An error that is_fatal_error does not pick.
IoError == Handled

\* A pass begins.
Snapshot ==
  /\ lpc = "poll" /\ batch = {}
  /\ batch' = ClientIds
  /\ UNCHANGED <<netVars, rd, out, clients, entries, stale, scanVars, lpc, cur, req, dropVars>>

\* service_read_packet for the next client of the pass, then unpack.
Visit(id) ==
  LET c == clients[id]
  IN /\ lpc = "poll" /\ id \in batch
     /\ batch' = batch \ {id}
     /\ \/ /\ c = NoConn                              \* ClientNotFound
           /\ lpc' = "dropEntry" /\ cur' = id /\ req' = NoConn
           /\ UNCHANGED rd
        \/ /\ c # NoConn /\ rd[c] = Len(frames[c])    \* nothing to read: unpack fails
           /\ IoError
           /\ UNCHANGED <<cur, req, rd>>
        \/ /\ c # NoConn /\ rd[c] < Len(frames[c])
           /\ rd' = [rd EXCEPT ![c] = @ + 1]
           /\ LET k == frames[c][rd[c] + 1]
              IN IF k \in {"garbage", "partial"}
                 THEN Handled
                 ELSE /\ lpc' = IF k = "oversize" THEN "dropEntry" ELSE "stats"
                      /\ cur' = id /\ req' = c
     /\ UNCHANGED <<netVars, out, clients, entries, stale, scanVars, dropVars>>

\* update_connection_stats, which inserts what it does not find.
UpdateStats ==
  /\ ~scanning
  /\ entries' = entries \cup {cur} /\ stale' = stale \ {cur}

\* Where the handling of a frame of kind k continues after its statistics.
Dispatch(k) ==
  CASE k \in {"data", "control", "disconnect"} -> "reply"
    [] k = "keepalive"                         -> "touch"
    [] k = "unexpected"                        -> "dropEntry"

CountReceived ==
  /\ lpc = "stats" /\ UpdateStats
  /\ lpc' = Dispatch(frames[req][rd[req]])
  /\ UNCHANGED <<netVars, rd, out, clients, scanVars, batch, cur, req, dropVars>>

\* handle_keepalive
Touch ==
  /\ lpc = "touch" /\ ~scanning
  /\ stale' = stale \ {cur}
  /\ Handled
  /\ UNCHANGED <<netVars, rd, out, clients, entries, scanVars, batch, dropVars>>

\* Mutant of Delivered: the answer is written a second time.
DeliveredTwice(c, f) == [out EXCEPT ![c] = @ \o <<f, f>>]

\* The answer to frame f, written to connection c.
Delivered(c, f) == [out EXCEPT ![c] = Append(@, f)]

\* write_packet of the answer, to whatever connection the address names by now.
Reply ==
  LET c == clients[cur]
      k == frames[req][rd[req]]
  IN /\ lpc = "reply"
     /\ \/ /\ c = NoConn                              \* ClientNotFound
           /\ Remove
           /\ UNCHANGED out
        \/ /\ c # NoConn                              \* Io error
           /\ IoError
           /\ UNCHANGED out
        \/ /\ c # NoConn
           /\ out' = Delivered(c, <<req, rd[req]>>)
           /\ CASE k = "data"       -> lpc' = "restats" /\ UNCHANGED <<cur, req>>
                [] k = "control"    -> Handled
                [] k = "disconnect" -> Remove
     /\ UNCHANGED <<netVars, rd, clients, entries, stale, scanVars, batch, dropVars>>

\* The statistics of the answer to a data packet.
CountSent ==
  /\ lpc = "restats" /\ UpdateStats
  /\ Handled
  /\ UNCHANGED <<netVars, rd, out, clients, scanVars, batch, dropVars>>

\* Mutant of DropEntry: it does not wait for the scan to end.
DropEntryUnlocked ==
  /\ lpc = "dropEntry"
  /\ entries' = entries \ {cur} /\ stale' = stale \ {cur}
  /\ lpc' = "dropClient"
  /\ UNCHANGED <<netVars, rd, out, clients, scanVars, batch, cur, req, dropVars>>

\* remove_connection takes the two locks one after the other.
DropEntry ==
  /\ lpc = "dropEntry" /\ ~scanning
  /\ entries' = entries \ {cur} /\ stale' = stale \ {cur}
  /\ lpc' = "dropClient"
  /\ UNCHANGED <<netVars, rd, out, clients, scanVars, batch, cur, req, dropVars>>

DropClient ==
  /\ lpc = "dropClient"
  /\ clients' = WithoutClient(cur)
  /\ Handled
  /\ UNCHANGED <<netVars, rd, out, entries, stale, scanVars, batch, dropVars>>

Loop == \/ Snapshot \/ CountReceived \/ Touch \/ Reply \/ CountSent \/ DropEntry \/ DropClient
        \/ \E id \in ClientId : Visit(id)

-----------------------------------------------------------------------------
(***************************************************************************)
(* Drop for ConnectionManager, of a clone in another thread.               *)
(***************************************************************************)

BeginDrop ==
  /\ dpc = "idle" /\ drops < Clones
  /\ drops' = drops + 1
  /\ dpc' = "next" /\ dtodo' = ClientIds
  /\ UNCHANGED <<netVars, rd, out, clients, entries, stale, scanVars, loopVars, dcur>>

DropTheEntry(id) ==
  /\ dpc = "next" /\ id \in dtodo /\ ~scanning
  /\ entries' = entries \ {id} /\ stale' = stale \ {id}
  /\ dtodo' = dtodo \ {id} /\ dcur' = id /\ dpc' = "client"
  /\ UNCHANGED <<netVars, rd, out, clients, scanVars, loopVars, drops>>

DropTheClient ==
  /\ dpc = "client"
  /\ clients' = WithoutClient(dcur)
  /\ dcur' = NoClient /\ dpc' = "next"
  /\ UNCHANGED <<netVars, rd, out, entries, stale, scanVars, loopVars, drops, dtodo>>

EndDrop ==
  /\ dpc = "next" /\ dtodo = {}
  /\ dpc' = "idle"
  /\ UNCHANGED <<netVars, rd, out, clients, entries, stale, scanVars, loopVars, drops, dtodo, dcur>>

Dropping == DropTheClient \/ EndDrop \/ \E id \in ClientId : DropTheEntry(id)

-----------------------------------------------------------------------------
Next == Environment \/ Cleanup \/ Loop \/ BeginDrop \/ Dropping

Spec == Init /\ [][Next]_vars

(***************************************************************************)
(* The cleanup sleeps 30 s without the lock after every scan, so that the  *)
(* others get it (strong fairness).  A clock that is not reset runs out.   *)
(***************************************************************************)
FairSpec ==
  /\ Spec
  /\ WF_vars(Cleanup) /\ SF_vars(Loop) /\ SF_vars(Dropping)
  /\ \A id \in ClientId : WF_vars(Elapse(id))

-----------------------------------------------------------------------------
(***************************************************************************)
(* Properties.                                                             *)
(***************************************************************************)

\* The two maps, the scan and the loop's local variables.
TypeOK ==
  /\ nconn \in 0 .. MaxConn /\ addr \in [Conn -> ClientId \cup {NoClient}] /\ open \subseteq Conn
  /\ frames \in [Conn -> Seq(FrameKind)] /\ rd \in [Conn -> Nat]
  /\ out \in [Conn -> Seq(Conn \X Nat)]
  /\ clients \in [ClientId -> Conn \cup {NoConn}]
  /\ stale \subseteq entries /\ entries \subseteq ClientId
  /\ scanning \in BOOLEAN /\ todo \subseteq entries
  /\ lpc \in {"poll", "stats", "touch", "reply", "restats", "dropEntry", "dropClient"}
  /\ batch \subseteq ClientId /\ cur \in ClientId \cup {NoClient} /\ req \in Conn \cup {NoConn}
  /\ drops \in 0 .. Clones /\ dpc \in {"idle", "next", "client"}
  /\ dtodo \subseteq ClientId /\ dcur \in ClientId \cup {NoClient}

\* The statistics of c's address have expired: c was heard of and then fell silent, or they
\* are what an earlier connection left there.
FellSilent(c) ==
  /\ scanning /\ addr[c] \in stale
  /\ rd[c] > 0 \/ \E d \in Conn : d < c /\ addr[d] = addr[c] /\ rd[d] > 0

\* The loop has read a frame of c that ends the connection, and is dealing with it.
EndsItself(c) ==
  lpc = "dropClient" /\ req = c /\ frames[c][rd[c]] \in Fatal \cup {"disconnect"}

\* The loop is about to remove the address because of a frame of an earlier connection from
\* it, or because it found the address empty; c arrived since.
DiscardedBefore(c) == lpc = "dropClient" /\ cur = addr[c] /\ (req = NoConn \/ req < c)

\* A client leaves without being replaced only because the cleanup finds the statistics of
\* its address expired, because of its own frame that the loop has in hand, because it took
\* its address while the loop was removing what was there before, or because a clone of the
\* manager was dropped.  So a client from which nothing was ever read is evicted only with
\* the statistics of an earlier connection.
RemovedForCause ==
  [][\A id \in ClientId :
       LET c == clients[id]
       IN c # NoConn /\ clients'[id] = NoConn =>
            \/ FellSilent(c)
            \/ EndsItself(c) \/ DiscardedBefore(c)
            \/ dpc = "client" /\ dcur = id]_vars

\* Statistics may be inserted for a client that the cleanup or a drop has just removed.
\* They do not stay.
OrphansCleaned ==
  \A id \in ClientId : (id \in entries /\ clients[id] = NoConn) ~>
                         (id \notin entries \/ clients[id] # NoConn)

\* A peer that has closed its connection does not stay registered if there are statistics
\* of its address.
SpokenPeersEvicted ==
  \A c \in Conn : (Registered(c) /\ c \notin open /\ addr[c] \in entries) ~> ~Registered(c)

\* What clients may rely on: the manager serves them as ClientService says.
Service == INSTANCE ClientService WITH
  admitted <- nconn,
  served   <- {c \in Conn : Registered(c)},
  asked    <- rd,
  inHand   <- IF lpc \in {"stats", "touch", "reply"} THEN <<req, rd[req]>> ELSE <<NoConn, 0>>,
  answers  <- out

ServesClients == Service!FairSpec
=============================================================================
