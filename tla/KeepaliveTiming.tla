-------------------------- MODULE KeepaliveTiming --------------------------
(***************************************************************************)
(* The times that VpnClient, VpnService and TcpServer wait for one         *)
(* another: the client's keepalives every 30 s (vpn_client.rs), the        *)
(* monitor's check every keepalive_interval, the timeout of 90 s after     *)
(* which it evicts (vpn_service.rs, tcp_server.rs), the read timeout of    *)
(* 45 s (tcp_client.rs).                                                   *)
(*                                                                         *)
(* What a thread does takes no time, but it may be up to Lag late: the     *)
(* clock does not pass the instant at which somebody has to have acted.    *)
(* How frames are torn on the stream is VpnSession's; here a read may lose *)
(* frames, and what becomes of a stream that is out of step, in the worker *)
(* passes of 10 ms that follow, is one step.  Every connection has an      *)
(* address of its own (VpnServer has addresses that are used again).       *)
(***************************************************************************)
EXTENDS Naturals, Sequences

CONSTANTS
  MaxConn,         \* bound: connections ever made
  Unit,            \* the unit of time, in seconds
  ServerInterval,  \* server_config.keepalive_interval, in seconds
  Lag,             \* how late a thread or a frame may be, in units
  Lossy            \* bound: the connections whose frames the server may lose, or not answer

ASSUME TimingAssumption ==
  /\ {MaxConn, ServerInterval, Lag} \subseteq Nat
  /\ Unit \in Nat \ {0}

Conn == 1 .. MaxConn

Seconds(s) == s \div Unit

MonitorInterval == Seconds(ServerInterval)

\* Mutant of Interval: the server's own interval is sent.
IntervalOfServer == MonitorInterval

\* The interval of every client: send_config sends 30 s, whatever server_config says.
Interval == Seconds(30)

\* last_seen may be 90 s ago.
Timeout == Seconds(90)

\* A read of the client fails after 45 s.
ReadTimeout == Seconds(45)

\* The requests whose loss outlasts the call: the client cannot undo it.
Vital == {"config", "disconnect"}

VARIABLES
  service,  \* VpnService: "off", "up", "stopping" (its monitor is awaited), "down"
  mslept,   \* for how long the monitor has slept
  backlog,  \* connections that the kernel has made and the listener not accepted
  reg,      \* TcpServer.clients
  age,      \* of a registered connection: since last_seen
  lost,     \* history: which of its Vital requests were lost, or not answered
  missed,   \* how many reads since its last whole frame lost something; 2 stands for more
  inbox,    \* the frames on their way to the server
  waited,   \* for how long the server has left a connection alone that waits for it
  link,     \* the connection as the client's kernel knows it
  app,      \* what the application does with its VpnClient
  call,     \* the request it waits for
  result,   \* history: what its last request returned
  lasts,    \* for how long it has been waiting
  thread,   \* the keepalive thread of the client
  slept     \* for how long it has slept

lossVars   == <<lost, missed>>
serverVars == <<service, mslept, backlog, reg, age, lossVars>>
streamVars == <<inbox, waited, link>>
clientVars == <<app, call, result, lasts, thread, slept>>
vars == <<serverVars, streamVars, clientVars>>

Init ==
  /\ service = "off" /\ mslept = 0
  /\ backlog = {} /\ reg = {}
  /\ age = [c \in Conn |-> 0]
  /\ lost = [c \in Conn |-> {}] /\ missed = [c \in Conn |-> 0]
  /\ inbox = [c \in Conn |-> <<>>] /\ waited = [c \in Conn |-> 0]
  /\ link = [c \in Conn |-> "none"]
  /\ app = [c \in Conn |-> "none"] /\ call = [c \in Conn |-> "none"]
  /\ result = [c \in Conn |-> "none"]
  /\ lasts = [c \in Conn |-> 0]
  /\ thread = [c \in Conn |-> "none"] /\ slept = [c \in Conn |-> 0]

-----------------------------------------------------------------------------
(***************************************************************************)
(* The service.                                                            *)
(***************************************************************************)

\* VpnService::start.  The monitor's first check finds no client.
Start ==
  /\ service = "off"
  /\ service' = "up" /\ mslept' = 0
  /\ UNCHANGED <<backlog, reg, age, lossVars, streamVars, clientVars>>

\* VpnService::shutdown sets the flag and joins the worker, then the monitor.
Shutdown ==
  /\ service = "up"
  /\ service' = "stopping"
  /\ UNCHANGED <<mslept, backlog, reg, age, lossVars, streamVars, clientVars>>

\* Mutant of Accept: it does not leave the queue.
AcceptAgain(c) ==
  /\ c \in backlog /\ service \in {"up", "stopping"}
  /\ reg' = reg \cup {c}
  /\ waited' = [waited EXCEPT ![c] = 0]
  /\ UNCHANGED <<service, mslept, backlog, age, lossVars, inbox, link, clientVars>>

\* The listener runs until the monitor is joined.
Accept(c) ==
  /\ c \in backlog /\ service \in {"up", "stopping"}
  /\ backlog' = backlog \ {c} /\ reg' = reg \cup {c}
  /\ waited' = [waited EXCEPT ![c] = 0]
  /\ UNCHANGED <<service, mslept, age, lossVars, inbox, link, clientVars>>

\* The connections in S leave the map.
Unregister(S) ==
  /\ reg' = reg \ S
  /\ age' = [c \in Conn |-> IF c \in S THEN 0 ELSE age[c]]
  /\ missed' = [c \in Conn |-> IF c \in S THEN 0 ELSE missed[c]]
  /\ UNCHANGED lost

\* Mutant of Remove: somebody else holds a clone of the stream.
RemoveButHold(S, unread) == Unregister(S) /\ UNCHANGED <<link, inbox>>

\* What the client's kernel is told when the server drops the socket: a reset if anything
\* is unread, which the rest of a frame that was lost may be.
Dropped(c, unread) ==
  IF unread # <<>> THEN {"reset"} ELSE IF missed[c] = 0 THEN {"closed"} ELSE {"closed", "reset"}

\* The connections in S leave the map, which drops their sockets.
Remove(S, unread) ==
  /\ Unregister(S)
  /\ \E end \in [S -> {"closed", "reset"}] :
       /\ \A c \in S : end[c] \in Dropped(c, unread[c])
       /\ link' = [c \in Conn |-> IF c \in S /\ link[c] = "up" THEN end[c] ELSE link[c]]
  /\ inbox' = [c \in Conn |-> IF c \in S THEN <<>> ELSE inbox[c]]

\* A call of c's application returns; a successful handshake starts the keepalive
\* thread, which writes at once.
Returns(c) ==
  /\ app' = [app EXCEPT ![c] = "idle"] /\ call' = [call EXCEPT ![c] = "none"]
  /\ result' = [result EXCEPT ![c] = "ok"] /\ lasts' = [lasts EXCEPT ![c] = 0]
  /\ IF call[c] = "config"
     THEN thread' = [thread EXCEPT ![c] = "asleep"] /\ slept' = [slept EXCEPT ![c] = Interval]
     ELSE UNCHANGED <<thread, slept>>

\* A frame of c is read whole.
Heard(c) == age' = [age EXCEPT ![c] = 0] /\ missed' = [missed EXCEPT ![c] = 0]

\* The first k frames are read in vain, and the client stays: Io errors are not fatal, nor
\* is a frame that cannot be decrypted.  The first is torn, and the length that the next
\* read takes from the middle of it swallows the others.  If all that this length promises
\* is there, last_seen is set.
Lose(c, k) ==
  /\ inbox[c][1] = "large" => missed[c] > 0      \* its length alone is fatal
  /\ inbox' = [inbox EXCEPT ![c] = SubSeq(@, k + 1, Len(@))]
  /\ lost' = [lost EXCEPT ![c] = @ \cup ({inbox[c][i] : i \in 1 .. k} \cap Vital)]
  /\ missed' = [missed EXCEPT ![c] = IF @ < 2 THEN @ + 1 ELSE 2]
  /\ age' = [age EXCEPT ![c] = 0] \/ UNCHANGED age

\* The answer to frame f cannot be written; handle_disconnect returns if its
\* acknowledgment cannot.
Unanswered(c, f) ==
  /\ f \in {"config", "data", "disconnect"}
  /\ lost' = [lost EXCEPT ![c] = @ \cup ({f} \cap Vital)]
  /\ Heard(c)

\* The worker reads a frame and deals with it.
ServerRead(c) ==
  LET f == Head(inbox[c])
      rest == [inbox EXCEPT ![c] = Tail(@)]
  IN /\ service = "up" /\ c \in reg /\ inbox[c] # <<>>
     /\ waited' = [waited EXCEPT ![c] = 0]
     /\ \/ /\ f \in {"keepalive", "config", "data"}
           /\ inbox' = rest
           /\ Heard(c)
           /\ IF f = call[c] THEN Returns(c) ELSE UNCHANGED clientVars
           /\ UNCHANGED <<reg, link, lost>>
        \/ /\ f = "disconnect"
           /\ Remove({c}, rest)
           /\ UNCHANGED clientVars
        \/ /\ Remove({c}, inbox)      \* too large, or torn and a length that is
           /\ UNCHANGED clientVars
        \/ /\ c \in Lossy
           /\ \/ \E k \in 1 .. Len(inbox[c]) : Lose(c, k)
              \/ Unanswered(c, f) /\ inbox' = rest
           /\ UNCHANGED <<reg, link, clientVars>>
     /\ UNCHANGED <<service, mslept, backlog>>

\* Mutants of StaleSets: as many seconds of grace again; one stale client clears the map.
StaleSetsGraced == {S \in SUBSET reg : \A c \in reg : c \in S <=> age[c] > 2 * Timeout}
StaleSetsAll == {IF \E c \in reg : age[c] > Timeout THEN reg ELSE {}}

\* get_stale_clients compares times that the clock has rounded to its unit.
StaleSets == {S \in SUBSET reg : /\ \A c \in reg : age[c] > Timeout => c \in S
                                 /\ \A c \in S : age[c] >= Timeout}

\* Mutant of MonitorWakes: the loop does not look at the flag.
MonitorGoesOn ==
  /\ service \in {"up", "stopping"} /\ mslept >= MonitorInterval
  /\ mslept' = 0
  /\ \E S \in StaleSets : Remove(S, inbox)
  /\ UNCHANGED <<service, backlog, waited, clientVars>>

\* The monitor wakes: it checks the clients, or sees the flag and ends, and with it
\* the service.
MonitorWakes ==
  /\ service \in {"up", "stopping"} /\ mslept >= MonitorInterval
  /\ mslept' = 0
  /\ \/ /\ service = "up"
        /\ \E S \in StaleSets : Remove(S, inbox)
        /\ UNCHANGED service
     \/ /\ service = "stopping"
        /\ service' = "down"
        /\ UNCHANGED <<reg, age, lossVars, link, inbox>>
  /\ UNCHANGED <<backlog, waited, clientVars>>

Service == MonitorWakes \/ \E c \in Conn : Accept(c) \/ ServerRead(c)

-----------------------------------------------------------------------------
(***************************************************************************)
(* The clients: applications and keepalive threads.                        *)
(***************************************************************************)

\* A frame is written.  Nobody reads what comes when the service stops (bound).
Written(c, f) ==
  /\ link[c] = "up"
  /\ inbox' = [inbox EXCEPT ![c] = IF service = "up" THEN Append(@, f) ELSE @]
  /\ UNCHANGED <<waited, link>>

\* The server has closed its end: the write, or the first half of it, succeeds and
\* brings a reset back.
Lost(c) ==
  /\ link[c] = "closed"
  /\ link' = [link EXCEPT ![c] = "reset"]
  /\ UNCHANGED <<inbox, waited>>

\* The write fails, on a connection that the server has left alone by its timeout of 45 s:
\* nobody reads once the service stops, and the buffers fill.
NotWritten(c) ==
  /\ link[c] = "reset" \/ (link[c] = "up" /\ service \in {"stopping", "down"})
  /\ UNCHANGED streamVars

\* TcpStream::connect, and the stream is dropped at once.
Probe(c) ==
  /\ service # "off" /\ app[c] = "none"
  /\ app' = [app EXCEPT ![c] = "out"] /\ link' = [link EXCEPT ![c] = "left"]
  /\ backlog' = backlog \cup {c}
  /\ UNCHANGED <<service, mslept, reg, age, lossVars, inbox, waited, call, result, lasts,
                 thread, slept>>

\* VpnClient::new: connect, and the request of the handshake.
New(c) ==
  /\ service # "off" /\ app[c] = "none"
  /\ app' = [app EXCEPT ![c] = "calling"] /\ call' = [call EXCEPT ![c] = "config"]
  /\ link' = [link EXCEPT ![c] = "up"]
  /\ backlog' = backlog \cup {c}
  /\ inbox' = [inbox EXCEPT ![c] = <<"config">>]
  /\ UNCHANGED <<service, mslept, reg, age, lossVars, waited, result, lasts, thread, slept>>

\* send_packet, up to the read.
Request(c, f) ==
  /\ app[c] = "idle"
  /\ \/ /\ Written(c, f) \/ Lost(c)
        /\ app' = [app EXCEPT ![c] = "calling"] /\ call' = [call EXCEPT ![c] = f]
        /\ UNCHANGED result
     \/ /\ NotWritten(c) \/ Lost(c)
        /\ result' = [result EXCEPT ![c] = "err"]
        /\ UNCHANGED <<app, call>>
  /\ UNCHANGED <<serverVars, lasts, thread, slept>>

\* The read fails: the end of the stream, a reset, or the timeout.  A VpnClient whose
\* handshake has failed is dropped.
CallFails(c) ==
  /\ app[c] = "calling"
  /\ link[c] # "up" \/ lasts[c] >= ReadTimeout
  /\ call' = [call EXCEPT ![c] = "none"] /\ result' = [result EXCEPT ![c] = "err"]
  /\ lasts' = [lasts EXCEPT ![c] = 0]
  /\ IF call[c] = "config"
     THEN app' = [app EXCEPT ![c] = "out"] /\ link' = [link EXCEPT ![c] = "left"]
     ELSE app' = [app EXCEPT ![c] = "idle"] /\ UNCHANGED link
  /\ UNCHANGED <<serverVars, inbox, waited, thread, slept>>

\* disconnect, or Drop.  If its write fails the thread is left to itself.
Disconnect(c) ==
  /\ app[c] = "idle"
  /\ \/ (Written(c, "disconnect") \/ Lost(c)) /\ app' = [app EXCEPT ![c] = "joining"]
     \/ (NotWritten(c) \/ Lost(c)) /\ app' = [app EXCEPT ![c] = "out"]
  /\ UNCHANGED <<serverVars, call, result, lasts, thread, slept>>

Joined(c) ==
  /\ app[c] = "joining" /\ thread[c] = "ended"
  /\ app' = [app EXCEPT ![c] = "out"] /\ lasts' = [lasts EXCEPT ![c] = 0]
  /\ link' = [link EXCEPT ![c] = "left"]
  /\ UNCHANGED <<serverVars, inbox, waited, call, result, thread, slept>>

\* Mutant of KeepaliveEnds: the thread looks at a flag that disconnect sets.
EndsWhenTold(c) == app[c] = "joining" /\ UNCHANGED streamVars

\* The thread ends when a write fails, and never because of its shutdown_flag.
KeepaliveEnds(c) == NotWritten(c) \/ Lost(c)

\* The keepalive thread has slept.
KeepaliveWakes(c) ==
  /\ thread[c] = "asleep" /\ slept[c] >= Interval
  /\ slept' = [slept EXCEPT ![c] = 0]
  /\ \/ (Written(c, "keepalive") \/ Lost(c)) /\ UNCHANGED thread
     \/ KeepaliveEnds(c) /\ thread' = [thread EXCEPT ![c] = "ended"]
  /\ UNCHANGED <<serverVars, app, call, result, lasts>>

\* The client's process is gone.
Vanish(c) ==
  /\ app[c] \in {"calling", "idle", "joining"}
  /\ app' = [app EXCEPT ![c] = "out"] /\ call' = [call EXCEPT ![c] = "none"]
  /\ lasts' = [lasts EXCEPT ![c] = 0]
  /\ thread' = [thread EXCEPT ![c] = "none"] /\ slept' = [slept EXCEPT ![c] = 0]
  /\ link' = [link EXCEPT ![c] = "left"]
  /\ UNCHANGED <<serverVars, inbox, waited, result>>

\* What the library does by itself in a client.
Client == \E c \in Conn : CallFails(c) \/ Joined(c) \/ KeepaliveWakes(c)

-----------------------------------------------------------------------------
(***************************************************************************)
(* Time.                                                                   *)
(***************************************************************************)

Awaited(c) == c \in backlog \/ (c \in reg /\ inbox[c] # <<>>)

\* Somebody has to act before the clock goes on.
Urgent ==
  \/ service \in {"up", "stopping"} /\ mslept >= MonitorInterval + Lag
  \/ \E c \in Conn :
       \/ service = "up" /\ Awaited(c) /\ waited[c] >= Lag
       \/ thread[c] = "asleep" /\ slept[c] >= Interval + Lag
       \/ app[c] = "calling" /\ (link[c] # "up" \/ lasts[c] >= ReadTimeout)
       \/ app[c] = "joining" /\ thread[c] = "ended"

\* Bounds of the clocks that no deadline stops, beyond what the properties compare.
AgeCap == Timeout + MonitorInterval + Lag + 1
JoinCap == 2 * (Interval + Lag) + 1

Older(t, cap) == IF t < cap THEN t + 1 ELSE t

Tick ==
  /\ ~Urgent
  /\ mslept' = IF service \in {"up", "stopping"} THEN mslept + 1 ELSE mslept
  /\ age' = [c \in Conn |-> IF c \in reg THEN Older(age[c], AgeCap) ELSE 0]
  /\ waited' = [c \in Conn |-> IF Awaited(c) THEN Older(waited[c], Lag) ELSE 0]
  /\ lasts' = [c \in Conn |-> IF app[c] \in {"calling", "joining"} THEN Older(lasts[c], JoinCap)
                              ELSE 0]
  /\ slept' = [c \in Conn |-> IF thread[c] = "asleep" THEN slept[c] + 1 ELSE 0]
  /\ UNCHANGED <<service, backlog, reg, lossVars, inbox, link, app, call, result, thread>>

-----------------------------------------------------------------------------
\* Applications that do what they like.
Application == \E c \in Conn :
  \/ New(c) \/ Disconnect(c) \/ Vanish(c)
  \/ \E f \in {"data", "large"} : Request(c, f)

Next == Start \/ Shutdown \/ Service \/ Client \/ Application \/ Tick

Spec == Init /\ [][Next]_vars

-----------------------------------------------------------------------------
(***************************************************************************)
(* Properties.                                                             *)
(***************************************************************************)

Frame == {"config", "data", "large", "disconnect", "keepalive"}

\* The states of the two sides and their clocks.
TypeOK ==
  /\ service \in {"off", "up", "stopping", "down"} /\ mslept \in 0 .. MonitorInterval + Lag
  /\ backlog \subseteq Conn /\ reg \subseteq Conn \ backlog
  /\ age \in [Conn -> 0 .. AgeCap]
  /\ lost \in [Conn -> SUBSET Vital] /\ missed \in [Conn -> 0 .. 2]
  /\ inbox \in [Conn -> Seq(Frame)]
  /\ waited \in [Conn -> 0 .. Lag]
  /\ link \in [Conn -> {"none", "up", "closed", "reset", "left"}]
  /\ app \in [Conn -> {"none", "calling", "idle", "joining", "out"}]
  /\ call \in [Conn -> {"none", "config", "data", "large"}]
  /\ result \in [Conn -> {"none", "ok", "err"}]
  /\ lasts \in [Conn -> 0 .. JoinCap]
  /\ thread \in [Conn -> {"none", "asleep", "ended"}]
  /\ slept \in [Conn -> 0 .. Interval + Lag]

\* A client that is there is not evicted: with its thread and the server up to Lag late,
\* with the handshake before the first keepalive, and even with one read that loses its
\* keepalive, it is never silent for as long as the timeout.
KeptAlive ==
  [][MonitorWakes =>
       \A c \in reg : link[c] = "up" /\ app[c] # "out" /\ missed[c] < 2 => c \in reg']_vars

\* A client that is gone stays registered for the timeout and one turn of the monitor
\* at most.
EvictedInTime ==
  service = "up" => \A c \in reg : age[c] <= Timeout + MonitorInterval + Lag

\* While the server is up, a keepalive thread ends only when the server has removed the
\* client: when disconnect returns after its join, the client is no longer registered,
\* whatever the server has lost.
EndsAfterRemoval == service = "up" => \A c \in Conn : thread[c] = "ended" => c \notin reg

\* disconnect joins a thread that sleeps and has to write twice to notice: while the
\* server is up that takes two intervals, unless the Disconnect was lost or could not be
\* acknowledged.  Then the keepalives go on, and nothing ends them.
DisconnectInTime ==
  \A c \in Conn : service = "up" /\ app[c] = "joining" /\ "disconnect" \notin lost[c] =>
    lasts[c] <= 2 * (Interval + Lag)

\* Of a registered connection the comment at the timeout says that it is "1 minute".
EvictedAfterAMinute ==
  service = "up" => \A c \in reg : age[c] <= Seconds(60) + MonitorInterval + Lag
=============================================================================
