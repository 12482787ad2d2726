-------------------------- MODULE VpnServerProofs --------------------------
(***************************************************************************)
(* Theorems about VpnServer, for every set of addresses and every bound.   *)
(***************************************************************************)
EXTENDS VpnServer, SequenceTheorems, TLAPS

\* The worker is between the read of req's frame and the end of its handling.
Handling == {"touch", "config", "routes", "reply", "discRemove", "discRoutes", "discConfig"}

\* What the worker has read has arrived.
ReadsArrived == \A c \in Conn : rd[c] \in 0 .. Len(frames[c])

\* Addresses of established connections, and who may still be open at one.
AddressesOK ==
  /\ \A c \in Conn : c <= nconn => addr[c] \in ClientId
  /\ \A c, d \in Conn : c < d /\ d <= nconn /\ addr[c] = addr[d] => peer[c] # "open"

\* Connection c has been through the listener's hands.
Inserted(c) == c \in Conn /\ c <= nacc /\ (lpc = "insert" => c < nacc)

\* The map holds inserted connections under their own address.
MapOK ==
  /\ lpc = "insert" => nacc \in Conn
  /\ \A id \in ClientId :
       clients[id] # NoConn => Inserted(clients[id]) /\ addr[clients[id]] = id

\* The worker handles a frame it has read from req, whose address is cur; the map
\* has req or a later connection there.
WorkerOK ==
  /\ wpc \in Handling =>
       /\ Inserted(req) /\ addr[req] = cur /\ rd[req] > 0
       /\ cur \in ClientId
       /\ clients[cur] # NoConn => req <= clients[cur]
  /\ wpc = "remove" => cur \in ClientId

\* Connections that were written to have been established.
WrittenOK == \A c \in Conn : out[c] # <<>> => c <= nconn

\* Who holds the server mutex across steps.
LockOK ==
  /\ kpc = "evict" <=> serverLock = "monitor"
  /\ mpc = "joinListener" <=> serverLock = "main"

\* What the monitor listed was in the map.
ListedOK == \A c \in listed : Inserted(c)

\* main has not yet started the threads whose start lies ahead of it, and has joined
\* those whose join lies behind it.
JoinsOK ==
  /\ mpc = "start" => lpc = "unborn"
  /\ mpc \in {"start", "spawnMonitor"} => kpc = "unborn"
  /\ mpc \in {"start", "spawnMonitor", "spawnWorker"} => wpc = "unborn"
  /\ mpc \in {"joinMonitor", "stopServer", "joinListener", "done"} => wpc = "exited"
  /\ mpc \in {"stopServer", "joinListener", "done"} => kpc = "exited"
  /\ mpc = "done" => lpc = "exited"

IInv == /\ TypeOK
        /\ ReadsArrived /\ AddressesOK /\ MapOK /\ WorkerOK /\ WrittenOK
        /\ LockOK /\ ListedOK /\ JoinsOK
        /\ NoReplyAstray /\ EvictsOnlyUnrefreshed

-----------------------------------------------------------------------------
\* What a reset leaves of the frames of a connection: those read already.
LEMMA ReadPrefix ==
  ASSUME NEW s \in Seq(FrameKind), NEW n \in 0 .. Len(s)
  PROVE  /\ SubSeq(s, 1, n) \in Seq(FrameKind)
         /\ Len(SubSeq(s, 1, n)) = n
         /\ \A i \in 1 .. n : SubSeq(s, 1, n)[i] = s[i]
BY SubSeqProperties, ElementOfSeq

\* The groups of variables are names for tuples, no more.
USE DEF socketVars, tableVars, mainVars, monitorVars, workerVars

\* What each of the actors never changes.
LEMMA Untouched ==
  /\ Environment => UNCHANGED <<nacc, rd, out, clients, tableVars, serverLock, mainVars, lpc,
                                monitorVars, workerVars>>
  /\ Main => UNCHANGED <<socketVars, nacc, rd, out, stale, clients, tableVars, todo, listed,
                         batch, cur, req>>
  /\ Listener => UNCHANGED <<socketVars, rd, out, stale, tableVars, serverLock, mainVars,
                             monitorVars, workerVars>>
  /\ Monitor => UNCHANGED <<socketVars, nacc, rd, out, stale, tableVars, mainVars, lpc,
                            workerVars>>
  /\ Worker => UNCHANGED <<socketVars, nacc, serverLock, mainVars, lpc, monitorVars>>
  /\ Terminated \/ UNCHANGED vars =>
       UNCHANGED <<socketVars, nacc, rd, out, stale, clients, tableVars, serverLock, mainVars,
                   lpc, monitorVars, workerVars>>
<1>1. Environment => UNCHANGED <<nacc, rd, out, clients, tableVars, serverLock, mainVars, lpc,
                                 monitorVars, workerVars>>
  BY DEF Environment, Connect, Send, PeerClose, PeerReset, Elapse
<1>2. Main => UNCHANGED <<socketVars, nacc, rd, out, stale, clients, tableVars, todo, listed,
                          batch, cur, req>>
  BY DEF Main, StartListener, StartMonitor, StartWorker, Shutdown, JoinWorker, JoinMonitor,
         StopServer, JoinListener
<1>3. Listener => UNCHANGED <<socketVars, rd, out, stale, tableVars, serverLock, mainVars,
                              monitorVars, workerVars>>
  BY DEF Listener, ListenerCheck, Accept, Insert
<1>4. Monitor => UNCHANGED <<socketVars, nacc, rd, out, stale, tableVars, mainVars, lpc,
                             workerVars>>
  BY DEF Monitor, MonitorCheck, ListStale, Evict, EndCheck
<1>5. Worker => UNCHANGED <<socketVars, nacc, serverLock, mainVars, lpc, monitorVars>>
  BY DEF Worker, WorkerCheck, Snapshot, Visit, Touch, GetConfig, UpdateRoutes, Reply, Remove,
         DisconnectClient, DropRoutes, DropConfig
<1>6. Terminated \/ UNCHANGED vars =>
        UNCHANGED <<socketVars, nacc, rd, out, stale, clients, tableVars, serverLock, mainVars,
                    lpc, monitorVars, workerVars>>
  BY DEF Terminated, vars
<1> QED
  BY <1>1, <1>2, <1>3, <1>4, <1>5, <1>6

-----------------------------------------------------------------------------
LEMMA InitTypeOK == ASSUME Init PROVE TypeOK
<1> USE ConstantsAssumption DEF Init, NoConn, NoFrame
<1>1. nconn \in 0 .. MaxConn /\ nacc \in 0 .. nconn
  OBVIOUS
<1>2. /\ addr \in [Conn -> ClientId \cup {NoClient}]
      /\ peer \in [Conn -> {"none", "open", "closed", "reset"}]
  OBVIOUS
<1>3. /\ frames \in [Conn -> Seq(FrameKind)]
      /\ rd \in [Conn -> Nat]
      /\ out \in [Conn -> Seq(Conn \X Nat)]
  OBVIOUS
<1>4. routes \in [ClientId -> (Conn \cup {NoConn}) \X Nat]
  OBVIOUS
<1>5. /\ configs \in [ClientId -> Conn \cup {NoConn}]
      /\ clients \in [ClientId -> Conn \cup {NoConn}]
  OBVIOUS
<1>6. /\ stopping \in BOOLEAN /\ lstopping \in BOOLEAN
      /\ wpc \in WorkerPC
      /\ cur \in ClientId \cup {NoClient} /\ req \in Conn \cup {NoConn}
  BY DEF WorkerPC
<1> QED
  BY <1>1, <1>2, <1>3, <1>4, <1>5, <1>6 DEF TypeOK

LEMMA InitIInv == Init => IInv
<1> SUFFICES ASSUME Init PROVE IInv
  OBVIOUS
<1> USE DEF Init, NoConn, NoFrame
<1>1. TypeOK
  BY InitTypeOK
<1>2. ReadsArrived /\ AddressesOK
  BY ConstantsAssumption DEF ReadsArrived, AddressesOK, Conn
<1>3. MapOK /\ WorkerOK /\ WrittenOK
  BY DEF MapOK, WorkerOK, Handling, WrittenOK
<1>4. LockOK /\ ListedOK /\ JoinsOK
  BY DEF LockOK, ListedOK, JoinsOK
<1>5. NoReplyAstray /\ EvictsOnlyUnrefreshed
  BY DEF NoReplyAstray, EvictsOnlyUnrefreshed
<1> QED
  BY <1>1, <1>2, <1>3, <1>4, <1>5 DEF IInv

-----------------------------------------------------------------------------
\* What a reset leaves of the frames of the connections.
LEMMA KeptFrames ==
  ASSUME TypeOK, ReadsArrived, NEW c \in Conn
  PROVE  /\ SubSeq(frames[c], 1, rd[c]) \in Seq(FrameKind)
         /\ Len(SubSeq(frames[c], 1, rd[c])) = rd[c]
BY ReadPrefix DEF TypeOK, ReadsArrived

LEMMA EnvironmentTypes == ASSUME IInv, Environment PROVE TypeOK'
<1> USE DEF IInv
<1>1. ASSUME NEW id \in ClientId, Connect(id) PROVE TypeOK'
  <2> USE <1>1
  <2>1. nconn' \in 0 .. MaxConn /\ nacc' \in 0 .. nconn'
    BY ConstantsAssumption DEF TypeOK, Connect
  <2>2. addr' \in [Conn -> ClientId \cup {NoClient}]
    BY DEF TypeOK, Connect
  <2>3. peer' \in [Conn -> {"none", "open", "closed", "reset"}]
    BY DEF TypeOK, Connect
  <2>4. frames' \in [Conn -> Seq(FrameKind)]
    BY KeptFrames DEF TypeOK, Connect
  <2>5. UNCHANGED <<nacc, rd, out, stale, clients, routes, configs, serverLock, mpc, stopping,
                    lstopping, lpc, kpc, todo, listed, wpc, batch, cur, req>>
    BY DEF Connect
  <2> QED
    BY SMTT(30), <2>1, <2>2, <2>3, <2>4, <2>5 DEF TypeOK
<1>2. ASSUME NEW c \in Conn, NEW k \in Traffic, Send(c, k) PROVE TypeOK'
  <2>1. k \in FrameKind
    BY ConstantsAssumption
  <2> QED
    BY <1>2, <2>1 DEF TypeOK, Send
<1>3. ASSUME NEW c \in Conn, PeerClose(c) PROVE TypeOK'
  BY <1>3 DEF TypeOK, PeerClose
<1>4. ASSUME NEW c \in Conn, PeerReset(c) PROVE TypeOK'
  <2>1. peer' \in [Conn -> {"none", "open", "closed", "reset"}]
    BY <1>4 DEF TypeOK, PeerReset
  <2>2. frames' \in [Conn -> Seq(FrameKind)]
    BY <1>4, KeptFrames DEF TypeOK, PeerReset
  <2>3. UNCHANGED <<nconn, addr, nacc, rd, out, stale, clients, routes, configs, serverLock,
                    mpc, stopping, lstopping, lpc, kpc, todo, listed, wpc, batch, cur, req>>
    BY <1>4 DEF PeerReset
  <2> QED
    BY SMTT(30), <2>1, <2>2, <2>3 DEF TypeOK
<1>5. ASSUME NEW c \in Conn, Elapse(c) PROVE TypeOK'
  BY SMTT(30), <1>5 DEF TypeOK, Elapse
<1> QED
  BY <1>1, <1>2, <1>3, <1>4, <1>5 DEF Environment

LEMMA MainTypes == ASSUME TypeOK, Main PROVE TypeOK'
<1>1. CASE StartListener
  BY <1>1 DEF TypeOK, StartListener
<1>2. CASE StartMonitor
  BY <1>2 DEF TypeOK, StartMonitor
<1>3. CASE StartWorker
  BY <1>3 DEF TypeOK, StartWorker, WorkerPC
<1>4. CASE Shutdown
  BY <1>4 DEF TypeOK, Shutdown
<1>5. CASE JoinWorker
  BY <1>5 DEF TypeOK, JoinWorker
<1>6. CASE JoinMonitor
  BY <1>6 DEF TypeOK, JoinMonitor
<1>7. CASE StopServer
  BY <1>7 DEF TypeOK, StopServer
<1>8. CASE JoinListener
  BY <1>8 DEF TypeOK, JoinListener
<1> QED
  BY <1>1, <1>2, <1>3, <1>4, <1>5, <1>6, <1>7, <1>8 DEF Main

LEMMA ListenerTypes == ASSUME TypeOK, MapOK, Listener PROVE TypeOK'
<1>1. CASE ListenerCheck
  BY <1>1 DEF TypeOK, ListenerCheck
<1>2. CASE Accept
  BY <1>2, ConstantsAssumption DEF TypeOK, Accept, NothingToAccept
<1>3. CASE Insert
  <2>1. clients' \in [ClientId -> Conn \cup {NoConn}]
    BY <1>3 DEF TypeOK, MapOK, Insert
  <2> QED
    BY <1>3, <2>1 DEF TypeOK, Insert
<1> QED
  BY <1>1, <1>2, <1>3 DEF Listener

LEMMA MonitorTypes == ASSUME TypeOK, Monitor PROVE TypeOK'
<1>1. CASE MonitorCheck
  BY <1>1 DEF TypeOK, MonitorCheck
<1>2. CASE ListStale
  BY <1>2 DEF TypeOK, ListStale, StaleClients, Registered
<1>3. ASSUME NEW id \in ClientId, Evict(id) PROVE TypeOK'
  BY <1>3 DEF TypeOK, Evict
<1>4. CASE EndCheck
  BY <1>4 DEF TypeOK, EndCheck
<1> QED
  BY <1>1, <1>2, <1>3, <1>4 DEF Monitor

LEMMA WorkerTypes == ASSUME TypeOK, MapOK, WorkerOK, Worker PROVE TypeOK'
<1>1. CASE WorkerCheck
  BY <1>1 DEF TypeOK, WorkerCheck, WorkerPC
<1>2. CASE Snapshot
  BY <1>2 DEF TypeOK, Snapshot, WorkerPC
<1>3. ASSUME NEW id \in ClientId, Visit(id) PROVE TypeOK'
  <2>1. rd' \in [Conn -> Nat]
    BY <1>3 DEF TypeOK, Visit
  <2>2. stale' \subseteq Conn
    BY <1>3 DEF TypeOK, Visit
  <2>3. cur' \in ClientId \cup {NoClient} /\ req' \in Conn \cup {NoConn}
    BY <1>3 DEF TypeOK, Visit, Handled
  <2>4. wpc' \in WorkerPC
    <3>1. \A c \in Conn : rd[c] < Len(frames[c]) => Dispatch(frames[c][rd[c] + 1]) \in WorkerPC
      BY DEF TypeOK, Dispatch, WorkerPC, FrameKind, Fatal
    <3> QED
      BY <1>3, <3>1 DEF Visit, Handled, WorkerPC, TypeOK
  <2> QED
    <3>1. batch' \subseteq ClientId
      BY <1>3 DEF TypeOK, Visit, Rest
    <3>2. UNCHANGED <<nconn, nacc, addr, peer, frames, out, clients, routes, configs>>
      BY <1>3 DEF Visit, socketVars, tableVars
    <3>3. UNCHANGED <<serverLock, mpc, lpc, kpc, todo, listed>>
      BY <1>3 DEF Visit, mainVars, monitorVars
    <3>4. stopping' \in BOOLEAN /\ lstopping' \in BOOLEAN
      BY <1>3 DEF Visit, mainVars, TypeOK
    <3> QED
      BY <2>1, <2>2, <2>3, <2>4, <3>1, <3>2, <3>3, <3>4 DEF TypeOK
<1>4. CASE Touch
  BY <1>4 DEF TypeOK, Touch, WorkerPC, Handled, Discard
<1>5. CASE GetConfig
  <2>1. wpc' \in WorkerPC
    BY <1>5 DEF GetConfig, WorkerPC
  <2>2. configs' \in [ClientId -> Conn \cup {NoConn}]
    BY <1>5 DEF TypeOK, GetConfig
  <2> QED
    BY <1>5, <2>1, <2>2 DEF TypeOK, GetConfig
<1>6. CASE UpdateRoutes
  <2>1. wpc' \in WorkerPC
    BY <1>6 DEF UpdateRoutes, WorkerPC
  <2>2. <<req, rd[req]>> \in (Conn \cup {NoConn}) \X Nat
    BY <1>6 DEF TypeOK, UpdateRoutes, WorkerOK, Handling, Inserted
  <2>3. routes' \in [ClientId -> (Conn \cup {NoConn}) \X Nat]
    BY <1>6, <2>2 DEF TypeOK, UpdateRoutes, Installed
  <2>4. UNCHANGED <<nconn, addr, peer, frames, nacc, rd, out, stale, clients, configs,
                    serverLock, mpc, stopping, lstopping, lpc, kpc, todo, listed, batch, cur,
                    req>>
    BY <1>6 DEF UpdateRoutes
  <2> QED
    BY <2>1, <2>3, <2>4 DEF TypeOK
<1>7. CASE Reply
  <2>1. wpc' \in WorkerPC
    BY <1>7 DEF Reply, WorkerPC, Handled, Discard, IoError
  <2>2. cur' \in ClientId \cup {NoClient} /\ req' \in Conn \cup {NoConn}
    BY <1>7 DEF TypeOK, Reply, Handled, Discard, IoError
  <2>3. <<req, rd[req]>> \in Conn \X Nat
    BY <1>7 DEF TypeOK, Reply, WorkerOK, Handling, Inserted
  <2>4. Delivered(clients[cur], <<req, rd[req]>>) \in [Conn -> Seq(Conn \X Nat)]
    <3>1. \A c \in Conn : Append(out[c], <<req, rd[req]>>) \in Seq(Conn \X Nat)
      BY <2>3 DEF TypeOK
    <3>2. out \in [Conn -> Seq(Conn \X Nat)]
      BY DEF TypeOK
    <3> QED
      BY <3>1, <3>2 DEF Delivered
  <2>5. out' \in [Conn -> Seq(Conn \X Nat)]
    <3>1. out \in [Conn -> Seq(Conn \X Nat)]
      BY DEF TypeOK
    <3> QED
      BY <1>7, <2>4, <3>1 DEF Reply
  <2> QED
    BY ZenonT(60), <1>7, <2>1, <2>2, <2>5 DEF TypeOK, Reply
<1>8. CASE Remove
  BY ZenonT(60), <1>8 DEF TypeOK, Remove, Handled, WorkerPC
<1>9. CASE DisconnectClient
  <2>1. wpc' \in WorkerPC
    BY <1>9 DEF DisconnectClient, WorkerPC
  <2>2. clients' \in [ClientId -> Conn \cup {NoConn}]
    BY <1>9 DEF TypeOK, DisconnectClient
  <2> QED
    BY <1>9, <2>1, <2>2 DEF TypeOK, DisconnectClient
<1>10. CASE DropRoutes
  <2>1. wpc' \in WorkerPC
    BY <1>10 DEF DropRoutes, WorkerPC
  <2>2. NoFrame \in (Conn \cup {NoConn}) \X Nat
    BY DEF NoFrame
  <2>3. routes' \in [ClientId -> (Conn \cup {NoConn}) \X Nat]
    BY <1>10, <2>2 DEF TypeOK, DropRoutes, WithoutRoutes
  <2> QED
    BY <1>10, <2>1, <2>3 DEF TypeOK, DropRoutes
<1>11. CASE DropConfig
  <2>1. wpc' \in WorkerPC
    BY <1>11 DEF DropConfig, WorkerPC, Handled
  <2>2. configs' \in [ClientId -> Conn \cup {NoConn}]
    BY <1>11 DEF TypeOK, DropConfig
  <2> QED
    BY <1>11, <2>1, <2>2 DEF TypeOK, DropConfig, Handled
<1> QED
  BY <1>1, <1>2, <1>3, <1>4, <1>5, <1>6, <1>7, <1>8, <1>9, <1>10, <1>11 DEF Worker

LEMMA TypeStep == ASSUME IInv, [Next]_vars PROVE TypeOK'
<1>1. CASE Terminated \/ UNCHANGED vars
  BY <1>1 DEF Terminated, vars, IInv, TypeOK
<1> QED
  BY <1>1, EnvironmentTypes, MainTypes, ListenerTypes, MonitorTypes, WorkerTypes
  DEF Next, IInv

-----------------------------------------------------------------------------
LEMMA ReadsStep == ASSUME IInv, [Next]_vars PROVE ReadsArrived'
<1> USE DEF IInv, ReadsArrived
<1>1. CASE Environment
  <2> SUFFICES ASSUME NEW c \in Conn PROVE rd[c] \in 0 .. Len(frames'[c])
    BY <1>1, Untouched
  <2>1. /\ frames[c] \in Seq(FrameKind) /\ rd[c] \in 0 .. Len(frames[c])
        /\ rd[c] <= Len(SubSeq(frames[c], 1, rd[c]))
    BY KeptFrames DEF TypeOK
  <2>2. ASSUME NEW id \in ClientId, Connect(id) PROVE rd[c] \in 0 .. Len(frames'[c])
    BY <2>1, <2>2, KeptFrames DEF Connect
  <2>3. ASSUME NEW d \in Conn, NEW k \in Traffic, Send(d, k)
        PROVE rd[c] \in 0 .. Len(frames'[c])
    BY <2>1, <2>3, ConstantsAssumption DEF Send, TypeOK
  <2>4. ASSUME NEW d \in Conn, PeerReset(d) PROVE rd[c] \in 0 .. Len(frames'[c])
    BY <2>1, <2>4, KeptFrames DEF PeerReset, TypeOK
  <2>5. ASSUME NEW d \in Conn, PeerClose(d) \/ Elapse(d) PROVE rd[c] \in 0 .. Len(frames'[c])
    BY <2>1, <2>5 DEF PeerClose, Elapse
  <2> QED
    BY <1>1, <2>2, <2>3, <2>4, <2>5 DEF Environment
<1>2. ASSUME NEW id \in ClientId, Visit(id) PROVE ReadsArrived'
  BY <1>2 DEF Visit, TypeOK
<1>3. CASE UNCHANGED <<rd, frames>>
  BY <1>3
<1>4. Worker => UNCHANGED <<rd, frames>> \/ \E id \in ClientId : Visit(id)
  BY DEF Worker, WorkerCheck, Snapshot, Touch, GetConfig, UpdateRoutes, Reply, Remove,
         DisconnectClient, DropRoutes, DropConfig
<1> QED
  BY <1>1, <1>2, <1>3, <1>4, Untouched DEF Next

LEMMA AddressesStep == ASSUME IInv, [Next]_vars PROVE AddressesOK'
<1> USE DEF IInv, AddressesOK
<1>1. ASSUME NEW id \in ClientId, Connect(id) PROVE AddressesOK'
  <2>1. /\ nconn \in 0 .. MaxConn /\ nconn' = nconn + 1 /\ nconn + 1 \in Conn
        /\ \A c \in Conn : c \in Nat /\ c # 0
    BY <1>1, ConstantsAssumption DEF Connect, Conn, TypeOK
  <2>2. \A c \in Conn : addr'[c] = IF c = nconn + 1 THEN id ELSE addr[c]
    BY <1>1, <2>1 DEF Connect, TypeOK
  <2>3. \A c \in Conn : c # nconn + 1 => peer'[c] \in {peer[c], "reset"}
    BY <1>1, <2>1 DEF Connect
  <2>4. \A c \in Conn : c <= nconn /\ addr[c] = id => peer'[c] = "reset"
    BY <1>1, <2>1 DEF Connect
  <2>5. \A c \in Conn : c <= nconn + 1 => c <= nconn \/ c = nconn + 1
    BY <2>1
  <2>6. \A c \in Conn : c <= nconn' => addr'[c] \in ClientId
    BY <2>1, <2>2, <2>5
  <2>7. ASSUME NEW c \in Conn, NEW d \in Conn, c < d, d <= nconn', addr'[c] = addr'[d]
        PROVE  peer'[c] # "open"
    <3>1. c <= nconn /\ c # nconn + 1 /\ addr'[c] = addr[c]
      BY <2>1, <2>2, <2>7
    <3>2. CASE d = nconn + 1
      BY <2>2, <2>4, <2>7, <3>1, <3>2
    <3>3. CASE d <= nconn
      <4>1. d # nconn + 1 /\ addr'[d] = addr[d]
        BY <2>1, <2>2, <3>3
      <4> QED
        BY <2>3, <2>7, <3>1, <3>3, <4>1
    <3> QED
      BY <2>1, <2>5, <2>7, <3>2, <3>3
  <2> QED
    BY <2>6, <2>7
<1>2. ASSUME NEW c \in Conn, NEW k \in Traffic, Send(c, k) PROVE AddressesOK'
  BY <1>2 DEF Send, TypeOK
<1>3. CASE UNCHANGED socketVars
  BY <1>3
<1>4. ASSUME NEW c \in Conn, PeerClose(c) \/ PeerReset(c) \/ Elapse(c) PROVE AddressesOK'
  BY <1>4 DEF PeerClose, PeerReset, Elapse, TypeOK
<1> QED
  BY <1>1, <1>2, <1>3, <1>4, Untouched DEF Next, Environment
-----------------------------------------------------------------------------
LEMMA MapStep == ASSUME IInv, [Next]_vars PROVE MapOK'
<1> USE DEF IInv, MapOK, Inserted, NoConn
<1>1. CASE Environment
  <2>1. UNCHANGED <<clients, nacc, lpc>>
    BY <1>1, Untouched
  <2>2. \A c \in Conn : c <= nconn => addr'[c] = addr[c]
    BY <1>1, ConstantsAssumption
    DEF Environment, Connect, Send, PeerClose, PeerReset, Elapse, Conn, TypeOK
  <2>3. \A c \in Conn : Inserted(c) => c <= nconn
    BY DEF TypeOK, Conn
  <2> QED
    BY <2>1, <2>2, <2>3
<1>2. CASE UNCHANGED <<clients, nacc, lpc, addr>>
  BY <1>2
<1>3. CASE Main
  BY <1>3, Untouched DEF Main, StartListener, StartMonitor, StartWorker, Shutdown, JoinWorker,
                         JoinMonitor, StopServer, JoinListener
<1>4. CASE Listener
  <2>1. CASE ListenerCheck
    BY <2>1 DEF ListenerCheck
  <2>2. CASE Accept
    <3>1. lpc = "accept" /\ UNCHANGED <<clients, addr>>
      BY <2>2 DEF Accept
    <3>2. \A c \in Conn : c \in Nat
      BY DEF Conn
    <3>3. CASE nacc' = nacc + 1 /\ nacc < nconn
      <4>1. nacc \in Nat /\ nacc' \in Conn
        BY <3>3, ConstantsAssumption DEF TypeOK, Conn
      <4>2. \A c \in Conn : c <= nacc => c <= nacc' /\ c < nacc'
        BY <3>2, <3>3, <4>1
      <4> QED
        BY <3>1, <4>1, <4>2
    <3>4. CASE nacc' = nacc /\ lpc' = "check"
      BY <3>1, <3>4
    <3> QED
      BY <2>2, <3>3, <3>4 DEF Accept, NothingToAccept
  <2>3. CASE Insert
    <3>1. nacc \in Conn /\ lpc' # "insert" /\ UNCHANGED <<nacc, addr>>
      BY <2>3 DEF Insert
    <3>2. \A id \in ClientId : clients'[id] = IF id = addr[nacc] THEN nacc ELSE clients[id]
      BY <2>3 DEF Insert, ClientKey, TypeOK
    <3>3. \A c \in Conn : c < nacc => c <= nacc
      BY DEF Conn, TypeOK
    <3>4. nacc <= nacc
      BY <3>1 DEF Conn
    <3> QED
      BY <2>3, <3>1, <3>2, <3>3, <3>4 DEF Insert
  <2> QED
    BY <1>4, <2>1, <2>2, <2>3 DEF Listener
<1>5. ASSUME UNCHANGED <<nacc, lpc, addr>>,
             \A id \in ClientId : clients'[id] \in {clients[id], NoConn}
      PROVE  MapOK'
  BY <1>5
<1>6. CASE Monitor
  <2>1. \A id \in ClientId : clients'[id] \in {clients[id], NoConn}
    BY <1>6 DEF Monitor, MonitorCheck, ListStale, Evict, EndCheck, TypeOK
  <2> QED
    BY <1>5, <1>6, <2>1, Untouched
<1>7. CASE Worker
  <2>1. \A id \in ClientId : clients'[id] \in {clients[id], NoConn}
    BY <1>7 DEF Worker, WorkerCheck, Snapshot, Visit, Touch, GetConfig, UpdateRoutes, Reply,
                Remove, DisconnectClient, DropRoutes, DropConfig, TypeOK
  <2> QED
    BY <1>5, <1>7, <2>1, Untouched
<1> QED
  BY <1>1, <1>2, <1>3, <1>4, <1>6, <1>7, Untouched DEF Next

LEMMA WrittenStep == ASSUME IInv, [Next]_vars PROVE WrittenOK'
<1> USE DEF IInv, WrittenOK
<1>1. nconn <= nconn' /\ nconn \in Nat /\ nconn' \in Nat
  <2>1. nconn \in Nat /\ nconn' \in Nat
    BY TypeStep, ConstantsAssumption DEF TypeOK
  <2>2. Environment => nconn' \in {nconn, nconn + 1}
    BY DEF Environment, Connect, Send, PeerClose, PeerReset, Elapse
  <2> QED
    BY <2>1, <2>2, Untouched DEF Next
<1>2. CASE Reply
  <2>1. \A c \in Conn : out'[c] = out[c] \/ c = clients[cur]
    BY <1>2 DEF Reply, Delivered, TypeOK
  <2>2. clients[cur] # NoConn => clients[cur] <= nconn
    BY <1>2 DEF Reply, WorkerOK, Handling, MapOK, Inserted, TypeOK, Conn
  <2>3. \A c \in Conn : c # NoConn
    BY DEF Conn, NoConn
  <2> QED
    BY <1>1, <2>1, <2>2, <2>3, <1>2, Untouched DEF Worker
<1>3. CASE UNCHANGED out
  BY <1>1, <1>3 DEF Conn
<1>4. Worker => Reply \/ UNCHANGED out
  BY DEF Worker, WorkerCheck, Snapshot, Visit, Touch, GetConfig, UpdateRoutes,
         Remove, DisconnectClient, DropRoutes, DropConfig
<1> QED
  BY <1>2, <1>3, <1>4, Untouched DEF Next

LEMMA LockStep == ASSUME IInv, [Next]_vars PROVE LockOK'
<1> USE DEF IInv, LockOK
<1>1. CASE Main
  BY <1>1 DEF Main, StartListener, StartMonitor, StartWorker, Shutdown, JoinWorker, JoinMonitor,
              StopServer, JoinListener, JoinsOK
<1>2. CASE Monitor
  BY <1>2 DEF Monitor, MonitorCheck, ListStale, Evict, EndCheck
<1>3. CASE UNCHANGED <<serverLock, kpc, mpc>>
  BY <1>3
<1> QED
  BY <1>1, <1>2, <1>3, Untouched DEF Next

LEMMA JoinsStep == ASSUME IInv, [Next]_vars PROVE JoinsOK'
<1> USE DEF IInv, JoinsOK
<1>1. CASE Main
  BY <1>1 DEF Main, StartListener, StartMonitor, StartWorker, Shutdown, JoinWorker, JoinMonitor,
              StopServer, JoinListener
<1>2. CASE Listener
  BY <1>2 DEF Listener, ListenerCheck, Accept, Insert
<1>3. CASE Monitor
  BY <1>3 DEF Monitor, MonitorCheck, ListStale, Evict, EndCheck
<1>4. CASE Worker
  BY <1>4 DEF Worker, WorkerCheck, Snapshot, Visit, Touch, GetConfig, UpdateRoutes, Reply,
              Remove, DisconnectClient, DropRoutes, DropConfig
<1>5. CASE UNCHANGED <<mpc, lpc, kpc, wpc>>
  BY <1>5
<1> QED
  BY <1>1, <1>2, <1>3, <1>4, <1>5, Untouched DEF Next
-----------------------------------------------------------------------------
\* Inserted connections stay inserted, at their address.
LEMMA InsertedStep ==
  ASSUME IInv, [Next]_vars, NEW c \in Conn, Inserted(c)
  PROVE  Inserted(c)' /\ addr'[c] = addr[c] /\ c <= nconn
<1> USE DEF IInv, Inserted
<1>1. c \in Nat /\ c <= nacc /\ nacc \in Nat /\ nconn \in Nat /\ c <= nconn
  BY ConstantsAssumption DEF TypeOK, Conn
<1>2. CASE UNCHANGED <<nacc, lpc, addr>>
  BY <1>1, <1>2
<1>3. CASE Environment
  <2>1. addr'[c] = addr[c]
    BY <1>1, <1>3, ConstantsAssumption
    DEF Environment, Connect, Send, PeerClose, PeerReset, Elapse, Conn, TypeOK
  <2> QED
    BY <1>1, <1>3, <2>1, Untouched
<1>4. CASE Main
  BY <1>1, <1>4, Untouched DEF Main, StartListener, StartMonitor, StartWorker, Shutdown,
     JoinWorker, JoinMonitor, StopServer, JoinListener
<1>5. CASE Listener
  BY <1>1, <1>5 DEF Listener, ListenerCheck, Accept, NothingToAccept, Insert
<1> QED
  BY <1>2, <1>3, <1>4, <1>5, Untouched DEF Next

LEMMA ListedStep == ASSUME IInv, [Next]_vars PROVE ListedOK'
<1> USE DEF IInv, ListedOK
<1>1. \A c \in listed' : c \in listed \/ Inserted(c)
  <2>1. \A c \in Conn : Registered(c) => Inserted(c)
    BY DEF Registered, MapOK, TypeOK, Conn, NoConn
  <2>2. Monitor => \A c \in listed' : c \in listed \/ Inserted(c)
    BY <2>1 DEF Monitor, MonitorCheck, ListStale, Evict, EndCheck, TypeOK
  <2> QED
    BY <2>2, Untouched DEF Next
<1> QED
  BY <1>1, InsertedStep DEF Inserted

LEMMA WorkerStep == ASSUME IInv, [Next]_vars PROVE WorkerOK'
<1> USE DEF IInv, WorkerOK, Handling
<1>1. CASE Environment
  <2>1. UNCHANGED <<clients, wpc, cur, req, rd>>
    BY <1>1, Untouched
  <2> QED
    BY <1>1, <2>1, InsertedStep DEF Inserted
<1>2. CASE Main
  <2>1. wpc' \in Handling \cup {"remove"} => UNCHANGED wpc
    BY <1>2 DEF Main, StartListener, StartMonitor, StartWorker, Shutdown,
     JoinWorker, JoinMonitor, StopServer, JoinListener
  <2> QED
    BY <1>2, <2>1, InsertedStep, Untouched DEF Inserted
<1>3. CASE Listener
  <2>1. UNCHANGED <<wpc, cur, req, rd>>
    BY <1>3, Untouched
  <2>2. ASSUME Inserted(req) PROVE req <= nacc /\ (lpc = "insert" => req <= nacc)
    BY <2>2 DEF Inserted
  <2>3. clients' = clients \/ (lpc = "insert" /\ clients' = [clients EXCEPT ![ClientKey(nacc)] = nacc])
    BY <1>3 DEF Listener, ListenerCheck, Accept, Insert
  <2> QED
    BY <1>3, <2>1, <2>2, <2>3, InsertedStep DEF Inserted, TypeOK
<1>4. CASE Monitor
  <2>1. \A id \in ClientId : clients'[id] \in {clients[id], NoConn}
    BY <1>4 DEF Monitor, MonitorCheck, ListStale, Evict, EndCheck, TypeOK
  <2> QED
    BY <1>4, <2>1, InsertedStep, Untouched DEF Inserted
<1>5. CASE Worker
  <2>1. ASSUME NEW id \in ClientId, Visit(id) PROVE WorkerOK'
    <3>1. CASE wpc' \in Handling
      <4>1. wpc' # "poll" /\ wpc' # "remove"
        BY <3>1
      <4>2. cur' = id /\ req' = clients[id] /\ clients[id] # NoConn /\ rd' = [rd EXCEPT ![clients[id]] = @ + 1]
        BY <2>1, <4>1 DEF Visit, Handled
      <4>3. clients' = clients
        BY <2>1 DEF Visit
      <4>4. Inserted(clients[id]) /\ addr[clients[id]] = id
        BY <4>2 DEF MapOK
      <4>5. Inserted(req)' /\ addr'[req'] = cur'
        BY <4>2, <4>4, InsertedStep DEF Inserted
      <4>6. rd'[req'] > 0 /\ req' <= clients'[cur']
        BY <4>2, <4>3, <4>4 DEF Inserted, Conn, TypeOK
      <4> QED
        BY <4>1, <4>2, <4>5, <4>6
    <3>2. CASE wpc' = "remove"
      BY <2>1, <3>2 DEF Visit, Handled
    <3> QED
      BY <3>1, <3>2
  <2>2. CASE wpc' \in {"poll", "snapshot", "exited"}
    BY <2>2
  <2>3. CASE UNCHANGED <<cur, req, rd, clients>> /\ wpc \in Handling
    BY <1>5, <2>3, InsertedStep, Untouched DEF Inserted
  <2>4. CASE DisconnectClient
    BY <1>5, <2>4, InsertedStep, Untouched DEF DisconnectClient, Inserted, TypeOK
  <2> QED
    BY <1>5, <2>1, <2>2, <2>3, <2>4 DEF Worker, WorkerCheck, Snapshot, Touch, GetConfig,
       UpdateRoutes, Reply, Remove, DropRoutes, DropConfig, Handled, Discard, IoError
<1>6. CASE UNCHANGED <<clients, wpc, cur, req, rd, nacc, lpc, addr>>
  BY <1>6 DEF Inserted
<1> QED
  BY <1>1, <1>2, <1>3, <1>4, <1>5, <1>6, Untouched DEF Next
-----------------------------------------------------------------------------
\* Established connections keep their address, and a peer does not open its end again.
LEMMA EstablishedStep ==
  ASSUME IInv, [Next]_vars, NEW c \in Conn, c <= nconn
  PROVE  addr'[c] = addr[c] /\ (peer[c] # "open" => peer'[c] # "open")
<1>1. c # nconn + 1
  BY ConstantsAssumption DEF Conn, IInv, TypeOK
<1>2. CASE Environment
  BY <1>1, <1>2, ConstantsAssumption
  DEF Environment, Connect, Send, PeerClose, PeerReset, Elapse, IInv, TypeOK
<1> QED
  BY <1>2, Untouched DEF Next

\* The answer goes to req or, when it is to a later connection, to one from the
\* same address, which was free to connect again only after req was closed.
LEMMA RepliesStep == ASSUME IInv, [Next]_vars PROVE NoReplyAstray'
<1> SUFFICES ASSUME NEW c \in Conn, NEW i \in DOMAIN out'[c]
             PROVE  LET p == out'[c][i][1]
                    IN \/ p = c
                       \/ p < c /\ addr'[p] = addr'[c] /\ peer'[p] # "open"
  BY DEF NoReplyAstray
<1> DEFINE p == out'[c][i][1]
<1>1. ASSUME i \in DOMAIN out[c], p = out[c][i][1]
      PROVE  p = c \/ (p < c /\ addr'[p] = addr'[c] /\ peer'[p] # "open")
  <2>1. out[c] \in Seq(Conn \X Nat) /\ out[c] # <<>>
    BY <1>1 DEF IInv, TypeOK
  <2>2. c <= nconn /\ p \in Conn
    BY <1>1, <2>1 DEF IInv, WrittenOK
  <2>3. p = c \/ (p < c /\ addr[p] = addr[c] /\ peer[p] # "open")
    BY <1>1 DEF IInv, NoReplyAstray
  <2>4. p < c => p <= nconn
    BY SMTT(30), <2>2, ConstantsAssumption DEF Conn, IInv, TypeOK
  <2> QED
    BY <2>2, <2>3, <2>4, EstablishedStep
<1>2. CASE Reply
  <2>1. CASE out' # out /\ c = clients[cur]
    <3>1. /\ out'[c] = Append(out[c], <<req, rd[req]>>) /\ c # NoConn
          /\ out[c] \in Seq(Conn \X Nat) /\ <<req, rd[req]>> \in Conn \X Nat
      BY <1>2, <2>1 DEF Reply, Delivered, IInv, TypeOK, WorkerOK, Handling, Inserted
    <3>2. CASE i \in DOMAIN out[c]
      BY <1>1, <3>1, <3>2
    <3>3. CASE i \notin DOMAIN out[c]
      <4>1. p = req
        BY <3>1, <3>3
      <4>2. /\ Inserted(req) /\ addr[req] = cur /\ cur \in ClientId
            /\ Inserted(c) /\ addr[c] = cur /\ req <= c
        BY <1>2, <2>1, <3>1 DEF Reply, IInv, WorkerOK, Handling, MapOK
      <4>3. c <= nconn /\ (req = c \/ req < c)
        BY <4>2, ConstantsAssumption DEF Inserted, Conn, IInv, TypeOK
      <4>4. req < c => peer[req] # "open"
        BY <4>2, <4>3 DEF Inserted, IInv, AddressesOK
      <4>5. UNCHANGED <<addr, peer>>
        BY <1>2 DEF Reply
      <4> QED
        BY <4>1, <4>2, <4>3, <4>4, <4>5
    <3> QED
      BY <3>2, <3>3
  <2>2. CASE out'[c] = out[c]
    BY <1>1, <2>2
  <2>3. out'[c] = out[c] \/ (out' # out /\ c = clients[cur])
    BY <1>2 DEF Reply, Delivered, IInv, TypeOK
  <2> QED
    BY <2>1, <2>2, <2>3
<1>3. CASE out' = out
  BY <1>1, <1>3
<1>4. Worker => Reply \/ UNCHANGED out
  BY DEF Worker, WorkerCheck, Snapshot, Visit, Touch, GetConfig, UpdateRoutes, Remove,
         DisconnectClient, DropRoutes, DropConfig
<1> QED
  BY <1>2, <1>3, <1>4, Untouched DEF Next

\* While the monitor holds the server mutex only the listener changes the map, and
\* only to put a later connection where one from the same address was.
LEMMA EvictsStep == ASSUME IInv, [Next]_vars PROVE EvictsOnlyUnrefreshed'
<1> DEFINE Due(id, c) == \/ c \in listed /\ c \in stale
                         \/ \E d \in listed : addr[d] = id /\ d < c
<1>1. \A id \in todo : kpc = "evict" => Due(id, clients[id])
  BY DEF IInv, EvictsOnlyUnrefreshed
<1>2. SUFFICES ASSUME kpc' = "evict", NEW id \in todo'
               PROVE  Due(id, clients[id])'
  BY DEF EvictsOnlyUnrefreshed
<1>3. \A d \in listed : d \in Conn /\ Inserted(d) /\ addr'[d] = addr[d]
  BY InsertedStep DEF IInv, ListedOK, Inserted
<1>4. CASE Environment
  <2>1. stale \subseteq stale'
    BY <1>4 DEF Environment, Connect, Send, PeerClose, PeerReset, Elapse
  <2> QED
    BY <1>1, <1>2, <1>3, <1>4, <2>1, Untouched
<1>5. CASE Main
  <2>1. kpc = "evict"
    BY <1>2, <1>5 DEF Main, StartListener, StartMonitor, StartWorker, Shutdown, JoinWorker,
       JoinMonitor, StopServer, JoinListener
  <2> QED
    BY <1>1, <1>2, <1>5, <2>1, Untouched
<1>6. CASE Listener
  <2>1. UNCHANGED <<kpc, todo, listed, stale, addr>>
    BY <1>6, Untouched
  <2>2. CASE clients'[id] = clients[id]
    BY <1>1, <1>2, <2>1, <2>2
  <2>3. CASE Insert /\ clients'[id] # clients[id]
    <3>1. clients'[id] = nacc /\ addr[nacc] = id /\ lpc = "insert"
      BY <1>2, <2>1, <2>3 DEF Insert, ClientKey, IInv, TypeOK
    <3>2. PICK d \in listed : addr[d] = id
      <4>1. id \in ClientId /\ id \in todo /\ kpc = "evict"
        BY <1>2, <2>1 DEF IInv, TypeOK
      <4>2. clients[id] \in listed => addr[clients[id]] = id
        BY <1>3, <4>1 DEF IInv, MapOK, Conn, NoConn
      <4>3. Due(id, clients[id])
        BY <1>1, <4>1
      <4> QED
        BY <4>2, <4>3
    <3>3. d < nacc
      BY <1>3, <3>1 DEF Inserted
    <3> QED
      BY <2>1, <3>1, <3>2, <3>3
  <2> QED
    BY <1>6, <2>2, <2>3 DEF Listener, ListenerCheck, Accept, Insert
<1>7. CASE Monitor
  <2>1. CASE ListStale
    <3>1. id \in ClientId /\ clients[id] \in stale /\ clients[id] \in Conn
      BY <1>2, <2>1 DEF ListStale, StaleClients, IInv, TypeOK
    <3>2. Registered(clients[id])
      BY <3>1 DEF Registered, IInv, MapOK, Conn, NoConn
    <3> QED
      BY <2>1, <3>1, <3>2 DEF ListStale
  <2>2. ASSUME NEW e \in ClientId, Evict(e) PROVE Due(id, clients[id])'
    BY <1>1, <1>2, <2>2 DEF Evict, IInv, TypeOK
  <2> QED
    BY <1>2, <1>7, <2>1, <2>2 DEF Monitor, MonitorCheck, EndCheck
<1>8. CASE Worker
  <2>1. kpc = "evict" /\ serverLock = "monitor"
    BY <1>2, <1>8, Untouched DEF IInv, LockOK
  <2>2. UNCHANGED <<stale, clients>>
    BY <1>8, <2>1 DEF Worker, WorkerCheck, Snapshot, Visit, Touch, GetConfig, UpdateRoutes,
       Reply, Remove, DisconnectClient, DropRoutes, DropConfig
  <2> QED
    BY <1>1, <1>2, <1>8, <2>1, <2>2, Untouched
<1>9. CASE Terminated \/ UNCHANGED vars
  BY <1>1, <1>2, <1>9, Untouched
<1> QED
  BY <1>4, <1>5, <1>6, <1>7, <1>8, <1>9 DEF Next

-----------------------------------------------------------------------------
\* IInv is an inductive invariant.
THEOREM Invariance == Spec => []IInv
<1>1. IInv /\ [Next]_vars => IInv'
  <2> SUFFICES ASSUME IInv, [Next]_vars PROVE IInv'
    OBVIOUS
  <2>1. TypeOK' /\ ReadsArrived' /\ AddressesOK' /\ MapOK' /\ WorkerOK' /\ WrittenOK'
    BY TypeStep, ReadsStep, AddressesStep, MapStep, WorkerStep, WrittenStep
  <2>2. LockOK' /\ ListedOK' /\ JoinsOK' /\ NoReplyAstray' /\ EvictsOnlyUnrefreshed'
    BY LockStep, ListedStep, JoinsStep, RepliesStep, EvictsStep
  <2> QED
    BY <2>1, <2>2 DEF IInv
<1> QED
  BY InitIInv, <1>1, PTL DEF Spec

\* Every variable keeps the values it was declared for: among others, no accept()
\* runs ahead of the kernel and no map entry names a connection that never was.
THEOREM TypeCorrect == Spec => []TypeOK
BY Invariance, PTL DEF IInv

\* An answer never reaches another client than the one that asked, although the
\* worker lets go of the server between reading a frame and answering it.
THEOREM RepliesReachTheirClient == Spec => []NoReplyAstray
BY Invariance, PTL DEF IInv

\* The monitor removes, by address, only connections it found stale and that
\* nothing refreshed since, or what replaced them: the server mutex it holds
\* keeps the worker out between the listing and the removals.
THEOREM EvictionsAreDue == Spec => []EvictsOnlyUnrefreshed
BY Invariance, PTL DEF IInv

\* Nothing happens to the service once shutdown has returned.
THEOREM QuietAfterShutdown == Spec => NothingAfterShutdown
<1> DEFINE Quiet == mpc = "done" => UNCHANGED <<nacc, rd, out, clients, routes, configs, stopping>>
<1>1. IInv /\ [Next]_vars => [Quiet]_vars
  <2> SUFFICES ASSUME IInv, [Next]_vars, mpc = "done"
               PROVE UNCHANGED <<nacc, rd, out, clients, routes, configs, stopping>>
    OBVIOUS
  <2>1. wpc = "exited" /\ kpc = "exited" /\ lpc = "exited"
    BY DEF IInv, JoinsOK
  <2>2. ~Worker
    BY <2>1 DEF Worker, WorkerCheck, Snapshot, Visit, Touch, GetConfig, UpdateRoutes,
       Reply, Remove, DisconnectClient, DropRoutes, DropConfig
  <2>3. ~Monitor /\ ~Listener
    BY <2>1 DEF Monitor, MonitorCheck, ListStale, Evict, EndCheck, Listener, ListenerCheck,
       Accept, Insert
  <2>4. ~Main
    BY DEF Main, StartListener, StartMonitor, StartWorker, Shutdown, JoinWorker, JoinMonitor,
       StopServer, JoinListener
  <2> QED
    BY <2>2, <2>3, <2>4, Untouched DEF Next
<1> QED
  BY Invariance, <1>1, PTL DEF Spec, NothingAfterShutdown
=============================================================================
