----------------------- MODULE VpnServerServiceProofs -----------------------
(***************************************************************************)
(* VpnServer implements ClientService: every behaviour of the four threads *)
(* is, under the mapping of VpnServer, one of the abstract service, for    *)
(* every set of addresses and every bound.                                 *)
(***************************************************************************)
EXTENDS VpnServerProofs

USE DEF socketVars, tableVars, mainVars, monitorVars, workerVars

\* What the mapping makes of the server's state: the addresses of the connections
\* admitted, the connections that are served, and the request that was taken.
KnownAddr == [c \in Conn |-> IF c <= Admitted THEN addr[c] ELSE NoClient]
Served == {c \in Conn : Registered(c)}
Taken == {"touch", "config", "routes", "reply"}
InHand == IF wpc \in Taken THEN <<req, rd[req]>> ELSE NoFrame

\* The service sees nothing of the step.
Unseen == UNCHANGED <<Admitted, KnownAddr, Served, rd, InHand, out>>

LEMMA UnseenStutters == Unseen => UNCHANGED Service!vars
BY DEF Unseen, KnownAddr, Served, InHand, Taken, Service!vars

\* An inserted connection is one that the service has admitted.
LEMMA AdmittedInserted ==
  ASSUME TypeOK
  PROVE  \A c \in Conn : Inserted(c) <=> c <= Admitted
BY ConstantsAssumption DEF TypeOK, Admitted, Inserted, Conn

\* The served connections are those in the map.
LEMMA ServedInMap ==
  ASSUME IInv
  PROVE  /\ \A c \in Served : c \in Conn /\ Inserted(c) /\ addr[c] \in ClientId
         /\ \A id \in ClientId : clients[id] # NoConn =>
              clients[id] \in Served /\ addr[clients[id]] = id
         /\ \A c \in Conn : c \in Served <=> addr[c] \in ClientId /\ clients[addr[c]] = c
<1>1. \A c \in Conn : c \in Served <=> addr[c] \in ClientId /\ clients[addr[c]] = c
  BY DEF Served, Registered
<1>2. \A id \in ClientId : clients[id] # NoConn =>
        clients[id] \in Conn /\ Inserted(clients[id]) /\ addr[clients[id]] = id
  BY DEF IInv, MapOK, Inserted
<1>3. \A c \in Conn : c # NoConn
  BY DEF Conn, NoConn
<1>4. \A c \in Served : c \in Conn
  BY DEF Served
<1> QED
  BY <1>1, <1>2, <1>3, <1>4

-----------------------------------------------------------------------------
(***************************************************************************)
(* The steps of the service, in terms of the mapping.                      *)
(***************************************************************************)
LEMMA AdmitStep ==
  ASSUME NEW id \in ClientId,
         Admitted < MaxConn, Admitted' = Admitted + 1,
         KnownAddr' = [KnownAddr EXCEPT ![Admitted + 1] = id],
         Served' = {c \in Served : KnownAddr[c] # id} \cup {Admitted + 1},
         UNCHANGED <<rd, InHand, out>>
  PROVE  Service!Next
<1>1. Service!Admit(id)
  BY DEF Service!Admit, KnownAddr, Served, InHand, Taken
<1> QED
  BY <1>1 DEF Service!Next

LEMMA DismissStep ==
  ASSUME NEW c \in Served, Served' = Served \ {c},
         UNCHANGED <<Admitted, KnownAddr, rd, InHand, out>>
  PROVE  Service!Next
<1>1. c \in Conn
  BY DEF Served
<1>2. Service!Dismiss(c)
  BY DEF Service!Dismiss, KnownAddr, Served, InHand, Taken
<1> QED
  BY <1>1, <1>2 DEF Service!Next, Service!Conn, Conn

LEMMA TakeStep ==
  ASSUME NEW c \in Served, InHand = NoFrame,
         rd' = [rd EXCEPT ![c] = @ + 1], InHand' \in {NoFrame, <<c, rd[c] + 1>>},
         UNCHANGED <<Admitted, KnownAddr, Served, out>>
  PROVE  Service!Next
<1>1. c \in Conn
  BY DEF Served
<1>2. Service!Take(c)
  BY DEF Service!Take, Service!NoRequest, NoFrame, NoConn, KnownAddr, Served, InHand, Taken
<1> QED
  BY <1>1, <1>2 DEF Service!Next, Service!Conn, Conn

LEMMA AnswerStep ==
  ASSUME NEW c \in Served, InHand # NoFrame, KnownAddr[c] = KnownAddr[InHand[1]],
         out' = [out EXCEPT ![c] = Append(@, InHand)], InHand' = NoFrame,
         UNCHANGED <<Admitted, KnownAddr, Served, rd>>
  PROVE  Service!Next
<1>1. c \in Conn
  BY DEF Served
<1>2. Service!Answer(c)
  BY DEF Service!Answer, Service!NoRequest, NoFrame, NoConn, KnownAddr, Served, InHand, Taken
<1> QED
  BY <1>1, <1>2 DEF Service!Next, Service!Finish, Service!Conn, Conn

LEMMA AbandonStep ==
  ASSUME InHand # NoFrame, InHand' = NoFrame,
         UNCHANGED <<Admitted, KnownAddr, Served, rd, out>>
  PROVE  Service!Next
<1>1. Service!Abandon
  BY DEF Service!Abandon, Service!NoRequest, NoFrame, NoConn, KnownAddr, Served, InHand, Taken
<1> QED
  BY <1>1 DEF Service!Next, Service!Finish

-----------------------------------------------------------------------------
(***************************************************************************)
(* The threads, one by one.                                                *)
(***************************************************************************)
LEMMA InitService == Init => Service!Init
<1> SUFFICES ASSUME Init PROVE Service!Init
  OBVIOUS
<1>1. Admitted = 0
  BY DEF Init, Admitted
<1>2. KnownAddr = [c \in Conn |-> NoClient]
  BY <1>1 DEF Init, KnownAddr
<1>3. Served = {} /\ InHand = NoFrame
  BY ConstantsAssumption DEF Init, Served, Registered, InHand, Taken
<1> QED
  BY <1>1, <1>2, <1>3 DEF Init, Service!Init, Service!Conn, Conn, Service!NoRequest, NoFrame,
     NoConn, KnownAddr, Served, InHand, Taken

\* Connections that are not yet accepted, and what arrives, do not concern the service.
LEMMA EnvironmentUnseen == ASSUME IInv, Environment PROVE Unseen
<1>1. UNCHANGED <<nacc, rd, out, clients, lpc, wpc, cur, req>>
  BY Untouched
<1>2. UNCHANGED <<Admitted, InHand>>
  BY <1>1 DEF Admitted, InHand
<1>3. \A c \in Conn : Inserted(c) => addr'[c] = addr[c]
  BY InsertedStep DEF Next
<1>4. KnownAddr' = KnownAddr
  BY <1>2, <1>3, AdmittedInserted DEF KnownAddr, IInv
<1>5. Served' = Served
  <2> SUFFICES ASSUME NEW c \in Conn PROVE Registered(c)' <=> Registered(c)
    BY DEF Served
  <2>1. ASSUME NEW id \in ClientId, clients[id] = c PROVE Inserted(c) /\ addr[c] = id
    BY <2>1 DEF IInv, MapOK, Conn, NoConn
  <2> QED
    BY <1>1, <1>3, <2>1 DEF Registered
<1> QED
  BY <1>1, <1>2, <1>4, <1>5 DEF Unseen

\* Nor does anything that main does.
LEMMA MainUnseen == ASSUME IInv, Main PROVE Unseen
<1>1. UNCHANGED <<socketVars, nacc, rd, out, clients, cur, req>>
  BY Untouched
<1>2. UNCHANGED <<lpc, wpc>> \/ (lpc = "unborn" /\ lpc' = "check" /\ wpc' = wpc)
        \/ (lpc' = lpc /\ wpc = "unborn" /\ wpc' = "poll")
  BY DEF Main, StartListener, StartMonitor, StartWorker, Shutdown, JoinWorker, JoinMonitor,
     StopServer, JoinListener, IInv, JoinsOK
<1>3. UNCHANGED <<Admitted, InHand>>
  BY <1>1, <1>2 DEF Admitted, InHand, Taken
<1> QED
  BY <1>1, <1>3 DEF Unseen, KnownAddr, Served, Registered

\* The listener admits a connection when it puts it in the map.
LEMMA ListenerServes == ASSUME IInv, Listener PROVE Service!Next \/ Unseen
<1>1. UNCHANGED <<addr, rd, out, wpc, req, InHand>>
  BY Untouched DEF InHand
<1>2. CASE ListenerCheck \/ Accept
  <2>1. Admitted' = Admitted /\ clients' = clients
    BY <1>2, ConstantsAssumption DEF ListenerCheck, Accept, NothingToAccept, Admitted, IInv, TypeOK
  <2> QED
    BY <1>1, <2>1 DEF Unseen, KnownAddr, Served, Registered
<1>3. CASE Insert
  <2>1. PICK n \in Conn : n = nacc
    BY <1>3 DEF Insert, IInv, MapOK
  <2>2. PICK id \in ClientId : id = addr[n]
    BY <2>1, ConstantsAssumption DEF IInv, AddressesOK, TypeOK
  <2>3. /\ Admitted = n - 1 /\ Admitted' = n /\ lpc = "insert"
        /\ clients' = [clients EXCEPT ![id] = n]
    BY <1>3, <2>1, <2>2 DEF Insert, ClientKey, Admitted
  <2>4. n \in Nat /\ n <= MaxConn /\ MaxConn \in Nat /\ \A c \in Conn : c \in Nat
    BY ConstantsAssumption DEF Conn
  <2>5. Admitted < MaxConn /\ Admitted' = Admitted + 1
    BY <2>3, <2>4
  <2>6. KnownAddr' = [KnownAddr EXCEPT ![Admitted + 1] = id]
    <3>1. Admitted + 1 = n
      BY <2>3, <2>4
    <3>2. \A c \in Conn : (c <= Admitted' <=> c <= Admitted \/ c = n) /\ ~(n <= Admitted)
      BY <2>3, <2>4
    <3>3. \A c \in Conn : KnownAddr'[c] = IF c = n THEN id ELSE KnownAddr[c]
      BY <1>1, <2>2, <3>2 DEF KnownAddr
    <3> QED
      BY <3>1, <3>3 DEF KnownAddr
  <2>7. ASSUME NEW c \in Conn
        PROVE  c \in Served' <=> (c \in Served /\ KnownAddr[c] # id) \/ c = n
    <3>1. c \in Served => c < n /\ KnownAddr[c] = addr[c]
      BY <2>1, <2>3, <2>4, ServedInMap DEF Inserted, KnownAddr
    <3>2. c \in Served' <=> addr[c] \in ClientId /\ clients'[addr[c]] = c
      BY <1>1 DEF Served, Registered
    <3>3. c \in Served <=> addr[c] \in ClientId /\ clients[addr[c]] = c
      BY DEF Served, Registered
    <3> QED
      BY <2>2, <2>3, <3>1, <3>2, <3>3 DEF IInv, TypeOK
  <2>8. Served' = {c \in Served : KnownAddr[c] # id} \cup {Admitted + 1}
    <3>1. Served' \subseteq Conn /\ Served \subseteq Conn
      BY DEF Served
    <3>2. Admitted + 1 = n
      BY <2>3, <2>4
    <3> QED
      BY <2>7, <3>1, <3>2
  <2> QED
    BY <1>1, <2>5, <2>6, <2>8, AdmitStep
<1> QED
  BY <1>2, <1>3 DEF Listener

\* Whoever takes an address out of the map dismisses the connection that was there.
LEMMA RemovalDismisses ==
  ASSUME IInv, NEW id \in ClientId, clients' = [clients EXCEPT ![id] = NoConn],
         UNCHANGED <<Admitted, addr, rd, InHand, out>>
  PROVE  Service!Next \/ Unseen
<1>1. KnownAddr' = KnownAddr
  BY DEF KnownAddr
<1>2. CASE clients[id] = NoConn
  <2>1. clients' = clients
    BY <1>2 DEF IInv, TypeOK
  <2> QED
    BY <1>1, <2>1 DEF Unseen, Served, Registered
<1>3. CASE clients[id] # NoConn
  <2>1. PICK c \in Served : c = clients[id] /\ addr[c] = id
    BY <1>3, ServedInMap
  <2>2. ASSUME NEW d \in Conn PROVE d \in Served' <=> d \in Served /\ d # c
    <3>1. d \in Served' <=> addr[d] \in ClientId /\ clients'[addr[d]] = d
      BY DEF Served, Registered
    <3>2. d \in Served <=> addr[d] \in ClientId /\ clients[addr[d]] = d
      BY DEF Served, Registered
    <3>3. d # NoConn
      BY DEF Conn, NoConn
    <3> QED
      BY <2>1, <3>1, <3>2, <3>3 DEF IInv, TypeOK
  <2>3. Served' = Served \ {c}
    BY <2>2 DEF Served
  <2> QED
    BY <1>1, <2>3, DismissStep
<1> QED
  BY <1>2, <1>3

LEMMA MonitorServes == ASSUME IInv, Monitor PROVE Service!Next \/ Unseen
<1>1. UNCHANGED <<Admitted, addr, rd, InHand, out>>
  BY Untouched DEF Admitted, InHand
<1>2. CASE clients' = clients
  BY <1>1, <1>2 DEF Unseen, KnownAddr, Served, Registered
<1>3. ASSUME NEW id \in ClientId, Evict(id) PROVE Service!Next \/ Unseen
  BY <1>1, <1>3, RemovalDismisses DEF Evict
<1> QED
  BY <1>2, <1>3 DEF Monitor, MonitorCheck, ListStale, EndCheck

\* The worker takes, answers and gives up requests, and dismisses clients.
LEMMA VisitServes ==
  ASSUME IInv, NEW id \in ClientId, Visit(id)
  PROVE  Service!Next \/ Unseen
<1>1. UNCHANGED <<addr, out, clients, Admitted, KnownAddr, Served>>
  BY DEF Visit, Admitted, KnownAddr, Served, Registered
<1>2. InHand = NoFrame
  BY DEF Visit, InHand, Taken
<1>3. CASE clients[id] = NoConn
  <2>1. InHand' = NoFrame /\ rd' = rd
    BY <1>3 DEF Visit, InHand, Taken
  <2> QED
    BY <1>1, <1>2, <2>1 DEF Unseen
<1>4. CASE clients[id] # NoConn
  <2>1. PICK c \in Served : c = clients[id] /\ c \in Conn
    BY <1>4, ServedInMap
  <2>2. CASE rd[c] = Len(frames[c])
    <3>1. InHand' = NoFrame /\ rd' = rd
      BY <1>4, <2>1, <2>2 DEF Visit, Handled, InHand, Taken, IInv, TypeOK
    <3> QED
      BY <1>1, <1>2, <3>1 DEF Unseen
  <2>3. CASE rd[c] # Len(frames[c])
    <3>1. /\ rd' = [rd EXCEPT ![c] = @ + 1]
          /\ wpc' \notin Taken \/ req' = c
      BY <1>4, <2>1, <2>3 DEF Visit, Handled, Taken
    <3>2. rd'[c] = rd[c] + 1
      BY <2>1, <3>1 DEF IInv, TypeOK
    <3>3. InHand' \in {NoFrame, <<c, rd[c] + 1>>}
      BY <3>1, <3>2 DEF InHand
    <3> QED
      BY <1>1, <1>2, <3>1, <3>3, TakeStep
  <2> QED
    BY <2>2, <2>3
<1> QED
  BY <1>3, <1>4

\* A frame in the worker's hands is a request that the service has taken.
LEMMA TakenInHand ==
  ASSUME IInv, wpc \in Taken
  PROVE  /\ InHand = <<req, rd[req]>> /\ InHand # NoFrame
         /\ req \in Conn /\ KnownAddr[req] = cur /\ cur \in ClientId
<1>1. /\ req \in Conn /\ Inserted(req) /\ addr[req] = cur /\ cur \in ClientId /\ req # NoConn
  BY DEF IInv, WorkerOK, Handling, Taken, Inserted, Conn, NoConn
<1> QED
  BY <1>1, AdmittedInserted DEF InHand, NoFrame, KnownAddr, IInv

LEMMA ReplyServes == ASSUME IInv, Reply PROVE Service!Next \/ Unseen
<1>1. UNCHANGED <<rd, Admitted, KnownAddr, Served>> /\ wpc = "reply"
  BY DEF Reply, Admitted, KnownAddr, Served, Registered
<1>2. wpc' \notin Taken /\ InHand' = NoFrame
  BY DEF Reply, Discard, IoError, Handled, Taken, InHand
<1>3. /\ InHand = <<req, rd[req]>> /\ InHand # NoFrame
      /\ KnownAddr[req] = cur /\ cur \in ClientId
  BY <1>1, TakenInHand DEF Taken
<1>4. CASE out' = out
  BY <1>1, <1>2, <1>3, <1>4, AbandonStep
<1>5. CASE out' # out
  <2>1. clients[cur] # NoConn /\ out' = [out EXCEPT ![clients[cur]] = Append(@, <<req, rd[req]>>)]
    BY <1>5 DEF Reply, Delivered
  <2>2. PICK c \in Served : c = clients[cur] /\ c \in Conn /\ addr[c] = cur /\ Inserted(c)
    BY <1>3, <2>1, ServedInMap
  <2>3. KnownAddr[c] = KnownAddr[InHand[1]]
    BY <1>3, <2>2, AdmittedInserted DEF KnownAddr, IInv
  <2>4. out' = [out EXCEPT ![c] = Append(@, InHand)]
    BY <1>3, <2>1, <2>2
  <2> QED
    BY <1>1, <1>2, <1>3, <2>3, <2>4, AnswerStep
<1> QED
  BY <1>4, <1>5

LEMMA WorkerServes == ASSUME IInv, Worker PROVE Service!Next \/ Unseen
<1>1. UNCHANGED <<addr, Admitted>>
  BY Untouched DEF Admitted
<1>2. CASE WorkerCheck \/ Snapshot \/ GetConfig \/ UpdateRoutes \/ DropRoutes \/ DropConfig
  <2>1. UNCHANGED <<rd, out, clients>>
    BY <1>2 DEF WorkerCheck, Snapshot, GetConfig, UpdateRoutes, DropRoutes, DropConfig
  <2>2. InHand' = InHand
    BY <1>2 DEF WorkerCheck, Snapshot, GetConfig, UpdateRoutes, DropRoutes, DropConfig,
       Handled, InHand, Taken
  <2> QED
    BY <1>1, <2>1, <2>2 DEF Unseen, KnownAddr, Served, Registered
<1>3. CASE Touch
  <2>1. UNCHANGED <<rd, out, clients, KnownAddr, Served>> /\ wpc \in Taken
    BY <1>1, <1>3 DEF Touch, KnownAddr, Served, Registered, Taken
  <2>2. InHand' = NoFrame
    BY <1>3 DEF Touch, Discard, Handled, InHand, Taken
  <2> QED
    BY <1>1, <2>1, <2>2, TakenInHand, AbandonStep
<1>4. CASE Remove \/ DisconnectClient
  <2>1. /\ cur \in ClientId /\ UNCHANGED <<rd, out>>
        /\ clients' = [clients EXCEPT ![cur] = NoConn]
    BY <1>4 DEF Remove, DisconnectClient, IInv, WorkerOK, Handling
  <2>2. InHand' = InHand
    BY <1>4 DEF Remove, DisconnectClient, Handled, InHand, Taken
  <2> QED
    BY <1>1, <2>1, <2>2, RemovalDismisses
<1> QED
  BY <1>2, <1>3, <1>4, VisitServes, ReplyServes DEF Worker

-----------------------------------------------------------------------------
\* The server implements the service: whatever the threads do, a connection is served
\* once, requests are taken one at a time and in order, and each is answered at most
\* once, to its own address, before the next is taken.
THEOREM ServerImplementsService == Spec => AnswersItsClients
<1>1. IInv /\ [Next]_vars => [Service!Next]_Service!vars
  <2> SUFFICES ASSUME IInv, [Next]_vars PROVE Service!Next \/ Unseen
    BY UnseenStutters
  <2>1. CASE Terminated \/ UNCHANGED vars
    BY <2>1, Untouched DEF Unseen, Admitted, KnownAddr, Served, Registered, InHand
  <2> QED
    BY <2>1, EnvironmentUnseen, MainUnseen, ListenerServes, MonitorServes, WorkerServes DEF Next
<1> QED
  BY Invariance, InitService, <1>1, PTL DEF Spec, AnswersItsClients, Service!Spec
=============================================================================
