--------------------------- MODULE ProgramsProofs ---------------------------
(***************************************************************************)
(* Theorems about Programs: one client of a program after the other is     *)
(* registered, and none of them is evicted, for every number of clients,   *)
(* every interval of the server and every unit and lag that the theorem    *)
(* allows.  The invariants of KeepaliveTimingProofs hold here as well,     *)
(* because what a program does are steps of clients and of the service.    *)
(***************************************************************************)
EXTENDS Programs, KeepaliveTimingProofs

\* A handshake lasts as long as the listener, then the worker, take to come to it, unless
\* its request is lost or not answered.
Handshake(c) ==
  service = "up" /\ link[c] = "up" /\ call[c] = "config" /\ "config" \notin lost[c] =>
    /\ inbox[c] = <<"config">>
    /\ lasts[c] <= IF c \in reg THEN Lag + waited[c] ELSE waited[c]

\* How many connections the program has made.
Made ==
  IF Probes(prog) THEN 2 * (Clients(prog) - left) + (IF pc = "new" THEN 1 ELSE 0)
                  ELSE Clients(prog) - left

\* Where the program is, and what it has done by then.
Control ==
  /\ prog \in ProgramName /\ left \in 0 .. Clients(prog) /\ sent \in Nat /\ vpn \subseteq Conn
  /\ pc \in {"start", "probe", "new", "use", "leave", "shutdown", "join", "done"}
  /\ pc = "start" => service = "off"
  /\ pc \in {"probe", "new", "use", "leave", "shutdown"} => service = "up"
  /\ pc \in {"probe", "new"} => left > 0
  /\ pc = "probe" => Probes(prog)
  /\ pc \in {"use", "leave"} => cur \in Conn
  /\ \A d \in Conn : app[d] = "none" <=> d > Made

\* Only the current client is in use; those that the program has left are not registered,
\* except where the handshake failed because its request was lost.
Own(c) ==
  /\ app[c] \in {"calling", "idle", "joining"} => c = cur /\ pc \in {"use", "leave"}
  /\ c \in vpn /\ app[c] = "out" => c \notin reg \cup backlog \/ "config" \in lost[c]
  /\ app[c] = "none" => c \notin vpn

USE DEF lossVars, serverVars, streamVars, clientVars, programVars

-----------------------------------------------------------------------------
LEMMA HandshakeStep ==
  ASSUME TInv, [Step]_vars, NEW c \in Conn, Handshake(c)
  PROVE  Handshake(c)'
<1>0. TypeOK /\ Life(c) /\ Clocks(c)
  BY DEF TInv
<1>00. /\ waited[c] \in Nat /\ waited[c] <= Lag /\ lasts[c] \in Nat /\ Lag \in Nat
  BY <1>0, ClockTypes, Times
<1>01. "config" \notin lost'[c] => "config" \notin lost[c]
  BY <1>0, LostGrows
<1> SUFFICES ASSUME service' = "up", link'[c] = "up", call'[c] = "config", "config" \notin lost'[c]
             PROVE  /\ inbox'[c] = <<"config">>
                    /\ lasts'[c] <= IF c \in reg' THEN Lag + waited'[c] ELSE waited'[c]
  BY DEF Handshake
<1>1. CASE Start \/ Shutdown \/ UNCHANGED vars
  <2>1. CASE Start
    <3>1. app[c] = "none" /\ call' = call
      BY <1>0, <2>1 DEF Start, Clocks
    <3> QED
      BY <1>0, <3>1 DEF Life
  <2>2. CASE Shutdown
    BY <2>2 DEF Shutdown
  <2>3. CASE UNCHANGED vars
    BY <2>3 DEF vars, Handshake
  <2> QED
    BY <1>1, <2>1, <2>2, <2>3
<1>2. CASE MonitorWakes
  <2>1. service = "up" /\ UNCHANGED <<waited, clientVars>>
    BY <1>2 DEF MonitorWakes
  <2>2. PICK S \in SUBSET reg : Remove(S, inbox)
    BY <1>2, <2>1 DEF MonitorWakes, StaleSets
  <2>3. link[c] = "up" /\ c \notin S
    BY <1>0, <2>2, RemoveOne DEF Dropped
  <2>4. inbox'[c] = inbox[c] /\ (c \in reg' <=> c \in reg)
    BY <1>0, <2>2, <2>3, RemoveOne
  <2> QED
    BY <1>01, <2>1, <2>3, <2>4 DEF Handshake
<1>3. CASE Tick
  <2>1. UNCHANGED <<service, backlog, reg, inbox, link, call>>
    BY <1>3 DEF Tick
  <2>2. inbox[c] = <<"config">> /\ <<"config">> # <<>>
    BY <1>01, <2>1 DEF Handshake
  <2>3. Awaited(c)
    BY <1>0, <2>1, <2>2 DEF Awaited, Life
  <2>4. lasts'[c] <= lasts[c] + 1 /\ lasts'[c] \in Nat /\ waited'[c] = waited[c] + 1
    BY <1>3, <2>1, <2>3, TickClocks
  <2> QED
    BY <1>00, <1>01, <2>1, <2>2, <2>4 DEF Handshake
<1>4. ASSUME NEW d \in Conn, StepOf(d), d # c
      PROVE  /\ inbox'[c] = <<"config">>
             /\ lasts'[c] <= IF c \in reg' THEN Lag + waited'[c] ELSE waited'[c]
  BY <1>0, <1>4, Apart DEF Same, Handshake
<1>5. CASE StepOf(c)
  <2>1. CASE Accept(c)
    <3>1. /\ UNCHANGED <<service, link, call, lasts, inbox>> /\ c \in reg' /\ c \notin reg
          /\ waited'[c] = 0
      BY <1>0, <2>1 DEF Accept, TypeOK
    <3>2. inbox[c] = <<"config">> /\ lasts[c] <= waited[c]
      BY <1>01, <3>1 DEF Handshake
    <3> QED
      BY <1>00, <3>1, <3>2
  <2>2. CASE ServerRead(c)
    <3>1. link[c] = "up" /\ service = "up" /\ (UNCHANGED clientVars \/ Returns(c))
      BY <1>0, <2>2, ReadsUp
    <3>2. call[c] = "config" /\ UNCHANGED clientVars
      BY <1>0, <3>1 DEF Returns, TypeOK
    <3>3. inbox[c] = <<"config">> /\ "config" \in Frame /\ "config" \in Vital
      BY <1>01, <3>1, <3>2 DEF Handshake, Frame, Vital
    <3>4. Head(inbox[c]) = "config"
      BY <3>3, ShortSeqs
    <3>5. \A k \in 1 .. Len(inbox[c]) : {inbox[c][i] : i \in 1 .. k} = {"config"}
      BY <3>3, ShortRests
    <3>6. ~(\E k \in 1 .. Len(inbox[c]) :
              lost'[c] = lost[c] \cup ({inbox[c][i] : i \in 1 .. k} \cap Vital))
      BY <3>3, <3>5
    <3>7. lost'[c] # lost[c] \cup ({Head(inbox[c])} \cap Vital)
      BY <3>3, <3>4
    <3>8. Returns(c)
      BY <1>0, <2>2, <3>2, <3>4, <3>6, <3>7, ReadsUp
    <3> QED
      BY <1>0, <3>8 DEF Returns, TypeOK
  <2>3. CASE CallFails(c) \/ Joined(c) \/ Vanish(c) \/ Probe(c) \/ KeepaliveWakes(c) \/ Disconnect(c)
    BY <1>0, <2>3 DEF CallFails, Joined, Vanish, Probe, KeepaliveWakes, Disconnect, Life, TypeOK
  <2>4. CASE New(c)
    <3>1. lasts'[c] = 0 /\ waited'[c] = waited[c] /\ inbox'[c] = <<"config">>
      BY <1>0, <2>4 DEF New, Clocks, TypeOK
    <3> QED
      BY <1>00, <3>1
  <2>5. ASSUME NEW f \in {"data", "large"}, Request(c, f)
        PROVE  /\ inbox'[c] = <<"config">>
               /\ lasts'[c] <= IF c \in reg' THEN Lag + waited'[c] ELSE waited'[c]
    BY <1>0, <2>5 DEF Request, Life, TypeOK
  <2> QED
    BY <1>5, <2>1, <2>2, <2>3, <2>4, <2>5 DEF StepOf
<1> QED
  BY <1>1, <1>2, <1>3, <1>4, <1>5, Actors

-----------------------------------------------------------------------------
(***************************************************************************)
(* What a program does are steps of the service and of its clients.        *)
(***************************************************************************)

\* There is a connection for every client and every test connection, and Fresh is it.
LEMMA FreshConnection ==
  ASSUME TypeOK, Control, pc \in {"probe", "new"}
  PROVE  /\ Fresh \in Conn /\ Fresh = Made + 1 /\ app[Fresh] = "none"
         /\ pc = "new" /\ Probes(prog) => Made = 2 * (Clients(prog) - left) + 1
<1>1. /\ Clients(prog) \in Nat /\ 2 * Clients(prog) <= MaxConn /\ MaxConn \in Nat
      /\ left \in Nat /\ 0 < left /\ left <= Clients(prog)
  BY ProgramsAssumption, TimingAssumption DEF Control, Clients
<1>2. Made \in Nat /\ Made + 1 <= MaxConn
  BY <1>1 DEF Made, Control
<1>3. Made + 1 \in Conn
  BY <1>1, <1>2 DEF Conn
<1>4. \A d \in Conn : d \in Nat /\ (d > Made <=> ~(d < Made + 1))
  BY <1>2 DEF Conn
<1>5. /\ app[Made + 1] = "none" /\ \A d \in Conn : d < Made + 1 => app[d] # "none"
      /\ \A d \in Conn : app[d] = "none" => d = Made + 1 \/ Made + 1 < d
  BY <1>2, <1>3, <1>4 DEF Control
<1>6. ASSUME NEW c \in Conn, app[c] = "none", \A d \in Conn : d < c => app[d] # "none"
      PROVE  c = Made + 1
  BY <1>3, <1>5, <1>6
<1>7. /\ Fresh \in Conn /\ app[Fresh] = "none"
      /\ \A d \in Conn : d < Fresh => app[d] # "none"
  BY <1>3, <1>5 DEF Fresh
<1>8. Fresh = Made + 1
  BY <1>6, <1>7
<1> QED
  BY <1>7, <1>8 DEF Made

\* The packets of a program.
LEMMA PacketKinds ==
  ASSUME NEW p, NEW i \in Nat, i < Len(Packets(p))
  PROVE  Packets(p)[i + 1] \in {"data", "large"}
<1>1. CASE p = "packet_size"
  <2>1. Packets(p) = <<"data", "data", "large">> /\ Len(Packets(p)) = 3
    BY <1>1 DEF Packets
  <2>2. i + 1 \in {1, 2, 3}
    BY <2>1
  <2> QED
    BY <2>1, <2>2
<1>2. CASE p # "packet_size"
  <2>1. Packets(p) = <<"data">> /\ Len(Packets(p)) = 1
    BY <1>2 DEF Packets
  <2>2. i + 1 = 1
    BY <2>1
  <2> QED
    BY <2>1, <2>2
<1> QED
  BY <1>1, <1>2

LEMMA ProgramsTakeSteps ==
  ASSUME TypeOK, Control, [ProgramNext]_allVars
  PROVE  [Step]_vars
<1>1. CASE RunServer \/ ShutdownService
  BY <1>1 DEF RunServer, ShutdownService, Step, Next
<1>2. CASE TestConnection
  BY <1>2, FreshConnection DEF TestConnection, Step
<1>3. CASE NewClient
  BY <1>3, FreshConnection DEF NewClient, Step, Next, Application
<1>4. CASE SendNext
  <2>1. cur \in Conn /\ Packets(prog)[sent + 1] \in {"data", "large"}
    BY <1>4, PacketKinds DEF SendNext, Control
  <2> QED
    BY <1>4, <2>1 DEF SendNext, Step, Next, Application
<1>5. CASE Leave
  BY <1>5 DEF Leave, Control, Step, Next, Application
<1>6. CASE ClientDone \/ Exit \/ Exited \/ UNCHANGED allVars
  BY <1>6 DEF ClientDone, Exit, Exited, allVars
<1>7. CASE LibraryStep \/ TimePasses
  BY <1>7 DEF LibraryStep, TimePasses, Step, Next
<1> QED
  BY <1>1, <1>2, <1>3, <1>4, <1>5, <1>6, <1>7 DEF ProgramNext, ProgramStep

-----------------------------------------------------------------------------
(***************************************************************************)
(* The program's control.                                                  *)
(***************************************************************************)

\* Connections are made by applications only, and the service ends only by Shutdown.
LEMMA LibraryKeeps ==
  ASSUME TInv, Service \/ Client
  PROVE  /\ service' = service \/ (service = "stopping" /\ service' = "down")
         /\ \A d \in Conn : app'[d] = "none" <=> app[d] = "none"
<1>0. TypeOK /\ \A c \in Conn : Life(c)
  BY DEF TInv
<1>1. CASE MonitorWakes
  BY <1>1 DEF MonitorWakes
<1>2. ASSUME NEW c \in Conn, Accept(c)
      PROVE  service' = service /\ app' = app
  BY <1>2 DEF Accept
<1>3. ASSUME NEW c \in Conn, ServerRead(c)
      PROVE  service' = service /\ \A d \in Conn : app'[d] = "none" <=> app[d] = "none"
  <2>1. service' = service /\ inbox[c] # <<>> /\ c \in reg
    BY <1>3 DEF ServerRead
  <2>2. CASE app' = app
    BY <2>1, <2>2
  <2>3. CASE app' # app
    <3>1. Returns(c) /\ Head(inbox[c]) = call[c] /\ Head(inbox[c]) \in {"keepalive", "config", "data"}
      BY <1>3, <2>3 DEF ServerRead
    <3> QED
      BY <1>0, <2>1, <3>1 DEF Returns, TypeOK, Life
  <2> QED
    BY <2>2, <2>3
<1>4. ASSUME NEW c \in Conn, CallFails(c) \/ Joined(c) \/ KeepaliveWakes(c)
      PROVE  service' = service /\ \A d \in Conn : app'[d] = "none" <=> app[d] = "none"
  BY <1>0, <1>4 DEF CallFails, Joined, KeepaliveWakes, TypeOK
<1> QED
  BY <1>1, <1>2, <1>3, <1>4 DEF Service, Client

\* The next connection of a program that has one to make.
LEMMA ConnectionMade ==
  ASSUME TypeOK, Control, pc \in {"probe", "new"}, Made' = Made + 1,
         NEW a \in {"calling", "out"}, app' = [app EXCEPT ![Fresh] = a]
  PROVE  \A d \in Conn : app'[d] = "none" <=> d > Made'
<1>1. Fresh \in Conn /\ Fresh = Made + 1 /\ \A d \in Conn : app[d] = "none" <=> d > Made
  BY FreshConnection DEF Control
<1>2. Made + 1 \in Nat /\ Made \in Int
  <2>1. Clients(prog) \in Nat /\ left \in Nat
    BY ProgramsAssumption DEF Control, Clients
  <2> QED
    BY <1>1, <2>1 DEF Conn, Made
<1>3. \A d \in Conn : d \in Nat /\ (d > Made + 1 <=> d > Made /\ d # Made + 1)
  BY <1>2 DEF Conn
<1> QED
  BY <1>1, <1>3 DEF TypeOK

LEMMA ControlStep ==
  ASSUME TInv, Control, [ProgramNext]_allVars
  PROVE  Control'
<1>0. TypeOK
  BY DEF TInv
<1>00. Clients(prog) \in Nat /\ left \in Nat /\ left <= Clients(prog)
  BY ProgramsAssumption DEF Control, Clients
<1>1. CASE \/ RunServer
           \/ ClientDone
  <2>1. /\ UNCHANGED <<app, prog, cur, sent, left, vpn>>
        /\ pc # "new" /\ pc' = NextClient /\ service' = "up"
    BY <1>1 DEF RunServer, Start, ClientDone, vars, Goto, Control
  <2>2. /\ pc' \in {"shutdown", "probe", "new"}
        /\ pc' \in {"probe", "new"} => left # 0
        /\ pc' = "probe" => Probes(prog)
        /\ pc' = "new" => ~Probes(prog)
    BY <2>1 DEF NextClient
  <2>3. Made' = Made
    BY <2>1, <2>2 DEF Made, Clients, Probes
  <2> QED
    BY <1>00, <2>1, <2>2, <2>3 DEF Control, Clients, Probes
<1>2. CASE TestConnection
  <2>1. /\ UNCHANGED <<service, prog, cur, sent, left, vpn>>
        /\ pc = "probe" /\ pc' = "new"
        /\ app' = [app EXCEPT ![Fresh] = "out"]
    BY <1>2 DEF TestConnection, Probe, Goto
  <2>2. Made' = Made + 1
    BY <1>00, <2>1 DEF Made, Control, Clients, Probes
  <2>3. \A d \in Conn : app'[d] = "none" <=> d > Made'
    BY <1>0, <2>1, <2>2, ConnectionMade
  <2> QED
    BY <2>1, <2>3 DEF Control, Clients, Probes
<1>3. CASE NewClient
  <2>1. /\ UNCHANGED <<service, prog>>
        /\ pc = "new" /\ pc' = "use" /\ cur' = Fresh /\ sent' = 0 /\ left' = left - 1
        /\ vpn' = vpn \cup {Fresh}
        /\ app' = [app EXCEPT ![Fresh] = "calling"]
    BY <1>3 DEF NewClient, New, Goto
  <2>2. left > 0
    BY <2>1 DEF Control
  <2>3. Made' = Made + 1
    BY <1>00, <2>1, <2>2 DEF Made, Clients, Probes
  <2>4. \A d \in Conn : app'[d] = "none" <=> d > Made'
    BY <1>0, <2>1, <2>3, ConnectionMade
  <2>5. Fresh \in Conn
    BY <1>0, <2>1, FreshConnection
  <2>6. left' \in 0 .. Clients(prog)
    BY <1>00, <2>1, <2>2
  <2> QED
    BY <2>1, <2>4, <2>5, <2>6 DEF Control, Clients, Probes
<1>4. CASE SendNext \/ Leave
  <2>1. /\ UNCHANGED <<service, prog, cur, left, vpn>>
        /\ pc = "use" /\ pc' \in {"use", "leave"}
        /\ sent' \in {sent, sent + 1}
        /\ app[cur] = "idle"
        /\ app' = app \/ \E a \in {"calling", "joining", "out"} : app' = [app EXCEPT ![cur] = a]
    BY <1>4 DEF SendNext, Leave, Request, Disconnect, Goto
  <2>2. Made' = Made
    BY <2>1 DEF Made, Clients, Probes
  <2>3. \A d \in Conn : app'[d] = "none" <=> app[d] = "none"
    BY <1>0, <2>1 DEF TypeOK
  <2> QED
    BY <2>1, <2>2, <2>3 DEF Control, Clients, Probes
<1>5. CASE ShutdownService \/ Exit
  <2>1. /\ UNCHANGED <<app, prog, cur, sent, left, vpn>>
        /\ pc # "new" /\ pc' \in {"join", "done"}
    BY <1>5 DEF ShutdownService, Exit, Shutdown, Goto, vars
  <2>2. Made' = Made
    BY <2>1 DEF Made, Clients, Probes
  <2> QED
    BY <2>1, <2>2 DEF Control, Clients, Probes
<1>6. CASE LibraryStep \/ TimePasses \/ Exited \/ UNCHANGED allVars
  <2>1. UNCHANGED <<prog, pc, cur, sent, left, vpn>>
    BY <1>6 DEF LibraryStep, TimePasses, Exited, allVars
  <2>2. /\ service' = service \/ (service = "stopping" /\ service' = "down")
        /\ \A d \in Conn : app'[d] = "none" <=> app[d] = "none"
    BY <1>6, LibraryKeeps DEF LibraryStep, TimePasses, Tick, Exited, allVars, vars
  <2>3. Made' = Made
    BY <2>1 DEF Made, Clients, Probes
  <2> QED
    BY <2>1, <2>2, <2>3 DEF Control, Clients, Probes
<1> QED
  BY <1>1, <1>2, <1>3, <1>4, <1>5, <1>6 DEF ProgramNext, ProgramStep

-----------------------------------------------------------------------------
(***************************************************************************)
(* ClientsFollowOneAnother.                                                *)
(***************************************************************************)

\* What the library does to the client in use: it never lets it go while the server
\* still has it, if no handshake times out whose request was not lost.
LEMMA LibraryLetsGo ==
  ASSUME 2 * Lag < ReadTimeout, TInv, NEW c \in Conn, Handshake(c), service = "up",
         CallFails(c) \/ Joined(c), app'[c] = "out"
  PROVE  c \notin reg \cup backlog \/ "config" \in lost[c]
<1>0. TypeOK /\ Life(c)
  BY DEF TInv
<1>1. CASE Joined(c)
  BY <1>0, <1>1 DEF Joined, Life
<1>2. CASE CallFails(c)
  <2>1. call[c] = "config" /\ app[c] = "calling" /\ (link[c] # "up" \/ lasts[c] >= ReadTimeout)
    BY <1>0, <1>2 DEF CallFails, TypeOK
  <2>2. /\ lasts[c] \in Nat /\ waited[c] \in Nat /\ waited[c] <= Lag /\ Lag \in Nat
        /\ ReadTimeout \in Nat
    BY <1>0, ClockTypes, Times
  <2> SUFFICES ASSUME "config" \notin lost[c] PROVE c \notin reg \cup backlog
    OBVIOUS
  <2>0. "config" \notin lost[c]
    OBVIOUS
  <2>3. link[c] # "up"
    <3>1. SUFFICES ASSUME link[c] = "up" PROVE lasts[c] <= Lag + waited[c]
      BY <2>1, <2>2
    <3> QED
      BY <2>0, <2>1, <2>2, <3>1 DEF Handshake
  <2> QED
    BY <1>0, <2>1, <2>3 DEF Life
<1> QED
  BY <1>1, <1>2

LEMMA OwnStep ==
  ASSUME 2 * Lag < ReadTimeout, TInv, Control, [ProgramNext]_allVars,
         \A c \in Conn : Own(c) /\ Handshake(c), NEW c \in Conn
  PROVE  Own(c)'
<1>0. TypeOK /\ Life(c) /\ Own(c)
  BY DEF TInv
<1>00. lost[c] \subseteq lost'[c]
  BY <1>0, ProgramsTakeSteps, LostGrows
<1>1. CASE RunServer \/ ClientDone
  <2>1. UNCHANGED <<app, vpn, reg, backlog, cur>>
    BY <1>1 DEF RunServer, Start, ClientDone, vars
  <2>2. app[c] \notin {"calling", "idle", "joining"}
    BY <1>0, <1>1 DEF RunServer, ClientDone, Own
  <2> QED
    BY <1>0, <1>00, <2>1, <2>2 DEF Own
<1>2. CASE TestConnection
  <2>1. /\ UNCHANGED <<vpn, reg, cur>> /\ pc = "probe"
        /\ app' = [app EXCEPT ![Fresh] = "out"] /\ backlog' = backlog \cup {Fresh}
        /\ Fresh \in Conn /\ app[Fresh] = "none"
    BY <1>0, <1>2, FreshConnection DEF TestConnection, Probe
  <2>2. Fresh \notin vpn
    BY <2>1 DEF Own
  <2> QED
    BY <1>0, <1>00, <2>1, <2>2 DEF Own, TypeOK
<1>3. CASE NewClient
  <2>1. /\ reg' = reg /\ cur' = Fresh /\ vpn' = vpn \cup {Fresh} /\ pc = "new" /\ pc' = "use"
        /\ app' = [app EXCEPT ![Fresh] = "calling"] /\ backlog' = backlog \cup {Fresh}
        /\ Fresh \in Conn /\ app[Fresh] = "none"
    BY <1>0, <1>3, FreshConnection DEF NewClient, New, Goto
  <2> QED
    BY <1>0, <1>00, <2>1 DEF Own, TypeOK
<1>4. CASE SendNext \/ Leave
  <2>1. /\ UNCHANGED <<reg, backlog, vpn, cur>> /\ pc = "use" /\ pc' \in {"use", "leave"}
        /\ cur \in Conn /\ app[cur] = "idle"
        /\ \/ app' = app
           \/ \E a \in {"calling", "joining"} : app' = [app EXCEPT ![cur] = a]
           \/ app' = [app EXCEPT ![cur] = "out"] /\ link[cur] \in {"closed", "reset"}
    BY <1>4 DEF SendNext, Leave, Request, Disconnect, NotWritten, Lost, Goto, Control
  <2>2. link[cur] \in {"closed", "reset"} => cur \notin reg \cup backlog
    BY <2>1 DEF TInv, Life
  <2> QED
    BY <1>0, <1>00, <2>1, <2>2 DEF Own, TypeOK
<1>5. CASE ShutdownService \/ Exit
  <2>1. UNCHANGED <<app, vpn, reg, backlog, cur>>
    BY <1>5 DEF ShutdownService, Shutdown, Exit, vars
  <2>2. app[c] \notin {"calling", "idle", "joining"}
    BY <1>0, <1>5 DEF ShutdownService, Exit, Own
  <2> QED
    BY <1>0, <1>00, <2>1, <2>2 DEF Own
<1>6. CASE TimePasses \/ Exited \/ UNCHANGED allVars
  <2>1. UNCHANGED <<app, vpn, reg, backlog, cur, pc>>
    BY <1>6 DEF TimePasses, Tick, Exited, allVars, vars
  <2> QED
    BY <1>0, <1>00, <2>1 DEF Own
<1>7. CASE LibraryStep
  <2>1. UNCHANGED <<vpn, cur, pc>> /\ (Service \/ Client)
    BY <1>7 DEF LibraryStep
  <2>2. /\ \A d \in Conn : app'[d] = "none" <=> app[d] = "none"
    BY <2>1, LibraryKeeps
  <2>3. reg' \cup backlog' \subseteq reg \cup backlog
    BY <2>1 DEF Service, MonitorWakes, Accept, ServerRead, Remove, Unregister, Client,
       CallFails, Joined, KeepaliveWakes
  <2>4. CASE app'[c] = app[c]
    BY <1>0, <1>00, <2>1, <2>3, <2>4 DEF Own
  <2>5. CASE app'[c] # app[c]
    <3>1. /\ app[c] \in {"calling", "idle", "joining"}
          /\ app'[c] = "out" => CallFails(c) \/ Joined(c)
      <4>1. CASE MonitorWakes
        BY <2>5, <4>1 DEF MonitorWakes
      <4>2. ASSUME NEW d \in Conn, Accept(d) PROVE FALSE
        BY <2>5, <4>2 DEF Accept
      <4>3. ASSUME NEW d \in Conn, ServerRead(d)
            PROVE  app[c] = "calling" /\ app'[c] # "out"
        <5>1. Returns(d) /\ Head(inbox[d]) = call[d] /\ Head(inbox[d]) \in {"keepalive", "config", "data"}
          BY <2>5, <4>3 DEF ServerRead
        <5>2. d = c /\ app'[c] = "idle"
          BY <1>0, <2>5, <5>1 DEF Returns, TypeOK
        <5> QED
          BY <1>0, <5>1, <5>2 DEF Life
      <4>4. ASSUME NEW d \in Conn, CallFails(d) \/ Joined(d) \/ KeepaliveWakes(d)
            PROVE  d = c /\ app[c] \in {"calling", "joining"} /\ (CallFails(c) \/ Joined(c))
        BY <1>0, <2>5, <4>4 DEF CallFails, Joined, KeepaliveWakes, TypeOK
      <4> QED
        BY <2>1, <4>1, <4>2, <4>3, <4>4 DEF Service, Client
    <3>2. c = cur /\ pc \in {"use", "leave"} /\ service = "up"
      BY <1>0, <3>1 DEF Own, Control
    <3>3. app'[c] = "out" => c \notin reg \cup backlog \/ "config" \in lost[c]
      BY <3>1, <3>2, LibraryLetsGo
    <3> QED
      BY <1>0, <1>00, <2>1, <2>2, <2>3, <3>1, <3>2, <3>3 DEF Own
  <2> QED
    BY <2>4, <2>5
<1> QED
  BY <1>1, <1>2, <1>3, <1>4, <1>5, <1>6, <1>7 DEF ProgramNext, ProgramStep

-----------------------------------------------------------------------------
\* What the program and the library do is timed as in KeepaliveTiming.
THEOREM ProgramInvariance == ProgramSpec => [](TInv /\ Control)
<1>1. ProgramInit => TInv /\ Control
  <2> SUFFICES ASSUME ProgramInit PROVE Control
    BY InitTInv DEF ProgramInit
  <2>1. Clients(prog) \in Nat /\ left = Clients(prog) /\ prog \in ProgramName
    BY ProgramsAssumption DEF ProgramInit, Clients
  <2>2. Made = 0
    BY <2>1 DEF ProgramInit, Made
  <2>3. \A d \in Conn : app[d] = "none" /\ d > 0
    BY DEF ProgramInit, Init, Conn
  <2> QED
    BY <2>1, <2>2, <2>3 DEF ProgramInit, Init, Control
<1>2. TInv /\ Control /\ [ProgramNext]_allVars => TInv' /\ Control'
  BY ProgramsTakeSteps, TInvStep, ControlStep DEF TInv
<1> QED
  BY <1>1, <1>2, PTL DEF ProgramSpec

\* No program connects a client before the one that it ran last is unregistered, nor shuts
\* its service down before, unless the request of that client's handshake was lost or not
\* answered: no other handshake times out while it waits for the listener and the worker,
\* and disconnect waits for the server to let the client go, whatever else is lost.
THEOREM OneClientAtATime ==
  ASSUME 2 * Lag < ReadTimeout
  PROVE  ProgramSpec => []ClientsFollowOneAnother
<1> DEFINE OInv == \A c \in Conn : Handshake(c) /\ Own(c)
<1>1. ProgramInit => OInv
  BY DEF ProgramInit, Init, Handshake, Own
<1>2. TInv /\ Control /\ OInv /\ [ProgramNext]_allVars => OInv'
  <2> SUFFICES ASSUME TInv, Control, OInv, [ProgramNext]_allVars PROVE OInv'
    OBVIOUS
  <2>1. [Step]_vars
    BY ProgramsTakeSteps DEF TInv
  <2>2. ASSUME NEW c \in Conn PROVE Handshake(c)' /\ Own(c)'
    BY <2>1, HandshakeStep, OwnStep
  <2> QED
    BY <2>2
<1>3. TInv /\ OInv => ClientsFollowOneAnother
  <2> SUFFICES ASSUME TInv, OInv, NEW c \in (reg \cup backlog) \cap vpn
               PROVE  (c = cur /\ pc \in {"use", "leave"}) \/ "config" \in lost[c]
    BY DEF ClientsFollowOneAnother
  <2>1. c \in Conn /\ app[c] \in {"none", "calling", "idle", "joining", "out"}
    BY DEF TInv, TypeOK
  <2> QED
    BY <2>1 DEF Own
<1> QED
  BY ProgramInvariance, <1>1, <1>2, <1>3, PTL DEF ProgramSpec

\* No client of a program is evicted while it is in use, under the same condition as a
\* client of any application.
THEOREM ProgramClientsKeptAlive ==
  ASSUME 2 * (Interval + 2 * Lag) < Timeout
  PROVE  ProgramSpec => KeptAlive
<1> DEFINE A == MonitorWakes =>
                  \A c \in reg : link[c] = "up" /\ app[c] # "out" /\ missed[c] < 2 => c \in reg'
<1> DEFINE SInv == \A c \in Conn : Silent(c)
<1>1. ProgramInit => SInv
  BY DEF ProgramInit, Init, Silent
<1>2. TInv /\ Control /\ SInv /\ [ProgramNext]_allVars => SInv'
  <2> SUFFICES ASSUME TInv, Control, SInv, [ProgramNext]_allVars PROVE SInv'
    OBVIOUS
  <2>1. [Step]_vars
    BY ProgramsTakeSteps DEF TInv
  <2>2. ASSUME NEW c \in Conn PROVE Silent(c)'
    BY <2>1, SilentStep
  <2> QED
    BY <2>2
<1>3. TInv /\ SInv => [A]_vars
  <2> SUFFICES ASSUME TInv, SInv, MonitorWakes, NEW c \in reg, link[c] = "up", missed[c] < 2
               PROVE  c \in reg'
    OBVIOUS
  <2>1. Silent(c)
    BY DEF TInv, TypeOK
  <2> QED
    BY <2>1, MonitorKeeps
<1> QED
  BY ProgramInvariance, <1>1, <1>2, <1>3, PTL DEF ProgramSpec, KeptAlive
==============================================================================
