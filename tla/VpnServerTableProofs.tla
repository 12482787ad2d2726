------------------------ MODULE VpnServerTableProofs ------------------------
(***************************************************************************)
(* Theorems about what VpnServer answers, in which order, about its tables *)
(* and about the removal of clients, for every set of addresses and every  *)
(* bound.  Their invariant, AInv, stands on that of VpnServerProofs.       *)
(***************************************************************************)
EXTENDS VpnServerProofs

\* The answered frames, on whatever connection.
Answered == UNION {{out[c][i] : i \in DOMAIN out[c]} : c \in Conn}

\* The frame that the worker handles.
Request == <<req, rd[req]>>

\* It has been read and not been dealt with; it was a Disconnect and has been answered.
Answering == {"touch", "config", "routes", "reply"}
Disconnecting == {"discRemove", "discRoutes", "discConfig"}

\* The map has nothing older than c at c's address, and not c.
Latest(c) == clients[addr[c]] # NoConn => c <= clients[addr[c]]
Gone(c) == clients[addr[c]] # NoConn => c < clients[addr[c]]

\* Answered frames were read; no connection is registered that is older than one
\* whose frame was answered, or that was written to.
AnswersRead ==
  /\ \A f \in Answered :
       f \in Conn \X Nat /\ Inserted(f[1]) /\ f[2] \in 1 .. rd[f[1]] /\ Latest(f[1])
  /\ \A c \in Conn : out[c] # <<>> => Inserted(c) /\ Latest(c)

\* The frame in the worker's hands is later than all those of its address that were
\* answered, and its connection later than those that said goodbye.
RequestNew ==
  wpc \in Answering =>
    \A f \in Answered : addr[f[1]] = cur =>
      Before(f, Request) /\ (KindOf(f) = "disconnect" => f[1] < req)

\* What the handlers know of the frame in their hands.
HandlersOK ==
  /\ wpc \in {"config", "routes"} => KindOf(Request) = wpc
  /\ wpc = "reply" /\ KindOf(Request) = "routes" => routes[cur] = Request
  /\ wpc \in Disconnecting =>
       /\ KindOf(Request) = "disconnect" /\ Request \in Answered
       /\ \A f \in Answered : addr[f[1]] = cur => f = Request \/ Before(f, Request)
  /\ wpc \in {"discRoutes", "discConfig"} => Gone(req)
  /\ wpc = "discConfig" => routes[cur] = NoFrame

\* The client at cur is to be removed: nobody was there when the worker came to it, or the
\* connection of the frame in hand has gone already, or that frame was fatal.
RemoveOK ==
  wpc = "remove" /\ req # NoConn =>
    /\ Inserted(req) /\ addr[req] = cur /\ Latest(req)
    /\ Gone(req) \/ (rd[req] > 0 /\ frames[req][rd[req]] \in Fatal)

\* Nothing is left of an address from before its acknowledged Disconnect, unless the
\* worker is about to clear it.
DisconnectsOK ==
  \A f \in Answered : KindOf(f) = "disconnect" =>
    \/ wpc \in Disconnecting /\ f = Request
    \/ LET id == addr[f[1]]
       IN /\ Gone(f[1])
          /\ routes[id] # NoFrame => Before(f, routes[id])
          /\ configs[id] # NoConn => f[1] < configs[id]

AInv == /\ AnswersRead /\ RequestNew /\ HandlersOK /\ RemoveOK
        /\ DisconnectsOK /\ RepliesInOrder /\ AckedRoutesInstalled

-----------------------------------------------------------------------------
(***************************************************************************)
(* What a step does to the answers, the frames and the map.                *)
(***************************************************************************)
USE DEF socketVars, tableVars, mainVars, monitorVars, workerVars

\* A sequence keeps its elements when one is appended.
LEMMA AppendKeeps ==
  ASSUME NEW S, NEW s \in Seq(S), NEW e \in S
  PROVE  /\ \A i \in DOMAIN s : i \in DOMAIN Append(s, e) /\ Append(s, e)[i] = s[i]
         /\ \A i \in DOMAIN Append(s, e) :
              i \in DOMAIN s \/ (i = Len(s) + 1 /\ Append(s, e)[i] = e)
         /\ Len(s) + 1 \in DOMAIN Append(s, e) /\ Append(s, e)[Len(s) + 1] = e
OBVIOUS

\* Membership in Answered, spelt out.
LEMMA AnsweredMember ==
  /\ \A c \in Conn : \A i \in DOMAIN out[c] : out[c][i] \in Answered
  /\ \A f \in Answered : \E c \in Conn : \E i \in DOMAIN out[c] : f = out[c][i]
BY DEF Answered

\* The frame in hand is one that has been read.
LEMMA RequestRead ==
  ASSUME IInv, wpc \in Handling
  PROVE  /\ Request \in Conn \X Nat /\ Inserted(req) /\ rd[req] \in 1 .. rd[req]
         /\ addr[req] = cur /\ Latest(req)
BY DEF IInv, TypeOK, WorkerOK, Inserted, Request, Latest

\* Only Reply adds an answer, that to the frame in hand.
LEMMA AnsweredStep ==
  ASSUME IInv, [Next]_vars
  PROVE  \/ out' = out /\ Answered' = Answered
         \/ /\ Reply /\ clients[cur] \in Conn
            /\ out' = [out EXCEPT ![clients[cur]] = Append(@, Request)]
            /\ Answered' = Answered \cup {Request}
            /\ wpc' = IF KindOf(Request) = "disconnect" THEN "discRemove" ELSE "poll"
<1>1. CASE out' = out
  BY <1>1 DEF Answered
<1>2. CASE out' # out
  <2>1. Reply
    BY <1>2, Untouched DEF Next, Worker, WorkerCheck, Snapshot, Visit, Touch, GetConfig,
       UpdateRoutes, Remove, DisconnectClient, DropRoutes, DropConfig
  <2>2. /\ clients[cur] \in Conn
        /\ out' = [out EXCEPT ![clients[cur]] = Append(@, Request)]
        /\ wpc' = IF KindOf(Request) = "disconnect" THEN "discRemove" ELSE "poll"
    BY <1>2, <2>1 DEF Reply, Delivered, Request, KindOf, Handled, IInv, TypeOK, WorkerOK, Handling
  <2>3. out \in [Conn -> Seq(Conn \X Nat)] /\ Request \in Conn \X Nat
    BY <2>1, RequestRead DEF Reply, Handling, IInv, TypeOK
  <2>4. ASSUME NEW f \in Answered' PROVE f \in Answered \cup {Request}
    <3>1. PICK c \in Conn : \E i \in DOMAIN out'[c] : f = out'[c][i]
      BY <2>4 DEF Answered
    <3>2. PICK i \in DOMAIN out'[c] : f = out'[c][i]
      BY <3>1
    <3>3. CASE c = clients[cur]
      <4>1. out'[c] = Append(out[c], Request) /\ out[c] \in Seq(Conn \X Nat)
        BY <2>2, <2>3, <3>3
      <4>2. (i \in DOMAIN out[c] /\ f = out[c][i]) \/ f = Request
        BY <2>3, <3>2, <4>1
      <4> QED
        BY <4>2, AnsweredMember
    <3>4. CASE c # clients[cur]
      BY <2>2, <2>3, <3>2, <3>4, AnsweredMember
    <3> QED
      BY <3>3, <3>4
  <2>5. ASSUME NEW f \in Answered PROVE f \in Answered'
    <3>1. PICK c \in Conn : \E i \in DOMAIN out[c] : f = out[c][i]
      BY <2>5, AnsweredMember
    <3>2. PICK i \in DOMAIN out[c] : f = out[c][i]
      BY <3>1
    <3>3. out[c] \in Seq(Conn \X Nat) /\ out'[c] \in {out[c], Append(out[c], Request)}
      BY <2>2, <2>3
    <3>4. /\ i \in DOMAIN Append(out[c], Request)
          /\ Append(out[c], Request)[i] = out[c][i]
      BY <2>3, <3>2, <3>3, AppendKeeps
    <3>5. i \in DOMAIN out'[c] /\ f = out'[c][i]
      BY <3>2, <3>3, <3>4
    <3> QED
      BY <3>5 DEF Answered
  <2>6. Request \in Answered'
    <3> DEFINE c == clients[cur]
    <3>1. out'[c] = Append(out[c], Request) /\ out[c] \in Seq(Conn \X Nat)
      BY <2>2, <2>3
    <3>2. Len(out[c]) + 1 \in DOMAIN out'[c] /\ out'[c][Len(out[c]) + 1] = Request
      BY <2>3, <3>1
    <3> QED
      BY <2>2, <3>2 DEF Answered
  <2> QED
    BY <2>1, <2>2, <2>4, <2>5, <2>6
<1> QED
  BY <1>1, <1>2

\* A frame that was read stays what it is: a reset discards unread frames only.
LEMMA KindStep ==
  ASSUME IInv, [Next]_vars, NEW f \in Conn \X Nat, f[2] \in 1 .. rd[f[1]]
  PROVE  KindOf(f)' = KindOf(f) /\ f[2] \in 1 .. rd'[f[1]]
<1> DEFINE c == f[1]
<1>1. /\ c \in Conn /\ frames[c] \in Seq(FrameKind) /\ rd[c] \in 0 .. Len(frames[c])
      /\ f[2] \in 1 .. Len(frames[c])
  BY DEF IInv, TypeOK, ReadsArrived
<1>2. rd'[c] \in {rd[c], rd[c] + 1} /\ rd[c] \in Nat
  <2>1. Worker => rd'[c] \in {rd[c], rd[c] + 1}
    BY <1>1 DEF Worker, WorkerCheck, Snapshot, Visit, Touch, GetConfig, UpdateRoutes, Reply,
       Remove, DisconnectClient, DropRoutes, DropConfig, IInv, TypeOK
  <2> QED
    BY <1>1, <2>1, Untouched DEF Next
<1>3. frames'[c] \in {frames[c], SubSeq(frames[c], 1, rd[c])}
        \/ \E k \in FrameKind : frames'[c] = Append(frames[c], k)
  <2>1. ASSUME NEW d \in Conn, NEW k \in Traffic, Send(d, k)
        PROVE  frames'[c] = frames[c] \/ \E l \in FrameKind : frames'[c] = Append(frames[c], l)
    BY <1>1, <2>1, ConstantsAssumption DEF Send, IInv, TypeOK
  <2>2. ASSUME NEW d \in Conn, PeerReset(d)
        PROVE  frames'[c] \in {frames[c], SubSeq(frames[c], 1, rd[c])}
    BY <1>1, <2>2 DEF PeerReset, IInv, TypeOK
  <2>3. ASSUME NEW id \in ClientId, Connect(id)
        PROVE  frames'[c] \in {frames[c], SubSeq(frames[c], 1, rd[c])}
    BY <1>1, <2>3 DEF Connect
  <2>4. ASSUME NEW d \in Conn, PeerClose(d) \/ Elapse(d) PROVE frames' = frames
    BY <2>4 DEF PeerClose, Elapse
  <2> QED
    BY <2>1, <2>2, <2>3, <2>4, Untouched DEF Next, Environment
<1>4. SubSeq(frames[c], 1, rd[c])[f[2]] = frames[c][f[2]]
  BY <1>1, ReadPrefix
<1>5. frames'[c][f[2]] = frames[c][f[2]]
  <2>1. CASE frames'[c] = SubSeq(frames[c], 1, rd[c])
    BY <1>4, <2>1
  <2>2. ASSUME NEW k \in FrameKind, frames'[c] = Append(frames[c], k)
        PROVE  frames'[c][f[2]] = frames[c][f[2]]
    BY <1>1, <2>2
  <2> QED
    BY <1>3, <2>1, <2>2
<1>6. f[2] \in 1 .. rd'[c]
  BY <1>2
<1> QED
  BY <1>5, <1>6 DEF KindOf

\* The connections that an address has in the map become later ones.
LEMMA MapGrows ==
  ASSUME IInv, [Next]_vars, NEW c \in Conn, Inserted(c)
  PROVE  (Latest(c) => Latest(c)') /\ (Gone(c) => Gone(c)')
<1> DEFINE id == addr[c]
<1>1. addr'[c] = id /\ id \in ClientId
  BY InsertedStep, ConstantsAssumption DEF IInv, AddressesOK
<1>2. clients'[id] \in {clients[id], NoConn} \/ (clients'[id] = nacc /\ lpc = "insert")
  BY <1>1, Untouched DEF Next, Listener, ListenerCheck, Accept, Insert, Monitor, MonitorCheck,
     ListStale, Evict, EndCheck, Worker, WorkerCheck, Snapshot, Visit, Touch, GetConfig,
     UpdateRoutes, Reply, Remove, DisconnectClient, DropRoutes, DropConfig, IInv, TypeOK
<1>3. lpc = "insert" => c < nacc /\ c <= nacc
  BY DEF Inserted, Conn, IInv, TypeOK
<1> QED
  BY <1>1, <1>2, <1>3 DEF Latest, Gone

\* What the other threads leave to the worker.
LEMMA OthersStep ==
  ASSUME IInv, [Next]_vars, ~Worker
  PROVE  /\ UNCHANGED <<rd, out, routes, configs, batch, cur, req>>
         /\ wpc' = wpc \/ (wpc = "unborn" /\ wpc' = "poll")
BY Untouched DEF IInv, JoinsOK, Next, Main, StartListener, StartMonitor, StartWorker, Shutdown,
   JoinWorker, JoinMonitor, StopServer, JoinListener

-----------------------------------------------------------------------------
(***************************************************************************)
(* AInv holds at first and is preserved, conjunct by conjunct.             *)
(***************************************************************************)
LEMMA InitAInv == Init => AInv
<1> SUFFICES ASSUME Init PROVE AInv
  OBVIOUS
<1>1. Answered = {} /\ (\A c \in Conn : out[c] = <<>>)
  BY DEF Init, Answered
<1>2. AnswersRead /\ RequestNew /\ DisconnectsOK
  BY <1>1 DEF AnswersRead, RequestNew, DisconnectsOK
<1>3. HandlersOK /\ RemoveOK
  BY DEF Init, HandlersOK, RemoveOK, Disconnecting
<1>4. RepliesInOrder
  BY <1>1 DEF RepliesInOrder
<1>5. AckedRoutesInstalled
  BY <1>1 DEF AckedRoutesInstalled, AnsweredOf, Answered
<1> QED
  BY <1>2, <1>3, <1>4, <1>5 DEF AInv

\* A step keeps what is said of the frames answered before.
LEMMA AnswersKept ==
  ASSUME IInv, AnswersRead, [Next]_vars, NEW f \in Answered
  PROVE  /\ f \in Conn \X Nat /\ f[1] \in Conn /\ Inserted(f[1]) /\ f[2] \in 1 .. rd[f[1]]
         /\ Inserted(f[1])' /\ f[2] \in 1 .. rd'[f[1]] /\ Latest(f[1])'
         /\ addr'[f[1]] = addr[f[1]] /\ KindOf(f)' = KindOf(f)
         /\ Gone(f[1]) => Gone(f[1])'
<1>1. f \in Conn \X Nat /\ Inserted(f[1]) /\ f[2] \in 1 .. rd[f[1]] /\ Latest(f[1])
  BY DEF AnswersRead
<1>2. f[1] \in Conn
  BY <1>1
<1> QED
  BY <1>1, <1>2, InsertedStep, KindStep, MapGrows

LEMMA AnswersReadStep == ASSUME IInv, AInv, [Next]_vars PROVE AnswersRead'
<1> USE DEF AInv
<1>1. ASSUME NEW f \in Answered'
      PROVE  f \in Conn \X Nat /\ Inserted(f[1])' /\ f[2] \in 1 .. rd'[f[1]] /\ Latest(f[1])'
  <2>1. CASE f \in Answered
    BY <2>1, AnswersKept
  <2>2. CASE f \notin Answered
    <3>1. Reply /\ f = Request
      BY <1>1, <2>2, AnsweredStep
    <3>2. /\ Request \in Conn \X Nat /\ Inserted(req) /\ rd[req] \in 1 .. rd[req]
          /\ req \in Conn /\ Latest(req)
      BY <3>1, RequestRead DEF Reply, Handling, Inserted
    <3>3. rd' = rd
      BY <3>1 DEF Reply
    <3> QED
      BY <3>1, <3>2, <3>3, InsertedStep, MapGrows DEF Request
  <2> QED
    BY <2>1, <2>2
<1>2. ASSUME NEW c \in Conn, out'[c] # <<>> PROVE Inserted(c)' /\ Latest(c)'
  <2>1. CASE out[c] # <<>>
    BY <2>1, InsertedStep, MapGrows DEF AnswersRead
  <2>2. CASE out[c] = <<>>
    <3>1. Reply /\ c = clients[cur] /\ cur \in ClientId /\ c # NoConn
      BY <1>2, <2>2, AnsweredStep
      DEF Reply, IInv, TypeOK, WorkerOK, Handling, Conn, NoConn
    <3>2. Inserted(c) /\ addr[c] = cur /\ c <= c
      BY <3>1 DEF IInv, MapOK, Conn
    <3> QED
      BY <3>1, <3>2, InsertedStep, MapGrows DEF Latest
  <2> QED
    BY <2>1, <2>2
<1> QED
  BY <1>1, <1>2 DEF AnswersRead

\* The frame that the worker reads next is later than all that were answered, and so
\* is its connection if it is the first since a Disconnect.
LEMMA RequestNewStep == ASSUME IInv, AInv, [Next]_vars PROVE RequestNew'
<1> USE DEF AInv
<1> SUFFICES ASSUME wpc' \in Answering, NEW f \in Answered', addr'[f[1]] = cur'
             PROVE  Before(f, Request') /\ (KindOf(f)' = "disconnect" => f[1] < req')
  BY DEF RequestNew, Before
<1>1. f \in Answered /\ out' = out
  BY AnsweredStep DEF Answering
<1>2. /\ f \in Conn \X Nat /\ f[1] \in Conn /\ f[2] \in 1 .. rd[f[1]]
      /\ addr[f[1]] = cur' /\ KindOf(f)' = KindOf(f) /\ Latest(f[1])
  BY <1>1, AnswersKept DEF AnswersRead
<1>3. CASE wpc \in Answering /\ UNCHANGED <<cur, req, rd>>
  BY <1>1, <1>2, <1>3 DEF RequestNew, Before, Request
<1>4. ASSUME NEW id \in ClientId, Visit(id)
      PROVE  Before(f, Request') /\ (KindOf(f)' = "disconnect" => f[1] < req')
  <2> DEFINE c == clients[id]
  <2>1. /\ c \in Conn /\ cur' = id /\ req' = c /\ rd' = [rd EXCEPT ![c] = @ + 1]
        /\ wpc = "poll"
    BY <1>4 DEF Visit, Handled, Answering, IInv, TypeOK
  <2>2. rd[c] \in Nat /\ rd'[c] = rd[c] + 1 /\ c # NoConn /\ c \in Nat /\ f[1] \in Nat
    BY <1>2, <2>1 DEF IInv, TypeOK, Conn, NoConn
  <2>3. f[1] <= c
    BY <1>2, <2>1, <2>2 DEF Latest
  <2>4. f[1] = c => f[2] < rd'[c]
    BY <1>2, <2>2
  <2>5. Before(f, <<c, rd'[c]>>)
    BY <2>2, <2>3, <2>4 DEF Before
  <2>6. KindOf(f) = "disconnect" => f[1] < c
    BY <1>1, <1>2, <2>1, <2>2 DEF DisconnectsOK, Disconnecting, Gone
  <2> QED
    BY <1>2, <2>1, <2>5, <2>6 DEF Request
<1>5. CASE ~Worker
  BY <1>3, <1>5, OthersStep DEF Answering
<1>6. Worker => \/ \E id \in ClientId : Visit(id)
                \/ wpc \in Answering /\ UNCHANGED <<cur, req, rd>>
  BY DEF Answering, Worker, WorkerCheck, Snapshot, Touch, GetConfig, UpdateRoutes, Reply,
     Remove, DisconnectClient, DropRoutes, DropConfig, Handled, Discard, IoError
<1> QED
  BY <1>3, <1>4, <1>5, <1>6

LEMMA RemoveStep == ASSUME IInv, AInv, [Next]_vars PROVE RemoveOK'
<1> USE DEF AInv
<1> DEFINE Due(d, id) == /\ Inserted(d) /\ addr[d] = id /\ Latest(d)
                         /\ Gone(d) \/ (rd[d] > 0 /\ frames[d][rd[d]] \in Fatal)
<1>0. req' \in Conn \cup {NoConn}
  BY TypeStep DEF TypeOK
<1> SUFFICES ASSUME wpc' = "remove", NEW d \in Conn, d = req' PROVE Due(d, cur)'
  BY <1>0 DEF RemoveOK
<1>1. ASSUME Due(d, cur'), rd'[d] = rd[d] PROVE Due(d, cur)'
  <2>1. Inserted(d)' /\ addr'[d] = addr[d] /\ Latest(d)' /\ (Gone(d) => Gone(d)')
    BY <1>1, InsertedStep, MapGrows
  <2>2. rd[d] > 0 => frames'[d][rd[d]] = frames[d][rd[d]]
    <3>1. SUFFICES ASSUME NEW n, n = rd[d], n > 0 PROVE frames'[d][n] = frames[d][n]
      OBVIOUS
    <3>2. <<d, n>> \in Conn \X Nat /\ n \in 1 .. rd[d]
      BY <3>1 DEF IInv, TypeOK
    <3>3. KindOf(<<d, n>>)' = KindOf(<<d, n>>)
      BY <3>2, KindStep
    <3> QED
      BY <3>3 DEF KindOf
  <2> QED
    BY <1>1, <2>1, <2>2
<1>2. CASE wpc = "remove" /\ UNCHANGED <<cur, req, rd>>
  BY <1>1, <1>2 DEF RemoveOK, Conn, NoConn
<1>3. CASE (Touch \/ Reply) /\ clients[cur] = NoConn
  <2>1. wpc \in Handling /\ UNCHANGED <<cur, req, rd>>
    BY <1>3 DEF Touch, Reply, Handling, Discard
  <2>2. Due(req, cur) /\ req \in Conn
    BY <1>3, <2>1, RequestRead DEF Gone, Inserted
  <2> QED
    BY <1>1, <2>1, <2>2
<1>4. ASSUME NEW id \in ClientId, Visit(id) PROVE Due(d, cur)'
  <2>1. clients[id] # NoConn
    BY <1>4 DEF Visit, Conn, NoConn
  <2>2. PICK c \in Conn : c = clients[id] /\ Inserted(c) /\ addr[c] = id /\ Latest(c)
    BY <2>1 DEF IInv, MapOK, Inserted, Latest, Conn
  <2>3. /\ rd[c] < Len(frames[c]) /\ rd'[c] = rd[c] + 1 /\ cur' = id /\ d = c
        /\ Dispatch(frames[c][rd[c] + 1]) = "remove" /\ frames' = frames
    BY <1>4, <2>1, <2>2 DEF Visit, Handled, IInv, TypeOK
  <2>4. frames[c][rd[c] + 1] \in FrameKind /\ rd[c] \in Nat
    BY <2>2, <2>3 DEF IInv, TypeOK
  <2>5. frames[c][rd[c] + 1] \in Fatal
    BY <2>3, <2>4 DEF Dispatch, FrameKind, Fatal
  <2>6. Inserted(c)' /\ addr'[c] = id /\ Latest(c)'
    BY <2>2, InsertedStep, MapGrows
  <2> QED
    BY <2>2, <2>3, <2>4, <2>5, <2>6
<1>5. CASE ~Worker
  BY <1>2, <1>5, OthersStep
<1>6. Worker => \/ \E id \in ClientId : Visit(id)
                \/ (Touch \/ Reply) /\ clients[cur] = NoConn
  BY DEF Worker, WorkerCheck, Snapshot, Touch, GetConfig, UpdateRoutes, Reply,
     Remove, DisconnectClient, DropRoutes, DropConfig, Handled, IoError
<1> QED
  BY <1>2, <1>3, <1>4, <1>5, <1>6

\* The frame in hand is the same as long as the worker keeps it.
LEMMA RequestKept ==
  ASSUME IInv, [Next]_vars, wpc \in Handling, UNCHANGED <<cur, req, rd>>
  PROVE  /\ Request' = Request /\ KindOf(Request)' = KindOf(Request)
         /\ addr[req] = cur /\ addr'[req'] = cur' /\ (Gone(req) => Gone(req)')
<1>1. /\ Request \in Conn \X Nat /\ Inserted(req) /\ req \in Conn
      /\ rd[req] \in 1 .. rd[req] /\ addr[req] = cur
  BY RequestRead DEF Inserted
<1>2. PICK f \in Conn \X Nat : f = Request /\ f[1] = req /\ f[2] = rd[req]
  BY <1>1 DEF Request
<1>3. KindOf(f)' = KindOf(f)
  BY <1>1, <1>2, KindStep
<1>4. Request' = f
  BY <1>2 DEF Request
<1>5. addr'[req] = addr[req] /\ (Gone(req) => Gone(req)')
  <2>1. PICK c \in Conn : c = req
    BY <1>1
  <2>2. addr'[c] = addr[c] /\ (Gone(c) => Gone(c)')
    BY <1>1, <2>1, InsertedStep, MapGrows
  <2>3. Gone(c)' => Gone(req)'
    BY <2>1 DEF Gone
  <2> QED
    BY <2>1, <2>2, <2>3
<1> QED
  BY <1>1, <1>2, <1>3, <1>4, <1>5 DEF KindOf

LEMMA HandlersStep == ASSUME IInv, AInv, [Next]_vars PROVE HandlersOK'
<1> USE DEF AInv
<1>1. CASE ~Worker
  <2>1. UNCHANGED <<cur, req, rd, routes, out>> /\ wpc' \in {wpc, "poll"}
    BY <1>1, OthersStep
  <2>2. CASE wpc' \in Handling /\ wpc' = wpc
    <3>1. /\ Request' = Request /\ KindOf(Request)' = KindOf(Request)
          /\ Gone(req) => Gone(req)'
      BY <2>1, <2>2, RequestKept
    <3>2. Answered' = Answered
      BY <2>1 DEF Answered
    <3>3. \A f \in Answered : addr'[f[1]] = addr[f[1]]
      BY AnswersKept
    <3> QED
      BY <2>1, <2>2, <3>1, <3>2, <3>3 DEF HandlersOK, Before
  <2>3. CASE wpc' \notin Handling
    BY <2>3 DEF HandlersOK, Handling, Disconnecting
  <2> QED
    BY <2>1, <2>2, <2>3 DEF Handling
<1>2. ASSUME NEW id \in ClientId, Visit(id) PROVE HandlersOK'
  <2>1. wpc' \in {"poll", "remove", "touch"}
          \/ \E k \in FrameKind : wpc' = Dispatch(k) /\ KindOf(Request)' = k
    BY <1>2 DEF Visit, Handled, KindOf, Request, IInv, TypeOK
  <2>2. \A k \in FrameKind : /\ Dispatch(k) \in {"config", "routes"} => k = Dispatch(k)
                             /\ Dispatch(k) = "reply" => k # "routes"
                             /\ Dispatch(k) \notin Disconnecting
    BY DEF FrameKind, Dispatch, Disconnecting, Fatal
  <2> QED
    BY <2>1, <2>2 DEF HandlersOK, Disconnecting
<1>3. CASE GetConfig \/ UpdateRoutes
  <2>1. /\ wpc \in {"config", "routes"} /\ wpc' = "reply" /\ UNCHANGED <<cur, req, rd>>
        /\ UpdateRoutes => routes' = [routes EXCEPT ![cur] = Request]
        /\ GetConfig => wpc = "config"
    BY <1>3 DEF GetConfig, UpdateRoutes, Installed, Request
  <2>2. Request' = Request /\ KindOf(Request)' = KindOf(Request)
    BY <2>1, RequestKept DEF Handling
  <2>3. cur \in ClientId /\ routes \in [ClientId -> (Conn \cup {NoConn}) \X Nat]
    BY <2>1 DEF IInv, TypeOK, WorkerOK, Handling
  <2> QED
    BY <1>3, <2>1, <2>2, <2>3 DEF HandlersOK, Disconnecting
<1>4. CASE Reply
  <2>1. CASE wpc' \in {"poll", "remove"}
    BY <2>1 DEF HandlersOK, Disconnecting
  <2>2. CASE wpc' = "discRemove"
    <3>1. UNCHANGED <<cur, req, rd>> /\ wpc = "reply" /\ KindOf(Request) = "disconnect"
      BY <1>4, <2>2 DEF Reply, Discard, IoError, Handled, KindOf, Request
    <3>2. Request' = Request /\ KindOf(Request)' = KindOf(Request)
      BY <3>1, RequestKept DEF Handling
    <3>3. out' # out
      <4>1. clients[cur] \in Conn /\ out' = Delivered(clients[cur], <<req, rd[req]>>)
        BY <1>4, <2>2, <3>1 DEF Reply, Discard, IoError, Handled, IInv, TypeOK, WorkerOK, Handling
      <4>2. Request \in Conn \X Nat /\ out \in [Conn -> Seq(Conn \X Nat)]
        BY <3>1, RequestRead DEF Handling, IInv, TypeOK
      <4>3. out'[clients[cur]] = Append(out[clients[cur]], Request)
        BY <4>1, <4>2 DEF Delivered, Request
      <4>4. Len(out[clients[cur]]) + 1 = Len(out'[clients[cur]])
        BY <4>1, <4>2, <4>3
      <4>5. Len(out[clients[cur]]) \in Nat
        BY <4>1, <4>2
      <4> QED
        BY <4>4, <4>5
    <3>4. Answered' = Answered \cup {Request}
      BY <3>3, AnsweredStep
    <3>5. \A f \in Answered : addr'[f[1]] = addr[f[1]]
      BY AnswersKept
    <3>6. \A f \in Answered : addr[f[1]] = cur => Before(f, Request)
      BY <3>1 DEF RequestNew, Answering
    <3> QED
      BY <2>2, <3>1, <3>2, <3>4, <3>5, <3>6 DEF HandlersOK, Before
  <2> QED
    BY <1>4, <2>1, <2>2 DEF Reply, Handled, Discard, IoError
<1>5. CASE DisconnectClient \/ DropRoutes
  <2>1. /\ wpc \in {"discRemove", "discRoutes"} /\ UNCHANGED <<cur, req, rd, out>>
        /\ wpc' \in {"discRoutes", "discConfig"} /\ cur \in ClientId
    BY <1>5 DEF DisconnectClient, DropRoutes, IInv, WorkerOK, Handling
  <2>2. /\ Request' = Request /\ KindOf(Request)' = KindOf(Request)
        /\ addr[req] = cur /\ addr'[req'] = cur' /\ (Gone(req) => Gone(req)')
    BY <2>1, RequestKept DEF Handling
  <2>3. Answered' = Answered /\ \A f \in Answered : addr'[f[1]] = addr[f[1]]
    BY <2>1, AnswersKept DEF Answered
  <2>4. Gone(req)'
    <3>1. CASE DropRoutes
      BY <2>2, <3>1 DEF DropRoutes, HandlersOK
    <3>2. CASE DisconnectClient
      BY <2>1, <2>2, <3>2 DEF DisconnectClient, Gone, IInv, TypeOK
    <3> QED
      BY <1>5, <3>1, <3>2
  <2>5. wpc' = "discConfig" => routes'[cur'] = NoFrame
    BY <1>5, <2>1 DEF DisconnectClient, DropRoutes, WithoutRoutes, IInv, TypeOK
  <2> QED
    BY <2>1, <2>2, <2>3, <2>4, <2>5 DEF HandlersOK, Before, Disconnecting
<1>6. CASE WorkerCheck \/ Snapshot \/ Touch \/ Remove \/ DropConfig
  <2>1. wpc' \in {"exited", "snapshot", "poll", "remove"}
    BY <1>6 DEF WorkerCheck, Snapshot, Touch, Remove, DropConfig, Handled, Discard
  <2> QED
    BY <2>1 DEF HandlersOK, Disconnecting
<1> QED
  BY <1>1, <1>2, <1>3, <1>4, <1>5, <1>6 DEF Worker

LEMMA DisconnectsStep == ASSUME IInv, AInv, [Next]_vars PROVE DisconnectsOK'
<1> USE DEF AInv
<1> DEFINE Cleared(f) == LET id == addr[f[1]]
                         IN /\ Gone(f[1])
                            /\ routes[id] # NoFrame => Before(f, routes[id])
                            /\ configs[id] # NoConn => f[1] < configs[id]
<1> SUFFICES ASSUME NEW f \in Answered', KindOf(f)' = "disconnect"
             PROVE  (wpc' \in Disconnecting /\ f = Request') \/ Cleared(f)'
  BY DEF DisconnectsOK
<1>1. CASE f \notin Answered
  <2>1. Reply /\ f = Request /\ wpc \in Handling
    BY <1>1, AnsweredStep DEF Reply, Handling
  <2>2. wpc' = IF KindOf(Request) = "disconnect" THEN "discRemove" ELSE "poll"
    BY <1>1, AnsweredStep
  <2>3. rd' = rd /\ (UNCHANGED <<cur, req>> \/ wpc' \in {"poll"})
    BY <2>1, <2>2 DEF Reply, Handled, Discard, IoError
  <2>4. KindOf(f) = "disconnect"
    <3>1. f \in Conn \X Nat /\ f[2] \in 1 .. rd[f[1]]
      BY <2>1, RequestRead DEF Request
    <3> QED
      BY <3>1, KindStep
  <2>5. f = Request'
    BY <2>1, <2>2, <2>3, <2>4 DEF Request
  <2> QED
    BY <2>1, <2>2, <2>4, <2>5 DEF Disconnecting
<1>2. CASE f \in Answered /\ wpc \in Disconnecting /\ f = Request
  <2>1. CASE UNCHANGED <<req, rd>> /\ wpc' \in Disconnecting
    BY <1>2, <2>1 DEF Request
  <2>2. CASE DropConfig
    <3>1. wpc = "discConfig" /\ UNCHANGED <<rd, routes>> /\ cur \in ClientId
      BY <2>2 DEF DropConfig, IInv, WorkerOK, Handling
    <3>2. f[1] = req /\ addr[f[1]] = cur /\ Gone(f[1]) /\ routes[cur] = NoFrame
      BY <1>2, <3>1, RequestRead DEF HandlersOK, Handling, Request
    <3>3. configs'[cur] = NoConn
      BY <2>2, <3>1 DEF DropConfig, IInv, TypeOK
    <3>4. addr'[f[1]] = cur /\ Gone(f[1])'
      BY <1>2, <3>2, AnswersKept
    <3> QED
      BY <3>1, <3>2, <3>3, <3>4
  <2>3. CASE ~Worker
    BY <1>2, <2>1, <2>3, OthersStep DEF Disconnecting
  <2> QED
    BY <1>2, <2>1, <2>2, <2>3 DEF Disconnecting, Worker, WorkerCheck, Snapshot, Visit, Touch,
       GetConfig, UpdateRoutes, Reply, Remove, DisconnectClient, DropRoutes
<1>3. CASE f \in Answered /\ Cleared(f)
  <2> DEFINE id == addr[f[1]]
  <2>1. /\ f[1] \in Conn /\ id \in ClientId /\ addr'[f[1]] = id /\ KindOf(f) = "disconnect"
        /\ Gone(f[1])'
    <3>1. f[1] \in Conn /\ Inserted(f[1]) /\ addr'[f[1]] = id /\ KindOf(f) = "disconnect"
      BY <1>3, AnswersKept
    <3>2. id \in ClientId
      BY <3>1, InsertedStep DEF IInv, AddressesOK
    <3> QED
      BY <1>3, <3>1, <3>2, AnswersKept
  <2>2. wpc \in Answering /\ cur = id => Before(f, Request) /\ f[1] < req
    BY <1>3, <2>1 DEF RequestNew
  <2>3. routes'[id] \in {routes[id], NoFrame}
          \/ (wpc \in Answering /\ cur = id /\ routes'[id] = Request)
    BY <2>1, Untouched DEF Next, Worker, WorkerCheck, Snapshot, Visit, Touch, GetConfig,
       UpdateRoutes, Reply, Remove, DisconnectClient, DropRoutes, DropConfig, Installed,
       WithoutRoutes, Answering, Request, IInv, TypeOK
  <2>4. configs'[id] \in {configs[id], NoConn}
          \/ (wpc \in Answering /\ cur = id /\ configs'[id] = req)
    BY <2>1, Untouched DEF Next, Worker, WorkerCheck, Snapshot, Visit, Touch, GetConfig,
       UpdateRoutes, Reply, Remove, DisconnectClient, DropRoutes, DropConfig,
       Answering, IInv, TypeOK
  <2> QED
    BY <1>3, <2>1, <2>2, <2>3, <2>4
<1> QED
  BY <1>1, <1>2, <1>3, AnswersKept DEF DisconnectsOK

\* AnsweredOf picks from the answers by kind.
LEMMA AnsweredOfKind == \A k : AnsweredOf(k) = {f \in Answered : KindOf(f) = k}
BY DEF AnsweredOf, Answered

LEMMA AckedStep == ASSUME IInv, AInv, [Next]_vars PROVE AckedRoutesInstalled'
<1> USE DEF AInv
<1> DEFINE Superseded(f) == \E g \in Answered : /\ KindOf(g) = "disconnect"
                                                /\ addr[g[1]] = addr[f[1]] /\ Before(f, g)
<1> DEFINE Held(f) == routes[addr[f[1]]] = f \/ Before(f, routes[addr[f[1]]])
<1>0. \A f \in Answered : KindOf(f) = "routes" => Held(f) \/ Superseded(f)
  BY AnsweredOfKind DEF AckedRoutesInstalled
<1> SUFFICES ASSUME NEW f \in Answered', KindOf(f)' = "routes"
             PROVE  Held(f)' \/ Superseded(f)'
  <2>1. AnsweredOf("routes")' = {f \in Answered' : KindOf(f)' = "routes"}
    BY DEF AnsweredOf, Answered
  <2>2. AnsweredOf("disconnect")' = {f \in Answered' : KindOf(f)' = "disconnect"}
    BY DEF AnsweredOf, Answered
  <2> QED
    BY <2>1, <2>2 DEF AckedRoutesInstalled
<1>1. CASE f \notin Answered
  <2>1. Reply /\ f = Request /\ wpc \in Handling /\ wpc = "reply"
    BY <1>1, AnsweredStep DEF Reply, Handling
  <2>2. /\ f \in Conn \X Nat /\ f[1] = req /\ f[2] \in 1 .. rd[f[1]] /\ addr[req] = cur
        /\ routes' = routes /\ addr' = addr
    BY <2>1, RequestRead DEF Reply, Request
  <2>3. routes[cur] = f
    BY <2>1, <2>2, KindStep DEF HandlersOK
  <2> QED
    BY <2>2, <2>3
<1>2. CASE f \in Answered /\ Superseded(f)
  <2>1. PICK g \in Answered : /\ KindOf(g) = "disconnect"
                              /\ addr[g[1]] = addr[f[1]] /\ Before(f, g)
    BY <1>2
  <2>2. g \in Answered' /\ KindOf(g)' = "disconnect" /\ addr'[g[1]] = addr'[f[1]]
    BY <1>2, <2>1, AnswersKept, AnsweredStep
  <2> QED
    BY <2>1, <2>2
<1>3. CASE f \in Answered /\ Held(f)
  <2> DEFINE id == addr[f[1]]
  <2>1. /\ f[1] \in Conn /\ id \in ClientId /\ addr'[f[1]] = id /\ KindOf(f) = "routes"
    <3>1. f[1] \in Conn /\ Inserted(f[1]) /\ addr'[f[1]] = id /\ KindOf(f) = "routes"
      BY <1>3, AnswersKept
    <3>2. id \in ClientId
      BY <3>1, InsertedStep DEF IInv, AddressesOK
    <3> QED
      BY <3>1, <3>2
  <2>2. CASE routes'[id] = routes[id]
    BY <1>3, <2>1, <2>2
  <2>3. CASE UpdateRoutes /\ cur = id
    <3>1. routes'[id] = Request
      BY <2>1, <2>3 DEF UpdateRoutes, Installed, Request, IInv, TypeOK
    <3>2. Before(f, Request)
      BY <1>3, <2>3 DEF RequestNew, Answering, UpdateRoutes
    <3> QED
      BY <2>1, <3>1, <3>2
  <2>4. CASE DropRoutes /\ cur = id
    <3>1. wpc = "discRoutes" /\ out' = out
      BY <2>4 DEF DropRoutes
    <3>2. /\ KindOf(Request) = "disconnect" /\ Request \in Answered
          /\ f = Request \/ Before(f, Request)
      BY <1>3, <2>4, <3>1 DEF HandlersOK, Disconnecting
    <3>3. PICK g \in Answered : g = Request
      BY <3>2
    <3>4. g[1] = req /\ addr[g[1]] = id /\ Before(f, g)
      BY <2>1, <2>4, <3>1, <3>2, <3>3, RequestRead DEF Handling, Request
    <3>5. g \in Answered' /\ KindOf(g)' = "disconnect" /\ addr'[g[1]] = id
      BY <3>1, <3>2, <3>3, <3>4, AnswersKept, AnsweredStep
    <3> QED
      BY <2>1, <3>4, <3>5
  <2>5. routes'[id] = routes[id] \/ ((UpdateRoutes \/ DropRoutes) /\ cur = id)
    BY <2>1, Untouched DEF Next, Worker, WorkerCheck, Snapshot, Visit, Touch, GetConfig,
       UpdateRoutes, Reply, Remove, DisconnectClient, DropRoutes, DropConfig, Installed,
       WithoutRoutes, IInv, TypeOK
  <2> QED
    BY <2>2, <2>3, <2>4, <2>5
<1> QED
  BY <1>0, <1>1, <1>2, <1>3, AnswersKept

\* An answer goes to the latest connection of its address, and after all that the
\* address was sent before.
LEMMA OrderStep == ASSUME IInv, AInv, [Next]_vars PROVE RepliesInOrder'
<1> USE DEF AInv
<1> SUFFICES ASSUME NEW c \in Conn, NEW d \in Conn,
                    NEW i \in DOMAIN out'[c], NEW j \in DOMAIN out'[d],
                    addr'[c] = addr'[d], c < d \/ (c = d /\ i < j)
             PROVE  Before(out'[c][i], out'[d][j])
  BY DEF RepliesInOrder, Before
<1>1. ASSUME i \in DOMAIN out[c], j \in DOMAIN out[d], addr[c] = addr[d]
      PROVE  Before(out[c][i], out[d][j])
  BY <1>1 DEF RepliesInOrder
<1>2. out \in [Conn -> Seq(Conn \X Nat)]
  BY DEF IInv, TypeOK
<1>3. CASE out' = out
  <2>1. out[c] # <<>> /\ out[d] # <<>>
    BY <1>2, <1>3
  <2>2. addr[c] = addr[d]
    BY <2>1, InsertedStep DEF AnswersRead
  <2> QED
    BY <1>1, <1>3, <2>2
<1>4. CASE out' # out
  <2>1. /\ Reply /\ clients[cur] \in Conn /\ wpc = "reply" /\ addr' = addr
        /\ out' = [out EXCEPT ![clients[cur]] = Append(@, Request)]
    BY <1>4, AnsweredStep DEF Reply
  <2>2. PICK e \in Conn : e = clients[cur]
    BY <2>1
  <2>3. cur \in ClientId /\ addr[e] = cur /\ Request \in Conn \X Nat
    BY <2>1, <2>2, RequestRead DEF IInv, WorkerOK, MapOK, Handling, Conn, NoConn
  <2>4. out'[e] = Append(out[e], Request) /\ \A b \in Conn : b # e => out'[b] = out[b]
    BY <1>2, <2>1, <2>2
  <2>5. ASSUME NEW b \in Conn, NEW n \in DOMAIN out'[b]
        PROVE  \/ n \in DOMAIN out[b] /\ out'[b][n] = out[b][n]
               \/ b = e /\ n = Len(out[e]) + 1 /\ out'[b][n] = Request
    <3>1. out[e] \in Seq(Conn \X Nat)
      BY <1>2
    <3>2. CASE b = e
      <4>1. PICK x \in Conn \X Nat : x = Request
        BY <2>3
      <4>2. out'[b] = Append(out[e], x) /\ n \in DOMAIN Append(out[e], x)
        BY <2>4, <2>5, <3>2, <4>1
      <4>3. \/ n \in DOMAIN out[e] /\ Append(out[e], x)[n] = out[e][n]
            \/ n = Len(out[e]) + 1 /\ Append(out[e], x)[n] = x
        BY <3>1, <4>2, AppendKeeps
      <4> QED
        BY <3>2, <4>1, <4>2, <4>3
    <3>3. CASE b # e
      BY <2>4, <2>5, <3>3
    <3> QED
      BY <3>2, <3>3
  <2>6. CASE i \in DOMAIN out[c] /\ out'[c][i] = out[c][i]
             /\ j \in DOMAIN out[d] /\ out'[d][j] = out[d][j]
    BY <1>1, <2>1, <2>6
  <2>7. CASE i \in DOMAIN out[c] /\ out'[c][i] = out[c][i] /\ d = e /\ out'[d][j] = Request
    <3>1. out[c][i] \in Answered /\ addr[c] = cur
      BY <2>1, <2>3, <2>7, AnsweredMember
    <3>2. addr[out[c][i][1]] = cur
      BY <2>7, <3>1 DEF IInv, NoReplyAstray
    <3> QED
      BY <2>1, <2>7, <3>1, <3>2 DEF RequestNew, Answering
  <2>8. CASE c = e /\ i = Len(out[e]) + 1
    <3>1. j \in DOMAIN out[d] /\ d # e
      <4>1. CASE d = e
        <5>1. out[e] \in Seq(Conn \X Nat) /\ i < j
          BY <1>2, <2>8, <4>1 DEF Conn
        <5>2. j \in DOMAIN out[e] \/ j = Len(out[e]) + 1
          BY <2>5, <4>1
        <5>3. Len(out[e]) \in Nat /\ DOMAIN out[e] = 1 .. Len(out[e])
          BY <5>1
        <5> QED
          BY <2>8, <5>1, <5>2, <5>3
      <4>2. CASE d # e
        BY <2>4, <4>2
      <4> QED
        BY <4>1, <4>2
    <3>2. Latest(d) /\ addr[d] = cur /\ e < d
      <4>1. out[d] # <<>>
        BY <1>2, <3>1
      <4> QED
        BY <2>1, <2>3, <2>8, <3>1, <4>1 DEF AnswersRead
    <3> QED
      BY <2>2, <3>2 DEF Latest, Conn, NoConn
  <2> QED
    BY <2>5, <2>6, <2>7, <2>8
<1> QED
  BY <1>3, <1>4

-----------------------------------------------------------------------------
\* AInv is an invariant, on the ground of IInv.
THEOREM AInvariance == Spec => []AInv
<1>1. IInv /\ AInv /\ [Next]_vars => AInv'
  <2> SUFFICES ASSUME IInv, AInv, [Next]_vars PROVE AInv'
    OBVIOUS
  <2>1. AnswersRead' /\ RequestNew' /\ HandlersOK' /\ RemoveOK'
    BY AnswersReadStep, RequestNewStep, HandlersStep, RemoveStep
  <2>2. DisconnectsOK' /\ RepliesInOrder' /\ AckedRoutesInstalled'
    BY DisconnectsStep, OrderStep, AckedStep
  <2> QED
    BY <2>1, <2>2 DEF AInv
<1> QED
  BY Invariance, InitAInv, <1>1, PTL DEF Spec

\* What an address is sent, over all its connections, answers its frames in the order
\* in which they were sent, each at most once, although the worker answers by address
\* and the address may have reconnected in between.
THEOREM AnswersInOrder == Spec => []RepliesInOrder
BY AInvariance, PTL DEF AInv

\* A route update that was acknowledged is in force until a later one or an
\* acknowledged Disconnect of its address: update_routes installs before it answers.
THEOREM AcknowledgedRoutesHold == Spec => []AckedRoutesInstalled
BY AInvariance, PTL DEF AInv

\* Once handle_disconnect is through its three maps, none of them has anything of the
\* address from before the acknowledged Disconnect.
THEOREM DisconnectIsComplete == Spec => []DisconnectLeavesNothing
<1>1. IInv /\ AInv => DisconnectLeavesNothing
  <2> SUFFICES ASSUME IInv, AInv, wpc \in {"poll", "snapshot", "exited"},
                      NEW f \in Answered, KindOf(f) = "disconnect"
               PROVE  LET id == addr[f[1]]
                      IN /\ clients[id] # NoConn => clients[id] > f[1]
                         /\ routes[id] # NoFrame => Before(f, routes[id])
                         /\ configs[id] # NoConn => configs[id] > f[1]
    BY AnsweredOfKind DEF DisconnectLeavesNothing
  <2> QED
    BY DEF AInv, DisconnectsOK, Disconnecting, Gone
<1> QED
  BY Invariance, AInvariance, <1>1, PTL

\* No client leaves the map but for a cause: it was listed as stale and not refreshed, the
\* worker has its fatal frame or its Disconnect in hand, or it came to its address while
\* what was there before was being removed.
THEOREM RemovalsHaveCause == Spec => RemovedForCause
<1> DEFINE Cause(id, c) == \/ c \in listed /\ c \in stale
                           \/ EndsItself(c)
                           \/ ListedBefore(c) \/ DiscardedBefore(c)
<1> DEFINE A == \A id \in ClientId :
                  clients[id] # NoConn /\ clients'[id] = NoConn => Cause(id, clients[id])
<1>1. IInv /\ AInv /\ [Next]_vars => A
  <2> SUFFICES ASSUME IInv, AInv, [Next]_vars, NEW id \in ClientId, NEW c, c = clients[id],
                      c # NoConn, clients'[id] = NoConn
               PROVE  Cause(id, c)
    OBVIOUS
  <2>1. c \in Conn /\ Inserted(c) /\ addr[c] = id
    BY DEF IInv, MapOK, TypeOK
  <2>2. CASE Evict(id)
    <3>1. (c \in listed /\ c \in stale) \/ \E d \in listed : addr[d] = id /\ d < c
      BY <2>2 DEF Evict, IInv, EvictsOnlyUnrefreshed
    <3>2. id \in todo
      BY <2>2 DEF Evict
    <3> QED
      BY <2>1, <3>1, <3>2 DEF ListedBefore
  <2>3. CASE Remove /\ cur = id
    <3>1. wpc = "remove" /\ req \in Conn \cup {NoConn}
      BY <2>3 DEF Remove, IInv, TypeOK
    <3>2. CASE req = NoConn
      BY <2>1, <2>3, <3>1, <3>2 DEF DiscardedBefore
    <3>3. CASE req # NoConn
      <4>1. /\ req \in Conn /\ addr[req] = id /\ Latest(req)
            /\ Gone(req) \/ (rd[req] > 0 /\ frames[req][rd[req]] \in Fatal)
        BY <2>3, <3>1, <3>3 DEF AInv, RemoveOK
      <4>2. req < c \/ (req = c /\ rd[c] > 0 /\ frames[c][rd[c]] \in Fatal)
        BY <2>1, <4>1 DEF Latest, Gone, Conn
      <4> QED
        BY <2>1, <2>3, <3>1, <4>2 DEF DiscardedBefore, EndsItself
    <3> QED
      BY <3>2, <3>3
  <2>4. CASE DisconnectClient /\ cur = id
    <3>1. wpc = "discRemove"
      BY <2>4 DEF DisconnectClient
    <3>2. /\ req \in Conn /\ addr[req] = id /\ rd[req] > 0 /\ req <= c
          /\ frames[req][rd[req]] = "disconnect"
      BY <2>4, <3>1 DEF AInv, HandlersOK, Disconnecting, KindOf, Request, IInv, WorkerOK,
         Handling, Inserted
    <3>3. req < c \/ req = c
      BY <2>1, <3>2 DEF Conn
    <3> QED
      BY <2>1, <2>4, <3>1, <3>2, <3>3 DEF DiscardedBefore, EndsItself
  <2>5. Evict(id) \/ ((Remove \/ DisconnectClient) /\ cur = id)
    <3>1. ~Insert
      BY <2>1 DEF Insert, IInv, TypeOK, MapOK, Conn, NoConn
    <3>2. ASSUME NEW d \in ClientId, Evict(d) PROVE Evict(id)
      BY <2>1, <3>2 DEF Evict, IInv, TypeOK
    <3>3. Remove \/ DisconnectClient => cur = id
      BY <2>1 DEF Remove, DisconnectClient, IInv, TypeOK
    <3>4. CASE ~((\E d \in ClientId : Evict(d)) \/ Remove \/ DisconnectClient)
      <4>1. UNCHANGED clients
        BY <3>1, <3>4, Untouched DEF Next, Listener, ListenerCheck, Accept, Monitor,
           MonitorCheck, ListStale, EndCheck, Worker, WorkerCheck, Snapshot, Visit, Touch,
           GetConfig, UpdateRoutes, Reply, DropRoutes, DropConfig
      <4> QED
        BY <4>1
    <3> QED
      BY <3>2, <3>3, <3>4
  <2> QED
    BY <2>2, <2>3, <2>4, <2>5
<1>2. IInv /\ AInv /\ [Next]_vars => [A]_vars
  BY <1>1
<1> QED
  BY Invariance, AInvariance, <1>2, PTL DEF Spec, RemovedForCause
=============================================================================
