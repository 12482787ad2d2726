----------------------- MODULE ConnectionManagerProofs -----------------------
(***************************************************************************)
(* Theorems about ConnectionManager, for every set of addresses and every  *)
(* bound: the state stays within its types, a client is removed for a      *)
(* cause, and clients are served as ClientService says.                    *)
(***************************************************************************)
EXTENDS ConnectionManager, TLAPS

\* Peers are known from their first connection on; frames are read after they arrive.
NetOK ==
  /\ \A c \in Conn : c <= nconn => addr[c] \in ClientId
  /\ \A c \in Conn : rd[c] <= Len(frames[c])

\* The map has the latest connection from an address, or none.
MapOK ==
  \A id \in ClientId : clients[id] # NoConn =>
    /\ clients[id] <= nconn /\ addr[clients[id]] = id
    /\ \A d \in 1 .. nconn : addr[d] = id => d <= clients[id]

\* There are statistics only of addresses from which a frame was read.
StatisticsOK ==
  /\ \A id \in entries : \E d \in 1 .. nconn : addr[d] = id /\ rd[d] > 0
  /\ ~scanning => todo = {}

\* The loop has read a frame from connection c of address id.
Handling(id, c) == id \in ClientId /\ c \in 1 .. nconn /\ addr[c] = id /\ rd[c] > 0

\* Connection c is no longer the one that its address names.
Passed(id, c) == clients[id] = NoConn \/ c < clients[id]

\* The loop removes a client whose frame demands it, and whoever has the address of one
\* that was not there.
Removing ==
  IF req = NoConn
  THEN cur \in ClientId /\ \E d \in 1 .. nconn : addr[d] = cur /\ Passed(cur, d)
  ELSE /\ Handling(cur, req)
       /\ frames[req][rd[req]] \in Fatal \cup {"disconnect"} \/ Passed(cur, req)

LoopOK ==
  /\ \A id \in batch : \E d \in 1 .. nconn : addr[d] = id
  /\ lpc = "poll" => cur = NoClient /\ req = NoConn
  /\ lpc \in {"stats", "touch", "reply", "restats"} => Handling(cur, req)
  /\ lpc = "stats" => frames[req][rd[req]] \in FrameKind \ {"oversize", "garbage", "partial"}
  /\ lpc = "reply" => frames[req][rd[req]] \in {"data", "control", "disconnect"}
  /\ lpc \in {"dropEntry", "dropClient"} => Removing

DropOK == dpc = "client" => dcur \in ClientId

MInv == TypeOK /\ NetOK /\ MapOK /\ StatisticsOK /\ LoopOK /\ DropOK

USE DEF netVars, scanVars, loopVars, dropVars

-----------------------------------------------------------------------------
\* Connections are numbered from 1; 0 is none.
LEMMA Numbers ==
  ASSUME TypeOK
  PROVE  /\ MaxConn \in Nat /\ nconn \in Nat /\ nconn <= MaxConn
         /\ NoConn \notin Conn /\ NoClient \notin ClientId
         /\ \A c : c \in Conn <=> c \in Nat /\ 0 < c /\ c <= MaxConn
         /\ \A c : c \in 1 .. nconn <=> c \in Conn /\ c <= nconn
BY ManagerAssumption DEF TypeOK, Conn, NoConn

\* Frames at the end of what has arrived.
LEMMA Arrived ==
  ASSUME NEW s \in Seq(FrameKind), NEW k \in FrameKind
  PROVE  /\ Append(s, k) \in Seq(FrameKind) /\ Len(s) \in Nat /\ Len(Append(s, k)) = Len(s) + 1
         /\ \A i \in 1 .. Len(s) : Append(s, k)[i] = s[i] /\ s[i] \in FrameKind
OBVIOUS

LEMMA InitMInv == Init => MInv
<1> SUFFICES ASSUME Init PROVE MInv
  OBVIOUS
<1>1. TypeOK
  <2>1. <<>> \in Seq(FrameKind) /\ <<>> \in Seq(Conn \X Nat) /\ 0 \in Nat
    OBVIOUS
  <2>2. frames \in [Conn -> Seq(FrameKind)] /\ out \in [Conn -> Seq(Conn \X Nat)]
    BY <2>1 DEF Init
  <2>3. 0 \in 0 .. MaxConn /\ 0 \in 0 .. Clones
    BY ManagerAssumption
  <2> QED
    BY <2>1, <2>2, <2>3 DEF Init, TypeOK
<1>2. NetOK /\ MapOK /\ StatisticsOK /\ LoopOK /\ DropOK
  <2>1. nconn = 0 /\ \A c \in Conn : ~(c <= nconn) /\ rd[c] <= Len(frames[c])
    BY DEF Init, Conn
  <2> QED
    BY <2>1 DEF Init, NetOK, MapOK, StatisticsOK, LoopOK, DropOK
<1> QED
  BY <1>1, <1>2 DEF MInv

-----------------------------------------------------------------------------
(***************************************************************************)
(* Types.                                                                  *)
(***************************************************************************)
LEMMA EnvironmentTypes == ASSUME MInv, Environment PROVE TypeOK'
<1>0. TypeOK
  BY DEF MInv
<1>1. ASSUME NEW id \in ClientId, Arrive(id) PROVE TypeOK'
  BY SMTT(30), <1>0, <1>1, Numbers DEF TypeOK, Arrive, Conn
<1>2. ASSUME NEW id \in ClientId, Elapse(id) PROVE TypeOK'
  BY <1>0, <1>2 DEF TypeOK, Elapse
<1>3. ASSUME NEW c \in Conn, Close(c) PROVE TypeOK'
  BY <1>0, <1>3 DEF TypeOK, Close
<1>4. ASSUME NEW c \in Conn, NEW k \in Traffic, Send(c, k) PROVE TypeOK'
  <2>1. k \in FrameKind
    BY ManagerAssumption
  <2>2. frames' \in [Conn -> Seq(FrameKind)]
    BY <1>0, <1>4, <2>1, Arrived DEF TypeOK, Send
  <2> QED
    BY <1>0, <1>4, <2>2 DEF TypeOK, Send
<1> QED
  BY <1>1, <1>2, <1>3, <1>4 DEF Environment

LEMMA CleanupTypes == ASSUME MInv, Cleanup PROVE TypeOK'
<1>0. TypeOK
  BY DEF MInv
<1>1. CASE BeginScan
  BY <1>0, <1>1 DEF TypeOK, BeginScan
<1>2. CASE EndScan
  BY <1>0, <1>2 DEF TypeOK, EndScan
<1>3. ASSUME NEW id \in ClientId, Scan(id) PROVE TypeOK'
  <2>1. clients' \in [ClientId -> Conn \cup {NoConn}]
    BY <1>0, <1>3 DEF TypeOK, Scan, Evicted, WithoutClient
  <2>2. stale' \subseteq entries' /\ entries' \subseteq ClientId /\ todo' \subseteq entries'
    BY <1>0, <1>3 DEF TypeOK, Scan
  <2> QED
    BY <1>0, <1>3, <2>1, <2>2 DEF TypeOK, Scan
<1> QED
  BY <1>1, <1>2, <1>3 DEF Cleanup

LEMMA LoopTypes == ASSUME MInv, Loop PROVE TypeOK'
<1>0. TypeOK
  BY DEF MInv
<1>1. CASE Snapshot
  BY <1>0, <1>1 DEF TypeOK, Snapshot, ClientIds
<1>2. ASSUME NEW id \in ClientId, Visit(id) PROVE TypeOK'
  <2>1. clients[id] # NoConn => clients[id] \in Conn
    BY <1>0 DEF TypeOK
  <2>2. rd' \in [Conn -> Nat]
    BY <1>0, <1>2, <2>1 DEF TypeOK, Visit
  <2>3. /\ lpc' \in {"poll", "stats", "dropEntry"} /\ batch' \subseteq ClientId
        /\ cur' \in ClientId \cup {NoClient} /\ req' \in Conn \cup {NoConn}
    BY <1>0, <1>2, <2>1 DEF TypeOK, Visit, Handled, IoError
  <2> QED
    BY <1>0, <1>2, <2>2, <2>3 DEF TypeOK, Visit
<1>3. CASE CountReceived
  <2>1. cur \in ClientId /\ Dispatch(frames[req][rd[req]]) \in {"reply", "touch", "dropEntry"}
    BY <1>3 DEF MInv, CountReceived, LoopOK, Handling, Dispatch, FrameKind
  <2>2. todo = {}
    BY <1>3 DEF MInv, CountReceived, UpdateStats, StatisticsOK
  <2> QED
    BY <1>0, <1>3, <2>1, <2>2 DEF TypeOK, CountReceived, UpdateStats
<1>4. CASE Touch
  BY <1>0, <1>4 DEF TypeOK, Touch, Handled
<1>5. CASE Reply
  <2>1. cur \in ClientId /\ req \in Conn /\ rd[req] \in Nat
    BY <1>0, <1>5, Numbers DEF MInv, Reply, LoopOK, Handling, TypeOK
  <2>2. out' \in [Conn -> Seq(Conn \X Nat)]
    <3>1. CASE out' = out
      BY <1>0, <3>1 DEF TypeOK
    <3>2. CASE clients[cur] # NoConn /\ out' = Delivered(clients[cur], <<req, rd[req]>>)
      BY <1>0, <2>1, <3>2 DEF TypeOK, Delivered
    <3> QED
      BY <1>5, <3>1, <3>2 DEF Reply
  <2>3. /\ lpc' \in {"restats", "poll", "dropEntry"}
        /\ cur' \in {cur, NoClient} /\ req' \in {req, NoConn}
    BY <1>5 DEF MInv, Reply, Remove, IoError, Handled, LoopOK
  <2> QED
    BY <1>0, <1>5, <2>2, <2>3 DEF TypeOK, Reply
<1>6. CASE CountSent
  <2>1. cur \in ClientId /\ todo = {}
    BY <1>6 DEF MInv, CountSent, LoopOK, Handling, UpdateStats, StatisticsOK
  <2> QED
    BY <1>0, <1>6, <2>1 DEF TypeOK, CountSent, UpdateStats, Handled
<1>7. CASE DropEntry
  <2>1. todo = {}
    BY <1>7 DEF MInv, DropEntry, StatisticsOK
  <2> QED
    BY <1>0, <1>7, <2>1 DEF TypeOK, DropEntry
<1>8. CASE DropClient
  BY <1>0, <1>8 DEF TypeOK, DropClient, WithoutClient, Handled
<1> QED
  BY <1>1, <1>2, <1>3, <1>4, <1>5, <1>6, <1>7, <1>8 DEF Loop

LEMMA DropTypes == ASSUME MInv, BeginDrop \/ Dropping PROVE TypeOK'
<1>0. TypeOK
  BY DEF MInv
<1>1. CASE BeginDrop
  BY <1>0, <1>1, ManagerAssumption DEF TypeOK, BeginDrop, ClientIds
<1>2. ASSUME NEW id \in ClientId, DropTheEntry(id) PROVE TypeOK'
  <2>1. todo = {}
    BY <1>2 DEF MInv, DropTheEntry, StatisticsOK
  <2> QED
    BY <1>0, <1>2, <2>1 DEF TypeOK, DropTheEntry
<1>3. CASE DropTheClient
  BY <1>0, <1>3 DEF TypeOK, DropTheClient, WithoutClient
<1>4. CASE EndDrop
  BY <1>0, <1>4 DEF TypeOK, EndDrop
<1> QED
  BY <1>1, <1>2, <1>3, <1>4 DEF Dropping

LEMMA TypesStep == ASSUME MInv, [Next]_vars PROVE TypeOK'
<1>1. CASE UNCHANGED vars
  BY <1>1 DEF vars, MInv, TypeOK
<1> QED
  BY <1>1, EnvironmentTypes, CleanupTypes, LoopTypes, DropTypes DEF Next

-----------------------------------------------------------------------------
(***************************************************************************)
(* What lasts, and what a step can change.                                 *)
(***************************************************************************)

\* Addresses are given once, and reading goes forward; what was read stays.
LEMMA Lasting ==
  ASSUME MInv, [Next]_vars, NEW d \in 1 .. nconn
  PROVE  /\ d \in 1 .. nconn' /\ addr'[d] = addr[d]
         /\ rd[d] > 0 => rd'[d] > 0
         /\ rd'[d] = rd[d] /\ rd[d] > 0 => frames'[d][rd[d]] = frames[d][rd[d]]
<1>0. TypeOK /\ d \in Conn /\ d <= nconn /\ nconn \in Nat /\ d \in Nat /\ rd[d] \in Nat
  BY Numbers DEF MInv, TypeOK
<1>1. d # nconn + 1
  BY <1>0
<1>2. nconn' \in {nconn, nconn + 1} /\ addr'[d] = addr[d]
  BY <1>0, <1>1 DEF TypeOK, Next, Environment, Arrive, Elapse, Send, Close, Cleanup, BeginScan,
     EndScan, Scan, Loop, Snapshot, CountReceived, Touch, Reply, CountSent, DropEntry, DropClient,
     Visit, BeginDrop, Dropping, DropTheEntry, DropTheClient, EndDrop, vars
<1>3. rd'[d] \in {rd[d], rd[d] + 1}
  BY <1>0 DEF TypeOK, Next, Environment, Arrive, Elapse, Send, Close, Cleanup, BeginScan,
     EndScan, Scan, Loop, Snapshot, CountReceived, Touch, Reply, CountSent, DropEntry, DropClient,
     Visit, BeginDrop, Dropping, DropTheEntry, DropTheClient, EndDrop, vars
<1>4. frames'[d] = frames[d] \/ \E k \in FrameKind : frames'[d] = Append(frames[d], k)
  <2>1. CASE Environment
    <3>1. ASSUME NEW c \in Conn, NEW k \in Traffic, Send(c, k)
          PROVE  frames'[d] = frames[d] \/ \E x \in FrameKind : frames'[d] = Append(frames[d], x)
      BY <1>0, <3>1, ManagerAssumption DEF Send, TypeOK
    <3> QED
      BY <2>1, <3>1 DEF Environment, Arrive, Elapse, Close
  <2>2. CASE ~Environment
    BY <2>2 DEF Next, Cleanup, BeginScan, EndScan, Scan, Loop, Snapshot, CountReceived, Touch,
       Reply, CountSent, DropEntry, DropClient, Visit, BeginDrop, Dropping, DropTheEntry,
       DropTheClient, EndDrop, vars
  <2> QED
    BY <2>1, <2>2
<1>5. rd[d] > 0 => frames'[d][rd[d]] = frames[d][rd[d]]
  <2>1. frames[d] \in Seq(FrameKind) /\ rd[d] <= Len(frames[d])
    BY <1>0 DEF MInv, NetOK, TypeOK
  <2>2. ASSUME rd[d] > 0 PROVE rd[d] \in 1 .. Len(frames[d])
    BY <1>0, <2>1, <2>2
  <2> QED
    BY <1>4, <2>1, <2>2, Arrived
<1> QED
  BY <1>0, <1>2, <1>3, <1>5

\* Only the loop changes its own variables and reads.
LEMMA LoopApart ==
  ASSUME [Next]_vars, ~Loop
  PROVE  UNCHANGED <<lpc, batch, cur, req, rd, out>>
BY DEF Next, Environment, Arrive, Elapse, Send, Close, Cleanup, BeginScan, EndScan, Scan,
   BeginDrop, Dropping, DropTheEntry, DropTheClient, EndDrop, vars

\* Only the accept loop inserts clients, the latest there are.
LEMMA MapStep ==
  ASSUME TypeOK, [Next]_vars
  PROVE  \/ \E id \in ClientId : Arrive(id)
         \/ /\ nconn' = nconn /\ addr' = addr
            /\ \/ clients' = clients
               \/ \E id \in ClientId : Scan(id) /\ Expired(id) /\ clients' = WithoutClient(id)
               \/ DropClient \/ DropTheClient
BY DEF Next, Environment, Arrive, Elapse, Send, Close, Cleanup, BeginScan, EndScan, Scan, Evicted,
   Loop, Snapshot, CountReceived, Touch, Reply, CountSent, DropEntry, Visit, DropClient,
   BeginDrop, Dropping, DropTheEntry, EndDrop, DropTheClient, vars

\* A client is removed by address.
LEMMA Removal ==
  ASSUME MInv, [Next]_vars, NEW id \in ClientId, ~\E a \in ClientId : Arrive(a)
  PROVE  clients'[id] \in {clients[id], NoConn}
BY MapStep DEF MInv, TypeOK, DropClient, DropTheClient, WithoutClient

\* A connection that its address no longer names never gets it back.
LEMMA PassedOn ==
  ASSUME MInv, [Next]_vars, NEW id \in ClientId, NEW d \in 1 .. nconn, Passed(id, d)
  PROVE  Passed(id, d)'
<1>0. TypeOK /\ d <= nconn /\ nconn \in Nat /\ d \in Nat
  BY Numbers DEF MInv
<1>1. ASSUME NEW a \in ClientId, Arrive(a) PROVE Passed(id, d)'
  <2>1. d < nconn + 1
    BY <1>0
  <2> QED
    BY <1>0, <1>1, <2>1 DEF Arrive, Passed, TypeOK
<1>2. CASE ~\E a \in ClientId : Arrive(a)
  BY <1>2, Removal DEF Passed
<1> QED
  BY <1>1, <1>2

-----------------------------------------------------------------------------
(***************************************************************************)
(* The invariant.                                                          *)
(***************************************************************************)
LEMMA NetStep == ASSUME MInv, [Next]_vars PROVE NetOK'
<1>0. TypeOK /\ NetOK
  BY DEF MInv
<1>1. ASSUME NEW id \in ClientId, Arrive(id) PROVE NetOK'
  <2>1. \A c \in Conn : c <= nconn' => c <= nconn \/ c = nconn + 1
    BY <1>0, <1>1, Numbers DEF Arrive
  <2>2. nconn + 1 \in Conn
    BY <1>0, <1>1, Numbers DEF Arrive
  <2> QED
    BY <1>0, <1>1, <2>1, <2>2 DEF Arrive, NetOK, TypeOK
<1>2. ASSUME NEW c \in Conn, NEW k \in Traffic, Send(c, k) PROVE NetOK'
  <2>1. k \in FrameKind /\ frames[c] \in Seq(FrameKind) /\ rd[c] \in Nat
    BY <1>0, ManagerAssumption DEF TypeOK
  <2>2. rd[c] <= Len(Append(frames[c], k))
    BY <1>0, <2>1, Arrived DEF NetOK
  <2> QED
    BY <1>0, <1>2, <2>2 DEF Send, NetOK, TypeOK
<1>3. ASSUME NEW id \in ClientId, Visit(id) PROVE NetOK'
  <2>1. CASE rd' = rd
    BY <1>0, <1>3, <2>1 DEF Visit, NetOK
  <2>2. CASE rd' # rd
    <3>1. PICK c \in Conn : rd[c] < Len(frames[c]) /\ rd' = [rd EXCEPT ![c] = @ + 1]
      BY <1>0, <1>3, <2>2 DEF Visit, TypeOK
    <3>2. rd[c] \in Nat /\ Len(frames[c]) \in Nat
      BY <1>0, Arrived DEF TypeOK
    <3>3. rd[c] + 1 <= Len(frames[c])
      BY <3>1, <3>2
    <3> QED
      BY <1>0, <1>3, <3>1, <3>3 DEF Visit, NetOK, TypeOK
  <2> QED
    BY <2>1, <2>2
<1>4. CASE UNCHANGED <<nconn, addr, frames, rd>>
  BY <1>0, <1>4 DEF NetOK
<1> QED
  BY <1>1, <1>2, <1>3, <1>4 DEF Next, Environment, Elapse, Close, Cleanup, BeginScan, EndScan,
     Scan, Loop, Snapshot, CountReceived, Touch, Reply, CountSent, DropEntry, DropClient,
     BeginDrop, Dropping, DropTheEntry, DropTheClient, EndDrop, vars

LEMMA MapsStep == ASSUME MInv, [Next]_vars PROVE MapOK'
<1>0. TypeOK /\ MapOK
  BY DEF MInv
<1>1. ASSUME NEW a \in ClientId, Arrive(a) PROVE MapOK'
  <2>1. /\ nconn' = nconn + 1 /\ nconn \in Nat /\ nconn + 1 \in Conn
        /\ addr' = [addr EXCEPT ![nconn + 1] = a]
        /\ clients' = [clients EXCEPT ![a] = nconn + 1]
    BY <1>0, <1>1, Numbers DEF Arrive
  <2>2. SUFFICES ASSUME NEW id \in ClientId, clients'[id] # NoConn
                 PROVE  /\ clients'[id] <= nconn' /\ addr'[clients'[id]] = id
                        /\ \A d \in 1 .. nconn' : addr'[d] = id => d <= clients'[id]
    BY DEF MapOK
  <2>3. CASE id = a
    <3>1. clients'[id] = nconn + 1 /\ addr'[nconn + 1] = a
      BY <1>0, <2>1, <2>3 DEF TypeOK
    <3> QED
      BY <2>1, <2>3, <3>1
  <2>4. CASE id # a
    <3>1. PICK c \in Conn : c = clients[id] /\ c = clients'[id]
      BY <1>0, <2>1, <2>2, <2>4 DEF TypeOK
    <3>2. c <= nconn /\ addr[c] = id /\ \A d \in 1 .. nconn : addr[d] = id => d <= c
      BY <2>2, <3>1, <1>0 DEF MapOK
    <3>3. c \in Nat /\ c # nconn + 1
      BY <1>0, <2>1, <3>2, Numbers
    <3>4. ASSUME NEW d \in 1 .. nconn', addr'[d] = id PROVE d <= c
      <4>1. d # nconn + 1
        BY <1>0, <2>1, <2>4, <3>4 DEF TypeOK
      <4>2. d \in 1 .. nconn
        BY <2>1, <4>1
      <4>3. addr'[d] = addr[d]
        BY <1>0, <2>1, <4>1, <4>2, Numbers DEF TypeOK
      <4> QED
        BY <3>2, <3>4, <4>2, <4>3
    <3> QED
      BY <1>0, <2>1, <3>1, <3>2, <3>3, <3>4 DEF TypeOK
  <2> QED
    BY <2>3, <2>4
<1>2. CASE ~\E a \in ClientId : Arrive(a)
  <2>1. nconn' = nconn /\ addr' = addr
    BY <1>0, <1>2, MapStep
  <2> QED
    BY <1>0, <1>2, <2>1, Removal DEF MapOK
<1> QED
  BY <1>1, <1>2

LEMMA StatisticsStep == ASSUME MInv, [Next]_vars PROVE StatisticsOK'
<1>0. TypeOK /\ StatisticsOK /\ LoopOK
  BY DEF MInv
<1>1. ASSUME NEW id \in entries'
      PROVE  id \in entries \/ ((CountReceived \/ CountSent) /\ id = cur)
  <2>1. CASE CountReceived \/ CountSent
    BY <1>1, <2>1 DEF CountReceived, CountSent, UpdateStats
  <2>2. CASE ~(CountReceived \/ CountSent)
    <3>1. entries' \subseteq entries
      BY <2>2 DEF Next, Environment, Arrive, Elapse, Send, Close, Cleanup, BeginScan, EndScan, Scan,
         Loop, Snapshot, Touch, Reply, DropEntry, DropClient, Visit, BeginDrop, Dropping,
         DropTheEntry, DropTheClient, EndDrop, vars
    <3> QED
      BY <1>1, <3>1
  <2> QED
    BY <2>1, <2>2
<1>2. ASSUME NEW id \in entries' PROVE \E d \in 1 .. nconn : addr[d] = id /\ rd[d] > 0
  BY <1>0, <1>1 DEF StatisticsOK, LoopOK, Handling, CountReceived, CountSent
<1>3. ASSUME NEW id \in entries' PROVE \E d \in 1 .. nconn' : addr'[d] = id /\ rd'[d] > 0
  BY <1>2, Lasting
<1>4. ~scanning' => todo' = {}
  BY <1>0 DEF StatisticsOK, Next, Environment, Arrive, Elapse, Send, Close, Cleanup, BeginScan,
     EndScan, Scan, Loop, Snapshot, CountReceived, Touch, Reply, CountSent, DropEntry, DropClient,
     Visit, BeginDrop, Dropping, DropTheEntry, DropTheClient, EndDrop, vars
<1> QED
  BY <1>3, <1>4 DEF StatisticsOK

\* What the loop knows of the frame it handles stays true while others act.
LEMMA LoopKeeps == ASSUME MInv, [Next]_vars, ~Loop PROVE LoopOK'
<1>0. TypeOK /\ LoopOK
  BY DEF MInv
<1>1. UNCHANGED <<lpc, batch, cur, req, rd>>
  BY LoopApart
<1>2. \A id \in batch' : \E d \in 1 .. nconn' : addr'[d] = id
  BY <1>0, <1>1, Lasting DEF LoopOK
<1>3. ASSUME Handling(cur, req)
      PROVE  Handling(cur, req)' /\ frames'[req'][rd'[req']] = frames[req][rd[req]]
  BY <1>1, <1>3, Lasting DEF Handling
<1>4. Removing => Removing'
  <2>1. CASE req = NoConn
    <3>1. ASSUME cur \in ClientId, NEW d \in 1 .. nconn, addr[d] = cur, Passed(cur, d)
          PROVE  d \in 1 .. nconn' /\ addr'[d] = cur' /\ Passed(cur, d)'
      <4>1. d \in 1 .. nconn' /\ addr'[d] = cur'
        BY <1>1, <3>1, Lasting
      <4>2. PICK id \in ClientId : id = cur /\ id = cur'
        BY <1>1, <3>1
      <4>3. Passed(id, d)'
        BY <3>1, <4>2, PassedOn
      <4> QED
        BY <4>1, <4>2, <4>3 DEF Passed
    <3> QED
      BY <1>1, <2>1, <3>1 DEF Removing
  <2>2. CASE req # NoConn
    <3>1. SUFFICES ASSUME Handling(cur, req),
                          frames[req][rd[req]] \in Fatal \cup {"disconnect"} \/ Passed(cur, req)
                   PROVE  Removing'
      BY <2>2 DEF Removing
    <3>2. Handling(cur, req)' /\ frames'[req'][rd'[req']] = frames[req][rd[req]]
      BY <1>3, <3>1
    <3>3. PICK id \in ClientId, d \in 1 .. nconn : id = cur /\ id = cur' /\ d = req /\ d = req'
      BY <1>1, <3>1 DEF Handling
    <3>4. Passed(cur, req) => Passed(cur, req)'
      <4>1. Passed(id, d) => Passed(id, d)'
        BY PassedOn
      <4> QED
        BY <3>3, <4>1 DEF Passed
    <3> QED
      BY <1>1, <2>2, <3>1, <3>2, <3>4 DEF Removing
  <2> QED
    BY <2>1, <2>2
<1> QED
  BY <1>0, <1>1, <1>2, <1>3, <1>4 DEF LoopOK

\* Connections of registered clients are connections from their addresses.
LEMMA RegisteredKnown ==
  ASSUME MInv, NEW id \in ClientId, clients[id] # NoConn
  PROVE  clients[id] \in 1 .. nconn /\ clients[id] \in Conn /\ addr[clients[id]] = id
BY Numbers DEF MInv, TypeOK, MapOK

LEMMA VisitLoop == ASSUME MInv, NEW id \in ClientId, Visit(id) PROVE LoopOK'
<1>0. TypeOK /\ LoopOK
  BY DEF MInv
<1>1. /\ UNCHANGED <<nconn, addr, frames, clients>>
      /\ batch' = batch \ {id} /\ id \in batch
  BY DEF Visit
<1>2. \A a \in batch' : \E d \in 1 .. nconn' : addr'[d] = a
  BY <1>0, <1>1 DEF LoopOK
<1>3. CASE clients[id] = NoConn
  <2>1. lpc' = "dropEntry" /\ cur' = id /\ req' = NoConn
    BY <1>3 DEF Visit
  <2>2. Removing'
    BY <1>0, <1>1, <1>3, <2>1 DEF Removing, Passed, LoopOK
  <2> QED
    BY <1>2, <2>1, <2>2 DEF LoopOK
<1>4. CASE clients[id] # NoConn
  <2>1. PICK c \in Conn : c = clients[id] /\ c \in 1 .. nconn /\ addr[c] = id /\ c # NoConn
    BY <1>4, RegisteredKnown
  <2>2. CASE rd[c] = Len(frames[c])
    BY <1>0, <1>2, <2>1, <2>2 DEF Visit, IoError, Handled, LoopOK
  <2>3. CASE rd[c] # Len(frames[c])
    <3>1. /\ rd[c] < Len(frames[c]) /\ rd' = [rd EXCEPT ![c] = @ + 1]
          /\ \/ Handled
             \/ /\ cur' = id /\ req' = c
                /\ frames[c][rd[c] + 1] \notin {"garbage", "partial"}
                /\ lpc' = IF frames[c][rd[c] + 1] = "oversize" THEN "dropEntry" ELSE "stats"
      BY <2>1, <2>3 DEF Visit
    <3>2. frames[c] \in Seq(FrameKind) /\ rd[c] \in Nat /\ Len(frames[c]) \in Nat
      BY <1>0 DEF TypeOK
    <3>3. rd[c] + 1 \in 1 .. Len(frames[c])
      BY <3>1, <3>2
    <3>4. frames[c][rd[c] + 1] \in FrameKind
      BY <3>2, <3>3
    <3>5. rd'[c] = rd[c] + 1 /\ rd'[c] > 0
      BY <1>0, <3>1, <3>2 DEF TypeOK
    <3>6. CASE Handled
      BY <1>2, <3>6 DEF Handled, LoopOK
    <3>7. CASE ~Handled
      <4>1. Handling(cur, req)'
        BY <1>1, <2>1, <3>1, <3>5, <3>7 DEF Handling
      <4>2. frames'[req'][rd'[req']] = frames[c][rd[c] + 1] /\ req' # NoConn
        BY <1>1, <2>1, <3>1, <3>5, <3>7
      <4> QED
        BY <1>2, <3>1, <3>4, <3>7, <4>1, <4>2 DEF LoopOK, Removing, Fatal
    <3> QED
      BY <3>6, <3>7
  <2> QED
    BY <2>2, <2>3
<1> QED
  BY <1>3, <1>4

LEMMA LoopGoesOn == ASSUME MInv, Loop PROVE LoopOK'
<1>0. TypeOK /\ LoopOK
  BY DEF MInv
<1>1. CASE Snapshot
  <2>1. \A id \in batch' : \E d \in 1 .. nconn' : addr'[d] = id
    BY <1>1, RegisteredKnown DEF Snapshot, ClientIds
  <2> QED
    BY <1>0, <1>1, <2>1 DEF Snapshot, LoopOK
<1>2. CASE CountReceived
  <2>1. /\ UNCHANGED <<nconn, addr, frames, rd, clients, batch, cur, req>>
        /\ lpc = "stats" /\ lpc' = Dispatch(frames[req][rd[req]])
    BY <1>2 DEF CountReceived
  <2>2. Handling(cur, req) /\ req # NoConn
    BY <1>0, <2>1, Numbers DEF LoopOK, Handling
  <2>3. frames[req][rd[req]] \in {"data", "control", "disconnect", "keepalive", "unexpected"}
    BY <1>0, <2>1 DEF LoopOK, FrameKind
  <2> QED
    BY <1>0, <2>1, <2>2, <2>3 DEF LoopOK, Handling, Removing, Dispatch, Fatal
<1>3. CASE Touch \/ CountSent \/ DropClient
  <2>1. UNCHANGED <<nconn, addr, batch>> /\ Handled
    BY <1>3 DEF Touch, CountSent, DropClient
  <2> QED
    BY <1>0, <2>1 DEF LoopOK, Handled
<1>4. CASE Reply
  <2>1. UNCHANGED <<nconn, addr, frames, rd, clients, batch>> /\ lpc = "reply"
    BY <1>4 DEF Reply
  <2>2. Handling(cur, req) /\ req # NoConn
    BY <1>0, <2>1, Numbers DEF LoopOK, Handling
  <2>3. frames[req][rd[req]] \in {"data", "control", "disconnect"}
    BY <1>0, <2>1 DEF LoopOK
  <2>4. \/ Handled
        \/ lpc' = "restats" /\ UNCHANGED <<cur, req>>
        \/ Remove /\ (clients[cur] = NoConn \/ frames[req][rd[req]] = "disconnect")
    BY <1>4, <2>3 DEF Reply, IoError
  <2>5. Handling(cur, req)' \/ Handled
    BY <2>1, <2>2, <2>4 DEF Handling, Remove
  <2>6. CASE Handled
    BY <1>0, <2>1, <2>6 DEF LoopOK, Handled
  <2>7. CASE lpc' = "restats" /\ UNCHANGED <<cur, req>>
    BY <1>0, <2>1, <2>2, <2>7 DEF LoopOK, Handling
  <2>8. CASE Remove /\ (clients[cur] = NoConn \/ frames[req][rd[req]] = "disconnect")
    BY <1>0, <2>1, <2>2, <2>8 DEF LoopOK, Handling, Remove, Removing, Passed
  <2> QED
    BY <2>4, <2>6, <2>7, <2>8
<1>5. CASE DropEntry
  <2>1. /\ UNCHANGED <<nconn, addr, frames, rd, clients, batch, cur, req>>
        /\ lpc = "dropEntry" /\ lpc' = "dropClient"
    BY <1>5 DEF DropEntry
  <2>2. Removing'
    BY <1>0, <2>1 DEF LoopOK, Removing, Handling, Passed
  <2> QED
    BY <1>0, <2>1, <2>2 DEF LoopOK
<1> QED
  BY <1>1, <1>2, <1>3, <1>4, <1>5, VisitLoop DEF Loop

LEMMA DropStep == ASSUME MInv, [Next]_vars PROVE DropOK'
<1>1. CASE UNCHANGED <<dpc, dcur>>
  BY <1>1 DEF MInv, DropOK
<1>2. CASE BeginDrop \/ Dropping
  BY <1>2 DEF BeginDrop, Dropping, DropTheEntry, DropTheClient, EndDrop, DropOK, MInv
<1> QED
  BY <1>1, <1>2 DEF Next, Environment, Arrive, Elapse, Send, Close, Cleanup, BeginScan, EndScan,
     Scan, Loop, Snapshot, CountReceived, Touch, Reply, CountSent, DropEntry, DropClient, Visit, vars

LEMMA MInvStep == MInv /\ [Next]_vars => MInv'
BY TypesStep, NetStep, MapsStep, StatisticsStep, LoopKeeps, LoopGoesOn, DropStep DEF MInv

\* The invariant: the map holds latest connections, statistics are of addresses heard of,
\* and the loop removes clients for the frame it has read or for an address that was gone.
THEOREM ManagerInvariance == Spec => []MInv
BY InitMInv, MInvStep, PTL DEF Spec

\* The two maps, the scan and the local variables of the threads keep their types: in
\* particular the cleanup never looks at statistics that are no longer there.
THEOREM ManagerTypeCorrect == Spec => []TypeOK
BY ManagerInvariance, PTL DEF MInv

\* No thread of the manager removes a client for nothing: the statistics of its address have
\* expired, its frame in hand demands it, it took its address while what was there before was
\* being removed, or a clone was dropped.
THEOREM ManagerRemovesForCause == Spec => RemovedForCause
<1> DEFINE Cause == \A id \in ClientId :
       LET c == clients[id]
       IN c # NoConn /\ clients'[id] = NoConn =>
            \/ FellSilent(c)
            \/ EndsItself(c) \/ DiscardedBefore(c)
            \/ dpc = "client" /\ dcur = id
<1>1. MInv /\ [Next]_vars => [Cause]_vars
  <2> SUFFICES ASSUME MInv, [Next]_vars, NEW id \in ClientId, clients[id] # NoConn,
                      clients'[id] = NoConn
               PROVE  LET c == clients[id]
                      IN \/ FellSilent(c)
                         \/ EndsItself(c) \/ DiscardedBefore(c)
                         \/ dpc = "client" /\ dcur = id
    OBVIOUS
  <2>0. TypeOK /\ MapOK /\ StatisticsOK /\ LoopOK /\ DropOK
    BY DEF MInv
  <2>1. PICK c \in Conn : /\ c = clients[id] /\ c \in 1 .. nconn /\ addr[c] = id
                          /\ \A d \in 1 .. nconn : addr[d] = id => d <= c
    BY <2>0, RegisteredKnown DEF MapOK
  <2>2. \A d \in 1 .. nconn : addr[d] = id => d \in Conn /\ (d < c \/ d = c)
    BY <2>0, <2>1, Numbers
  <2>3. ASSUME NEW a \in ClientId, Arrive(a) PROVE FALSE
    BY <2>0, <2>3, Numbers DEF Arrive, TypeOK, Conn, NoConn
  <2>4. ASSUME NEW a \in ClientId, Scan(a), Expired(a), clients' = WithoutClient(a)
        PROVE  FellSilent(c)
    <3>1. a = id /\ scanning
      BY <2>0, <2>4 DEF WithoutClient, TypeOK, Scan
    <3>2. id \in stale /\ id \in entries
      BY <2>0, <2>4, <3>1 DEF Expired, TypeOK
    <3>3. PICK d \in 1 .. nconn : addr[d] = id /\ rd[d] > 0
      BY <2>0, <3>2 DEF StatisticsOK
    <3> QED
      BY <2>1, <2>2, <3>1, <3>2, <3>3 DEF FellSilent
  <2>5. CASE DropClient
    <3>1. cur = id /\ Removing /\ lpc = "dropClient"
      BY <2>0, <2>5 DEF DropClient, WithoutClient, TypeOK, LoopOK
    <3>2. CASE req = NoConn
      BY <2>1, <3>1, <3>2 DEF DiscardedBefore
    <3>3. CASE req # NoConn
      <4>1. /\ req \in 1 .. nconn /\ addr[req] = id
            /\ frames[req][rd[req]] \in Fatal \cup {"disconnect"} \/ req < c
        BY <2>1, <3>1, <3>3 DEF Removing, Handling, Passed
      <4>2. req < c \/ req = c
        BY <2>2, <4>1
      <4> QED
        BY <2>1, <3>1, <4>1, <4>2 DEF DiscardedBefore, EndsItself
    <3> QED
      BY <3>2, <3>3
  <2>6. CASE DropTheClient
    BY <2>0, <2>6 DEF DropTheClient, WithoutClient, TypeOK
  <2>7. clients' # clients
    OBVIOUS
  <2> QED
    BY <2>0, <2>1, <2>3, <2>4, <2>5, <2>6, <2>7, MapStep
<1> QED
  BY ManagerInvariance, <1>1, PTL DEF Spec, RemovedForCause

-----------------------------------------------------------------------------
(***************************************************************************)
(* The manager implements ClientService.                                   *)
(***************************************************************************)

\* What the mapping makes of the manager's state.
Served == {c \in Conn : Registered(c)}
Taken == {"stats", "touch", "reply"}
NoRequest == <<NoConn, 0>>
InHand == IF lpc \in Taken THEN <<req, rd[req]>> ELSE NoRequest

\* The service sees nothing of the step.
Unseen == UNCHANGED <<nconn, addr, Served, rd, InHand, out>>

LEMMA UnseenStutters == Unseen => UNCHANGED Service!vars
BY DEF Unseen, Served, InHand, Taken, NoRequest, Service!vars

\* The served connections are those in the map.
LEMMA ServedInMap ==
  ASSUME MInv
  PROVE  /\ Served \subseteq Conn
         /\ \A c \in Conn : c \in Served <=> addr[c] \in ClientId /\ clients[addr[c]] = c
<1>1. ASSUME NEW c \in Conn PROVE c \in Served <=> addr[c] \in ClientId /\ clients[addr[c]] = c
  <2>1. CASE c <= nconn
    BY <2>1 DEF MInv, NetOK, Served, Registered
  <2>2. CASE ~(c <= nconn)
    <3>1. ASSUME addr[c] \in ClientId, clients[addr[c]] = c PROVE FALSE
      <4>1. c # NoConn
        BY Numbers DEF MInv
      <4> QED
        BY <2>2, <3>1, <4>1 DEF MInv, MapOK
    <3> QED
      BY <2>2, <3>1 DEF Served, Registered
  <2> QED
    BY <2>1, <2>2
<1> QED
  BY <1>1 DEF Served

\* The steps of the service, in terms of the mapping.
LEMMA DismissStep ==
  ASSUME NEW c \in Served, Served' = Served \ {c},
         UNCHANGED <<nconn, addr, rd, InHand, out>>
  PROVE  Service!Next
<1>1. c \in Conn
  BY DEF Served
<1>2. Service!Dismiss(c)
  BY DEF Service!Dismiss, Served, InHand, Taken, NoRequest
<1> QED
  BY <1>1, <1>2 DEF Service!Next, Service!Conn, Conn

LEMMA TakeStep ==
  ASSUME NEW c \in Served, InHand = NoRequest,
         rd' = [rd EXCEPT ![c] = @ + 1], InHand' \in {NoRequest, <<c, rd[c] + 1>>},
         UNCHANGED <<nconn, addr, Served, out>>
  PROVE  Service!Next
<1>1. c \in Conn
  BY DEF Served
<1>2. Service!Take(c)
  BY DEF Service!Take, Service!NoRequest, NoRequest, NoConn, Served, InHand, Taken
<1> QED
  BY <1>1, <1>2 DEF Service!Next, Service!Conn, Conn

LEMMA AnswerStep ==
  ASSUME NEW c \in Served, InHand # NoRequest, addr[c] = addr[InHand[1]],
         out' = [out EXCEPT ![c] = Append(@, InHand)], InHand' = NoRequest,
         UNCHANGED <<nconn, addr, Served, rd>>
  PROVE  Service!Next
<1>1. c \in Conn
  BY DEF Served
<1>2. Service!Answer(c)
  BY DEF Service!Answer, Service!NoRequest, NoRequest, NoConn, Served, InHand, Taken
<1> QED
  BY <1>1, <1>2 DEF Service!Next, Service!Finish, Service!Conn, Conn

LEMMA AbandonStep ==
  ASSUME InHand # NoRequest, InHand' = NoRequest,
         UNCHANGED <<nconn, addr, Served, rd, out>>
  PROVE  Service!Next
<1>1. Service!Abandon
  BY DEF Service!Abandon, Service!NoRequest, NoRequest, NoConn, Served, InHand, Taken
<1> QED
  BY <1>1 DEF Service!Next, Service!Finish

LEMMA InitService == Init => Service!Init
<1> SUFFICES ASSUME Init PROVE Service!Init
  OBVIOUS
<1>1. Served = {}
  BY DEF Init, Served, Registered, Conn
<1>2. InHand = NoRequest
  BY DEF Init, InHand, Taken
<1> QED
  BY <1>1, <1>2 DEF Init, Service!Init, Service!Conn, Conn, Service!NoRequest, NoRequest, NoConn,
     Served, InHand, Taken

\* A connection that is inserted takes the place of the one from its address.
LEMMA ArriveServes == ASSUME MInv, NEW id \in ClientId, Arrive(id) PROVE Service!Next
<1>0. TypeOK
  BY DEF MInv
<1>1. PICK n \in Conn : n = nconn + 1 /\ nconn < MaxConn /\ ~(n <= nconn)
  BY <1>0, Numbers DEF Arrive
<1>2. /\ addr' = [addr EXCEPT ![n] = id] /\ clients' = [clients EXCEPT ![id] = n]
      /\ nconn' = n
      /\ UNCHANGED <<rd, out, lpc, req>>
  BY <1>1 DEF Arrive
<1>3. InHand' = InHand
  BY <1>2 DEF InHand
<1>4. ASSUME NEW c \in Conn PROVE c \in Served' <=> (c \in Served /\ addr[c] # id) \/ c = n
  <2>1. c \in Served' <=> c <= n /\ clients'[addr'[c]] = c
    BY <1>2 DEF Served, Registered
  <2>2. c \in Served <=> addr[c] \in ClientId /\ clients[addr[c]] = c
    BY ServedInMap
  <2>3. CASE c = n
    BY <1>0, <1>1, <1>2, <2>1, <2>3, Numbers DEF TypeOK
  <2>4. CASE c # n
    <3>1. addr'[c] = addr[c]
      BY <1>0, <1>2, <2>4 DEF TypeOK
    <3>2. c <= n <=> c <= nconn
      BY <1>0, <1>1, <2>4, Numbers
    <3>3. c <= nconn => addr[c] \in ClientId
      BY DEF MInv, NetOK
    <3>4. addr[c] \in ClientId => clients'[addr[c]] = IF addr[c] = id THEN n ELSE clients[addr[c]]
      BY <1>0, <1>2 DEF TypeOK
    <3>5. c \in Served => c <= nconn
      BY DEF Served, Registered
    <3> QED
      BY <2>1, <2>2, <2>4, <3>1, <3>2, <3>3, <3>4, <3>5
  <2> QED
    BY <2>3, <2>4
<1>5. Served' = {c \in Served : addr[c] # id} \cup {nconn + 1}
  <2>1. Served \subseteq Conn /\ Served' \subseteq Conn
    BY DEF Served
  <2> QED
    BY <1>1, <1>4, <2>1
<1>6. Service!Admit(id)
  BY <1>1, <1>2, <1>3, <1>5 DEF Service!Admit, Served, InHand, Taken, NoRequest
<1> QED
  BY <1>6 DEF Service!Next

\* Whoever takes an address out of the map dismisses the connection that was there.
LEMMA RemovalDismisses ==
  ASSUME MInv, NEW id \in ClientId, clients' = WithoutClient(id),
         UNCHANGED <<nconn, addr, rd, InHand, out>>
  PROVE  Service!Next \/ Unseen
<1>0. TypeOK
  BY DEF MInv
<1>1. CASE clients[id] = NoConn
  <2>1. clients' = clients
    BY <1>0, <1>1 DEF TypeOK, WithoutClient
  <2> QED
    BY <2>1 DEF Unseen, Served, Registered
<1>2. CASE clients[id] # NoConn
  <2>1. PICK c \in Conn : c = clients[id] /\ addr[c] = id /\ c <= nconn
    BY <1>0, <1>2, RegisteredKnown, Numbers
  <2>2. ASSUME NEW d \in Conn PROVE d \in Served' <=> d \in Served /\ d # c
    <3>1. d \in Served' <=> d <= nconn /\ clients'[addr[d]] = d
      BY DEF Served, Registered
    <3>2. d \in Served <=> d <= nconn /\ clients[addr[d]] = d
      BY DEF Served, Registered
    <3>3. d <= nconn => addr[d] \in ClientId
      BY DEF MInv, NetOK
    <3>4. d # NoConn
      BY <1>0, Numbers
    <3> QED
      BY <1>0, <2>1, <3>1, <3>2, <3>3, <3>4 DEF TypeOK, WithoutClient
  <2>3. Served' = Served \ {c}
    BY <2>2 DEF Served
  <2>4. c \in Served
    BY <2>1 DEF Served, Registered
  <2> QED
    BY <2>3, <2>4, DismissStep
<1> QED
  BY <1>1, <1>2

\* A frame that the loop has counted, or is about to, is a request taken.
LEMMA TakenInHand ==
  ASSUME MInv, lpc \in Taken
  PROVE  /\ InHand = <<req, rd[req]>> /\ InHand # NoRequest
         /\ req \in Conn /\ addr[req] = cur /\ cur \in ClientId
BY Numbers DEF MInv, LoopOK, Handling, Taken, InHand, NoRequest

LEMMA VisitServes ==
  ASSUME MInv, NEW id \in ClientId, Visit(id)
  PROVE  Service!Next \/ Unseen
<1>0. TypeOK
  BY DEF MInv
<1>1. UNCHANGED <<nconn, addr, out, clients, Served>> /\ InHand = NoRequest
  BY DEF Visit, Served, Registered, InHand, Taken
<1>2. CASE rd' = rd
  <2>1. InHand' = NoRequest
    BY <1>0, <1>2, RegisteredKnown DEF Visit, IoError, Handled, InHand, Taken, TypeOK
  <2> QED
    BY <1>1, <1>2, <2>1 DEF Unseen
<1>3. CASE rd' # rd
  <2>1. PICK c \in Conn : c = clients[id] /\ c # NoConn /\ c <= nconn /\ addr[c] = id
    BY <1>0, <1>3, RegisteredKnown, Numbers DEF Visit
  <2>2. c \in Served
    BY <2>1 DEF Served, Registered
  <2>3. rd' = [rd EXCEPT ![c] = @ + 1] /\ (lpc' \in Taken => req' = c)
    BY <1>3, <2>1 DEF Visit, Handled, Taken
  <2>4. rd'[c] = rd[c] + 1
    BY <1>0, <2>3 DEF TypeOK
  <2>5. InHand' \in {NoRequest, <<c, rd[c] + 1>>}
    BY <2>3, <2>4 DEF InHand
  <2> QED
    BY <1>1, <2>2, <2>3, <2>5, TakeStep
<1> QED
  BY <1>2, <1>3

LEMMA ReplyServes == ASSUME MInv, Reply PROVE Service!Next \/ Unseen
<1>0. TypeOK
  BY DEF MInv
<1>1. UNCHANGED <<nconn, addr, rd, Served>> /\ lpc \in Taken /\ lpc = "reply"
  BY DEF Reply, Served, Registered, Taken
<1>2. InHand = <<req, rd[req]>> /\ InHand # NoRequest /\ addr[req] = cur /\ cur \in ClientId
  BY <1>1, TakenInHand
<1>3. InHand' = NoRequest
  BY DEF MInv, LoopOK, Reply, Remove, IoError, Handled, InHand, Taken
<1>4. CASE out' = out
  BY <1>1, <1>2, <1>3, <1>4, AbandonStep
<1>5. CASE out' # out
  <2>1. PICK c \in Conn : c = clients[cur] /\ c # NoConn /\ c <= nconn /\ addr[c] = cur
    BY <1>0, <1>2, <1>5, RegisteredKnown, Numbers DEF Reply
  <2>2. c \in Served
    BY <2>1 DEF Served, Registered
  <2>3. out' = [out EXCEPT ![c] = Append(@, InHand)]
    BY <1>2, <1>5, <2>1 DEF Reply, Delivered
  <2>4. addr[c] = addr[InHand[1]]
    BY <1>2, <2>1
  <2> QED
    BY <1>1, <1>2, <1>3, <2>2, <2>3, <2>4, AnswerStep
<1> QED
  BY <1>4, <1>5

LEMMA LoopServes == ASSUME MInv, Loop PROVE Service!Next \/ Unseen
<1>0. TypeOK
  BY DEF MInv
<1>1. CASE Snapshot \/ CountSent \/ DropEntry
  <2>1. UNCHANGED <<nconn, addr, rd, out, clients>> /\ InHand' = InHand
    BY <1>1 DEF Snapshot, CountSent, DropEntry, Handled, InHand, Taken
  <2> QED
    BY <2>1 DEF Unseen, Served, Registered
<1>2. CASE CountReceived \/ Touch
  <2>1. UNCHANGED <<nconn, addr, rd, out, Served>> /\ lpc \in Taken
    BY <1>2 DEF CountReceived, Touch, Served, Registered, Taken
  <2>2. InHand # NoRequest
    BY <2>1, TakenInHand
  <2>3. InHand' = InHand \/ InHand' = NoRequest
    BY <1>2, <2>1 DEF CountReceived, Touch, Handled, InHand, Taken
  <2> QED
    BY <2>1, <2>2, <2>3, AbandonStep DEF Unseen
<1>3. CASE DropClient
  <2>1. cur \in ClientId /\ clients' = WithoutClient(cur) /\ InHand' = InHand
    BY <1>3 DEF DropClient, Handled, InHand, Taken, MInv, LoopOK, Removing, Handling
  <2> QED
    BY <1>3, <2>1, RemovalDismisses DEF DropClient
<1> QED
  BY <1>1, <1>2, <1>3, VisitServes, ReplyServes DEF Loop

\* The others dismiss clients, or do nothing that the service sees.
LEMMA OthersServe ==
  ASSUME MInv, [Next]_vars, ~Loop, ~\E id \in ClientId : Arrive(id)
  PROVE  Service!Next \/ Unseen
<1>0. TypeOK
  BY DEF MInv
<1>1. UNCHANGED <<nconn, addr, rd, out, InHand>>
  BY <1>0, LoopApart, MapStep DEF InHand, Loop
<1>2. CASE clients' = clients
  BY <1>1, <1>2 DEF Unseen, Served, Registered
<1>3. ASSUME NEW id \in ClientId, clients' = WithoutClient(id) PROVE Service!Next \/ Unseen
  BY <1>1, <1>3, RemovalDismisses
<1>4. CASE DropTheClient
  BY <1>3, <1>4 DEF DropTheClient, MInv, DropOK
<1> QED
  BY <1>0, <1>2, <1>3, <1>4, MapStep DEF Loop

\* The manager implements the service, whatever its loop, its cleanup and the drops of its
\* clones do: a connection is served once, requests are taken one at a time and in order,
\* and each is answered at most once, to its own address, before the next is taken.
THEOREM ManagerImplementsService == Spec => Service!Spec
<1>1. MInv /\ [Next]_vars => [Service!Next]_Service!vars
  <2> SUFFICES ASSUME MInv, [Next]_vars PROVE Service!Next \/ Unseen
    BY UnseenStutters
  <2> QED
    BY ArriveServes, LoopServes, OthersServe
<1> QED
  BY ManagerInvariance, InitService, <1>1, PTL DEF Spec, Service!Spec
==============================================================================
