------------------------ MODULE KeepaliveTimingProofs ------------------------
(***************************************************************************)
(* Theorems about the times in KeepaliveTiming, for every number of        *)
(* connections, every interval of the server and every unit and lag.       *)
(* Where lateness has to be limited, the theorem says how.                 *)
(***************************************************************************)
EXTENDS KeepaliveTiming, SequenceTheorems, TLAPS

\* The steps of this module and the test connections of Programs.
Step == Next \/ \E c \in Conn : Probe(c)

\* The states that one connection goes through on both sides.
Life(c) ==
  /\ app[c] = "none" => /\ c \notin reg \cup backlog /\ link[c] = "none"
                        /\ call[c] = "none" /\ thread[c] = "none"
  /\ app[c] = "calling" <=> call[c] # "none"
  /\ call[c] = "config" => thread[c] = "none"
  /\ app[c] \in {"calling", "idle", "joining"} =>
       /\ link[c] \in {"up", "closed", "reset"}
       /\ call[c] # "config" => thread[c] # "none"
  /\ link[c] \in {"closed", "reset"} => c \notin reg \cup backlog
  /\ service = "up" =>
       /\ link[c] = "up" => /\ app[c] \in {"calling", "idle", "joining"} /\ thread[c] # "ended"
                            /\ c \in reg \/ (c \in backlog /\ call[c] = "config")
       /\ thread[c] = "ended" => c \notin reg \cup backlog

\* The clocks of one connection: a stale client is found at the next turn of the monitor,
\* and a request is given up.
Clocks(c) ==
  /\ service = "off" => app[c] = "none"
  /\ c \notin reg => age[c] = 0 /\ missed[c] = 0
  /\ service = "up" /\ c \in reg => age[c] <= Timeout + mslept
  /\ app[c] \notin {"calling", "joining"} => lasts[c] = 0
  /\ app[c] = "calling" => lasts[c] <= ReadTimeout

TInv == TypeOK /\ \A c \in Conn : Life(c) /\ Clocks(c)

USE DEF lossVars, serverVars, streamVars, clientVars

-----------------------------------------------------------------------------
\* The times are natural numbers of units.
LEMMA Times ==
  /\ Interval \in Nat /\ Timeout \in Nat /\ ReadTimeout \in Nat /\ MonitorInterval \in Nat
  /\ Lag \in Nat /\ AgeCap \in Nat /\ JoinCap \in Nat
  /\ AgeCap = Timeout + MonitorInterval + Lag + 1
  /\ JoinCap = 2 * (Interval + Lag) + 1
  /\ 0 \in 0 .. Lag /\ 0 \in 0 .. AgeCap /\ 0 \in 0 .. JoinCap
  /\ 0 \in 0 .. Interval + Lag /\ Interval \in 0 .. Interval + Lag
<1>1. \A s \in Nat : Seconds(s) \in Nat
  BY TimingAssumption DEF Seconds
<1> QED
  BY <1>1, TimingAssumption DEF Interval, Timeout, ReadTimeout, MonitorInterval, AgeCap, JoinCap

\* A clock that goes on stays below its cap and gains one at most.
LEMMA OlderBound ==
  ASSUME NEW cap \in Nat, NEW t \in 0 .. cap
  PROVE  /\ Older(t, cap) \in 0 .. cap /\ Older(t, cap) <= t + 1
         /\ t < cap => Older(t, cap) = t + 1
BY DEF Older

\* What is left of the frames, and what one more makes of them.
LEMMA FrameSeqs ==
  ASSUME NEW s \in Seq(Frame)
  PROVE  /\ \A f \in Frame : Append(s, f) \in Seq(Frame) /\ Append(s, f) # <<>>
         /\ s # <<>> => Head(s) \in Frame /\ Tail(s) \in Seq(Frame)
         /\ <<>> \in Seq(Frame)
<1>1. \A f \in Frame : Append(s, f) \in Seq(Frame)
  OBVIOUS
<1>2. \A f \in Frame : Append(s, f) # <<>>
  <2> SUFFICES ASSUME NEW f \in Frame, Append(s, f) = <<>> PROVE FALSE
    OBVIOUS
  <2>1. Len(Append(s, f)) = Len(s) + 1 /\ Len(<<>>) = 0 /\ Len(s) \in Nat
    OBVIOUS
  <2> QED
    BY <2>1
<1>3. s # <<>> => Head(s) \in Frame /\ Tail(s) \in Seq(Frame)
  OBVIOUS
<1> QED
  BY <1>1, <1>2, <1>3

-----------------------------------------------------------------------------
(***************************************************************************)
(* Steps of one connection leave the others alone.                         *)
(***************************************************************************)

\* What can be told of connection c, and the service, are the same after the step.
Same(c) ==
  /\ service' = service /\ mslept' = mslept
  /\ c \in reg' <=> c \in reg
  /\ c \in backlog' <=> c \in backlog
  /\ age'[c] = age[c] /\ lost'[c] = lost[c] /\ missed'[c] = missed[c]
  /\ inbox'[c] = inbox[c] /\ waited'[c] = waited[c] /\ link'[c] = link[c]
  /\ app'[c] = app[c] /\ call'[c] = call[c] /\ result'[c] = result[c] /\ lasts'[c] = lasts[c]
  /\ thread'[c] = thread[c] /\ slept'[c] = slept[c]

\* The steps of connection c.
StepOf(c) ==
  \/ Accept(c) \/ ServerRead(c)
  \/ CallFails(c) \/ Joined(c) \/ KeepaliveWakes(c)
  \/ New(c) \/ Disconnect(c) \/ Vanish(c) \/ Probe(c)
  \/ \E f \in {"data", "large"} : Request(c, f)

LEMMA Apart ==
  ASSUME TypeOK, NEW c \in Conn, NEW d \in Conn, c # d, StepOf(d)
  PROVE  Same(c)
<1> USE DEF TypeOK, Same
<1>1. CASE Accept(d)
  BY <1>1 DEF Accept
<1>2. CASE ServerRead(d)
  BY <1>2, SMTT(30) DEF ServerRead, Remove, Unregister, Heard, Lose, Unanswered, Returns
<1>3. CASE CallFails(d)
  BY <1>3 DEF CallFails
<1>4. CASE Joined(d)
  BY <1>4 DEF Joined
<1>5. CASE KeepaliveWakes(d)
  BY <1>5 DEF KeepaliveWakes, Written, Lost, NotWritten, KeepaliveEnds
<1>6. CASE New(d)
  BY <1>6 DEF New
<1>7. CASE Disconnect(d)
  BY <1>7 DEF Disconnect, Written, Lost, NotWritten
<1>8. CASE Vanish(d)
  BY <1>8 DEF Vanish
<1>9. CASE Probe(d)
  BY <1>9 DEF Probe
<1>10. ASSUME NEW f \in {"data", "large"}, Request(d, f) PROVE Same(c)
  BY <1>10 DEF Request, Written, Lost, NotWritten
<1> QED
  BY <1>1, <1>2, <1>3, <1>4, <1>5, <1>6, <1>7, <1>8, <1>9, <1>10 DEF StepOf

\* Who takes a step.
LEMMA Actors ==
  ASSUME [Step]_vars
  PROVE  \/ Start \/ Shutdown \/ MonitorWakes \/ Tick \/ UNCHANGED vars
         \/ \E c \in Conn : StepOf(c)
BY DEF Step, Next, Service, Client, Application, StepOf

-----------------------------------------------------------------------------
(***************************************************************************)
(* Types.                                                                  *)
(***************************************************************************)
LEMMA InitTInv == Init => TInv
<1> SUFFICES ASSUME Init PROVE TInv
  OBVIOUS
<1>1. TypeOK
  BY Times DEF Init, TypeOK
<1>2. \A c \in Conn : Life(c) /\ Clocks(c)
  BY DEF Init, Life, Clocks
<1> QED
  BY <1>1, <1>2 DEF TInv

\* What is left of the frames after some of them were read in vain.
LEMMA RestOfFrames ==
  ASSUME NEW s \in Seq(Frame), NEW k \in 1 .. Len(s)
  PROVE  SubSeq(s, k + 1, Len(s)) \in Seq(Frame)
OBVIOUS

\* Removal from the map leaves the types in order.
LEMMA RemoveTypes ==
  ASSUME TypeOK, NEW S \in SUBSET reg, NEW u, Remove(S, u)
  PROVE  /\ reg' \subseteq reg
         /\ age' \in [Conn -> 0 .. AgeCap]
         /\ lost' \in [Conn -> SUBSET Vital] /\ missed' \in [Conn -> 0 .. 2]
         /\ link' \in [Conn -> {"none", "up", "closed", "reset", "left"}]
         /\ inbox' \in [Conn -> Seq(Frame)]
<1>1. /\ age \in [Conn -> 0 .. AgeCap] /\ inbox \in [Conn -> Seq(Frame)]
      /\ lost \in [Conn -> SUBSET Vital] /\ missed \in [Conn -> 0 .. 2]
      /\ link \in [Conn -> {"none", "up", "closed", "reset", "left"}]
      /\ <<>> \in Seq(Frame) /\ 0 \in 0 .. 2
  BY DEF TypeOK
<1>2. PICK end \in [S -> {"closed", "reset"}] :
        link' = [c \in Conn |-> IF c \in S /\ link[c] = "up" THEN end[c] ELSE link[c]]
  BY DEF Remove
<1>3. link' \in [Conn -> {"none", "up", "closed", "reset", "left"}]
  BY <1>1, <1>2
<1>4. /\ reg' = reg \ S
      /\ age' = [c \in Conn |-> IF c \in S THEN 0 ELSE age[c]]
      /\ missed' = [c \in Conn |-> IF c \in S THEN 0 ELSE missed[c]]
      /\ lost' = lost
      /\ inbox' = [c \in Conn |-> IF c \in S THEN <<>> ELSE inbox[c]]
  BY DEF Remove, Unregister
<1>5. inbox' \in [Conn -> Seq(Frame)]
  BY <1>1, <1>4
<1>6. age' \in [Conn -> 0 .. AgeCap] /\ missed' \in [Conn -> 0 .. 2]
  BY <1>1, <1>4, Times
<1> QED
  BY <1>1, <1>3, <1>4, <1>5, <1>6

\* Removal from the map as one connection sees it.
LEMMA RemoveOne ==
  ASSUME TypeOK, NEW S \in SUBSET reg, NEW u, Remove(S, u), NEW c \in Conn
  PROVE  /\ c \in reg' <=> c \in reg /\ c \notin S
         /\ lost'[c] = lost[c]
         /\ c \in S => age'[c] = 0 /\ missed'[c] = 0
         /\ c \notin S => /\ age'[c] = age[c] /\ missed'[c] = missed[c]
                           /\ inbox'[c] = inbox[c] /\ link'[c] = link[c]
         /\ c \in S /\ link[c] = "up" => link'[c] \in Dropped(c, u[c])
         /\ link[c] # "up" => link'[c] = link[c]
<1>1. PICK end \in [S -> {"closed", "reset"}] :
        /\ \A d \in S : end[d] \in Dropped(d, u[d])
        /\ link' = [d \in Conn |-> IF d \in S /\ link[d] = "up" THEN end[d] ELSE link[d]]
  BY DEF Remove
<1>2. /\ c \in S /\ link[c] = "up" => link'[c] \in Dropped(c, u[c])
      /\ c \notin S \/ link[c] # "up" => link'[c] = link[c]
  BY <1>1
<1>3. /\ c \in reg' <=> c \in reg /\ c \notin S
      /\ lost'[c] = lost[c]
      /\ c \in S => age'[c] = 0 /\ missed'[c] = 0
      /\ c \notin S => age'[c] = age[c] /\ missed'[c] = missed[c] /\ inbox'[c] = inbox[c]
  BY DEF Remove, Unregister
<1> QED
  BY <1>2, <1>3

\* A read that leaves the client registered, as its connection sees it: a frame is read
\* whole, or frames are lost, or one is not answered.
LEMMA Reads ==
  ASSUME TypeOK, NEW c \in Conn, ServerRead(c), ~\E u : Remove({c}, u)
  PROVE  /\ UNCHANGED <<reg, link>>
         /\ \/ /\ Head(inbox[c]) \in {"keepalive", "config", "data"}
               /\ inbox' = [inbox EXCEPT ![c] = Tail(@)] /\ Heard(c) /\ lost' = lost
               /\ IF Head(inbox[c]) = call[c] THEN Returns(c) ELSE UNCHANGED clientVars
            \/ /\ \E k \in 1 .. Len(inbox[c]) : Lose(c, k)
               /\ UNCHANGED clientVars
            \/ /\ Unanswered(c, Head(inbox[c])) /\ inbox' = [inbox EXCEPT ![c] = Tail(@)]
               /\ UNCHANGED clientVars
BY DEF ServerRead

LEMMA ServerReadTypes ==
  ASSUME TypeOK, NEW c \in Conn, ServerRead(c)
  PROVE  TypeOK'
<1>1. inbox[c] \in Seq(Frame) /\ inbox[c] # <<>>
  BY DEF TypeOK, ServerRead
<1>2. Tail(inbox[c]) \in Seq(Frame) /\ <<>> \in Seq(Frame)
  BY <1>1, FrameSeqs
<1>3. waited' \in [Conn -> 0 .. Lag]
  BY Times DEF ServerRead, TypeOK
<1>4. /\ reg' \subseteq reg
      /\ age' \in [Conn -> 0 .. AgeCap]
      /\ lost' \in [Conn -> SUBSET Vital] /\ missed' \in [Conn -> 0 .. 2]
      /\ link' \in [Conn -> {"none", "up", "closed", "reset", "left"}]
      /\ inbox' \in [Conn -> Seq(Frame)]
  <2>0. /\ age \in [Conn -> 0 .. AgeCap] /\ inbox \in [Conn -> Seq(Frame)]
        /\ lost \in [Conn -> SUBSET Vital] /\ missed \in [Conn -> 0 .. 2]
        /\ link \in [Conn -> {"none", "up", "closed", "reset", "left"}]
    BY DEF TypeOK
  <2>1. ASSUME NEW u, Remove({c}, u)
        PROVE  /\ reg' \subseteq reg
               /\ age' \in [Conn -> 0 .. AgeCap]
               /\ lost' \in [Conn -> SUBSET Vital] /\ missed' \in [Conn -> 0 .. 2]
               /\ link' \in [Conn -> {"none", "up", "closed", "reset", "left"}]
               /\ inbox' \in [Conn -> Seq(Frame)]
    <3>1. {c} \in SUBSET reg
      BY DEF ServerRead
    <3> QED
      BY <2>1, <3>1, RemoveTypes
  <2>2. ASSUME NEW k \in 1 .. Len(inbox[c]), Lose(c, k)
        PROVE  /\ age' \in [Conn -> 0 .. AgeCap]
               /\ lost' \in [Conn -> SUBSET Vital] /\ missed' \in [Conn -> 0 .. 2]
               /\ inbox' \in [Conn -> Seq(Frame)]
    <3>1. inbox' \in [Conn -> Seq(Frame)]
      BY <1>1, <2>0, <2>2, RestOfFrames DEF Lose
    <3>2. age' \in [Conn -> 0 .. AgeCap]
      BY <2>0, <2>2, Times DEF Lose
    <3>3. lost' \in [Conn -> SUBSET Vital]
      BY <2>0, <2>2 DEF Lose
    <3>4. missed' \in [Conn -> 0 .. 2]
      <4>0. missed[c] \in 0 .. 2
        BY <2>0
      <4>1. (IF missed[c] < 2 THEN missed[c] + 1 ELSE 2) \in 0 .. 2
        BY <4>0
      <4>2. missed' = [missed EXCEPT ![c] = IF missed[c] < 2 THEN missed[c] + 1 ELSE 2]
        BY <2>2 DEF Lose
      <4> QED
        BY <2>0, <4>1, <4>2
    <3> QED
      BY <3>1, <3>2, <3>3, <3>4
  <2>3. Heard(c) => age' \in [Conn -> 0 .. AgeCap] /\ missed' \in [Conn -> 0 .. 2]
    BY <2>0, Times DEF Heard
  <2>4. inbox' = [inbox EXCEPT ![c] = Tail(@)] => inbox' \in [Conn -> Seq(Frame)]
    BY <1>2, <2>0
  <2>5. ASSUME NEW f, Unanswered(c, f) PROVE lost' \in [Conn -> SUBSET Vital] /\ Heard(c)
    BY <2>0, <2>5 DEF Unanswered
  <2> QED
    BY <2>0, <2>1, <2>2, <2>3, <2>4, <2>5, Reads
<1>5. reg' \subseteq Conn \ backlog
  BY <1>4 DEF TypeOK
<1>6. UNCHANGED clientVars \/ Returns(c)
  BY DEF ServerRead
<1>7. /\ app' \in [Conn -> {"none", "calling", "idle", "joining", "out"}]
      /\ call' \in [Conn -> {"none", "config", "data", "large"}]
      /\ result' \in [Conn -> {"none", "ok", "err"}]
      /\ lasts' \in [Conn -> 0 .. JoinCap]
      /\ thread' \in [Conn -> {"none", "asleep", "ended"}]
      /\ slept' \in [Conn -> 0 .. Interval + Lag]
  <2>1. CASE UNCHANGED clientVars
    BY <2>1 DEF TypeOK
  <2>2. CASE Returns(c)
    <3>1. /\ app' = [app EXCEPT ![c] = "idle"] /\ call' = [call EXCEPT ![c] = "none"]
          /\ result' = [result EXCEPT ![c] = "ok"] /\ lasts' = [lasts EXCEPT ![c] = 0]
      BY <2>2 DEF Returns
    <3>2. thread' = thread \/ thread' = [thread EXCEPT ![c] = "asleep"]
      BY <2>2 DEF Returns
    <3>3. slept' = slept \/ slept' = [slept EXCEPT ![c] = Interval]
      BY <2>2 DEF Returns
    <3>4. thread' \in [Conn -> {"none", "asleep", "ended"}]
      BY <3>2 DEF TypeOK
    <3>5. slept' \in [Conn -> 0 .. Interval + Lag]
      <4>1. slept \in [Conn -> 0 .. Interval + Lag] /\ Interval \in 0 .. Interval + Lag
        BY Times DEF TypeOK
      <4> QED
        BY <3>3, <4>1
    <3>6. lasts' \in [Conn -> 0 .. JoinCap]
      BY <3>1, Times DEF TypeOK
    <3>7. /\ app' \in [Conn -> {"none", "calling", "idle", "joining", "out"}]
          /\ call' \in [Conn -> {"none", "config", "data", "large"}]
          /\ result' \in [Conn -> {"none", "ok", "err"}]
      BY <3>1 DEF TypeOK
    <3> QED
      BY <3>4, <3>5, <3>6, <3>7
  <2> QED
    BY <1>6, <2>1, <2>2
<1>8. UNCHANGED <<service, mslept, backlog>>
  BY DEF ServerRead
<1> QED
  BY <1>3, <1>4, <1>5, <1>7, <1>8 DEF TypeOK

\* A write adds a frame to the stream or breaks it, or does nothing.
LEMMA WriteTypes ==
  ASSUME TypeOK, NEW c \in Conn, NEW f \in Frame, Written(c, f) \/ Lost(c) \/ NotWritten(c)
  PROVE  /\ inbox' \in [Conn -> Seq(Frame)]
         /\ waited' \in [Conn -> 0 .. Lag]
         /\ link' \in [Conn -> {"none", "up", "closed", "reset", "left"}]
<1>1. inbox \in [Conn -> Seq(Frame)] /\ \A d \in Conn : Append(inbox[d], f) \in Seq(Frame)
  BY FrameSeqs DEF TypeOK, Frame
<1>2. Written(c, f) => inbox' \in [Conn -> Seq(Frame)]
  BY <1>1 DEF Written
<1>3. Lost(c) \/ NotWritten(c) => inbox' = inbox
  BY DEF Lost, NotWritten
<1>4. waited' \in [Conn -> 0 .. Lag]
  BY DEF Written, Lost, NotWritten, TypeOK
<1>5. link' \in [Conn -> {"none", "up", "closed", "reset", "left"}]
  BY ZenonT(60) DEF Written, Lost, NotWritten, TypeOK
<1> QED
  BY <1>1, <1>2, <1>3, <1>4, <1>5

LEMMA ClientTypes ==
  ASSUME TInv, NEW c \in Conn, StepOf(c), ~Accept(c), ~ServerRead(c)
  PROVE  TypeOK'
<1> USE DEF TInv
<1>1. CASE CallFails(c)
  <2>1. /\ call' = [call EXCEPT ![c] = "none"] /\ result' = [result EXCEPT ![c] = "err"]
        /\ lasts' = [lasts EXCEPT ![c] = 0]
        /\ app' \in {[app EXCEPT ![c] = "out"], [app EXCEPT ![c] = "idle"]}
        /\ link' \in {link, [link EXCEPT ![c] = "left"]}
        /\ UNCHANGED <<serverVars, inbox, waited, thread, slept>>
    BY <1>1 DEF CallFails
  <2> QED
    BY <2>1, Times DEF TypeOK
<1>2. CASE Joined(c)
  <2>1. /\ app' = [app EXCEPT ![c] = "out"] /\ lasts' = [lasts EXCEPT ![c] = 0]
        /\ link' = [link EXCEPT ![c] = "left"]
        /\ UNCHANGED <<serverVars, inbox, waited, call, result, thread, slept>>
    BY <1>2 DEF Joined
  <2> QED
    BY <2>1, Times DEF TypeOK
<1>3. CASE KeepaliveWakes(c)
  <2>1. /\ inbox' \in [Conn -> Seq(Frame)]
        /\ waited' \in [Conn -> 0 .. Lag]
        /\ link' \in [Conn -> {"none", "up", "closed", "reset", "left"}]
    BY <1>3, WriteTypes DEF KeepaliveWakes, KeepaliveEnds, Frame
  <2>2. /\ thread' \in [Conn -> {"none", "asleep", "ended"}]
        /\ slept' \in [Conn -> 0 .. Interval + Lag]
    <3>1. slept' = [slept EXCEPT ![c] = 0]
          /\ thread' \in {thread, [thread EXCEPT ![c] = "ended"]}
      BY <1>3 DEF KeepaliveWakes
    <3> QED
      BY <3>1, Times DEF TypeOK
  <2> QED
    BY <1>3, <2>1, <2>2 DEF TypeOK, KeepaliveWakes, Frame
<1>4. CASE New(c)
  <2>1. c \notin reg
    BY <1>4 DEF New, Life
  <2>2. inbox' \in [Conn -> Seq(Frame)]
    BY <1>4 DEF New, TypeOK, Frame
  <2> QED
    BY <1>4, <2>1, <2>2 DEF TypeOK, New, Frame
<1>5. CASE Disconnect(c)
  <2>1. /\ inbox' \in [Conn -> Seq(Frame)]
        /\ waited' \in [Conn -> 0 .. Lag]
        /\ link' \in [Conn -> {"none", "up", "closed", "reset", "left"}]
    BY <1>5, WriteTypes DEF Disconnect, Frame
  <2> QED
    BY <1>5, <2>1 DEF TypeOK, Disconnect, Frame
<1>6. CASE Vanish(c)
  BY <1>6, Times DEF TypeOK, Vanish
<1>7. CASE Probe(c)
  <2>1. c \notin reg
    BY <1>7 DEF Probe, Life
  <2> QED
    BY <1>7, <2>1 DEF TypeOK, Probe
<1>8. ASSUME NEW f \in {"data", "large"}, Request(c, f) PROVE TypeOK'
  <2>1. /\ inbox' \in [Conn -> Seq(Frame)]
        /\ waited' \in [Conn -> 0 .. Lag]
        /\ link' \in [Conn -> {"none", "up", "closed", "reset", "left"}]
    BY <1>8, WriteTypes DEF Request, Frame
  <2>2. /\ app' \in {app, [app EXCEPT ![c] = "calling"]}
        /\ call' \in {call, [call EXCEPT ![c] = f]}
        /\ result' \in {result, [result EXCEPT ![c] = "err"]}
        /\ UNCHANGED <<serverVars, lasts, thread, slept>>
    BY <1>8 DEF Request
  <2>3. /\ app' \in [Conn -> {"none", "calling", "idle", "joining", "out"}]
        /\ result' \in [Conn -> {"none", "ok", "err"}]
    BY <2>2 DEF TypeOK
  <2>4. call' \in [Conn -> {"none", "config", "data", "large"}]
    BY <2>2 DEF TypeOK
  <2> QED
    BY <2>1, <2>2, <2>3, <2>4 DEF TypeOK, Frame
<1> QED
  BY <1>1, <1>2, <1>3, <1>4, <1>5, <1>6, <1>7, <1>8 DEF StepOf

LEMMA ServiceTypes ==
  ASSUME TypeOK, Start \/ Shutdown \/ MonitorWakes \/ Tick \/ UNCHANGED vars \/ \E c \in Conn : Accept(c)
  PROVE  TypeOK'
<1>1. CASE Start \/ Shutdown \/ UNCHANGED vars
  BY <1>1, Times DEF TypeOK, Start, Shutdown, vars
<1>2. CASE MonitorWakes
  <2>1. (UNCHANGED <<reg, age, lossVars, link, inbox>>) \/ \E S \in SUBSET reg : Remove(S, inbox)
    BY <1>2 DEF MonitorWakes, StaleSets
  <2>2. /\ service' \in {service, "down"} /\ mslept' = 0
        /\ UNCHANGED <<backlog, waited, clientVars>>
    BY <1>2 DEF MonitorWakes
  <2>3. ASSUME NEW S \in SUBSET reg, Remove(S, inbox)
        PROVE  /\ reg' \subseteq Conn \ backlog /\ age' \in [Conn -> 0 .. AgeCap]
               /\ lost' \in [Conn -> SUBSET Vital] /\ missed' \in [Conn -> 0 .. 2]
               /\ link' \in [Conn -> {"none", "up", "closed", "reset", "left"}]
               /\ inbox' \in [Conn -> Seq(Frame)]
    BY <2>3, RemoveTypes DEF TypeOK
  <2>4. mslept' \in 0 .. MonitorInterval + Lag
    BY <2>2, Times
  <2> QED
    BY <2>1, <2>2, <2>3, <2>4 DEF TypeOK, Frame
<1>3. ASSUME NEW c \in Conn, Accept(c) PROVE TypeOK'
  BY <1>3, Times DEF TypeOK, Accept
<1>4. CASE Tick
  <2>1. mslept' \in 0 .. MonitorInterval + Lag
    BY <1>4, Times DEF Tick, Urgent, TypeOK
  <2>2. age' \in [Conn -> 0 .. AgeCap]
    <3>1. \A c \in Conn : Older(age[c], AgeCap) \in 0 .. AgeCap
      BY OlderBound, Times DEF TypeOK
    <3> QED
      BY <1>4, <3>1, Times DEF Tick
  <2>3. waited' \in [Conn -> 0 .. Lag]
    <3>1. \A c \in Conn : Older(waited[c], Lag) \in 0 .. Lag
      BY OlderBound, Times DEF TypeOK
    <3> QED
      BY <1>4, <3>1, Times DEF Tick
  <2>4. lasts' \in [Conn -> 0 .. JoinCap]
    <3>1. \A c \in Conn : Older(lasts[c], JoinCap) \in 0 .. JoinCap
      BY OlderBound, Times DEF TypeOK
    <3> QED
      BY <1>4, <3>1, Times DEF Tick
  <2>5. slept' \in [Conn -> 0 .. Interval + Lag]
    <3>1. \A c \in Conn : thread[c] = "asleep" => slept[c] + 1 \in 0 .. Interval + Lag
      BY <1>4, Times DEF Tick, Urgent, TypeOK
    <3> QED
      BY <1>4, <3>1, Times DEF Tick
  <2>6. UNCHANGED <<service, backlog, reg, lossVars, inbox, link, app, call, result, thread>>
    BY <1>4 DEF Tick
  <2> QED
    BY <2>1, <2>2, <2>3, <2>4, <2>5, <2>6 DEF TypeOK
<1> QED
  BY <1>1, <1>2, <1>3, <1>4

LEMMA TypesStep == ASSUME TInv, [Step]_vars PROVE TypeOK'
<1>1. CASE \E c \in Conn : StepOf(c)
  <2>1. PICK c \in Conn : StepOf(c)
    BY <1>1
  <2> QED
    BY <2>1, ServerReadTypes, ClientTypes, ServiceTypes DEF TInv
<1> QED
  BY <1>1, Actors, ServiceTypes DEF TInv

-----------------------------------------------------------------------------
(***************************************************************************)
(* Life and Clocks are preserved.                                          *)
(***************************************************************************)

\* Removal from the map: the connection is dead for a client that is still there.
LEMMA RemoveLife ==
  ASSUME TInv, NEW c \in Conn, NEW S \in SUBSET reg, NEW u, Remove(S, u),
         UNCHANGED <<backlog, app, call, thread>>, service' = service
  PROVE  Life(c)'
<1>0. TypeOK
  BY DEF TInv
<1>1. Life(c) /\ reg \cap backlog = {} /\ link \in [Conn -> {"none", "up", "closed", "reset", "left"}]
  BY DEF TInv, TypeOK
<1>2. /\ c \in reg' <=> c \in reg /\ c \notin S
      /\ link'[c] = link[c] \/ (c \in S /\ link[c] = "up" /\ link'[c] \in {"closed", "reset"})
      /\ c \in S /\ link[c] = "up" => link'[c] # "up"
  BY <1>0, RemoveOne DEF Dropped
<1> QED
  BY <1>1, <1>2 DEF Life

LEMMA LifeStep == ASSUME TInv, [Step]_vars, NEW c \in Conn PROVE Life(c)'
<1>0. TypeOK /\ Life(c) /\ Clocks(c)
  BY DEF TInv
<1>1. CASE Start \/ Shutdown \/ Tick \/ UNCHANGED vars
  <2>1. CASE Start
    <3>1. app[c] = "none" /\ UNCHANGED <<reg, backlog, link, app, call, thread>>
      BY <1>0, <2>1 DEF Start, Clocks
    <3> QED
      BY <1>0, <3>1 DEF Life
  <2>2. CASE Shutdown \/ Tick \/ UNCHANGED vars
    BY <1>0, <2>2 DEF Life, Shutdown, Tick, vars
  <2> QED
    BY <1>1, <2>1, <2>2
<1>2. CASE MonitorWakes
  <2>1. UNCHANGED <<backlog, app, call, thread>>
    BY <1>2 DEF MonitorWakes
  <2>2. \/ UNCHANGED <<reg, link>> /\ service' = "down"
        \/ service' = service /\ \E S \in SUBSET reg : Remove(S, inbox)
    BY <1>2 DEF MonitorWakes, StaleSets
  <2> QED
    BY <1>0, <2>1, <2>2, RemoveLife DEF Life
<1>3. ASSUME NEW d \in Conn, StepOf(d), d # c PROVE Life(c)'
  BY <1>0, <1>3, Apart DEF Same, Life
<1>4. CASE StepOf(c)
  <2>1. CASE Accept(c)
    BY <1>0, <2>1 DEF Accept, Life, TypeOK
  <2>2. CASE ServerRead(c)
    <3>1. CASE UNCHANGED <<reg, link, clientVars>>
      BY <1>0, <2>2, <3>1 DEF ServerRead, Life
    <3>2. CASE UNCHANGED <<reg, link>> /\ Returns(c) /\ call[c] # "none"
      <4>1. c \in reg /\ backlog' = backlog /\ service' = service
        BY <2>2 DEF ServerRead
      <4>2. /\ app'[c] = "idle" /\ call'[c] = "none"
            /\ thread'[c] = IF call[c] = "config" THEN "asleep" ELSE thread[c]
        BY <3>2 DEF Returns, TInv, TypeOK
      <4> QED
        BY <1>0, <3>2, <4>1, <4>2 DEF Life
    <3>3. CASE (\E u : Remove({c}, u)) /\ UNCHANGED clientVars
      <4>1. UNCHANGED <<service, backlog, app, call, thread>> /\ {c} \in SUBSET reg
        BY <2>2, <3>3 DEF ServerRead
      <4> QED
        BY <3>3, <4>1, RemoveLife
    <3>4. ASSUME \E u : Remove({c}, u) PROVE UNCHANGED clientVars \/ ~(\E u : Remove({c}, u))
      <4>1. reg' # reg
        BY <1>0, <2>2, <3>4, RemoveOne DEF ServerRead
      <4> QED
        BY <2>2, <4>1 DEF ServerRead
    <3>5. Head(inbox[c]) \in {"keepalive", "config", "data"} => Head(inbox[c]) # "none"
      OBVIOUS
    <3> QED
      BY <1>0, <2>2, <3>1, <3>2, <3>3, <3>4, <3>5, Reads
  <2>3. CASE CallFails(c)
    BY <1>0, <2>3 DEF CallFails, Life, TypeOK
  <2>4. CASE Joined(c)
    BY <1>0, <2>4 DEF Joined, Life, TypeOK
  <2>5. CASE KeepaliveWakes(c)
    <3>1. /\ UNCHANGED <<service, reg, backlog, app, call>> /\ thread[c] = "asleep"
          /\ \/ link'[c] = link[c] /\ thread'[c] = thread[c]
             \/ link[c] \in {"closed", "reset"} /\ link'[c] = "reset"
                /\ thread'[c] \in {"asleep", "ended"}
             \/ link'[c] = link[c] /\ thread'[c] = "ended" /\ service # "up"
      BY <1>0, <2>5 DEF KeepaliveWakes, Written, Lost, NotWritten, KeepaliveEnds, TypeOK
    <3> QED
      BY <1>0, <3>1 DEF Life
  <2>6. CASE New(c)
    BY <1>0, <2>6 DEF New, Life, TypeOK
  <2>7. CASE Disconnect(c)
    <3>1. /\ UNCHANGED <<service, reg, backlog, call, thread>> /\ app[c] = "idle"
          /\ \/ link'[c] = link[c] /\ app'[c] = "joining"
             \/ link[c] \in {"closed", "reset"} /\ link'[c] = "reset"
                /\ app'[c] \in {"joining", "out"}
             \/ link'[c] = link[c] /\ app'[c] = "out" /\ service # "up"
      BY <1>0, <2>7 DEF Disconnect, Written, Lost, NotWritten, TypeOK
    <3> QED
      BY <1>0, <3>1 DEF Life
  <2>8. CASE Vanish(c)
    BY <1>0, <2>8 DEF Vanish, Life, TypeOK
  <2>9. CASE Probe(c)
    BY <1>0, <2>9 DEF Probe, Life, TypeOK
  <2>10. ASSUME NEW f \in {"data", "large"}, Request(c, f) PROVE Life(c)'
    <3>1. /\ UNCHANGED <<service, reg, backlog, thread>> /\ app[c] = "idle"
          /\ \/ link'[c] = link[c]
             \/ link[c] \in {"closed", "reset"} /\ link'[c] = "reset"
          /\ \/ app'[c] = "calling" /\ call'[c] = f
             \/ UNCHANGED <<app, call>>
      BY <1>0, <2>10 DEF Request, Written, Lost, NotWritten, TypeOK
    <3> QED
      BY <1>0, <3>1 DEF Life
  <2> QED
    BY <1>4, <2>1, <2>2, <2>3, <2>4, <2>5, <2>6, <2>7, <2>8, <2>9, <2>10 DEF StepOf
<1> QED
  BY <1>1, <1>2, <1>3, <1>4, Actors

LEMMA ClocksStep == ASSUME TInv, [Step]_vars, NEW c \in Conn PROVE Clocks(c)'
<1>0. /\ TypeOK /\ Life(c) /\ Clocks(c)
      /\ age[c] \in Nat /\ mslept \in Nat /\ lasts[c] \in Nat
  <2>1. TypeOK /\ Life(c) /\ Clocks(c)
    BY DEF TInv
  <2>2. age[c] \in 0 .. AgeCap /\ mslept \in 0 .. MonitorInterval + Lag /\ lasts[c] \in 0 .. JoinCap
    BY <2>1 DEF TypeOK
  <2> QED
    BY <2>1, <2>2, Times
<1>1. CASE Start \/ Shutdown \/ UNCHANGED vars
  <2>1. CASE Start
    <3>1. app[c] = "none" /\ UNCHANGED <<reg, age, lossVars, app, lasts>> /\ service' = "up"
      BY <1>0, <2>1 DEF Start, Clocks
    <3>2. c \notin reg
      BY <1>0, <3>1 DEF Life
    <3> QED
      BY <1>0, <3>1, <3>2 DEF Clocks
  <2>2. CASE Shutdown
    BY <1>0, <2>2 DEF Shutdown, Clocks
  <2>3. CASE UNCHANGED vars
    BY <1>0, <2>3 DEF vars, Clocks
  <2> QED
    BY <1>1, <2>1, <2>2, <2>3
<1>2. CASE MonitorWakes
  <2>1. UNCHANGED <<app, lasts>> /\ service # "off" /\ service' # "off" /\ mslept' = 0
    BY <1>2 DEF MonitorWakes
  <2>2. CASE service' = "up"
    <3>1. PICK S \in StaleSets : Remove(S, inbox)
      BY <1>2, <2>2 DEF MonitorWakes
    <3>2. /\ S \subseteq reg
          /\ c \in reg /\ c \notin S => age[c] <= Timeout
      BY <1>0, <3>1, Times DEF StaleSets
    <3>3. /\ c \in reg' <=> c \in reg /\ c \notin S
          /\ age'[c] = IF c \in S THEN 0 ELSE age[c]
          /\ missed'[c] = IF c \in S THEN 0 ELSE missed[c]
      <4>1. S \in SUBSET reg
        BY <3>2
      <4> QED
        BY <1>0, <3>1, <4>1, RemoveOne
    <3> QED
      BY <1>0, <2>1, <3>2, <3>3, Times DEF Clocks
  <2>3. CASE service' # "up"
    <3>1. UNCHANGED <<reg, age, lossVars>>
      BY <1>2, <2>3 DEF MonitorWakes
    <3> QED
      BY <1>0, <2>1, <2>3, <3>1 DEF Clocks
  <2> QED
    BY <2>2, <2>3
<1>3. CASE Tick
  <2>1. UNCHANGED <<service, reg, lossVars, app>>
    BY <1>3 DEF Tick
  <2>2. c \in reg => age'[c] <= age[c] + 1 /\ age'[c] \in Nat
    BY SMTT(30), <1>0, <1>3, Times, OlderBound DEF Tick, TypeOK
  <2>3. c \notin reg => age'[c] = 0
    BY <1>3 DEF Tick
  <2>4. service = "up" => mslept' = mslept + 1
    BY <1>3 DEF Tick
  <2>5. app[c] \notin {"calling", "joining"} => lasts'[c] = 0
    BY <1>3 DEF Tick
  <2>6. app[c] = "calling" => lasts'[c] <= ReadTimeout
    <3>1. app[c] = "calling" => lasts[c] < ReadTimeout
      BY <1>0, <1>3, Times DEF Tick, Urgent
    <3>2. lasts'[c] \in {Older(lasts[c], JoinCap), 0}
      BY <1>3 DEF Tick
    <3> QED
      BY <1>0, <3>1, <3>2, Times DEF Older
  <2> QED
    BY <1>0, <2>1, <2>2, <2>3, <2>4, <2>5, <2>6, Times DEF Clocks
<1>4. ASSUME NEW d \in Conn, StepOf(d), d # c PROVE Clocks(c)'
  BY <1>0, <1>4, Apart DEF Same, Clocks
<1>5. CASE StepOf(c)
  <2>1. CASE Accept(c)
    BY <1>0, <2>1, Times DEF Accept, Life, Clocks, TypeOK
  <2>2. CASE ServerRead(c)
    <3>1. service = "up" /\ service' = "up" /\ mslept' = mslept
      BY <2>2 DEF ServerRead
    <3>2. c \in reg
      BY <2>2 DEF ServerRead
    <3>3. \/ UNCHANGED <<app, lasts>>
          \/ app'[c] = "idle" /\ lasts'[c] = 0
      BY <1>0, <2>2 DEF ServerRead, Returns, TypeOK
    <3>4. CASE \E u : Remove({c}, u)
      <4>1. c \notin reg' /\ age'[c] = 0 /\ missed'[c] = 0
        BY <1>0, <3>2, <3>4, RemoveOne
      <4> QED
        BY <1>0, <3>1, <3>3, <4>1, Times DEF Clocks
    <3>5. CASE ~\E u : Remove({c}, u)
      <4>1. reg' = reg /\ (age'[c] = 0 \/ age'[c] = age[c])
        BY <1>0, <2>2, <3>5, Reads DEF Heard, Lose, Unanswered, TypeOK
      <4> QED
        BY <1>0, <3>1, <3>2, <3>3, <4>1, Times DEF Clocks
    <3> QED
      BY <3>4, <3>5
  <2>3. CASE CallFails(c) \/ Joined(c) \/ Vanish(c)
    BY <1>0, <2>3 DEF CallFails, Joined, Vanish, Clocks, TypeOK
  <2>4. CASE KeepaliveWakes(c)
    BY <1>0, <2>4 DEF KeepaliveWakes, Clocks
  <2>5. CASE New(c) \/ Probe(c)
    BY <1>0, <2>5, Times DEF New, Probe, Clocks, TypeOK
  <2>6. CASE Disconnect(c)
    <3>1. UNCHANGED <<serverVars, lasts>> /\ app[c] = "idle" /\ app'[c] \in {"joining", "out"}
      BY <1>0, <2>6 DEF Disconnect, TypeOK
    <3> QED
      BY <1>0, <3>1, Times DEF Clocks
  <2>7. ASSUME NEW f \in {"data", "large"}, Request(c, f) PROVE Clocks(c)'
    <3>1. UNCHANGED <<serverVars, lasts>> /\ app[c] = "idle" /\ app'[c] \in {"calling", "idle"}
      BY <1>0, <2>7 DEF Request, TypeOK
    <3> QED
      BY <1>0, <3>1, Times DEF Clocks
  <2> QED
    BY <1>5, <2>1, <2>2, <2>3, <2>4, <2>5, <2>6, <2>7 DEF StepOf
<1> QED
  BY <1>1, <1>2, <1>3, <1>4, <1>5, Actors

\* TInv is inductive, for KeepaliveTiming and for the programs.
LEMMA TInvStep == TInv /\ [Step]_vars => TInv'
BY TypesStep, LifeStep, ClocksStep DEF TInv

LEMMA NextIsStep == [Next]_vars => [Step]_vars
BY DEF Step

\* The invariant: what connections go through on both sides, and what their clocks show
\* as long as nobody is later than the lag.
THEOREM TimedInvariance == Spec => []TInv
BY InitTInv, TInvStep, NextIsStep, PTL DEF Spec

\* The clocks and the states of clients and server stay within their bounds: no thread
\* is ever overdue by more than the lag.
THEOREM TimedTypeCorrect == Spec => []TypeOK
BY TimedInvariance, PTL DEF TInv

\* A client that is gone stays registered for the timeout and one turn of the monitor
\* at most, whatever the intervals are.
THEOREM EvictionInTime == Spec => []EvictedInTime
<1>1. TInv => EvictedInTime
  BY Times DEF TInv, TypeOK, Clocks, EvictedInTime
<1> QED
  BY TimedInvariance, <1>1, PTL

\* While the server is up a keepalive thread ends only after it has removed the client:
\* disconnect, which joins the thread, returns when the client is no longer registered,
\* whatever frames the server has lost.
THEOREM EndingAfterRemoval == Spec => []EndsAfterRemoval
<1>1. TInv => EndsAfterRemoval
  BY DEF TInv, Life, EndsAfterRemoval
<1> QED
  BY TimedInvariance, <1>1, PTL
-----------------------------------------------------------------------------
(***************************************************************************)
(* KeptAlive: how long the server hears nothing of a client that is there. *)
(***************************************************************************)

\* How long the server may already have heard nothing when a read lost something.
Pause(c) == IF missed[c] = 0 THEN 0 ELSE Interval + 2 * Lag

\* Since its last_seen the client has slept, and what it wrote then has waited; a handshake
\* is given up.
Silent(c) ==
  service = "up" /\ link[c] = "up" /\ missed[c] < 2 =>
    IF call[c] = "config"
    THEN age[c] <= lasts[c]
    ELSE /\ age[c] <= Pause(c) + Interval + Lag + waited[c]
         /\ inbox[c] = <<>> => age[c] <= Pause(c) + slept[c]

\* A request is given up after a longer time than a keepalive is due, 45 s and 30 s, before
\* the clock of the join stops, and before the server evicts.
LEMMA ReadTimeoutBounds ==
  /\ Interval <= ReadTimeout /\ ReadTimeout <= JoinCap
  /\ 2 * ReadTimeout <= Timeout
<1>1. \A s \in Nat : /\ Seconds(s) \in Nat /\ Seconds(s) * Unit <= s
                     /\ s < Seconds(s) * Unit + Unit
  <2>1. ASSUME NEW s \in Nat PROVE Seconds(s) \in Nat /\ Seconds(s) * Unit <= s
    BY TimingAssumption DEF Seconds
  <2>2. ASSUME NEW s \in Nat PROVE s < Seconds(s) * Unit + Unit
    BY TimingAssumption DEF Seconds
  <2> QED
    BY <2>1, <2>2
<1>2. PICK a \in Nat, b \in Nat, t \in Nat : a = ReadTimeout /\ b = Interval /\ t = Timeout
  BY Times
<1>3. /\ a * Unit <= 45 /\ 45 < a * Unit + Unit
      /\ b * Unit <= 30 /\ 30 < b * Unit + Unit
      /\ 90 < t * Unit + Unit
  BY <1>1, <1>2 DEF ReadTimeout, Interval, Timeout
<1>4. ASSUME NEW x \in Nat, NEW y \in Nat, x + 1 <= y PROVE x * Unit + Unit <= y * Unit
  BY <1>4, TimingAssumption
<1>5. /\ Unit \in Nat /\ a * Unit \in Nat /\ b * Unit \in Nat /\ t * Unit \in Nat
      /\ (2 * a) * Unit = 2 * (a * Unit)
      /\ (2 * b + 1) * Unit = 2 * (b * Unit) + Unit
  BY TimingAssumption
<1>6. b <= a
  <2> SUFFICES ASSUME a + 1 <= b PROVE FALSE
    OBVIOUS
  <2> QED
    BY <1>3, <1>4, <1>5
<1>7. a <= 2 * b + 1
  <2> SUFFICES ASSUME (2 * b + 1) + 1 <= a PROVE FALSE
    OBVIOUS
  <2>1. (2 * b + 1) * Unit + Unit <= a * Unit
    BY <1>4
  <2> QED
    BY <1>3, <1>5, <2>1
<1>8. 2 * a <= t
  <2> SUFFICES ASSUME t + 1 <= 2 * a PROVE FALSE
    OBVIOUS
  <2>1. t * Unit + Unit <= (2 * a) * Unit
    BY <1>4
  <2> QED
    BY <1>3, <1>5, <2>1
<1> QED
  BY <1>2, <1>6, <1>7, <1>8, Times

\* The clocks of a connection are numbers, and the lag bounds the wait for the server.
LEMMA ClockTypes ==
  ASSUME TypeOK, NEW c \in Conn
  PROVE  /\ age[c] \in Nat /\ lasts[c] \in Nat
         /\ waited[c] \in Nat /\ waited[c] <= Lag
         /\ slept[c] \in Nat /\ slept[c] <= Interval + Lag
         /\ inbox[c] \in Seq(Frame)
         /\ missed[c] \in 0 .. 2
<1>1. /\ age[c] \in 0 .. AgeCap /\ lasts[c] \in 0 .. JoinCap
      /\ waited[c] \in 0 .. Lag /\ slept[c] \in 0 .. Interval + Lag
      /\ inbox[c] \in Seq(Frame) /\ missed[c] \in 0 .. 2
  BY DEF TypeOK
<1> QED
  BY <1>1, Times

\* While the clock goes on, nothing waits for the server too long.
LEMMA TickClocks ==
  ASSUME TInv, Tick, NEW c \in Conn
  PROVE  /\ age'[c] <= age[c] + 1 /\ age'[c] \in Nat
         /\ lasts'[c] <= lasts[c] + 1 /\ lasts'[c] \in Nat
         /\ app[c] = "calling" => lasts'[c] = lasts[c] + 1
         /\ service = "up" /\ Awaited(c) => waited'[c] = waited[c] + 1
         /\ ~Awaited(c) => waited'[c] = 0
         /\ thread[c] = "asleep" => slept'[c] = slept[c] + 1 /\ slept'[c] <= Interval + Lag
<1>1. /\ age[c] \in 0 .. AgeCap /\ lasts[c] \in 0 .. JoinCap
      /\ waited[c] \in 0 .. Lag /\ slept[c] \in 0 .. Interval + Lag
  BY DEF TInv, TypeOK
<1>2. age'[c] <= age[c] + 1 /\ age'[c] \in Nat
  <2>1. Older(age[c], AgeCap) <= age[c] + 1 /\ Older(age[c], AgeCap) \in Nat
    BY <1>1, Times DEF Older
  <2>2. age'[c] \in {Older(age[c], AgeCap), 0}
    BY DEF Tick
  <2> QED
    BY <1>1, <2>1, <2>2
<1>3. lasts'[c] <= lasts[c] + 1 /\ lasts'[c] \in Nat
  <2>1. Older(lasts[c], JoinCap) <= lasts[c] + 1 /\ Older(lasts[c], JoinCap) \in Nat
    BY <1>1, Times DEF Older
  <2>2. lasts'[c] \in {Older(lasts[c], JoinCap), 0}
    BY DEF Tick
  <2> QED
    BY <1>1, <2>1, <2>2
<1>7. app[c] = "calling" => lasts'[c] = lasts[c] + 1
  <2>1. app[c] = "calling" => lasts[c] < ReadTimeout
    BY <1>1, Times DEF Tick, Urgent
  <2>2. app[c] = "calling" => lasts'[c] = Older(lasts[c], JoinCap)
    BY DEF Tick
  <2> QED
    BY <1>1, <2>1, <2>2, Times, ReadTimeoutBounds DEF Older
<1>4. service = "up" /\ Awaited(c) => waited'[c] = waited[c] + 1
  BY <1>1, Times DEF Tick, Urgent, Older
<1>5. ~Awaited(c) => waited'[c] = 0
  BY DEF Tick
<1>6. thread[c] = "asleep" => slept'[c] = slept[c] + 1 /\ slept'[c] <= Interval + Lag
  BY <1>1, Times DEF Tick, Urgent
<1> QED
  BY <1>2, <1>3, <1>4, <1>5, <1>6, <1>7

\* A client that finds its connection in order after a step of its own has written,
\* or its call has come to an end.
LEMMA WritesUp ==
  ASSUME TypeOK, NEW c \in Conn, NEW f \in Frame, service = "up",
         Written(c, f) \/ Lost(c) \/ NotWritten(c), link'[c] = "up"
  PROVE  Written(c, f) /\ inbox'[c] = Append(inbox[c], f) /\ inbox'[c] # <<>>
<1>1. link[c] = "up" /\ Written(c, f)
  BY DEF TypeOK, Written, Lost, NotWritten
<1>2. inbox'[c] = Append(inbox[c], f) /\ inbox[c] \in Seq(Frame)
  BY <1>1 DEF TypeOK, Written, Frame
<1> QED
  BY <1>1, <1>2, FrameSeqs

\* What the server read of a connection that is in order after it: a whole frame, or some
\* frames in vain, or one that it could not answer.
LEMMA ReadsUp ==
  ASSUME TypeOK, NEW c \in Conn, ServerRead(c), link'[c] = "up"
  PROVE  /\ link[c] = "up" /\ inbox[c] # <<>> /\ waited'[c] = 0
         /\ c \in reg /\ reg' = reg /\ backlog' = backlog /\ service = "up" /\ service' = "up"
         /\ \/ /\ Head(inbox[c]) \in {"keepalive", "config", "data"}
               /\ inbox'[c] = Tail(inbox[c]) /\ age'[c] = 0 /\ missed'[c] = 0
               /\ lost'[c] = lost[c]
               /\ IF Head(inbox[c]) = call[c] THEN Returns(c) ELSE UNCHANGED clientVars
            \/ /\ \E k \in 1 .. Len(inbox[c]) :
                    /\ inbox'[c] = SubSeq(inbox[c], k + 1, Len(inbox[c]))
                    /\ lost'[c] = lost[c] \cup ({inbox[c][i] : i \in 1 .. k} \cap Vital)
               /\ missed'[c] = IF missed[c] < 2 THEN missed[c] + 1 ELSE 2
               /\ age'[c] = 0 \/ age'[c] = age[c]
               /\ UNCHANGED clientVars
            \/ /\ Head(inbox[c]) \in {"config", "data", "disconnect"}
               /\ inbox'[c] = Tail(inbox[c]) /\ age'[c] = 0 /\ missed'[c] = 0
               /\ lost'[c] = lost[c] \cup ({Head(inbox[c])} \cap Vital)
               /\ UNCHANGED clientVars
<1>1. c \in reg /\ inbox[c] # <<>> /\ waited'[c] = 0 /\ backlog' = backlog
        /\ service = "up" /\ service' = "up"
  BY DEF ServerRead, TypeOK
<1>2. ASSUME NEW u, Remove({c}, u) PROVE FALSE
  <2>1. link'[c] = link[c] \/ link'[c] \in Dropped(c, u[c])
    BY <1>1, <1>2, RemoveOne
  <2>2. link[c] = "up" => link'[c] \in Dropped(c, u[c])
    BY <1>1, <1>2, RemoveOne
  <2> QED
    BY <2>1, <2>2 DEF Dropped
<1>3. /\ age \in [Conn -> 0 .. AgeCap] /\ inbox \in [Conn -> Seq(Frame)]
      /\ lost \in [Conn -> SUBSET Vital] /\ missed \in [Conn -> 0 .. 2]
  BY DEF TypeOK
<1>4. ASSUME NEW k \in 1 .. Len(inbox[c]), Lose(c, k)
      PROVE  /\ inbox'[c] = SubSeq(inbox[c], k + 1, Len(inbox[c]))
             /\ lost'[c] = lost[c] \cup ({inbox[c][i] : i \in 1 .. k} \cap Vital)
             /\ missed'[c] = IF missed[c] < 2 THEN missed[c] + 1 ELSE 2
             /\ age'[c] = 0 \/ age'[c] = age[c]
  BY <1>3, <1>4 DEF Lose
<1>5. Heard(c) => age'[c] = 0 /\ missed'[c] = 0
  BY <1>3 DEF Heard
<1>6. ASSUME NEW f, Unanswered(c, f)
      PROVE  /\ Heard(c) /\ lost'[c] = lost[c] \cup ({f} \cap Vital)
             /\ f \in {"config", "data", "disconnect"}
  BY <1>3, <1>6 DEF Unanswered
<1>7. inbox' = [inbox EXCEPT ![c] = Tail(@)] => inbox'[c] = Tail(inbox[c])
  BY <1>3
<1>8. link[c] = "up" /\ reg' = reg
  BY <1>2, Reads
<1> QED
  BY <1>1, <1>2, <1>4, <1>5, <1>6, <1>7, <1>8, Reads

LEMMA SilentStep ==
  ASSUME TInv, [Step]_vars, NEW c \in Conn, Silent(c)
  PROVE  Silent(c)'
<1> SUFFICES ASSUME service' = "up", link'[c] = "up", missed'[c] < 2
             PROVE  IF call'[c] = "config"
                    THEN age'[c] <= lasts'[c]
                    ELSE /\ age'[c] <= Pause(c)' + Interval + Lag + waited'[c]
                         /\ inbox'[c] = <<>> => age'[c] <= Pause(c)' + slept'[c]
  BY DEF Silent
<1>0. TypeOK /\ Life(c) /\ Clocks(c)
  BY DEF TInv
<1>00. /\ age[c] \in Nat /\ waited[c] \in Nat /\ waited[c] <= Lag
       /\ slept[c] \in Nat /\ slept[c] <= Interval + Lag
       /\ Interval \in Nat /\ Lag \in Nat /\ lasts[c] \in Nat
       /\ missed[c] \in 0 .. 2
  BY <1>0, ClockTypes, Times
<1>01. /\ Pause(c) \in Nat /\ Pause(c) \in {0, Interval + 2 * Lag}
       /\ missed'[c] = missed[c] => Pause(c)' = Pause(c)
  BY <1>00 DEF Pause
<1>1. CASE Start \/ Shutdown \/ UNCHANGED vars
  <2>1. CASE Start
    <3>1. app[c] = "none" /\ link' = link
      BY <1>0, <2>1 DEF Start, Clocks
    <3> QED
      BY <1>0, <3>1 DEF Life
  <2>2. CASE Shutdown
    BY <2>2 DEF Shutdown
  <2>3. CASE UNCHANGED vars
    <3>1. UNCHANGED <<service, link, missed, call, age, lasts, waited, slept, inbox>>
      BY <2>3 DEF vars
    <3> QED
      BY <1>01, <3>1 DEF Silent
  <2> QED
    BY <1>1, <2>1, <2>2, <2>3
<1>2. CASE MonitorWakes
  <2>1. service = "up" /\ UNCHANGED <<waited, clientVars>>
    BY <1>2 DEF MonitorWakes
  <2>2. PICK S \in SUBSET reg : Remove(S, inbox)
    BY <1>2, <2>1 DEF MonitorWakes, StaleSets
  <2>3. link[c] = "up" /\ c \notin S
    BY <1>0, <2>2, RemoveOne DEF Dropped
  <2>4. inbox'[c] = inbox[c] /\ age'[c] = age[c] /\ missed'[c] = missed[c]
    BY <1>0, <2>2, <2>3, RemoveOne
  <2> QED
    BY <1>01, <2>1, <2>3, <2>4 DEF Silent
<1>3. CASE Tick
  <2>1. UNCHANGED <<service, reg, backlog, lossVars, inbox, link, app, call, thread>>
    BY <1>3 DEF Tick
  <2>0. Pause(c)' = Pause(c)
    BY <1>01, <2>1
  <2>2. CASE call[c] = "config"
    <3>1. age[c] <= lasts[c] /\ app[c] = "calling"
      BY <1>0, <2>1, <2>2 DEF Silent, Life
    <3> QED
      BY <1>00, <1>3, <2>1, <2>2, <3>1, TickClocks
  <2>3. CASE call[c] # "config"
    <3>1. c \in reg /\ thread[c] = "asleep"
      BY <1>0, <2>1, <2>3 DEF Life, TypeOK
    <3>2. CASE inbox[c] = <<>>
      <4>1. age[c] <= Pause(c) + slept[c] /\ ~Awaited(c)
        BY <1>0, <2>1, <2>3, <3>1, <3>2 DEF Silent, Awaited, TypeOK
      <4>2. /\ age'[c] <= age[c] + 1 /\ age'[c] \in Nat /\ waited'[c] = 0
            /\ slept'[c] = slept[c] + 1 /\ slept'[c] <= Interval + Lag
        BY <1>3, <3>1, <4>1, TickClocks
      <4>3. /\ age'[c] <= Pause(c) + slept'[c]
            /\ age'[c] <= Pause(c) + Interval + Lag + waited'[c]
        BY <1>00, <1>01, <4>1, <4>2
      <4> QED
        BY <2>0, <2>1, <2>3, <4>3
    <3>3. CASE inbox[c] # <<>>
      <4>1. Awaited(c) /\ age[c] <= Pause(c) + Interval + Lag + waited[c]
        BY <2>1, <2>3, <3>1, <3>3 DEF Silent, Awaited
      <4>2. age'[c] <= age[c] + 1 /\ age'[c] \in Nat /\ waited'[c] = waited[c] + 1
        BY <1>3, <2>1, <4>1, TickClocks
      <4>3. age'[c] <= Pause(c) + Interval + Lag + waited'[c]
        BY <1>00, <1>01, <4>1, <4>2
      <4> QED
        BY <2>0, <2>1, <2>3, <3>3, <4>3
    <3> QED
      BY <3>2, <3>3
  <2> QED
    BY <2>2, <2>3
<1>4. ASSUME NEW d \in Conn, StepOf(d), d # c
      PROVE  IF call'[c] = "config"
             THEN age'[c] <= lasts'[c]
             ELSE /\ age'[c] <= Pause(c)' + Interval + Lag + waited'[c]
                  /\ inbox'[c] = <<>> => age'[c] <= Pause(c)' + slept'[c]
  <2>1. Same(c)
    BY <1>0, <1>4, Apart
  <2> QED
    BY <1>01, <2>1 DEF Same, Silent
<1>5. CASE StepOf(c)
  <2>1. CASE Accept(c)
    <3>1. /\ service = "up" /\ link' = link /\ call' = call /\ age' = age /\ lasts' = lasts
          /\ missed' = missed /\ c \in backlog
      BY <2>1 DEF Accept
    <3>2. call[c] = "config"
      BY <1>0, <3>1 DEF Life, TypeOK
    <3> QED
      BY <3>1, <3>2 DEF Silent
  <2>2. CASE ServerRead(c)
    <3>0. /\ link[c] = "up" /\ inbox[c] # <<>> /\ waited'[c] = 0 /\ service = "up" /\ c \in reg
          /\ UNCHANGED clientVars \/ Returns(c)
      BY <1>0, <2>2, ReadsUp
    <3>1. /\ call'[c] = "config" => call[c] = "config" /\ lasts'[c] = lasts[c]
          /\ slept'[c] \in Nat /\ lasts'[c] \in Nat
      BY <1>0, <1>00, <3>0, Times DEF Returns, TypeOK
    <3>2. CASE age'[c] = 0 /\ missed'[c] \in {0, 1}
      <4>1. Pause(c)' \in Nat
        BY <1>00, <3>2 DEF Pause
      <4>2. 0 <= lasts'[c] /\ 0 <= Pause(c)' + slept'[c]
        BY <3>1, <4>1
      <4>3. 0 <= Pause(c)' + Interval + Lag + waited'[c]
        BY <1>00, <3>0, <4>1
      <4> QED
        BY <3>2, <4>2, <4>3
    <3>3. CASE missed[c] = 0 /\ missed'[c] = 1 /\ age'[c] = age[c] /\ UNCHANGED clientVars
      <4>1. CASE call[c] = "config"
        BY <3>0, <3>3, <4>1 DEF Silent
      <4>2. CASE call[c] # "config"
        <5>1. age[c] <= Interval + Lag + waited[c]
          BY <1>00, <3>0, <3>3, <4>2 DEF Silent, Pause
        <5>2. Pause(c)' = Interval + 2 * Lag /\ age'[c] <= Interval + 2 * Lag
          BY <1>00, <3>3, <5>1 DEF Pause
        <5>3. /\ age'[c] <= Pause(c)' + Interval + Lag + waited'[c]
              /\ age'[c] <= Pause(c)' + slept'[c]
          BY <1>00, <3>0, <3>1, <3>3, <5>2
        <5> QED
          BY <3>3, <4>2, <5>3
      <4> QED
        BY <4>1, <4>2
    <3>4. \/ age'[c] = 0 /\ missed'[c] \in {0, 1}
          \/ missed[c] = 0 /\ missed'[c] = 1 /\ age'[c] = age[c] /\ UNCHANGED clientVars
      <4>1. \/ age'[c] = 0 /\ missed'[c] = 0
            \/ /\ missed'[c] = IF missed[c] < 2 THEN missed[c] + 1 ELSE 2
               /\ age'[c] = 0 \/ age'[c] = age[c]
               /\ UNCHANGED clientVars
        BY <1>0, <2>2, ReadsUp
      <4>2. missed'[c] = (IF missed[c] < 2 THEN missed[c] + 1 ELSE 2)
              => missed[c] = 0 /\ missed'[c] = 1
        BY <1>00
      <4> QED
        BY <4>1, <4>2
    <3> QED
      BY <3>2, <3>3, <3>4
  <2>3. CASE CallFails(c)
    <3>1. /\ call[c] # "config" /\ call'[c] = "none" /\ link[c] = "up"
          /\ UNCHANGED <<serverVars, inbox, waited, slept>>
      BY <1>0, <2>3 DEF CallFails, TypeOK
    <3> QED
      BY <1>01, <3>1 DEF Silent
  <2>4. CASE Joined(c) \/ Vanish(c) \/ Probe(c)
    BY <1>0, <2>4 DEF Joined, Vanish, Probe, TypeOK
  <2>5. ASSUME NEW f \in Frame, UNCHANGED serverVars, call[c] # "config", call'[c] # "config",
               service = "up" => Written(c, f) \/ Lost(c) \/ NotWritten(c)
        PROVE  IF call'[c] = "config"
               THEN age'[c] <= lasts'[c]
               ELSE /\ age'[c] <= Pause(c)' + Interval + Lag + waited'[c]
                    /\ inbox'[c] = <<>> => age'[c] <= Pause(c)' + slept'[c]
    <3>1. Written(c, f) /\ inbox'[c] # <<>>
      BY <1>0, <2>5, WritesUp
    <3>2. link[c] = "up" /\ waited' = waited
      BY <3>1 DEF Written
    <3> QED
      BY <1>01, <2>5, <3>1, <3>2 DEF Silent
  <2>6. CASE KeepaliveWakes(c)
    <3>1. /\ UNCHANGED <<serverVars, app, call>> /\ thread[c] = "asleep"
          /\ Written(c, "keepalive") \/ Lost(c) \/ NotWritten(c)
      BY <2>6 DEF KeepaliveWakes, KeepaliveEnds
    <3>2. call[c] # "config" /\ "keepalive" \in Frame
      BY <1>0, <3>1 DEF Life, Frame
    <3> QED
      BY <2>5, <3>1, <3>2
  <2>7. CASE New(c)
    <3>1. age' = age /\ age[c] = 0 /\ lasts' = lasts /\ call'[c] = "config"
      BY <1>0, <2>7 DEF New, Life, Clocks, TypeOK
    <3> QED
      BY <1>00, <3>1
  <2>8. CASE Disconnect(c)
    <3>1. /\ UNCHANGED <<serverVars, call>> /\ app[c] = "idle"
          /\ Written(c, "disconnect") \/ Lost(c) \/ NotWritten(c)
      BY <2>8 DEF Disconnect
    <3>2. call[c] # "config" /\ "disconnect" \in Frame
      BY <1>0, <3>1 DEF Life, Frame
    <3> QED
      BY <2>5, <3>1, <3>2
  <2>9. ASSUME NEW f \in {"data", "large"}, Request(c, f)
        PROVE  IF call'[c] = "config"
               THEN age'[c] <= lasts'[c]
               ELSE /\ age'[c] <= Pause(c)' + Interval + Lag + waited'[c]
                    /\ inbox'[c] = <<>> => age'[c] <= Pause(c)' + slept'[c]
    <3>1. /\ UNCHANGED serverVars /\ app[c] = "idle"
          /\ Written(c, f) \/ Lost(c) \/ NotWritten(c)
          /\ call' = call \/ call' = [call EXCEPT ![c] = f]
      BY <2>9 DEF Request
    <3>2. call[c] = "none" /\ call'[c] \in {"none", f} /\ f \in Frame
      BY <1>0, <3>1 DEF Life, Frame, TypeOK
    <3> QED
      BY <2>5, <3>1, <3>2
  <2> QED
    BY <1>5, <2>1, <2>2, <2>3, <2>4, <2>6, <2>7, <2>8, <2>9 DEF StepOf
<1> QED
  BY <1>1, <1>2, <1>3, <1>4, <1>5, Actors

\* So the monitor finds no client stale that is there, if the lag allows for it.
LEMMA MonitorKeeps ==
  ASSUME 2 * (Interval + 2 * Lag) < Timeout, TInv, MonitorWakes,
         NEW c \in reg, Silent(c), link[c] = "up", missed[c] < 2
  PROVE  c \in reg'
<1>0. c \in Conn /\ TypeOK /\ Life(c) /\ Clocks(c)
  BY DEF TInv, TypeOK
<1>1. CASE service = "up"
  <2>1. PICK S \in StaleSets : Remove(S, inbox)
    BY <1>1 DEF MonitorWakes
  <2>2. /\ age[c] \in Nat /\ waited[c] \in Nat /\ waited[c] <= Lag /\ lasts[c] \in Nat
        /\ Interval \in Nat /\ Lag \in Nat /\ Timeout \in Nat /\ ReadTimeout \in Nat
        /\ 2 * ReadTimeout <= Timeout
    BY <1>0, ClockTypes, Times, ReadTimeoutBounds
  <2>3. CASE call[c] = "config"
    <3>1. age[c] <= lasts[c] /\ lasts[c] <= ReadTimeout
      BY <1>0, <1>1, <2>3 DEF Silent, Life, Clocks
    <3> QED
      <4>1. age[c] < Timeout
        BY <2>2, <3>1
      <4>2. c \notin S /\ S \in SUBSET reg
        BY <2>2, <4>1 DEF StaleSets
      <4> QED
        BY <1>0, <2>1, <4>2, RemoveOne
  <2>4. CASE call[c] # "config"
    <3>1. age[c] <= Pause(c) + Interval + Lag + waited[c]
      BY <1>1, <2>4 DEF Silent
    <3>2. age[c] < Timeout
      BY <2>2, <3>1 DEF Pause
    <3>3. c \notin S /\ S \in SUBSET reg
      BY <2>2, <3>2 DEF StaleSets
    <3> QED
      BY <1>0, <2>1, <3>3, RemoveOne
  <2> QED
    BY <2>3, <2>4
<1>2. CASE service # "up"
  BY <1>2 DEF MonitorWakes
<1> QED
  BY <1>1, <1>2

\* A client that is there is not evicted if, with the thread and the server as late as
\* can be, two pauses between keepalives are shorter than the timeout: one of them, with
\* what else the client wrote at the time, may be lost.
THEOREM ClientsKeptAlive ==
  ASSUME 2 * (Interval + 2 * Lag) < Timeout
  PROVE  Spec => KeptAlive
<1> DEFINE A == MonitorWakes =>
                  \A c \in reg : link[c] = "up" /\ app[c] # "out" /\ missed[c] < 2 => c \in reg'
<1> DEFINE SInv == \A c \in Conn : Silent(c)
<1>1. Init => SInv
  BY DEF Init, Silent
<1>2. TInv /\ SInv /\ [Next]_vars => SInv'
  <2> SUFFICES ASSUME TInv, SInv, [Next]_vars PROVE SInv'
    OBVIOUS
  <2>1. ASSUME NEW c \in Conn PROVE Silent(c)'
    BY NextIsStep, SilentStep
  <2> QED
    BY <2>1
<1>3. TInv /\ SInv => [A]_vars
  <2> SUFFICES ASSUME TInv, SInv, MonitorWakes, NEW c \in reg, link[c] = "up", missed[c] < 2
               PROVE  c \in reg'
    OBVIOUS
  <2>1. Silent(c)
    BY DEF TInv, TypeOK
  <2> QED
    BY <2>1, MonitorKeeps
<1> QED
  BY TimedInvariance, <1>1, <1>2, <1>3, PTL DEF Spec, KeptAlive

-----------------------------------------------------------------------------
(***************************************************************************)
(* DisconnectInTime: what waits for the server, and what waits for the     *)
(* keepalive thread.                                                       *)
(***************************************************************************)

\* A frame that the client's thread wrote is read before the next one is due.
Punctual == 2 * Lag < Interval

\* The frame that the application has written and still waits for, in a way.
Owed(c) == IF app[c] = "joining" THEN "disconnect" ELSE call[c]

\* On the way to the server are at most one keepalive and that frame, which may have been
\* lost or not answered, and the clocks tell since when.
Queue(c) ==
  service = "up" /\ link[c] = "up" =>
    IF call[c] = "config"
    THEN inbox[c] \in {<<>>, <<"config">>}
    ELSE "disconnect" \notin lost[c] =>
      \/ app[c] # "joining" /\ inbox[c] = <<>>
      \/ app[c] # "joining" /\ inbox[c] = <<"keepalive">> /\ slept[c] <= Lag + waited[c]
      \/ /\ Owed(c) # "none" /\ lasts[c] <= Lag + waited[c]
         /\ \/ /\ inbox[c] = <<Owed(c)>>
               /\ app[c] = "joining" => lasts[c] <= slept[c]
            \/ /\ inbox[c] = <<"keepalive", Owed(c)>>
               /\ lasts[c] <= waited[c] /\ slept[c] <= Lag + waited[c]
               /\ app[c] = "joining" => lasts[c] <= slept[c]
            \/ /\ inbox[c] = <<Owed(c), "keepalive">>
               /\ slept[c] <= waited[c]

\* A disconnect waits for a thread that has to write once more, twice more, or no more.
Joining(c) ==
  service = "up" /\ app[c] = "joining" /\ "disconnect" \notin lost[c] =>
    /\ link[c] = "closed" /\ thread[c] = "asleep" => lasts[c] <= slept[c]
    /\ link[c] = "reset" /\ thread[c] = "asleep" => lasts[c] <= slept[c] + Interval + Lag
    /\ thread[c] = "ended" => lasts[c] <= 2 * (Interval + Lag)

\* What was lost stays lost, and frames are lost only when the server reads.
LEMMA LostGrows ==
  ASSUME TypeOK, [Step]_vars, NEW c \in Conn
  PROVE  lost[c] \subseteq lost'[c] /\ (lost'[c] = lost[c] \/ ServerRead(c))
<1>1. CASE Start \/ Shutdown \/ Tick \/ UNCHANGED vars
  BY <1>1 DEF Start, Shutdown, Tick, vars
<1>2. CASE MonitorWakes
  BY <1>2 DEF MonitorWakes, Remove, Unregister
<1>3. ASSUME NEW d \in Conn, StepOf(d), d # c PROVE lost'[c] = lost[c]
  BY <1>3, Apart DEF Same
<1>4. CASE ServerRead(c)
  <2>1. lost \in [Conn -> SUBSET Vital]
    BY DEF TypeOK
  <2>2. CASE \E u : Remove({c}, u)
    BY <1>4, <2>2 DEF Remove, Unregister
  <2>3. ASSUME NEW k, Lose(c, k) PROVE lost[c] \subseteq lost'[c]
    BY <2>1, <2>3 DEF Lose
  <2>4. ASSUME NEW f, Unanswered(c, f) PROVE lost[c] \subseteq lost'[c]
    BY <2>1, <2>4 DEF Unanswered
  <2>5. CASE ~\E u : Remove({c}, u)
    BY <1>4, <2>3, <2>4, <2>5, Reads
  <2> QED
    BY <1>4, <2>2, <2>5
<1>5. CASE StepOf(c) /\ ~ServerRead(c)
  BY <1>5 DEF StepOf, Accept, CallFails, Joined, KeepaliveWakes, New, Disconnect, Vanish, Probe, Request
<1> QED
  BY <1>1, <1>2, <1>3, <1>4, <1>5, Actors

\* Sequences of one and two frames.
LEMMA ShortSeqs ==
  ASSUME NEW x \in Frame, NEW y \in Frame
  PROVE  /\ Append(<<>>, x) = <<x>> /\ Append(<<x>>, y) = <<x, y>>
         /\ Head(<<x>>) = x /\ Tail(<<x>>) = <<>>
         /\ Head(<<x, y>>) = x /\ Tail(<<x, y>>) = <<y>>
         /\ <<x>> # <<>> /\ <<x, y>> # <<>>
<1>1. Append(<<>>, x) = <<x>>
  OBVIOUS
<1>2. Append(<<x>>, y) = <<x, y>>
  <2>1. /\ Append(<<x>>, y) \in Seq(Frame) /\ <<x, y>> \in Seq(Frame)
        /\ Len(Append(<<x>>, y)) = 2 /\ Len(<<x, y>>) = 2
    OBVIOUS
  <2>2. \A i \in 1 .. 2 : Append(<<x>>, y)[i] = <<x, y>>[i]
    OBVIOUS
  <2> QED
    BY <2>1, <2>2, SeqEqual
<1>3. Head(<<x>>) = x /\ Head(<<x, y>>) = x
  OBVIOUS
<1>4. Tail(<<x>>) = <<>>
  OBVIOUS
<1>5. Tail(<<x, y>>) = <<y>>
  OBVIOUS
<1>6. <<x>> # <<>> /\ <<x, y>> # <<>>
  OBVIOUS
<1> QED
  BY <1>1, <1>2, <1>3, <1>4, <1>5, <1>6

\* What is left of them after the first or both were read in vain.
LEMMA ShortRests ==
  ASSUME NEW x \in Frame, NEW y \in Frame
  PROVE  /\ \A k \in 1 .. Len(<<x>>) :
              SubSeq(<<x>>, k + 1, Len(<<x>>)) = <<>> /\ {<<x>>[i] : i \in 1 .. k} = {x}
         /\ \A k \in 1 .. Len(<<x, y>>) :
              \/ SubSeq(<<x, y>>, k + 1, Len(<<x, y>>)) = <<y>> /\ {<<x, y>>[i] : i \in 1 .. k} = {x}
              \/ SubSeq(<<x, y>>, k + 1, Len(<<x, y>>)) = <<>> /\ {<<x, y>>[i] : i \in 1 .. k} = {x, y}
<1>1. Len(<<x>>) = 1 /\ Len(<<x, y>>) = 2
  OBVIOUS
<1>2. SubSeq(<<x>>, 2, 1) = <<>> /\ SubSeq(<<x, y>>, 3, 2) = <<>>
  OBVIOUS
<1>3. SubSeq(<<x, y>>, 2, 2) = <<y>>
  <2>1. /\ SubSeq(<<x, y>>, 2, 2) \in Seq(Frame) /\ <<y>> \in Seq(Frame)
        /\ Len(SubSeq(<<x, y>>, 2, 2)) = 1 /\ Len(<<y>>) = 1
    OBVIOUS
  <2>2. \A i \in 1 .. 1 : SubSeq(<<x, y>>, 2, 2)[i] = <<y>>[i]
    OBVIOUS
  <2> QED
    BY <2>1, <2>2, SeqEqual
<1>4. {<<x>>[i] : i \in 1 .. 1} = {x} /\ {<<x, y>>[i] : i \in 1 .. 1} = {x}
  OBVIOUS
<1>5. {<<x, y>>[i] : i \in 1 .. 2} = {x, y}
  OBVIOUS
<1>6. \A k \in 1 .. 1 : k = 1
  OBVIOUS
<1>7. \A k \in 1 .. 2 : k = 1 \/ k = 2
  OBVIOUS
<1> QED
  BY <1>1, <1>2, <1>3, <1>4, <1>5, <1>6, <1>7

\* The server reads, and the client stays: what it loses is the answer, never the order.
LEMMA QueueRead ==
  ASSUME TInv, NEW c \in Conn, ServerRead(c), Queue(c), link'[c] = "up"
  PROVE  Queue(c)'
<1>0. TypeOK /\ Life(c)
  BY DEF TInv
<1>1. /\ waited[c] \in Nat /\ waited[c] <= Lag /\ slept[c] \in Nat /\ lasts[c] \in Nat /\ Lag \in Nat
  BY <1>0, ClockTypes, Times
<1>2. /\ Owed(c) \in {"none", "config", "data", "large", "disconnect"}
      /\ app[c] = "joining" => Owed(c) = "disconnect"
      /\ app[c] # "joining" => Owed(c) = call[c]
  BY <1>0 DEF Owed, TypeOK
<1>3. /\ "keepalive" \in Frame /\ "config" \in Frame /\ "disconnect" \in Vital
      /\ Owed(c) # "none" => Owed(c) \in Frame /\ Owed(c) # "keepalive"
  BY <1>2 DEF Frame, Vital
<1>4. link[c] = "up" /\ inbox[c] # <<>> /\ waited'[c] = 0 /\ service = "up"
  BY <1>0, ReadsUp
<1> DEFINE Whole == /\ Head(inbox[c]) \in {"keepalive", "config", "data"}
                    /\ inbox'[c] = Tail(inbox[c]) /\ lost'[c] = lost[c]
                    /\ IF Head(inbox[c]) = call[c] THEN Returns(c) ELSE UNCHANGED clientVars
<1> DEFINE InVain == /\ \E k \in 1 .. Len(inbox[c]) :
                         /\ inbox'[c] = SubSeq(inbox[c], k + 1, Len(inbox[c]))
                         /\ {inbox[c][i] : i \in 1 .. k} \cap Vital \subseteq lost'[c]
                     /\ UNCHANGED clientVars
<1> DEFINE NoAnswer == /\ Head(inbox[c]) \in {"config", "data", "disconnect"}
                       /\ inbox'[c] = Tail(inbox[c])
                       /\ {Head(inbox[c])} \cap Vital \subseteq lost'[c]
                       /\ UNCHANGED clientVars
<1>5. Whole \/ InVain \/ NoAnswer
  BY <1>0, ReadsUp
<1>6. /\ Returns(c) => /\ app'[c] = "idle" /\ call'[c] = "none"
                       /\ call[c] # "config" => slept' = slept
      /\ UNCHANGED clientVars => /\ app'[c] = app[c] /\ call'[c] = call[c] /\ Owed(c)' = Owed(c)
                                 /\ lasts'[c] = lasts[c] /\ slept' = slept
  BY <1>0 DEF Returns, TypeOK, Owed
<1>7. Whole \/ InVain \/ NoAnswer => UNCHANGED clientVars \/ Returns(c)
  OBVIOUS
<1> HIDE DEF Whole, InVain, NoAnswer
<1>8. ASSUME NEW x \in Frame, inbox[c] = <<x>>
      PROVE  /\ inbox'[c] = <<>>
             /\ x \in Vital => Whole \/ x \in lost'[c]
  <2>1. Head(inbox[c]) = x /\ Tail(inbox[c]) = <<>>
    BY <1>8, ShortSeqs
  <2>2. CASE InVain
    BY <1>8, <2>2, ShortRests DEF InVain
  <2>3. CASE Whole \/ NoAnswer
    BY <2>1, <2>3 DEF Whole, NoAnswer
  <2> QED
    BY <1>5, <2>2, <2>3
<1>9. ASSUME NEW x \in Frame, NEW y \in Frame, inbox[c] = <<x, y>>
      PROVE  /\ inbox'[c] = <<y>> \/ (inbox'[c] = <<>> /\ InVain /\ {x, y} \cap Vital \subseteq lost'[c])
             /\ x \in Vital => Whole \/ x \in lost'[c]
  <2>1. Head(inbox[c]) = x /\ Tail(inbox[c]) = <<y>>
    BY <1>9, ShortSeqs
  <2>2. CASE InVain
    <3>1. \/ inbox'[c] = <<y>> /\ {x} \cap Vital \subseteq lost'[c]
          \/ inbox'[c] = <<>> /\ {x, y} \cap Vital \subseteq lost'[c]
      <4>1. PICK k \in 1 .. Len(<<x, y>>) :
              /\ inbox'[c] = SubSeq(<<x, y>>, k + 1, Len(<<x, y>>))
              /\ {<<x, y>>[i] : i \in 1 .. k} \cap Vital \subseteq lost'[c]
        BY <1>9, <2>2 DEF InVain
      <4> QED
        BY <4>1, ShortRests
    <3> QED
      BY <2>2, <3>1
  <2>3. CASE Whole \/ NoAnswer
    BY <2>1, <2>3 DEF Whole, NoAnswer
  <2> QED
    BY <1>5, <2>2, <2>3
<1>10. CASE call[c] = "config"
  <2>1. inbox[c] = <<"config">>
    BY <1>4, <1>10 DEF Queue
  <2>2. inbox'[c] = <<>>
    BY <1>3, <1>8, <2>1
  <2>3. call'[c] = "config" \/ (app'[c] = "idle" /\ call'[c] = "none")
    BY <1>5, <1>6, <1>7, <1>10
  <2> QED
    BY <2>2, <2>3 DEF Queue
<1>11. CASE call[c] # "config"
  <2> SUFFICES ASSUME "disconnect" \notin lost'[c] PROVE Queue(c)'
    BY <1>5, <1>6, <1>7, <1>11 DEF Queue
  <2>1. "disconnect" \notin lost[c] /\ call'[c] # "config"
    BY <1>0, <1>5, <1>6, <1>7, <1>11, LostGrows DEF Step, Next, Service
  <2>2. app[c] # "joining" => app'[c] # "joining"
    BY <1>5, <1>6, <1>7
  <2>3. ASSUME \/ app'[c] # "joining" /\ inbox'[c] = <<>>
               \/ app'[c] # "joining" /\ inbox'[c] = <<"keepalive">> /\ slept'[c] <= Lag
               \/ /\ UNCHANGED clientVars /\ Owed(c) # "none" /\ inbox'[c] = <<Owed(c)>>
                  /\ lasts[c] <= Lag /\ (app[c] = "joining" => lasts[c] <= slept[c])
        PROVE  Queue(c)'
    <3>1. CASE app'[c] # "joining" /\ inbox'[c] = <<>>
      BY <2>1, <3>1 DEF Queue
    <3>2. CASE app'[c] # "joining" /\ inbox'[c] = <<"keepalive">> /\ slept'[c] <= Lag
      <4>1. slept'[c] <= Lag + waited'[c]
        BY <1>1, <1>4, <3>2
      <4> QED
        BY <2>1, <3>2, <4>1 DEF Queue
    <3>3. CASE /\ UNCHANGED clientVars /\ Owed(c) # "none" /\ inbox'[c] = <<Owed(c)>>
               /\ lasts[c] <= Lag /\ (app[c] = "joining" => lasts[c] <= slept[c])
      <4>1. lasts'[c] <= Lag + waited'[c]
        BY <1>1, <1>4, <1>6, <3>3
      <4> QED
        BY <1>6, <2>1, <3>3, <4>1 DEF Queue
    <3> QED
      BY <2>3, <3>1, <3>2, <3>3
  <2>4. CASE app[c] # "joining" /\ inbox[c] = <<"keepalive">>
    BY <1>3, <1>8, <2>2, <2>3, <2>4
  <2>5. CASE Owed(c) # "none" /\ inbox[c] = <<Owed(c)>>
    <3>1. PICK x \in Frame : x = Owed(c)
      BY <1>3, <2>5
    <3>2. inbox'[c] = <<>> /\ (x \in Vital => Whole \/ x \in lost'[c]) /\ Head(inbox[c]) = x
      BY <1>8, <2>5, <3>1, ShortSeqs
    <3>3. app[c] # "joining"
      BY <1>2, <1>3, <3>1, <3>2 DEF Whole
    <3> QED
      BY <2>2, <2>3, <3>2, <3>3
  <2>6. CASE /\ Owed(c) # "none" /\ inbox[c] = <<"keepalive", Owed(c)>>
             /\ lasts[c] <= waited[c] /\ (app[c] = "joining" => lasts[c] <= slept[c])
    <3>1. PICK y \in Frame : y = Owed(c)
      BY <1>3, <2>6
    <3>2. /\ Head(inbox[c]) = "keepalive"
          /\ \/ inbox'[c] = <<y>>
             \/ inbox'[c] = <<>> /\ {"keepalive", y} \cap Vital \subseteq lost'[c]
      BY <1>3, <1>9, <2>6, <3>1, ShortSeqs
    <3>3. CASE inbox'[c] = <<y>>
      <4>1. UNCHANGED clientVars
        BY <1>0, <1>5, <3>2 DEF Whole, InVain, NoAnswer, TypeOK
      <4>2. lasts[c] <= Lag
        BY <1>1, <2>6
      <4> QED
        BY <2>3, <2>6, <3>1, <3>3, <4>1, <4>2
    <3>4. CASE inbox'[c] = <<>> /\ {"keepalive", y} \cap Vital \subseteq lost'[c]
      <4>1. app[c] # "joining"
        BY <1>2, <1>3, <3>1, <3>4
      <4> QED
        BY <2>2, <2>3, <3>4, <4>1
    <3> QED
      BY <3>2, <3>3, <3>4
  <2>7. CASE Owed(c) # "none" /\ inbox[c] = <<Owed(c), "keepalive">> /\ slept[c] <= waited[c]
    <3>1. PICK x \in Frame : x = Owed(c)
      BY <1>3, <2>7
    <3>2. /\ Head(inbox[c]) = x /\ (x \in Vital => Whole \/ x \in lost'[c])
          /\ inbox'[c] \in {<<>>, <<"keepalive">>}
      <4>1. inbox[c] = <<x, "keepalive">> /\ "keepalive" \in Frame
        BY <1>3, <2>7, <3>1
      <4>2. Head(inbox[c]) = x
        BY <4>1, ShortSeqs
      <4>3. /\ inbox'[c] = <<"keepalive">> \/ inbox'[c] = <<>>
            /\ x \in Vital => Whole \/ x \in lost'[c]
        BY <1>9, <4>1
      <4> QED
        BY <4>2, <4>3
    <3>3. app[c] # "joining"
      BY <1>2, <1>3, <3>1, <3>2 DEF Whole
    <3>4. slept'[c] = slept[c] /\ slept[c] <= Lag
      BY <1>1, <1>5, <1>6, <1>7, <1>11, <2>7
    <3> QED
      BY <2>2, <2>3, <3>2, <3>3, <3>4
  <2> QED
    BY <1>4, <1>11, <2>1, <2>4, <2>5, <2>6, <2>7 DEF Queue
<1> QED
  BY <1>10, <1>11

LEMMA QueueStep ==
  ASSUME Punctual, TInv, [Step]_vars, NEW c \in Conn, Queue(c)
  PROVE  Queue(c)'
<1>0. TypeOK /\ Life(c) /\ Clocks(c)
  BY DEF TInv
<1>00. /\ waited[c] \in Nat /\ waited[c] <= Lag /\ slept[c] \in Nat /\ lasts[c] \in Nat
       /\ Interval \in Nat /\ Lag \in Nat /\ ReadTimeout \in Nat
       /\ Lag + waited[c] < Interval /\ Interval <= ReadTimeout
  BY <1>0, ClockTypes, Times, ReadTimeoutBounds DEF Punctual
<1>01. Owed(c) \in {"none", "config", "data", "large", "disconnect"}
  BY <1>0 DEF Owed, TypeOK
<1>02. /\ "keepalive" \in Frame
       /\ Owed(c) # "none" => Owed(c) \in Frame /\ Owed(c) # "keepalive"
  BY <1>01 DEF Frame
<1>03. lost[c] \subseteq lost'[c]
  BY <1>0, LostGrows
<1> SUFFICES ASSUME service' = "up", link'[c] = "up", call'[c] # "config" => "disconnect" \notin lost'[c]
             PROVE  Queue(c)'
  BY DEF Queue
<1>1. CASE Start \/ Shutdown \/ UNCHANGED vars
  <2>1. CASE Start
    <3>1. app[c] = "none" /\ link' = link
      BY <1>0, <2>1 DEF Start, Clocks
    <3> QED
      BY <1>0, <3>1 DEF Life
  <2>2. CASE Shutdown
    BY <2>2 DEF Shutdown
  <2>3. CASE UNCHANGED vars
    BY <2>3 DEF vars, Queue, Owed
  <2> QED
    BY <1>1, <2>1, <2>2, <2>3
<1>2. CASE MonitorWakes
  <2>1. service = "up" /\ UNCHANGED <<waited, clientVars>>
    BY <1>2 DEF MonitorWakes
  <2>2. PICK S \in SUBSET reg : Remove(S, inbox)
    BY <1>2, <2>1 DEF MonitorWakes, StaleSets
  <2>3. link[c] = "up" /\ c \notin S /\ service' = service
    BY <1>0, <1>2, <2>1, <2>2, RemoveOne DEF Dropped, MonitorWakes
  <2>4. inbox'[c] = inbox[c] /\ lost'[c] = lost[c]
    BY <1>0, <2>2, <2>3, RemoveOne
  <2> QED
    BY <2>1, <2>3, <2>4 DEF Queue, Owed
<1>3. CASE Tick
  <2>1. UNCHANGED <<service, reg, lossVars, inbox, link, app, call, thread>>
    BY <1>3 DEF Tick
  <2>0. CASE call[c] = "config"
    BY <2>0, <2>1 DEF Queue
  <2> SUFFICES ASSUME call[c] # "config" PROVE Queue(c)'
    BY <2>0
  <2>2. c \in reg /\ thread[c] = "asleep"
    BY <1>0, <2>1 DEF Life, TypeOK
  <2>3. /\ lasts'[c] <= lasts[c] + 1 /\ lasts'[c] \in Nat /\ slept'[c] = slept[c] + 1
        /\ inbox[c] # <<>> => waited'[c] = waited[c] + 1
    BY <1>3, <2>1, <2>2, TickClocks DEF Awaited
  <2>4. Owed(c)' = Owed(c)
    BY <2>1 DEF Owed
  <2>5. CASE app[c] # "joining" /\ inbox[c] = <<>>
    BY <2>1, <2>4, <2>5 DEF Queue
  <2>6. CASE app[c] # "joining" /\ inbox[c] = <<"keepalive">> /\ slept[c] <= Lag + waited[c]
    BY <1>00, <1>02, <2>1, <2>3, <2>4, <2>6, ShortSeqs DEF Queue
  <2>7. CASE /\ Owed(c) # "none" /\ lasts[c] <= Lag + waited[c]
             /\ \/ inbox[c] = <<Owed(c)>> /\ (app[c] = "joining" => lasts[c] <= slept[c])
                \/ /\ inbox[c] = <<"keepalive", Owed(c)>>
                   /\ lasts[c] <= waited[c] /\ slept[c] <= Lag + waited[c]
                   /\ app[c] = "joining" => lasts[c] <= slept[c]
                \/ inbox[c] = <<Owed(c), "keepalive">> /\ slept[c] <= waited[c]
    <3>1. inbox[c] # <<>>
      BY <1>02, <2>7, ShortSeqs
    <3>2. /\ waited'[c] = waited[c] + 1 /\ lasts'[c] <= Lag + waited'[c]
          /\ lasts[c] <= slept[c] => lasts'[c] <= slept'[c]
          /\ lasts[c] <= waited[c] => lasts'[c] <= waited'[c]
          /\ slept[c] <= Lag + waited[c] => slept'[c] <= Lag + waited'[c]
          /\ slept[c] <= waited[c] => slept'[c] <= waited'[c]
      <4>1. waited'[c] = waited[c] + 1
        BY <2>3, <3>1
      <4>2. lasts[c] <= Lag + waited[c] /\ lasts'[c] <= lasts[c] + 1 /\ lasts'[c] \in Nat
        BY <2>3, <2>7
      <4>3. slept'[c] = slept[c] + 1
        BY <2>3
      <4> QED
        BY <1>00, <4>1, <4>2, <4>3
    <3>3. CASE inbox[c] = <<Owed(c)>> /\ (app[c] = "joining" => lasts[c] <= slept[c])
      BY <2>1, <2>4, <2>7, <3>2, <3>3 DEF Queue
    <3>4. CASE /\ inbox[c] = <<"keepalive", Owed(c)>>
               /\ lasts[c] <= waited[c] /\ slept[c] <= Lag + waited[c]
               /\ app[c] = "joining" => lasts[c] <= slept[c]
      BY <2>1, <2>4, <2>7, <3>2, <3>4 DEF Queue
    <3>5. CASE inbox[c] = <<Owed(c), "keepalive">> /\ slept[c] <= waited[c]
      BY <2>1, <2>4, <2>7, <3>2, <3>5 DEF Queue
    <3> QED
      BY <2>7, <3>3, <3>4, <3>5
  <2> QED
    BY <2>1, <2>5, <2>6, <2>7 DEF Queue
<1>4. ASSUME NEW d \in Conn, StepOf(d), d # c PROVE Queue(c)'
  BY <1>0, <1>4, Apart DEF Same, Queue, Owed
<1>5. CASE StepOf(c)
  <2>1. CASE Accept(c)
    <3>1. UNCHANGED <<link, call, inbox, lost>> /\ service = "up" /\ c \in backlog
      BY <2>1 DEF Accept
    <3>2. call[c] = "config"
      BY <1>0, <3>1 DEF Life, TypeOK
    <3> QED
      BY <3>1, <3>2 DEF Queue
  <2>2. CASE ServerRead(c)
    BY <2>2, QueueRead
  <2>3. CASE CallFails(c)
    <3>1. /\ call[c] # "config" /\ link[c] = "up" /\ service = "up" /\ app[c] = "calling"
          /\ lasts[c] >= ReadTimeout /\ app'[c] = "idle" /\ call'[c] = "none"
          /\ UNCHANGED <<inbox, waited, slept, lost>>
      BY <1>0, <2>3 DEF CallFails, TypeOK
    <3>2. ~(lasts[c] <= Lag + waited[c])
      BY <1>00, <3>1
    <3> QED
      BY <1>03, <3>1, <3>2 DEF Queue
  <2>4. CASE Joined(c) \/ Vanish(c) \/ Probe(c)
    BY <1>0, <2>4 DEF Joined, Vanish, Probe, TypeOK
  <2>5. CASE KeepaliveWakes(c)
    <3>1. /\ UNCHANGED <<serverVars, app, call, lasts>> /\ thread[c] = "asleep"
          /\ Written(c, "keepalive") \/ Lost(c) \/ NotWritten(c)
          /\ slept[c] >= Interval /\ slept'[c] = 0
      BY <1>0, <2>5 DEF KeepaliveWakes, KeepaliveEnds, TypeOK
    <3>2. Written(c, "keepalive") /\ inbox'[c] = Append(inbox[c], "keepalive")
      BY <1>0, <1>02, <3>1, WritesUp
    <3>3. link[c] = "up" /\ waited' = waited /\ call[c] # "config" /\ Owed(c)' = Owed(c)
      BY <1>0, <3>1, <3>2 DEF Written, Life, Owed
    <3>4. \/ app[c] # "joining" /\ inbox[c] = <<>>
          \/ Owed(c) # "none" /\ inbox[c] = <<Owed(c)>> /\ lasts[c] <= Lag + waited[c]
      <4>1. ~(slept[c] <= Lag + waited[c]) /\ (waited[c] <= Lag + waited[c])
        BY <1>00, <3>1
      <4>2. ~(slept[c] <= waited[c])
        BY <1>00, <3>1
      <4> QED
        BY <3>1, <3>3, <4>1, <4>2 DEF Queue
    <3>5. CASE app[c] # "joining" /\ inbox[c] = <<>>
      <4>1. inbox'[c] = <<"keepalive">>
        BY <1>02, <3>2, <3>5, ShortSeqs
      <4>2. slept'[c] <= Lag + waited'[c]
        BY <1>00, <3>1, <3>3
      <4> QED
        BY <3>1, <3>3, <3>5, <4>1, <4>2 DEF Queue
    <3>6. CASE Owed(c) # "none" /\ inbox[c] = <<Owed(c)>> /\ lasts[c] <= Lag + waited[c]
      <4>1. inbox'[c] = <<Owed(c), "keepalive">>
        BY ZenonT(60), <1>02, <3>2, <3>6, ShortSeqs
      <4> QED
        BY <1>00, <3>1, <3>3, <3>6, <4>1 DEF Queue
    <3> QED
      BY <3>4, <3>5, <3>6
  <2>6. CASE New(c)
    <3>1. inbox'[c] = <<"config">> /\ call'[c] = "config"
      BY <1>0, <2>6 DEF New, TypeOK
    <3> QED
      BY <3>1 DEF Queue
  <2>7. ASSUME NEW f \in Frame, f # "keepalive", app[c] = "idle", UNCHANGED <<serverVars, lasts, slept>>,
               Written(c, f) \/ Lost(c) \/ NotWritten(c),
               Written(c, f) => Owed(c)' = f /\ call'[c] # "config"
        PROVE  Queue(c)'
    <3>1. Written(c, f) /\ inbox'[c] = Append(inbox[c], f)
      BY <1>0, <2>7, WritesUp
    <3>2. /\ link[c] = "up" /\ waited' = waited /\ call[c] = "none" /\ lasts[c] = 0
          /\ Owed(c)' = f /\ Owed(c) = "none"
      BY <1>0, <2>7, <3>1 DEF Written, Life, Clocks, Owed
    <3>7. call'[c] # "config"
      BY <2>7, <3>1
    <3>3. \/ inbox[c] = <<>>
          \/ inbox[c] = <<"keepalive">> /\ slept[c] <= Lag + waited[c]
      BY <2>7, <3>2, <3>7 DEF Queue
    <3>4. f # "none"
      BY <2>7 DEF Frame
    <3>5. CASE inbox[c] = <<>>
      <4>1. inbox'[c] = <<f>>
        BY <2>7, <3>1, <3>5, ShortSeqs
      <4> QED
        BY <1>00, <2>7, <3>2, <3>4, <3>7, <4>1 DEF Queue
    <3>6. CASE inbox[c] = <<"keepalive">> /\ slept[c] <= Lag + waited[c]
      <4>1. inbox'[c] = <<"keepalive", f>>
        BY <1>02, <2>7, <3>1, <3>6, ShortSeqs
      <4> QED
        BY <1>00, <2>7, <3>2, <3>4, <3>6, <3>7, <4>1 DEF Queue
    <3> QED
      BY <3>3, <3>5, <3>6
  <2>8. CASE Disconnect(c)
    <3>1. /\ app[c] = "idle" /\ UNCHANGED <<serverVars, lasts, slept>>
          /\ Written(c, "disconnect") \/ Lost(c) \/ NotWritten(c)
      BY <2>8 DEF Disconnect
    <3>2. Written(c, "disconnect") => Owed(c)' = "disconnect" /\ call'[c] # "config"
      BY <1>0, <2>8 DEF Disconnect, Written, Lost, NotWritten, Owed, TypeOK, Life
    <3>3. "disconnect" \in Frame /\ "disconnect" # "keepalive"
      BY DEF Frame
    <3> QED
      BY <2>7, <3>1, <3>2, <3>3
  <2>9. ASSUME NEW f \in {"data", "large"}, Request(c, f) PROVE Queue(c)'
    <3>1. /\ app[c] = "idle" /\ UNCHANGED <<serverVars, lasts, slept>>
          /\ Written(c, f) \/ Lost(c) \/ NotWritten(c)
      BY <2>9 DEF Request
    <3>2. Written(c, f) => Owed(c)' = f /\ call'[c] # "config"
      BY <1>0, <2>9 DEF Request, Written, Lost, NotWritten, Owed, TypeOK
    <3>3. f \in Frame /\ f # "keepalive"
      BY DEF Frame
    <3> QED
      BY <2>7, <3>1, <3>2, <3>3
  <2> QED
    BY <1>5, <2>1, <2>2, <2>3, <2>4, <2>5, <2>6, <2>8, <2>9 DEF StepOf
<1> QED
  BY <1>1, <1>2, <1>3, <1>4, <1>5, Actors

\* When the server drops a connection whose disconnect is under way, it has read that
\* frame as the last one, or there is more and the client's kernel gets a reset.
LEMMA DroppedJoining ==
  ASSUME Punctual, TInv, NEW c \in Conn, Queue(c), service = "up", link[c] = "up",
         app[c] = "joining", "disconnect" \notin lost[c]
  PROVE  /\ inbox[c] # <<>> /\ thread[c] = "asleep"
         /\ lasts[c] <= slept[c] + Interval + Lag
         /\ lasts[c] <= 2 * (Interval + Lag)
         /\ Head(inbox[c]) = "disconnect" /\ Tail(inbox[c]) = <<>> => lasts[c] <= slept[c]
<1>0. TypeOK /\ Life(c)
  BY DEF TInv
<1>1. call[c] = "none" /\ thread[c] = "asleep" /\ Owed(c) = "disconnect"
  BY <1>0 DEF Life, TypeOK, Owed
<1>2. /\ waited[c] \in Nat /\ waited[c] <= Lag /\ slept[c] \in Nat /\ lasts[c] \in Nat
      /\ Interval \in Nat /\ Lag \in Nat
  BY <1>0, ClockTypes, Times
<1>3. lasts[c] <= Lag + waited[c]
  BY <1>1 DEF Queue
<1>4. lasts[c] <= slept[c] + Interval + Lag /\ lasts[c] <= 2 * (Interval + Lag)
  BY <1>2, <1>3 DEF Punctual
<1>5. \/ inbox[c] = <<"disconnect">> /\ lasts[c] <= slept[c]
      \/ inbox[c] = <<"keepalive", "disconnect">>
      \/ inbox[c] = <<"disconnect", "keepalive">>
  BY <1>1 DEF Queue
<1>6. "disconnect" \in Frame /\ "keepalive" \in Frame
  BY DEF Frame
<1>7. CASE inbox[c] = <<"disconnect">> /\ lasts[c] <= slept[c]
  BY <1>1, <1>4, <1>6, <1>7, ShortSeqs
<1>8. CASE inbox[c] = <<"keepalive", "disconnect">>
  <2>1. Head(inbox[c]) = "keepalive" /\ inbox[c] # <<>>
    BY <1>6, <1>8, ShortSeqs
  <2> QED
    BY <1>1, <1>4, <2>1
<1>9. CASE inbox[c] = <<"disconnect", "keepalive">>
  <2>1. Tail(inbox[c]) = <<"keepalive">> /\ <<"keepalive">> # <<>> /\ inbox[c] # <<>>
    BY <1>6, <1>9, ShortSeqs
  <2> QED
    BY <1>1, <1>4, <2>1
<1> QED
  BY <1>5, <1>7, <1>8, <1>9

LEMMA JoiningStep ==
  ASSUME Punctual, TInv, [Step]_vars, NEW c \in Conn, Queue(c), Joining(c)
  PROVE  Joining(c)'
<1>0. TypeOK /\ Life(c) /\ Clocks(c)
  BY DEF TInv
<1>00. /\ slept[c] \in Nat /\ slept[c] <= Interval + Lag /\ lasts[c] \in Nat
       /\ Interval \in Nat /\ Lag \in Nat
  BY <1>0, ClockTypes, Times
<1>01. "disconnect" \notin lost'[c] => "disconnect" \notin lost[c]
  BY <1>0, LostGrows
<1> SUFFICES ASSUME service' = "up", app'[c] = "joining", "disconnect" \notin lost'[c]
             PROVE  Joining(c)'
  BY DEF Joining
<1>1. CASE Start \/ Shutdown \/ UNCHANGED vars
  <2>1. CASE Start
    BY <1>0, <2>1 DEF Start, Clocks
  <2>2. CASE Shutdown
    BY <2>2 DEF Shutdown
  <2>3. CASE UNCHANGED vars
    BY <2>3 DEF vars, Joining
  <2> QED
    BY <1>1, <2>1, <2>2, <2>3
<1>2. CASE MonitorWakes
  <2>1. service = "up" /\ UNCHANGED <<waited, clientVars>>
    BY <1>2 DEF MonitorWakes
  <2>2. PICK S \in SUBSET reg : Remove(S, inbox)
    BY <1>2, <2>1 DEF MonitorWakes, StaleSets
  <2>3. CASE link'[c] = link[c]
    BY <1>01, <2>1, <2>3 DEF Joining
  <2>4. CASE link'[c] # link[c]
    <3>1. link[c] = "up" /\ (inbox[c] # <<>> => link'[c] = "reset")
      <4>1. link[c] = "up" /\ link'[c] \in Dropped(c, inbox[c])
        BY <1>0, <2>2, <2>4, RemoveOne
      <4> QED
        BY <4>1 DEF Dropped
    <3>2. app[c] = "joining"
      BY <2>1
    <3>3. link'[c] = "reset" /\ thread[c] = "asleep" /\ lasts[c] <= slept[c] + Interval + Lag
      BY <1>01, <2>1, <3>1, <3>2, DroppedJoining
    <3> QED
      BY <2>1, <3>3 DEF Joining
  <2> QED
    BY <2>3, <2>4
<1>3. CASE Tick
  <2>1. UNCHANGED <<service, link, app, thread>>
    BY <1>3 DEF Tick
  <2>2. thread[c] # "ended"
    BY <1>3, <2>1 DEF Tick, Urgent
  <2>3. /\ lasts'[c] <= lasts[c] + 1 /\ lasts'[c] \in Nat
        /\ thread[c] = "asleep" => slept'[c] = slept[c] + 1
    BY <1>3, TickClocks
  <2>4. ASSUME thread[c] = "asleep"
        PROVE  /\ lasts[c] <= slept[c] => lasts'[c] <= slept'[c]
               /\ lasts[c] <= slept[c] + Interval + Lag => lasts'[c] <= slept'[c] + Interval + Lag
    BY <1>00, <2>3, <2>4
  <2> QED
    BY <1>01, <2>1, <2>2, <2>4 DEF Joining
<1>4. ASSUME NEW d \in Conn, StepOf(d), d # c PROVE Joining(c)'
  BY <1>0, <1>4, Apart DEF Same, Joining
<1>5. CASE StepOf(c)
  <2>1. CASE Accept(c)
    BY <2>1 DEF Accept, Joining
  <2>2. CASE ServerRead(c)
    <3>1. service = "up" /\ inbox[c] # <<>>
      BY <2>2 DEF ServerRead
    <3>2. app[c] = "joining" /\ UNCHANGED clientVars
      BY <1>0, <2>2 DEF ServerRead, Returns, TypeOK
    <3>3. CASE link'[c] = link[c]
      BY <1>01, <3>1, <3>2, <3>3 DEF Joining
    <3>4. CASE link'[c] # link[c]
      <4>1. /\ link[c] = "up"
            /\ \/ link'[c] = "reset"
               \/ link'[c] = "closed" /\ Head(inbox[c]) = "disconnect" /\ Tail(inbox[c]) = <<>>
        <5>1. ASSUME NEW u, Remove({c}, u)
              PROVE  link[c] = "up" /\ link'[c] \in Dropped(c, u[c])
          <6>1. {c} \in SUBSET reg
            BY <2>2 DEF ServerRead
          <6> QED
            BY <1>0, <3>4, <5>1, <6>1, RemoveOne
        <5>2. PICK rest : /\ rest = [inbox EXCEPT ![c] = Tail(@)]
                          /\ \/ UNCHANGED link
                             \/ Head(inbox[c]) = "disconnect" /\ Remove({c}, rest)
                             \/ Remove({c}, inbox)
          BY <2>2 DEF ServerRead
        <5>3. rest[c] = Tail(inbox[c])
          BY <1>0, <5>2 DEF TypeOK
        <5>4. CASE Head(inbox[c]) = "disconnect" /\ Remove({c}, rest)
          BY <5>1, <5>3, <5>4 DEF Dropped
        <5>5. CASE Remove({c}, inbox)
          BY <3>1, <5>1, <5>5 DEF Dropped
        <5> QED
          BY <3>4, <5>2, <5>4, <5>5
      <4>2. /\ thread[c] = "asleep" /\ lasts[c] <= slept[c] + Interval + Lag
            /\ Head(inbox[c]) = "disconnect" /\ Tail(inbox[c]) = <<>> => lasts[c] <= slept[c]
        BY <1>01, <3>1, <3>2, <4>1, DroppedJoining
      <4> QED
        BY <3>2, <4>1, <4>2 DEF Joining
    <3> QED
      BY <3>3, <3>4
  <2>3. CASE CallFails(c) \/ Joined(c) \/ Vanish(c) \/ Probe(c) \/ New(c)
    BY <1>0, <2>3 DEF CallFails, Joined, Vanish, Probe, New, TypeOK
  <2>4. CASE KeepaliveWakes(c)
    <3>1. /\ service = "up" /\ UNCHANGED <<app, lasts>> /\ app[c] = "joining"
          /\ thread[c] = "asleep" /\ slept'[c] = 0 /\ "disconnect" \notin lost[c]
      BY <1>0, <1>01, <2>4 DEF KeepaliveWakes, TypeOK
    <3>2. CASE Written(c, "keepalive") /\ UNCHANGED thread
      BY <3>1, <3>2 DEF Written, Joining
    <3>3. CASE Lost(c)
      <4>1. link'[c] = "reset" /\ lasts[c] <= slept[c]
        BY <1>0, <3>1, <3>3 DEF Lost, Joining, TypeOK
      <4>2. /\ lasts[c] <= slept'[c] + Interval + Lag
            /\ lasts[c] <= 2 * (Interval + Lag)
        BY <1>00, <3>1, <4>1
      <4> QED
        BY <3>1, <4>1, <4>2 DEF Joining
    <3>4. CASE NotWritten(c) /\ thread' = [thread EXCEPT ![c] = "ended"]
      <4>1. link'[c] = "reset" /\ thread'[c] = "ended" /\ lasts[c] <= slept[c] + Interval + Lag
        BY <1>0, <3>1, <3>4 DEF NotWritten, Joining, TypeOK
      <4>2. lasts[c] <= 2 * (Interval + Lag)
        BY <1>00, <4>1
      <4> QED
        BY <3>1, <4>1, <4>2 DEF Joining
    <3> QED
      BY <2>4, <3>2, <3>3, <3>4 DEF KeepaliveWakes, KeepaliveEnds
  <2>5. CASE Disconnect(c)
    <3>1. lasts'[c] = 0 /\ slept' = slept
      BY <1>0, <2>5 DEF Disconnect, Clocks
    <3> QED
      BY <1>00, <3>1 DEF Joining
  <2>6. ASSUME NEW f \in {"data", "large"}, Request(c, f) PROVE Joining(c)'
    BY <1>0, <2>6 DEF Request, TypeOK
  <2> QED
    BY <1>5, <2>1, <2>2, <2>3, <2>4, <2>5, <2>6 DEF StepOf
<1> QED
  BY <1>1, <1>2, <1>3, <1>4, <1>5, Actors

\* disconnect returns, or is about to, within two intervals of the keepalive thread and
\* the lateness of each, if a keepalive is read before the next one is due, and unless the
\* server has lost its Disconnect or could not acknowledge it.
THEOREM DisconnectsInTime ==
  ASSUME Punctual
  PROVE  Spec => []DisconnectInTime
<1> DEFINE JInv == \A c \in Conn : Queue(c) /\ Joining(c)
<1>1. Init => JInv
  <2> SUFFICES ASSUME Init, NEW c \in Conn PROVE service # "up"
    BY DEF Queue, Joining
  <2> QED
    BY DEF Init
<1>2. TInv /\ JInv /\ [Next]_vars => JInv'
  <2> SUFFICES ASSUME TInv, JInv, [Next]_vars PROVE JInv'
    OBVIOUS
  <2>1. ASSUME NEW c \in Conn PROVE Queue(c)' /\ Joining(c)'
    BY NextIsStep, QueueStep, JoiningStep
  <2> QED
    BY <2>1
<1>3. TInv /\ JInv => DisconnectInTime
  <2> SUFFICES ASSUME TInv, JInv, NEW c \in Conn, service = "up", app[c] = "joining",
                      "disconnect" \notin lost[c]
               PROVE  lasts[c] <= 2 * (Interval + Lag)
    BY DEF DisconnectInTime
  <2>0. /\ slept[c] \in Nat /\ slept[c] <= Interval + Lag /\ lasts[c] \in Nat
        /\ Interval \in Nat /\ Lag \in Nat
    BY ClockTypes, Times DEF TInv
  <2>1. link[c] \in {"up", "closed", "reset"} /\ thread[c] \in {"asleep", "ended"}
    <3>1. Life(c) /\ TypeOK
      BY DEF TInv
    <3> QED
      BY <3>1 DEF Life, TypeOK
  <2>2. CASE link[c] = "up"
    BY <2>2, DroppedJoining
  <2>3. CASE link[c] # "up"
    BY <2>0, <2>1, <2>3 DEF Joining
  <2> QED
    BY <2>2, <2>3
<1> QED
  BY TimedInvariance, <1>1, <1>2, <1>3, PTL DEF Spec
==============================================================================
