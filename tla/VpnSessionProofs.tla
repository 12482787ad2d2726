-------------------------- MODULE VpnSessionProofs --------------------------
(***************************************************************************)
(* Proofs about VpnSession: which of the safety properties of one session  *)
(* hold for bodies and buffers of every size and every number of calls.    *)
(***************************************************************************)
EXTENDS VpnSession, SequenceTheorems, TLAPS

USE SessionAssumption

-----------------------------------------------------------------------------
(***************************************************************************)
(* The inductive invariant.                                                *)
(***************************************************************************)

\* What the control of the main thread says about its request and the connection.
Control ==
  /\ mpc = "new" => call = NoFrame /\ results = <<>>
  /\ mpc # "new" => call \in Frame \ {Keepalive}
  /\ mpc = "new" <=> link = "none"
  /\ mpc # "readBody" => head = NoFrame /\ want = 0
  /\ mpc \in {"readPrefix", "readBody"} => call[1] # "disconnect"
  /\ mpc = "join" => ~connected
  /\ ~dropping => call[2] <= MaxCalls
  /\ dropping => mpc = "done" \/ (call[1] = "disconnect" /\ mpc # "ready")

\* Once the server has dropped the client there is nothing left at its end.
LinkOK ==
  /\ ended = "no" <=> link \in {"none", "open"}
  /\ link # "open" => up = <<>> /\ inbox = <<>> /\ pend = NoFrame
  /\ link = "none" => down = <<>>
  /\ pend # Keepalive
  /\ \A i \in 1 .. Len(down) : down[i][1] # Keepalive

\* The requests whose prefix is in a stream, and that they are there in order.
Begins(u) == u[2] = 0 /\ u[1] # Keepalive
Asked(s) == {s[i][1] : i \in {j \in 1 .. Len(s) : Begins(s[j])}}
Increasing(s) ==
  \A i, j \in 1 .. Len(s) : i < j /\ Begins(s[i]) /\ Begins(s[j]) => s[i][1][2] < s[j][1][2]

Only(f) == IF f = NoFrame THEN {} ELSE {f}
Returned == {results[i][2] : i \in 1 .. Len(results)}
AllBelow(A, B) == \A f \in A, g \in B : f[2] < g[2]

\* The requests that are still on their way to the server.
Sent == Asked(inbox) \cup Asked(up)
\* And those that may still be answered.
Open == Asked(down) \cup Only(pend) \cup Sent

\* A request is in one place at a time, and none overtakes another: those that are
\* further on their way and back are the earlier ones.
Order ==
  /\ Increasing(down) /\ Increasing(inbox) /\ Increasing(up)
  /\ AllBelow(Asked(inbox), Asked(up))
  /\ AllBelow(Only(pend), Sent)
  /\ AllBelow(Asked(down), Only(pend) \cup Sent)
  /\ AllBelow(Only(head), Open)
  /\ AllBelow(Returned, Only(head) \cup Open)
  /\ \A f \in Returned \cup Only(head) \cup Open :
       f[2] <= call[2] /\ (f[2] = call[2] => f = call /\ mpc # "prefix")

\* Every unit on its way to the server belongs to a request that was made, and to an
\* earlier one as long as the current one has not begun to be written.
FreshIn(s) ==
  \A i \in 1 .. Len(s) : s[i][1][2] <= call[2] /\ (mpc = "prefix" => s[i][1][2] < call[2])
Fresh == FreshIn(inbox) /\ FreshIn(up)

\* Nothing is left of any request, on the way there or back.
Quiet == down = <<>> /\ pend = NoFrame /\ Sent = {}
\* Of frame f the prefix alone is in s.
PrefixOnly(f, s) == \A i \in 1 .. Len(s) : s[i][1] = f => s[i][2] = 0

\* As long as nothing has timed out, all that is between client and server is the
\* request the client is at, or the answer to it.
Match ==
  ~late =>
    /\ mpc \in {"new", "prefix"} => Quiet
    /\ mpc = "ready" /\ connected => down = <<>> /\ (ended = "no" => Quiet)
    /\ mpc = "body" => /\ down = <<>> /\ pend = NoFrame /\ Sent \subseteq {call}
                       /\ PrefixOnly(call, inbox) /\ PrefixOnly(call, up)
    /\ mpc = "readPrefix" => \/ down = <<>> /\ pend = NoFrame /\ Sent \subseteq {call}
                             \/ down = <<>> /\ pend = call /\ Sent = {}
                             \/ down = Units(call) /\ pend = NoFrame /\ Sent = {}
    /\ mpc = "readBody" => /\ down = Body(call) /\ head = call /\ want = BodyLen
                           /\ pend = NoFrame /\ Sent = {}

\* At p begins frame f, as much of it as s has.
FrameAt(s, p, f) == \A k \in 0 .. BodyLen : p + k <= Len(s) => s[p + k] = <<f, k>>
\* s is a concatenation of frames, the last one possibly cut short: every unit is in one.
Blocks(s) == \A i \in 1 .. Len(s) : \E p \in 1 .. i, f \in Frame : i <= p + BodyLen /\ FrameAt(s, p, f)
Complete(s) == s # <<>> => s[Len(s)][2] = BodyLen
EndsIn(s, f) == s # <<>> /\ s[Len(s)] = Prefix(f)

\* A stream that nothing has spoilt: whole frames, and the prefix of the one that is
\* being written.
InFlight == inbox \o up
Spoilt == mixed \/ torn \/ late
Whole ==
  ~Spoilt /\ ended = "no" =>
    /\ Blocks(InFlight)
    /\ ~(mpc = "body" /\ kpc = "body")
    /\ mpc = "body" => EndsIn(InFlight, call)
    /\ kpc = "body" => EndsIn(InFlight, Keepalive)
    /\ mpc # "body" /\ kpc # "body" => Complete(InFlight)

\* The server has let the client go only where the client has asked it to.
Left ==
  ended = "disconnect" /\ ~late => mpc \in {"join", "done"} \/ (mpc = "ready" /\ ~connected)

\* No keepalive is answered, and so none is read.
Heads == head # Keepalive

\* There is no keepalive thread before the handshake is done.
Handshake ==
  mpc = "new" \/ (call[1] = "config" /\ mpc \in {"prefix", "body", "readPrefix", "readBody"}) =>
    kpc = "unborn"

SInv ==
  /\ TypeOK /\ Control /\ Handshake /\ LinkOK /\ Heads /\ Order /\ Fresh /\ Match /\ Whole /\ Left
  /\ AnswersMatch /\ AnswersInOrder /\ ExpelledOnlyAfterRace /\ FailsOnlyAfterRace

-----------------------------------------------------------------------------
(***************************************************************************)
(* Frames, their units and what is cut off a stream.                       *)
(***************************************************************************)

\* A frame has a kind and a number; none but the keepalive has the number 0.
LEMMA Frames ==
  ASSUME NEW f \in Frame
  PROVE  /\ f = <<f[1], f[2]>> /\ f[2] \in Nat /\ f # NoFrame
         /\ f # Keepalive => f[2] \in 1 .. MaxCalls + 1 /\ f[1] \in {"config", "data", "disconnect"}
         /\ f[1] = "keepalive" => f = Keepalive
  BY DEF Frame, Keepalive, NoFrame

LEMMA NoFrames == Keepalive \in Frame /\ NoFrame \notin Frame /\ NoFrame[2] = 0 /\ NoFrame[1] = "none"
  BY DEF Frame, Keepalive, NoFrame

LEMMA UnitParts ==
  ASSUME NEW u \in Unit
  PROVE  u[1] \in Frame /\ u[2] \in 0 .. BodyLen /\ u = <<u[1], u[2]>>
  BY DEF Unit

\* The units of a frame: its prefix, then its body.
LEMMA FrameUnits ==
  ASSUME NEW f \in Frame
  PROVE  /\ Prefix(f) \in Unit /\ Prefix(f)[1] = f /\ Prefix(f)[2] = 0
         /\ <<Prefix(f)>> \in Seq(Unit) /\ Len(<<Prefix(f)>>) = 1 /\ <<Prefix(f)>>[1] = Prefix(f)
         /\ Body(f) \in Seq(Unit) /\ Len(Body(f)) = BodyLen
         /\ \A i \in 1 .. BodyLen : Body(f)[i] = <<f, i>>
         /\ Units(f) \in Seq(Unit) /\ Len(Units(f)) = BodyLen + 1
         /\ Units(f)[1] = Prefix(f)
         /\ \A i \in 2 .. BodyLen + 1 : Units(f)[i] = <<f, i - 1>>
<1>1. Prefix(f) \in Unit /\ Prefix(f)[1] = f /\ Prefix(f)[2] = 0
  BY DEF Prefix, Unit
<1>2. <<Prefix(f)>> \in Seq(Unit) /\ Len(<<Prefix(f)>>) = 1 /\ <<Prefix(f)>>[1] = Prefix(f)
  BY <1>1
<1>3. \A i \in 1 .. BodyLen : <<f, i>> \in Unit
  BY DEF Unit
<1>4. Body(f) \in [1 .. BodyLen -> Unit] /\ \A i \in 1 .. BodyLen : Body(f)[i] = <<f, i>>
  BY <1>3 DEF Body
<1>5. Body(f) \in Seq(Unit)
  <2>1. BodyLen \in Nat
    OBVIOUS
  <2> QED
    BY <1>4, <2>1, SeqDef
<1>6. Len(Body(f)) = BodyLen
  BY <1>4, <1>5, LenProperties
<1>7. /\ Units(f) \in Seq(Unit) /\ Len(Units(f)) = BodyLen + 1
      /\ \A i \in 1 .. BodyLen + 1 : Units(f)[i] = IF i <= 1 THEN <<Prefix(f)>>[i] ELSE Body(f)[i - 1]
  BY <1>2, <1>5, <1>6, ConcatProperties DEF Units
<1> QED
  BY <1>1, <1>2, <1>4, <1>5, <1>6, <1>7

\* What is left of a stream after its first m units, and those units.
LEMMA CutOff ==
  ASSUME NEW s \in Seq(Unit), NEW m \in 0 .. Len(s)
  PROVE  /\ SubSeq(s, m + 1, Len(s)) \in Seq(Unit) /\ Len(SubSeq(s, m + 1, Len(s))) = Len(s) - m
         /\ \A i \in 1 .. Len(s) - m : SubSeq(s, m + 1, Len(s))[i] = s[m + i]
         /\ SubSeq(s, 1, m) \in Seq(Unit) /\ Len(SubSeq(s, 1, m)) = m
         /\ \A i \in 1 .. m : SubSeq(s, 1, m)[i] = s[i]
<1>1. Len(s) \in Nat /\ \A i \in 1 .. Len(s) : s[i] \in Unit
  OBVIOUS
<1>2. m + 1 \in Int /\ Len(s) \in Int /\ \A i \in m + 1 .. Len(s) : s[i] \in Unit
  BY <1>1
<1>3. /\ SubSeq(s, m + 1, Len(s)) \in Seq(Unit)
      /\ Len(SubSeq(s, m + 1, Len(s))) = IF m + 1 <= Len(s) THEN Len(s) - (m + 1) + 1 ELSE 0
      /\ \A i \in 1 .. Len(s) - (m + 1) + 1 : SubSeq(s, m + 1, Len(s))[i] = s[(m + 1) + i - 1]
  BY <1>2, SubSeqProperties
<1>4. 1 \in Int /\ m \in Int /\ \A i \in 1 .. m : s[i] \in Unit
  BY <1>1
<1>5. /\ SubSeq(s, 1, m) \in Seq(Unit)
      /\ Len(SubSeq(s, 1, m)) = IF 1 <= m THEN m - 1 + 1 ELSE 0
      /\ \A i \in 1 .. m - 1 + 1 : SubSeq(s, 1, m)[i] = s[1 + i - 1]
  BY <1>4, SubSeqProperties
<1>6. /\ Len(SubSeq(s, m + 1, Len(s))) = Len(s) - m /\ Len(SubSeq(s, 1, m)) = m
      /\ Len(s) - (m + 1) + 1 = Len(s) - m /\ m - 1 + 1 = m
      /\ \A i \in 1 .. Len(s) - m : (m + 1) + i - 1 = m + i
      /\ \A i \in 1 .. m : 1 + i - 1 = i
  BY <1>1, <1>3, <1>5
<1> QED
  BY <1>3, <1>5, <1>6

\* What a write adds to the stream is a part of what it was given, from the start.
LEMMA Writes ==
  ASSUME TypeOK, NEW s \in Seq(Unit), Written(s) \/ NotWritten(s)
  PROVE  /\ up' \in Seq(Unit) /\ Len(up') + Len(inbox) <= Buffer
         /\ up' = up \/ (link = "open" /\ \E n \in 0 .. Len(s) : up' = up \o SubSeq(s, 1, n))
         /\ late' \in BOOLEAN /\ (late => late')
         /\ Written(s) => late' = late /\ (up' = up \/ (link = "open" /\ up' = up \o s))
         /\ NotWritten(s) => late' \/ (link = "reset" /\ link' = link)
         /\ link' \in {"none", "open", "closed", "resetting", "reset"}
         /\ (link' = "none" <=> link = "none") /\ (link' = "open" <=> link = "open")
<1>1. /\ up \in Seq(Unit) /\ inbox \in Seq(Unit) /\ Len(up) \in Nat /\ Len(inbox) \in Nat
      /\ Len(up) + Len(inbox) <= Buffer /\ late \in BOOLEAN
      /\ link \in {"none", "open", "closed", "resetting", "reset"} /\ Len(s) \in Nat
  BY DEF TypeOK
<1>2. Room \in Nat /\ Len(up) + Len(inbox) + Room = Buffer
  BY <1>1 DEF Room
<1>3. ASSUME link = "open", Len(s) <= Room, up' = up \o s
      PROVE  /\ up' \in Seq(Unit) /\ Len(up') + Len(inbox) <= Buffer
             /\ \E n \in 0 .. Len(s) : up' = up \o SubSeq(s, 1, n)
  <2>1. SubSeq(s, 1, Len(s)) = s
    BY SubSeqFull
  <2>2. up' \in Seq(Unit) /\ Len(up') = Len(up) + Len(s)
    BY <1>1, <1>3, ConcatProperties
  <2>3. Len(up') + Len(inbox) <= Buffer
    BY <1>1, <1>2, <1>3, <2>2
  <2>4. Len(s) \in 0 .. Len(s) /\ up' = up \o SubSeq(s, 1, Len(s))
    BY <1>1, <1>3, <2>1
  <2> QED
    BY <2>2, <2>3, <2>4
<1>4. ASSUME link = "open", Len(s) > Room, up' = up \o SubSeq(s, 1, Room)
      PROVE  /\ up' \in Seq(Unit) /\ Len(up') + Len(inbox) <= Buffer
             /\ \E n \in 0 .. Len(s) : up' = up \o SubSeq(s, 1, n)
  <2>1. Room \in 0 .. Len(s)
    BY <1>1, <1>2, <1>4
  <2>2. SubSeq(s, 1, Room) \in Seq(Unit) /\ Len(SubSeq(s, 1, Room)) = Room
    BY <2>1, CutOff
  <2>3. up' \in Seq(Unit) /\ Len(up') = Len(up) + Room
    BY <1>1, <1>4, <2>2, ConcatProperties
  <2>4. Len(up') + Len(inbox) <= Buffer
    BY <1>1, <1>2, <2>3
  <2> QED
    BY <1>4, <2>1, <2>3, <2>4
<1>5. CASE Written(s)
  BY <1>1, <1>3, <1>5 DEF Written, NotWritten
<1>6. CASE NotWritten(s)
  BY <1>1, <1>4, <1>6 DEF NotWritten, Written
<1> QED
  BY <1>5, <1>6

LEMMA WrittenUnits ==
  ASSUME NEW f \in Frame \cup {NoFrame}, f # NoFrame
  PROVE  <<Prefix(f)>> \in Seq(Unit) /\ Body(f) \in Seq(Unit)
  BY FrameUnits

\* The two writes of each thread are covered by Writes.
LEMMA MainWrites ==
  ASSUME SInv
  PROVE  /\ mpc # "new" => /\ call \in Frame /\ <<Prefix(call)>> \in Seq(Unit) /\ Body(call) \in Seq(Unit)
         /\ <<Prefix(Keepalive)>> \in Seq(Unit) /\ Body(Keepalive) \in Seq(Unit)
  BY FrameUnits, NoFrames DEF SInv, Control

\* The units of what is taken off a stream.
LEMMA Streams ==
  ASSUME TypeOK
  PROVE  /\ up \in Seq(Unit) /\ inbox \in Seq(Unit) /\ down \in Seq(Unit)
         /\ Len(up) \in Nat /\ Len(inbox) \in Nat /\ Len(down) \in Nat
         /\ Len(up) + Len(inbox) <= Buffer /\ Len(down) <= Buffer
         /\ Buffer \in Nat /\ BodyLen \in Nat /\ BodyLen > 0 /\ Buffer > BodyLen
         /\ \A n \in 0 .. TooLarge : n # TooLarge => n \in 0 .. Buffer
  BY DEF TypeOK, TooLarge

LEMMA HeadOff ==
  ASSUME NEW s \in Seq(Unit), s # <<>>
  PROVE  /\ Head(s) \in Unit /\ Head(s) = s[1] /\ Len(s) > 0
         /\ Tail(s) \in Seq(Unit) /\ Len(Tail(s)) = Len(s) - 1
         /\ \A i \in 1 .. Len(s) - 1 : Tail(s)[i] = s[i + 1]
<1>1. Head(s) \in Unit /\ Head(s) = s[1] /\ Len(s) > 0
  OBVIOUS
<1>2. /\ Tail(s) \in Seq(Unit) /\ Len(Tail(s)) = Len(s) - 1
      /\ \A i \in 1 .. Len(Tail(s)) : Tail(s)[i] = s[i + 1]
  BY HeadTailProperties
<1> QED
  BY <1>1, <1>2

LEMMA OneUnit ==
  ASSUME NEW u \in Unit
  PROVE  <<u>> \in Seq(Unit) /\ Len(<<u>>) = 1 /\ <<u>>[1] = u
  OBVIOUS

\* To read n units after the first is to cut off n + 1.
LEMMA CutTail ==
  ASSUME NEW s \in Seq(Unit), s # <<>>, NEW n \in 0 .. Len(Tail(s))
  PROVE  /\ n + 1 \in 1 .. Len(s) /\ n + 1 \in 0 .. Len(s)
         /\ SubSeq(Tail(s), n + 1, Len(Tail(s))) = SubSeq(s, (n + 1) + 1, Len(s))
<1>1. PICK r \in Seq(Unit) : /\ r = Tail(s) /\ Len(r) = Len(s) - 1
                             /\ \A i \in 1 .. Len(s) - 1 : r[i] = s[i + 1]
  BY HeadOff
<1>2. Len(s) \in Nat /\ Len(s) > 0 /\ n \in 0 .. Len(r) /\ n \in Nat /\ n + 1 \in 0 .. Len(s) /\ n + 1 \in 1 .. Len(s)
  BY <1>1, HeadOff
<1>3. PICK a \in Seq(Unit) : /\ a = SubSeq(r, n + 1, Len(r)) /\ Len(a) = Len(r) - n
                             /\ \A i \in 1 .. Len(r) - n : a[i] = r[n + i]
  BY <1>2, CutOff
<1>4. PICK b \in Seq(Unit) : /\ b = SubSeq(s, (n + 1) + 1, Len(s)) /\ Len(b) = Len(s) - (n + 1)
                             /\ \A i \in 1 .. Len(s) - (n + 1) : b[i] = s[(n + 1) + i]
  BY <1>2, CutOff
<1>40. /\ Len(s) \in Nat /\ Len(r) = Len(s) - 1 /\ n \in 0 .. Len(r)
       /\ Len(a) = Len(r) - n /\ Len(b) = Len(s) - (n + 1)
  BY <1>1, <1>2, <1>3, <1>4
<1>5. Len(a) = Len(b)
  BY <1>40
<1>6. ASSUME NEW i \in 1 .. Len(a) PROVE a[i] = b[i]
  <2>1. /\ i \in 1 .. Len(r) - n /\ n + i \in 1 .. Len(s) - 1 /\ i \in 1 .. Len(s) - (n + 1)
        /\ (n + i) + 1 = (n + 1) + i
    BY <1>40
  <2>2. a[i] = r[n + i] /\ r[n + i] = s[(n + i) + 1] /\ b[i] = s[(n + 1) + i]
    BY <1>1, <1>3, <1>4, <2>1
  <2> QED
    BY <2>1, <2>2
<1>7. a = b
  BY <1>5, <1>6, SeqEqual
<1> QED
  BY <1>1, <1>2, <1>3, <1>4, <1>7

\* A frame that the server takes to be whole begins with its prefix.
LEMMA ReadHead ==
  ASSUME NEW s \in Seq(Unit), s # <<>>, NEW n \in Nat, n <= Len(Tail(s)),
         <<Head(s)>> \o SubSeq(Tail(s), 1, n) = Units(Head(s)[1])
  PROVE  Head(s)[2] = 0
<1>1. /\ Head(s) \in Unit /\ Tail(s) \in Seq(Unit) /\ Len(Tail(s)) \in Nat
      /\ <<Head(s)>> \in Seq(Unit) /\ Len(<<Head(s)>>) = 1 /\ <<Head(s)>>[1] = Head(s)
  BY HeadOff, OneUnit
<1>2. n \in 0 .. Len(Tail(s))
  BY <1>1
<1>3. SubSeq(Tail(s), 1, n) \in Seq(Unit)
  BY <1>1, <1>2, CutOff
<1>4. (<<Head(s)>> \o SubSeq(Tail(s), 1, n))[1] = Head(s)
  BY <1>1, <1>3, ConcatProperties
<1>5. Head(s) = Prefix(Head(s)[1])
  BY <1>1, <1>4, UnitParts, FrameUnits
<1> QED
  BY <1>1, <1>5, UnitParts, FrameUnits, SMTT(30)

\* The lengths that a unit may stand for.
LEMMA LengthsSaid ==
  ASSUME NEW u \in Unit, NEW n \in Lengths(u)
  PROVE  /\ n \in 0 .. TooLarge /\ (u[2] = 0 => n = BodyLen /\ n # TooLarge)
         /\ n # TooLarge => n \in 0 .. Buffer
<1>1. TooLarge = Buffer + 1 /\ Buffer \in Nat /\ BodyLen \in Nat /\ Buffer > BodyLen
  BY DEF TooLarge
<1> QED
  BY <1>1 DEF Lengths

-----------------------------------------------------------------------------
(***************************************************************************)
(* Types.                                                                  *)
(***************************************************************************)
LEMMA InitTypes == Init => TypeOK
<1> SUFFICES ASSUME Init PROVE TypeOK
  OBVIOUS
<1>1. <<>> \in Seq(Unit) /\ Len(<<>>) = 0 /\ <<>> \in Seq(Frame \X Frame)
  OBVIOUS
<1>2. 0 \in 0 .. Buffer /\ 0 + 0 <= Buffer /\ 0 <= Buffer
  OBVIOUS
<1> QED
  BY <1>1, <1>2 DEF Init, TypeOK

\* The next request is a frame; Drop has one number more than the application.
LEMMA NextFrame ==
  ASSUME TypeOK, Control, NEW k \in {"config", "data", "disconnect"}, call[2] < MaxCalls \/ ~dropping
  PROVE  <<k, call[2] + 1>> \in Frame /\ call[2] \in Nat
<1>1. call[2] \in Nat
  BY Frames, NoFrames DEF TypeOK
<1>2. call[2] <= MaxCalls /\ MaxCalls \in Nat
  BY <1>1 DEF Control
<1>3. call[2] + 1 \in 1 .. MaxCalls + 1
  BY <1>1, <1>2
<1> QED
  BY <1>1, <1>3 DEF Frame

LEMMA NetworkTypes == ASSUME SInv, Network PROVE TypeOK'
<1>0. TypeOK
  BY DEF SInv
<1>1. CASE Deliver
  <2>1. inbox' = Append(inbox, Head(up)) /\ up' = Tail(up) /\ up # <<>>
    BY <1>1 DEF Deliver
  <2>2. /\ up' \in Seq(Unit) /\ inbox' \in Seq(Unit)
        /\ Len(up') = Len(up) - 1 /\ Len(inbox') = Len(inbox) + 1
    BY <1>0, <2>1, Streams, HeadOff
  <2>3. Len(up') + Len(inbox') <= Buffer
    BY <1>0, <2>2, Streams
  <2> QED
    BY <1>0, <1>1, <2>2, <2>3 DEF Deliver, TypeOK, clientVars, serverVars, historyVars
<1>2. CASE ResetArrives
  BY <1>0, <1>2 DEF ResetArrives, TypeOK, clientVars, serverVars, historyVars
<1> QED
  BY <1>1, <1>2 DEF Network

LEMMA MainTypes == ASSUME SInv, Main PROVE TypeOK'
<1>0. TypeOK /\ Control
  BY DEF SInv
<1>01. 0 \in 0 .. Buffer /\ NoFrame \in Frame \cup {NoFrame}
  OBVIOUS
<1>1. CASE Connect
  <2>1. <<"config", 1>> \in Frame
    BY DEF Frame
  <2> QED
    BY <1>0, <1>1, <2>1 DEF Connect, TypeOK, serverVars, historyVars
<1>2. ASSUME NEW k \in {"data", "disconnect"}, Request(k) PROVE TypeOK'
  <2>1. call' \in Frame
    BY <1>0, <1>2, NextFrame DEF Request
  <2> QED
    BY <1>0, <1>2, <2>1 DEF Request, TypeOK, streamVars, serverVars, historyVars
<1>3. CASE Drop
  <2>1. <<"disconnect", call[2] + 1>> \in Frame
    BY <1>0, <1>3, NextFrame DEF Drop, Control
  <2> QED
    BY <1>0, <1>3, <2>1 DEF Drop, TypeOK, streamVars, serverVars, historyVars
<1>4. ASSUME RequestFails PROVE /\ mpc' \in {"done", "ready"} /\ failed' \in BOOLEAN /\ want' \in 0 .. Buffer
                                /\ head' \in Frame \cup {NoFrame} /\ call' = call /\ results' = results
                                /\ UNCHANGED <<connected, dropping, kpc>>
  BY <1>0, <1>4 DEF RequestFails, TypeOK
<1>5. CASE WritePrefix
  <2>1. Written(<<Prefix(call)>>) \/ NotWritten(<<Prefix(call)>>)
    BY <1>5 DEF WritePrefix
  <2>2. /\ up' \in Seq(Unit) /\ Len(up') + Len(inbox) <= Buffer /\ late' \in BOOLEAN
        /\ link' \in {"none", "open", "closed", "resetting", "reset"}
    BY <1>0, <1>5, <2>1, MainWrites, Writes DEF WritePrefix
  <2>3. mixed' \in BOOLEAN
    BY <1>0, <1>5 DEF WritePrefix, Interleaves, TypeOK
  <2>4. CASE RequestFails
    BY <1>0, <1>4, <1>5, <2>2, <2>3, <2>4 DEF WritePrefix, TypeOK, serverVars
  <2>5. CASE ~RequestFails
    BY <1>0, <1>5, <2>2, <2>3, <2>5 DEF WritePrefix, TypeOK, serverVars
  <2> QED
    BY <2>4, <2>5
<1>6. CASE WriteBody
  <2>1. Written(Body(call)) \/ NotWritten(Body(call))
    BY <1>6 DEF WriteBody
  <2>2. /\ up' \in Seq(Unit) /\ Len(up') + Len(inbox) <= Buffer /\ late' \in BOOLEAN
        /\ link' \in {"none", "open", "closed", "resetting", "reset"}
    BY <1>0, <1>6, <2>1, MainWrites, Writes DEF WriteBody
  <2>4. CASE RequestFails
    BY <1>0, <1>4, <1>6, <2>2, <2>4 DEF WriteBody, TypeOK, serverVars
  <2>5. CASE ~RequestFails
    BY <1>0, <1>6, <2>2, <2>5 DEF WriteBody, TypeOK, serverVars
  <2> QED
    BY <2>4, <2>5
<1>7. CASE ReadPrefix
  <2>1. down # <<>> /\ down' = Tail(down)
    BY <1>7 DEF ReadPrefix
  <2>2. down' \in Seq(Unit) /\ Len(down') <= Buffer /\ Head(down) \in Unit
    BY <1>0, <2>1, Streams, HeadOff
  <2>3. PICK n \in Lengths(Head(down)) :
          IF n = TooLarge
          THEN RequestFails
          ELSE /\ want' = n /\ mpc' = "readBody"
               /\ head' = IF Head(down)[2] = 0 THEN Head(down)[1] ELSE NoFrame
               /\ UNCHANGED <<call, connected, dropping, kpc, results, failed>>
    BY <1>7 DEF ReadPrefix
  <2>4. UNCHANGED <<link, up, inbox, pend, ended, late, torn, mixed>>
    BY <1>7 DEF ReadPrefix, serverVars
  <2>5. CASE RequestFails
    BY <1>0, <1>4, <2>2, <2>4, <2>5 DEF TypeOK
  <2>6. CASE ~RequestFails
    <3>1. want' \in 0 .. Buffer /\ head' \in Frame \cup {NoFrame}
      BY <2>2, <2>3, <2>6, LengthsSaid, UnitParts
    <3> QED
      BY <1>0, <2>2, <2>3, <2>4, <2>6, <3>1 DEF TypeOK
  <2> QED
    BY <2>5, <2>6
<1>8. CASE ReadBody
  <2>1. want \in 0 .. Len(down) /\ down' = SubSeq(down, want + 1, Len(down))
    BY <1>0, <1>8, Streams DEF ReadBody, TypeOK
  <2>2. down' \in Seq(Unit) /\ Len(down') <= Buffer
    BY <1>0, <2>1, Streams, CutOff
  <2>3. UNCHANGED <<link, up, inbox, pend, ended, late, torn, mixed>>
    BY <1>8 DEF ReadBody, serverVars
  <2>4. CASE RequestFails
    BY <1>0, <1>4, <2>2, <2>3, <2>4 DEF TypeOK
  <2>5. CASE ~RequestFails
    <3>1. call \in Frame /\ head \in Frame /\ results' = Append(results, <<call, head>>)
      BY <1>0, <1>8, <2>5 DEF ReadBody, Control, TypeOK
    <3>2. results \in Seq(Frame \X Frame) /\ <<call, head>> \in Frame \X Frame
      BY <1>0, <3>1 DEF TypeOK
    <3>3. results' \in Seq(Frame \X Frame)
      BY <3>1, <3>2, AppendProperties
    <3>4. /\ mpc' = "ready" /\ connected' = TRUE /\ kpc' \in {"prefix", kpc}
          /\ want' = 0 /\ head' = NoFrame /\ UNCHANGED <<call, dropping, failed>>
      BY <1>8, <2>5 DEF ReadBody
    <3> QED
      BY <1>0, <2>2, <2>3, <3>3, <3>4 DEF TypeOK
  <2> QED
    BY <2>4, <2>5
<1>9. CASE ReadFails
  <2>1. down' \in Seq(Unit) /\ Len(down') <= Buffer /\ late' \in BOOLEAN
    BY <1>0, <1>9, Streams DEF ReadFails, TypeOK
  <2> QED
    BY <1>0, <1>4, <1>9, <2>1 DEF ReadFails, TypeOK, serverVars
<1>10. CASE Join
  BY <1>0, <1>10 DEF Join, TypeOK, streamVars, serverVars, historyVars
<1> QED
  BY <1>1, <1>2, <1>3, <1>5, <1>6, <1>7, <1>8, <1>9, <1>10 DEF Main, Progress

LEMMA KeepaliveTypes == ASSUME SInv, KeepaliveThread PROVE TypeOK'
<1>0. TypeOK
  BY DEF SInv
<1>1. CASE KeepalivePrefix
  <2>1. /\ up' \in Seq(Unit) /\ Len(up') + Len(inbox) <= Buffer /\ late' \in BOOLEAN
        /\ link' \in {"none", "open", "closed", "resetting", "reset"}
    BY <1>0, <1>1, MainWrites, Writes DEF KeepalivePrefix
  <2>2. mixed' \in BOOLEAN
    BY <1>0, <1>1 DEF KeepalivePrefix, Interleaves, TypeOK
  <2> QED
    BY <1>0, <1>1, <2>1, <2>2 DEF KeepalivePrefix, TypeOK, serverVars, clientVars
<1>2. CASE KeepaliveBody
  <2>1. /\ up' \in Seq(Unit) /\ Len(up') + Len(inbox) <= Buffer /\ late' \in BOOLEAN
        /\ link' \in {"none", "open", "closed", "resetting", "reset"}
    BY <1>0, <1>2, MainWrites, Writes DEF KeepaliveBody
  <2> QED
    BY <1>0, <1>2, <2>1 DEF KeepaliveBody, TypeOK, serverVars, clientVars
<1>3. CASE Wake
  BY <1>0, <1>3 DEF Wake, TypeOK, clientVars, streamVars, serverVars, historyVars
<1> QED
  BY <1>1, <1>2, <1>3 DEF KeepaliveThread

LEMMA CloseTypes ==
  ASSUME TypeOK, NEW why \in {"disconnect", "protocol", "evicted"}, NEW s, Close(why, s)
  PROVE  /\ up' \in Seq(Unit) /\ inbox' \in Seq(Unit) /\ Len(up') + Len(inbox') <= Buffer
         /\ link' \in {"closed", "resetting"} /\ ended' = why
<1>1. up' = <<>> /\ inbox' = <<>>
  BY DEF Close
<1>2. up' \in Seq(Unit) /\ inbox' \in Seq(Unit) /\ Len(up') = 0 /\ Len(inbox') = 0
  BY <1>1
<1>3. Len(up') + Len(inbox') <= Buffer
  BY <1>2
<1> QED
  BY <1>2, <1>3 DEF Close

LEMMA ServerTypes == ASSUME SInv, Server \/ Evict PROVE TypeOK'
<1>0. TypeOK
  BY DEF SInv
<1>1. CASE ServerRead
  <2> DEFINE u == Head(inbox)
             rest == Tail(inbox)
  <2>1. inbox # <<>> /\ u \in Unit /\ rest \in Seq(Unit) /\ Len(rest) = Len(inbox) - 1
    BY <1>0, <1>1, Streams, HeadOff DEF ServerRead
  <2>2. Len(rest) \in Nat /\ Len(rest) <= Len(inbox)
    BY <1>0, <2>1, Streams
  <2>3. PICK n \in Lengths(u) :
          \/ n = TooLarge /\ Close("protocol", rest \o up) /\ UNCHANGED <<pend, torn>>
          \/ /\ n # TooLarge /\ n > Len(rest)
             /\ inbox' = <<>> /\ torn' = TRUE /\ UNCHANGED <<up, link, pend, ended>>
          \/ /\ n <= Len(rest) /\ inbox' = SubSeq(rest, n + 1, Len(rest))
             /\ pend' = IF <<u>> \o SubSeq(rest, 1, n) = Units(u[1]) /\ Answered(u[1])
                        THEN u[1] ELSE NoFrame
             /\ UNCHANGED <<up, link, ended, torn>>
    BY <1>1 DEF ServerRead
  <2>4. UNCHANGED <<clientVars, kpc, down, results, failed, late, mixed>>
    BY <1>1 DEF ServerRead
  <2>5. CASE Close("protocol", rest \o up) /\ UNCHANGED <<pend, torn>>
    <3>1. /\ up' \in Seq(Unit) /\ inbox' \in Seq(Unit) /\ Len(up') + Len(inbox') <= Buffer
          /\ link' \in {"closed", "resetting"} /\ ended' = "protocol"
      BY <1>0, <2>5, CloseTypes
    <3> QED
      BY <1>0, <2>4, <2>5, <3>1 DEF TypeOK, clientVars
  <2>6. CASE inbox' = <<>> /\ torn' = TRUE /\ UNCHANGED <<up, link, pend, ended>>
    <3>1. inbox' \in Seq(Unit) /\ Len(inbox') = 0
      BY <2>6
    <3>2. Len(up') + Len(inbox') <= Buffer
      BY <1>0, <2>6, <3>1, Streams
    <3> QED
      BY <1>0, <2>4, <2>6, <3>1, <3>2 DEF TypeOK, clientVars
  <2>7. CASE /\ n <= Len(rest) /\ inbox' = SubSeq(rest, n + 1, Len(rest))
             /\ pend' \in {u[1], NoFrame} /\ UNCHANGED <<up, link, ended, torn>>
    <3>1. n \in 0 .. Len(rest)
      BY <2>1, <2>2, <2>7, LengthsSaid DEF TooLarge
    <3>2. inbox' \in Seq(Unit) /\ Len(inbox') = Len(rest) - n
      BY <2>1, <2>7, <3>1, CutOff
    <3>3. Len(up') + Len(inbox') <= Buffer
      BY <1>0, <2>2, <2>7, <3>1, <3>2, Streams
    <3>4. pend' \in Frame \cup {NoFrame}
      BY <2>1, <2>7, UnitParts
    <3>5. torn' \in BOOLEAN /\ late' \in BOOLEAN /\ mixed' \in BOOLEAN /\ failed' \in BOOLEAN
      BY <1>0, <2>4, <2>7 DEF TypeOK
    <3>6. link' = link /\ up' = up /\ ended' = ended
      BY <2>7
    <3> QED
      BY <1>0, <2>4, <3>2, <3>3, <3>4, <3>5, <3>6 DEF TypeOK, clientVars
  <2> QED
    BY <2>3, <2>5, <2>6, <2>7
<1>2. CASE ServerReply
  <2> DEFINE room == Buffer - Len(down)
  <2>1. pend \in Frame /\ pend' = NoFrame
    BY <1>0, <1>2 DEF ServerReply, Dealt, TypeOK
  <2>2. Units(pend) \in Seq(Unit) /\ Len(Units(pend)) \in Nat /\ room \in Nat /\ Len(down) \in Nat
    BY <1>0, <2>1, FrameUnits, Streams
  <2>3. UNCHANGED <<clientVars, kpc, historyVars>>
    BY <1>2 DEF ServerReply
  <2>4. down' \in Seq(Unit) /\ Len(down') <= Buffer
    <3>1. CASE Len(Units(pend)) <= room
      <4>1. down' = down \o Units(pend)
        BY <1>2, <3>1 DEF ServerReply
      <4>2. down' \in Seq(Unit) /\ Len(down') = Len(down) + Len(Units(pend))
        BY <1>0, <2>2, <4>1, Streams, ConcatProperties
      <4> QED
        BY <1>0, <2>2, <3>1, <4>2, Streams
    <3>2. CASE ~(Len(Units(pend)) <= room)
      <4>1. down' = down \o SubSeq(Units(pend), 1, room)
        BY <1>2, <3>2 DEF ServerReply
      <4>2. room \in 0 .. Len(Units(pend))
        BY <2>2, <3>2
      <4>3. SubSeq(Units(pend), 1, room) \in Seq(Unit) /\ Len(SubSeq(Units(pend), 1, room)) = room
        BY <2>2, <4>2, CutOff
      <4>4. down' \in Seq(Unit) /\ Len(down') = Len(down) + room
        BY <1>0, <4>1, <4>3, Streams, ConcatProperties
      <4> QED
        BY <1>0, <2>2, <4>4, Streams
    <3> QED
      BY <3>1, <3>2
  <2>5. CASE Close("disconnect", inbox \o up)
    <3>1. /\ up' \in Seq(Unit) /\ inbox' \in Seq(Unit) /\ Len(up') + Len(inbox') <= Buffer
          /\ link' \in {"closed", "resetting"} /\ ended' = "disconnect"
      BY <1>0, <2>5, CloseTypes
    <3> QED
      BY <1>0, <2>1, <2>3, <2>4, <3>1 DEF TypeOK, clientVars, historyVars
  <2>6. CASE UNCHANGED <<link, up, inbox, ended>>
    BY <1>0, <2>1, <2>3, <2>4, <2>6 DEF TypeOK, clientVars, historyVars
  <2> QED
    BY <1>2, <2>5, <2>6 DEF ServerReply
<1>3. CASE Evict
  <2>1. Close("evicted", inbox \o up) /\ pend' = NoFrame /\ UNCHANGED <<clientVars, kpc, down, historyVars>>
    BY <1>3 DEF Evict
  <2>2. /\ up' \in Seq(Unit) /\ inbox' \in Seq(Unit) /\ Len(up') + Len(inbox') <= Buffer
        /\ link' \in {"closed", "resetting"} /\ ended' = "evicted"
    BY <1>0, <2>1, CloseTypes
  <2> QED
    BY <1>0, <2>1, <2>2 DEF TypeOK, clientVars, historyVars
<1> QED
  BY <1>1, <1>2, <1>3 DEF Server

LEMMA TypesStep == ASSUME SInv, [Next]_vars PROVE TypeOK'
<1>1. CASE Terminated \/ UNCHANGED vars
  BY <1>1 DEF SInv, TypeOK, Terminated, vars, clientVars, streamVars, serverVars, historyVars
<1> QED
  BY <1>1, NetworkTypes, MainTypes, KeepaliveTypes, ServerTypes DEF Next

-----------------------------------------------------------------------------
(***************************************************************************)
(* Control and the connection.                                             *)
(***************************************************************************)
LEMMA ControlStep == ASSUME SInv, [Next]_vars PROVE Control'
<1>0. TypeOK /\ Control /\ LinkOK
  BY DEF SInv
<1>1. CASE Network \/ Server \/ Evict \/ Terminated \/ UNCHANGED vars
  <2>1. UNCHANGED clientVars /\ results' = results
    BY <1>1 DEF Network, Deliver, ResetArrives, Server, ServerRead, ServerReply, Evict, Terminated,
       vars, historyVars
  <2>2. link = "none" <=> link' = "none"
    BY <1>0, <1>1 DEF Network, Deliver, ResetArrives, Server, ServerRead, ServerReply, Evict,
       Terminated, vars, streamVars, Close, LinkOK
  <2> QED
    BY <1>0, <2>1, <2>2 DEF Control, clientVars
<1>2. CASE KeepaliveThread
  <2>1. UNCHANGED clientVars /\ results' = results
    BY <1>2 DEF KeepaliveThread, KeepalivePrefix, KeepaliveBody, Wake, historyVars
  <2>2. link = "none" <=> link' = "none"
    BY <1>0, <1>2, MainWrites, Writes DEF KeepaliveThread, KeepalivePrefix, KeepaliveBody, Wake,
       streamVars
  <2> QED
    BY <1>0, <2>1, <2>2 DEF Control, clientVars
<1>3. CASE Connect
  <2>1. <<"config", 1>> \in Frame \ {Keepalive} /\ 1 <= MaxCalls /\ <<"config", 1>>[2] = 1
    BY DEF Frame, Keepalive
  <2> QED
    BY <1>0, <1>3, <2>1, NoFrames DEF Connect, Control
<1>4. ASSUME NEW k \in {"data", "disconnect"}, Request(k) PROVE Control'
  <2>1. call' = <<k, call[2] + 1>> /\ call' \in Frame /\ call[2] \in Nat /\ call[2] < MaxCalls
    BY <1>0, <1>4, NextFrame DEF Request
  <2>2. call' # Keepalive /\ call'[2] <= MaxCalls
    BY <2>1 DEF Keepalive
  <2> QED
    BY <1>0, <1>4, <2>1, <2>2 DEF Request, Control, streamVars, historyVars
<1>5. CASE Drop
  <2>1. <<"disconnect", call[2] + 1>> \in Frame /\ <<"disconnect", call[2] + 1>> # Keepalive
    BY <1>0, <1>5, NextFrame DEF Drop, Control, Keepalive
  <2> QED
    BY <1>0, <1>5, <2>1 DEF Drop, Control, streamVars, historyVars
<1>6. CASE /\ mpc \in {"prefix", "body", "readPrefix", "readBody"} /\ RequestFails
           /\ (link' = "none" <=> link = "none")
  BY <1>0, <1>6 DEF RequestFails, Control
<1>7. CASE WritePrefix
  <2>1. (link' = "none" <=> link = "none") /\ mpc = "prefix"
    BY <1>0, <1>7, MainWrites, Writes DEF WritePrefix
  <2> QED
    BY <1>0, <1>6, <1>7, <2>1 DEF WritePrefix, Control
<1>8. CASE WriteBody
  <2>1. (link' = "none" <=> link = "none") /\ mpc = "body"
    BY <1>0, <1>8, MainWrites, Writes DEF WriteBody
  <2> QED
    BY <1>0, <1>6, <1>8, <2>1 DEF WriteBody, Control
<1>9. CASE ReadPrefix
  BY <1>0, <1>6, <1>9 DEF ReadPrefix, Control
<1>10. CASE ReadBody
  BY <1>0, <1>6, <1>10 DEF ReadBody, Control
<1>11. CASE ReadFails
  BY <1>0, <1>6, <1>11 DEF ReadFails, Control
<1>12. CASE Join
  BY <1>0, <1>12 DEF Join, Control, streamVars, historyVars
<1> QED
  BY <1>1, <1>2, <1>3, <1>4, <1>5, <1>7, <1>8, <1>9, <1>10, <1>11, <1>12 DEF Next, Main, Progress

\* What the server writes are units of the frame it answers.
LEMMA Replies ==
  ASSUME TypeOK, ServerReply
  PROVE  /\ pend \in Frame /\ pend' = NoFrame
         /\ \E n \in 0 .. BodyLen + 1 :
              /\ down' = down \o SubSeq(Units(pend), 1, n)
              /\ n = BodyLen + 1 => down' = down \o Units(pend)
              /\ n # BodyLen + 1 => UNCHANGED <<link, up, inbox, ended>>
         /\ Buffer - Len(down) >= BodyLen + 1 => down' = down \o Units(pend)
         /\ \/ Leaves(pend) /\ Close("disconnect", inbox \o up)
            \/ UNCHANGED <<link, up, inbox, ended>>
<1>1. pend \in Frame /\ pend' = NoFrame
  BY DEF TypeOK, ServerReply, Dealt
<1>2. Units(pend) \in Seq(Unit) /\ Len(Units(pend)) = BodyLen + 1 /\ SubSeq(Units(pend), 1, BodyLen + 1) = Units(pend)
  BY <1>1, FrameUnits, SubSeqFull
<1>3. CASE BodyLen + 1 <= Buffer - Len(down)
  <2>1. /\ down' = down \o Units(pend)
        /\ IF Leaves(pend) THEN Close("disconnect", inbox \o up) ELSE UNCHANGED <<link, up, inbox, ended>>
    BY <1>2, <1>3 DEF ServerReply
  <2>2. BodyLen + 1 \in 0 .. BodyLen + 1
    BY Streams
  <2> QED
    BY <1>1, <1>2, <2>1, <2>2
<1>4. CASE ~(BodyLen + 1 <= Buffer - Len(down))
  <2>1. /\ down' = down \o SubSeq(Units(pend), 1, Buffer - Len(down))
        /\ UNCHANGED <<link, up, inbox, ended>>
    BY <1>2, <1>4 DEF ServerReply
  <2>2. Buffer - Len(down) \in 0 .. BodyLen + 1 /\ Buffer - Len(down) # BodyLen + 1
    BY <1>4, Streams
  <2>3. ~(Buffer - Len(down) >= BodyLen + 1)
    BY <1>4, Streams
  <2> QED
    BY <1>1, <2>1, <2>2, <2>3
<1> QED
  BY <1>3, <1>4

LEMMA LinkStep == ASSUME SInv, [Next]_vars PROVE LinkOK'
<1>0. TypeOK /\ Control /\ LinkOK
  BY DEF SInv
<1>1. CASE Deliver
  BY <1>0, <1>1 DEF Deliver, LinkOK, serverVars
<1>2. CASE Connect
  BY <1>0, <1>2 DEF Connect, Control, LinkOK, serverVars
<1>3. ASSUME UNCHANGED <<inbox, down, pend, ended>>, NEW s \in Seq(Unit), Written(s) \/ NotWritten(s)
      PROVE  LinkOK'
  <2>1. /\ link # "open" => up' = up
        /\ (link' = "none" <=> link = "none") /\ (link' = "open" <=> link = "open")
    BY <1>0, <1>3, Writes
  <2> QED
    BY <1>0, <1>3, <2>1 DEF LinkOK
<1>4. CASE WritePrefix \/ WriteBody \/ KeepalivePrefix \/ KeepaliveBody
  <2>1. UNCHANGED <<inbox, down, pend, ended>>
    BY <1>4 DEF WritePrefix, WriteBody, KeepalivePrefix, KeepaliveBody, serverVars
  <2>2. CASE WritePrefix
    BY <1>0, <1>3, <2>1, <2>2, MainWrites DEF WritePrefix, Control
  <2>3. CASE WriteBody
    BY <1>0, <1>3, <2>1, <2>3, MainWrites DEF WriteBody, Control
  <2>4. CASE KeepalivePrefix
    BY <1>3, <2>1, <2>4, MainWrites DEF KeepalivePrefix
  <2>5. CASE KeepaliveBody
    BY <1>3, <2>1, <2>5, MainWrites DEF KeepaliveBody
  <2> QED
    BY <1>4, <2>2, <2>3, <2>4, <2>5
<1>5. ASSUME NEW k \in 0 .. Len(down), down' = SubSeq(down, k + 1, Len(down)), link # "none",
             UNCHANGED <<link, up, inbox, pend, ended>>
      PROVE  LinkOK'
  <2>1. Len(down') = Len(down) - k /\ \A i \in 1 .. Len(down) - k : down'[i] = down[k + i] /\ k + i \in 1 .. Len(down)
    BY <1>0, <1>5, Streams, CutOff
  <2> QED
    BY <1>0, <1>5, <2>1 DEF LinkOK
<1>6. CASE ReadPrefix
  <2>1. down # <<>> /\ down' = Tail(down) /\ UNCHANGED <<link, up, inbox, pend, ended>>
    BY <1>6 DEF ReadPrefix, serverVars
  <2>2. down' = SubSeq(down, 1 + 1, Len(down)) /\ 1 \in 0 .. Len(down) /\ link # "none"
    BY <1>0, <2>1, Streams, TailIsSubSeq DEF LinkOK
  <2> QED
    BY <1>5, <2>1, <2>2
<1>7. CASE ReadBody
  <2>1. want \in 0 .. Len(down) /\ down' = SubSeq(down, want + 1, Len(down)) /\ link # "none"
    BY <1>0, <1>7, Streams DEF ReadBody, TypeOK, Control
  <2>2. UNCHANGED <<link, up, inbox, pend, ended>>
    BY <1>7 DEF ReadBody, serverVars
  <2> QED
    BY <1>5, <2>1, <2>2
<1>8. CASE ReadFails
  <2>1. down' = <<>> /\ UNCHANGED <<link, up, inbox, pend, ended>>
    BY <1>8 DEF ReadFails, serverVars
  <2>2. Len(down') = 0
    BY <2>1
  <2> QED
    BY <1>0, <2>1, <2>2 DEF LinkOK
<1>9. CASE ServerRead
  <2>1. link = "open" /\ pend = NoFrame /\ down' = down
    BY <1>0, <1>9 DEF ServerRead, LinkOK
  <2>2. NoFrame # Keepalive /\ (pend' # NoFrame => pend' # Keepalive)
    BY <1>9, <2>1 DEF ServerRead, Answered, NoFrame, Keepalive
  <2> QED
    BY <1>0, <1>9, <2>1, <2>2 DEF ServerRead, LinkOK, Close
<1>10. CASE ServerReply
  <2>1. /\ pend \in Frame /\ pend' = NoFrame /\ pend # Keepalive /\ link = "open"
        /\ Units(pend) \in Seq(Unit) /\ Len(Units(pend)) = BodyLen + 1
        /\ \A i \in 1 .. BodyLen + 1 : Units(pend)[i][1] = pend
    <3>1. pend \in Frame /\ pend # NoFrame /\ pend' = NoFrame
      BY <1>0, <1>10, Replies, NoFrames
    <3>2. Units(pend)[1][1] = pend /\ \A i \in 2 .. BodyLen + 1 : Units(pend)[i][1] = pend
      BY <3>1, FrameUnits
    <3> QED
      BY <1>0, <3>1, <3>2, FrameUnits, Streams DEF LinkOK
  <2>2. PICK n \in 0 .. BodyLen + 1 : down' = down \o SubSeq(Units(pend), 1, n)
    BY <1>0, <1>10, Replies
  <2>3. /\ SubSeq(Units(pend), 1, n) \in Seq(Unit) /\ Len(SubSeq(Units(pend), 1, n)) = n
        /\ \A i \in 1 .. n : SubSeq(Units(pend), 1, n)[i] = Units(pend)[i]
    BY <2>1, CutOff
  <2>4. /\ Len(down') = Len(down) + n
        /\ \A i \in 1 .. Len(down) + n :
             down'[i] = IF i <= Len(down) THEN down[i] ELSE SubSeq(Units(pend), 1, n)[i - Len(down)]
    BY <1>0, <2>2, <2>3, Streams, ConcatProperties, SMTT(30)
  <2>5. \A i \in 1 .. Len(down') : down'[i][1] # Keepalive
    <3> SUFFICES ASSUME NEW i \in 1 .. Len(down') PROVE down'[i][1] # Keepalive
      OBVIOUS
    <3>1. CASE i <= Len(down)
      BY <1>0, <2>4, <3>1, Streams, SMTT(30) DEF LinkOK
    <3>2. CASE ~(i <= Len(down))
      <4>1. i - Len(down) \in 1 .. n /\ n <= BodyLen + 1 /\ i \in 1 .. Len(down) + n
        BY <1>0, <2>4, <3>2, Streams
      <4> QED
        BY <2>1, <2>3, <2>4, <3>2, <4>1
    <3> QED
      BY <3>1, <3>2
  <2>6. NoFrame # Keepalive
    BY DEF NoFrame, Keepalive
  <2>7. Close("disconnect", inbox \o up) \/ UNCHANGED <<link, up, inbox, ended>>
    BY <1>0, <1>10, Replies
  <2>8. CASE Close("disconnect", inbox \o up)
    BY <2>1, <2>5, <2>6, <2>8 DEF LinkOK, Close
  <2>9. CASE UNCHANGED <<link, up, inbox, ended>>
    BY <1>0, <2>1, <2>5, <2>6, <2>9 DEF LinkOK
  <2> QED
    BY <2>7, <2>8, <2>9
<1>11. CASE Evict
  <2>1. NoFrame # Keepalive
    BY DEF NoFrame, Keepalive
  <2> QED
    BY <1>0, <1>11, <2>1 DEF Evict, Close, LinkOK
<1>12. CASE ResetArrives
  BY <1>0, <1>12 DEF ResetArrives, LinkOK, serverVars
<1>13. CASE UNCHANGED <<streamVars, serverVars>>
  BY <1>0, <1>13 DEF LinkOK, streamVars, serverVars
<1>14. CASE Join \/ Drop \/ (\E k \in {"data", "disconnect"} : Request(k)) \/ Wake \/ Terminated \/ UNCHANGED vars
  BY <1>13, <1>14 DEF Join, Drop, Request, Wake, Terminated, vars
<1> QED
  BY <1>1, <1>2, <1>4, <1>6, <1>7, <1>8, <1>9, <1>10, <1>11, <1>12, <1>14
     DEF Next, Network, Main, Progress, KeepaliveThread, Server

-----------------------------------------------------------------------------
(***************************************************************************)
(* The order of the requests.                                              *)
(***************************************************************************)

\* The requests asked for in a part of a stream are asked for in the stream.
LEMMA AskedIn ==
  ASSUME NEW s, NEW f
  PROVE  f \in Asked(s) <=> \E i \in 1 .. Len(s) : Begins(s[i]) /\ f = s[i][1]
  BY DEF Asked

LEMMA AskedPart ==
  ASSUME NEW s \in Seq(Unit), NEW t \in Seq(Unit), NEW m \in Nat, m + Len(t) <= Len(s),
         \A i \in 1 .. Len(t) : t[i] = s[m + i]
  PROVE  Asked(t) \subseteq Asked(s) /\ (Increasing(s) => Increasing(t))
<1>1. Len(s) \in Nat /\ Len(t) \in Nat /\ \A i \in 1 .. Len(t) : m + i \in 1 .. Len(s)
  OBVIOUS
<1>2. ASSUME NEW f \in Asked(t) PROVE f \in Asked(s)
  <2>1. PICK i \in 1 .. Len(t) : Begins(t[i]) /\ f = t[i][1]
    BY <1>2, AskedIn
  <2>2. m + i \in 1 .. Len(s) /\ Begins(s[m + i]) /\ f = s[m + i][1]
    BY <1>1, <2>1
  <2> QED
    BY <2>2, AskedIn
<1>3. ASSUME Increasing(s), NEW i \in 1 .. Len(t), NEW j \in 1 .. Len(t), i < j, Begins(t[i]), Begins(t[j])
      PROVE  t[i][1][2] < t[j][1][2]
  <2>1. m + i \in 1 .. Len(s) /\ m + j \in 1 .. Len(s) /\ m + i < m + j
    BY <1>1, <1>3
  <2>2. t[i] = s[m + i] /\ t[j] = s[m + j]
    OBVIOUS
  <2> QED
    BY <1>3, <2>1, <2>2 DEF Increasing
<1> QED
  BY <1>2, <1>3 DEF Increasing

\* What is left after m units, and the first m units.
LEMMA AskedCut ==
  ASSUME NEW s \in Seq(Unit), NEW m \in 0 .. Len(s)
  PROVE  /\ Asked(SubSeq(s, m + 1, Len(s))) \subseteq Asked(s)
         /\ Asked(SubSeq(s, 1, m)) \subseteq Asked(s)
         /\ Increasing(s) => Increasing(SubSeq(s, m + 1, Len(s))) /\ Increasing(SubSeq(s, 1, m))
<1>1. Len(s) \in Nat /\ m \in Nat /\ 0 \in Nat /\ 0 + m <= Len(s) /\ m + (Len(s) - m) <= Len(s)
  OBVIOUS
<1>2. /\ SubSeq(s, m + 1, Len(s)) \in Seq(Unit) /\ Len(SubSeq(s, m + 1, Len(s))) = Len(s) - m
      /\ \A i \in 1 .. Len(s) - m : SubSeq(s, m + 1, Len(s))[i] = s[m + i]
      /\ SubSeq(s, 1, m) \in Seq(Unit) /\ Len(SubSeq(s, 1, m)) = m
      /\ \A i \in 1 .. m : SubSeq(s, 1, m)[i] = s[0 + i]
  BY CutOff
<1>3. Asked(SubSeq(s, m + 1, Len(s))) \subseteq Asked(s) /\ (Increasing(s) => Increasing(SubSeq(s, m + 1, Len(s))))
  BY <1>1, <1>2, AskedPart
<1>4. Asked(SubSeq(s, 1, m)) \subseteq Asked(s) /\ (Increasing(s) => Increasing(SubSeq(s, 1, m)))
  BY <1>1, <1>2, AskedPart
<1> QED
  BY <1>3, <1>4

LEMMA AskedJoin ==
  ASSUME NEW s \in Seq(Unit), NEW t \in Seq(Unit)
  PROVE  /\ Asked(s \o t) \subseteq Asked(s) \cup Asked(t)
         /\ Increasing(s) /\ Increasing(t) /\ AllBelow(Asked(s), Asked(t)) => Increasing(s \o t)
<1>1. /\ Len(s) \in Nat /\ Len(t) \in Nat /\ Len(s \o t) = Len(s) + Len(t)
      /\ \A i \in 1 .. Len(s \o t) : (s \o t)[i] = IF i <= Len(s) THEN s[i] ELSE t[i - Len(s)]
  BY ConcatProperties
<1>2. ASSUME NEW i \in 1 .. Len(s \o t)
      PROVE  \/ i \in 1 .. Len(s) /\ (s \o t)[i] = s[i]
             \/ i > Len(s) /\ i - Len(s) \in 1 .. Len(t) /\ (s \o t)[i] = t[i - Len(s)]
  BY <1>1
<1>3. ASSUME NEW f \in Asked(s \o t) PROVE f \in Asked(s) \cup Asked(t)
  <2>1. PICK i \in 1 .. Len(s \o t) : Begins((s \o t)[i]) /\ f = (s \o t)[i][1]
    BY <1>3, AskedIn, ZenonT(60)
  <2> QED
    BY <1>2, <2>1, AskedIn
<1>4. ASSUME Increasing(s), Increasing(t), AllBelow(Asked(s), Asked(t)),
             NEW i \in 1 .. Len(s \o t), NEW j \in 1 .. Len(s \o t), i < j,
             Begins((s \o t)[i]), Begins((s \o t)[j])
      PROVE  (s \o t)[i][1][2] < (s \o t)[j][1][2]
  <2>1. CASE i \in 1 .. Len(s) /\ (s \o t)[i] = s[i] /\ j \in 1 .. Len(s) /\ (s \o t)[j] = s[j]
    BY <1>4, <2>1 DEF Increasing
  <2>2. CASE /\ i \in 1 .. Len(s) /\ (s \o t)[i] = s[i]
             /\ j - Len(s) \in 1 .. Len(t) /\ (s \o t)[j] = t[j - Len(s)]
    <3>1. s[i][1] \in Asked(s) /\ t[j - Len(s)][1] \in Asked(t)
      BY <1>4, <2>2, AskedIn
    <3> QED
      BY <1>4, <2>2, <3>1 DEF AllBelow
  <2>3. CASE /\ i - Len(s) \in 1 .. Len(t) /\ (s \o t)[i] = t[i - Len(s)]
             /\ j - Len(s) \in 1 .. Len(t) /\ (s \o t)[j] = t[j - Len(s)]
    <3>1. i - Len(s) < j - Len(s)
      BY <1>1, <1>4
    <3> QED
      BY <1>4, <2>3, <3>1 DEF Increasing
  <2>4. ~(i > Len(s) /\ j \in 1 .. Len(s))
    BY <1>1, <1>4
  <2> QED
    BY <1>2, <2>1, <2>2, <2>3, <2>4
<1> QED
  BY <1>3, <1>4 DEF Increasing

\* The request at the head of a stream comes before the others.
LEMMA AskedFirst ==
  ASSUME NEW s \in Seq(Unit), s # <<>>, Begins(Head(s)), NEW m \in 1 .. Len(s)
  PROVE  /\ Head(s)[1] \in Asked(s)
         /\ Increasing(s) => AllBelow({Head(s)[1]}, Asked(SubSeq(s, m + 1, Len(s))))
<1>1. Head(s) = s[1] /\ Len(s) \in Nat /\ Len(s) > 0 /\ m \in 0 .. Len(s)
  OBVIOUS
<1>2. Head(s)[1] \in Asked(s)
  BY <1>1, AskedIn
<1>3. ASSUME Increasing(s), NEW g \in Asked(SubSeq(s, m + 1, Len(s)))
      PROVE  Head(s)[1][2] < g[2]
  <2>1. /\ Len(SubSeq(s, m + 1, Len(s))) = Len(s) - m
        /\ \A i \in 1 .. Len(s) - m : SubSeq(s, m + 1, Len(s))[i] = s[m + i]
    BY <1>1, CutOff
  <2>0. PICK i \in 1 .. Len(SubSeq(s, m + 1, Len(s))) :
          Begins(SubSeq(s, m + 1, Len(s))[i]) /\ g = SubSeq(s, m + 1, Len(s))[i][1]
    BY <1>3, AskedIn
  <2>2. i \in 1 .. Len(s) - m /\ Begins(s[m + i]) /\ g = s[m + i][1]
    BY <2>0, <2>1
  <2>3. 1 \in 1 .. Len(s) /\ m + i \in 1 .. Len(s) /\ 1 < m + i
    BY <1>1
  <2> QED
    BY <1>1, <1>3, <2>2, <2>3 DEF Increasing
<1> QED
  BY <1>2, <1>3 DEF AllBelow

\* What a frame asks for: a body nothing, a keepalive nothing.
LEMMA AskedUnits ==
  ASSUME NEW f \in Frame
  PROVE  /\ Asked(Body(f)) = {} /\ Increasing(Body(f))
         /\ Asked(<<Prefix(f)>>) \subseteq {f} \ {Keepalive} /\ Increasing(<<Prefix(f)>>)
         /\ Asked(Units(f)) \subseteq {f} \ {Keepalive} /\ Increasing(Units(f))
<1>1. BodyLen \in Nat /\ \A i \in 1 .. BodyLen : ~Begins(Body(f)[i])
  BY FrameUnits DEF Begins
<1>2. Asked(Body(f)) = {} /\ Increasing(Body(f))
  BY <1>1, FrameUnits DEF Asked, Increasing
<1>3. Begins(Prefix(f)) => f # Keepalive
  BY FrameUnits DEF Begins
<1>4. Asked(<<Prefix(f)>>) \subseteq {f} \ {Keepalive} /\ Increasing(<<Prefix(f)>>)
  <2>1. /\ Len(<<Prefix(f)>>) = 1 /\ \A i \in 1 .. 1 : <<Prefix(f)>>[i] = Prefix(f) /\ i = 1
        /\ Prefix(f)[1] = f
    BY FrameUnits
  <2>2. ASSUME NEW g \in Asked(<<Prefix(f)>>) PROVE g \in {f} \ {Keepalive}
    BY <1>3, <2>1, <2>2, FrameUnits, AskedIn
  <2> QED
    BY <2>1, <2>2 DEF Increasing
<1>5. AllBelow(Asked(<<Prefix(f)>>), Asked(Body(f)))
  BY <1>2 DEF AllBelow
<1>6. Asked(Units(f)) \subseteq {f} \ {Keepalive} /\ Increasing(Units(f))
  BY <1>2, <1>4, <1>5, FrameUnits, AskedJoin DEF Units
<1> QED
  BY <1>2, <1>4, <1>6

LEMMA AskedNone == Asked(<<>>) = {} /\ Increasing(<<>>) /\ Only(NoFrame) = {}
<1>1. Len(<<>>) = 0 /\ 1 .. 0 = {}
  OBVIOUS
<1> QED
  BY <1>1 DEF Asked, Increasing, Only

\* Requests are frames.
LEMMA AskedFrames ==
  ASSUME NEW s \in Seq(Unit), NEW f \in Asked(s)
  PROVE  f \in Frame \ {Keepalive} /\ f[2] \in Nat
<1>1. PICK i \in 1 .. Len(s) : Begins(s[i]) /\ f = s[i][1]
  BY AskedIn
<1>2. s[i] \in Unit
  OBVIOUS
<1> QED
  BY <1>1, <1>2, UnitParts, Frames DEF Begins

\* The places a request passes are sets of frames.
LEMMA Places ==
  ASSUME TypeOK, LinkOK
  PROVE  \A f \in Returned \cup Only(head) \cup Open : f \in Frame /\ f[2] \in Nat
<1>1. \A f \in Asked(up) \cup Asked(inbox) \cup Asked(down) : f \in Frame /\ f[2] \in Nat
  BY Streams, AskedFrames
<1>2. \A f \in Only(head) \cup Only(pend) : f \in Frame /\ f[2] \in Nat
  BY Frames DEF TypeOK, Only
<1>3. ASSUME NEW i \in 1 .. Len(results) PROVE results[i][2] \in Frame /\ results[i][2][2] \in Nat
  <2>1. results[i] \in Frame \X Frame
    BY DEF TypeOK
  <2> QED
    BY <2>1, Frames
<1> QED
  BY <1>1, <1>2, <1>3 DEF Returned, Open, Sent

\* The number of the request the main thread is at grows.
CallNumber ==
  \/ call' = call /\ (mpc' = "prefix" => mpc = "prefix")
  \/ call'[2] = call[2] + 1

\* Requests that stay where they are or vanish stay in order.
LEMMA OrderKept ==
  ASSUME TypeOK, LinkOK, Order, CallNumber,
         results' = results, Only(head') \subseteq Only(head), Only(pend') \subseteq Only(pend),
         Asked(down') \subseteq Asked(down) /\ Increasing(down'),
         Asked(inbox') \subseteq Asked(inbox) /\ Increasing(inbox'),
         Asked(up') \subseteq Asked(up) /\ Increasing(up')
  PROVE  Order'
<1>1. call[2] \in Nat /\ \A f \in Returned \cup Only(head) \cup Open : f[2] \in Nat
  BY Places, Frames, NoFrames DEF TypeOK
<1>2. Returned' = Returned
  BY DEF Returned
<1>3. Open' \subseteq Open /\ Sent' \subseteq Sent
  BY DEF Open, Sent
<1>4. /\ AllBelow(Asked(inbox'), Asked(up')) /\ AllBelow(Only(pend'), Sent')
      /\ AllBelow(Asked(down'), Only(pend') \cup Sent') /\ AllBelow(Only(head'), Open')
      /\ AllBelow(Returned', Only(head') \cup Open')
  BY <1>2, <1>3 DEF Order, AllBelow
<1>5. ASSUME NEW f \in Returned' \cup Only(head') \cup Open'
      PROVE  f[2] <= call'[2] /\ (f[2] = call'[2] => f = call' /\ mpc' # "prefix")
  <2>1. f \in Returned \cup Only(head) \cup Open /\ f[2] <= call[2] /\ (f[2] = call[2] => f = call /\ mpc # "prefix")
    BY <1>2, <1>3, <1>5 DEF Order
  <2> QED
    BY <1>1, <2>1 DEF CallNumber
<1> QED
  BY <1>4, <1>5 DEF Order

\* What the threads write asks for the request of the main thread, if for any.
LEMMA WritesAsk ==
  ASSUME SInv, WritePrefix \/ WriteBody \/ KeepalivePrefix \/ KeepaliveBody
  PROVE  /\ Increasing(up')
         /\ \/ Asked(up') \subseteq Asked(up)
            \/ mpc = "prefix" /\ mpc' = "body" /\ Asked(up') \subseteq Asked(up) \cup {call}
         /\ AllBelow(Asked(inbox), Asked(up')) /\ UNCHANGED <<inbox, down, pend, results, call>>
         /\ head' = head \/ head' = NoFrame
         /\ mpc' # "prefix" \/ mpc' = mpc
<1>0. TypeOK /\ Control /\ LinkOK /\ Order
  BY DEF SInv
<1>01. up \in Seq(Unit) /\ Increasing(up) /\ AllBelow(Asked(inbox), Asked(up))
  BY <1>0, Streams DEF Order
<1>1. ASSUME NEW s \in Seq(Unit), Written(s) \/ NotWritten(s), NEW G, Asked(s) \subseteq G, Increasing(s),
             AllBelow(Asked(inbox) \cup Asked(up), G)
      PROVE  Increasing(up') /\ Asked(up') \subseteq Asked(up) \cup G /\ AllBelow(Asked(inbox), Asked(up'))
  <2>1. CASE up' = up
    BY <1>01, <2>1
  <2>2. ASSUME NEW n \in 0 .. Len(s), up' = up \o SubSeq(s, 1, n)
        PROVE  Increasing(up') /\ Asked(up') \subseteq Asked(up) \cup G
    <3>1. /\ SubSeq(s, 1, n) \in Seq(Unit) /\ Increasing(SubSeq(s, 1, n))
          /\ Asked(SubSeq(s, 1, n)) \subseteq G
      BY <1>1, CutOff, AskedCut
    <3>2. AllBelow(Asked(up), Asked(SubSeq(s, 1, n)))
      BY <1>1, <3>1 DEF AllBelow
    <3>3. PICK t \in Seq(Unit) : t = SubSeq(s, 1, n)
      BY <3>1
    <3>4. up' = up \o t /\ Increasing(t) /\ AllBelow(Asked(up), Asked(t)) /\ Asked(t) \subseteq G
      BY <2>2, <3>1, <3>2, <3>3
    <3>5. Asked(up \o t) \subseteq Asked(up) \cup Asked(t) /\ Increasing(up \o t)
      BY <1>01, <3>4, AskedJoin
    <3> QED
      BY <3>4, <3>5
  <2>3. Increasing(up') /\ Asked(up') \subseteq Asked(up) \cup G
    <3>1. up' = up \/ \E n \in 0 .. Len(s) : up' = up \o SubSeq(s, 1, n)
      BY <1>0, <1>1, Writes
    <3> QED
      BY <1>01, <2>2, <3>1
  <2> QED
    BY <1>01, <1>1, <2>3 DEF AllBelow
<1>2. ASSUME NEW f \in Frame, Written(Body(f)) \/ NotWritten(Body(f))
      PROVE  Increasing(up') /\ Asked(up') \subseteq Asked(up) /\ AllBelow(Asked(inbox), Asked(up'))
  <2>1. Body(f) \in Seq(Unit) /\ Asked(Body(f)) \subseteq {} /\ Increasing(Body(f))
    BY FrameUnits, AskedUnits
  <2>2. AllBelow(Asked(inbox) \cup Asked(up), {})
    BY DEF AllBelow
  <2> QED
    BY <1>1, <1>2, <2>1, <2>2
<1>3. CASE WriteBody
  <2>1. Increasing(up') /\ Asked(up') \subseteq Asked(up) /\ AllBelow(Asked(inbox), Asked(up'))
    BY <1>0, <1>2, <1>3 DEF WriteBody, Control
  <2>2. UNCHANGED <<inbox, down, pend, results, call>> /\ head' \in {head, NoFrame} /\ mpc' # "prefix"
    BY <1>3 DEF WriteBody, RequestFails, serverVars
  <2> QED
    BY <2>1, <2>2
<1>4. CASE KeepaliveBody
  <2>1. Increasing(up') /\ Asked(up') \subseteq Asked(up) /\ AllBelow(Asked(inbox), Asked(up'))
    BY <1>2, <1>4, NoFrames DEF KeepaliveBody
  <2>2. UNCHANGED <<inbox, down, pend, results, call, head, mpc>>
    BY <1>4 DEF KeepaliveBody, clientVars, serverVars
  <2> QED
    BY <2>1, <2>2
<1>5. CASE KeepalivePrefix
  <2>1. /\ <<Prefix(Keepalive)>> \in Seq(Unit) /\ Asked(<<Prefix(Keepalive)>>) \subseteq {}
        /\ Increasing(<<Prefix(Keepalive)>>)
    BY NoFrames, FrameUnits, AskedUnits
  <2>2. AllBelow(Asked(inbox) \cup Asked(up), {})
    BY DEF AllBelow
  <2>3. Written(<<Prefix(Keepalive)>>) \/ NotWritten(<<Prefix(Keepalive)>>)
    BY <1>5 DEF KeepalivePrefix
  <2>4. Increasing(up') /\ Asked(up') \subseteq Asked(up) \cup {} /\ AllBelow(Asked(inbox), Asked(up'))
    BY <1>1, <2>1, <2>2, <2>3
  <2>5. UNCHANGED <<inbox, down, pend, results, call, head, mpc>>
    BY <1>5 DEF KeepalivePrefix, clientVars, serverVars
  <2> QED
    BY <2>4, <2>5
<1>6. CASE WritePrefix
  <2>1. /\ call \in Frame /\ <<Prefix(call)>> \in Seq(Unit) /\ Asked(<<Prefix(call)>>) \subseteq {call}
        /\ Increasing(<<Prefix(call)>>) /\ Len(<<Prefix(call)>>) = 1 /\ mpc = "prefix"
    BY <1>0, <1>6, FrameUnits, AskedUnits DEF WritePrefix, Control
  <2>2. AllBelow(Asked(inbox) \cup Asked(up), {call})
    <3> SUFFICES ASSUME NEW f \in Asked(inbox) \cup Asked(up) PROVE f[2] < call[2]
      BY DEF AllBelow
    <3>1. f \in Returned \cup Only(head) \cup Open
      BY DEF Open, Sent
    <3>2. f[2] <= call[2] /\ f[2] # call[2]
      BY <1>0, <2>1, <3>1 DEF Order
    <3>3. f[2] \in Nat /\ call[2] \in Nat
      BY <1>0, <2>1, <3>1, Places, Frames
    <3> QED
      BY <3>2, <3>3
  <2>3. Written(<<Prefix(call)>>) \/ NotWritten(<<Prefix(call)>>)
    BY <1>6 DEF WritePrefix
  <2>4. Increasing(up') /\ Asked(up') \subseteq Asked(up) \cup {call} /\ AllBelow(Asked(inbox), Asked(up'))
    BY <1>1, <2>1, <2>2, <2>3
  <2>5. UNCHANGED <<inbox, down, pend, results, call>> /\ head' \in {head, NoFrame} /\ mpc' # "prefix"
    BY <1>6 DEF WritePrefix, RequestFails, serverVars
  <2>6. mpc' = "body" \/ up' = up
    <3>1. CASE NotWritten(<<Prefix(call)>>)
      <4>1. up' = up \/ (1 > Room /\ up' = up \o SubSeq(<<Prefix(call)>>, 1, Room))
        BY <2>1, <3>1 DEF NotWritten
      <4>2. Room \in Nat
        BY <1>0, Streams DEF Room
      <4>3. SubSeq(<<Prefix(call)>>, 1, 0) = <<>>
        BY SubSeqEmpty
      <4>4. up \o <<>> = up
        BY <1>01, ConcatEmptySeq
      <4>5. up' = up \/ Room = 0
        BY <4>1, <4>2
      <4> QED
        BY <4>1, <4>3, <4>4, <4>5
    <3>2. CASE ~NotWritten(<<Prefix(call)>>)
      BY <1>6, <3>2 DEF WritePrefix
    <3> QED
      BY <3>1, <3>2
  <2> QED
    BY <2>1, <2>4, <2>5, <2>6
<1> QED
  BY <1>3, <1>4, <1>5, <1>6

LEMMA ClientOrder == ASSUME SInv, Main \/ KeepaliveThread PROVE Order'
<1>0. TypeOK /\ Control /\ LinkOK /\ Order
  BY DEF SInv
<1>01. /\ Increasing(down) /\ Increasing(inbox) /\ Increasing(up) /\ Only(NoFrame) = {}
       /\ call[2] \in Nat /\ down \in Seq(Unit)
  BY <1>0, AskedNone, Streams, Frames, NoFrames DEF Order, TypeOK
<1>1. CASE WritePrefix \/ WriteBody \/ KeepalivePrefix \/ KeepaliveBody
  <2>1. /\ Increasing(up') /\ AllBelow(Asked(inbox), Asked(up'))
        /\ UNCHANGED <<inbox, down, pend, results, call>>
        /\ Only(head') \subseteq Only(head) /\ (mpc' # "prefix" \/ mpc' = mpc)
        /\ \/ Asked(up') \subseteq Asked(up)
           \/ mpc = "prefix" /\ mpc' = "body" /\ Asked(up') \subseteq Asked(up) \cup {call}
    BY <1>01, <1>1, WritesAsk DEF Only
  <2>2. CASE Asked(up') \subseteq Asked(up)
    <3>1. CallNumber
      BY <2>1 DEF CallNumber
    <3> QED
      BY <1>0, <1>01, <2>1, <2>2, <3>1, OrderKept
  <2>3. CASE mpc = "prefix" /\ mpc' = "body" /\ Asked(up') \subseteq Asked(up) \cup {call}
    <3>1. \A f \in Returned \cup Only(head) \cup Open : f[2] < call[2] /\ f[2] <= call[2]
      BY <1>0, <1>01, <2>3, Places DEF Order
    <3>2. Returned' = Returned /\ Open' \subseteq Open \cup {call} /\ Sent' \subseteq Sent \cup {call}
      BY <2>1, <2>3 DEF Returned, Open, Sent
    <3>3. /\ AllBelow(Only(pend), Sent \cup {call})
          /\ AllBelow(Asked(down), (Only(pend) \cup Sent) \cup {call})
          /\ AllBelow(Only(head), Open \cup {call})
          /\ AllBelow(Returned, (Only(head) \cup Open) \cup {call})
      BY <1>0, <3>1 DEF Order, AllBelow, Open
    <3>4. /\ AllBelow(Only(pend'), Sent') /\ AllBelow(Asked(down'), Only(pend') \cup Sent')
          /\ AllBelow(Only(head'), Open') /\ AllBelow(Returned', Only(head') \cup Open')
      BY <2>1, <3>2, <3>3 DEF AllBelow
    <3>5. \A f \in Returned' \cup Only(head') \cup Open' :
            f[2] <= call'[2] /\ (f[2] = call'[2] => f = call' /\ mpc' # "prefix")
      <4> SUFFICES ASSUME NEW f \in Returned' \cup Only(head') \cup Open'
                   PROVE  f[2] <= call'[2] /\ (f[2] = call'[2] => f = call' /\ mpc' # "prefix")
        OBVIOUS
      <4>1. f = call \/ f \in Returned \cup Only(head) \cup Open
        BY <2>1, <3>2
      <4> QED
        BY <1>01, <2>1, <2>3, <3>1, <4>1
    <3> QED
      BY <1>01, <2>1, <3>4, <3>5 DEF Order
  <2> QED
    BY <2>1, <2>2, <2>3
<1>2. ASSUME NEW m \in 0 .. Len(down), down' = SubSeq(down, m + 1, Len(down)) \/ down' = <<>>,
             UNCHANGED <<up, inbox, pend, call, results>>, Only(head') \subseteq Only(head), mpc' # "prefix"
      PROVE  Order'
  <2>1. Asked(down') \subseteq Asked(down) /\ Increasing(down')
    <3>1. CASE down' = SubSeq(down, m + 1, Len(down))
      BY <1>01, <3>1, AskedCut
    <3>2. CASE down' = <<>>
      BY <3>2, AskedNone
    <3> QED
      BY <1>2, <3>1, <3>2
  <2>2. CallNumber
    BY <1>2 DEF CallNumber
  <2> QED
    BY <1>0, <1>01, <1>2, <2>1, <2>2, OrderKept
<1>3. CASE ReadPrefix
  <2>1. /\ down # <<>> /\ down' = SubSeq(down, 1 + 1, Len(down)) /\ 1 \in 0 .. Len(down) /\ 1 \in 1 .. Len(down)
        /\ Head(down) \in Unit /\ Head(down) = down[1] /\ 1 \in 1 .. Len(down)
    BY <1>0, <1>3, Streams, TailIsSubSeq, HeadOff DEF ReadPrefix
  <2>2. /\ UNCHANGED <<up, inbox, pend, call, results>> /\ mpc' # "prefix" /\ mpc = "readPrefix"
        /\ head' = NoFrame \/ (head' = Head(down)[1] /\ Head(down)[2] = 0)
    BY <1>3 DEF ReadPrefix, RequestFails, serverVars
  <2>3. CASE head' = NoFrame
    BY <1>01, <1>2, <2>1, <2>2, <2>3
  <2>4. CASE head' = Head(down)[1] /\ Head(down)[2] = 0
    <3>1. head = NoFrame /\ Begins(Head(down)) /\ head' \in Frame
      BY <1>0, <2>1, <2>2, <2>4, UnitParts DEF Control, LinkOK, Begins
    <3>2. head' \in Asked(down) /\ AllBelow({head'}, Asked(down')) /\ Only(head') = {head'}
      BY <1>01, <2>1, <2>4, <3>1, AskedFirst, Frames DEF Only
    <3>3. Asked(down') \subseteq Asked(down) /\ Increasing(down')
      BY <1>01, <2>1, AskedCut
    <3>4. Returned' = Returned /\ Sent' = Sent /\ Open' \subseteq Open /\ Only(head') \subseteq Open
      BY <2>2, <3>2, <3>3 DEF Returned, Sent, Open
    <3>5. AllBelow(Only(head'), Open')
      <4> SUFFICES ASSUME NEW g \in Open' PROVE head'[2] < g[2]
        BY <3>2 DEF AllBelow
      <4>1. g \in Asked(down') \/ g \in Only(pend) \cup Sent
        BY <2>2, <3>4 DEF Open
      <4> QED
        BY <1>0, <3>2, <4>1 DEF Order, AllBelow
    <3>6. /\ AllBelow(Asked(inbox'), Asked(up')) /\ AllBelow(Only(pend'), Sent')
          /\ AllBelow(Asked(down'), Only(pend') \cup Sent') /\ AllBelow(Returned', Only(head') \cup Open')
      BY <1>0, <2>2, <3>3, <3>4 DEF Order, AllBelow
    <3>7. \A f \in Returned' \cup Only(head') \cup Open' :
            f[2] <= call'[2] /\ (f[2] = call'[2] => f = call' /\ mpc' # "prefix")
      BY <1>0, <2>2, <3>4 DEF Order
    <3> QED
      BY <1>01, <2>2, <3>3, <3>5, <3>6, <3>7 DEF Order
  <2> QED
    BY <2>2, <2>3, <2>4
<1>4. CASE ReadBody
  <2>1. /\ want \in 0 .. Len(down) /\ down' = SubSeq(down, want + 1, Len(down))
        /\ UNCHANGED <<up, inbox, pend, call>> /\ mpc' # "prefix" /\ head' = NoFrame
    BY <1>0, <1>4, Streams DEF ReadBody, RequestFails, TypeOK, serverVars
  <2>2. CASE results' = results
    BY <1>01, <1>2, <2>1, <2>2
  <2>3. CASE head # NoFrame /\ results' = Append(results, <<call, head>>)
    <3>1. Returned' \subseteq Returned \cup Only(head)
      <4>1. results \in Seq(Frame \X Frame) /\ <<call, head>> \in Frame \X Frame
        BY <1>0, <1>4, <2>3 DEF TypeOK, Control, ReadBody
      <4>2. /\ Len(results') = Len(results) + 1 /\ Len(results) \in Nat
            /\ \A i \in 1 .. Len(results) : results'[i] = results[i]
            /\ results'[Len(results) + 1] = <<call, head>>
        BY <2>3, <4>1, AppendProperties
      <4>3. ASSUME NEW i \in 1 .. Len(results') PROVE results'[i][2] \in Returned \cup {head}
        <5>1. i \in 1 .. Len(results) \/ i = Len(results) + 1
          BY <4>2
        <5> QED
          BY <4>2, <5>1 DEF Returned
      <4> QED
        BY <2>3, <4>3 DEF Returned, Only
    <3>2. Only(head') = {} /\ Asked(down') \subseteq Asked(down) /\ Increasing(down') /\ Sent' = Sent
      BY <1>01, <2>1, AskedCut DEF Sent
    <3>3. Open' \subseteq Open
      BY <2>1, <3>2 DEF Open
    <3>4. /\ AllBelow(Asked(inbox'), Asked(up')) /\ AllBelow(Only(pend'), Sent')
          /\ AllBelow(Asked(down'), Only(pend') \cup Sent') /\ AllBelow(Only(head'), Open')
      BY <1>0, <2>1, <3>2 DEF Order, AllBelow
    <3>5. AllBelow(Returned', Only(head') \cup Open')
      BY <1>0, <3>1, <3>2, <3>3 DEF Order, AllBelow
    <3>6. \A f \in Returned' \cup Only(head') \cup Open' :
            f[2] <= call'[2] /\ (f[2] = call'[2] => f = call' /\ mpc' # "prefix")
      <4>1. ASSUME NEW f \in Returned' \cup Only(head') \cup Open'
            PROVE  f \in Returned \cup Only(head) \cup Open
        BY <3>1, <3>2, <3>3, <4>1
      <4> QED
        BY <1>0, <1>4, <2>1, <4>1 DEF Order
    <3> QED
      BY <1>01, <2>1, <3>2, <3>4, <3>5, <3>6 DEF Order
  <2> QED
    BY <1>4, <2>2, <2>3 DEF ReadBody, RequestFails
<1>5. CASE ReadFails
  <2>1. /\ down' = <<>> /\ UNCHANGED <<up, inbox, pend, call, results>> /\ head' = NoFrame /\ mpc' # "prefix"
        /\ 0 \in 0 .. Len(down)
    BY <1>01, <1>5 DEF ReadFails, RequestFails, serverVars
  <2> QED
    BY <1>01, <1>2, <2>1
<1>6. CASE Connect \/ (\E k \in {"data", "disconnect"} : Request(k)) \/ Drop \/ Join \/ Wake
  <2>1. UNCHANGED <<up, inbox, down, pend, results, head>>
    BY <1>6 DEF Connect, Request, Drop, Join, Wake, clientVars, streamVars, serverVars, historyVars
  <2>2. CallNumber
    <3>1. CASE Connect
      <4>1. call = NoFrame /\ call' = <<"config", 1>>
        BY <1>0, <3>1 DEF Connect, Control
      <4> QED
        BY <4>1, NoFrames DEF CallNumber
    <3>2. CASE ~Connect
      BY <1>6, <3>2 DEF Request, Drop, Join, Wake, clientVars, CallNumber
    <3> QED
      BY <3>1, <3>2
  <2> QED
    BY <1>0, <1>01, <2>1, <2>2, OrderKept
<1> QED
  BY <1>1, <1>3, <1>4, <1>5, <1>6 DEF Main, Progress, KeepaliveThread

LEMMA ServerOrder == ASSUME SInv, Network \/ Server \/ Evict PROVE Order'
<1>0. TypeOK /\ Control /\ LinkOK /\ Order
  BY DEF SInv
<1>01. /\ Increasing(down) /\ Increasing(inbox) /\ Increasing(up) /\ Only(NoFrame) = {}
       /\ down \in Seq(Unit) /\ inbox \in Seq(Unit) /\ up \in Seq(Unit)
       /\ Len(inbox) \in Nat /\ Len(up) \in Nat
  BY <1>0, AskedNone, Streams DEF Order
<1>1. CASE Deliver
  <2>1. /\ up # <<>> /\ inbox' = Append(inbox, Head(up)) /\ up' = SubSeq(up, 1 + 1, Len(up))
        /\ 1 \in 0 .. Len(up) /\ 1 \in 1 .. Len(up) /\ Head(up) \in Unit
        /\ UNCHANGED <<down, pend, results, call, head, mpc>>
    BY <1>01, <1>1, TailIsSubSeq, HeadOff DEF Deliver, clientVars, serverVars, historyVars
  <2>2. PICK h \in Seq(Unit) : h = <<Head(up)>> /\ Len(h) = 1 /\ h[1] = Head(up)
    BY <2>1, OneUnit
  <2>3. inbox' = inbox \o h
    BY <1>01, <2>1, <2>2, AppendIsConcat
  <2>4. /\ Asked(up') \subseteq Asked(up) /\ Increasing(up')
        /\ Begins(Head(up)) => Head(up)[1] \in Asked(up) /\ AllBelow({Head(up)[1]}, Asked(up'))
    BY <1>01, <2>1, AskedCut, AskedFirst
  <2>5. /\ \A f \in Asked(h) : Begins(Head(up)) /\ f = Head(up)[1]
        /\ Increasing(h)
    BY <2>2, AskedIn DEF Increasing
  <2>6. Asked(h) \subseteq Asked(up) /\ AllBelow(Asked(h), Asked(up'))
    BY <2>4, <2>5 DEF AllBelow
  <2>7. Asked(inbox') \subseteq Asked(inbox) \cup Asked(h) /\ Increasing(inbox')
    <3>1. AllBelow(Asked(inbox), Asked(h))
      BY <1>0, <2>6 DEF Order, AllBelow
    <3> QED
      BY <1>01, <2>3, <2>5, <3>1, AskedJoin
  <2>8. AllBelow(Asked(inbox'), Asked(up'))
    BY <1>0, <2>4, <2>6, <2>7 DEF Order, AllBelow
  <2>9. Sent' \subseteq Sent /\ Returned' = Returned
    BY <2>1, <2>4, <2>6, <2>7 DEF Sent, Returned
  <2>10. Open' \subseteq Open
    BY <2>1, <2>9 DEF Open
  <2>11. /\ AllBelow(Only(pend'), Sent') /\ AllBelow(Asked(down'), Only(pend') \cup Sent')
         /\ AllBelow(Only(head'), Open') /\ AllBelow(Returned', Only(head') \cup Open')
    BY <1>0, <2>1, <2>9, <2>10 DEF Order, AllBelow
  <2>12. \A f \in Returned' \cup Only(head') \cup Open' :
           f[2] <= call'[2] /\ (f[2] = call'[2] => f = call' /\ mpc' # "prefix")
    BY <1>0, <2>1, <2>9, <2>10 DEF Order
  <2> QED
    BY <1>01, <2>1, <2>4, <2>7, <2>8, <2>11, <2>12 DEF Order
<1>2. ASSUME UNCHANGED <<mpc, call, head, results, down>>, Only(pend') \subseteq Only(pend),
             up' = up \/ up' = <<>>, inbox' = inbox \/ inbox' = <<>>
      PROVE  Order'
  <2>1. CallNumber
    BY <1>2 DEF CallNumber
  <2>2. Asked(up') \subseteq Asked(up) /\ Increasing(up') /\ Asked(inbox') \subseteq Asked(inbox) /\ Increasing(inbox')
    BY <1>01, <1>2, AskedNone
  <2> QED
    BY <1>0, <1>01, <1>2, <2>1, <2>2, OrderKept
<1>3. CASE ResetArrives
  BY <1>2, <1>3 DEF ResetArrives, clientVars, serverVars, historyVars
<1>4. CASE Evict
  BY <1>01, <1>2, <1>4 DEF Evict, Close, clientVars, historyVars
<1>5. CASE ServerRead
  <2> DEFINE u == Head(inbox)
             rest == Tail(inbox)
  <2>1. /\ inbox # <<>> /\ pend = NoFrame /\ u \in Unit /\ u = inbox[1]
        /\ rest \in Seq(Unit) /\ Len(rest) = Len(inbox) - 1 /\ Len(inbox) > 0
        /\ UNCHANGED <<mpc, call, head, results, down>>
    BY <1>01, <1>5, HeadOff DEF ServerRead, clientVars
  <2>2. PICK n \in Lengths(u) :
          \/ n = TooLarge /\ Close("protocol", rest \o up) /\ UNCHANGED <<pend, torn>>
          \/ /\ n # TooLarge /\ n > Len(rest)
             /\ inbox' = <<>> /\ torn' = TRUE /\ UNCHANGED <<up, link, pend, ended>>
          \/ /\ n <= Len(rest) /\ inbox' = SubSeq(rest, n + 1, Len(rest))
             /\ pend' = IF <<u>> \o SubSeq(rest, 1, n) = Units(u[1]) /\ Answered(u[1])
                        THEN u[1] ELSE NoFrame
             /\ UNCHANGED <<up, link, ended, torn>>
    BY <1>5 DEF ServerRead
  <2>3. CASE Close("protocol", rest \o up) /\ UNCHANGED <<pend, torn>>
    BY <1>2, <2>1, <2>3 DEF Close
  <2>4. CASE inbox' = <<>> /\ UNCHANGED <<up, link, pend, ended>>
    BY <1>2, <2>1, <2>4
  <2>5. CASE /\ n <= Len(rest) /\ inbox' = SubSeq(rest, n + 1, Len(rest))
             /\ pend' = IF <<u>> \o SubSeq(rest, 1, n) = Units(u[1]) /\ Answered(u[1])
                        THEN u[1] ELSE NoFrame
             /\ up' = up
    <3>1. /\ n \in 0 .. Len(rest) /\ n + 1 \in 1 .. Len(inbox) /\ n + 1 \in 0 .. Len(inbox)
          /\ inbox' = SubSeq(inbox, (n + 1) + 1, Len(inbox))
      <4>1. n \in 0 .. Len(rest)
        BY <1>01, <2>1, <2>5, LengthsSaid DEF TooLarge
      <4> QED
        BY <1>01, <2>1, <2>5, <4>1, CutTail
    <3>2. Asked(inbox') \subseteq Asked(inbox) /\ Increasing(inbox')
      BY <1>01, <3>1, AskedCut
    <3>3. CASE pend' = NoFrame
      <4>1. Only(pend') \subseteq Only(pend) /\ CallNumber
        BY <1>01, <2>1, <3>3 DEF CallNumber
      <4> QED
        BY <1>0, <1>01, <2>1, <2>5, <3>2, <4>1, OrderKept
    <3>4. CASE pend' # NoFrame
      <4>1. pend' = u[1] /\ Answered(u[1]) /\ <<u>> \o SubSeq(rest, 1, n) = Units(u[1])
        BY <2>5, <3>4
      <4>2. u[2] = 0
        <5>1. <<u>> \in Seq(Unit) /\ Len(<<u>>) = 1 /\ <<u>>[1] = u /\ SubSeq(rest, 1, n) \in Seq(Unit)
          BY <2>1, <3>1, CutOff
        <5>2. (<<u>> \o SubSeq(rest, 1, n))[1] = u
          BY <5>1, ConcatProperties
        <5> QED
          BY <2>1, <4>1, <5>2, UnitParts, FrameUnits
      <4>3. Begins(u) /\ pend' \in Asked(inbox) /\ AllBelow({pend'}, Asked(inbox')) /\ Only(pend') = {pend'}
        BY <1>01, <2>1, <3>1, <3>4, <4>1, <4>2, AskedFirst DEF Begins, Answered, Only
      <4>4. AllBelow({pend'}, Asked(up))
        BY <1>0, <4>3 DEF Order, AllBelow
      <4>5. AllBelow(Asked(inbox'), Asked(up')) /\ AllBelow(Only(pend'), Sent')
        BY <1>0, <2>5, <3>2, <4>3, <4>4 DEF Order, AllBelow, Sent
      <4>6. Returned' = Returned /\ Only(pend') \cup Sent' \subseteq Sent
        BY <2>1, <2>5, <3>2, <4>3 DEF Returned, Sent
      <4>7. Open' \subseteq Open
        BY <2>1, <4>6 DEF Open
      <4>8. /\ AllBelow(Asked(down'), Only(pend') \cup Sent')
            /\ AllBelow(Only(head'), Open') /\ AllBelow(Returned', Only(head') \cup Open')
        BY <1>0, <2>1, <4>6, <4>7 DEF Order, AllBelow
      <4>9. \A f \in Returned' \cup Only(head') \cup Open' :
              f[2] <= call'[2] /\ (f[2] = call'[2] => f = call' /\ mpc' # "prefix")
        BY <1>0, <2>1, <4>6, <4>7 DEF Order
      <4> QED
        BY <1>01, <2>1, <2>5, <3>2, <4>5, <4>8, <4>9 DEF Order
    <3> QED
      BY <3>3, <3>4
  <2> QED
    BY <2>2, <2>3, <2>4, <2>5
<1>6. CASE ServerReply
  <2>1. /\ pend \in Frame /\ pend' = NoFrame /\ UNCHANGED <<mpc, call, head, results>>
        /\ Only(pend) = {pend}
    BY <1>0, <1>6, Replies, NoFrames DEF ServerReply, clientVars, historyVars, Only
  <2>2. (up' = up /\ inbox' = inbox) \/ (up' = <<>> /\ inbox' = <<>>)
    BY <1>0, <1>6, Replies DEF Close
  <2>3. Asked(up') \subseteq Asked(up) /\ Increasing(up') /\ Asked(inbox') \subseteq Asked(inbox) /\ Increasing(inbox')
    BY <1>01, <2>2, AskedNone
  <2>4. PICK n \in 0 .. BodyLen + 1 : down' = down \o SubSeq(Units(pend), 1, n)
    BY <1>0, <1>6, Replies
  <2>5. PICK t \in Seq(Unit) : down' = down \o t /\ Asked(t) \subseteq {pend} /\ Increasing(t)
    <3>1. PICK w \in Seq(Unit) : /\ w = Units(pend) /\ Len(w) = BodyLen + 1
                                 /\ Asked(w) \subseteq {pend} /\ Increasing(w)
      BY <2>1, FrameUnits, AskedUnits
    <3>2. /\ SubSeq(w, 1, n) \in Seq(Unit) /\ Asked(SubSeq(w, 1, n)) \subseteq Asked(w)
          /\ Increasing(SubSeq(w, 1, n))
      BY <3>1, AskedCut, CutOff
    <3> QED
      BY <2>4, <3>1, <3>2
  <2>6. Asked(down') \subseteq Asked(down) \cup {pend} /\ Increasing(down')
    <3>1. AllBelow(Asked(down), Asked(t))
      BY <1>0, <2>1, <2>5 DEF Order, AllBelow
    <3>2. Asked(down \o t) \subseteq Asked(down) \cup Asked(t) /\ Increasing(down \o t)
      BY <1>01, <2>5, <3>1, AskedJoin
    <3> QED
      BY <2>5, <3>2
  <2>7. Returned' = Returned /\ Sent' \subseteq Sent /\ Only(pend') = {}
    BY <1>01, <2>1, <2>3 DEF Returned, Sent
  <2>8. Open' \subseteq Open
    BY <2>1, <2>6, <2>7 DEF Open
  <2>9. /\ AllBelow(Asked(inbox'), Asked(up')) /\ AllBelow(Only(pend'), Sent')
        /\ AllBelow(Only(head'), Open') /\ AllBelow(Returned', Only(head') \cup Open')
    BY <1>0, <2>1, <2>3, <2>7, <2>8 DEF Order, AllBelow
  <2>10. AllBelow(Asked(down'), Only(pend') \cup Sent')
    BY <1>0, <2>1, <2>6, <2>7 DEF Order, AllBelow
  <2>11. \A f \in Returned' \cup Only(head') \cup Open' :
           f[2] <= call'[2] /\ (f[2] = call'[2] => f = call' /\ mpc' # "prefix")
    BY <1>0, <2>1, <2>7, <2>8 DEF Order
  <2> QED
    BY <2>3, <2>6, <2>9, <2>10, <2>11 DEF Order
<1> QED
  BY <1>1, <1>3, <1>4, <1>5, <1>6 DEF Network, Server

LEMMA OrderStep == ASSUME SInv, [Next]_vars PROVE Order'
<1>1. CASE Terminated \/ UNCHANGED vars
  <2>1. UNCHANGED <<results, head, pend, down, inbox, up, call, mpc>>
    BY <1>1 DEF Terminated, vars, clientVars, streamVars, serverVars, historyVars
  <2>2. CallNumber /\ Increasing(down') /\ Increasing(inbox') /\ Increasing(up')
    BY <2>1 DEF SInv, Order, CallNumber
  <2> QED
    BY <2>1, <2>2, OrderKept DEF SInv
<1> QED
  BY <1>1, ClientOrder, ServerOrder DEF Next

-----------------------------------------------------------------------------
(***************************************************************************)
(* What requests return.                                                   *)
(***************************************************************************)
LEMMA HeadsStep == ASSUME SInv, [Next]_vars PROVE Heads'
<1>0. TypeOK /\ LinkOK /\ Heads /\ NoFrame # Keepalive
  BY DEF SInv, NoFrame, Keepalive
<1>1. CASE ReadPrefix
  <2>1. Head(down) = down[1] /\ 1 \in 1 .. Len(down)
    BY <1>0, <1>1, Streams, HeadOff DEF ReadPrefix
  <2>2. Head(down)[1] # Keepalive
    BY <1>0, <2>1 DEF LinkOK
  <2> QED
    BY <1>0, <1>1, <2>2 DEF ReadPrefix, RequestFails, Heads
<1>2. CASE ~ReadPrefix
  <2>1. head' \in {head, NoFrame}
    BY <1>2 DEF Next, Network, Deliver, ResetArrives, Main, Progress, Connect, Request, Drop,
       WritePrefix, WriteBody, ReadBody, ReadFails, Join, RequestFails, KeepaliveThread,
       KeepalivePrefix, KeepaliveBody, Wake, Server, ServerRead, ServerReply, Evict, Terminated,
       vars, clientVars
  <2> QED
    BY <1>0, <2>1 DEF Heads
<1> QED
  BY <1>1, <1>2

\* Only ReadBody adds to the results: the frame whose prefix was read.
LEMMA ResultsGrow ==
  ASSUME SInv, [Next]_vars, results' # results
  PROVE  /\ ReadBody /\ head \in Frame \ {Keepalive} /\ call \in Frame
         /\ head[2] \in 1 .. call[2] /\ results' = Append(results, <<call, head>>)
         /\ Len(results) \in Nat /\ Len(results') = Len(results) + 1
         /\ \A i \in 1 .. Len(results) : results'[i] = results[i]
         /\ results'[Len(results) + 1] = <<call, head>>
         /\ DOMAIN results = 1 .. Len(results) /\ DOMAIN results' = 1 .. Len(results')
<1>1. ReadBody
  BY DEF Next, Network, Deliver, ResetArrives, Main, Progress, Connect, Request, Drop, WritePrefix,
     WriteBody, ReadPrefix, ReadFails, Join, RequestFails, KeepaliveThread, KeepalivePrefix,
     KeepaliveBody, Wake, Server, ServerRead, ServerReply, Evict, Terminated, vars, historyVars
<1>2. head # NoFrame /\ results' = Append(results, <<call, head>>) /\ mpc = "readBody"
  BY <1>1 DEF ReadBody, RequestFails
<1>3. TypeOK /\ Control /\ LinkOK /\ Heads /\ Order /\ Fresh
  BY DEF SInv
<1>4. head \in Frame \ {Keepalive} /\ call \in Frame
  BY <1>2, <1>3 DEF TypeOK, Control, Heads
<1>5. head[2] <= call[2]
  <2>1. head \in Only(head)
    BY <1>2 DEF Only
  <2> QED
    BY <1>3, <2>1 DEF Order
<1>6. head[2] \in 1 .. call[2]
  BY <1>4, <1>5, Frames
<1>7. results \in Seq(Frame \X Frame) /\ <<call, head>> \in Frame \X Frame
  BY <1>3, <1>4 DEF TypeOK
<1>8. /\ Len(results) \in Nat /\ Len(results') = Len(results) + 1
      /\ \A i \in 1 .. Len(results) : results'[i] = results[i]
      /\ results'[Len(results) + 1] = <<call, head>>
      /\ results' \in Seq(Frame \X Frame)
  BY <1>2, <1>7, AppendProperties
<1>9. DOMAIN results = 1 .. Len(results) /\ DOMAIN results' = 1 .. Len(results')
  BY <1>7, <1>8, LenProperties
<1> QED
  BY <1>1, <1>2, <1>4, <1>6, <1>8, <1>9

LEMMA AnswersInOrderStep == ASSUME SInv, [Next]_vars PROVE AnswersInOrder'
<1>0. AnswersInOrder /\ Order
  BY DEF SInv
<1>1. CASE results' = results
  BY <1>0, <1>1 DEF AnswersInOrder
<1>2. CASE results' # results
  <2>1. /\ head[2] \in 1 .. call[2] /\ head \in Frame
        /\ Len(results) \in Nat /\ DOMAIN results' = 1 .. Len(results) + 1
        /\ \A i \in 1 .. Len(results) : results'[i] = results[i]
        /\ results'[Len(results) + 1] = <<call, head>> /\ DOMAIN results = 1 .. Len(results)
    BY <1>2, ResultsGrow
  <2>2. ASSUME NEW i \in DOMAIN results' PROVE results'[i][2][2] \in 1 .. results'[i][1][2]
    <3>1. i \in DOMAIN results \/ i = Len(results) + 1
      BY <2>1
    <3> QED
      BY <1>0, <2>1, <3>1 DEF AnswersInOrder
  <2>3. ASSUME NEW i \in DOMAIN results', NEW j \in DOMAIN results', i < j
        PROVE  results'[i][2][2] < results'[j][2][2]
    <3>1. CASE j \in DOMAIN results
      <4>1. i \in DOMAIN results
        BY <2>1, <2>3, <3>1
      <4> QED
        BY <1>0, <2>1, <2>3, <3>1, <4>1 DEF AnswersInOrder
    <3>2. CASE j = Len(results) + 1
      <4>1. i \in 1 .. Len(results)
        BY <2>1, <2>3, <3>2
      <4>2. results[i][2] \in Returned /\ head \in Only(head)
        BY <2>1, <4>1, NoFrames DEF Returned, Only
      <4>3. results[i][2][2] < head[2]
        BY <1>0, <4>2 DEF Order, AllBelow
      <4> QED
        BY <2>1, <3>2, <4>1, <4>3
    <3> QED
      BY <2>1, <3>1, <3>2
  <2> QED
    BY <2>2, <2>3 DEF AnswersInOrder
<1> QED
  BY <1>1, <1>2

\* Nothing undoes a timeout.
LEMMA LateStays == ASSUME SInv, [Next]_vars PROVE late => late'
<1>0. TypeOK /\ Control
  BY DEF SInv
<1>1. CASE WritePrefix \/ WriteBody \/ KeepalivePrefix \/ KeepaliveBody
  BY <1>0, <1>1, MainWrites, Writes DEF WritePrefix, WriteBody, KeepalivePrefix, KeepaliveBody, Control
<1>2. CASE ~(WritePrefix \/ WriteBody \/ KeepalivePrefix \/ KeepaliveBody)
  BY <1>2 DEF Next, Network, Deliver, ResetArrives, Main, Progress, Connect, Request, Drop, ReadPrefix,
     ReadBody, ReadFails, Join, RequestFails, KeepaliveThread, Wake, Server, ServerRead, ServerReply,
     Evict, Terminated, vars, historyVars
<1> QED
  BY <1>1, <1>2

LEMMA AnswersMatchStep == ASSUME SInv, [Next]_vars PROVE AnswersMatch'
<1> SUFFICES ASSUME ~late', NEW i \in DOMAIN results' PROVE results'[i][1] = results'[i][2]
  BY DEF AnswersMatch
<1>0. AnswersMatch /\ Match /\ ~late
  BY LateStays DEF SInv
<1>1. CASE results' = results
  BY <1>0, <1>1 DEF AnswersMatch
<1>2. CASE results' # results
  <2>1. /\ ReadBody /\ Len(results) \in Nat /\ DOMAIN results' = 1 .. Len(results) + 1
        /\ \A j \in 1 .. Len(results) : results'[j] = results[j]
        /\ results'[Len(results) + 1] = <<call, head>> /\ DOMAIN results = 1 .. Len(results)
    BY <1>2, ResultsGrow
  <2>2. head = call
    BY <1>0, <2>1 DEF Match, ReadBody
  <2>3. i \in DOMAIN results \/ i = Len(results) + 1
    BY <2>1
  <2> QED
    BY <1>0, <2>1, <2>2, <2>3 DEF AnswersMatch
<1> QED
  BY <1>1, <1>2

-----------------------------------------------------------------------------
(***************************************************************************)
(* What is between client and server as long as nothing times out.         *)
(***************************************************************************)

\* What a thread writes is, unit by unit, what was there or a part of its own frame.
LEMMA WritesUnits ==
  ASSUME TypeOK, NEW f \in Frame, NEW s \in Seq(Unit), \A i \in 1 .. Len(s) : s[i][1] = f,
         Written(s) \/ NotWritten(s)
  PROVE  \A i \in 1 .. Len(up') : (i \in 1 .. Len(up) /\ up'[i] = up[i])
                                  \/ (up'[i][1] = f /\ \E j \in 1 .. Len(s) : up'[i] = s[j])
<1>1. up \in Seq(Unit) /\ Len(up) \in Nat
  BY Streams
<1>2. CASE up' = up
  BY <1>2
<1>3. ASSUME NEW n \in 0 .. Len(s), up' = up \o SubSeq(s, 1, n), NEW i \in 1 .. Len(up')
      PROVE  (i \in 1 .. Len(up) /\ up'[i] = up[i])
             \/ (up'[i][1] = f /\ \E j \in 1 .. Len(s) : up'[i] = s[j])
  <2>1. PICK t \in Seq(Unit) : /\ t = SubSeq(s, 1, n) /\ Len(t) = n /\ \A j \in 1 .. n : t[j] = s[j]
    BY CutOff
  <2>2. /\ Len(up') = Len(up) + n
        /\ \A j \in 1 .. Len(up) + n : up'[j] = IF j <= Len(up) THEN up[j] ELSE t[j - Len(up)]
    BY <1>1, <1>3, <2>1, ConcatProperties, SMTT(30)
  <2>3. CASE i <= Len(up)
    BY <1>1, <1>3, <2>2, <2>3
  <2>4. CASE ~(i <= Len(up))
    <3>1. i - Len(up) \in 1 .. n /\ i - Len(up) \in 1 .. Len(s) /\ i \in 1 .. Len(up) + n
      BY <1>1, <1>3, <2>2, <2>4
    <3>2. up'[i] = s[i - Len(up)]
      BY <2>1, <2>2, <2>4, <3>1
    <3> QED
      BY <3>1, <3>2
  <2> QED
    BY <2>3, <2>4
<1>4. up' = up \/ \E n \in 0 .. Len(s) : up' = up \o SubSeq(s, 1, n)
  BY Writes
<1> QED
  BY <1>2, <1>3, <1>4

LEMMA OwnUnits ==
  ASSUME NEW f \in Frame
  PROVE  /\ \A i \in 1 .. Len(<<Prefix(f)>>) : <<Prefix(f)>>[i][1] = f /\ <<Prefix(f)>>[i][2] = 0
         /\ \A i \in 1 .. Len(Body(f)) : Body(f)[i][1] = f
<1>1. /\ Len(<<Prefix(f)>>) = 1 /\ <<Prefix(f)>>[1] = Prefix(f) /\ Prefix(f)[1] = f /\ Prefix(f)[2] = 0
      /\ Len(Body(f)) = BodyLen /\ \A i \in 1 .. BodyLen : Body(f)[i] = <<f, i>>
  BY FrameUnits
<1> QED
  BY <1>1

\* How the units on the way to the server change in a step.
Incoming(f) ==
  /\ \A i \in 1 .. Len(inbox') :
       (\E j \in 1 .. Len(inbox) : inbox'[i] = inbox[j]) \/ (\E j \in 1 .. Len(up) : inbox'[i] = up[j])
  /\ \A i \in 1 .. Len(up') : (\E j \in 1 .. Len(up) : up'[i] = up[j]) \/ up'[i][1] = f

LEMMA ServerIncoming ==
  ASSUME SInv, Network \/ Server \/ Evict, NEW f
  PROVE  Incoming(f) /\ Sent' \subseteq Sent
<1>0. TypeOK
  BY DEF SInv
<1>01. inbox \in Seq(Unit) /\ up \in Seq(Unit) /\ Len(inbox) \in Nat /\ Len(up) \in Nat
  BY <1>0, Streams
<1>1. CASE Deliver
  <2>1. /\ up # <<>> /\ inbox' = Append(inbox, Head(up)) /\ up' = Tail(up)
        /\ Head(up) \in Unit /\ Head(up) = up[1] /\ Len(up) > 0 /\ up' \in Seq(Unit)
        /\ Len(up') = Len(up) - 1 /\ \A i \in 1 .. Len(up) - 1 : up'[i] = up[i + 1]
    BY <1>01, <1>1, HeadOff DEF Deliver
  <2>2. /\ Len(inbox') = Len(inbox) + 1 /\ inbox'[Len(inbox) + 1] = up[1] /\ 1 \in 1 .. Len(up)
        /\ \A i \in 1 .. Len(inbox) : inbox'[i] = inbox[i]
    BY <1>01, <2>1, AppendProperties
  <2>3. \A i \in 1 .. Len(inbox') : i \in 1 .. Len(inbox) \/ i = Len(inbox) + 1
    BY <1>01, <2>2
  <2>4. \A i \in 1 .. Len(up') : i \in 1 .. Len(up) - 1 /\ i + 1 \in 1 .. Len(up)
    BY <1>01, <2>1
  <2>7. Incoming(f)
    BY <2>1, <2>2, <2>3, <2>4 DEF Incoming
  <2>8. ASSUME NEW g \in Asked(inbox') PROVE g \in Sent
    <3>1. PICK i \in 1 .. Len(inbox') : Begins(inbox'[i]) /\ g = inbox'[i][1]
      BY <2>8, AskedIn
    <3>2. CASE i \in 1 .. Len(inbox)
      BY <2>2, <3>1, <3>2, AskedIn DEF Sent
    <3>3. CASE i = Len(inbox) + 1
      BY <2>2, <3>1, <3>3, AskedIn DEF Sent
    <3> QED
      BY <2>3, <3>2, <3>3
  <2>9. ASSUME NEW g \in Asked(up') PROVE g \in Sent
    <3>1. PICK i \in 1 .. Len(up') : Begins(up'[i]) /\ g = up'[i][1]
      BY <2>9, AskedIn
    <3> QED
      BY <2>1, <2>4, <3>1, AskedIn DEF Sent
  <2> QED
    BY <2>7, <2>8, <2>9 DEF Sent
<1>2. ASSUME up' = up \/ up' = <<>>, NEW m \in 0 .. Len(inbox),
             inbox' = SubSeq(inbox, m + 1, Len(inbox)) \/ inbox' = <<>>
      PROVE  Incoming(f) /\ Sent' \subseteq Sent
  <2>0. Len(<<>>) = 0 /\ 1 .. 0 = {} /\ Asked(<<>>) = {}
    BY AskedNone
  <2>1. Asked(up') \subseteq Asked(up) /\ \A i \in 1 .. Len(up') : \E j \in 1 .. Len(up) : up'[i] = up[j]
    BY <1>2, <2>0
  <2>2. PICK r \in Seq(Unit) : /\ r = SubSeq(inbox, m + 1, Len(inbox)) /\ Len(r) = Len(inbox) - m
                               /\ \A i \in 1 .. Len(inbox) - m : r[i] = inbox[m + i]
                               /\ Asked(r) \subseteq Asked(inbox)
    BY <1>01, CutOff, AskedCut
  <2>3. \A i \in 1 .. Len(r) : m + i \in 1 .. Len(inbox) /\ i \in 1 .. Len(inbox) - m
    BY <1>01, <2>2
  <2>4. Asked(inbox') \subseteq Asked(inbox)
    BY <1>2, <2>0, <2>2
  <2>5. \A i \in 1 .. Len(inbox') : \E j \in 1 .. Len(inbox) : inbox'[i] = inbox[j]
    BY <1>2, <2>0, <2>2, <2>3
  <2> QED
    BY <2>1, <2>4, <2>5 DEF Incoming, Sent
<1>3. 0 \in 0 .. Len(inbox) /\ SubSeq(inbox, 0 + 1, Len(inbox)) = inbox
  BY <1>01, SubSeqFull
<1>4. CASE ResetArrives
  BY <1>2, <1>3, <1>4 DEF ResetArrives
<1>5. CASE Evict
  BY <1>2, <1>3, <1>5 DEF Evict, Close
<1>6. CASE ServerReply
  <2>1. (up' = up /\ inbox' = inbox) \/ (up' = <<>> /\ inbox' = <<>>)
    BY <1>0, <1>6, Replies DEF Close
  <2> QED
    BY <1>2, <1>3, <2>1
<1>7. CASE ServerRead
  <2>1. inbox # <<>> /\ Head(inbox) \in Unit /\ Tail(inbox) \in Seq(Unit) /\ Len(Tail(inbox)) \in Nat
    BY <1>01, <1>7, HeadOff DEF ServerRead
  <2>2. \/ up' \in {up, <<>>} /\ inbox' = <<>>
        \/ \E n \in Lengths(Head(inbox)) :
             n <= Len(Tail(inbox)) /\ up' = up /\ inbox' = SubSeq(Tail(inbox), n + 1, Len(Tail(inbox)))
    BY <1>7 DEF ServerRead, Close
  <2>3. CASE up' \in {up, <<>>} /\ inbox' = <<>>
    BY <1>2, <1>3, <2>3
  <2>4. ASSUME NEW n \in Lengths(Head(inbox)), n <= Len(Tail(inbox)), up' = up,
               inbox' = SubSeq(Tail(inbox), n + 1, Len(Tail(inbox)))
        PROVE  Incoming(f) /\ Sent' \subseteq Sent
    <3>1. n \in 0 .. Len(Tail(inbox))
      BY <2>1, <2>4, LengthsSaid DEF TooLarge
    <3>2. n + 1 \in 0 .. Len(inbox) /\ inbox' = SubSeq(inbox, (n + 1) + 1, Len(inbox))
      BY <1>01, <2>1, <2>4, <3>1, CutTail
    <3> QED
      BY <1>2, <2>4, <3>2
  <2> QED
    BY <2>2, <2>3, <2>4
<1> QED
  BY <1>1, <1>4, <1>5, <1>6, <1>7 DEF Network, Server

LEMMA ClientIncoming ==
  ASSUME SInv, WritePrefix \/ WriteBody \/ KeepalivePrefix \/ KeepaliveBody
  PROVE  /\ WritePrefix \/ WriteBody => call \in Frame /\ Incoming(call)
         /\ KeepalivePrefix \/ KeepaliveBody => Incoming(Keepalive)
<1>0. TypeOK /\ Control /\ inbox' = inbox
  BY DEF SInv, WritePrefix, WriteBody, KeepalivePrefix, KeepaliveBody
<1>1. ASSUME NEW f \in Frame, NEW s \in {<<Prefix(f)>>, Body(f)}, Written(s) \/ NotWritten(s)
      PROVE  Incoming(f)
  <2>1. s \in Seq(Unit) /\ \A i \in 1 .. Len(s) : s[i][1] = f
    <3>1. <<Prefix(f)>> \in Seq(Unit) /\ Body(f) \in Seq(Unit)
      BY FrameUnits
    <3>2. /\ \A i \in 1 .. Len(<<Prefix(f)>>) : <<Prefix(f)>>[i][1] = f
          /\ \A i \in 1 .. Len(Body(f)) : Body(f)[i][1] = f
      BY OwnUnits
    <3>3. CASE s = <<Prefix(f)>>
      BY <3>1, <3>2, <3>3
    <3>4. CASE s = Body(f)
      BY <3>1, <3>2, <3>4
    <3> QED
      BY <1>1, <3>3, <3>4
  <2>2. \A i \in 1 .. Len(up') : (i \in 1 .. Len(up) /\ up'[i] = up[i]) \/ up'[i][1] = f
    BY <1>0, <1>1, <2>1, WritesUnits
  <2> QED
    BY <1>0, <2>2 DEF Incoming
<1>2. WritePrefix \/ WriteBody => call \in Frame
  BY <1>0 DEF WritePrefix, WriteBody, Control
<1> QED
  BY <1>1, <1>2, NoFrames DEF WritePrefix, WriteBody, KeepalivePrefix, KeepaliveBody

LEMMA FreshStep == ASSUME SInv, [Next]_vars PROVE Fresh'
<1>0. TypeOK /\ Control /\ LinkOK /\ Fresh /\ call[2] \in Nat
  BY Frames, NoFrames DEF SInv, TypeOK
<1>01. /\ \A i \in 1 .. Len(inbox) : inbox[i][1][2] \in Nat
       /\ \A i \in 1 .. Len(up) : up[i][1][2] \in Nat
  <2>1. /\ \A i \in 1 .. Len(inbox) : inbox[i] \in Unit
        /\ \A i \in 1 .. Len(up) : up[i] \in Unit
    BY <1>0, Streams
  <2>2. \A u \in Unit : u[1][2] \in Nat
    BY UnitParts, Frames
  <2> QED
    BY <2>1, <2>2
<1>1. ASSUME NEW f, Incoming(f), call' = call, mpc' = "prefix" => mpc = "prefix",
             f = Keepalive \/ (f = call /\ mpc' # "prefix")
      PROVE  Fresh'
  <2>1. Keepalive[2] <= call[2] /\ (mpc = "prefix" => Keepalive[2] < call[2])
    <3>1. Keepalive[2] = 0
      BY DEF Keepalive
    <3>2. mpc = "prefix" => call[2] > 0
      BY <1>0, Frames DEF Control
    <3> QED
      BY <1>0, <3>1, <3>2
  <2>2. f[2] <= call'[2] /\ (mpc' = "prefix" => f[2] < call'[2])
    BY <1>0, <1>1, <2>1
  <2>3. /\ \A i \in 1 .. Len(inbox) : inbox[i][1][2] <= call'[2] /\ (mpc' = "prefix" => inbox[i][1][2] < call'[2])
        /\ \A i \in 1 .. Len(up) : up[i][1][2] <= call'[2] /\ (mpc' = "prefix" => up[i][1][2] < call'[2])
    BY <1>0, <1>1 DEF Fresh, FreshIn
  <2>4. FreshIn(inbox)'
    BY <1>1, <2>3 DEF Incoming, FreshIn
  <2>5. FreshIn(up)'
    BY <1>1, <2>2, <2>3 DEF Incoming, FreshIn
  <2> QED
    BY <2>4, <2>5 DEF Fresh
<1>2. CASE Network \/ Server \/ Evict
  <2>1. Incoming(Keepalive)
    BY <1>2, ServerIncoming
  <2>2. call' = call /\ mpc' = mpc
    BY <1>2 DEF Network, Deliver, ResetArrives, Server, ServerRead, ServerReply, Evict, clientVars
  <2> QED
    BY <1>1, <2>1, <2>2
<1>3. CASE WritePrefix \/ WriteBody
  <2>1. Incoming(call)
    BY <1>3, ClientIncoming
  <2>2. call' = call /\ mpc' # "prefix"
    BY <1>3 DEF WritePrefix, WriteBody, RequestFails
  <2> QED
    BY <1>1, <2>1, <2>2
<1>4. CASE KeepalivePrefix \/ KeepaliveBody
  <2>1. Incoming(Keepalive)
    BY <1>4, ClientIncoming
  <2>2. call' = call /\ mpc' = mpc
    BY <1>4 DEF KeepalivePrefix, KeepaliveBody, clientVars
  <2> QED
    BY <1>1, <2>1, <2>2
<1>5. CASE ReadPrefix \/ ReadBody \/ ReadFails \/ Join \/ Wake \/ Terminated \/ UNCHANGED vars
  <2>1. UNCHANGED <<up, inbox, call>> /\ (mpc' = "prefix" => mpc = "prefix")
    BY <1>5 DEF ReadPrefix, ReadBody, ReadFails, Join, Wake, Terminated, RequestFails, vars, clientVars, streamVars
  <2> QED
    BY <1>0, <2>1 DEF Fresh, FreshIn
<1>6. CASE Connect \/ (\E k \in {"data", "disconnect"} : Request(k)) \/ Drop
  <2>1. UNCHANGED <<up, inbox>> /\ ((call' = call /\ mpc' # "prefix") \/ call'[2] = call[2] + 1)
    <3>1. CASE Connect
      <4>1. call = NoFrame /\ call' = <<"config", 1>> /\ UNCHANGED <<up, inbox>>
        BY <1>0, <3>1 DEF Connect, Control
      <4> QED
        BY <4>1, NoFrames
    <3>2. CASE ~Connect
      BY <1>6, <3>2 DEF Request, Drop, streamVars
    <3> QED
      BY <3>1, <3>2
  <2>2. /\ \A i \in 1 .. Len(inbox) : inbox[i][1][2] <= call'[2] /\ (mpc' = "prefix" => inbox[i][1][2] < call'[2])
        /\ \A i \in 1 .. Len(up) : up[i][1][2] <= call'[2] /\ (mpc' = "prefix" => up[i][1][2] < call'[2])
    <3>1. ASSUME NEW n \in Nat, n <= call[2], mpc = "prefix" => n < call[2]
          PROVE  n <= call'[2] /\ (mpc' = "prefix" => n < call'[2])
      BY <1>0, <2>1, <3>1
    <3>2. /\ \A i \in 1 .. Len(inbox) : inbox[i][1][2] <= call[2] /\ (mpc = "prefix" => inbox[i][1][2] < call[2])
          /\ \A i \in 1 .. Len(up) : up[i][1][2] <= call[2] /\ (mpc = "prefix" => up[i][1][2] < call[2])
      BY <1>0 DEF Fresh, FreshIn
    <3> QED
      BY <1>01, <3>1, <3>2
  <2> QED
    BY <2>1, <2>2 DEF Fresh, FreshIn
<1> QED
  BY <1>2, <1>3, <1>4, <1>5, <1>6 DEF Next, Main, Progress, KeepaliveThread

\* Where nothing new comes to be on the way, what Match says stays true.
LEMMA MatchKept ==
  ASSUME SInv, ~late, UNCHANGED <<mpc, call, connected, head, want, down>>,
         pend' \in {pend, NoFrame}, Sent' \subseteq Sent, ended' = "no" => ended = "no",
         NEW f, Incoming(f), f # call
  PROVE  Match'
<1>0. Match /\ (Quiet => Quiet')
  BY DEF SInv, Quiet
<1>1. ASSUME mpc = "body" PROVE PrefixOnly(call', inbox') /\ PrefixOnly(call', up')
  <2>1. PrefixOnly(call, inbox) /\ PrefixOnly(call, up)
    BY <1>0, <1>1 DEF Match
  <2>2. PrefixOnly(call, inbox')
    BY <2>1 DEF PrefixOnly, Incoming
  <2>3. PrefixOnly(call, up')
    BY <2>1 DEF PrefixOnly, Incoming
  <2> QED
    BY <2>2, <2>3
<1>2. mpc' = "readPrefix" => \/ down' = <<>> /\ pend' = NoFrame /\ Sent' \subseteq {call'}
                             \/ down' = <<>> /\ pend' = call' /\ Sent' = {}
                             \/ down' = Units(call') /\ pend' = NoFrame /\ Sent' = {}
  BY <1>0 DEF Match
<1>3. mpc' = "readBody" => /\ down' = Body(call') /\ head' = call' /\ want' = BodyLen
                           /\ pend' = NoFrame /\ Sent' = {}
  BY <1>0 DEF Match
<1>4. mpc' = "body" => down' = <<>> /\ pend' = NoFrame /\ Sent' \subseteq {call'}
  BY <1>0 DEF Match
<1>5. /\ mpc' \in {"new", "prefix"} => Quiet'
      /\ mpc' = "ready" /\ connected' => down' = <<>> /\ (ended' = "no" => Quiet')
  BY <1>0 DEF Match
<1> QED
  BY <1>1, <1>2, <1>3, <1>4, <1>5 DEF Match

\* What the server reads of the request is all there is of it.
LEMMA ReadsCall ==
  ASSUME SInv, ~late, ServerRead, pend' # NoFrame,
         mpc \in {"body", "readPrefix"}, Sent \subseteq {call}, PrefixOnly(call, inbox) \/ mpc # "body"
  PROVE  mpc = "readPrefix" /\ pend' = call /\ Sent' = {}
<1>0. TypeOK /\ Control /\ LinkOK /\ Order
  BY DEF SInv
<1>01. inbox \in Seq(Unit) /\ Len(inbox) \in Nat
  BY <1>0, Streams
<1>1. /\ inbox # <<>> /\ Head(inbox) \in Unit /\ Head(inbox) = inbox[1] /\ Len(inbox) > 0
      /\ Tail(inbox) \in Seq(Unit) /\ Len(Tail(inbox)) = Len(inbox) - 1 /\ Len(Tail(inbox)) \in Nat
      /\ \A i \in 1 .. Len(inbox) - 1 : Tail(inbox)[i] = inbox[i + 1]
  BY <1>01, HeadOff DEF ServerRead
<1>2. PICK n \in Lengths(Head(inbox)) :
        /\ n <= Len(Tail(inbox)) /\ pend' = Head(inbox)[1] /\ Answered(Head(inbox)[1])
        /\ <<Head(inbox)>> \o SubSeq(Tail(inbox), 1, n) = Units(Head(inbox)[1])
  BY <1>0 DEF ServerRead, LinkOK, Close
<1>3. PICK w \in Seq(Unit) : /\ w = SubSeq(Tail(inbox), 1, n) /\ Len(w) = n
                             /\ \A i \in 1 .. n : w[i] = Tail(inbox)[i]
                             /\ n \in 0 .. Len(Tail(inbox))
  <2>1. n \in 0 .. Len(Tail(inbox))
    BY <1>1, <1>2, LengthsSaid DEF TooLarge
  <2>2. PICK r \in Seq(Unit) : r = Tail(inbox)
    BY <1>1
  <2>3. /\ SubSeq(r, 1, n) \in Seq(Unit) /\ Len(SubSeq(r, 1, n)) = n
        /\ \A i \in 1 .. n : SubSeq(r, 1, n)[i] = r[i]
    BY <2>1, <2>2, CutOff
  <2> QED
    BY <2>1, <2>2, <2>3
<1>4. PICK g \in Frame : /\ g = Head(inbox)[1] /\ g = pend' /\ g # Keepalive
  BY <1>1, <1>2, UnitParts DEF Answered
<1>5. PICK a \in Seq(Unit) : /\ a = Units(g) /\ Len(a) = BodyLen + 1 /\ a[1] = Prefix(g)
                             /\ \A i \in 2 .. BodyLen + 1 : a[i] = <<g, i - 1>>
  BY FrameUnits
<1>6. PICK h \in Seq(Unit) : h = <<Head(inbox)>> /\ Len(h) = 1 /\ h[1] = Head(inbox)
  BY <1>1, OneUnit
<1>7. /\ a = h \o w /\ Len(a) = 1 + n
      /\ \A i \in 1 .. 1 + n : a[i] = IF i <= 1 THEN h[i] ELSE w[i - 1]
  <2>1. /\ h \o w \in Seq(Unit) /\ Len(h \o w) = Len(h) + Len(w)
        /\ \A i \in 1 .. Len(h) + Len(w) : (h \o w)[i] = IF i <= Len(h) THEN h[i] ELSE w[i - Len(h)]
    BY ConcatProperties
  <2>2. a = h \o w
    BY <1>2, <1>3, <1>4, <1>5, <1>6
  <2> QED
    BY <1>3, <1>6, <2>1, <2>2
<1>8. Head(inbox) = Prefix(g) /\ n = BodyLen /\ n > 0
  <2>1. 1 \in 1 .. 1 + n /\ n = BodyLen /\ n > 0
    BY <1>1, <1>3, <1>5, <1>7
  <2> QED
    BY <1>5, <1>6, <1>7, <2>1
<1>9. g = call
  <2>1. Begins(inbox[1]) /\ inbox[1][1] = g /\ 1 \in 1 .. Len(inbox)
    BY <1>01, <1>1, <1>4, <1>8, FrameUnits DEF Begins
  <2>2. g \in Asked(inbox)
    BY <2>1, AskedIn
  <2> QED
    BY <2>2 DEF Sent
<1>10. mpc # "body"
  <2> SUFFICES ASSUME PrefixOnly(call, inbox) PROVE FALSE
    OBVIOUS
  <2>1. 2 \in 1 .. 1 + n /\ 2 \in 2 .. BodyLen + 1 /\ 1 \in 1 .. n /\ 1 \in 1 .. Len(inbox) - 1 /\ 2 \in 1 .. Len(inbox)
    BY <1>01, <1>1, <1>3, <1>8
  <2>20. a[2] = <<g, 1>>
    BY <1>5, <2>1
  <2>21. a[2] = w[1] /\ w[1] = Tail(inbox)[1] /\ Tail(inbox)[1] = inbox[2]
    BY <1>1, <1>3, <1>7, <2>1
  <2>2. a[2] = <<g, 1>> /\ a[2] = w[1] /\ w[1] = inbox[2]
    BY <2>20, <2>21
  <2>3. inbox[2][1] = call /\ inbox[2][2] = 1
    BY <1>9, <2>2
  <2> QED
    BY <2>1, <2>3 DEF PrefixOnly
<1>11. Sent' = {}
  <2>1. Sent' \subseteq {call}
    BY ServerIncoming DEF Server
  <2>2. AllBelow(Only(pend'), Sent') /\ call \in Only(pend')
    <3>1. Order'
      BY OrderStep DEF Next, Server
    <3> QED
      BY <1>4, <1>9, <3>1, NoFrames DEF Order, Only
  <2>3. call[2] \in Nat /\ ~(call[2] < call[2])
    BY <1>4, <1>9, Frames
  <2> QED
    BY <2>1, <2>2, <2>3 DEF AllBelow
<1> QED
  BY <1>4, <1>9, <1>10, <1>11

\* The answer is written whole, since nothing else is in the buffer.
LEMMA RepliesCall ==
  ASSUME SInv, ~late, ServerReply
  PROVE  \/ mpc \in {"join", "done"} \/ (mpc = "ready" /\ ~connected)
         \/ /\ mpc = "readPrefix" /\ pend = call /\ down' = Units(call) /\ Sent' = {}
            /\ ~Leaves(pend)
<1>0. TypeOK /\ Control /\ LinkOK /\ Match
  BY DEF SInv
<1>1. pend # NoFrame /\ ended = "no"
  BY DEF ServerReply
<1>2. mpc \in {"new", "prefix", "body", "readPrefix", "readBody", "ready", "join", "done"}
  BY <1>0 DEF TypeOK
<1>3. CASE mpc = "readPrefix"
  <2>1. down = <<>> /\ pend = call /\ Sent = {} /\ call \in Frame /\ call[1] # "disconnect"
    BY <1>0, <1>1, <1>3 DEF Match, Control
  <2>2. Len(down) = 0 /\ Buffer - Len(down) >= BodyLen + 1
    <3>1. Len(down) = 0
      BY <2>1
    <3> QED
      BY <1>0, <3>1, Streams
  <2>3. down' = <<>> \o Units(call)
    BY <1>0, <2>1, <2>2, Replies
  <2>4. down' = Units(call)
    BY <2>1, <2>3, FrameUnits, ConcatEmptySeq
  <2>5. Sent' = {}
    BY <2>1, ServerIncoming DEF Server
  <2> QED
    BY <1>3, <2>1, <2>4, <2>5 DEF Leaves
<1> QED
  BY <1>0, <1>1, <1>2, <1>3 DEF Match, Quiet

LEMMA MatchStep == ASSUME SInv, [Next]_vars PROVE Match'
<1> SUFFICES ASSUME ~late' PROVE Match'
  BY DEF Match
<1>0. TypeOK /\ Control /\ LinkOK /\ Match /\ Fresh /\ ~late
  BY LateStays DEF SInv
<1>01. ASSUME down = <<>>, link \notin {"none", "open"} PROVE Quiet
  <2>1. up = <<>> /\ inbox = <<>> /\ pend = NoFrame /\ Sent = {}
    BY <1>0, <1>01, AskedNone DEF LinkOK, Sent
  <2> QED
    BY <1>01, <2>1 DEF Quiet
<1>02. call # Keepalive
  <2>1. NoFrame # Keepalive
    BY DEF NoFrame, Keepalive
  <2> QED
    BY <1>0, <2>1 DEF Control
<1>1. CASE Network \/ Evict
  <2>1. /\ UNCHANGED <<mpc, call, connected, head, want, down>> /\ pend' \in {pend, NoFrame}
        /\ ended' = "no" => ended = "no"
    BY <1>1 DEF Network, Deliver, ResetArrives, Evict, Close, clientVars, serverVars
  <2>2. Incoming(Keepalive) /\ Sent' \subseteq Sent
    BY <1>1, ServerIncoming
  <2> QED
    BY <1>0, <1>02, <2>1, <2>2, MatchKept
<1>2. CASE ServerRead
  <2>1. /\ UNCHANGED <<mpc, call, connected, head, want, down>> /\ ended = "no" /\ pend = NoFrame
        /\ inbox # <<>>
    BY <1>2 DEF ServerRead, clientVars
  <2>2. Incoming(Keepalive) /\ Sent' \subseteq Sent
    BY <1>2, ServerIncoming DEF Server
  <2>3. CASE pend' = NoFrame
    BY <1>0, <1>02, <2>1, <2>2, <2>3, MatchKept
  <2>4. CASE pend' # NoFrame
    <3>1. pend' \in Sent
      <4>1. Order' /\ Order
        BY OrderStep DEF SInv, Next, Server
      <4>2. inbox # <<>> /\ Head(inbox) \in Unit /\ Head(inbox) = inbox[1] /\ 1 \in 1 .. Len(inbox)
        BY <1>0, <2>1, Streams, HeadOff
      <4>3. pend' = Head(inbox)[1] /\ Answered(Head(inbox)[1])
            /\ \E n \in Lengths(Head(inbox)) :
                 /\ n <= Len(Tail(inbox))
                 /\ <<Head(inbox)>> \o SubSeq(Tail(inbox), 1, n) = Units(Head(inbox)[1])
        BY <1>2, <2>1, <2>4 DEF ServerRead, Close
      <4>4. Head(inbox)[2] = 0
        <5>1. PICK n \in Lengths(Head(inbox)) :
                /\ n <= Len(Tail(inbox))
                /\ <<Head(inbox)>> \o SubSeq(Tail(inbox), 1, n) = Units(Head(inbox)[1])
          BY <4>3
        <5>2. n \in Nat /\ inbox \in Seq(Unit)
          BY <1>0, <4>2, Streams, LengthsSaid DEF TooLarge
        <5> QED
          BY <2>1, <5>1, <5>2, ReadHead
      <4>5. Begins(inbox[1]) /\ pend' = inbox[1][1]
        BY <4>2, <4>3, <4>4 DEF Begins, Answered
      <4> QED
        BY <4>2, <4>5, AskedIn DEF Sent
    <3>2. CASE mpc = "body"
      <4>1. Sent \subseteq {call} /\ PrefixOnly(call, inbox)
        BY <1>0, <3>2 DEF Match
      <4> QED
        BY <1>0, <1>2, <2>4, <3>2, <4>1, ReadsCall
    <3>3. CASE mpc = "readPrefix"
      <4>1. Sent \subseteq {call} /\ down = <<>>
        BY <1>0, <3>1, <3>3 DEF Match
      <4>2. pend' = call /\ Sent' = {}
        BY <1>0, <1>2, <2>4, <3>3, <4>1, ReadsCall
      <4> QED
        BY <2>1, <3>3, <4>1, <4>2 DEF Match
    <3>4. CASE mpc \notin {"body", "readPrefix"}
      <4>1. mpc \notin {"new", "prefix", "readBody"} /\ ~(mpc = "ready" /\ connected)
        BY <1>0, <2>1, <3>1 DEF Match, Quiet
      <4> QED
        BY <2>1, <3>4, <4>1 DEF Match
    <3> QED
      BY <3>2, <3>3, <3>4
  <2> QED
    BY <2>3, <2>4
<1>3. CASE ServerReply
  <2>1. UNCHANGED <<mpc, call, connected, head, want>> /\ pend' = NoFrame
    BY <1>0, <1>3, Replies DEF ServerReply, clientVars
  <2>2. CASE mpc \in {"join", "done"} \/ (mpc = "ready" /\ ~connected)
    BY <2>1, <2>2 DEF Match
  <2>3. CASE mpc = "readPrefix" /\ pend = call /\ down' = Units(call) /\ Sent' = {}
    BY <2>1, <2>3 DEF Match
  <2> QED
    BY <1>0, <1>3, <2>2, <2>3, RepliesCall
<1>4. CASE KeepalivePrefix \/ KeepaliveBody
  <2>1. UNCHANGED <<mpc, call, connected, head, want, down, pend, ended, inbox>>
    BY <1>4 DEF KeepalivePrefix, KeepaliveBody, clientVars, serverVars
  <2>2. Incoming(Keepalive)
    BY <1>4, ClientIncoming
  <2>3. Sent' \subseteq Sent
    <3>1. \/ Asked(up') \subseteq Asked(up)
          \/ mpc = "prefix" /\ mpc' = "body"
      BY <1>4, WritesAsk
    <3> QED
      BY <2>1, <3>1 DEF Sent
  <2> QED
    BY <1>0, <1>02, <2>1, <2>2, <2>3, MatchKept
<1>5. CASE Wake \/ Terminated \/ UNCHANGED vars
  <2>1. UNCHANGED <<mpc, call, connected, head, want, down, pend, ended, inbox, up, late>>
    BY <1>5 DEF Wake, Terminated, vars, clientVars, streamVars, serverVars, historyVars
  <2> QED
    BY <1>0, <2>1 DEF Match, Quiet, Sent, PrefixOnly
<1>6. CASE Connect
  <2>1. mpc = "new" /\ mpc' = "prefix" /\ UNCHANGED <<up, inbox, down, pend>>
    BY <1>6 DEF Connect, serverVars
  <2>2. Quiet'
    BY <1>0, <2>1 DEF Match, Quiet, Sent
  <2> QED
    BY <2>1, <2>2 DEF Match
<1>7. CASE (\E k \in {"data", "disconnect"} : Request(k)) \/ Drop
  <2>1. mpc = "ready" /\ UNCHANGED <<up, inbox, down, pend>> /\ (mpc' = "done" \/ (mpc' = "prefix" /\ connected))
    BY <1>7 DEF Request, Drop, streamVars, serverVars
  <2>2. CASE mpc' = "prefix" /\ connected
    <3>1. Quiet
      <4>1. down = <<>> /\ (ended = "no" => Quiet) /\ link # "none"
        BY <1>0, <2>1, <2>2 DEF Match, Control
      <4>2. CASE ended # "no"
        <5>1. link \notin {"none", "open"}
          BY <1>0, <4>2 DEF LinkOK
        <5> QED
          BY <1>01, <4>1, <5>1
      <4> QED
        BY <4>1, <4>2
    <3>2. Quiet'
      BY <2>1, <3>1 DEF Quiet, Sent
    <3> QED
      BY <2>2, <3>2 DEF Match
  <2> QED
    BY <2>1, <2>2 DEF Match
<1>8. ASSUME RequestFails, down = <<>> \/ mpc = "readBody", down' = <<>>, link \notin {"none", "open"},
             UNCHANGED <<up, inbox, pend, ended>>
      PROVE  Match'
  <2>1. up = <<>> /\ inbox = <<>> /\ pend = NoFrame
    BY <1>0, <1>8 DEF LinkOK
  <2>2. Quiet'
    <3>1. Sent' = {}
      BY <1>8, <2>1, AskedNone DEF Sent
    <3> QED
      BY <1>8, <2>1, <3>1 DEF Quiet
  <2>3. mpc' \in {"done", "ready"}
    BY <1>8 DEF RequestFails
  <2> QED
    BY <1>8, <2>2, <2>3 DEF Match
<1>9. CASE WritePrefix
  <2>1. mpc = "prefix" /\ Quiet /\ call \in Frame /\ UNCHANGED <<inbox, down, pend, ended, call>>
    BY <1>0, <1>9 DEF WritePrefix, Match, Control, RequestFails, serverVars
  <2>2. CASE Written(<<Prefix(call)>>) /\ mpc' = "body"
    <3>1. Sent' \subseteq {call}
      BY <1>9, <2>1, WritesAsk DEF Quiet, Sent
    <3>2. PrefixOnly(call, inbox')
      BY <1>0, <2>1, Frames DEF Fresh, FreshIn, PrefixOnly
    <3>3. PrefixOnly(call, up')
      <4>1. \A i \in 1 .. Len(up) : up[i][1] # call
        BY <1>0, <2>1, Frames DEF Fresh, FreshIn
      <4>2. <<Prefix(call)>> \in Seq(Unit) /\ \A j \in 1 .. Len(<<Prefix(call)>>) :
              <<Prefix(call)>>[j][1] = call /\ <<Prefix(call)>>[j][2] = 0
        BY <2>1, FrameUnits, OwnUnits
      <4>3. ASSUME NEW s \in Seq(Unit), s = <<Prefix(call)>>,
                   \A j \in 1 .. Len(s) : s[j][1] = call /\ s[j][2] = 0
            PROVE  PrefixOnly(call, up')
        <5>1. TypeOK /\ call \in Frame /\ Written(s)
          BY <1>0, <2>1, <2>2, <4>3
        <5>2. \A j \in 1 .. Len(s) : s[j][1] = call
          BY <4>3
        <5>3. \A i \in 1 .. Len(up') : (i \in 1 .. Len(up) /\ up'[i] = up[i])
                                        \/ (up'[i][1] = call /\ \E j \in 1 .. Len(s) : up'[i] = s[j])
          BY <5>1, <5>2, WritesUnits
        <5> QED
          BY <4>1, <4>3, <5>3 DEF PrefixOnly
      <4> QED
        BY <4>2, <4>3
    <3> QED
      BY <2>1, <2>2, <3>1, <3>2, <3>3 DEF Match, Quiet
  <2>3. CASE NotWritten(<<Prefix(call)>>) /\ RequestFails
    <3>1. link = "reset" /\ up' = up
      BY <2>3 DEF NotWritten
    <3> QED
      BY <1>8, <2>1, <2>3, <3>1 DEF Quiet
  <2> QED
    BY <1>9, <2>2, <2>3 DEF WritePrefix
<1>10. CASE WriteBody
  <2>1. /\ mpc = "body" /\ UNCHANGED <<inbox, down, pend, ended, call>>
        /\ down = <<>> /\ pend = NoFrame /\ Sent \subseteq {call}
    BY <1>0, <1>10 DEF WriteBody, Match, RequestFails, serverVars
  <2>2. CASE mpc' \in {"join", "readPrefix"}
    <3>1. Sent' \subseteq {call}
      BY <1>10, <2>1, WritesAsk DEF Sent
    <3> QED
      BY <2>1, <2>2, <3>1 DEF Match
  <2>3. CASE NotWritten(Body(call)) /\ RequestFails
    <3>1. link = "reset" /\ up' = up
      BY <2>3 DEF NotWritten
    <3> QED
      BY <1>8, <2>1, <2>3, <3>1
  <2> QED
    BY <1>10, <2>2, <2>3 DEF WriteBody
<1>11. CASE ReadPrefix
  <2>1. /\ down = Units(call) /\ pend = NoFrame /\ Sent = {} /\ mpc = "readPrefix" /\ call \in Frame
        /\ UNCHANGED <<up, inbox, pend>> /\ down' = Tail(down) /\ down # <<>>
    BY <1>0, <1>11 DEF ReadPrefix, Match, Control, serverVars
  <2>2. /\ down \in Seq(Unit) /\ Head(down) = down[1] /\ Head(down) \in Unit /\ Tail(down) \in Seq(Unit)
        /\ Len(Tail(down)) = Len(down) - 1 /\ \A i \in 1 .. Len(down) - 1 : Tail(down)[i] = down[i + 1]
    BY <1>0, <2>1, Streams, HeadOff
  <2>3. Head(down) = Prefix(call) /\ Head(down)[2] = 0 /\ Head(down)[1] = call
    BY <2>1, <2>2, FrameUnits
  <2>4. Tail(down) = Body(call)
    <3>1. PICK b \in Seq(Unit) : b = Body(call) /\ Len(b) = BodyLen /\ \A i \in 1 .. BodyLen : b[i] = <<call, i>>
      BY <2>1, FrameUnits
    <3>2. Len(down) = BodyLen + 1 /\ \A i \in 2 .. BodyLen + 1 : down[i] = <<call, i - 1>>
      BY <2>1, FrameUnits
    <3>3. Len(Tail(down)) = Len(b) /\ BodyLen \in Nat /\ Len(b) = BodyLen /\ Len(down) = BodyLen + 1
      BY <2>2, <3>1, <3>2
    <3>4. ASSUME NEW i \in 1 .. Len(Tail(down)) PROVE Tail(down)[i] = b[i]
      <4>1. i \in 1 .. BodyLen /\ i \in 1 .. Len(down) - 1 /\ i + 1 \in 2 .. BodyLen + 1 /\ (i + 1) - 1 = i
        BY <3>3, <3>4
      <4>2. Tail(down)[i] = down[i + 1] /\ down[i + 1] = <<call, (i + 1) - 1>>
        BY <2>2, <3>2, <4>1
      <4> QED
        BY <3>1, <4>1, <4>2
    <3>5. Tail(down) = b
      BY <2>2, <3>3, <3>4, SeqEqual
    <3> QED
      BY <3>1, <3>5
  <2>5. /\ mpc' = "readBody" /\ want' = BodyLen /\ head' = call /\ call' = call
    <3>1. \A n \in Lengths(Head(down)) : n = BodyLen /\ n # TooLarge
      BY <2>2, <2>3, LengthsSaid
    <3> QED
      BY <1>11, <2>3, <3>1 DEF ReadPrefix
  <2>6. Sent' = {}
    BY <2>1 DEF Sent
  <2> QED
    BY <2>1, <2>4, <2>5, <2>6 DEF Match
<1>12. CASE ReadBody
  <2>1. /\ mpc = "readBody" /\ down = Body(call) /\ head = call /\ want = BodyLen /\ pend = NoFrame /\ Sent = {}
        /\ call \in Frame /\ down' = SubSeq(down, want + 1, Len(down)) /\ UNCHANGED <<up, inbox, pend, ended>>
    BY <1>0, <1>12 DEF ReadBody, Match, Control, serverVars
  <2>2. Len(down) = BodyLen /\ down \in Seq(Unit)
    BY <2>1, FrameUnits
  <2>3. down' = <<>>
    <3>1. BodyLen + 1 \in Int /\ BodyLen \in Int /\ BodyLen < BodyLen + 1
      OBVIOUS
    <3> QED
      BY <2>1, <2>2, <3>1, SubSeqEmpty
  <2>4. mpc' \in {"ready", "done"}
    BY <1>12 DEF ReadBody, RequestFails
  <2>5. Quiet'
    BY <2>1, <2>3 DEF Quiet, Sent
  <2> QED
    BY <2>3, <2>4, <2>5 DEF Match
<1>13. CASE ReadFails
  <2>1. /\ down' = <<>> /\ link \notin {"none", "open"} /\ RequestFails /\ UNCHANGED <<up, inbox, pend, ended>>
        /\ down = <<>> \/ mpc = "readBody"
    BY <1>0, <1>13 DEF ReadFails, Control, serverVars
  <2> QED
    BY <1>8, <2>1
<1>14. CASE Join
  BY <1>0, <1>14 DEF Join, Control, Match
<1> QED
  BY <1>1, <1>2, <1>3, <1>4, <1>5, <1>6, <1>7, <1>9, <1>10, <1>11, <1>12, <1>13, <1>14
     DEF Next, Main, Progress, KeepaliveThread, Server

LEMMA LeftStep == ASSUME SInv, [Next]_vars PROVE Left'
<1> SUFFICES ASSUME ended' = "disconnect", ~late'
             PROVE  mpc' \in {"join", "done"} \/ (mpc' = "ready" /\ ~connected')
  BY DEF Left
<1>0. TypeOK /\ Control /\ LinkOK /\ Left /\ ~late
  BY LateStays DEF SInv
<1>1. CASE ended' # ended
  <2>1. ServerReply
    BY <1>1 DEF Next, Network, Deliver, ResetArrives, Main, Progress, Connect, Request, Drop, WritePrefix,
       WriteBody, ReadPrefix, ReadBody, ReadFails, Join, KeepaliveThread, KeepalivePrefix, KeepaliveBody,
       Wake, Server, ServerRead, Evict, Close, Terminated, vars, streamVars, serverVars
  <2>2. Leaves(pend) /\ mpc' = mpc /\ connected' = connected
    BY <1>0, <1>1, <2>1, Replies DEF ServerReply, clientVars
  <2> QED
    BY <1>0, <2>1, <2>2, RepliesCall
<1>2. CASE ended' = ended
  <2>1. mpc \in {"join", "done"} \/ (mpc = "ready" /\ ~connected)
    BY <1>0, <1>2 DEF Left
  <2>2. CASE Join \/ Drop
    BY <1>0, <2>1, <2>2 DEF Join, Drop, Control
  <2>3. CASE ~(Join \/ Drop)
    <3>1. mpc' = mpc /\ connected' = connected
      BY <2>1, <2>3 DEF Next, Network, Deliver, ResetArrives, Main, Progress, Connect, Request, WritePrefix,
         WriteBody, ReadPrefix, ReadBody, ReadFails, KeepaliveThread, KeepalivePrefix, KeepaliveBody,
         Wake, Server, ServerRead, ServerReply, Evict, Terminated, vars, clientVars
    <3> QED
      BY <2>1, <3>1
  <2> QED
    BY <2>2, <2>3
<1> QED
  BY <1>1, <1>2

-----------------------------------------------------------------------------
(***************************************************************************)
(* The stream to the server as long as nothing spoils it.                  *)
(***************************************************************************)

LEMMA SpoiltStays == ASSUME SInv, [Next]_vars PROVE Spoilt => Spoilt'
<1>0. TypeOK /\ (late => late')
  BY LateStays DEF SInv
<1>1. mixed => mixed'
  BY <1>0 DEF TypeOK, Next, Network, Deliver, ResetArrives, Main, Progress, Connect, Request, Drop, WritePrefix,
     WriteBody, ReadPrefix, ReadBody, ReadFails, Join, RequestFails, Interleaves, KeepaliveThread,
     KeepalivePrefix, KeepaliveBody, Wake, Server, ServerRead, ServerReply, Evict, Terminated, vars, historyVars
<1>2. torn => torn'
  BY <1>0 DEF TypeOK, Next, Network, Deliver, ResetArrives, Main, Progress, Connect, Request, Drop, WritePrefix,
     WriteBody, ReadPrefix, ReadBody, ReadFails, Join, RequestFails, KeepaliveThread,
     KeepalivePrefix, KeepaliveBody, Wake, Server, ServerRead, ServerReply, Evict, Terminated, vars, historyVars
<1> QED
  BY <1>0, <1>1, <1>2 DEF Spoilt

\* A stream behind another.
LEMMA Joined ==
  ASSUME NEW s \in Seq(Unit), NEW t \in Seq(Unit)
  PROVE  /\ s \o t \in Seq(Unit) /\ Len(s \o t) = Len(s) + Len(t)
         /\ Len(s) \in Nat /\ Len(t) \in Nat
         /\ \A i \in 1 .. Len(s) : (s \o t)[i] = s[i]
         /\ \A j \in 1 .. Len(t) : (s \o t)[Len(s) + j] = t[j]
         /\ \A i \in 1 .. Len(s) + Len(t) : i \in 1 .. Len(s) \/ \E j \in 1 .. Len(t) : i = Len(s) + j
<1>1. Len(s) \in Nat /\ Len(t) \in Nat
  OBVIOUS
<1>2. /\ s \o t \in Seq(Unit) /\ Len(s \o t) = Len(s) + Len(t)
      /\ \A i \in 1 .. Len(s) + Len(t) : (s \o t)[i] = IF i <= Len(s) THEN s[i] ELSE t[i - Len(s)]
  BY ConcatProperties
<1>3. ASSUME NEW i \in 1 .. Len(s) PROVE (s \o t)[i] = s[i]
  BY <1>1, <1>2
<1>4. ASSUME NEW j \in 1 .. Len(t) PROVE (s \o t)[Len(s) + j] = t[j]
  <2>1. Len(s) + j \in 1 .. Len(s) + Len(t) /\ ~(Len(s) + j <= Len(s)) /\ (Len(s) + j) - Len(s) = j
    BY <1>1
  <2> QED
    BY <1>2, <2>1
<1>5. ASSUME NEW i \in 1 .. Len(s) + Len(t), i \notin 1 .. Len(s) PROVE \E j \in 1 .. Len(t) : i = Len(s) + j
  <2>1. i - Len(s) \in 1 .. Len(t) /\ i = Len(s) + (i - Len(s))
    BY <1>1, <1>5
  <2> QED
    BY <2>1
<1> QED
  BY <1>1, <1>2, <1>3, <1>4, <1>5

\* A prefix behind whole frames.
LEMMA BlocksPrefix ==
  ASSUME NEW s \in Seq(Unit), Blocks(s), Complete(s), NEW f \in Frame
  PROVE  Blocks(s \o <<Prefix(f)>>) /\ EndsIn(s \o <<Prefix(f)>>, f)
<1>1. PICK h \in Seq(Unit) : h = <<Prefix(f)>> /\ Len(h) = 1 /\ h[1] = Prefix(f)
  BY FrameUnits
<1>2. /\ s \o h \in Seq(Unit) /\ Len(s \o h) = Len(s) + Len(h) /\ Len(s) \in Nat
      /\ \A i \in 1 .. Len(s) : (s \o h)[i] = s[i]
      /\ \A j \in 1 .. Len(h) : (s \o h)[Len(s) + j] = h[j]
  BY Joined
<1>3. PICK t \in Seq(Unit) : /\ t = s \o h /\ Len(t) = Len(s) + 1 /\ t[Len(s) + 1] = <<f, 0>>
                             /\ \A i \in 1 .. Len(s) : t[i] = s[i]
  <2>1. 1 \in 1 .. Len(h) /\ h[1] = <<f, 0>>
    BY <1>1 DEF Prefix
  <2> QED
    BY <1>1, <1>2, <2>1
<1>4. Len(s) \in Nat /\ BodyLen \in Nat
  OBVIOUS
<1>5. ASSUME NEW i \in 1 .. Len(s)
      PROVE  \E p \in 1 .. i, g \in Frame : i <= p + BodyLen /\ FrameAt(t, p, g)
  <2>1. PICK p \in 1 .. i, g \in Frame : i <= p + BodyLen /\ FrameAt(s, p, g)
    BY DEF Blocks
  <2>2. ASSUME NEW k \in 0 .. BodyLen, p + k <= Len(t) PROVE t[p + k] = <<g, k>>
    <3>1. CASE p + k <= Len(s)
      <4>1. p + k \in 1 .. Len(s)
        BY <1>4, <3>1
      <4>2. s[p + k] = <<g, k>>
        BY <2>1, <3>1 DEF FrameAt
      <4> QED
        BY <1>3, <4>1, <4>2
    <3>2. CASE ~(p + k <= Len(s))
      <4>1. k - 1 \in 0 .. BodyLen /\ p + (k - 1) = Len(s) /\ p + (k - 1) <= Len(s) /\ k - 1 # BodyLen
        <5>1. Len(t) = Len(s) + 1 /\ Len(s) \in Nat /\ BodyLen \in Nat
          BY <1>3, <1>4
        <5> QED
          BY <2>2, <3>2, <5>1
      <4>2. s[Len(s)] = <<g, k - 1>>
        BY <2>1, <4>1 DEF FrameAt
      <4>3. s # <<>>
        BY <1>4
      <4> QED
        BY <4>1, <4>2, <4>3 DEF Complete
    <3> QED
      BY <3>1, <3>2
  <2>3. FrameAt(t, p, g)
    BY <2>2 DEF FrameAt
  <2> QED
    BY <2>1, <2>3
<1>6. ASSUME NEW i \in 1 .. Len(t), i \notin 1 .. Len(s)
      PROVE  \E p \in 1 .. i, g \in Frame : i <= p + BodyLen /\ FrameAt(t, p, g)
  <2>1. i = Len(s) + 1 /\ i \in 1 .. i /\ i <= i + BodyLen /\ Len(t) = i
    BY <1>3, <1>4, <1>6
  <2>2. ASSUME NEW k \in 0 .. BodyLen, i + k <= Len(t) PROVE t[i + k] = <<f, k>>
    <3>1. k = 0 /\ i + k = Len(s) + 1
      BY <1>4, <2>1, <2>2
    <3> QED
      BY <1>3, <3>1
  <2>3. FrameAt(t, i, f)
    BY <2>2 DEF FrameAt
  <2> QED
    BY <2>1, <2>3
<1>7. Blocks(t)
  BY <1>5, <1>6 DEF Blocks
<1>8. EndsIn(t, f)
  <2>1. Len(t) = Len(s) + 1 /\ Len(t) # 0
    BY <1>3, <1>4
  <2> QED
    BY <1>3, <2>1 DEF EndsIn, Prefix
<1> QED
  BY <1>1, <1>3, <1>7, <1>8

\* The body behind its prefix.
LEMMA BlocksBody ==
  ASSUME NEW s \in Seq(Unit), NEW f \in Frame, Blocks(s), EndsIn(s, f)
  PROVE  Blocks(s \o Body(f)) /\ Complete(s \o Body(f))
<1>1. PICK b \in Seq(Unit) : b = Body(f) /\ Len(b) = BodyLen /\ \A i \in 1 .. BodyLen : b[i] = <<f, i>>
  BY FrameUnits
<1>2. PICK t \in Seq(Unit) : /\ t = s \o b /\ Len(t) = Len(s) + BodyLen
                             /\ \A i \in 1 .. Len(s) : t[i] = s[i]
                             /\ \A j \in 1 .. BodyLen : t[Len(s) + j] = <<f, j>>
  <2>1. /\ s \o b \in Seq(Unit) /\ Len(s \o b) = Len(s) + Len(b)
        /\ \A i \in 1 .. Len(s) : (s \o b)[i] = s[i]
        /\ \A j \in 1 .. Len(b) : (s \o b)[Len(s) + j] = b[j]
    BY Joined
  <2>2. PICK t \in Seq(Unit) : /\ t = s \o b /\ Len(t) = Len(s) + Len(b)
                               /\ \A i \in 1 .. Len(s) : t[i] = s[i]
                               /\ \A j \in 1 .. Len(b) : t[Len(s) + j] = b[j]
    BY <2>1
  <2>3. \A j \in 1 .. BodyLen : t[Len(s) + j] = <<f, j>>
    BY <1>1, <2>2
  <2> QED
    BY <1>1, <2>2, <2>3
<1>3. Len(s) \in Nat /\ Len(s) > 0 /\ BodyLen \in Nat /\ BodyLen > 0
  BY DEF EndsIn
<1>4. s[Len(s)] = <<f, 0>> /\ Len(s) \in 1 .. Len(s)
  BY <1>3 DEF EndsIn, Prefix
<1>5. FrameAt(t, Len(s), f)
  <2> SUFFICES ASSUME NEW k \in 0 .. BodyLen PROVE t[Len(s) + k] = <<f, k>>
    BY DEF FrameAt
  <2>1. CASE k = 0
    <3>1. Len(s) + k = Len(s)
      BY <1>3, <2>1
    <3> QED
      BY <1>2, <1>4, <2>1, <3>1
  <2>2. CASE k \in 1 .. BodyLen
    BY <1>2, <2>2
  <2> QED
    BY <1>3, <2>1, <2>2
<1>6. ASSUME NEW i \in 1 .. Len(s)
      PROVE  \E p \in 1 .. i, g \in Frame : i <= p + BodyLen /\ FrameAt(t, p, g)
  <2>1. PICK p \in 1 .. i, g \in Frame : i <= p + BodyLen /\ FrameAt(s, p, g)
    BY DEF Blocks
  <2>2. ASSUME NEW k \in 0 .. BodyLen, p + k <= Len(t) PROVE t[p + k] = <<g, k>>
    <3>1. CASE p + k <= Len(s)
      <4>1. p + k \in 1 .. Len(s)
        BY <1>3, <3>1
      <4>2. s[p + k] = <<g, k>>
        BY <2>1, <3>1 DEF FrameAt
      <4> QED
        BY <1>2, <4>1, <4>2
    <3>2. CASE ~(p + k <= Len(s))
      <4>1. PICK j \in 1 .. BodyLen : p + k = Len(s) + j /\ k - j \in 0 .. BodyLen /\ p + (k - j) = Len(s)
        <5>1. (p + k) - Len(s) \in 1 .. BodyLen /\ p + k = Len(s) + ((p + k) - Len(s))
              /\ k - ((p + k) - Len(s)) \in 0 .. BodyLen /\ p + (k - ((p + k) - Len(s))) = Len(s)
          BY <1>2, <1>3, <2>2, <3>2
        <5> QED
          BY <5>1
      <4>2. s[Len(s)] = <<g, k - j>>
        <5>1. p + (k - j) <= Len(s)
          BY <1>3, <4>1
        <5> QED
          BY <2>1, <4>1, <5>1 DEF FrameAt
      <4>3. g = f /\ k - j = 0
        BY <1>4, <4>2
      <4>4. k = j
        BY <4>1, <4>3
      <4> QED
        BY <1>2, <4>1, <4>3, <4>4
    <3> QED
      BY <3>1, <3>2
  <2>3. FrameAt(t, p, g)
    BY <2>2 DEF FrameAt
  <2> QED
    BY <2>1, <2>3
<1>7. ASSUME NEW i \in 1 .. Len(t), i \notin 1 .. Len(s)
      PROVE  \E p \in 1 .. i, g \in Frame : i <= p + BodyLen /\ FrameAt(t, p, g)
  <2>1. Len(s) \in 1 .. i /\ i <= Len(s) + BodyLen
    BY <1>2, <1>3, <1>7
  <2> QED
    BY <1>5, <2>1
<1>8. Blocks(t)
  BY <1>6, <1>7 DEF Blocks
<1>9. Complete(t)
  <2>1. BodyLen \in 1 .. BodyLen
    BY <1>3
  <2>2. t[Len(s) + BodyLen] = <<f, BodyLen>>
    BY <1>2, <2>1
  <2> QED
    BY <1>2, <2>2 DEF Complete
<1> QED
  BY <1>1, <1>2, <1>8, <1>9

\* The first frame of a stream is taken off.
LEMMA BlocksCut ==
  ASSUME NEW s \in Seq(Unit), Blocks(s), NEW m \in 0 .. Len(s), m = BodyLen + 1
  PROVE  LET t == SubSeq(s, m + 1, Len(s))
         IN  /\ Blocks(t) /\ (Complete(s) => Complete(t))
             /\ \A f \in Frame : EndsIn(s, f) => EndsIn(t, f)
<1>1. PICK t \in Seq(Unit) : /\ t = SubSeq(s, m + 1, Len(s)) /\ Len(t) = Len(s) - m
                             /\ \A i \in 1 .. Len(s) - m : t[i] = s[m + i]
  BY CutOff
<1>2. Len(s) \in Nat /\ Len(t) \in Nat /\ Len(s) = m + Len(t) /\ m \in Nat /\ m > 1 /\ BodyLen \in Nat /\ BodyLen > 0
  <2>1. Len(s) \in Nat /\ Len(t) \in Nat /\ Len(t) = Len(s) - m /\ BodyLen \in Nat /\ BodyLen > 0
    BY <1>1
  <2> QED
    BY <2>1
<1>3. PICK h \in Frame : FrameAt(s, 1, h)
  <2>1. 1 \in 1 .. Len(s)
    BY <1>2
  <2>2. PICK p \in 1 .. 1, h \in Frame : 1 <= p + BodyLen /\ FrameAt(s, p, h)
    BY <2>1 DEF Blocks
  <2> QED
    BY <2>2
<1>4. ASSUME NEW i \in 1 .. Len(t)
      PROVE  \E p \in 1 .. i, g \in Frame : i <= p + BodyLen /\ FrameAt(t, p, g)
  <2>1. m + i \in 1 .. Len(s)
    BY <1>2
  <2>2. PICK p \in 1 .. m + i, g \in Frame : m + i <= p + BodyLen /\ FrameAt(s, p, g)
    BY <2>1 DEF Blocks
  <2>3. p > m
    <3> SUFFICES ASSUME ~(p > m) PROVE FALSE
      OBVIOUS
    <3>1. /\ 0 \in 0 .. BodyLen /\ p + 0 <= Len(s) /\ p + 0 = p
          /\ p - 1 \in 0 .. BodyLen /\ 1 + (p - 1) <= Len(s) /\ 1 + (p - 1) = p /\ p # 1
      BY <1>2, <2>1, <2>2
    <3>2. s[p] = <<g, 0>>
      BY <2>2, <3>1 DEF FrameAt
    <3>3. s[p] = <<h, p - 1>>
      BY <1>3, <3>1 DEF FrameAt
    <3>4. p - 1 = 0
      BY <3>2, <3>3
    <3> QED
      BY <3>1, <3>4
  <2>4. PICK q \in 1 .. i : p = m + q /\ i <= q + BodyLen
    <3>1. p - m \in 1 .. i /\ p = m + (p - m) /\ i <= (p - m) + BodyLen
      BY <1>2, <2>2, <2>3
    <3> QED
      BY <3>1
  <2>5. ASSUME NEW k \in 0 .. BodyLen, q + k <= Len(t) PROVE t[q + k] = <<g, k>>
    <3>1. q + k \in 1 .. Len(s) - m /\ m + (q + k) = p + k /\ p + k <= Len(s)
      BY <1>2, <2>4, <2>5
    <3>2. s[p + k] = <<g, k>>
      BY <2>2, <3>1 DEF FrameAt
    <3> QED
      BY <1>1, <3>1, <3>2
  <2>6. FrameAt(t, q, g)
    BY <2>5 DEF FrameAt
  <2> QED
    BY <2>4, <2>6
<1>5. CASE Len(t) = 0
  <2>1. t = <<>>
    BY <1>5
  <2>2. BodyLen \in 0 .. BodyLen /\ 1 + BodyLen = Len(s) /\ 1 + BodyLen <= Len(s)
    BY <1>2, <1>5
  <2>3. s[Len(s)] = <<h, BodyLen>>
    BY <1>3, <2>2 DEF FrameAt
  <2>4. \A f \in Frame : ~EndsIn(s, f)
    BY <1>2, <2>3 DEF EndsIn, Prefix
  <2> QED
    BY <1>1, <1>4, <2>1, <2>4 DEF Blocks, Complete
<1>6. CASE Len(t) # 0
  <2>1. Len(t) \in 1 .. Len(s) - m /\ m + Len(t) = Len(s)
    BY <1>2, <1>6
  <2>2. t[Len(t)] = s[Len(s)]
    <3>1. t[Len(t)] = s[m + Len(t)]
      BY <1>1, <2>1
    <3> QED
      BY <2>1, <3>1
  <2>3. t # <<>> /\ s # <<>>
    <3>1. Len(t) # 0 /\ Len(s) # 0
      BY <1>2, <1>6
    <3> QED
      BY <3>1
  <2> QED
    BY <1>1, <1>4, <2>2, <2>3 DEF Blocks, Complete, EndsIn
<1> QED
  BY <1>5, <1>6

LEMMA HandshakeStep == ASSUME SInv, [Next]_vars PROVE Handshake'
<1>0. TypeOK /\ Control /\ Handshake
  BY DEF SInv
<1>1. CASE Network \/ Server \/ Evict \/ Terminated \/ UNCHANGED vars
  <2>1. UNCHANGED <<mpc, call, kpc>>
    BY <1>1 DEF Network, Deliver, ResetArrives, Server, ServerRead, ServerReply, Evict, Terminated,
       vars, clientVars
  <2> QED
    BY <1>0, <2>1 DEF Handshake
<1>2. CASE KeepaliveThread
  <2>1. UNCHANGED <<mpc, call>> /\ kpc # "unborn"
    BY <1>2 DEF KeepaliveThread, KeepalivePrefix, KeepaliveBody, Wake, clientVars
  <2> QED
    BY <1>0, <2>1 DEF Handshake
<1>3. CASE Connect
  BY <1>0, <1>3 DEF Connect, Handshake
<1>4. CASE (\E k \in {"data", "disconnect"} : Request(k)) \/ Drop
  <2>1. mpc' = "done" \/ call'[1] \in {"data", "disconnect"}
    BY <1>4 DEF Request, Drop
  <2>2. mpc' # "new"
    BY <1>4 DEF Request, Drop
  <2> QED
    BY <2>1, <2>2 DEF Handshake
<1>5. CASE ReadBody \/ Join
  <2>1. mpc' \in {"ready", "done"}
    BY <1>5 DEF ReadBody, Join, RequestFails
  <2> QED
    BY <2>1 DEF Handshake
<1>6. CASE WritePrefix \/ WriteBody \/ ReadPrefix \/ ReadFails
  <2>1. UNCHANGED <<call, kpc>> /\ mpc' # "new" /\ mpc \in {"prefix", "body", "readPrefix", "readBody"}
    BY <1>6 DEF WritePrefix, WriteBody, ReadPrefix, ReadFails, RequestFails
  <2> QED
    BY <1>0, <2>1 DEF Handshake
<1> QED
  BY <1>1, <1>2, <1>3, <1>4, <1>5, <1>6 DEF Next, Main, Progress

\* What is on the way to the server, as one stream.
LEMMA Flight ==
  ASSUME TypeOK
  PROVE  /\ InFlight \in Seq(Unit) /\ inbox \in Seq(Unit) /\ up \in Seq(Unit)
         /\ \A s \in Seq(Unit) : inbox \o (up \o s) = InFlight \o s
<1>1. inbox \in Seq(Unit) /\ up \in Seq(Unit)
  BY Streams
<1>2. InFlight \in Seq(Unit)
  BY <1>1, ConcatProperties DEF InFlight
<1>3. ASSUME NEW s \in Seq(Unit) PROVE inbox \o (up \o s) = InFlight \o s
  BY <1>1, ConcatAssociative, SMTT(30) DEF InFlight
<1> QED
  BY <1>1, <1>2, <1>3

\* Delivering a unit leaves that stream as it is.
LEMMA Delivered ==
  ASSUME NEW s \in Seq(Unit), NEW t \in Seq(Unit), t # <<>>
  PROVE  Append(s, Head(t)) \o Tail(t) = s \o t
<1>1. Head(t) \in Unit /\ Tail(t) \in Seq(Unit) /\ Len(Tail(t)) = Len(t) - 1 /\ Head(t) = t[1]
      /\ \A i \in 1 .. Len(t) - 1 : Tail(t)[i] = t[i + 1]
  BY HeadOff
<1>2. PICK h \in Seq(Unit) : h = <<Head(t)>> /\ Len(h) = 1 /\ h[1] = Head(t)
  BY <1>1, OneUnit
<1>3. Append(s, Head(t)) = s \o h
  BY <1>1, <1>2, AppendIsConcat
<1>4. (s \o h) \o Tail(t) = s \o (h \o Tail(t))
  BY <1>1, <1>2, ConcatAssociative
<1>5. h \o Tail(t) = t
  <2>1. /\ h \o Tail(t) \in Seq(Unit) /\ Len(h \o Tail(t)) = Len(h) + Len(Tail(t)) /\ Len(t) \in Nat
        /\ \A i \in 1 .. Len(h) : (h \o Tail(t))[i] = h[i]
        /\ \A j \in 1 .. Len(Tail(t)) : (h \o Tail(t))[Len(h) + j] = Tail(t)[j]
    BY <1>1, <1>2, Joined
  <2>2. Len(h \o Tail(t)) = Len(t)
    BY <1>1, <1>2, <2>1
  <2>3. ASSUME NEW i \in 1 .. Len(t) PROVE (h \o Tail(t))[i] = t[i]
    <3>1. CASE i = 1
      BY <1>1, <1>2, <2>1, <3>1
    <3>2. CASE i # 1
      <4>1. i - 1 \in 1 .. Len(t) - 1 /\ i - 1 \in 1 .. Len(Tail(t)) /\ 1 + (i - 1) = i /\ (i - 1) + 1 = i
        BY <1>1, <2>1, <3>2
      <4> QED
        BY <1>1, <1>2, <2>1, <4>1
    <3> QED
      BY <3>1, <3>2
  <2> QED
    BY <2>1, <2>2, <2>3, SeqEqual
<1> QED
  BY <1>3, <1>4, <1>5

\* Cutting off units that have arrived cuts them off the whole stream.
LEMMA CutJoined ==
  ASSUME NEW s \in Seq(Unit), NEW t \in Seq(Unit), NEW m \in 0 .. Len(s)
  PROVE  /\ m \in 0 .. Len(s \o t)
         /\ SubSeq(s, m + 1, Len(s)) \o t = SubSeq(s \o t, m + 1, Len(s \o t))
<1>1. PICK a \in Seq(Unit) : /\ a = SubSeq(s, m + 1, Len(s)) /\ Len(a) = Len(s) - m
                             /\ \A i \in 1 .. Len(s) - m : a[i] = s[m + i]
  BY CutOff
<1>2. /\ s \o t \in Seq(Unit) /\ Len(s \o t) = Len(s) + Len(t) /\ Len(s) \in Nat /\ Len(t) \in Nat
      /\ \A i \in 1 .. Len(s) : (s \o t)[i] = s[i]
      /\ \A j \in 1 .. Len(t) : (s \o t)[Len(s) + j] = t[j]
  BY Joined
<1>3. PICK q \in Seq(Unit) : /\ q = s \o t /\ Len(q) = Len(s) + Len(t)
                             /\ \A i \in 1 .. Len(s) : q[i] = s[i]
                             /\ \A j \in 1 .. Len(t) : q[Len(s) + j] = t[j]
  BY <1>2
<1>4. m \in 0 .. Len(q) /\ m \in Nat /\ Len(a) \in Nat /\ Len(a) + m = Len(s) /\ Len(q) - m = Len(a) + Len(t)
  <2>1. /\ Len(s) \in Nat /\ Len(t) \in Nat /\ Len(q) = Len(s) + Len(t) /\ Len(a) = Len(s) - m
    BY <1>1, <1>2, <1>3
  <2> QED
    BY <2>1
<1>5. PICK b \in Seq(Unit) : /\ b = SubSeq(q, m + 1, Len(q)) /\ Len(b) = Len(q) - m
                             /\ \A i \in 1 .. Len(q) - m : b[i] = q[m + i]
  BY <1>4, CutOff
<1>6. /\ a \o t \in Seq(Unit) /\ Len(a \o t) = Len(a) + Len(t)
      /\ \A i \in 1 .. Len(a) : (a \o t)[i] = a[i]
      /\ \A j \in 1 .. Len(t) : (a \o t)[Len(a) + j] = t[j]
      /\ \A i \in 1 .. Len(a) + Len(t) : i \in 1 .. Len(a) \/ \E j \in 1 .. Len(t) : i = Len(a) + j
  BY Joined
<1>7. Len(a \o t) = Len(b)
  <2>1. /\ Len(a \o t) = Len(a) + Len(t) /\ Len(b) = Len(q) - m /\ Len(q) = Len(s) + Len(t)
        /\ Len(a) + m = Len(s) /\ Len(t) \in Nat /\ Len(a) \in Nat /\ m \in Nat
    BY <1>2, <1>3, <1>4, <1>5, <1>6
  <2> QED
    BY <2>1
<1>8. ASSUME NEW i \in 1 .. Len(a \o t) PROVE (a \o t)[i] = b[i]
  <2>1. i \in 1 .. Len(a) + Len(t)
    BY <1>6
  <2>2. CASE i \in 1 .. Len(a)
    <3>1. i \in 1 .. Len(s) - m /\ i \in 1 .. Len(q) - m /\ m + i \in 1 .. Len(s)
      <4>1. Len(s) \in Nat /\ Len(t) \in Nat /\ m \in Nat /\ Len(a) + m = Len(s) /\ Len(q) - m = Len(a) + Len(t)
        BY <1>2, <1>4
      <4> QED
        BY <2>2, <4>1
    <3>2. b[i] = q[m + i] /\ q[m + i] = s[m + i] /\ a[i] = s[m + i]
      BY <1>1, <1>3, <1>5, <3>1
    <3> QED
      BY <1>6, <2>2, <3>2
  <2>3. CASE \E j \in 1 .. Len(t) : i = Len(a) + j
    <3>1. PICK j \in 1 .. Len(t) : i = Len(a) + j
      BY <2>3
    <3>2. i \in 1 .. Len(q) - m /\ m + i = Len(s) + j /\ j \in Nat
      <4>1. /\ Len(s) \in Nat /\ Len(t) \in Nat /\ m \in Nat /\ Len(a) \in Nat /\ Len(a) + m = Len(s)
            /\ Len(q) - m = Len(a) + Len(t)
        BY <1>2, <1>4
      <4> QED
        BY <3>1, <4>1, SMTT(30)
    <3>3. b[i] = q[m + i] /\ q[Len(s) + j] = t[j] /\ (a \o t)[Len(a) + j] = t[j]
      BY <1>3, <1>5, <1>6, <3>2
    <3> QED
      BY <3>1, <3>2, <3>3
  <2> QED
    BY <1>6, <2>1, <2>2, <2>3
<1>9. a \o t = b
  BY <1>6, <1>7, <1>8, SeqEqual
<1> QED
  BY <1>1, <1>3, <1>4, <1>5, <1>9

\* At the head of a stream that is not spoilt is a length prefix.
LEMMA HeadWhole ==
  ASSUME SInv, ~Spoilt, ended = "no", inbox # <<>>
  PROVE  \A n \in Lengths(Head(inbox)) : n = BodyLen /\ n # TooLarge
<1>0. TypeOK /\ Whole
  BY DEF SInv
<1>1. /\ inbox \in Seq(Unit) /\ up \in Seq(Unit)
      /\ Head(inbox) \in Unit /\ Head(inbox) = inbox[1] /\ Len(inbox) \in Nat /\ Len(inbox) > 0
  BY <1>0, Flight, HeadOff
<1>2. /\ InFlight = inbox \o up /\ Len(inbox \o up) = Len(inbox) + Len(up) /\ Len(up) \in Nat
      /\ \A i \in 1 .. Len(inbox) : (inbox \o up)[i] = inbox[i]
  BY <1>1, Joined DEF InFlight
<1>3. InFlight[1] = inbox[1] /\ 1 \in 1 .. Len(InFlight)
  BY <1>1, <1>2
<1>4. Blocks(InFlight)
  BY <1>0 DEF Whole
<1>5. PICK p \in 1 .. 1, f \in Frame : FrameAt(InFlight, p, f)
  BY <1>3, <1>4 DEF Blocks
<1>6. 0 \in 0 .. BodyLen /\ p + 0 = 1 /\ p + 0 <= Len(InFlight)
  BY <1>3, <1>5
<1>7. InFlight[1] = <<f, 0>>
  BY <1>5, <1>6 DEF FrameAt
<1>8. Head(inbox)[2] = 0
  BY <1>1, <1>3, <1>7
<1> QED
  BY <1>1, <1>8, LengthsSaid

\* The server takes a whole frame off such a stream.
LEMMA ReadsWhole ==
  ASSUME SInv, ~Spoilt, ServerRead, ended' = "no", ~torn'
  PROVE  /\ BodyLen + 1 \in 0 .. Len(InFlight)
         /\ inbox' \o up' = SubSeq(InFlight, (BodyLen + 1) + 1, Len(InFlight))
<1>0. TypeOK /\ ended = "no" /\ inbox # <<>>
  BY DEF SInv, ServerRead
<1>1. inbox \in Seq(Unit) /\ up \in Seq(Unit) /\ Tail(inbox) \in Seq(Unit)
  BY <1>0, Flight, HeadOff
<1>2. \A n \in Lengths(Head(inbox)) : n = BodyLen /\ n # TooLarge
  BY <1>0, HeadWhole
<1>3. /\ BodyLen <= Len(Tail(inbox)) /\ up' = up
      /\ inbox' = SubSeq(Tail(inbox), BodyLen + 1, Len(Tail(inbox)))
  BY <1>2 DEF ServerRead
<1>4. BodyLen \in 0 .. Len(Tail(inbox))
  BY <1>1, <1>3
<1>5. BodyLen + 1 \in 0 .. Len(inbox) /\ inbox' = SubSeq(inbox, (BodyLen + 1) + 1, Len(inbox))
  BY <1>0, <1>1, <1>3, <1>4, CutTail
<1>6. PICK m \in 0 .. Len(inbox) : m = BodyLen + 1 /\ inbox' = SubSeq(inbox, m + 1, Len(inbox))
  BY <1>5
<1>7. m \in 0 .. Len(inbox \o up)
      /\ SubSeq(inbox, m + 1, Len(inbox)) \o up = SubSeq(inbox \o up, m + 1, Len(inbox \o up))
  BY <1>1, CutJoined
<1> QED
  BY <1>3, <1>6, <1>7 DEF InFlight

LEMMA WholeStep == ASSUME SInv, [Next]_vars PROVE Whole'
<1> SUFFICES ASSUME ~Spoilt', ended' = "no"
             PROVE  /\ Blocks(inbox' \o up')
                    /\ ~(mpc' = "body" /\ kpc' = "body")
                    /\ mpc' = "body" => EndsIn(inbox' \o up', call')
                    /\ kpc' = "body" => EndsIn(inbox' \o up', Keepalive)
                    /\ mpc' # "body" /\ kpc' # "body" => Complete(inbox' \o up')
  BY DEF Whole, InFlight
<1>0. TypeOK /\ Control /\ Handshake /\ LinkOK /\ Whole /\ ~Spoilt
  BY SpoiltStays DEF SInv
<1>01. ~mixed' /\ ~torn' /\ ~late'
  BY DEF Spoilt
<1>02. ended = "no"
  <2>1. ended # "no" => ended' = ended
    BY DEF Next, Network, Deliver, ResetArrives, Main, Progress, Connect, Request, Drop, WritePrefix,
       WriteBody, ReadPrefix, ReadBody, ReadFails, Join, KeepaliveThread, KeepalivePrefix, KeepaliveBody,
       Wake, Server, ServerRead, ServerReply, Evict, Terminated, vars, serverVars
  <2> QED
    BY <2>1
<1>03. /\ link \in {"none", "open"} /\ Blocks(InFlight) /\ InFlight \in Seq(Unit)
       /\ ~(mpc = "body" /\ kpc = "body")
       /\ mpc = "body" => EndsIn(InFlight, call)
       /\ kpc = "body" => EndsIn(InFlight, Keepalive)
       /\ mpc # "body" /\ kpc # "body" => Complete(InFlight)
  BY <1>0, <1>02, Flight DEF Whole, LinkOK
<1>04. ASSUME inbox' \o up' = InFlight, mpc' = "body" <=> mpc = "body", kpc' = "body" <=> kpc = "body",
              mpc = "body" => call' = call
       PROVE  /\ Blocks(inbox' \o up')
              /\ ~(mpc' = "body" /\ kpc' = "body")
              /\ mpc' = "body" => EndsIn(inbox' \o up', call')
              /\ kpc' = "body" => EndsIn(inbox' \o up', Keepalive)
              /\ mpc' # "body" /\ kpc' # "body" => Complete(inbox' \o up')
  BY <1>03, <1>04
<1>05. UNCHANGED <<inbox, up>> => inbox' \o up' = InFlight
  BY DEF InFlight
<1>06. ASSUME NEW s \in Seq(Unit), Written(s) \/ NotWritten(s), inbox' = inbox
       PROVE  Written(s) /\ inbox' \o up' = InFlight \o s
  <2>1. Written(s) /\ up' = up \o s
    BY <1>01, <1>03, <1>06 DEF Written, NotWritten
  <2> QED
    BY <1>0, <1>06, <2>1, Flight
<1>1. CASE Deliver
  <2>1. /\ inbox' = Append(inbox, Head(up)) /\ up' = Tail(up) /\ up # <<>> /\ UNCHANGED <<mpc, call, kpc>>
    BY <1>1 DEF Deliver, clientVars
  <2>2. inbox' \o up' = InFlight
    BY <1>0, <2>1, Flight, Delivered DEF InFlight
  <2> QED
    BY <1>04, <2>1, <2>2
<1>2. CASE ResetArrives \/ Evict
  BY <1>03, <1>2 DEF ResetArrives, Evict, Close
<1>3. CASE WritePrefix
  <2>1. /\ mpc = "prefix" /\ kpc # "body" /\ UNCHANGED <<kpc, call, inbox>> /\ call \in Frame
    BY <1>0, <1>01, <1>3 DEF WritePrefix, Interleaves, RequestFails, Control
  <2>2. <<Prefix(call)>> \in Seq(Unit)
    BY <2>1, FrameUnits
  <2>3. Written(<<Prefix(call)>>) /\ inbox' \o up' = InFlight \o <<Prefix(call)>>
    BY <1>06, <1>3, <2>1, <2>2 DEF WritePrefix
  <2>4. ~NotWritten(<<Prefix(call)>>)
    BY <1>01, <1>03 DEF NotWritten
  <2>5. mpc' = "body"
    BY <1>3, <2>4 DEF WritePrefix
  <2>6. Blocks(InFlight \o <<Prefix(call)>>) /\ EndsIn(InFlight \o <<Prefix(call)>>, call)
    BY <1>03, <2>1, BlocksPrefix
  <2> QED
    BY <2>1, <2>3, <2>5, <2>6
<1>4. CASE WriteBody
  <2>1. /\ mpc = "body" /\ kpc # "body" /\ UNCHANGED <<kpc, call, inbox>> /\ call \in Frame
    BY <1>0, <1>03, <1>4 DEF WriteBody, RequestFails, Control
  <2>2. Body(call) \in Seq(Unit)
    BY <2>1, FrameUnits
  <2>3. Written(Body(call)) /\ inbox' \o up' = InFlight \o Body(call)
    BY <1>06, <1>4, <2>1, <2>2 DEF WriteBody
  <2>4. mpc' # "body"
    BY <1>4 DEF WriteBody, RequestFails
  <2>5. Blocks(InFlight \o Body(call)) /\ Complete(InFlight \o Body(call))
    BY <1>03, <2>1, BlocksBody
  <2> QED
    BY <2>1, <2>3, <2>4, <2>5
<1>5. CASE KeepalivePrefix
  <2>1. kpc = "prefix" /\ mpc # "body" /\ UNCHANGED <<mpc, call, inbox>>
    BY <1>01, <1>5 DEF KeepalivePrefix, Interleaves, clientVars
  <2>2. <<Prefix(Keepalive)>> \in Seq(Unit) /\ Keepalive \in Frame
    BY NoFrames, FrameUnits
  <2>3. Written(<<Prefix(Keepalive)>>) /\ inbox' \o up' = InFlight \o <<Prefix(Keepalive)>>
    BY <1>06, <1>5, <2>1, <2>2 DEF KeepalivePrefix
  <2>4. ~NotWritten(<<Prefix(Keepalive)>>)
    BY <1>01, <1>03 DEF NotWritten
  <2>5. kpc' = "body"
    BY <1>5, <2>4 DEF KeepalivePrefix
  <2>6. Blocks(InFlight \o <<Prefix(Keepalive)>>) /\ EndsIn(InFlight \o <<Prefix(Keepalive)>>, Keepalive)
    BY <1>03, <2>1, <2>2, BlocksPrefix
  <2> QED
    BY <2>1, <2>3, <2>5, <2>6
<1>6. CASE KeepaliveBody
  <2>1. kpc = "body" /\ mpc # "body" /\ UNCHANGED <<mpc, call, inbox>>
    BY <1>03, <1>6 DEF KeepaliveBody, clientVars
  <2>2. Body(Keepalive) \in Seq(Unit) /\ Keepalive \in Frame
    BY NoFrames, FrameUnits
  <2>3. Written(Body(Keepalive)) /\ inbox' \o up' = InFlight \o Body(Keepalive)
    BY <1>06, <1>6, <2>1, <2>2 DEF KeepaliveBody
  <2>4. kpc' # "body"
    BY <1>6 DEF KeepaliveBody
  <2>5. Blocks(InFlight \o Body(Keepalive)) /\ Complete(InFlight \o Body(Keepalive))
    BY <1>03, <2>1, <2>2, BlocksBody
  <2> QED
    BY <2>1, <2>3, <2>4, <2>5
<1>7. CASE ServerRead
  <2>1. UNCHANGED <<mpc, kpc, call>>
    BY <1>7 DEF ServerRead, clientVars
  <2>2. PICK m \in 0 .. Len(InFlight) :
          m = BodyLen + 1 /\ inbox' \o up' = SubSeq(InFlight, m + 1, Len(InFlight))
    BY <1>0, <1>01, <1>7, ReadsWhole
  <2>3. PICK t : t = SubSeq(InFlight, m + 1, Len(InFlight))
    OBVIOUS
  <2>4. Blocks(t) /\ (Complete(InFlight) => Complete(t)) /\ \A f \in Frame : EndsIn(InFlight, f) => EndsIn(t, f)
    BY <1>03, <2>2, <2>3, BlocksCut
  <2>5. mpc = "body" => call \in Frame
    BY <1>0 DEF Control
  <2> QED
    BY <1>03, <2>1, <2>2, <2>3, <2>4, <2>5, NoFrames
<1>8. CASE ServerReply
  <2>1. UNCHANGED <<mpc, kpc, call, inbox, up>>
    BY <1>8 DEF ServerReply, Close, clientVars
  <2> QED
    BY <1>04, <1>05, <2>1
<1>9. CASE Connect \/ (\E k \in {"data", "disconnect"} : Request(k)) \/ Drop \/ Join
  <2>1. UNCHANGED <<kpc, inbox, up>> /\ mpc # "body" /\ mpc' # "body"
    BY <1>9 DEF Connect, Request, Drop, Join, streamVars
  <2> QED
    BY <1>04, <1>05, <2>1
<1>10. CASE ReadPrefix \/ ReadFails \/ ReadBody
  <2>1. UNCHANGED <<inbox, up>> /\ mpc # "body" /\ mpc' # "body"
    BY <1>10 DEF ReadPrefix, ReadFails, ReadBody, RequestFails
  <2>2. kpc' = "body" <=> kpc = "body"
    BY <1>0, <1>10 DEF ReadPrefix, ReadFails, ReadBody, RequestFails, Handshake
  <2> QED
    BY <1>04, <1>05, <2>1, <2>2
<1>11. CASE Wake \/ Terminated \/ UNCHANGED vars
  <2>1. UNCHANGED <<mpc, call, inbox, up>> /\ (kpc' = "body" <=> kpc = "body")
    BY <1>11 DEF Wake, Terminated, vars, clientVars, streamVars
  <2> QED
    BY <1>04, <1>05, <2>1
<1> QED
  BY <1>1, <1>2, <1>3, <1>4, <1>5, <1>6, <1>7, <1>8, <1>9, <1>10, <1>11
     DEF Next, Network, Main, Progress, KeepaliveThread, Server

-----------------------------------------------------------------------------
(***************************************************************************)
(* What goes wrong goes wrong for a reason.                                *)
(***************************************************************************)

\* The server's decision to drop the client is final.
LEMMA EndedStays == ASSUME [Next]_vars, ended # "no" PROVE ended' = ended
  BY DEF Next, Network, Deliver, ResetArrives, Main, Progress, Connect, Request, Drop, WritePrefix,
     WriteBody, ReadPrefix, ReadBody, ReadFails, Join, KeepaliveThread, KeepalivePrefix, KeepaliveBody,
     Wake, Server, ServerRead, ServerReply, Evict, Terminated, vars, serverVars

LEMMA ExpelledStep == ASSUME SInv, [Next]_vars PROVE ExpelledOnlyAfterRace'
<1> SUFFICES ASSUME ended' = "protocol" PROVE Spoilt'
  BY DEF ExpelledOnlyAfterRace, Spoilt
<1>0. ExpelledOnlyAfterRace /\ (Spoilt => Spoilt')
  BY SpoiltStays DEF SInv
<1>1. CASE ended = "protocol"
  BY <1>0, <1>1 DEF ExpelledOnlyAfterRace, Spoilt
<1>2. CASE ended # "protocol"
  <2>1. ended = "no"
    BY <1>2, EndedStays
  <2>2. ServerRead
    BY <1>2 DEF Next, Network, Deliver, ResetArrives, Main, Progress, Connect, Request, Drop, WritePrefix,
       WriteBody, ReadPrefix, ReadBody, ReadFails, Join, KeepaliveThread, KeepalivePrefix, KeepaliveBody,
       Wake, Server, ServerReply, Evict, Close, Terminated, vars, serverVars
  <2>3. TooLarge \in Lengths(Head(inbox)) /\ inbox # <<>>
    BY <1>2, <2>2 DEF ServerRead
  <2>4. Spoilt
    BY <2>1, <2>3, HeadWhole
  <2> QED
    BY <1>0, <2>4
<1> QED
  BY <1>1, <1>2

LEMMA FailsStep == ASSUME SInv, [Next]_vars PROVE FailsOnlyAfterRace'
<1> SUFFICES ASSUME failed', ~Spoilt', ended' # "evicted" PROVE FALSE
  BY DEF FailsOnlyAfterRace, Spoilt
<1>0. TypeOK /\ Control /\ LinkOK /\ Match /\ Left /\ ExpelledOnlyAfterRace /\ FailsOnlyAfterRace
  BY DEF SInv
<1>1. ~Spoilt /\ ~late /\ ~late' /\ ended # "evicted"
  <2>1. ~Spoilt /\ ended # "evicted"
    BY SpoiltStays, EndedStays
  <2> QED
    BY <2>1 DEF Spoilt
<1>2. ~failed
  BY <1>0, <1>1 DEF FailsOnlyAfterRace, Spoilt
<1>3. /\ WritePrefix \/ WriteBody \/ ReadPrefix \/ ReadBody \/ ReadFails
      /\ RequestFails /\ call[1] = "data" /\ mpc \in {"prefix", "body", "readPrefix", "readBody"}
  <2>1. WritePrefix \/ WriteBody \/ ReadPrefix \/ ReadBody \/ ReadFails
    BY <1>2 DEF Next, Network, Deliver, ResetArrives, Main, Progress, Connect, Request, Drop, Join,
       KeepaliveThread, KeepalivePrefix, KeepaliveBody, Wake, Server, ServerRead, ServerReply, Evict,
       Terminated, vars, historyVars
  <2>2. RequestFails /\ mpc \in {"prefix", "body", "readPrefix", "readBody"}
    BY <1>2, <2>1 DEF WritePrefix, WriteBody, ReadPrefix, ReadBody, ReadFails
  <2>3. call[1] = "data"
    BY <1>2, <2>2 DEF RequestFails
  <2> QED
    BY <2>1, <2>2, <2>3
<1>4. ended = "no"
  <2>1. ended # "disconnect"
    BY <1>0, <1>1, <1>3 DEF Left
  <2>2. ended # "protocol"
    BY <1>0, <1>1 DEF ExpelledOnlyAfterRace, Spoilt
  <2> QED
    BY <1>0, <1>1, <2>1, <2>2 DEF TypeOK
<1>5. link = "open" /\ call \in Frame /\ call # NoFrame
  BY <1>0, <1>3, <1>4, NoFrames DEF LinkOK, Control
<1>6. CASE WritePrefix \/ WriteBody
  BY <1>1, <1>3, <1>5, <1>6 DEF WritePrefix, WriteBody, NotWritten, RequestFails
<1>7. CASE ReadPrefix
  <2>1. down = Units(call) /\ down # <<>>
    BY <1>0, <1>1, <1>7 DEF ReadPrefix, Match
  <2>2. Head(down) = Prefix(call) /\ Head(down) \in Unit
    <3>1. down \in Seq(Unit)
      BY <1>0, Streams
    <3>2. Head(down) = down[1] /\ Head(down) \in Unit
      BY <2>1, <3>1, HeadOff
    <3>3. down[1] = Prefix(call)
      BY <1>5, <2>1, FrameUnits
    <3> QED
      BY <3>2, <3>3
  <2>3. \A n \in Lengths(Head(down)) : n # TooLarge
    BY <1>5, <2>2, FrameUnits, LengthsSaid
  <2> QED
    BY <1>3, <1>7, <2>3 DEF ReadPrefix, RequestFails
<1>8. CASE ReadBody
  <2>1. down = Body(call) /\ head = call /\ want = BodyLen
    BY <1>0, <1>1, <1>8 DEF ReadBody, Match
  <2>2. SubSeq(down, 1, want) = Body(head)
    <3>1. Body(call) \in Seq(Unit) /\ Len(Body(call)) = BodyLen
      BY <1>5, FrameUnits
    <3>2. SubSeq(Body(call), 1, Len(Body(call))) = Body(call)
      BY <3>1, SubSeqFull
    <3> QED
      BY <2>1, <3>1, <3>2
  <2>3. Accepts(head) /\ head # NoFrame
    BY <1>3, <1>5, <2>1 DEF Accepts
  <2> QED
    BY <1>2, <1>8, <2>2, <2>3 DEF ReadBody
<1>9. CASE ReadFails
  BY <1>1, <1>5, <1>9 DEF ReadFails
<1> QED
  BY <1>3, <1>6, <1>7, <1>8, <1>9

-----------------------------------------------------------------------------
(***************************************************************************)
(* The invariant, and what follows from it.                                *)
(***************************************************************************)

LEMMA InitSInv == Init => SInv
<1> SUFFICES ASSUME Init PROVE SInv
  OBVIOUS
<1>1. TypeOK
  BY InitTypes
<1>2. Control /\ Handshake /\ LinkOK /\ Heads /\ Left /\ ExpelledOnlyAfterRace /\ FailsOnlyAfterRace
  <2>1. NoFrame # Keepalive /\ NoFrame[2] = 0 /\ 0 <= MaxCalls
    BY DEF NoFrame, Keepalive
  <2>2. \A i \in 1 .. Len(<<>>) : FALSE
    OBVIOUS
  <2> QED
    BY <2>1, <2>2 DEF Init, Control, Handshake, LinkOK, Heads, Left, ExpelledOnlyAfterRace, FailsOnlyAfterRace
<1>3. Asked(inbox) = {} /\ Asked(up) = {} /\ Asked(down) = {} /\ Only(pend) = {} /\ Only(head) = {}
  BY AskedNone DEF Init
<1>4. Sent = {} /\ Open = {} /\ Returned = {}
  <2>1. \A i \in 1 .. Len(results) : FALSE
    BY DEF Init
  <2> QED
    BY <1>3, <2>1 DEF Sent, Open, Returned
<1>5. Order
  BY <1>3, <1>4, AskedNone DEF Init, Order, AllBelow
<1>6. Fresh /\ AnswersMatch /\ AnswersInOrder
  <2>1. \A i \in 1 .. Len(<<>>) : FALSE
    OBVIOUS
  <2>2. \A i \in DOMAIN <<>> : FALSE
    OBVIOUS
  <2> QED
    BY <2>1, <2>2 DEF Init, Fresh, FreshIn, AnswersMatch, AnswersInOrder
<1>7. Match
  BY <1>4 DEF Init, Match, Quiet
<1>8. Whole
  <2>1. InFlight = <<>>
    BY DEF Init, InFlight
  <2>2. \A i \in 1 .. Len(<<>>) : FALSE
    OBVIOUS
  <2> QED
    BY <2>1, <2>2 DEF Init, Whole, Blocks, Complete
<1> QED
  BY <1>1, <1>2, <1>5, <1>6, <1>7, <1>8 DEF SInv

LEMMA SInvStep == SInv /\ [Next]_vars => SInv'
<1> SUFFICES ASSUME SInv, [Next]_vars PROVE SInv'
  OBVIOUS
<1>1. TypeOK' /\ Control' /\ Handshake' /\ LinkOK' /\ Heads' /\ Order' /\ Fresh'
  BY TypesStep, ControlStep, HandshakeStep, LinkStep, HeadsStep, OrderStep, FreshStep
<1>2. Match' /\ Whole' /\ Left'
  BY MatchStep, WholeStep, LeftStep
<1>3. AnswersMatch' /\ AnswersInOrder' /\ ExpelledOnlyAfterRace' /\ FailsOnlyAfterRace'
  BY AnswersMatchStep, AnswersInOrderStep, ExpelledStep, FailsStep
<1> QED
  BY <1>1, <1>2, <1>3 DEF SInv

\* SInv holds in every state of a session: what is on its way between a client and the
\* server is, until something times out, the one request the client waits for.
THEOREM SessionInvariance == Spec => []SInv
  BY InitSInv, SInvStep, PTL DEF Spec

\* The variables keep their types: the streams never hold more than the buffers take,
\* and the client never waits for more units than they could.
THEOREM SessionTypeCorrect == Spec => []TypeOK
<1>1. SInv => TypeOK
  BY DEF SInv
<1> QED
  BY <1>1, SessionInvariance, PTL

\* A request of the client returns the answer to that request as long as no earlier
\* one of the session has timed out, although send_packet does not compare the two.
THEOREM RequestsAnswered == Spec => []AnswersMatch
<1>1. SInv => AnswersMatch
  BY DEF SInv
<1> QED
  BY <1>1, SessionInvariance, PTL

\* Timeouts or not, interleaved frames or not: what the requests return are answers to
\* requests of this session made before, in the order in which they were made, and
\* none is returned twice.
THEOREM RequestsAnsweredInOrder == Spec => []AnswersInOrder
<1>1. SInv => AnswersInOrder
  BY DEF SInv
<1> QED
  BY <1>1, SessionInvariance, PTL

\* service_read_packet meets a length that is none, for which the worker removes the
\* client, only where the client's two threads have written into each other's frames,
\* a prefix was read before its body was there, or a write timed out.
THEOREM ExpelledForARace == Spec => []ExpelledOnlyAfterRace
<1>1. SInv => ExpelledOnlyAfterRace
  BY DEF SInv
<1> QED
  BY <1>1, SessionInvariance, PTL

\* A data packet that send_packet could not get answered was hit by a timeout, by an
\* eviction or by one of these races: nothing else makes a request of an established
\* session fail.
THEOREM FailuresHaveCause == Spec => []FailsOnlyAfterRace
<1>1. SInv => FailsOnlyAfterRace
  BY DEF SInv
<1> QED
  BY <1>1, SessionInvariance, PTL
=============================================================================
