----------------------------- MODULE VpnSession -----------------------------
(***************************************************************************)
(* One VPN client and its connection to the server: VpnClient and its      *)
(* keepalive thread (src/src/vpn/vpn_client.rs), TcpClient                 *)
(* (network/tcp_client.rs), the two byte streams of the connection, and    *)
(* what the server does at its end (network/tcp_server.rs,                 *)
(* vpn/vpn_worker.rs).  VpnServer models that end among other clients and  *)
(* takes frames as they come; here frames are cut into the pieces that are *)
(* written, arrive and are read separately.                                *)
(*                                                                         *)
(* Both threads of the client write to the same socket, each frame by two  *)
(* calls of write_all: the length prefix, then the body.  No lock keeps    *)
(* the two calls together.  A stream is a sequence of units: a prefix is   *)
(* one unit, a body BodyLen of them.  A unit of ciphertext that is read as *)
(* a length prefix has any value.                                          *)
(***************************************************************************)
EXTENDS Naturals, Sequences

CONSTANTS
  BodyLen,   \* units of a body
  Buffer,    \* bound: units that the buffers of one direction hold
  MaxCalls,  \* bound: requests of the client, its handshake included
  Evictions  \* whether the server may evict the client meanwhile

ASSUME SessionAssumption ==
  /\ BodyLen \in Nat \ {0}
  /\ Buffer \in Nat /\ Buffer > BodyLen
  /\ MaxCalls \in Nat \ {0}
  /\ Evictions \in BOOLEAN

\* The frames of the main thread are numbered; keepalives are all alike.
Frame == ({"config", "data", "disconnect"} \X (1 .. MaxCalls + 1)) \cup {<<"keepalive", 0>>}
Keepalive == <<"keepalive", 0>>
NoFrame == <<"none", 0>>

\* The units of frame f: <<f, 0>> is the length prefix, <<f, i>> a unit of the body.
Prefix(f) == <<f, 0>>
Body(f) == [i \in 1 .. BodyLen |-> <<f, i>>]
Units(f) == <<Prefix(f)>> \o Body(f)
Unit == Frame \X (0 .. BodyLen)

\* Mutant of Lengths: a prefix says less than there is.
LengthsShort(u) == IF u[2] = 0 THEN {BodyLen - 1} ELSE 0 .. Buffer + 1

\* What a prefix that is none may say: a number of units, or more than 65535 bytes.
TooLarge == Buffer + 1
Lengths(u) == IF u[2] = 0 THEN {BodyLen} ELSE 0 .. TooLarge

VARIABLES
  mpc, call,  \* control of the client's main thread, and its request
  connected,  \* VpnClient.connected
  dropping,   \* the main thread is in Drop
  kpc,        \* control of the keepalive thread
  want, head, \* client_read_packet: the length it has read, and from which prefix
  link,       \* the connection as the client's kernel knows it
  up, inbox,  \* client to server: written, and arrived but not read
  down,       \* server to client: arrived but not read
  pend,       \* the frame the server's worker has to answer
  ended,      \* why the server has dropped the client
  results,    \* history: requests answered by Ok, each with the frame answered
  failed,     \* history: a send_packet returned an error
  late,       \* history: a read or a write of the client timed out
  torn,       \* history: the server has read a prefix before its body was there
  mixed       \* history: a thread began a frame within one of the other's

clientVars  == <<mpc, call, connected, dropping, want, head>>
streamVars  == <<link, up, inbox, down>>
serverVars  == <<pend, ended>>
historyVars == <<results, failed, late, torn, mixed>>
vars == <<clientVars, kpc, streamVars, serverVars, historyVars>>

Init ==
  /\ mpc = "new" /\ call = NoFrame /\ connected = FALSE /\ dropping = FALSE
  /\ kpc = "unborn"
  /\ want = 0 /\ head = NoFrame
  /\ link = "none"
  /\ up = <<>> /\ inbox = <<>> /\ down = <<>>
  /\ pend = NoFrame /\ ended = "no"
  /\ results = <<>>
  /\ failed = FALSE /\ late = FALSE /\ torn = FALSE /\ mixed = FALSE

-----------------------------------------------------------------------------
(***************************************************************************)
(* The connection.                                                         *)
(***************************************************************************)

Room == Buffer - (Len(up) + Len(inbox))

\* write_all(s) succeeds: s is sent or, when the server has closed its end, is lost
\* and makes the server's kernel answer with a reset.
Written(s) ==
  \/ /\ link = "open" /\ Len(s) <= Room
     /\ up' = up \o s
     /\ UNCHANGED <<link, late>>
  \/ /\ link \in {"closed", "resetting"}
     /\ link' = "resetting"
     /\ UNCHANGED <<up, late>>

\* write_all(s) fails: the connection was reset, or part of s did not fit into the
\* buffers for the 45 s of the write timeout.
NotWritten(s) ==
  /\ \/ /\ link = "reset"
        /\ UNCHANGED <<up, late>>
     \/ /\ link = "open" /\ Len(s) > Room
        /\ up' = up \o SubSeq(s, 1, Room) /\ late' = TRUE
  /\ UNCHANGED link

Deliver ==
  /\ up # <<>>
  /\ inbox' = Append(inbox, Head(up)) /\ up' = Tail(up)
  /\ UNCHANGED <<clientVars, kpc, link, down, serverVars, historyVars>>

ResetArrives ==
  /\ link = "resetting"
  /\ link' = "reset"
  /\ UNCHANGED <<clientVars, kpc, up, inbox, down, serverVars, historyVars>>

Network == Deliver \/ ResetArrives

-----------------------------------------------------------------------------
(***************************************************************************)
(* The client's main thread.                                               *)
(***************************************************************************)

\* VpnClient::new: connect, then the ConfigRequest of the handshake.
Connect ==
  /\ mpc = "new"
  /\ link' = "open" /\ call' = <<"config", 1>> /\ mpc' = "prefix"
  /\ UNCHANGED <<connected, dropping, want, head, kpc, up, inbox, down, serverVars, historyVars>>

\* The application calls send_packet with a data packet, or disconnect.
Request(kind) ==
  /\ mpc = "ready" /\ connected /\ call[2] < MaxCalls
  /\ call' = <<kind, call[2] + 1>> /\ mpc' = "prefix"
  /\ UNCHANGED <<connected, dropping, want, head, kpc, streamVars, serverVars, historyVars>>

\* The application drops the client: Drop disconnects if nobody did.
Drop ==
  /\ mpc = "ready"
  /\ dropping' = TRUE
  /\ IF connected THEN call' = <<"disconnect", call[2] + 1>> /\ mpc' = "prefix"
                  ELSE mpc' = "done" /\ UNCHANGED call
  /\ UNCHANGED <<connected, want, head, kpc, streamVars, serverVars, historyVars>>

\* The request returns an error.  new drops the half-made client, Drop ignores it.
RequestFails ==
  /\ mpc' = IF call[1] = "config" \/ dropping THEN "done" ELSE "ready"
  /\ failed' = (failed \/ call[1] = "data")
  /\ want' = 0 /\ head' = NoFrame
  /\ UNCHANGED <<call, connected, dropping, kpc, results>>

\* Nothing keeps a thread from beginning a frame within one of the other thread's.
Interleaves(other) == mixed' = (mixed \/ other = "body")

WritePrefix ==
  /\ mpc = "prefix" /\ Interleaves(kpc)
  /\ \/ /\ Written(<<Prefix(call)>>)
        /\ mpc' = "body"
        /\ UNCHANGED <<call, connected, dropping, want, head, kpc, results, failed>>
     \/ /\ NotWritten(<<Prefix(call)>>)
        /\ RequestFails
  /\ UNCHANGED <<inbox, down, serverVars, torn>>

\* After a Disconnect no answer is awaited; disconnect joins the keepalive thread.
WriteBody ==
  /\ mpc = "body"
  /\ \/ /\ Written(Body(call))
        /\ IF call[1] = "disconnect" THEN mpc' = "join" /\ connected' = FALSE
                                     ELSE mpc' = "readPrefix" /\ UNCHANGED connected
        /\ UNCHANGED <<call, dropping, want, head, kpc, results, failed>>
     \/ /\ NotWritten(Body(call))
        /\ RequestFails
  /\ UNCHANGED <<inbox, down, serverVars, torn, mixed>>

\* client_read_packet reads the length prefix, or what is in its place.
ReadPrefix ==
  /\ mpc = "readPrefix" /\ down # <<>>
  /\ down' = Tail(down)
  /\ \E n \in Lengths(Head(down)) :
       IF n = TooLarge
       THEN RequestFails
       ELSE /\ want' = n /\ mpc' = "readBody"
            /\ head' = IF Head(down)[2] = 0 THEN Head(down)[1] ELSE NoFrame
            /\ UNCHANGED <<call, connected, dropping, kpc, results, failed>>
  /\ UNCHANGED <<link, up, inbox, serverVars, late, torn, mixed>>

\* send_packet returns the packet it has read, new only a ConfigResponse.
Accepts(f) == call[1] = "config" => f[1] = "config"

\* client_read_packet reads the body.  It decrypts if it is all of one frame's.
ReadBody ==
  /\ mpc = "readBody" /\ Len(down) >= want
  /\ down' = SubSeq(down, want + 1, Len(down))
  /\ IF head # NoFrame /\ SubSeq(down, 1, want) = Body(head) /\ Accepts(head)
     THEN /\ mpc' = "ready" /\ connected' = TRUE
          /\ kpc' = IF call[1] = "config" THEN "prefix" ELSE kpc
          /\ results' = Append(results, <<call, head>>)
          /\ want' = 0 /\ head' = NoFrame
          /\ UNCHANGED <<call, dropping, failed>>
     ELSE RequestFails
  /\ UNCHANGED <<link, up, inbox, serverVars, late, torn, mixed>>

\* Mutant of ReadFails: the socket has no read timeout.
ReadFailsAtEnd ==
  /\ link # "open"
  /\ \/ mpc = "readPrefix" /\ down = <<>>
     \/ mpc = "readBody" /\ Len(down) < want
  /\ down' = <<>>
  /\ RequestFails
  /\ UNCHANGED <<link, up, inbox, serverVars, late, torn, mixed>>

\* Nothing to read, or not enough: the server has closed its end, or 45 s have gone
\* by.  What read_exact has taken off the stream by then is lost.
ReadFails ==
  /\ \/ mpc = "readPrefix" /\ down = <<>>
     \/ mpc = "readBody" /\ Len(down) < want
  /\ down' = <<>>
  /\ late' = (late \/ link = "open")
  /\ RequestFails
  /\ UNCHANGED <<link, up, inbox, serverVars, torn, mixed>>

\* disconnect joins the keepalive thread.
Join ==
  /\ mpc = "join" /\ kpc \in {"unborn", "exited"}
  /\ mpc' = IF dropping THEN "done" ELSE "ready"
  /\ UNCHANGED <<call, connected, dropping, want, head, kpc, streamVars, serverVars, historyVars>>

Progress == Connect \/ WritePrefix \/ WriteBody \/ ReadPrefix \/ ReadBody \/ ReadFails \/ Join

Main == Progress \/ Drop \/ Request("data") \/ Request("disconnect")

-----------------------------------------------------------------------------
(***************************************************************************)
(* The keepalive thread.  Nothing sets its shutdown_flag: it ends when a   *)
(* write fails.                                                            *)
(***************************************************************************)

\* Mutant of KeepalivePrefix: an error of the write is ignored.
KeepaliveAnyway ==
  /\ kpc = "prefix" /\ Interleaves(mpc)
  /\ \/ Written(<<Prefix(Keepalive)>>) /\ kpc' = "body"
     \/ NotWritten(<<Prefix(Keepalive)>>) /\ kpc' = "sleep"
  /\ UNCHANGED <<clientVars, inbox, down, serverVars, results, failed, torn>>

KeepalivePrefix ==
  /\ kpc = "prefix" /\ Interleaves(mpc)
  /\ \/ Written(<<Prefix(Keepalive)>>) /\ kpc' = "body"
     \/ NotWritten(<<Prefix(Keepalive)>>) /\ kpc' = "exited"
  /\ UNCHANGED <<clientVars, inbox, down, serverVars, results, failed, torn>>

KeepaliveBody ==
  /\ kpc = "body"
  /\ \/ Written(Body(Keepalive)) /\ kpc' = "sleep"
     \/ NotWritten(Body(Keepalive)) /\ kpc' = "exited"
  /\ UNCHANGED <<clientVars, inbox, down, serverVars, results, failed, torn, mixed>>

Wake ==
  /\ kpc = "sleep"
  /\ kpc' = "prefix"
  /\ UNCHANGED <<clientVars, streamVars, serverVars, historyVars>>

KeepaliveThread == KeepalivePrefix \/ KeepaliveBody \/ Wake

-----------------------------------------------------------------------------
(***************************************************************************)
(* The server's end.                                                       *)
(***************************************************************************)

\* The client leaves the map, which closes the socket; what it has not read makes
\* the kernel reset the connection.
Close(why, unread) ==
  /\ ended' = why
  /\ link' = IF unread = <<>> THEN "closed" ELSE "resetting"
  /\ up' = <<>> /\ inbox' = <<>>

\* Mutant of Answered: keepalives are answered too.
AnsweredAll(f) == TRUE

\* handle_keepalive writes nothing.
Answered(f) == f # Keepalive

\* service_read_packet and the dispatch of the frame.  The socket does not block:
\* what read_exact has taken off the stream is lost when it finds too little.
ServerRead ==
  /\ ended = "no" /\ pend = NoFrame /\ inbox # <<>>
  /\ LET u    == Head(inbox)
         rest == Tail(inbox)
     IN \E n \in Lengths(u) :
          \/ /\ n = TooLarge
             /\ Close("protocol", rest \o up)
             /\ UNCHANGED <<pend, torn>>
          \/ /\ n # TooLarge /\ n > Len(rest)
             /\ inbox' = <<>> /\ torn' = TRUE
             /\ UNCHANGED <<up, link, pend, ended>>
          \/ /\ n <= Len(rest)
             /\ inbox' = SubSeq(rest, n + 1, Len(rest))
             /\ pend' = IF <<u>> \o SubSeq(rest, 1, n) = Units(u[1]) /\ Answered(u[1])
                        THEN u[1] ELSE NoFrame
             /\ UNCHANGED <<up, link, ended, torn>>
  /\ UNCHANGED <<clientVars, kpc, down, results, failed, late, mixed>>

\* Mutants of Leaves: the clean-up is left out, or done after any request.
Stays(f) == FALSE
LeavesAlways(f) == TRUE

\* handle_disconnect removes the client once its acknowledgment is written.
Leaves(f) == f[1] = "disconnect"

\* Mutant of Dealt: the frame is handled once more.
DealtAgain == UNCHANGED pend

\* A frame is handled once, whether its answer could be written or not.
Dealt == pend' = NoFrame

\* Mutant of ServerReply: the write takes all of the answer at any time.
ServerReplyWhole ==
  /\ ended = "no" /\ pend # NoFrame
  /\ Dealt
  /\ down' = down \o Units(pend)
  /\ IF Leaves(pend) THEN Close("disconnect", inbox \o up) ELSE UNCHANGED <<link, up, inbox, ended>>
  /\ UNCHANGED <<clientVars, kpc, historyVars>>

\* write_packet: the answer, as far as the buffers take it without blocking.
ServerReply ==
  LET room == Buffer - Len(down)
  IN /\ ended = "no" /\ pend # NoFrame
     /\ Dealt
     /\ IF Len(Units(pend)) <= room
        THEN /\ down' = down \o Units(pend)
             /\ IF Leaves(pend) THEN Close("disconnect", inbox \o up)
                             ELSE UNCHANGED <<link, up, inbox, ended>>
        ELSE /\ down' = down \o SubSeq(Units(pend), 1, room)
             /\ UNCHANGED <<link, up, inbox, ended>>
     /\ UNCHANGED <<clientVars, kpc, historyVars>>

\* The monitor removes the client.
Evict ==
  /\ Evictions /\ ended = "no" /\ link # "none"
  /\ Close("evicted", inbox \o up) /\ pend' = NoFrame
  /\ UNCHANGED <<clientVars, kpc, down, historyVars>>

Server == ServerRead \/ ServerReply

-----------------------------------------------------------------------------
\* The client is gone and nobody is left to act.
Terminated == mpc = "done" /\ kpc \in {"unborn", "exited"} /\ UNCHANGED vars

Next == Network \/ Main \/ KeepaliveThread \/ Server \/ Evict \/ Terminated

Spec == Init /\ [][Next]_vars

(***************************************************************************)
(* The network delivers, the server's worker runs, the threads of the      *)
(* client run, timeouts and the keepalive's sleep run out.  Nothing makes  *)
(* the application call anything.                                          *)
(***************************************************************************)
Fairness ==
  /\ WF_vars(Deliver) /\ WF_vars(ResetArrives)
  /\ WF_vars(Progress) /\ WF_vars(KeepaliveThread)
  /\ WF_vars(Server)

FairSpec == Spec /\ Fairness
-----------------------------------------------------------------------------
(***************************************************************************)
(* Properties.                                                             *)
(***************************************************************************)

\* The values of the state.
TypeOK ==
  /\ mpc \in {"new", "prefix", "body", "readPrefix", "readBody", "ready", "join", "done"}
  /\ kpc \in {"unborn", "prefix", "body", "sleep", "exited"}
  /\ call \in Frame \cup {NoFrame} /\ head \in Frame \cup {NoFrame}
  /\ pend \in Frame \cup {NoFrame}
  /\ connected \in BOOLEAN /\ dropping \in BOOLEAN
  /\ want \in 0 .. Buffer
  /\ link \in {"none", "open", "closed", "resetting", "reset"}
  /\ up \in Seq(Unit) /\ inbox \in Seq(Unit) /\ down \in Seq(Unit)
  /\ Len(up) + Len(inbox) <= Buffer /\ Len(down) <= Buffer
  /\ ended \in {"no", "disconnect", "protocol", "evicted"}
  /\ results \in Seq(Frame \X Frame)
  /\ {failed, late, torn, mixed} \subseteq BOOLEAN

\* What a request returns is the answer to it, as long as no earlier one of the
\* session has timed out: send_packet takes the next packet there is for its answer.
AnswersMatch == ~late => \A i \in DOMAIN results : results[i][1] = results[i][2]

\* After a timeout the answers that requests return lag behind, but they are answers
\* to requests of the session all the same: in order, each at most once.
AnswersInOrder ==
  /\ \A i \in DOMAIN results : results[i][2][2] \in 1 .. results[i][1][2]
  /\ \A i, j \in DOMAIN results : i < j => results[i][2][2] < results[j][2][2]

\* The server throws a client out for a protocol error only if the stream was spoilt:
\* by two frames of the client written into one another, by a prefix read before its
\* body had arrived, or by a write that timed out.
ExpelledOnlyAfterRace == ended = "protocol" => mixed \/ torn \/ late

\* A request of an established session fails only if something timed out, the server
\* has evicted the client or the stream was spoilt.
FailsOnlyAfterRace == failed => late \/ ended = "evicted" \/ mixed \/ torn

\* A request of an established session succeeds if nothing times out and the server
\* does not evict the client.
RequestsSucceed == failed => late \/ ended = "evicted"

\* Every call of the client returns.
CallsReturn ==
  mpc \in {"prefix", "body", "readPrefix", "readBody"} ~> mpc \in {"ready", "join", "done"}

\* disconnect joins a thread that nobody tells to stop.  It returns once the server
\* has dropped the client, and the server does that unless the stream was spoilt.
DisconnectReturns == mpc = "join" ~> (mpc # "join" \/ (ended = "no" /\ (mixed \/ torn \/ late)))

\* The keepalive thread does not outlive the connection.
KeepaliveEnds == ended # "no" ~> kpc \in {"unborn", "exited"}
=============================================================================
