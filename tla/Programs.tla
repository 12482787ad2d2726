------------------------------ MODULE Programs ------------------------------
(***************************************************************************)
(* The programs of the repository: src/src/main.rs and the three examples. *)
(* Each starts a VpnService, runs VpnClients in the same process one after *)
(* the other, and shuts the service down.  They are the applications that  *)
(* KeepaliveTiming leaves open; main of each is one thread.                *)
(*                                                                         *)
(* The sleeps of a program, 2 s and 0.5 s, are shorter than a unit: it is  *)
(* up to Lag late with each of its steps, sleeps included.                 *)
(***************************************************************************)
EXTENDS KeepaliveTiming

CONSTANTS
  Program,  \* the programs that are run
  Rounds    \* bound: clients of multiple_clients, which has 3

ProgramName == {"main", "single_client", "multiple_clients", "packet_size"}

ASSUME ProgramsAssumption ==
  /\ Program \subseteq ProgramName
  /\ Rounds \in Nat /\ MaxConn >= 2 * Rounds /\ MaxConn >= 2
  /\ Lag * Unit >= 2

\* How many clients a program runs.
Clients(p) == IF p = "multiple_clients" THEN Rounds ELSE 1

\* Each is preceded by a test connection, which is dropped at once.
Probes(p) == p # "packet_size"

\* The packets that a client sends.
Packets(p) == IF p = "packet_size" THEN <<"data", "data", "large">> ELSE <<"data">>

\* After an error the rest is not sent.
GivesUp(p, c) == p = "packet_size" /\ result[c] = "err"

VARIABLES
  prog,  \* the program that runs
  pc,    \* its control
  cur,   \* the connection of its VpnClient
  sent,  \* how many packets were sent on it
  left,  \* how many clients are still to come
  vpn,   \* history: the connections of VpnClients
  nap    \* for how long the program has not done what it could

programVars == <<prog, pc, cur, sent, left, vpn, nap>>
allVars == <<vars, programVars>>

ProgramInit ==
  /\ Init
  /\ prog \in Program
  /\ pc = "start" /\ cur = 0 /\ sent = 0 /\ left = Clients(prog)
  /\ vpn = {} /\ nap = 0

\* The next connection.
Fresh == CHOOSE c \in Conn : app[c] = "none" /\ \A d \in Conn : d < c => app[d] # "none"

Goto(l) == pc' = l /\ nap' = 0

\* run_client begins, or there is none left to run.
NextClient == IF left = 0 THEN "shutdown" ELSE IF Probes(prog) THEN "probe" ELSE "new"

\* run_server: VpnService::new and start.
RunServer ==
  /\ pc = "start" /\ Start
  /\ Goto(NextClient)
  /\ UNCHANGED <<prog, cur, sent, left, vpn>>

\* The test connection.
TestConnection ==
  /\ pc = "probe" /\ Probe(Fresh)
  /\ Goto("new")
  /\ UNCHANGED <<prog, cur, sent, left, vpn>>

\* VpnClient::new
NewClient ==
  /\ pc = "new" /\ New(Fresh)
  /\ cur' = Fresh /\ sent' = 0 /\ left' = left - 1 /\ vpn' = vpn \cup {Fresh}
  /\ Goto("use")
  /\ UNCHANGED prog

SendNext ==
  /\ pc = "use" /\ sent < Len(Packets(prog)) /\ ~(sent > 0 /\ GivesUp(prog, cur))
  /\ Request(cur, Packets(prog)[sent + 1])
  /\ sent' = sent + 1
  /\ Goto("use")
  /\ UNCHANGED <<prog, cur, left, vpn>>

\* disconnect, or the end of run_client, which drops the client.
Leave ==
  /\ pc = "use" /\ (sent = Len(Packets(prog)) \/ (sent > 0 /\ GivesUp(prog, cur)))
  /\ Disconnect(cur)
  /\ Goto("leave")
  /\ UNCHANGED <<prog, cur, sent, left, vpn>>

\* run_client returns: the client is dropped, or new has failed.
ClientDone ==
  /\ pc \in {"use", "leave"} /\ app[cur] = "out"
  /\ Goto(NextClient)
  /\ UNCHANGED <<vars, prog, cur, sent, left, vpn>>

ShutdownService ==
  /\ pc = "shutdown" /\ Shutdown
  /\ Goto("join")
  /\ UNCHANGED <<prog, cur, sent, left, vpn>>

Exit ==
  /\ pc = "join" /\ service = "down"
  /\ Goto("done")
  /\ UNCHANGED <<vars, prog, cur, sent, left, vpn>>

ProgramStep == \/ RunServer \/ TestConnection \/ NewClient \/ SendNext \/ Leave
               \/ ClientDone \/ ShutdownService \/ Exit

\* The main thread is not waiting for the library.
Ready ==
  \/ pc \in {"start", "probe", "new", "shutdown"}
  \/ pc \in {"use", "leave"} /\ app[cur] \in {"idle", "out"}
  \/ pc = "join" /\ service = "down"

TimePasses ==
  /\ pc # "done" /\ (Ready => nap < Lag)
  /\ Tick
  /\ nap' = IF Ready THEN nap + 1 ELSE 0
  /\ UNCHANGED <<prog, pc, cur, sent, left, vpn>>

LibraryStep == (Service \/ Client) /\ pc # "done" /\ UNCHANGED programVars

\* The process has exited.
Exited == pc = "done" /\ UNCHANGED allVars

ProgramNext == ProgramStep \/ LibraryStep \/ TimePasses \/ Exited

\* Time passes, and nobody lets it pass a deadline.
ProgramSpec == ProgramInit /\ [][ProgramNext]_allVars /\ WF_allVars(ProgramNext)

-----------------------------------------------------------------------------
(***************************************************************************)
(* Properties.                                                             *)
(***************************************************************************)

\* Every program ends: its calls, disconnect's join of the keepalive thread among them, and
\* shutdown's joins return.  What may keep it is a Disconnect that the server has lost or
\* could not acknowledge: the thread that disconnect joins is then kept alive by its own
\* keepalives.
ProgramEnds == <>(pc = "done" \/ \E c \in vpn : "disconnect" \in lost[c])

\* A client connects only when the one before it is no longer registered, and the service
\* shuts down only when none is: all that is left are test connections, and clients whose
\* request for a configuration was lost or not answered, so that their handshake failed.
ClientsFollowOneAnother ==
  \A c \in (reg \cup backlog) \cap vpn :
    (c = cur /\ pc \in {"use", "leave"}) \/ "config" \in lost[c]
=============================================================================
