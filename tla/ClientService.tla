--------------------------- MODULE ClientService ---------------------------
(***************************************************************************)
(* What a server promises its clients, without threads, locks and maps:    *)
(* connections are admitted one after the other and served until they are  *)
(* dismissed, once; requests are taken from served connections, one at a   *)
(* time and in order; each is answered at most once, to the address that   *)
(* asked, before the next one is taken.  VpnServer and ConnectionManager   *)
(* implement it.                                                           *)
(***************************************************************************)
EXTENDS Naturals, Sequences

CONSTANTS
  ClientId,  \* peer addresses
  NoClient,  \* not an address
  MaxConn    \* bound: connections ever admitted

Conn == 1 .. MaxConn

\* A request is named by its connection and its number there.
NoRequest == <<0, 0>>

VARIABLES
  admitted,  \* connections admitted so far: 1 .. admitted
  addr,      \* their addresses
  served,    \* those that are served
  asked,     \* how many requests were taken from a connection
  inHand,    \* the request that was taken last, if it is not dealt with
  answers    \* the requests whose answers were sent to a connection

vars == <<admitted, addr, served, asked, inHand, answers>>

Init ==
  /\ admitted = 0
  /\ addr = [c \in Conn |-> NoClient]
  /\ served = {}
  /\ asked = [c \in Conn |-> 0]
  /\ inHand = NoRequest
  /\ answers = [c \in Conn |-> <<>>]

\* The newcomer takes the place of the connection that had its address.
Admit(id) ==
  /\ admitted < MaxConn
  /\ admitted' = admitted + 1
  /\ addr' = [addr EXCEPT ![admitted + 1] = id]
  /\ served' = {c \in served : addr[c] # id} \cup {admitted + 1}
  /\ UNCHANGED <<asked, inHand, answers>>

Dismiss(c) ==
  /\ c \in served
  /\ served' = served \ {c}
  /\ UNCHANGED <<admitted, addr, asked, inHand, answers>>

\* Some requests need no answer, or are none.
Take(c) ==
  /\ c \in served /\ inHand = NoRequest
  /\ asked' = [asked EXCEPT ![c] = @ + 1]
  /\ inHand' \in {NoRequest, <<c, asked[c] + 1>>}
  /\ UNCHANGED <<admitted, addr, served, answers>>

\* By now another connection may have the address.
Answer(c) ==
  /\ inHand # NoRequest
  /\ c \in served /\ addr[c] = addr[inHand[1]]
  /\ answers' = [answers EXCEPT ![c] = Append(@, inHand)]
  /\ inHand' = NoRequest
  /\ UNCHANGED <<admitted, addr, served, asked>>

Abandon ==
  /\ inHand # NoRequest
  /\ inHand' = NoRequest
  /\ UNCHANGED <<admitted, addr, served, asked, answers>>

Finish == Abandon \/ \E c \in Conn : Answer(c)

Next == \/ \E id \in ClientId : Admit(id)
        \/ \E c \in Conn : Dismiss(c) \/ Take(c)
        \/ Finish

Spec == Init /\ [][Next]_vars

\* No request stays in hand.
FairSpec == Spec /\ WF_vars(Finish)
=============================================================================
