--------------------------- MODULE SerialService ----------------------------
(***************************************************************************)
(* What dispatching promises to the clients, without queues, threads or    *)
(* copies of requests.  Every client has a line of numbered turns; the     *)
(* service takes the turns of a client one at a time, in order, each at    *)
(* most once, and answers them in order.  It may lose a turn of a client,  *)
(* and then that client is jammed: it is never served again.  Different    *)
(* clients do not wait for one another.                                    *)
(***************************************************************************)
EXTENDS Naturals, Sequences

CONSTANT Clients

VARIABLES
  accepted,   \* number of turns handed to each client
  served,     \* number of turns completed for each client
  working,    \* clients whose current turn is being executed
  jammed,     \* clients whose current turn is lost
  answers     \* turns answered to each client, in order

vars == <<accepted, served, working, jammed, answers>>

Init ==
  /\ accepted = [c \in Clients |-> 0]
  /\ served = [c \in Clients |-> 0]
  /\ working = {}
  /\ jammed = {}
  /\ answers = [c \in Clients |-> <<>>]

\* A request takes one or two turns, and may cost an earlier one.
Accept(c) ==
  /\ \E n \in {1, 2} : accepted' = [accepted EXCEPT ![c] = @ + n]
  /\ jammed' \in {jammed, jammed \cup {c}}
  /\ UNCHANGED <<served, working, answers>>

Start(c) ==
  /\ c \notin working
  /\ c \notin jammed
  /\ served[c] < accepted[c]
  /\ working' = working \cup {c}
  /\ UNCHANGED <<accepted, served, jammed, answers>>

Complete(c) ==
  /\ c \in working
  /\ served' = [served EXCEPT ![c] = @ + 1]
  /\ working' = working \ {c}
  /\ jammed' \in {jammed, jammed \cup {c}}
  /\ UNCHANGED <<accepted, answers>>

Abandon(c) ==
  /\ c \in working
  /\ working' = working \ {c}
  /\ jammed' = jammed \cup {c}
  /\ UNCHANGED <<accepted, served, answers>>

\* The answer to a turn may precede its completion, never its start.
Answer(c, t) ==
  /\ t < served[c] \/ (t = served[c] /\ c \in working)
  /\ \A i \in DOMAIN answers[c] : answers[c][i] < t
  /\ answers' = [answers EXCEPT ![c] = Append(@, t)]
  /\ UNCHANGED <<accepted, served, working, jammed>>

Next ==
  \E c \in Clients :
    \/ Accept(c)
    \/ Start(c)
    \/ Complete(c)
    \/ Abandon(c)
    \/ \E t \in 0 .. served[c] : Answer(c, t)

Spec == Init /\ [][Next]_vars
=============================================================================
