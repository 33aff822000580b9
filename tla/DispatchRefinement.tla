------------------------- MODULE DispatchRefinement -------------------------
(***************************************************************************)
(* Dispatching implements the serial service: the two queues, the two      *)
(* threads and the counters are invisible to the clients.                  *)
(***************************************************************************)
EXTENDS Dispatch

\* The clients for whom a thread works, those whose turn is lost, and the
\* tickets answered to each client.
Working == {hand[h].client : h \in {g \in Handlers : Busy(g)}}

Jammed == {c \in Clients : Frozen(c)}

Tickets(replies) == [i \in DOMAIN replies |-> replies[i].exp]

Answers == [c \in Clients |-> Tickets(sent[c])]

Served == INSTANCE SerialService WITH
  accepted <- next,
  served   <- curr,
  working  <- Working,
  jammed   <- Jammed,
  answers  <- Answers

\* Every behaviour of the queues, handlers and resolve list is one of the
\* serial service: one turn of a client at a time, in order, none twice, and
\* a client whose turn was lost is never served again.
ImplementsSerialService == Served!Spec
=============================================================================
