-------------------------- MODULE DispatchExpected --------------------------
(***************************************************************************)
(* What the notes, the API table and the comments of the repository say of *)
(* request dispatching where the code does something else.  Each property  *)
(* is checked by a run of its own, which TLC must refute.                  *)
(***************************************************************************)
EXTENDS Dispatch

\* note-week3.md:78 "Once the request has been executed, we increment the
\* request counter by one": a handler that is done with a request has moved
\* its client's counter.
ExecutedIsCounted ==
  [][\A h \in Handlers : Busy(h) /\ ~ Busy(h)' =>
       curr'[hand[h].client] = curr[hand[h].client] + 1]_vars

\* note-week4.md:35 "the RequestHandler processes each client's requests in
\* the same order as he originally made": the request whose turn it is has
\* not vanished, so processing can go on.
TurnIsOwned == \A c \in Clients : ~ Frozen(c)
=============================================================================
