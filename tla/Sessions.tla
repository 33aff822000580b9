------------------------------ MODULE Sessions ------------------------------
(***************************************************************************)
(* The two programs that talk to the render server, in front of Dispatch:  *)
(* the gateway, with one session per browser, and the benchmark.           *)
(*                                                                         *)
(* Both send a few requests when they connect and react to projectOpened   *)
(* with more.  A session of the gateway also sends what the user selects;  *)
(* the frames she asks for by dragging the view are calls like the others. *)
(* Messages of one connection arrive in order, in both directions, and may *)
(* be on their way for any time; clientKey takes no ticket and is left out *)
(* (DXServer has it).                                                      *)
(***************************************************************************)
EXTENDS Dispatch

CONSTANTS
  Benchmarks,      \* the clients that run simulate.js
  Frames,          \* rqstFrame
  MaxSelections    \* bound of the model on a user's selections

ASSUME SessionsAssumption ==
  /\ Benchmarks \subseteq Clients
  /\ {"queryDatabase", "getScene", "requestFrame", "openProject"} \subseteq Methods
  /\ Frames \in Nat /\ MaxSelections \in Nat

Users == Clients \ Benchmarks

VARIABLES
  outbox,       \* messages on their way to the server
  opened,       \* number of projectOpened that have arrived at each client
  selections,   \* how often each client has sent openProject
  hasty         \* history: users who selected again before projectOpened

sessionVars == <<outbox, opened, selections, hasty>>
allSessionVars == <<vars, sessionVars>>

OnConnect(c) ==
  IF c \in Benchmarks THEN <<"queryDatabase", "openProject">>
                      ELSE <<"queryDatabase", "getScene", "requestFrame">>

SessionInit ==
  /\ Init
  /\ outbox = [c \in Clients |-> OnConnect(c)]
  /\ opened = [c \in Clients |-> 0]
  /\ selections = [c \in Clients |-> IF c \in Benchmarks THEN 1 ELSE 0]
  /\ hasty = {}

-----------------------------------------------------------------------------
\* processTextMessage takes the next message off the connection.
Deliver(c) ==
  /\ outbox[c] # <<>>
  /\ NewRequest(c, Head(outbox[c]))
  /\ outbox' = [outbox EXCEPT ![c] = Tail(@)]
  /\ UNCHANGED <<opened, selections, hasty>>

OnProjectOpened(c) ==
  <<"getScene">> \o [i \in 1 .. (IF c \in Benchmarks THEN Frames ELSE 1) |-> "requestFrame"]

\* What the server has sent to c of a kind.
SentTo(c, m) == Cardinality({i \in DOMAIN sent[c] : sent[c][i].resolve = m})

\* The next projectOpened arrives.  The other replies are passed on to the
\* browser, or counted; nothing is sent upon them.
Receive(c) ==
  /\ opened[c] < SentTo(c, "openProject")
  /\ opened' = [opened EXCEPT ![c] = @ + 1]
  /\ outbox' = [outbox EXCEPT ![c] = @ \o OnProjectOpened(c)]
  /\ UNCHANGED <<vars, selections, hasty>>

\* The user selects a project.
SelectData(c) ==
  /\ selections[c] < MaxSelections
  /\ selections' = [selections EXCEPT ![c] = @ + 1]
  /\ outbox' = [outbox EXCEPT ![c] = @ \o <<"openProject", "getScene", "requestFrame">>]
  /\ hasty' = IF opened[c] < selections[c] THEN hasty \cup {c} ELSE hasty
  /\ UNCHANGED <<vars, opened>>

SessionNext ==
  \/ \E c \in Clients : Deliver(c) \/ Receive(c)
  \/ \E c \in Users : SelectData(c)
  \/ \E h \in Handlers : ProcessNextRequest(h) /\ UNCHANGED sessionVars
  \/ OnResolve /\ UNCHANGED sessionVars

\* Besides the threads and the event loop, the connections make progress.
\* Users owe nothing.
SessionSpec ==
  /\ SessionInit /\ [][SessionNext]_allSessionVars
  /\ \A c \in Clients : WF_allSessionVars(Deliver(c) \/ Receive(c))
  /\ \A h \in Handlers : WF_allSessionVars(ProcessNextRequest(h) /\ UNCHANGED sessionVars)
  /\ WF_allSessionVars(OnResolve /\ UNCHANGED sessionVars)

-----------------------------------------------------------------------------
(***************************************************************************)
(* Properties.                                                             *)
(***************************************************************************)
\* The next message of c will override a request of its own.
Overtakes(c) ==
  /\ outbox[c] # <<>>
  /\ Head(outbox[c]) = "openProject"
  /\ \E h \in Handlers : \E i \in Waiting(c, h) : queue[h][i].type = 1

\* Only a user who selects again before projectOpened overtakes an openProject
\* of hers, or loses her turn.  The benchmark, and everybody who waits, is one
\* of the patient clients of Dispatch, although it goes by what has arrived
\* from the server and not by what waits in the server's queues.
OnlyHastyFreezes == \A c \in Clients : Overtakes(c) \/ Frozen(c) => c \in hasty

\* A client who was not hasty gets all it asks for, again and again as users
\* select: every project is opened, the server owes no reply, and the benchmark
\* has the frames it measures.  A hasty user may be stuck in front of it in
\* both queues.
SessionsAreServed ==
  []<>(\A c \in Clients \ hasty :
         /\ opened[c] = selections[c]
         /\ outbox[c] = <<>>
         /\ curr[c] = next[c]
         /\ c \in Benchmarks => SentTo(c, "requestFrame") = Frames)
=============================================================================
