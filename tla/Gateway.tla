------------------------------ MODULE Gateway ------------------------------
(***************************************************************************)
(* The web gateway: the Node process between the browsers and the server.  *)
(*                                                                         *)
(* Every browser socket that has sent its client key gets a VoxEngine, a   *)
(* connection of its own to the render server.  The answers to calls are   *)
(* matched by id against rpcCallList, one list for the whole process, and  *)
(* every engine uses the same two ids.  Node runs one handler at a time,   *)
(* so a handler is one step; an exception no handler catches ends the      *)
(* process.                                                                *)
(*                                                                         *)
(* The render server, external here, is a pipe per connection that holds   *)
(* the messages it is going to send: it answers the requests of one        *)
(* connection in order (RepliesInOrder of Dispatch), those of different    *)
(* connections in any.  When it learns the client key of a connection it   *)
(* may redirect to it what it still owes an earlier one, whose requests it *)
(* ignores from then on (ProcessClientKey of DXServer).                    *)
(***************************************************************************)
EXTENDS Naturals, Sequences, SequencesExt

CONSTANTS
  Browsers,    \* browser sockets; the engine of socket b is called b, too
  MaxEvents    \* bound of the model on the user's events per socket

ASSUME GatewayAssumption == MaxEvents \in Nat

\* The ids CallQueryDatabase and CallGetScene use.
Database == 1
Scene == 2
Ids == {Database, Scene}

VARIABLES
  sock,      \* state of each browser socket
  ws,        \* readyState of each engine's connection
  calls,     \* rpcCallList
  pipe,      \* what the render server will send on each connection
  given,     \* answers handed to each browser: the id, and who made the call
  running,   \* the process runs
  events,    \* user events of each socket so far
  keyed,     \* connections whose clientKey the server has handled
  orphans,   \* connections the server has taken the key of
  shared     \* ids that calls of two engines have used at the same time

gatewayVars == <<sock, ws, calls, pipe, given, running, events, keyed,
                 orphans, shared>>

\* by is the engine that made the call; the message itself does not say.
Result(id, b) == [kind |-> "result", id |-> id, by |-> b]
Notice(method) == [kind |-> method]
Messages == [kind : {"result"}, id : Ids, by : Browsers] \cup
            [kind : {"frame", "projectOpened", "clientKey"}]

Entries == [id : Ids, owner : Browsers]

GatewayTypeOK ==
  /\ sock \in [Browsers -> {"new", "asked", "ready", "gone"}]
  /\ ws \in [Browsers -> {"none", "connecting", "open", "closing", "closed"}]
  /\ calls \in Seq(Entries)
  /\ pipe \in [Browsers -> Seq(Messages)]
  /\ given \in [Browsers -> SUBSET [id : Ids, by : Browsers]]
  /\ running \in BOOLEAN
  /\ events \in [Browsers -> 0 .. MaxEvents]
  /\ orphans \subseteq keyed /\ keyed \subseteq Browsers
  /\ shared \subseteq Ids
  \* No browser that is served is without an engine, and no engine of a
  \* browser that is gone stays connected.
  /\ \A b \in Browsers :
       /\ sock[b] = "ready" => ws[b] # "none"
       /\ sock[b] = "gone" => ws[b] \in {"none", "closing", "closed"}

GatewayInit ==
  /\ sock = [b \in Browsers |-> "new"]
  /\ ws = [b \in Browsers |-> "none"]
  /\ calls = <<>>
  /\ pipe = [b \in Browsers |-> <<>>]
  /\ given = [b \in Browsers |-> {}]
  /\ running = TRUE
  /\ events = [b \in Browsers |-> 0]
  /\ keyed = {}
  /\ orphans = {}
  /\ shared = {}

-----------------------------------------------------------------------------
Owners(list, id) == {list[i].owner : i \in {j \in DOMAIN list : list[j].id = id}}

\* Mutant: the handlers refer to one socket, the first, not to their own.
EntryOfOne(b, id) == [id |-> id, owner |-> CHOOSE o \in Browsers : TRUE]

Entry(b, id) == [id |-> id, owner |-> b]

\* JsonRPC.Call for each of ids, in order.
Call(b, ids) ==
  /\ calls' = calls \o [i \in DOMAIN ids |-> Entry(b, ids[i])]
  /\ shared' = shared \cup
       {id \in Ids : \E o, p \in Owners(calls', id) : o # p}

\* What the server will answer to a message sent on the connection of b.
Send(b, answers) ==
  pipe' = IF b \in orphans THEN pipe ELSE [pipe EXCEPT ![b] = @ \o answers]

\* send throws unless the connection is open, and nobody catches it.
Throws == running' = FALSE

-----------------------------------------------------------------------------
(***************************************************************************)
(* Browser sockets.                                                        *)
(***************************************************************************)
\* MainLoop asks for the client key.
Connection(b) ==
  /\ sock[b] = "new"
  /\ sock' = [sock EXCEPT ![b] = "asked"]
  /\ UNCHANGED <<ws, calls, pipe, given, running, events,
                 keyed, orphans, shared>>

\* Mutant: OnConnect is called when the engine is created.
ClientKeyConnects(b) ==
  /\ sock[b] = "asked"
  /\ sock' = [sock EXCEPT ![b] = "ready"]
  /\ ws' = [ws EXCEPT ![b] = "connecting"]
  /\ Throws
  /\ UNCHANGED <<calls, pipe, given, events, keyed, orphans, shared>>

\* The browser answers once per socket.
ClientKey(b) ==
  /\ sock[b] = "asked"
  /\ sock' = [sock EXCEPT ![b] = "ready"]
  /\ ws' = [ws EXCEPT ![b] = "connecting"]
  /\ UNCHANGED <<calls, pipe, given, running, events, keyed, orphans, shared>>

Event(b) ==
  /\ sock[b] = "ready"
  /\ events[b] < MaxEvents
  /\ events' = [events EXCEPT ![b] = @ + 1]

SelectData(b) ==
  /\ Event(b)
  /\ \/ /\ ws[b] = "open"
        /\ Call(b, <<Scene>>)
        /\ Send(b, <<Notice("projectOpened"), Result(Scene, b), Notice("frame")>>)
        /\ UNCHANGED running
     \/ /\ ws[b] # "open"
        /\ Throws
        /\ UNCHANGED <<calls, pipe, shared>>
  /\ UNCHANGED <<sock, ws, given, keyed, orphans>>

RequestFrame(b) ==
  /\ Event(b)
  /\ \/ /\ ws[b] = "open"
        /\ Send(b, <<Notice("frame")>>)
        /\ UNCHANGED running
     \/ /\ ws[b] # "open"
        /\ Throws
        /\ UNCHANGED pipe
  /\ UNCHANGED <<sock, ws, calls, given, keyed, orphans, shared>>

\* Mutant: the engine stays connected.
DisconnectKeepsEngine(b) ==
  /\ sock[b] \in {"asked", "ready"}
  /\ sock' = [sock EXCEPT ![b] = "gone"]
  /\ UNCHANGED <<ws, calls, pipe, given, running, events, keyed,
                 orphans, shared>>

\* engine.close().  Nothing is deleted from vox.clients and vox.engines, which
\* are Maps written as plain objects: has finds nothing.
Disconnect(b) ==
  /\ \/ sock[b] = "asked" /\ UNCHANGED ws
     \/ /\ sock[b] = "ready"
        /\ ws' = [ws EXCEPT ![b] = IF @ = "open" THEN "closing" ELSE "closed"]
  /\ sock' = [sock EXCEPT ![b] = "gone"]
  /\ UNCHANGED <<calls, pipe, given, running, events, keyed, orphans,
                 shared>>

-----------------------------------------------------------------------------
(***************************************************************************)
(* Connections to the render server.                                       *)
(***************************************************************************)
\* onopen: OnConnect sends the key and the first requests.
OnOpen(b) ==
  /\ ws[b] = "connecting"
  /\ ws' = [ws EXCEPT ![b] = "open"]
  /\ Call(b, <<Database, Scene>>)
  /\ Send(b, <<Result(Database, b), Result(Scene, b), Notice("frame")>>)
  /\ UNCHANGED <<sock, given, running, events, keyed, orphans>>

\* The server handles clientKey: it tells a new client its key, or gives the
\* connection the key of o.  What o was sent before, the first k messages,
\* stays on its connection.
ServerLearnsKey(b) ==
  /\ ws[b] = "open"
  /\ b \notin keyed
  /\ keyed' = keyed \cup {b}
  /\ \/ /\ pipe' = [pipe EXCEPT ![b] = <<Notice("clientKey")>> \o @]
        /\ UNCHANGED orphans
     \/ \E o \in keyed \ (orphans \cup {b}) : \E k \in 0 .. Len(pipe[o]) :
          /\ pipe' = [pipe EXCEPT ![b] = SubSeq(pipe[o], k + 1, Len(pipe[o])) \o @,
                                  ![o] = SubSeq(@, 1, k)]
          /\ orphans' = orphans \cup {o}
  /\ UNCHANGED <<sock, ws, calls, given, running, events, shared>>

\* The connection fails, is lost, or has finished closing.  What the server
\* owes it stays owed.
OnClose(b) ==
  /\ ws[b] \in {"connecting", "open", "closing"}
  /\ ws' = [ws EXCEPT ![b] = "closed"]
  /\ UNCHANGED <<sock, calls, pipe, given, running, events, keyed,
                 orphans, shared>>

\* Mutant: splice(i) without the count removes the rest of the list, too.
CallCheckCutsList(m) ==
  \/ \E i \in DOMAIN calls :
       /\ calls[i].id = m.id
       /\ \A j \in 1 .. i-1 : calls[j].id # m.id
       /\ calls' = SubSeq(calls, 1, i - 1)
       /\ given' = [given EXCEPT ![calls[i].owner] =
            @ \cup {[id |-> m.id, by |-> m.by]}]
  \/ /\ \A i \in DOMAIN calls : calls[i].id # m.id
     /\ UNCHANGED <<calls, given>>

\* CallCheck: the first entry with the id of the answer takes it.
CallCheck(m) ==
  \/ \E i \in DOMAIN calls :
       /\ calls[i].id = m.id
       /\ \A j \in 1 .. i-1 : calls[j].id # m.id
       /\ calls' = RemoveAt(calls, i)
       /\ given' = [given EXCEPT ![calls[i].owner] =
            @ \cup {[id |-> m.id, by |-> m.by]}]
  \/ /\ \A i \in DOMAIN calls : calls[i].id # m.id
     /\ UNCHANGED <<calls, given>>

\* _OnMessage.  After projectOpened the engine asks for the scene and a frame.
OnMessage(b) ==
  /\ ws[b] \in {"open", "closing"}
  /\ b \in keyed
  /\ pipe[b] # <<>>
  /\ LET m == Head(pipe[b]) IN
       \/ /\ m.kind = "result"
          /\ CallCheck(m)
          /\ pipe' = [pipe EXCEPT ![b] = Tail(@)]
          /\ UNCHANGED <<running, shared>>
       \/ /\ m.kind \in {"frame", "clientKey"}
          /\ pipe' = [pipe EXCEPT ![b] = Tail(@)]
          /\ UNCHANGED <<calls, given, running, shared>>
       \/ /\ m.kind = "projectOpened" /\ ws[b] = "open"
          /\ Call(b, <<Scene>>)
          /\ pipe' = [pipe EXCEPT ![b] = Tail(@) \o
               (IF b \in orphans THEN <<>>
                ELSE <<Result(Scene, b), Notice("frame")>>)]
          /\ UNCHANGED <<given, running>>
       \/ /\ m.kind = "projectOpened" /\ ws[b] = "closing"
          /\ Throws
          /\ Call(b, <<Scene>>)
          /\ pipe' = [pipe EXCEPT ![b] = Tail(@)]
          /\ UNCHANGED given
  /\ UNCHANGED <<sock, ws, events, keyed, orphans>>

GatewayNext ==
  /\ running
  /\ \E b \in Browsers :
       \/ Connection(b)
       \/ ClientKey(b)
       \/ SelectData(b)
       \/ RequestFrame(b)
       \/ Disconnect(b)
       \/ OnOpen(b)
       \/ ServerLearnsKey(b)
       \/ OnClose(b)
       \/ OnMessage(b)

GatewaySpec == GatewayInit /\ [][GatewayNext]_gatewayVars

-----------------------------------------------------------------------------
(***************************************************************************)
(* Properties.                                                             *)
(***************************************************************************)
CallsWith(id) == {i \in DOMAIN calls : calls[i].id = id}

Due(b, id) ==
  {i \in DOMAIN pipe[b] : pipe[b][i].kind = "result" /\ pipe[b][i].id = id}

AllDue(id) == UNION {{b} \X Due(b, id) : b \in Browsers}

\* Every answer the server still owes finds a call in the list, whoever took
\* the call it was made for: no answer is dropped as an unknown message.
AnswersFindCalls ==
  \A id \in Ids : Cardinality(CallsWith(id)) >= Cardinality(AllDue(id))

\* Answers go astray only by sharing: as long as no two engines have had
\* calls with one id in the list, every answer with that id, also one the
\* server redirected, went to the browser that asked.
OnlySharedIdsMix ==
  \A b \in Browsers : \A g \in given[b] : g.id \notin shared => g.by = b

\* The process ends only with a session whose connection is not open: one of a
\* user who has acted, or one that was given what an older connection was owed
\* whose user had.  Connecting, losing connections and going away do no harm.
OnlyUsersEnd ==
  ~ running => \E b \in Browsers :
    /\ ws[b] # "open"
    /\ events[b] > 0 \/ \E o \in orphans : events[o] > 0

\* note-week4.md:46 "For each client, we create a new engine to connect the
\* client to the render engine": what a browser is given is the answer to a
\* call its own engine made.
AnsweredByOwnEngine ==
  \A b \in Browsers : \A g \in given[b] : g.by = b
=============================================================================
