------------------------------ MODULE Dispatch ------------------------------
(***************************************************************************)
(* Request dispatching in the render server.                               *)
(*                                                                         *)
(* The main (Qt) thread splits every RPC of a browser client into one or   *)
(* two sub-requests and appends them to the central (CPU) and the graphic  *)
(* (GPU) queue.  Each sub-request carries a ticket, the value of the       *)
(* client's next-request counter.  Two handler threads scan their queue    *)
(* for the first request whose ticket equals the client's current-request  *)
(* counter, execute it, post its reply to the main thread and increment    *)
(* that counter.  The main thread pops the posted replies from the global  *)
(* resolve list and sends them.                                            *)
(*                                                                         *)
(* _queue_lock is held over the whole of newRequest and of dequeue, so     *)
(* each is one step.  The counter of a client may move while dequeue       *)
(* scans, but at most once: the other handler cannot take a new request    *)
(* before the lock is free.  The scan is therefore equivalent to an        *)
(* atomic one just before or just after that increment.                    *)
(***************************************************************************)
EXTENDS Naturals, Sequences, SequencesExt

CONSTANTS
  Clients,      \* client keys (clid_t) that have a connection
  Methods,      \* the RPC methods the clients use in this instance
  Patient,      \* clients that use the protocol as Submit below says
  MaxTicket,    \* bound of the model on the tickets handed to a client
  NoRequest     \* what a handler's local variables hold between requests

RpcMethods == {"queryDatabase", "getScene", "requestFrame",
               "openProject", "closeProject"}

ASSUME DispatchAssumption ==
  /\ Methods \subseteq RpcMethods
  /\ Patient \subseteq Clients
  /\ MaxTicket \in Nat

Handlers == {"CPU", "GPU"}

Tasks == {"queryDatabase", "getScene", "loadData", "delData",
          "initGL", "requestFrame", "unloadGL"}

NoReply == "none"   \* rply_t{}: the sub-request that does not answer

\* Request types: 0 is a call, 1 a notification.
TypeOf(m) == IF m \in {"openProject", "closeProject"} THEN 1 ELSE 0

Requests == [client : Clients, exp : Nat, type : {0, 1},
             method : Tasks, resolve : RpcMethods \cup {NoReply}]

VARIABLES
  known,        \* clients in the global client list
  next,         \* _next_request_counter of each client
  curr,         \* _curr_request_counter of each client
  queue,        \* queue["CPU"] is _central_queue, queue["GPU"] _graphic_queue
  pc,           \* where each handler thread is in processNextRequest
  hand,         \* the request each handler thread is processing
  slot,         \* id obtained from resolves::add, not yet emitted
  replyList,    \* _reply_list: id -> the request whose reply it sends
  replyNext,    \* _reply_next
  events,       \* queued onResolve(id) calls waiting for the Qt event loop
  sent          \* replies handed to the communicator, per client

vars == <<known, next, curr, queue, pc, hand, slot,
          replyList, replyNext, events, sent>>

TypeOK ==
  /\ known \in SUBSET Clients
  /\ next \in [Clients -> Nat]
  /\ curr \in [Clients -> Nat]
  /\ queue \in [Handlers -> Seq(Requests)]
  /\ pc \in [Handlers -> {"idle", "run", "post", "count"}]
  /\ hand \in [Handlers -> Requests \cup {NoRequest}]
  /\ \A h \in Handlers : pc[h] # "idle" => hand[h] \in Requests
  /\ slot \in [Handlers -> Nat]
  /\ replyNext \in Nat
  /\ DOMAIN replyList \subseteq Nat
  /\ replyList \in [DOMAIN replyList -> Requests]
  /\ events \in Seq(Nat)
  /\ sent \in [Clients -> Seq([exp : Nat, resolve : RpcMethods \cup {NoReply}])]

Init ==
  /\ known = {}
  /\ next = [c \in Clients |-> 0]
  /\ curr = [c \in Clients |-> 0]
  /\ queue = [h \in Handlers |-> <<>>]
  /\ pc = [h \in Handlers |-> "idle"]
  /\ hand = [h \in Handlers |-> NoRequest]
  /\ slot = [h \in Handlers |-> 0]
  /\ replyList = [i \in {} |-> NoRequest]
  /\ replyNext = 0
  /\ events = <<>>
  /\ sent = [c \in Clients |-> <<>>]

-----------------------------------------------------------------------------
(***************************************************************************)
(* Main thread: RequestQueue::newRequest.                                  *)
(***************************************************************************)
Create(c, exp, m, task, resolve) ==
  [client |-> c, exp |-> exp, type |-> TypeOf(m),
   method |-> task, resolve |-> resolve]

\* Mutant: a notification overrides those of the other clients.
OverridesAnyClient(r, old) ==
  /\ old.method = r.method
  /\ old.type = r.type

Overrides(r, old) ==
  /\ old.method = r.method
  /\ old.client = r.client
  /\ old.type = r.type

\* The first notification that r overrides becomes r, ticket included.
Replaced(q, r) ==
  [i \in DOMAIN q |->
     IF Overrides(r, q[i]) /\ \A j \in 1 .. i-1 : ~ Overrides(r, q[j])
     THEN r ELSE q[i]]

\* A notification is pushed back whether or not it replaced an older one.
Enqueue(q, r) ==
  IF r.type = 0 THEN Append(q, r) ELSE Append(Replaced(q, r), r)

One(c, m, h) ==
  /\ next[c] + 1 <= MaxTicket
  /\ next' = [next EXCEPT ![c] = @ + 1]
  /\ queue' = [queue EXCEPT ![h] = Enqueue(@, Create(c, next[c], m, m, m))]

\* Mutant: both sub-requests get the same ticket.
TwoOnOneTicket(c, m, h1, task1, h2, task2) ==
  /\ next[c] + 2 <= MaxTicket
  /\ next' = [next EXCEPT ![c] = @ + 1]
  /\ queue' = [queue EXCEPT
       ![h1] = Enqueue(@, Create(c, next[c], m, task1, NoReply)),
       ![h2] = Enqueue(@, Create(c, next[c], m, task2, m))]

Two(c, m, h1, task1, h2, task2) ==
  /\ next[c] + 2 <= MaxTicket
  /\ next' = [next EXCEPT ![c] = @ + 2]
  /\ queue' = [queue EXCEPT
       ![h1] = Enqueue(@, Create(c, next[c], m, task1, NoReply)),
       ![h2] = Enqueue(@, Create(c, next[c] + 1, m, task2, m))]

NewRequest(c, m) ==
  /\ known' = known \cup {c}
  /\ \/ m \in {"queryDatabase", "getScene"} /\ One(c, m, "CPU")
     \/ m = "requestFrame" /\ One(c, m, "GPU")
     \/ m = "openProject"  /\ Two(c, m, "CPU", "loadData", "GPU", "initGL")
     \/ m = "closeProject" /\ Two(c, m, "GPU", "unloadGL", "CPU", "delData")
  /\ UNCHANGED <<curr, pc, hand, slot, replyList, replyNext, events, sent>>

-----------------------------------------------------------------------------
(***************************************************************************)
(* Handler threads: TaskHandler::processNextRequest.                       *)
(***************************************************************************)
\* Mutant: any request that is not late is ready.
IsReadyEarly(r) == r.exp >= curr[r.client]

IsReady(r) == r.exp = curr[r.client]

\* Mutant: the task stays in the queue.
DequeueKeeps(h) ==
  /\ pc[h] = "idle"
  /\ \E i \in DOMAIN queue[h] :
       /\ IsReady(queue[h][i])
       /\ hand' = [hand EXCEPT ![h] = queue[h][i]]
  /\ pc' = [pc EXCEPT ![h] = "run"]
  /\ UNCHANGED <<known, next, curr, queue, slot,
                 replyList, replyNext, events, sent>>

\* Mutant: only the front of the queue is looked at.
DequeueFront(h) ==
  /\ pc[h] = "idle"
  /\ queue[h] # <<>>
  /\ IsReady(Head(queue[h]))
  /\ hand' = [hand EXCEPT ![h] = Head(queue[h])]
  /\ queue' = [queue EXCEPT ![h] = Tail(@)]
  /\ pc' = [pc EXCEPT ![h] = "run"]
  /\ UNCHANGED <<known, next, curr, slot, replyList, replyNext, events, sent>>

\* The task is erased from the queue before it is executed.
Dequeue(h) ==
  /\ pc[h] = "idle"
  /\ \E i \in DOMAIN queue[h] :
       /\ IsReady(queue[h][i])
       /\ \A j \in 1 .. i-1 : ~ IsReady(queue[h][j])
       /\ hand' = [hand EXCEPT ![h] = queue[h][i]]
       /\ queue' = [queue EXCEPT ![h] = RemoveAt(@, i)]
  /\ pc' = [pc EXCEPT ![h] = "run"]
  /\ UNCHANGED <<known, next, curr, slot, replyList, replyNext, events, sent>>

\* Mutant: processNextRequest has no branch for loadData.
HandledNoLoad(h) ==
  IF h = "CPU" THEN {"queryDatabase", "getScene"}
               ELSE {"initGL", "requestFrame", "unloadGL"}

\* The methods each thread's processNextRequest has a branch for.
Handled(h) ==
  IF h = "CPU" THEN {"queryDatabase", "getScene", "loadData"}
               ELSE {"initGL", "requestFrame", "unloadGL"}

\* The tasks whose handler emits onResolve.
Answering == {"queryDatabase", "getScene", "initGL", "requestFrame"}

\* Mutant: without _reply_lock the increment of _reply_next can be lost.
AddReplyLosesIncrement(h) ==
  /\ replyList' = [i \in DOMAIN replyList \cup {replyNext} |->
                     IF i = replyNext THEN hand[h] ELSE replyList[i]]
  /\ replyNext' \in {replyNext, replyNext + 1}
  /\ slot' = [slot EXCEPT ![h] = replyNext]

\* resolves::add
AddReply(h) ==
  /\ replyList' = [i \in DOMAIN replyList \cup {replyNext} |->
                     IF i = replyNext THEN hand[h] ELSE replyList[i]]
  /\ replyNext' = replyNext + 1
  /\ slot' = [slot EXCEPT ![h] = replyNext]

\* Mutant: the counter moves before the reply is posted.
ExecuteCountsFirst(h) ==
  /\ pc[h] = "run"
  /\ hand[h].method \in Handled(h)
  /\ IF hand[h].method \in Answering
     THEN AddReply(h) /\ pc' = [pc EXCEPT ![h] = "post"]
     ELSE pc' = [pc EXCEPT ![h] = "count"] /\ UNCHANGED <<slot, replyList, replyNext>>
  /\ curr' = [curr EXCEPT ![hand[h].client] = @ + 1]
  /\ UNCHANGED <<known, next, queue, hand, events, sent>>

Execute(h) ==
  /\ pc[h] = "run"
  /\ hand[h].method \in Handled(h)
  /\ \/ /\ hand[h].method \in Answering
        /\ AddReply(h)
        /\ pc' = [pc EXCEPT ![h] = "post"]
     \/ /\ hand[h].method \notin Answering
        /\ pc' = [pc EXCEPT ![h] = "count"]
        /\ UNCHANGED <<slot, replyList, replyNext>>
  /\ UNCHANGED <<known, next, curr, queue, hand, events, sent>>

\* emit onResolve(id): a queued connection, the receiver lives in the main
\* thread.
Post(h) ==
  /\ pc[h] = "post"
  /\ events' = Append(events, slot[h])
  /\ slot' = [slot EXCEPT ![h] = 0]
  /\ pc' = [pc EXCEPT ![h] = "count"]
  /\ UNCHANGED <<known, next, curr, queue, hand, replyList, replyNext, sent>>

IncrementCurrCounter(h) ==
  /\ pc[h] = "count"
  /\ curr' = [curr EXCEPT ![hand[h].client] = @ + 1]
  /\ hand' = [hand EXCEPT ![h] = NoRequest]
  /\ pc' = [pc EXCEPT ![h] = "idle"]
  /\ UNCHANGED <<known, next, queue, slot, replyList, replyNext, events, sent>>

\* Mutant: the thread goes on with the locals it has just cleared.
UnknownMethodGoesOn(h) ==
  /\ pc[h] = "run"
  /\ hand[h].method \notin Handled(h)
  /\ hand' = [hand EXCEPT ![h] = NoRequest]
  /\ pc' = [pc EXCEPT ![h] = "count"]
  /\ UNCHANGED <<known, next, curr, queue, slot,
                 replyList, replyNext, events, sent>>

\* The else branch: no handler, no reply, and no increment.
UnknownMethod(h) ==
  /\ pc[h] = "run"
  /\ hand[h].method \notin Handled(h)
  /\ hand' = [hand EXCEPT ![h] = NoRequest]
  /\ pc' = [pc EXCEPT ![h] = "idle"]
  /\ UNCHANGED <<known, next, curr, queue, slot,
                 replyList, replyNext, events, sent>>

ProcessNextRequest(h) ==
  \/ Dequeue(h)
  \/ Execute(h)
  \/ Post(h)
  \/ IncrementCurrCounter(h)
  \/ UnknownMethod(h)

-----------------------------------------------------------------------------
(***************************************************************************)
(* Main thread: Communicator::onResolve pops the closure and calls it.     *)
(***************************************************************************)
OnResolve ==
  /\ events # <<>>
  /\ LET id == Head(events)
         r  == replyList[id]
     IN  /\ replyList' = [i \in DOMAIN replyList \ {id} |-> replyList[i]]
         /\ sent' = [sent EXCEPT ![r.client] =
                       Append(@, [exp |-> r.exp, resolve |-> r.resolve])]
  /\ events' = Tail(events)
  /\ UNCHANGED <<known, next, curr, queue, pc, hand, slot, replyNext>>

-----------------------------------------------------------------------------
(***************************************************************************)
(* The clients.  A patient client never closes a project and does not send *)
(* openProject while a notification of its own is still waiting; a client  *)
(* that waits for projectOpened before it opens again, as simulate.js      *)
(* does, is patient.  The other clients send anything at any time.         *)
(***************************************************************************)
Waiting(c, h) == {i \in DOMAIN queue[h] : queue[h][i].client = c}

\* Mutant: a patient client does not wait before it opens again.
MaySendOpen(c, m) == c \in Patient => m # "closeProject"

MaySend(c, m) ==
  c \in Patient =>
    /\ m # "closeProject"
    /\ m = "openProject" =>
         \A h \in Handlers : \A i \in Waiting(c, h) : queue[h][i].type = 0

Submit(c, m) == MaySend(c, m) /\ NewRequest(c, m)

Next ==
  \/ \E c \in Clients, m \in Methods : Submit(c, m)
  \/ \E h \in Handlers : ProcessNextRequest(h)
  \/ OnResolve

Spec == Init /\ [][Next]_vars

\* Each handler thread loops for ever over processNextRequest, and the Qt
\* event loop delivers what was posted.  Clients owe nothing.
FairSpec ==
  /\ Spec
  /\ \A h \in Handlers : WF_vars(ProcessNextRequest(h))
  /\ WF_vars(OnResolve)

-----------------------------------------------------------------------------
(***************************************************************************)
(* Properties.                                                             *)
(***************************************************************************)
Busy(h) == pc[h] # "idle"

\* Two sub-requests of one client never run at the same time, although they
\* sit in two queues and two threads pick them: Client and Engine, which
\* have no lock, are touched by one thread at a time.
OneHandlerPerClient ==
  \A g, h \in Handlers :
    Busy(g) /\ Busy(h) /\ hand[g].client = hand[h].client => g = h

\* No waiting request holds a ticket that was already served or is being
\* served, in spite of the copies enqueue makes of a notification: nothing
\* is executed twice.
ServedOnce ==
  \A h \in Handlers : \A i \in DOMAIN queue[h] :
    LET r == queue[h][i] IN
    /\ curr[r.client] <= r.exp
    /\ \A g \in Handlers :
         Busy(g) /\ hand[g].client = r.client => hand[g].exp < r.exp

\* The replies of a client leave in the order of its requests, whichever
\* threads computed them: the reply is posted before the counter moves.
RepliesInOrder ==
  \A c \in Clients : \A i, j \in DOMAIN sent[c] :
    i < j => sent[c][i].exp < sent[c][j].exp

\* A posted id is in the resolve list until its one onResolve call pops it
\* (a missing id would call an empty std::function in the main thread), and
\* the function it finds is one that can be called.
PostedIsRegistered ==
  /\ \A i \in DOMAIN events :
       /\ events[i] \in DOMAIN replyList
       /\ replyList[events[i]].resolve # NoReply
       /\ \A j \in DOMAIN events : events[i] = events[j] => i = j
  /\ \A h \in Handlers : pc[h] = "post" =>
       /\ slot[h] \in DOMAIN replyList
       /\ slot[h] \notin {events[i] : i \in DOMAIN events}
       /\ \A g \in Handlers : pc[g] = "post" /\ slot[g] = slot[h] => g = h

\* Some request of client c that waits or is being processed has ticket t.
Held(c, t) ==
  \E h \in Handlers :
    \/ \E i \in DOMAIN queue[h] : queue[h][i].client = c /\ queue[h][i].exp = t
    \/ Busy(h) /\ hand[h].client = c /\ hand[h].exp = t

\* When two waiting requests of a queue have one ticket (enqueue pushed a
\* notification it had also put in the place of an older one), an earlier
\* ticket of the client was lost, so neither of them will ever be ready.
CopiesWait ==
  \A h \in Handlers : \A i, j \in DOMAIN queue[h] :
    LET r == queue[h][i] IN
    i # j /\ queue[h][j].client = r.client /\ queue[h][j].exp = r.exp =>
      \E t \in curr[r.client] .. r.exp - 1 : ~ Held(r.client, t)

\* What makes ServedOnce and OneHandlerPerClient inductive: a client's turn is
\* at most its next ticket, the request a thread holds is the client's turn,
\* waiting tickets were handed out, the two queues share no ticket, and
\* copies wait.
CountersOrdered == \A c \in Clients : curr[c] <= next[c]

TurnInHand ==
  \A h \in Handlers : Busy(h) =>
    /\ hand[h].exp = curr[hand[h].client]
    /\ hand[h].exp < next[hand[h].client]

WaitingHandedOut ==
  \A h \in Handlers : \A i \in DOMAIN queue[h] :
    queue[h][i].exp < next[queue[h][i].client]

QueuesDisjoint ==
  \A g, h \in Handlers : g # h =>
    \A i \in DOMAIN queue[g], j \in DOMAIN queue[h] :
      queue[g][i].client = queue[h][j].client => queue[g][i].exp # queue[h][j].exp

TicketInv ==
  /\ OneHandlerPerClient
  /\ ServedOnce
  /\ CountersOrdered
  /\ TurnInHand
  /\ WaitingHandedOut
  /\ QueuesDisjoint
  /\ CopiesWait

\* The client's turn belongs to no request: nobody can increment curr.
Frozen(c) == curr[c] < next[c] /\ ~ Held(c, curr[c])

\* No later request of a frozen client, of any kind, is ever executed: the
\* server has no way to recover its turn.
FrozenForEver == [][\A c \in Clients : Frozen(c) => Frozen(c)']_vars

\* What a frozen client has queued never leaves the queues, however the queues
\* are reordered and overwritten around it: they grow, without a bound, with
\* everything it sends.
FrozenRequestsStay ==
  [][\A c \in Clients, h \in Handlers :
       Frozen(c) => Cardinality(Waiting(c, h)) <= Cardinality(Waiting(c, h)')]_vars

\* A patient client always owns its turn, whatever the others send.
PatientNeverFrozen == \A c \in Patient : ~ Frozen(c)

\* Every request of a patient client that carries a reply is answered, even
\* when the requests of frozen clients stay in front of it in the queues.
Asked(c, t) ==
  \E h \in Handlers : \E i \in Waiting(c, h) :
    queue[h][i].exp = t /\ queue[h][i].resolve # NoReply

Answered(c, t) == \E i \in DOMAIN sent[c] : sent[c][i].exp = t

PatientIsAnswered ==
  \A c \in Patient : \A t \in 0 .. MaxTicket-1 : Asked(c, t) ~> Answered(c, t)
=============================================================================
