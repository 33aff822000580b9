---------------------------- MODULE ResolveList ----------------------------
(***************************************************************************)
(* The resolve list with ids that wrap.                                    *)
(*                                                                         *)
(* Dispatch numbers replies without a bound.  _reply_next is an int: after *)
(* Last comes First (signed overflow, for which the compilers in use emit  *)
(* a plain increment).  A handler thread adds a reply, and emits its id in *)
(* a step of its own, perhaps much later; the main thread pops the emitted *)
(* ids in order and calls what it finds.  The properties number the        *)
(* replies from 0, in the order of the calls of add.                       *)
(***************************************************************************)
EXTENDS Integers, Sequences

CONSTANTS
  Threads,      \* the handler threads
  First, Last,  \* the least and the greatest int
  MaxReplies,   \* bound of the model on the number of replies
  Nothing       \* what a thread holds that is not between add and emit

ASSUME ResolveAssumption ==
  /\ First \in Int /\ First <= 0
  /\ Last \in Int  /\ Last >= 0
  /\ MaxReplies \in Nat

Size == Last - First + 1

\* An id on its way from add to pop, and the number of its reply.
Ids == [id : Int, n : Nat]

ASSUME NothingAssumption == Nothing \notin Ids

VARIABLES
  replyList,   \* _reply_list: id -> number of the reply
  replyNext,   \* _reply_next
  holding,     \* the id a thread has obtained and not emitted
  events,      \* queued onResolve calls
  called,      \* the replies that were called
  alive,       \* the process runs
  added,       \* history: number of replies added
  base,        \* history: the reply with id First since the last wrap
  overrun      \* history: a reply had to wait while Size others were added

resolveVars == <<replyList, replyNext, holding, events, called, alive,
                 added, base, overrun>>

ResolveTypeOK ==
  /\ DOMAIN replyList \subseteq First .. Last
  /\ replyList \in [DOMAIN replyList -> Nat]
  /\ replyNext \in First .. Last
  /\ holding \in [Threads -> Ids \cup {Nothing}]
  /\ events \in Seq(Ids)
  /\ called \subseteq Nat
  /\ alive \in BOOLEAN
  /\ added \in Nat
  /\ base \in Int
  /\ overrun \in BOOLEAN

ResolveInit ==
  /\ replyList = [i \in {} |-> 0]
  /\ replyNext = 0
  /\ holding = [t \in Threads |-> Nothing]
  /\ events = <<>>
  /\ called = {}
  /\ alive = TRUE
  /\ added = 0
  /\ base = First
  /\ overrun = FALSE

-----------------------------------------------------------------------------
\* The ids on their way: every one is popped once, in the future.
Outstanding ==
  {holding[t] : t \in {u \in Threads : holding[u] # Nothing}} \cup
  {events[i] : i \in DOMAIN events}

\* Mutant: the counter is wider than the ids.
IncrementUnbounded(id) == id + 1

Increment(id) == IF id = Last THEN First ELSE id + 1

\* Mutant: without _reply_lock the increment of the other thread can be lost.
AddUnlocked(t) ==
  /\ holding[t] = Nothing
  /\ added < MaxReplies
  /\ replyList' = [i \in DOMAIN replyList \cup {replyNext} |->
                     IF i = replyNext THEN added ELSE replyList[i]]
  /\ replyNext' \in {replyNext, Increment(replyNext)}
  /\ holding' = [holding EXCEPT ![t] = [id |-> replyNext, n |-> added]]
  /\ added' = added + 1
  /\ UNCHANGED <<events, called, alive, base, overrun>>

\* resolves::add, under _reply_lock.
Add(t) ==
  /\ holding[t] = Nothing
  /\ added < MaxReplies
  /\ replyList' = [i \in DOMAIN replyList \cup {replyNext} |->
                     IF i = replyNext THEN added ELSE replyList[i]]
  /\ replyNext' = Increment(replyNext)
  /\ holding' = [holding EXCEPT ![t] = [id |-> replyNext, n |-> added]]
  /\ added' = added + 1
  /\ base' = IF replyNext = Last THEN added + 1 ELSE base
  /\ overrun' = (overrun \/ \E x \in Outstanding : added - x.n >= Size)
  /\ UNCHANGED <<events, called, alive>>

\* emit onResolve(id): the main thread is told through its event queue.
Emit(t) ==
  /\ holding[t] # Nothing
  /\ events' = Append(events, holding[t])
  /\ holding' = [holding EXCEPT ![t] = Nothing]
  /\ UNCHANGED <<replyList, replyNext, called, alive, added, base, overrun>>

\* Mutant: the function is erased before it is copied.
OnResolveErasesFirst ==
  /\ events # <<>>
  /\ replyList' = [i \in DOMAIN replyList \ {Head(events).id} |-> replyList[i]]
  /\ alive' = FALSE
  /\ events' = Tail(events)
  /\ UNCHANGED <<replyNext, holding, called, added, base, overrun>>

\* onResolve: pop, and call.  The list creates an empty function for an id it
\* does not have, and calling that throws in the main thread.
OnResolve ==
  /\ events # <<>>
  /\ LET id == Head(events).id IN
       \/ /\ id \in DOMAIN replyList
          /\ called' = called \cup {replyList[id]}
          /\ replyList' = [i \in DOMAIN replyList \ {id} |-> replyList[i]]
          /\ UNCHANGED alive
       \/ /\ id \notin DOMAIN replyList
          /\ alive' = FALSE
          /\ UNCHANGED <<called, replyList>>
  /\ events' = Tail(events)
  /\ UNCHANGED <<replyNext, holding, added, base, overrun>>

ResolveNext ==
  /\ alive
  /\ \/ \E t \in Threads : Add(t) \/ Emit(t)
     \/ OnResolve

ResolveSpec == ResolveInit /\ [][ResolveNext]_resolveVars

\* A thread runs on from add to emit, and the event loop of the main thread
\* delivers what was emitted.  Nobody has to add a reply.
FairResolveSpec ==
  /\ ResolveSpec
  /\ \A t \in Threads : WF_resolveVars(alive /\ Emit(t))
  /\ WF_resolveVars(alive /\ OnResolve)
-----------------------------------------------------------------------------
(***************************************************************************)
(* Properties.                                                             *)
(***************************************************************************)
\* However often the ids have wrapped, an id leads to the reply it was made
\* for, that reply was not called yet, and no id leads to nothing, unless
\* Size replies were added while one was waiting: the threads have to produce
\* as many replies as there are ints before the main thread answers one, or
\* before the other thread gets from add to emit.
MatchedUnlessOverrun ==
  ~ overrun =>
    /\ alive
    /\ \A x \in Outstanding :
         /\ x.id \in DOMAIN replyList
         /\ replyList[x.id] = x.n
         /\ x.n \notin called

\* Every reply that is added is called in the end, by the same proviso.
EveryReplyIsCalled ==
  \A n \in 0 .. MaxReplies - 1 : added > n ~> n \in called \/ overrun
=============================================================================
