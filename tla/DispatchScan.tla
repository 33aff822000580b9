---------------------------- MODULE DispatchScan ----------------------------
(***************************************************************************)
(* Request dispatching at the grain of the queue lock.                     *)
(*                                                                         *)
(* Dispatch takes the scan of RequestQueue::dequeue for one step.  Here a  *)
(* handler thread acquires _queue_lock, compares one waiting request after *)
(* the other with the counter of its client, each read of a counter being  *)
(* a step of its own, and releases the lock with or without a request.     *)
(* The other thread may execute, post and count in between: it increments  *)
(* a counter without holding the lock, and the scan sees some requests     *)
(* before and some after the increment.                                    *)
(***************************************************************************)
EXTENDS DispatchRefinement

VARIABLES
  pos,        \* position of the scan of each thread, 0 outside of dequeue
  atLock      \* history: the counters when the lock was last acquired

scanVars == <<pos, atLock>>
allScanVars == <<vars, scanVars>>

ScanTypeOK ==
  /\ TypeOK
  /\ pos \in [Handlers -> Nat]
  /\ atLock \in [Clients -> Nat]
  /\ \A h \in Handlers : pos[h] > 0 => pc[h] = "idle" /\ pos[h] <= Len(queue[h]) + 1

ScanInit ==
  /\ Init
  /\ pos = [h \in Handlers |-> 0]
  /\ atLock = curr

-----------------------------------------------------------------------------
\* _queue_lock is held from the first line of dequeue to its last.
LockIsFree == \A h \in Handlers : pos[h] = 0

\* newRequest holds the lock over the whole of a step of Dispatch.
LockedNewRequest(c, m) ==
  /\ LockIsFree
  /\ Submit(c, m)
  /\ UNCHANGED scanVars

\* Mutant: dequeueCPU and dequeueGPU have a lock each.
AcquireOwn(h) ==
  /\ pos[h] = 0
  /\ pc[h] = "idle"
  /\ pos' = [pos EXCEPT ![h] = 1]
  /\ atLock' = curr
  /\ UNCHANGED vars

Acquire(h) ==
  /\ LockIsFree
  /\ pc[h] = "idle"
  /\ pos' = [pos EXCEPT ![h] = 1]
  /\ atLock' = curr
  /\ UNCHANGED vars

\* Thread h is about to look at a request of its queue.
Looking(h) == pos[h] \in DOMAIN queue[h]

\* Mutant: the position moves by two.
SkipTwo(h) ==
  /\ Looking(h)
  /\ ~ IsReady(queue[h][pos[h]])
  /\ pos' = [pos EXCEPT ![h] = @ + 2]
  /\ UNCHANGED <<vars, atLock>>

\* isReady() is false: on to the next request.
Skip(h) ==
  /\ Looking(h)
  /\ ~ IsReady(queue[h][pos[h]])
  /\ pos' = [pos EXCEPT ![h] = @ + 1]
  /\ UNCHANGED <<vars, atLock>>

\* isReady() is true: the request is copied and erased.
Take(h) ==
  /\ Looking(h)
  /\ IsReady(queue[h][pos[h]])
  /\ hand' = [hand EXCEPT ![h] = queue[h][pos[h]]]
  /\ queue' = [queue EXCEPT ![h] = RemoveAt(@, pos[h])]
  /\ pc' = [pc EXCEPT ![h] = "run"]
  /\ pos' = [pos EXCEPT ![h] = 0]
  /\ UNCHANGED <<known, next, curr, slot, replyList, replyNext, events, sent,
                 atLock>>

\* The end of the queue: dequeue returns 0, and the thread tries again.
GiveUp(h) ==
  /\ pos[h] = Len(queue[h]) + 1
  /\ pos' = [pos EXCEPT ![h] = 0]
  /\ UNCHANGED <<vars, atLock>>

\* Outside of dequeue a thread needs no lock.
Work(h) ==
  /\ Execute(h) \/ Post(h) \/ IncrementCurrCounter(h) \/ UnknownMethod(h)
  /\ UNCHANGED scanVars

ScanNext ==
  \/ \E c \in Clients, m \in Methods : LockedNewRequest(c, m)
  \/ \E h \in Handlers : Acquire(h) \/ Skip(h) \/ Take(h) \/ GiveUp(h) \/ Work(h)
  \/ OnResolve /\ UNCHANGED scanVars

ScanSpec == ScanInit /\ [][ScanNext]_allScanVars

-----------------------------------------------------------------------------
(***************************************************************************)
(* Properties.                                                             *)
(***************************************************************************)
\* The first request of a queue that is ready by the given counters, 0 if
\* there is none: what a dequeue in one step would find.
FirstReady(q, counters) ==
  LET ready == {i \in DOMAIN q : q[i].exp = counters[q[i].client]}
  IN  IF ready = {} THEN 0 ELSE CHOOSE i \in ready : \A j \in ready : i <= j

\* Whatever the other thread counts during a scan, the scan ends as it would
\* have in one step, either when the lock was acquired or now (at most one
\* counter moves during a scan: the thread that counts needs the lock before it
\* can count again). Dequeue of Dispatch is all that can be seen of it.
ScanIsOneStep ==
  [][\A h \in Handlers : pos[h] > 0 /\ pos[h]' = 0 =>
       (IF Busy(h)' THEN pos[h] ELSE 0)
         \in {FirstReady(queue[h], atLock), FirstReady(queue[h], curr)}]_allScanVars
=============================================================================
