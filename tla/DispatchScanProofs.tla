------------------------- MODULE DispatchScanProofs -------------------------
(***************************************************************************)
(* Proofs about dispatching at the grain of the queue lock.  To the        *)
(* invariants of the tickets a scan is a step of the server that takes     *)
(* some ready request of the queue, so they are those of Dispatch; the     *)
(* invariant of the scan itself says what the other thread can have        *)
(* counted meanwhile.                                                      *)
(***************************************************************************)
EXTENDS DispatchScan, DispatchProofs

-----------------------------------------------------------------------------
(***************************************************************************)
(* What Dispatch's invariants make of the scan.                            *)
(***************************************************************************)
LEMMA ScanNextIsDispatchStep ==
  ASSUME ScanTypeOK, [ScanNext]_allScanVars
  PROVE  DispatchStep
<1>1. ASSUME NEW h \in Handlers, Take(h)
      PROVE  TakesReady(h)
  <2>1. pos[h] \in DOMAIN queue[h] /\ pos[h] > 0
    BY <1>1 DEF Take, Looking, ScanTypeOK, TypeOK
  <2>2. pc[h] = "idle"
    BY <2>1 DEF ScanTypeOK
  <2> QED
    BY <1>1, <2>1, <2>2 DEF Take, TakesReady
<1>2. ASSUME NEW h \in Handlers, Acquire(h) \/ Skip(h) \/ GiveUp(h)
      PROVE  UNCHANGED vars
  BY <1>2 DEF Acquire, Skip, GiveUp
<1>3. ASSUME UNCHANGED allScanVars
      PROVE  UNCHANGED vars
  BY <1>3 DEF allScanVars
<1> QED
  BY <1>1, <1>2, <1>3
     DEF ScanNext, LockedNewRequest, Submit, Work, DispatchStep, ServerStep

-----------------------------------------------------------------------------
(***************************************************************************)
(* The invariant of the scan: one thread has the lock; the other has       *)
(* counted nothing since, or has counted one request and is idle, without  *)
(* the lock and so without a way to take another; and no request that the  *)
(* scan has passed was ready when it began.                                *)
(***************************************************************************)
OnlyScanner(h) == \A g \in Handlers \ {h} : pos[g] = 0

OneCountMoved ==
  \/ curr = atLock
  \/ /\ \A g \in Handlers : ~ Busy(g)
     /\ \E c \in Clients : curr = [atLock EXCEPT ![c] = @ + 1]

ReadyBy(r, counters) == r.exp = counters[r.client]

PassedOver(h) == \A i \in 1 .. pos[h] - 1 : ~ ReadyBy(queue[h][i], atLock)

ScanInv ==
  \A h \in Handlers : pos[h] > 0 => OnlyScanner(h) /\ OneCountMoved /\ PassedOver(h)

\* A waiting request that was ready when the lock was acquired is ready still:
\* the request that was counted had its ticket, and no copy of that one waits.
LEMMA StaysReady ==
  ASSUME ScanTypeOK, TicketInv, OneCountMoved,
         NEW h \in Handlers, NEW i \in DOMAIN queue[h], ReadyBy(queue[h][i], atLock)
  PROVE  ReadyBy(queue[h][i], curr)
<1>1. PICK r \in Requests : r = queue[h][i]
  BY RequestFacts DEF ScanTypeOK
<1>2. r.client \in Clients /\ r.exp \in Nat
  BY <1>1 DEF Requests
<1>3. curr[r.client] <= r.exp /\ r.exp = atLock[r.client]
  BY <1>1 DEF TicketInv, ServedOnce, ReadyBy
<1>4. atLock[r.client] <= curr[r.client]
  <2>1. PICK d \in Clients : d = r.client
    BY <1>2
  <2>2. atLock \in [Clients -> Nat] /\ atLock[d] \in Nat
    BY DEF ScanTypeOK
  <2>3. curr[d] = atLock[d] \/ curr[d] = atLock[d] + 1
    BY <2>2 DEF OneCountMoved
  <2> QED
    BY <2>1, <2>2, <2>3
<1>5. curr[r.client] \in Nat
  BY <1>2 DEF ScanTypeOK, TypeOK
<1> QED
  BY <1>1, <1>2, <1>3, <1>4, <1>5 DEF ReadyBy

\* Two waiting requests that are both ready are the same: a copy is never ready.
LEMMA ReadyIsOne ==
  ASSUME TypeOK, TicketInv, NEW h \in Handlers,
         NEW i \in DOMAIN queue[h], NEW j \in DOMAIN queue[h],
         queue[h][i].client = queue[h][j].client,
         IsReady(queue[h][i]), IsReady(queue[h][j])
  PROVE  i = j
<1> SUFFICES ASSUME i # j PROVE FALSE
  OBVIOUS
<1>1. PICK c \in Clients, t \in Nat :
        /\ c = queue[h][i].client /\ t = queue[h][i].exp
        /\ c = queue[h][j].client /\ t = queue[h][j].exp
        /\ t = curr[c]
  BY RequestFacts DEF IsReady
<1>2. \E u \in curr[c] .. t - 1 : ~ Held(c, u)
  BY <1>1 DEF TicketInv, CopiesWait
<1> QED
  BY <1>1, <1>2

LEMMA InitScanInv == ScanInit => ScanTypeOK /\ ScanInv
<1> SUFFICES ASSUME ScanInit PROVE ScanTypeOK /\ ScanInv
  OBVIOUS
<1>1. TypeOK
  BY InitTyped DEF ScanInit
<1>2. curr \in [Clients -> Nat]
  BY <1>1 DEF TypeOK
<1> QED
  BY <1>1, <1>2 DEF ScanInit, ScanTypeOK, ScanInv

LEMMA StepScanTyped ==
  ASSUME ScanTypeOK, ReplyInv, ScanInv, [ScanNext]_allScanVars
  PROVE  ScanTypeOK'
<1>1. TypeOK /\ TypeOK'
  BY ScanNextIsDispatchStep, StepTyped DEF ScanTypeOK
<1>2. CASE /\ UNCHANGED scanVars
           /\ \A h \in Handlers : pos[h] > 0 => pc'[h] = pc[h] /\ queue'[h] = queue[h]
  BY <1>1, <1>2 DEF scanVars, ScanTypeOK
<1>3. CASE \E c \in Clients, m \in Methods : LockedNewRequest(c, m)
  BY <1>2, <1>3 DEF LockedNewRequest, LockIsFree
<1>4. ASSUME NEW h \in Handlers, Acquire(h) \/ Skip(h) \/ GiveUp(h)
      PROVE  ScanTypeOK'
  <2>1. UNCHANGED <<pc, queue, curr>>
    BY <1>4 DEF Acquire, Skip, GiveUp, vars
  <2>2. atLock' \in [Clients -> Nat]
    BY <1>1, <1>4 DEF Acquire, Skip, GiveUp, ScanTypeOK, TypeOK
  <2>3. PICK n \in Nat : n = Len(queue[h]) /\ DOMAIN queue[h] = 1 .. n
    <3>1. queue[h] \in Seq(Requests)
      BY <1>1 DEF TypeOK
    <3> QED
      BY <3>1
  <2>4. /\ pos' \in [Handlers -> Nat]
        /\ \A g \in Handlers \ {h} : pos'[g] = pos[g]
        /\ pos'[h] > 0 => pc[h] = "idle" /\ pos'[h] <= n + 1
    <3>1. pos \in [Handlers -> Nat] /\ pos[h] \in Nat /\ (pos[h] > 0 => pc[h] = "idle")
      BY DEF ScanTypeOK
    <3>2. CASE Acquire(h)
      BY <2>3, <3>1, <3>2 DEF Acquire
    <3>3. CASE Skip(h)
      BY <2>3, <3>1, <3>3 DEF Skip, Looking
    <3>4. CASE GiveUp(h)
      BY <2>3, <3>1, <3>4 DEF GiveUp
    <3> QED
      BY <1>4, <3>2, <3>3, <3>4
  <2> QED
    BY <1>1, <2>1, <2>2, <2>3, <2>4 DEF ScanTypeOK
<1>5. ASSUME NEW h \in Handlers, Take(h)
      PROVE  ScanTypeOK'
  <2>1. /\ pos' = [pos EXCEPT ![h] = 0] /\ UNCHANGED atLock
        /\ \A g \in Handlers \ {h} : pc'[g] = pc[g] /\ queue'[g] = queue[g]
    BY <1>1, <1>5 DEF Take, TypeOK
  <2> QED
    BY <1>1, <2>1 DEF ScanTypeOK
<1>6. ASSUME NEW h \in Handlers, Work(h)
      PROVE  ScanTypeOK'
  <2>1. pos[h] = 0
    BY <1>6 DEF Work, Execute, Post, IncrementCurrCounter, UnknownMethod, ScanTypeOK
  <2>2. UNCHANGED queue /\ \A g \in Handlers \ {h} : pc'[g] = pc[g]
    BY <1>1, <1>6
       DEF Work, Execute, Post, IncrementCurrCounter, UnknownMethod, TypeOK
  <2> QED
    BY <1>2, <1>6, <2>1, <2>2 DEF Work
<1>7. CASE OnResolve /\ UNCHANGED scanVars
  BY <1>2, <1>7 DEF OnResolve
<1>8. CASE UNCHANGED allScanVars
  BY <1>2, <1>8 DEF allScanVars, vars
<1> QED
  BY <1>3, <1>4, <1>5, <1>6, <1>7, <1>8 DEF ScanNext

LEMMA StepScanInv ==
  ASSUME ScanTypeOK, TicketInv, ScanInv, [ScanNext]_allScanVars
  PROVE  ScanInv'
<1>0. TypeOK
  BY DEF ScanTypeOK
\* Nothing the scan looks at has changed.
<1>1. CASE /\ UNCHANGED <<pos, atLock, curr>>
           /\ \A h \in Handlers : pos[h] > 0 => queue'[h] = queue[h]
           /\ \A g \in Handlers : ~ Busy(g) => ~ Busy(g)'
  BY <1>1 DEF ScanInv, OnlyScanner, OneCountMoved, PassedOver
<1>2. CASE \E c \in Clients, m \in Methods : LockedNewRequest(c, m)
  BY <1>2 DEF LockedNewRequest, LockIsFree, ScanInv, scanVars
<1>3. ASSUME NEW h \in Handlers, Acquire(h)
      PROVE  ScanInv'
  <2>1. /\ pos' = [pos EXCEPT ![h] = 1] /\ \A g \in Handlers : pos[g] = 0
        /\ atLock' = curr' /\ UNCHANGED queue
    BY <1>3 DEF Acquire, LockIsFree, vars
  <2>2. pos'[h] = 1 /\ \A g \in Handlers \ {h} : pos'[g] = 0
    BY <2>1 DEF ScanTypeOK
  <2> QED
    BY <2>1, <2>2 DEF ScanInv, OnlyScanner, OneCountMoved, PassedOver
<1>4. ASSUME NEW h \in Handlers, Skip(h)
      PROVE  ScanInv'
  <2>1. /\ pos' = [pos EXCEPT ![h] = @ + 1] /\ pos[h] \in DOMAIN queue[h]
        /\ UNCHANGED <<atLock, curr, queue, pc>>
        /\ ~ ReadyBy(queue[h][pos[h]], curr)
    BY <1>4 DEF Skip, Looking, vars, IsReady, ReadyBy
  <2>2. pos[h] \in Nat /\ pos[h] > 0
    BY <2>1, RequestFacts, <1>0 DEF ScanTypeOK
  <2>3. OnlyScanner(h) /\ OneCountMoved /\ PassedOver(h)
    BY <2>2 DEF ScanInv
  <2>4. pos'[h] = pos[h] + 1 /\ \A g \in Handlers \ {h} : pos'[g] = 0
    BY <2>1, <2>3 DEF OnlyScanner, ScanTypeOK
  <2>5. ~ ReadyBy(queue[h][pos[h]], atLock)
    BY <2>1, <2>3, StaysReady
  <2>6. \A i \in 1 .. pos'[h] - 1 : ~ ReadyBy(queue[h][i], atLock)
    BY <2>2, <2>3, <2>4, <2>5 DEF PassedOver
  <2>7. OneCountMoved'
    BY <2>1, <2>3 DEF OneCountMoved, Busy
  <2>8. PassedOver(h)' /\ OnlyScanner(h)'
    BY <2>1, <2>4, <2>6 DEF PassedOver, OnlyScanner, ReadyBy
  <2> QED
    BY <2>4, <2>7, <2>8 DEF ScanInv
<1>5. ASSUME NEW h \in Handlers, Take(h) \/ GiveUp(h)
      PROVE  ScanInv'
  <2>1. pos[h] > 0 /\ pos'[h] = 0 /\ \A g \in Handlers \ {h} : pos'[g] = pos[g]
    BY <1>0, <1>5, RequestFacts DEF Take, GiveUp, Looking, ScanTypeOK
  <2>2. \A g \in Handlers : pos'[g] = 0
    BY <2>1 DEF ScanInv, OnlyScanner
  <2> QED
    BY <2>2 DEF ScanInv
<1>6. ASSUME NEW h \in Handlers, Execute(h) \/ Post(h) \/ UnknownMethod(h),
             UNCHANGED scanVars
      PROVE  ScanInv'
  <2>1. /\ UNCHANGED <<curr, queue>>
        /\ \A g \in Handlers : ~ Busy(g) => ~ Busy(g)'
    BY <1>0, <1>6 DEF Execute, Post, UnknownMethod, TypeOK, Busy
  <2> QED
    BY <1>1, <1>6, <2>1 DEF scanVars
<1>7. ASSUME NEW h \in Handlers, IncrementCurrCounter(h), UNCHANGED scanVars
      PROVE  ScanInv'
  <2>1. /\ Busy(h) /\ ~ Busy(h)' /\ UNCHANGED <<queue, pos, atLock>>
        /\ \A g \in Handlers \ {h} : pc'[g] = pc[g]
    BY <1>0, <1>7 DEF IncrementCurrCounter, TypeOK, Busy, scanVars
  <2>2. PICK c \in Clients : c = hand[h].client
    BY <1>0, <2>1, RequestFacts
  <2> SUFFICES ASSUME NEW g \in Handlers, pos[g] > 0
               PROVE  OnlyScanner(g)' /\ OneCountMoved' /\ PassedOver(g)'
    BY <2>1 DEF ScanInv
  <2>3. OnlyScanner(g) /\ OneCountMoved /\ PassedOver(g)
    BY DEF ScanInv
  <2>4. curr = atLock
    BY <2>1, <2>3 DEF OneCountMoved
  <2>5. curr' = [atLock EXCEPT ![c] = @ + 1]
    BY <1>7, <2>2, <2>4 DEF IncrementCurrCounter
  <2>6. \A f \in Handlers : ~ Busy(f)'
    <3>1. pc[g] = "idle" /\ \A f \in Handlers : f = g \/ f = h
      BY <2>1 DEF ScanTypeOK, Busy, Handlers
    <3> QED
      BY <2>1, <3>1 DEF Busy
  <2>7. OneCountMoved'
    BY <2>1, <2>5, <2>6 DEF OneCountMoved
  <2> QED
    BY <2>1, <2>3, <2>7 DEF OnlyScanner, PassedOver, ReadyBy
<1>8. CASE OnResolve /\ UNCHANGED scanVars
  BY <1>1, <1>8 DEF OnResolve, scanVars, Busy
<1>9. CASE UNCHANGED allScanVars
  BY <1>1, <1>9 DEF allScanVars, scanVars, vars, Busy
<1> QED
  BY <1>2, <1>3, <1>4, <1>5, <1>6, <1>7, <1>8, <1>9 DEF ScanNext, Work

LEMMA ScanInvariant ==
  ScanSpec => [](ScanTypeOK /\ ReplyInv /\ TicketInv /\ OrderInv /\ ScanInv)
<1> DEFINE Inv == ScanTypeOK /\ ReplyInv /\ TicketInv /\ OrderInv /\ ScanInv
<1>1. ScanInit => Inv
  BY InitScanInv, InitTyped, InitTickets, InitOrder DEF ScanInit
<1>2. Inv /\ [ScanNext]_allScanVars => Inv'
  <2> SUFFICES ASSUME Inv, [ScanNext]_allScanVars PROVE Inv'
    OBVIOUS
  <2>1. DispatchStep /\ TypeOK
    BY ScanNextIsDispatchStep DEF ScanTypeOK
  <2>2. ReplyInv' /\ TicketInv' /\ OrderInv'
    BY <2>1, StepTyped, StepTickets, StepOrder
  <2> QED
    BY <2>2, StepScanTyped, StepScanInv
<1> QED
  BY <1>1, <1>2, PTL DEF ScanSpec

\* Types, and the position of a scan stays within the queue it scans, although
\* the main thread appends to that queue: it waits for the lock.
THEOREM ScanTypeCorrect == ScanSpec => []ScanTypeOK
  BY ScanInvariant, PTL

\* What the tickets promise needs no scan in one step: it holds when the other
\* thread counts in the middle of it.
THEOREM ScanTicketsKept == ScanSpec => []TicketInv
  BY ScanInvariant, PTL

-----------------------------------------------------------------------------
(***************************************************************************)
(* The end of a scan.                                                      *)
(***************************************************************************)
LEMMA FirstReadyIs ==
  ASSUME NEW q \in Seq(Requests), NEW counters, NEW i \in DOMAIN q,
         ReadyBy(q[i], counters), \A j \in 1 .. i - 1 : ~ ReadyBy(q[j], counters)
  PROVE  FirstReady(q, counters) = i
<1> DEFINE ready == {j \in DOMAIN q : q[j].exp = counters[q[j].client]}
           IsFirst(k) == k \in ready /\ \A j \in ready : k <= j
<1>1. DOMAIN q = 1 .. Len(q) /\ Len(q) \in Nat
  OBVIOUS
<1>2. IsFirst(i)
  BY <1>1 DEF ReadyBy
<1>3. \A k : IsFirst(k) => k = i
  BY <1>1, <1>2
<1>4. FirstReady(q, counters) = CHOOSE k \in ready : \A j \in ready : k <= j
  BY <1>2 DEF FirstReady
<1>5. (CHOOSE k \in ready : \A j \in ready : k <= j) = i
  BY <1>2, <1>3
<1> QED
  BY <1>4, <1>5

LEMMA NoneReady ==
  ASSUME NEW q, NEW counters, \A i \in DOMAIN q : ~ ReadyBy(q[i], counters)
  PROVE  FirstReady(q, counters) = 0
  BY DEF FirstReady, ReadyBy

LEMMA ScanEnds ==
  ASSUME ScanTypeOK, TicketInv, ScanInv, [ScanNext]_allScanVars,
         NEW h \in Handlers, pos[h] > 0, pos'[h] = 0
  PROVE  (IF Busy(h)' THEN pos[h] ELSE 0)
           \in {FirstReady(queue[h], atLock), FirstReady(queue[h], curr)}
<1>0. TypeOK /\ queue[h] \in Seq(Requests) /\ pos[h] \in Nat
  BY RequestFacts DEF ScanTypeOK
<1>1. DOMAIN queue[h] = 1 .. Len(queue[h]) /\ Len(queue[h]) \in Nat
  BY <1>0
<1>2. OneCountMoved /\ PassedOver(h)
  BY DEF ScanInv
<1>3. Take(h) \/ GiveUp(h)
  <2>1. ASSUME NEW g \in Handlers, Acquire(g) \/ Skip(g)
        PROVE  pos'[h] # 0
    BY <1>0, <2>1 DEF Acquire, LockIsFree, Skip, ScanTypeOK
  <2>2. ASSUME NEW g \in Handlers \ {h}, Take(g) \/ GiveUp(g)
        PROVE  pos'[h] # 0
    BY <2>2 DEF Take, GiveUp, ScanTypeOK
  <2>3. ASSUME UNCHANGED scanVars \/ UNCHANGED allScanVars
        PROVE  pos'[h] # 0
    BY <2>3 DEF scanVars, allScanVars
  <2> QED
    BY <2>1, <2>2, <2>3 DEF ScanNext, LockedNewRequest, Work
<1>4. CASE Take(h)
  <2>1. Busy(h)'
    BY <1>0, <1>4 DEF Take, Busy, TypeOK
  <2>2. /\ pos[h] \in DOMAIN queue[h]
        /\ IsReady(queue[h][pos[h]])
    BY <1>4 DEF Take, Looking
  <2>3. CASE \A j \in 1 .. pos[h] - 1 : ~ ReadyBy(queue[h][j], curr)
    <3>1. FirstReady(queue[h], curr) = pos[h]
      BY <1>0, <2>2, <2>3, FirstReadyIs DEF ReadyBy, IsReady
    <3> QED
      BY <2>1, <3>1
  <2>4. ASSUME NEW j \in 1 .. pos[h] - 1, ReadyBy(queue[h][j], curr)
        PROVE  pos[h] = FirstReady(queue[h], atLock)
    <3>1. j \in DOMAIN queue[h] /\ j # pos[h]
      BY <1>0, <1>1, <2>2
    <3>2. queue[h][j].client # queue[h][pos[h]].client
      BY <1>0, <2>2, <2>4, <3>1, ReadyIsOne DEF ReadyBy, IsReady
    <3>3. ~ ReadyBy(queue[h][j], atLock)
      BY <1>2 DEF PassedOver
    <3>4. /\ queue[h][j].client \in Clients
          /\ queue[h][pos[h]].client \in Clients
      BY <1>0, <2>2, <3>1, RequestFacts
    <3>5. atLock[queue[h][pos[h]].client] = curr[queue[h][pos[h]].client]
      <4>1. curr # atLock
        BY <2>4, <3>3
      <4>2. PICK c \in Clients : curr = [atLock EXCEPT ![c] = @ + 1]
        BY <1>2, <4>1 DEF OneCountMoved
      <4>3. c = queue[h][j].client
        BY <2>4, <3>3, <3>4, <4>2 DEF ReadyBy, ScanTypeOK
      <4> QED
        BY <3>2, <3>4, <4>2, <4>3 DEF ScanTypeOK
    <3>6. ReadyBy(queue[h][pos[h]], atLock)
      BY <2>2, <3>5 DEF ReadyBy, IsReady
    <3> QED
      BY <1>0, <1>2, <2>2, <3>6, FirstReadyIs DEF PassedOver
  <2> QED
    BY <2>1, <2>3, <2>4
<1>5. CASE GiveUp(h)
  <2>1. ~ Busy(h)' /\ pos[h] = Len(queue[h]) + 1
    BY <1>5 DEF GiveUp, ScanTypeOK, Busy, vars
  <2>2. \A i \in DOMAIN queue[h] : ~ ReadyBy(queue[h][i], atLock)
    BY <1>1, <1>2, <2>1 DEF PassedOver
  <2> QED
    BY <2>1, <2>2, NoneReady
<1> QED
  BY <1>3, <1>4, <1>5

\* A scan ends with the request, or without one, that a scan in one step would
\* have found when the lock was acquired or at the end of it.
THEOREM ScanEndsAsInOneStep == ScanSpec => ScanIsOneStep
<1>1. ScanTypeOK /\ TicketInv /\ ScanInv /\ [ScanNext]_allScanVars =>
        \A h \in Handlers : pos[h] > 0 /\ pos[h]' = 0 =>
          (IF Busy(h)' THEN pos[h] ELSE 0)
            \in {FirstReady(queue[h], atLock), FirstReady(queue[h], curr)}
  BY ScanEnds
<1> QED
  BY <1>1, ScanInvariant, PTL DEF ScanSpec, ScanIsOneStep

\* The serial service is implemented under the real lock, with every read of a
\* counter a step of its own.
THEOREM ScanServesInTurn == ScanSpec => ImplementsSerialService
<1>1. ScanInit => Served!Init
  BY InitServed DEF ScanInit
<1>2. ScanTypeOK /\ ReplyInv /\ TicketInv /\ OrderInv /\ [ScanNext]_allScanVars
        => [Served!Next]_(Served!vars)
  BY ScanNextIsDispatchStep, StepServed DEF ScanTypeOK
<1> QED
  BY <1>1, <1>2, ScanInvariant, PTL DEF ScanSpec, ImplementsSerialService, Served!Spec
=============================================================================
