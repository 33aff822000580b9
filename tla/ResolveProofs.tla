---------------------------- MODULE ResolveProofs ----------------------------
(***************************************************************************)
(* Proofs about the resolve list: whatever the width of an int, wrapping   *)
(* is harmless until a reply has to wait for as many others as there are   *)
(* ids.                                                                    *)
(***************************************************************************)
EXTENDS ResolveList, TLAPS

\* The id of the n-th reply, for the last Size replies.
IdOf(n) == IF n >= base THEN First + (n - base) ELSE First + (n - base) + Size

\* An id in one of the two places: what a thread holds, what is queued.
Fits(x) ==
  /\ x.n < added /\ added - x.n <= Size
  /\ x.id = IdOf(x.n)
  /\ x.id \in DOMAIN replyList
  /\ replyList[x.id] = x.n
  /\ x.n \notin called

HeldFit == \A t \in Threads : holding[t] # Nothing => Fits(holding[t])

QueuedFit == \A i \in DOMAIN events : Fits(events[i])

\* No reply is on its way twice.
OnceOnItsWay ==
  /\ \A t, u \in Threads :
       holding[t] # Nothing /\ holding[u] # Nothing /\ holding[t].n = holding[u].n
         => t = u
  /\ \A i, j \in DOMAIN events : events[i].n = events[j].n => i = j
  /\ \A t \in Threads, i \in DOMAIN events :
       holding[t] # Nothing => holding[t].n # events[i].n

NextFollows ==
  /\ base <= added /\ added - base < Size
  /\ replyNext = First + (added - base)

ResolveInv ==
  /\ ResolveTypeOK
  /\ NextFollows
  /\ \A n \in called : n < added
  /\ \A id \in DOMAIN replyList : replyList[id] < added
  /\ ~ overrun => alive /\ HeldFit /\ QueuedFit /\ OnceOnItsWay

-----------------------------------------------------------------------------
LEMMA ResolveInitInv == ResolveInit => ResolveInv
<1> SUFFICES ASSUME ResolveInit PROVE ResolveInv
  OBVIOUS
<1> USE ResolveAssumption DEF ResolveInit
<1>1. DOMAIN replyList = {} /\ DOMAIN events = {} /\ \A t \in Threads : holding[t] = Nothing
  OBVIOUS
<1>2. ResolveTypeOK
  <2>1. holding \in [Threads -> Ids \cup {Nothing}] /\ events \in Seq(Ids)
    OBVIOUS
  <2>2. replyList \in [DOMAIN replyList -> Nat] /\ DOMAIN replyList \subseteq First .. Last
    OBVIOUS
  <2>3. replyNext \in First .. Last /\ added \in Nat /\ base \in Int
    OBVIOUS
  <2>4. alive \in BOOLEAN /\ overrun \in BOOLEAN /\ called \subseteq Nat
    OBVIOUS
  <2> QED
    BY <2>1, <2>2, <2>3, <2>4 DEF ResolveTypeOK
<1>3. NextFollows
  BY DEF NextFollows, Size
<1>4. HeldFit /\ QueuedFit /\ OnceOnItsWay
  BY <1>1 DEF HeldFit, QueuedFit, OnceOnItsWay
<1> QED
  BY <1>1, <1>2, <1>3, <1>4 DEF ResolveInv

\* resolves::add: the new id is free, as long as no reply waits for Size
\* others.
LEMMA AddInv ==
  ASSUME ResolveInv, NEW t \in Threads, Add(t)
  PROVE  ResolveInv'
<1> USE ResolveAssumption, NothingAssumption
<1>1. /\ ResolveTypeOK
      /\ base <= added /\ added - base < Size
      /\ replyNext = First + (added - base)
      /\ added \in Nat /\ base \in Int /\ replyNext \in First .. Last
  BY DEF ResolveInv, NextFollows, ResolveTypeOK
<1>2. /\ added' = added + 1
      /\ UNCHANGED <<events, called, alive>>
      /\ holding[t] = Nothing
      /\ holding' = [holding EXCEPT ![t] = [id |-> replyNext, n |-> added]]
      /\ replyList' = [i \in DOMAIN replyList \cup {replyNext} |->
                         IF i = replyNext THEN added ELSE replyList[i]]
  BY DEF Add
<1>3. /\ base' = IF replyNext = Last THEN added + 1 ELSE base
      /\ replyNext' = IF replyNext = Last THEN First ELSE replyNext + 1
  BY DEF Add, Increment
<1>4. base' \in Int /\ replyNext' \in First .. Last /\ NextFollows'
  BY <1>1, <1>2, <1>3 DEF NextFollows, Size
<1>5. [id |-> replyNext, n |-> added] \in Ids
  BY <1>1 DEF Ids
<1>6. /\ DOMAIN replyList' = DOMAIN replyList \cup {replyNext}
      /\ \A i \in DOMAIN replyList' :
           replyList'[i] = IF i = replyNext THEN added ELSE replyList[i]
  BY <1>2
<1>7. ResolveTypeOK'
  <2>1. DOMAIN replyList' \subseteq First .. Last
    BY <1>1, <1>6 DEF ResolveTypeOK
  <2>2. replyList' \in [DOMAIN replyList' -> Nat]
    BY <1>1, <1>2 DEF ResolveTypeOK
  <2>3. holding' \in [Threads -> Ids \cup {Nothing}]
    BY <1>1, <1>2, <1>5 DEF ResolveTypeOK
  <2>4. overrun' \in BOOLEAN
    BY DEF Add
  <2> QED
    BY <1>1, <1>2, <1>4, <2>1, <2>2, <2>3, <2>4 DEF ResolveTypeOK
<1>8. /\ \A n \in called' : n < added'
      /\ \A i \in DOMAIN replyList' : replyList'[i] < added'
  <2>1. \A n \in called : n < added /\ n \in Nat
    BY <1>1 DEF ResolveInv, ResolveTypeOK
  <2>2. \A i \in DOMAIN replyList : replyList[i] < added /\ replyList[i] \in Nat
    BY <1>1 DEF ResolveInv, ResolveTypeOK
  <2> QED
    BY <1>1, <1>2, <1>6, <2>1, <2>2
<1>9. ASSUME ~ overrun'
      PROVE  alive' /\ HeldFit' /\ QueuedFit' /\ OnceOnItsWay'
  <2>1. ~ overrun /\ \A x \in Outstanding : ~ (added - x.n >= Size)
    BY <1>9 DEF Add
  <2>2. alive /\ HeldFit /\ QueuedFit /\ OnceOnItsWay
    BY <2>1 DEF ResolveInv
  <2>3. ASSUME NEW x \in Ids, Fits(x), added - x.n < Size
        PROVE  Fits(x)'
    <3>1. x.n \in Nat /\ x.id \in Int
      BY DEF Ids
    <3>2. x.id # replyNext
      BY <1>1, <2>3, <3>1 DEF Fits, IdOf, Size
    <3>3. x.id \in DOMAIN replyList' /\ replyList'[x.id] = x.n
      BY <1>6, <2>3, <3>2 DEF Fits
    <3>4. x.id = IdOf(x.n)'
      BY <1>1, <1>3, <2>3, <3>1 DEF Fits, IdOf, Size
    <3> QED
      BY <1>1, <1>2, <2>3, <3>1, <3>3, <3>4 DEF Fits, Size
  <2>4. QueuedFit'
    <3> SUFFICES ASSUME NEW i \in DOMAIN events PROVE Fits(events[i])'
      BY <1>2 DEF QueuedFit
    <3>1. events[i] \in Ids /\ events[i] \in Outstanding /\ Fits(events[i])
      BY <1>1, <2>2 DEF QueuedFit, ResolveTypeOK, Outstanding
    <3>2. added - events[i].n < Size
      BY <1>1, <2>1, <3>1 DEF Ids, Size
    <3>3. PICK x \in Ids : x = events[i]
      BY <3>1
    <3>4. Fits(x)'
      BY <2>3, <3>1, <3>2, <3>3
    <3> QED
      BY <1>2, <3>3, <3>4 DEF Fits, IdOf
  <2>5. HeldFit'
    <3> SUFFICES ASSUME NEW u \in Threads, holding'[u] # Nothing PROVE Fits(holding[u])'
      BY DEF HeldFit
    <3>1. CASE u = t
      <4>1. PICK x \in Ids : x.id = replyNext /\ x.n = added
        BY <1>5
      <4>2. holding'[u].id = x.id /\ holding'[u].n = x.n
        BY <1>1, <1>2, <3>1, <4>1 DEF ResolveTypeOK
      <4>3. x.id = IdOf(x.n)'
        BY <1>1, <1>3, <4>1 DEF IdOf, Size
      <4>4. x.n \notin called
        BY <1>1, <4>1 DEF ResolveInv
      <4>5. x.n < added' /\ added' - x.n <= Size
        BY <1>1, <1>2, <4>1 DEF Size
      <4>6. x.id \in DOMAIN replyList' /\ replyList'[x.id] = x.n
        BY <1>6, <4>1
      <4> QED
        BY <1>2, <4>2, <4>3, <4>4, <4>5, <4>6 DEF Fits, IdOf
    <3>2. CASE u # t
      <4>1. holding'[u] = holding[u]
        BY <1>1, <1>2, <3>2 DEF ResolveTypeOK
      <4>2. holding[u] \in Ids /\ holding[u] \in Outstanding /\ Fits(holding[u])
        BY <1>1, <2>2, <4>1 DEF HeldFit, ResolveTypeOK, Outstanding
      <4>3. added - holding[u].n < Size
        BY <1>1, <2>1, <4>2 DEF Ids, Size
      <4>4. PICK x \in Ids : x = holding[u]
        BY <4>2
      <4>5. Fits(x)'
        BY <2>3, <4>2, <4>3, <4>4
      <4> QED
        BY <4>1, <4>4, <4>5 DEF Fits, IdOf
    <3> QED
      BY <3>1, <3>2
  <2>6. OnceOnItsWay'
    <3>1. \A u \in Threads : holding[u] # Nothing => holding[u].n < added
      BY <2>2 DEF HeldFit, Fits
    <3>2. \A i \in DOMAIN events : events[i].n < added
      BY <2>2 DEF QueuedFit, Fits
    <3>3. \A u \in Threads :
            holding'[u] = IF u = t THEN [id |-> replyNext, n |-> added] ELSE holding[u]
      BY <1>1, <1>2 DEF ResolveTypeOK
    <3>4. holding'[t].n = added
      BY <3>3
    <3> QED
      BY <1>1, <1>2, <2>2, <3>1, <3>2, <3>3, <3>4 DEF OnceOnItsWay
  <2> QED
    BY <1>2, <2>2, <2>4, <2>5, <2>6
<1> QED
  BY <1>4, <1>7, <1>8, <1>9 DEF ResolveInv

\* Between add and pop an id only changes its place.
LEMMA EmitInv ==
  ASSUME ResolveInv, NEW t \in Threads, Emit(t)
  PROVE  ResolveInv'
<1> USE ResolveAssumption, NothingAssumption
<1>1. ResolveTypeOK
  BY DEF ResolveInv
<1>2. /\ UNCHANGED <<replyList, replyNext, called, alive, added, base, overrun>>
      /\ holding[t] \in Ids
      /\ events' = Append(events, holding[t])
      /\ events \in Seq(Ids)
      /\ \A u \in Threads : holding'[u] = IF u = t THEN Nothing ELSE holding[u]
  BY <1>1 DEF Emit, ResolveTypeOK
<1>3. /\ DOMAIN events' = DOMAIN events \cup {Len(events) + 1}
      /\ DOMAIN events = 1 .. Len(events)
      /\ events'[Len(events) + 1] = holding[t]
      /\ \A i \in DOMAIN events : events'[i] = events[i]
      /\ Len(events) + 1 \notin DOMAIN events
  BY <1>2
<1>4. ResolveTypeOK'
  <2>1. holding' \in [Threads -> Ids \cup {Nothing}]
    BY <1>1 DEF Emit, ResolveTypeOK
  <2>2. events' \in Seq(Ids)
    BY <1>2
  <2> QED
    BY <1>1, <1>2, <2>1, <2>2 DEF ResolveTypeOK
<1>5. NextFollows' /\ \A x : Fits(x)' <=> Fits(x)
  BY <1>2 DEF ResolveInv, NextFollows, Fits, IdOf
<1>6. ASSUME ~ overrun
      PROVE  alive' /\ HeldFit' /\ QueuedFit' /\ OnceOnItsWay'
  <2>1. alive /\ HeldFit /\ QueuedFit /\ OnceOnItsWay
    BY <1>6 DEF ResolveInv
  <2>2. holding[t] # Nothing /\ Fits(holding[t])
    BY <1>2, <2>1 DEF HeldFit, Emit
  <2>3. \A u \in Threads : holding'[u] # Nothing => Fits(holding'[u])
    BY <1>2, <2>1 DEF HeldFit
  <2>4. HeldFit'
    BY <1>2, <2>3 DEF HeldFit, Fits, IdOf
  <2>5. \A i \in DOMAIN events' : Fits(events'[i])
    BY <1>3, <2>1, <2>2 DEF QueuedFit
  <2>6. QueuedFit'
    BY <1>2, <2>5 DEF QueuedFit, Fits, IdOf
  <2>7. OnceOnItsWay'
    <3>1. \A u, v \in Threads :
            holding'[u] # Nothing /\ holding'[v] # Nothing
            /\ holding'[u].n = holding'[v].n => u = v
      BY <1>2, <2>1 DEF OnceOnItsWay
    <3>2. \A i, j \in DOMAIN events' : events'[i].n = events'[j].n => i = j
      BY <1>3, <2>1, <2>2 DEF OnceOnItsWay
    <3>3. \A u \in Threads, i \in DOMAIN events' :
            holding'[u] # Nothing => holding'[u].n # events'[i].n
      BY <1>2, <1>3, <2>1, <2>2 DEF OnceOnItsWay
    <3> QED
      BY <3>1, <3>2, <3>3 DEF OnceOnItsWay
  <2> QED
    BY <1>2, <2>1, <2>4, <2>6, <2>7
<1> QED
  BY <1>2, <1>4, <1>5, <1>6 DEF ResolveInv

\* onResolve: the popped id leads to its reply, and no other id led to it.
LEMMA OnResolveInv ==
  ASSUME ResolveInv, OnResolve
  PROVE  ResolveInv'
<1> USE ResolveAssumption, NothingAssumption
<1>1. ResolveTypeOK
  BY DEF ResolveInv
<1>2. /\ UNCHANGED <<replyNext, holding, added, base, overrun>>
      /\ events \in Seq(Ids) /\ events # <<>>
      /\ events' = Tail(events)
      /\ Head(events) = events[1] /\ events[1] \in Ids
      /\ 1 \in DOMAIN events
  BY <1>1 DEF OnResolve, ResolveTypeOK
<1>3. /\ events' \in Seq(Ids)
      /\ \A i \in DOMAIN events' :
           i + 1 \in DOMAIN events /\ events'[i] = events[i + 1] /\ i + 1 # 1
      /\ \A i, j \in DOMAIN events' : i + 1 = j + 1 => i = j
  BY <1>2
<1>4. PICK x \in Ids : x = events[1]
  BY <1>2
<1>5. \/ /\ x.id \in DOMAIN replyList
         /\ called' = called \cup {replyList[x.id]}
         /\ replyList' = [i \in DOMAIN replyList \ {x.id} |-> replyList[i]]
         /\ alive' = alive
      \/ /\ x.id \notin DOMAIN replyList
         /\ alive' = FALSE
         /\ UNCHANGED <<called, replyList>>
  BY <1>2, <1>4 DEF OnResolve
<1>6. /\ DOMAIN replyList' \subseteq DOMAIN replyList
      /\ \A i \in DOMAIN replyList' : replyList'[i] = replyList[i]
      /\ \A i \in DOMAIN replyList : i # x.id => i \in DOMAIN replyList'
  BY <1>5
<1>7. \A i \in DOMAIN replyList : replyList[i] \in Nat /\ replyList[i] < added
  BY <1>1 DEF ResolveInv, ResolveTypeOK
<1>8. \A n \in called' : n \in Nat /\ n < added
  BY <1>1, <1>5, <1>7 DEF ResolveInv, ResolveTypeOK
<1>9. ResolveTypeOK'
  <2>1. DOMAIN replyList' \subseteq First .. Last
    BY <1>1, <1>6 DEF ResolveTypeOK
  <2>2. replyList' \in [DOMAIN replyList' -> Nat]
    BY <1>1, <1>5, <1>7 DEF ResolveTypeOK
  <2>3. alive' \in BOOLEAN
    BY <1>1, <1>5 DEF ResolveTypeOK
  <2> QED
    BY <1>1, <1>2, <1>3, <1>8, <2>1, <2>2, <2>3 DEF ResolveTypeOK
<1>10. NextFollows'
  BY <1>2 DEF ResolveInv, NextFollows
<1>11. \A id \in DOMAIN replyList' : replyList'[id] < added'
  BY <1>2, <1>6, <1>7
<1>12. ASSUME ~ overrun
       PROVE  alive' /\ HeldFit' /\ QueuedFit' /\ OnceOnItsWay'
  <2>1. alive /\ HeldFit /\ QueuedFit /\ OnceOnItsWay
    BY <1>12 DEF ResolveInv
  <2>2. x.id \in DOMAIN replyList /\ replyList[x.id] = x.n
    BY <1>2, <1>4, <2>1 DEF QueuedFit, Fits
  <2>3. alive' /\ called' = called \cup {x.n}
    BY <1>5, <2>1, <2>2
  <2>4. ASSUME NEW y \in Ids, Fits(y), y.n # x.n
        PROVE  Fits(y)'
    <3>1. y.id # x.id
      BY <2>2, <2>4 DEF Fits
    <3> QED
      BY <1>2, <1>6, <2>3, <2>4, <3>1 DEF Fits, IdOf
  <2>5. HeldFit'
    <3> SUFFICES ASSUME NEW t \in Threads, holding[t] # Nothing PROVE Fits(holding[t])'
      BY <1>2 DEF HeldFit
    <3>1. PICK y \in Ids : y = holding[t]
      BY <1>1 DEF ResolveTypeOK
    <3>2. Fits(y) /\ y.n # x.n
      BY <1>2, <1>4, <2>1, <3>1 DEF HeldFit, OnceOnItsWay
    <3>3. Fits(y)'
      BY <2>4, <3>2
    <3> QED
      BY <1>2, <3>1, <3>3 DEF Fits, IdOf
  <2>6. QueuedFit'
    <3> SUFFICES ASSUME NEW i \in DOMAIN events' PROVE Fits(events[i])'
      BY DEF QueuedFit
    <3>1. PICK y \in Ids : y = events[i + 1]
      BY <1>2, <1>3
    <3>2. Fits(y) /\ y.n # x.n
      BY <1>2, <1>3, <1>4, <2>1, <3>1 DEF QueuedFit, OnceOnItsWay
    <3>3. Fits(y)' /\ events'[i] = y
      BY <1>3, <2>4, <3>1, <3>2
    <3> QED
      BY <3>3 DEF Fits, IdOf
  <2>7. OnceOnItsWay'
    BY <1>2, <1>3, <2>1 DEF OnceOnItsWay
  <2> QED
    BY <2>3, <2>5, <2>6, <2>7
<1> QED
  BY <1>2, <1>8, <1>9, <1>10, <1>11, <1>12 DEF ResolveInv

LEMMA ResolveNextInv == ResolveInv /\ [ResolveNext]_resolveVars => ResolveInv'
<1> SUFFICES ASSUME ResolveInv, [ResolveNext]_resolveVars PROVE ResolveInv'
  OBVIOUS
<1>1. CASE ResolveNext
  BY <1>1, AddInv, EmitInv, OnResolveInv DEF ResolveNext
<1>2. CASE UNCHANGED resolveVars
  BY <1>2 DEF resolveVars, ResolveInv, ResolveTypeOK, NextFollows, HeldFit, QueuedFit,
              OnceOnItsWay, Fits, IdOf
<1> QED
  BY <1>1, <1>2

\* For any width of the ids and any number of threads: while no reply waits
\* for as many others as there are ids, every id on its way leads to its own
\* reply, which was not called before, and the main thread never calls an
\* empty function.
THEOREM RepliesMatch == ResolveSpec => []MatchedUnlessOverrun
<1>1. ResolveInv => MatchedUnlessOverrun
  BY DEF ResolveInv, MatchedUnlessOverrun, Outstanding, HeldFit, QueuedFit, Fits
<1> QED
  BY <1>1, ResolveInitInv, ResolveNextInv, PTL DEF ResolveSpec

\* Ids stay within an int, whatever the number of replies.
THEOREM IdsTyped == ResolveSpec => []ResolveTypeOK
<1>1. ResolveInv => ResolveTypeOK
  BY DEF ResolveInv
<1> QED
  BY <1>1, ResolveInitInv, ResolveNextInv, PTL DEF ResolveSpec
=============================================================================
