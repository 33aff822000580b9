--------------------------- MODULE DispatchProofs ---------------------------
(***************************************************************************)
(* Proofs about request dispatching, for every set of clients, every       *)
(* subset of the methods and every bound on the tickets.                   *)
(***************************************************************************)
EXTENDS DispatchRefinement, TLAPS, SequenceTheorems, FiniteSetTheorems, FunctionTheorems

-----------------------------------------------------------------------------
(***************************************************************************)
(* The queue operations.                                                   *)
(***************************************************************************)

\* Erasing an element keeps the others, in their order.
LEMMA RemoveAtProperties ==
  ASSUME NEW S, NEW q \in Seq(S), NEW i \in 1 .. Len(q)
  PROVE  /\ RemoveAt(q, i) \in Seq(S)
         /\ Len(RemoveAt(q, i)) = Len(q) - 1
         /\ \A j \in 1 .. Len(q) - 1 :
              RemoveAt(q, i)[j] = IF j < i THEN q[j] ELSE q[j + 1]
<1>1. /\ SubSeq(q, 1, i-1) \in Seq(S)
      /\ Len(SubSeq(q, 1, i-1)) = i - 1
      /\ \A j \in 1 .. i-1 : SubSeq(q, 1, i-1)[j] = q[j]
  OBVIOUS
<1>2. /\ SubSeq(q, i+1, Len(q)) \in Seq(S)
      /\ Len(SubSeq(q, i+1, Len(q))) = Len(q) - i
      /\ \A j \in 1 .. Len(q) - i : SubSeq(q, i+1, Len(q))[j] = q[i + j]
  OBVIOUS
<1> DEFINE front == SubSeq(q, 1, i-1)
           back  == SubSeq(q, i+1, Len(q))
<1>3. RemoveAt(q, i) = front \o back
  BY DEF RemoveAt
<1> HIDE DEF front, back
<1>4. front \in Seq(S) /\ back \in Seq(S)
  BY <1>1, <1>2 DEF front, back
<1>5. Len(front) = i - 1 /\ Len(back) = Len(q) - i
  BY <1>1, <1>2 DEF front, back
<1>6. Len(q) \in Nat
  OBVIOUS
<1>7. ASSUME NEW j \in 1 .. Len(q) - 1
      PROVE  (front \o back)[j] = IF j < i THEN q[j] ELSE q[j + 1]
  <2>1. CASE j < i
    <3>1. j \in 1 .. Len(front)
      BY <1>5, <2>1
    <3>2. (front \o back)[j] = front[j]
      BY <1>4, <3>1
    <3>3. front[j] = q[j]
      BY <1>1, <2>1 DEF front
    <3> QED
      BY <2>1, <3>2, <3>3
  <2>2. CASE ~ (j < i)
    <3>1. j - (i - 1) \in 1 .. Len(back)
      BY <1>5, <1>6, <2>2
    <3>2. (front \o back)[j] = back[j - (i - 1)]
      BY <1>4, <1>5, <1>6, <2>2
    <3>3. back[j - (i - 1)] = q[i + (j - (i - 1))]
      BY <1>2, <1>5, <3>1 DEF back
    <3>4. i + (j - (i - 1)) = j + 1
      BY <1>6
    <3> QED
      BY <2>2, <3>2, <3>3, <3>4
  <2> QED
    BY <2>1, <2>2
<1>8. front \o back \in Seq(S) /\ Len(front \o back) = Len(q) - 1
  BY <1>4, <1>5, <1>6
<1> QED
  BY <1>3, <1>7, <1>8

\* enqueue appends the new request and changes at most one older entry, a
\* notification of the same client for the same task.
LEMMA EnqueueProperties ==
  ASSUME NEW q \in Seq(Requests), NEW r \in Requests
  PROVE  /\ Enqueue(q, r) \in Seq(Requests)
         /\ Len(Enqueue(q, r)) = Len(q) + 1
         /\ Enqueue(q, r)[Len(q) + 1] = r
         /\ \A i \in 1 .. Len(q) :
              Enqueue(q, r)[i] # q[i] => Enqueue(q, r)[i] = r /\ Overrides(r, q[i])
         /\ \A i, j \in 1 .. Len(q) :
              Enqueue(q, r)[i] # q[i] /\ Enqueue(q, r)[j] # q[j] => i = j
<1>1. CASE r.type = 0
  BY <1>1 DEF Enqueue
<1>2. CASE r.type # 0
  <2> DEFINE p == Replaced(q, r)
  <2>1. /\ p \in Seq(Requests)
        /\ Len(p) = Len(q)
        /\ \A i \in 1 .. Len(q) :
             p[i] = IF Overrides(r, q[i]) /\ \A j \in 1 .. i-1 : ~ Overrides(r, q[j])
                    THEN r ELSE q[i]
    BY IsASeq DEF Replaced
  <2>2. Enqueue(q, r) = Append(p, r)
    BY <1>2 DEF Enqueue
  <2>3. \A i, j \in 1 .. Len(q) : p[i] # q[i] /\ p[j] # q[j] => i = j
    <3> SUFFICES ASSUME NEW i \in 1 .. Len(q), NEW j \in 1 .. Len(q),
                        p[i] # q[i], p[j] # q[j], i < j
                 PROVE  FALSE
      OBVIOUS
    <3>1. Overrides(r, q[i])
      BY <2>1
    <3>2. i \in 1 .. j-1
      OBVIOUS
    <3> QED
      BY <2>1, <3>1, <3>2
  <2> HIDE DEF p
  <2> QED
    BY <2>1, <2>2, <2>3
<1> QED
  BY <1>1, <1>2

-----------------------------------------------------------------------------
(***************************************************************************)
(* Types.  The reply list must hold every posted id, so typing and the     *)
(* resolve list are one induction.                                         *)
(***************************************************************************)

\* A request that will be answered carries a function to answer with.
CanAnswer(r) == r.method \in Answering => r.resolve # NoReply

ReplyInv ==
  /\ \A h \in Handlers : \A i \in DOMAIN queue[h] : CanAnswer(queue[h][i])
  /\ \A h \in Handlers : Busy(h) => CanAnswer(hand[h])
  /\ \A id \in DOMAIN replyList : id < replyNext /\ replyList[id].resolve # NoReply
  /\ PostedIsRegistered

\* What newRequest does to the queues: each gets at most one request of the
\* client, which carries a fresh ticket; the tickets of two differ, every
\* ticket handed out is carried by one, and only closeProject makes a request
\* that the thread it goes to has no branch for.
Fresh(c, r) == r.client = c /\ next[c] <= r.exp /\ r.exp < next'[c]

Enqueues(c, m, H, r) ==
  /\ \A h \in Handlers :
       queue'[h] = IF h \in H THEN Enqueue(queue[h], r[h]) ELSE queue[h]
  /\ \A h \in H : Fresh(c, r[h]) /\ CanAnswer(r[h])
  /\ \A g, h \in H : g # h => r[g].exp # r[h].exp
  /\ \A t \in Nat : next[c] <= t /\ t < next'[c] => \E h \in H : r[h].exp = t
  /\ \A h \in H : r[h].type = TypeOf(m)
  /\ m # "closeProject" => \A h \in H : r[h].method \in Handled(h)

LEMMA OneEnqueues ==
  ASSUME TypeOK, NEW c \in Clients, NEW m \in RpcMethods \cap Tasks,
         NEW h0 \in Handlers, m \in Handled(h0), One(c, m, h0)
  PROVE  /\ next' \in [Clients -> Nat]
         /\ \A d \in Clients : next[d] <= next'[d]
         /\ queue' \in [Handlers -> Seq(Requests)]
         /\ \E H \in SUBSET Handlers, r \in [Handlers -> Requests] :
              Enqueues(c, m, H, r)
<1> DEFINE r0 == Create(c, next[c], m, m, m)
           r  == [h \in Handlers |-> r0]
<1>1. r0 \in Requests
  BY DEF TypeOK, Create, Requests, TypeOf
<1>2. r0.client = c /\ r0.exp = next[c] /\ r0.resolve = m
  BY DEF Create
<1>3. /\ next' \in [Clients -> Nat]
      /\ next'[c] = next[c] + 1
      /\ \A d \in Clients : next[d] <= next'[d]
  BY DEF TypeOK, One
<1>4. \A h \in Handlers :
        queue'[h] = IF h = h0 THEN Enqueue(queue[h], r0) ELSE queue[h]
  BY DEF TypeOK, One
<1>5. queue' \in [Handlers -> Seq(Requests)]
  <2>1. Enqueue(queue[h0], r0) \in Seq(Requests)
    BY <1>1, EnqueueProperties DEF TypeOK
  <2> QED
    BY <2>1 DEF TypeOK, One
<1>6. CanAnswer(r0)
  BY <1>2 DEF CanAnswer, RpcMethods, NoReply
<1>7. Enqueues(c, m, {h0}, r)
  <2>1. r0.type = TypeOf(m) /\ r0.method = m
    BY DEF Create
  <2> HIDE DEF r0
  <2>2. next[c] \in Nat
    BY DEF TypeOK
  <2>3. Fresh(c, r0)
    BY <1>2, <1>3, <2>2 DEF Fresh
  <2>4. \A t \in Nat : next[c] <= t /\ t < next'[c] => r0.exp = t
    BY <1>2, <1>3, <2>2
  <2> QED
    BY <1>4, <1>6, <2>1, <2>3, <2>4 DEF Enqueues
<1>8. r \in [Handlers -> Requests]
  BY <1>1
<1> QED
  BY <1>3, <1>5, <1>7, <1>8

LEMMA TwoEnqueues ==
  ASSUME TypeOK, NEW c \in Clients, NEW m \in RpcMethods,
         NEW h1 \in Handlers, NEW h2 \in Handlers, h1 # h2,
         NEW t1 \in Tasks \ Answering, NEW t2 \in Tasks,
         m # "closeProject" => t1 \in Handled(h1) /\ t2 \in Handled(h2),
         Two(c, m, h1, t1, h2, t2)
  PROVE  /\ next' \in [Clients -> Nat]
         /\ \A d \in Clients : next[d] <= next'[d]
         /\ queue' \in [Handlers -> Seq(Requests)]
         /\ \E H \in SUBSET Handlers, r \in [Handlers -> Requests] :
              Enqueues(c, m, H, r)
<1> DEFINE r1 == Create(c, next[c], m, t1, NoReply)
           r2 == Create(c, next[c] + 1, m, t2, m)
           r  == [h \in Handlers |-> IF h = h1 THEN r1 ELSE r2]
<1>1. r1 \in Requests /\ r2 \in Requests
  BY DEF TypeOK, Create, Requests, TypeOf
<1>2. /\ r1.client = c /\ r1.exp = next[c] /\ r1.method = t1
      /\ r2.client = c /\ r2.exp = next[c] + 1 /\ r2.resolve = m
  BY DEF Create
<1>3. /\ next' \in [Clients -> Nat]
      /\ next[c] \in Nat
      /\ next'[c] = next[c] + 2
      /\ \A d \in Clients : next[d] <= next'[d]
  BY DEF TypeOK, Two
<1>4. \A h \in Handlers : h = h1 \/ h = h2
  BY DEF Handlers
<1>5. /\ queue'[h1] = Enqueue(queue[h1], r1)
      /\ queue'[h2] = Enqueue(queue[h2], r2)
  BY DEF TypeOK, Two
<1>6. queue' \in [Handlers -> Seq(Requests)]
  <2>1. /\ Enqueue(queue[h1], r1) \in Seq(Requests)
        /\ Enqueue(queue[h2], r2) \in Seq(Requests)
    BY <1>1, EnqueueProperties DEF TypeOK
  <2>2. queue' = [queue EXCEPT ![h1] = Enqueue(queue[h1], r1),
                               ![h2] = Enqueue(queue[h2], r2)]
    BY DEF TypeOK, Two
  <2> HIDE DEF r1, r2
  <2> QED
    BY <2>1, <2>2 DEF TypeOK
<1>7. CanAnswer(r1) /\ CanAnswer(r2)
  BY <1>2 DEF CanAnswer, RpcMethods, NoReply
<1>8. r[h1] = r1 /\ r[h2] = r2
  OBVIOUS
<1>9. r \in [Handlers -> Requests]
  BY <1>1
<1>10. Enqueues(c, m, Handlers, r)
  <2>0. r1.type = TypeOf(m) /\ r2.type = TypeOf(m) /\ r1.method = t1 /\ r2.method = t2
    BY DEF Create
  <2> HIDE DEF r1, r2, r
  <2>1. Fresh(c, r1) /\ Fresh(c, r2) /\ r1.exp # r2.exp
    BY <1>2, <1>3 DEF Fresh
  <2>2. \A t \in Nat : next[c] <= t /\ t < next'[c] => r1.exp = t \/ r2.exp = t
    BY <1>2, <1>3
  <2> QED
    BY <1>4, <1>5, <1>7, <1>8, <2>0, <2>1, <2>2 DEF Enqueues
<1> QED
  BY <1>3, <1>6, <1>9, <1>10

LEMMA NewRequestEnqueues ==
  ASSUME TypeOK, NEW c \in Clients, NEW m \in Methods, NewRequest(c, m)
  PROVE  /\ next' \in [Clients -> Nat]
         /\ \A d \in Clients : next[d] <= next'[d]
         /\ queue' \in [Handlers -> Seq(Requests)]
         /\ \E H \in SUBSET Handlers, r \in [Handlers -> Requests] :
              Enqueues(c, m, H, r)
<1> USE DEF Tasks, RpcMethods, Handlers, Answering, Handled
<1>1. CASE m \in {"queryDatabase", "getScene"} /\ One(c, m, "CPU")
  BY <1>1, OneEnqueues
<1>2. CASE m = "requestFrame" /\ One(c, m, "GPU")
  BY <1>2, OneEnqueues
<1>3. CASE m = "openProject"  /\ Two(c, m, "CPU", "loadData", "GPU", "initGL")
  BY <1>3, TwoEnqueues
<1>4. CASE m = "closeProject" /\ Two(c, m, "GPU", "unloadGL", "CPU", "delData")
  BY <1>4, TwoEnqueues
<1> QED
  BY <1>1, <1>2, <1>3, <1>4 DEF NewRequest

\* The entries of a queue after enqueue and after an erasure.
LEMMA EnqueueKeepsAnswers ==
  ASSUME NEW q \in Seq(Requests), NEW r \in Requests, CanAnswer(r),
         \A i \in DOMAIN q : CanAnswer(q[i])
  PROVE  \A i \in DOMAIN Enqueue(q, r) : CanAnswer(Enqueue(q, r)[i])
<1> DEFINE e == Enqueue(q, r)
<1>0. Len(q) \in Nat
  OBVIOUS
<1>1. /\ e \in Seq(Requests) /\ Len(e) = Len(q) + 1
      /\ e[Len(q) + 1] = r
      /\ \A i \in 1 .. Len(q) : e[i] # q[i] => e[i] = r
  BY EnqueueProperties, Zenon
<1> HIDE DEF e
<1>2. DOMAIN e = 1 .. Len(q) + 1 /\ DOMAIN q = 1 .. Len(q)
  BY <1>0, <1>1
<1>3. \A i \in DOMAIN e : i = Len(q) + 1 \/ i \in DOMAIN q
  BY <1>0, <1>2
<1>4. \A i \in DOMAIN e : CanAnswer(e[i])
  BY <1>1, <1>2, <1>3
<1> QED
  BY <1>4 DEF e

LEMMA RemoveAtKeeps ==
  ASSUME NEW q \in Seq(Requests), NEW i \in DOMAIN q, NEW j \in DOMAIN RemoveAt(q, i)
  PROVE  \E k \in DOMAIN q \ {i} : RemoveAt(q, i)[j] = q[k]
<1>1. i \in 1 .. Len(q) /\ DOMAIN q = 1 .. Len(q) /\ Len(q) \in Nat
  OBVIOUS
<1>2. j \in 1 .. Len(q) - 1
  BY <1>1, RemoveAtProperties
<1>3. RemoveAt(q, i)[j] = IF j < i THEN q[j] ELSE q[j + 1]
  BY <1>1, <1>2, RemoveAtProperties
<1>4. CASE j < i
  BY <1>1, <1>2, <1>3, <1>4
<1>5. CASE ~ (j < i)
  <2>1. j + 1 \in DOMAIN q \ {i}
    BY <1>1, <1>2, <1>5
  <2> QED
    BY <1>3, <1>5, <2>1
<1> QED
  BY <1>4, <1>5

\* The steps of the server that the invariants below allow: newRequest for any
\* client, also one that MaySend would stop, and threads that take any request
\* that is ready, the first of the queue or a later one.  Every step of Next is
\* one, and so are those of the modules that look closer at the scan of the
\* queue or at the connections.
TakesReady(h) ==
  /\ pc[h] = "idle"
  /\ \E i \in DOMAIN queue[h] :
       /\ IsReady(queue[h][i])
       /\ hand' = [hand EXCEPT ![h] = queue[h][i]]
       /\ queue' = [queue EXCEPT ![h] = RemoveAt(@, i)]
  /\ pc' = [pc EXCEPT ![h] = "run"]
  /\ UNCHANGED <<known, next, curr, slot, replyList, replyNext, events, sent>>

ServerStep ==
  \/ \E h \in Handlers : \/ TakesReady(h)
                         \/ Execute(h)
                         \/ Post(h)
                         \/ IncrementCurrCounter(h)
                         \/ UnknownMethod(h)
  \/ OnResolve
  \/ UNCHANGED vars

DispatchStep ==
  \/ \E c \in Clients, m \in Methods : NewRequest(c, m)
  \/ ServerStep

LEMMA NextIsDispatchStep == [Next]_vars => DispatchStep
<1>1. \A h \in Handlers : Dequeue(h) => TakesReady(h)
  BY DEF Dequeue, TakesReady
<1> QED
  BY <1>1 DEF Next, Submit, ProcessNextRequest, DispatchStep, ServerStep

LEMMA SubmitTyped ==
  ASSUME TypeOK, ReplyInv, NEW c \in Clients, NEW m \in Methods, NewRequest(c, m)
  PROVE  TypeOK' /\ ReplyInv'
<1>1. /\ next' \in [Clients -> Nat]
      /\ queue' \in [Handlers -> Seq(Requests)]
  BY NewRequestEnqueues
<1>2. PICK H \in SUBSET Handlers, r \in [Handlers -> Requests] : Enqueues(c, m, H, r)
  BY NewRequestEnqueues
<1>3. /\ known' = known \cup {c}
      /\ UNCHANGED <<curr, pc, hand, slot, replyList, replyNext, events, sent>>
  BY DEF NewRequest
<1>4. TypeOK'
  BY <1>1, <1>3 DEF TypeOK
<1>5. ASSUME NEW h \in Handlers
      PROVE  \A i \in DOMAIN queue'[h] : CanAnswer(queue'[h][i])
  <2>1. CASE h \in H
    <3>1. queue'[h] = Enqueue(queue[h], r[h]) /\ CanAnswer(r[h])
      BY <1>2, <2>1 DEF Enqueues
    <3>2. queue[h] \in Seq(Requests) /\ \A i \in DOMAIN queue[h] : CanAnswer(queue[h][i])
      BY DEF TypeOK, ReplyInv
    <3> QED
      BY <3>1, <3>2, EnqueueKeepsAnswers
  <2>2. CASE h \notin H
    BY <1>2, <2>2 DEF Enqueues, ReplyInv
  <2> QED
    BY <2>1, <2>2
<1>6. ReplyInv'
  BY <1>3, <1>5 DEF ReplyInv, PostedIsRegistered, Busy, CanAnswer
<1> QED
  BY <1>4, <1>6

LEMMA TakeTyped ==
  ASSUME TypeOK, ReplyInv, NEW h \in Handlers, TakesReady(h)
  PROVE  TypeOK' /\ ReplyInv'
<1>1. PICK i \in DOMAIN queue[h] :
        /\ hand' = [hand EXCEPT ![h] = queue[h][i]]
        /\ queue' = [queue EXCEPT ![h] = RemoveAt(queue[h], i)]
  BY DEF TakesReady
<1>2. /\ pc[h] = "idle"
      /\ pc' = [pc EXCEPT ![h] = "run"]
      /\ UNCHANGED <<known, next, curr, slot, replyList, replyNext, events, sent>>
  BY DEF TakesReady
<1>3. queue[h] \in Seq(Requests) /\ queue[h][i] \in Requests
  BY DEF TypeOK
<1>4. RemoveAt(queue[h], i) \in Seq(Requests)
  BY <1>3, RemoveAtProperties
<1>5. TypeOK'
  BY <1>1, <1>2, <1>3, <1>4 DEF TypeOK
<1>6. \A g \in Handlers : \A j \in DOMAIN queue'[g] : CanAnswer(queue'[g][j])
  BY <1>1, <1>3, RemoveAtKeeps DEF TypeOK, ReplyInv
<1>7. \A g \in Handlers : Busy(g)' => CanAnswer(hand'[g])
  BY <1>1, <1>2 DEF TypeOK, ReplyInv, Busy
<1>8. PostedIsRegistered'
  BY <1>2 DEF TypeOK, ReplyInv, PostedIsRegistered
<1> QED
  BY <1>2, <1>5, <1>6, <1>7, <1>8 DEF ReplyInv, CanAnswer

LEMMA ExecuteTyped ==
  ASSUME TypeOK, ReplyInv, NEW h \in Handlers, Execute(h)
  PROVE  TypeOK' /\ ReplyInv'
<1>1. /\ pc[h] = "run"
      /\ UNCHANGED <<known, next, curr, queue, hand, events, sent>>
      /\ hand[h] \in Requests
  BY DEF Execute, TypeOK
<1>2. CASE /\ hand[h].method \in Answering
           /\ AddReply(h)
           /\ pc' = [pc EXCEPT ![h] = "post"]
  <2>1. /\ DOMAIN replyList' = DOMAIN replyList \cup {replyNext}
        /\ replyList'[replyNext] = hand[h]
        /\ \A id \in DOMAIN replyList \ {replyNext} : replyList'[id] = replyList[id]
        /\ replyNext' = replyNext + 1
        /\ slot' = [slot EXCEPT ![h] = replyNext]
    BY <1>2 DEF AddReply
  <2>2. replyList' \in [DOMAIN replyList' -> Requests]
    BY <1>1, <1>2 DEF AddReply, TypeOK
  <2>3. TypeOK'
    <3>1. /\ slot' \in [Handlers -> Nat]
          /\ replyNext' \in Nat
          /\ DOMAIN replyList' \subseteq Nat
      BY <2>1 DEF TypeOK
    <3>2. /\ pc' \in [Handlers -> {"idle", "run", "post", "count"}]
          /\ \A g \in Handlers : pc'[g] # "idle" => pc[g] # "idle"
      BY <1>1, <1>2 DEF TypeOK
    <3> QED
      BY <1>1, <2>2, <3>1, <3>2 DEF TypeOK
  <2>4. hand[h].resolve # NoReply
    BY <1>1, <1>2 DEF ReplyInv, CanAnswer, Busy
  <2>5. \A id \in DOMAIN replyList : id \in Nat /\ id < replyNext
    BY DEF TypeOK, ReplyInv
  <2>6. \A id \in DOMAIN replyList' : id < replyNext' /\ replyList'[id].resolve # NoReply
    BY <2>1, <2>4, <2>5 DEF TypeOK, ReplyInv
  <2>7. replyNext \in Nat /\ replyNext \notin DOMAIN replyList
    BY <2>5 DEF TypeOK
  <2>8. PostedIsRegistered'
    <3>1. \A i \in DOMAIN events : events[i] \in DOMAIN replyList
      BY DEF ReplyInv, PostedIsRegistered
    <3>2. \A g \in Handlers : pc[g] = "post" => slot[g] \in DOMAIN replyList
      BY DEF ReplyInv, PostedIsRegistered
    <3>3. \A g \in Handlers : pc'[g] = "post" =>
            slot'[g] = IF g = h THEN replyNext ELSE slot[g]
      BY <2>1 DEF TypeOK
    <3>4. \A g \in Handlers : g # h => pc'[g] = pc[g]
      BY <1>2 DEF TypeOK
    <3> QED
      BY <1>1, <2>1, <2>7, <3>1, <3>2, <3>3, <3>4 DEF ReplyInv, PostedIsRegistered
  <2>9. \A g \in Handlers : Busy(g)' => CanAnswer(hand'[g])
    BY <1>1, <1>2 DEF TypeOK, ReplyInv, Busy
  <2> QED
    BY <1>1, <2>3, <2>6, <2>8, <2>9 DEF ReplyInv, CanAnswer
<1>3. CASE /\ hand[h].method \notin Answering
           /\ pc' = [pc EXCEPT ![h] = "count"]
           /\ UNCHANGED <<slot, replyList, replyNext>>
  BY <1>1, <1>3 DEF TypeOK, ReplyInv, PostedIsRegistered, Busy, CanAnswer
<1> QED
  BY <1>2, <1>3 DEF Execute

LEMMA PostTyped ==
  ASSUME TypeOK, ReplyInv, NEW h \in Handlers, Post(h)
  PROVE  TypeOK' /\ ReplyInv'
<1>1. /\ pc[h] = "post"
      /\ events' = Append(events, slot[h])
      /\ slot' = [slot EXCEPT ![h] = 0]
      /\ pc' = [pc EXCEPT ![h] = "count"]
      /\ UNCHANGED <<known, next, curr, queue, hand, replyList, replyNext, sent>>
  BY DEF Post
<1>2. TypeOK'
  <2>1. events' \in Seq(Nat)
    BY <1>1, AppendProperties DEF TypeOK
  <2>2. /\ slot' \in [Handlers -> Nat]
        /\ pc' \in [Handlers -> {"idle", "run", "post", "count"}]
        /\ \A g \in Handlers : pc'[g] # "idle" => pc[g] # "idle"
    BY <1>1 DEF TypeOK
  <2> QED
    BY <1>1, <2>1, <2>2 DEF TypeOK
<1>3. PostedIsRegistered'
  <2>1. /\ events \in Seq(Nat) /\ slot[h] \in Nat
        /\ DOMAIN events' = 1 .. Len(events) + 1
        /\ DOMAIN events = 1 .. Len(events)
        /\ events'[Len(events) + 1] = slot[h]
        /\ \A i \in DOMAIN events : events'[i] = events[i]
    BY <1>1 DEF TypeOK
  <2>2. \A i \in DOMAIN events' : i = Len(events) + 1 \/ i \in DOMAIN events
    BY <2>1
  <2>3. slot[h] \in DOMAIN replyList /\ replyList[slot[h]].resolve # NoReply
    BY <1>1 DEF ReplyInv, PostedIsRegistered
  <2>4. \A g \in Handlers : pc'[g] = "post" => g # h /\ pc[g] = "post" /\ slot'[g] = slot[g]
    BY <1>1 DEF TypeOK
  <2>5. \A i \in DOMAIN events :
           /\ events[i] # slot[h]
           /\ events[i] \in DOMAIN replyList
           /\ replyList[events[i]].resolve # NoReply
           /\ \A j \in DOMAIN events : events[i] = events[j] => i = j
    BY <1>1 DEF ReplyInv, PostedIsRegistered
  <2>6. \A g \in Handlers : pc[g] = "post" =>
          /\ slot[g] \in DOMAIN replyList
          /\ \A i \in DOMAIN events : events[i] # slot[g]
          /\ \A k \in Handlers : pc[k] = "post" /\ slot[k] = slot[g] => g = k
    BY DEF ReplyInv, PostedIsRegistered
  <2>7. \A i \in DOMAIN events' :
          /\ events'[i] \in DOMAIN replyList
          /\ replyList[events'[i]].resolve # NoReply
          /\ \A j \in DOMAIN events' : events'[i] = events'[j] => i = j
    BY <2>1, <2>2, <2>3, <2>5
  <2>8. \A g \in Handlers : pc'[g] = "post" =>
          /\ slot'[g] \in DOMAIN replyList
          /\ slot'[g] \notin {events'[i] : i \in DOMAIN events'}
          /\ \A k \in Handlers : pc'[k] = "post" /\ slot'[k] = slot'[g] => g = k
    BY <1>1, <2>1, <2>2, <2>4, <2>6
  <2> QED
    BY <1>1, <2>7, <2>8 DEF PostedIsRegistered
<1> QED
  BY <1>1, <1>2, <1>3 DEF TypeOK, ReplyInv, Busy, CanAnswer

LEMMA IncrementTyped ==
  ASSUME TypeOK, ReplyInv, NEW h \in Handlers,
         IncrementCurrCounter(h) \/ UnknownMethod(h)
  PROVE  TypeOK' /\ ReplyInv'
<1>1. /\ pc[h] # "idle" /\ pc[h] # "post"
      /\ hand' = [hand EXCEPT ![h] = NoRequest]
      /\ pc' = [pc EXCEPT ![h] = "idle"]
      /\ UNCHANGED <<known, next, queue, slot, replyList, replyNext, events, sent>>
  BY DEF IncrementCurrCounter, UnknownMethod
<1>2. hand[h] \in Requests /\ hand[h].client \in Clients
  BY <1>1 DEF TypeOK, Requests
<1>3. curr' \in [Clients -> Nat]
  <2>1. CASE IncrementCurrCounter(h)
    <3>1. curr[hand[h].client] + 1 \in Nat
      BY <1>2 DEF TypeOK
    <3> QED
      BY <2>1, <3>1 DEF TypeOK, IncrementCurrCounter
  <2>2. CASE UnknownMethod(h)
    BY <2>2 DEF TypeOK, UnknownMethod
  <2> QED
    BY <2>1, <2>2
<1>4. TypeOK'
  BY <1>1, <1>3 DEF TypeOK
<1>5. PostedIsRegistered'
  BY <1>1 DEF TypeOK, ReplyInv, PostedIsRegistered
<1> QED
  BY <1>1, <1>4, <1>5 DEF TypeOK, ReplyInv, Busy, CanAnswer

LEMMA OnResolveTyped ==
  ASSUME TypeOK, ReplyInv, OnResolve
  PROVE  TypeOK' /\ ReplyInv'
<1> DEFINE id == Head(events)
<1>1. /\ events # <<>>
      /\ replyList' = [i \in DOMAIN replyList \ {id} |-> replyList[i]]
      /\ sent' = [sent EXCEPT ![replyList[id].client] =
           Append(@, [exp |-> replyList[id].exp, resolve |-> replyList[id].resolve])]
      /\ events' = Tail(events)
      /\ UNCHANGED <<known, next, curr, queue, pc, hand, slot, replyNext>>
  BY DEF OnResolve
<1>2. /\ events \in Seq(Nat) /\ Len(events) \in Nat \ {0}
      /\ events' \in Seq(Nat) /\ Len(events') = Len(events) - 1
      /\ DOMAIN events = 1 .. Len(events) /\ DOMAIN events' = 1 .. Len(events) - 1
      /\ id = events[1]
      /\ \A i \in DOMAIN events' : events'[i] = events[i + 1] /\ i + 1 \in DOMAIN events
  BY <1>1 DEF TypeOK
<1> HIDE DEF id
<1>3. id \in DOMAIN replyList /\ replyList[id] \in Requests
  BY <1>2 DEF ReplyInv, PostedIsRegistered, TypeOK
<1>4. sent' \in [Clients -> Seq([exp : Nat, resolve : RpcMethods \cup {NoReply}])]
  <2> DEFINE c == replyList[id].client
             reply == [exp |-> replyList[id].exp, resolve |-> replyList[id].resolve]
             R == [exp : Nat, resolve : RpcMethods \cup {NoReply}]
  <2>1. c \in Clients /\ reply \in R
    BY <1>3 DEF Requests
  <2>2. sent \in [Clients -> Seq(R)]
    BY DEF TypeOK
  <2>3. sent' = [sent EXCEPT ![c] = Append(sent[c], reply)]
    BY <1>1
  <2> HIDE DEF c, reply, R
  <2>4. Append(sent[c], reply) \in Seq(R)
    BY <2>1, <2>2, AppendProperties
  <2>5. sent' \in [Clients -> Seq(R)]
    BY <2>1, <2>2, <2>3, <2>4
  <2> QED
    BY <2>5 DEF R
<1>5. /\ DOMAIN replyList' = DOMAIN replyList \ {id}
      /\ \A i \in DOMAIN replyList' : replyList'[i] = replyList[i]
      /\ replyList' \in [DOMAIN replyList' -> Requests]
  BY <1>1 DEF TypeOK
<1>6. TypeOK'
  BY <1>1, <1>2, <1>4, <1>5 DEF TypeOK
<1>7. \A i \in DOMAIN events' :
        /\ events'[i] \in DOMAIN replyList'
        /\ replyList'[events'[i]].resolve # NoReply
        /\ \A j \in DOMAIN events' : events'[i] = events'[j] => i = j
  <2>1. \A i, j \in DOMAIN events :
          /\ events[i] \in DOMAIN replyList
          /\ replyList[events[i]].resolve # NoReply
          /\ events[i] = events[j] => i = j
    BY DEF ReplyInv, PostedIsRegistered
  <2>2. \A i \in DOMAIN events' : i + 1 # 1 /\ 1 \in DOMAIN events
    BY <1>2
  <2>3. \A i, j \in DOMAIN events' : i + 1 = j + 1 => i = j
    BY <1>2
  <2>4. ASSUME NEW i \in DOMAIN events'
        PROVE  /\ events'[i] = events[i + 1]
               /\ i + 1 \in DOMAIN events
               /\ events'[i] # id
    <3>1. events'[i] = events[i + 1] /\ i + 1 \in DOMAIN events
      BY <1>2
    <3>2. 1 \in DOMAIN events /\ i + 1 # 1
      BY <2>2
    <3>3. events[i + 1] # events[1]
      BY <2>1, <3>1, <3>2
    <3> QED
      BY <1>2, <3>1, <3>3
  <2> QED
    BY <1>5, <2>1, <2>3, <2>4
<1>8. \A g \in Handlers : pc'[g] = "post" =>
        /\ slot'[g] \in DOMAIN replyList'
        /\ slot'[g] \notin {events'[i] : i \in DOMAIN events'}
        /\ \A k \in Handlers : pc'[k] = "post" /\ slot'[k] = slot'[g] => g = k
  <2>1. 1 \in DOMAIN events
    BY <1>2
  <2> QED
    BY <1>1, <1>2, <1>5, <2>1 DEF ReplyInv, PostedIsRegistered
<1>9. PostedIsRegistered'
  BY <1>7, <1>8 DEF PostedIsRegistered
<1> QED
  BY <1>1, <1>5, <1>6, <1>9 DEF TypeOK, ReplyInv, Busy, CanAnswer

LEMMA InitTyped == Init => TypeOK /\ ReplyInv
<1> SUFFICES ASSUME Init PROVE TypeOK /\ ReplyInv
  OBVIOUS
<1>1. TypeOK
  BY DEF Init, TypeOK
<1>2. ReplyInv
  BY DEF Init, ReplyInv, PostedIsRegistered, Busy
<1> QED
  BY <1>1, <1>2

LEMMA StepTyped == TypeOK /\ ReplyInv /\ DispatchStep => TypeOK' /\ ReplyInv'
<1> SUFFICES ASSUME TypeOK, ReplyInv, DispatchStep
             PROVE  TypeOK' /\ ReplyInv'
  OBVIOUS
<1>1. CASE UNCHANGED vars
  BY <1>1 DEF vars, TypeOK, ReplyInv, PostedIsRegistered, Busy, CanAnswer
<1>2. CASE \E c \in Clients, m \in Methods : NewRequest(c, m)
  BY <1>2, SubmitTyped
<1>3. ASSUME NEW h \in Handlers,
             \/ TakesReady(h) \/ Execute(h) \/ Post(h)
             \/ IncrementCurrCounter(h) \/ UnknownMethod(h)
      PROVE  TypeOK' /\ ReplyInv'
  BY <1>3, TakeTyped, ExecuteTyped, PostTyped, IncrementTyped
<1>4. CASE OnResolve
  BY <1>4, OnResolveTyped
<1> QED
  BY <1>1, <1>2, <1>3, <1>4 DEF DispatchStep, ServerStep

LEMMA NextTyped == TypeOK /\ ReplyInv /\ [Next]_vars => TypeOK' /\ ReplyInv'
  BY NextIsDispatchStep, StepTyped

\* Every variable keeps its type; for the types of the reply list and of what
\* was sent it takes that every posted id is registered.
THEOREM TypeCorrect == Spec => []TypeOK
<1>1. Init => TypeOK /\ ReplyInv
  BY InitTyped
<1>2. (TypeOK /\ ReplyInv) /\ [Next]_vars => (TypeOK /\ ReplyInv)'
  BY NextTyped
<1> QED
  BY <1>1, <1>2, PTL DEF Spec

\* onResolve never meets an id that is not in the resolve list, never one
\* twice, and never an empty reply function.
THEOREM PostedRegistered == Spec => []PostedIsRegistered
<1>1. Init => TypeOK /\ ReplyInv
  BY InitTyped
<1>2. (TypeOK /\ ReplyInv) /\ [Next]_vars => (TypeOK /\ ReplyInv)'
  BY NextTyped
<1>3. ReplyInv => PostedIsRegistered
  BY DEF ReplyInv
<1> QED
  BY <1>1, <1>2, <1>3, PTL DEF Spec

-----------------------------------------------------------------------------
(***************************************************************************)
(* The tickets: no client is served by two threads at a time, no request   *)
(* is executed twice, a client whose turn was lost is never served again,  *)
(* and a patient one keeps its turn.                                       *)
(***************************************************************************)
\* The position in q of the j-th element of RemoveAt(q, i).
Beyond(i, j) == IF j < i THEN j ELSE j + 1

LEMMA RemoveAtSkips ==
  ASSUME NEW q \in Seq(Requests), NEW i \in DOMAIN q
  PROVE  \A j \in DOMAIN RemoveAt(q, i) :
           /\ Beyond(i, j) \in DOMAIN q \ {i}
           /\ RemoveAt(q, i)[j] = q[Beyond(i, j)]
           /\ \A k \in DOMAIN RemoveAt(q, i) : Beyond(i, j) = Beyond(i, k) => j = k
<1>1. Len(q) \in Nat /\ DOMAIN q = 1 .. Len(q) /\ i \in 1 .. Len(q)
  OBVIOUS
<1>2. DOMAIN RemoveAt(q, i) = 1 .. Len(q) - 1
  BY <1>1, RemoveAtProperties
<1>3. \A j \in 1 .. Len(q) - 1 : RemoveAt(q, i)[j] = IF j < i THEN q[j] ELSE q[j + 1]
  BY <1>1, RemoveAtProperties
<1>4. \A j \in 1 .. Len(q) - 1 : Beyond(i, j) \in (1 .. Len(q)) \ {i}
  BY <1>1 DEF Beyond
<1>5. \A j, k \in 1 .. Len(q) - 1 : Beyond(i, j) = Beyond(i, k) => j = k
  BY <1>1 DEF Beyond
<1>6. \A j \in 1 .. Len(q) - 1 : RemoveAt(q, i)[j] = q[Beyond(i, j)]
  BY <1>3 DEF Beyond
<1> QED
  BY <1>1, <1>2, <1>4, <1>5, <1>6

\* What enqueue does to one queue: every entry is the old one or the new
\* request; of two that are the new request, one overwrote an entry of the
\* same client and every other entry was kept.
LEMMA EnqueueEntries ==
  ASSUME NEW q \in Seq(Requests), NEW r \in Requests
  PROVE  /\ \A i \in DOMAIN Enqueue(q, r) :
              \/ i \in DOMAIN q /\ Enqueue(q, r)[i] = q[i]
              \/ Enqueue(q, r)[i] = r
         /\ \A i, j \in DOMAIN Enqueue(q, r) :
              /\ i # j
              /\ Enqueue(q, r)[i] = r /\ (i \in DOMAIN q => q[i] # r)
              /\ Enqueue(q, r)[j] = r /\ (j \in DOMAIN q => q[j] # r)
              => \E k \in DOMAIN q \cap {i, j} :
                   /\ q[k].client = r.client
                   /\ \A l \in DOMAIN Enqueue(q, r) \ {i, j} :
                        l \in DOMAIN q /\ Enqueue(q, r)[l] = q[l]
<1> DEFINE e == Enqueue(q, r)
<1>0. Len(q) \in Nat /\ DOMAIN q = 1 .. Len(q)
  OBVIOUS
<1>1. /\ e \in Seq(Requests)
      /\ Len(e) = Len(q) + 1
      /\ e[Len(q) + 1] = r
      /\ \A i \in 1 .. Len(q) : e[i] # q[i] => e[i] = r /\ Overrides(r, q[i])
      /\ \A i, j \in 1 .. Len(q) : e[i] # q[i] /\ e[j] # q[j] => i = j
  BY EnqueueProperties, Zenon
<1> HIDE DEF e
<1>2. /\ DOMAIN e = 1 .. Len(q) + 1
      /\ \A i \in DOMAIN e : i = Len(q) + 1 \/ i \in DOMAIN q
      /\ Len(q) + 1 \notin DOMAIN q
  BY <1>0, <1>1
<1>3. \A i \in DOMAIN e : (i \in DOMAIN q /\ e[i] = q[i]) \/ e[i] = r
  BY <1>0, <1>1, <1>2
<1>4. ASSUME NEW i \in DOMAIN e, NEW j \in DOMAIN e, i # j,
             e[i] = r, i \in DOMAIN q => q[i] # r,
             e[j] = r, j \in DOMAIN q => q[j] # r
      PROVE  \E k \in DOMAIN q \cap {i, j} :
               /\ q[k].client = r.client
               /\ \A l \in DOMAIN e \ {i, j} : l \in DOMAIN q /\ e[l] = q[l]
  <2>1. PICK k \in DOMAIN q \cap {i, j} : {i, j} = {k, Len(q) + 1}
    <3>1. ~ (i \in DOMAIN q /\ j \in DOMAIN q)
      BY <1>0, <1>1, <1>4
    <3> QED
      BY <1>2, <1>4, <3>1
  <2>2. e[k] # q[k]
    BY <1>4, <2>1
  <2>3. q[k].client = r.client
    BY <1>0, <1>1, <2>1, <2>2 DEF Overrides
  <2>4. \A l \in DOMAIN e \ {i, j} : l \in DOMAIN q /\ e[l] = q[l]
    BY <1>0, <1>1, <1>2, <2>1, <2>2
  <2> QED
    BY <2>3, <2>4
<1> QED
  BY <1>3, <1>4 DEF e

-----------------------------------------------------------------------------
(***************************************************************************)
(* newRequest.                                                             *)
(***************************************************************************)

\* An entry of a queue after newRequest, seen from before.
LEMMA SubmitEntries ==
  ASSUME TypeOK, NEW c \in Clients, NEW m \in Methods,
         NEW H \in SUBSET Handlers, NEW r \in [Handlers -> Requests],
         Enqueues(c, m, H, r)
  PROVE  \A h \in Handlers : \A i \in DOMAIN queue'[h] :
           \/ i \in DOMAIN queue[h] /\ queue'[h][i] = queue[h][i]
           \/ h \in H /\ queue'[h][i] = r[h] /\ Fresh(c, r[h])
<1> SUFFICES ASSUME NEW h \in Handlers, NEW i \in DOMAIN queue'[h]
             PROVE  \/ i \in DOMAIN queue[h] /\ queue'[h][i] = queue[h][i]
                    \/ h \in H /\ queue'[h][i] = r[h] /\ Fresh(c, r[h])
  OBVIOUS
<1>1. CASE h \in H
  <2>1. queue'[h] = Enqueue(queue[h], r[h]) /\ Fresh(c, r[h])
    BY <1>1 DEF Enqueues
  <2>2. queue[h] \in Seq(Requests) /\ r[h] \in Requests
    BY DEF TypeOK
  <2> QED
    BY <1>1, <2>1, <2>2, EnqueueEntries
<1>2. CASE h \notin H
  BY <1>2 DEF Enqueues
<1> QED
  BY <1>1, <1>2

\* No ticket handed out earlier comes back: newRequest can only lose it.
LEMMA SubmitHeld ==
  ASSUME TypeOK, NEW c \in Clients, NEW m \in Methods, UNCHANGED <<pc, hand>>,
         NEW H \in SUBSET Handlers, NEW r \in [Handlers -> Requests],
         Enqueues(c, m, H, r),
         NEW d \in Clients, NEW t \in Nat, t < next[d], Held(d, t)'
  PROVE  Held(d, t)
<1>1. PICK h \in Handlers :
        \/ \E i \in DOMAIN queue'[h] : queue'[h][i].client = d /\ queue'[h][i].exp = t
        \/ Busy(h) /\ hand[h].client = d /\ hand[h].exp = t
  BY DEF Held, Busy
<1>2. CASE Busy(h) /\ hand[h].client = d /\ hand[h].exp = t
  BY <1>2 DEF Held
<1>3. ASSUME NEW i \in DOMAIN queue'[h],
             queue'[h][i].client = d, queue'[h][i].exp = t
      PROVE  Held(d, t)
  <2>1. CASE i \in DOMAIN queue[h] /\ queue'[h][i] = queue[h][i]
    BY <1>3, <2>1 DEF Held
  <2>2. CASE queue'[h][i] = r[h] /\ Fresh(c, r[h])
    <3>1. next[d] <= t /\ next[d] \in Nat
      BY <1>3, <2>2 DEF Fresh, TypeOK
    <3> QED
      BY <3>1
  <2> QED
    BY <2>1, <2>2, SubmitEntries
<1> QED
  BY <1>1, <1>2, <1>3

LEMMA SubmitTickets ==
  ASSUME TypeOK, TicketInv, NEW c \in Clients, NEW m \in Methods, NewRequest(c, m)
  PROVE  TicketInv'
<1>1. /\ next' \in [Clients -> Nat]
      /\ \A d \in Clients : next[d] <= next'[d]
  BY NewRequestEnqueues
<1>2. PICK H \in SUBSET Handlers, r \in [Handlers -> Requests] : Enqueues(c, m, H, r)
  BY NewRequestEnqueues
<1>3. UNCHANGED <<curr, pc, hand>>
  BY DEF NewRequest
<1>4. \A h \in Handlers : \A i \in DOMAIN queue'[h] :
        \/ i \in DOMAIN queue[h] /\ queue'[h][i] = queue[h][i]
        \/ h \in H /\ queue'[h][i] = r[h] /\ Fresh(c, r[h])
  BY <1>2, SubmitEntries
<1>5. \A d \in Clients : curr[d] \in Nat /\ next[d] \in Nat /\ curr[d] <= next[d]
  BY DEF TypeOK, TicketInv, CountersOrdered
<1>6. \A h \in Handlers : Busy(h) => hand[h] \in Requests /\ hand[h].client \in Clients
                                     /\ hand[h].exp \in Nat
  BY DEF TypeOK, Busy, Requests
<1>7. \A h \in Handlers : \A i \in DOMAIN queue[h] :
        queue[h][i] \in Requests /\ queue[h][i].client \in Clients
        /\ queue[h][i].exp \in Nat /\ queue[h][i].exp < next[queue[h][i].client]
  <2>1. \A h \in Handlers : \A i \in DOMAIN queue[h] : queue[h][i] \in Requests
    BY DEF TypeOK
  <2>2. WaitingHandedOut
    BY DEF TicketInv
  <2> QED
    BY <2>1, <2>2 DEF Requests, WaitingHandedOut
<1>8. OneHandlerPerClient'
  BY <1>3 DEF TicketInv, OneHandlerPerClient, Busy
<1>9. CountersOrdered'
  BY <1>1, <1>3, <1>5 DEF CountersOrdered
<1>10. TurnInHand'
  <2> SUFFICES ASSUME NEW h \in Handlers, Busy(h)
               PROVE  /\ hand[h].exp = curr[hand[h].client]
                      /\ hand[h].exp < next'[hand[h].client]
    BY <1>3 DEF TurnInHand, Busy
  <2>1. hand[h].exp = curr[hand[h].client] /\ hand[h].exp < next[hand[h].client]
    BY DEF TicketInv, TurnInHand
  <2> QED
    BY <1>1, <1>5, <1>6, <2>1
<1>11. \A h \in H : r[h].client = c /\ r[h].exp \in Nat
                    /\ next[c] <= r[h].exp /\ r[h].exp < next'[c]
  BY <1>2 DEF Enqueues, Fresh, Requests
<1>12. WaitingHandedOut'
  <2> SUFFICES ASSUME NEW h \in Handlers, NEW i \in DOMAIN queue'[h]
               PROVE  queue'[h][i].exp < next'[queue'[h][i].client]
    BY DEF WaitingHandedOut
  <2>1. CASE i \in DOMAIN queue[h] /\ queue'[h][i] = queue[h][i]
    <3>1. queue[h][i].exp < next[queue[h][i].client]
      BY <1>7, <2>1
    <3> QED
      BY <1>1, <1>5, <1>7, <2>1, <3>1
  <2>2. CASE h \in H /\ queue'[h][i] = r[h]
    BY <1>11, <2>2
  <2> QED
    BY <1>4, <2>1, <2>2
<1>13. ServedOnce'
  <2> SUFFICES ASSUME NEW h \in Handlers, NEW i \in DOMAIN queue'[h]
               PROVE  /\ curr[queue'[h][i].client] <= queue'[h][i].exp
                      /\ \A g \in Handlers :
                           Busy(g) /\ hand[g].client = queue'[h][i].client
                             => hand[g].exp < queue'[h][i].exp
    BY <1>3 DEF ServedOnce, Busy
  <2>1. CASE i \in DOMAIN queue[h] /\ queue'[h][i] = queue[h][i]
    BY <2>1 DEF TicketInv, ServedOnce
  <2>2. CASE h \in H /\ queue'[h][i] = r[h]
    <3>1. curr[c] <= r[h].exp
      BY <1>5, <1>11, <2>2
    <3>2. ASSUME NEW g \in Handlers, Busy(g), hand[g].client = c
          PROVE  hand[g].exp < r[h].exp
      <4>1. hand[g].exp < next[c] /\ hand[g].exp \in Nat
        BY <1>6, <3>2 DEF TicketInv, TurnInHand
      <4> QED
        BY <1>5, <1>11, <2>2, <4>1
    <3> QED
      BY <1>11, <2>2, <3>1, <3>2
  <2> QED
    BY <1>4, <2>1, <2>2
<1>14. QueuesDisjoint'
  <2> SUFFICES ASSUME NEW g \in Handlers, NEW h \in Handlers, g # h,
                      NEW i \in DOMAIN queue'[g], NEW j \in DOMAIN queue'[h],
                      queue'[g][i].client = queue'[h][j].client,
                      queue'[g][i].exp = queue'[h][j].exp
               PROVE  FALSE
    BY DEF QueuesDisjoint
  <2> DEFINE oldg == i \in DOMAIN queue[g] /\ queue'[g][i] = queue[g][i]
             oldh == j \in DOMAIN queue[h] /\ queue'[h][j] = queue[h][j]
             newg == g \in H /\ queue'[g][i] = r[g]
             newh == h \in H /\ queue'[h][j] = r[h]
  <2>1. CASE oldg /\ oldh
    BY <2>1 DEF TicketInv, QueuesDisjoint
  <2>2. CASE oldg /\ newh
    <3>1. queue[g][i].client = c /\ queue[g][i].exp < next[c] /\ queue[g][i].exp \in Nat
      BY <1>7, <1>11, <2>2
    <3> QED
      BY <1>5, <1>11, <2>2, <3>1
  <2>3. CASE newg /\ oldh
    <3>1. queue[h][j].client = c /\ queue[h][j].exp < next[c] /\ queue[h][j].exp \in Nat
      BY <1>7, <1>11, <2>3
    <3> QED
      BY <1>5, <1>11, <2>3, <3>1
  <2>4. CASE newg /\ newh
    BY <1>2, <2>4 DEF Enqueues
  <2> QED
    BY <1>4, <2>1, <2>2, <2>3, <2>4
<1>15. CopiesWait'
  <2> SUFFICES ASSUME NEW h \in Handlers,
                      NEW i \in DOMAIN queue'[h], NEW j \in DOMAIN queue'[h], i # j,
                      NEW d, NEW e,
                      queue'[h][i].client = d, queue'[h][i].exp = e,
                      queue'[h][j].client = d, queue'[h][j].exp = e
               PROVE  \E t \in curr[d] .. e - 1 : ~ Held(d, t)'
    BY <1>3 DEF CopiesWait
  <2> DEFINE oldi == i \in DOMAIN queue[h] /\ queue'[h][i] = queue[h][i]
             oldj == j \in DOMAIN queue[h] /\ queue'[h][j] = queue[h][j]
             newi == h \in H /\ queue'[h][i] = r[h] /\ ~ oldi
             newj == h \in H /\ queue'[h][j] = r[h] /\ ~ oldj
  <2>0. \A b \in Clients, t \in Nat : t < next[b] /\ ~ Held(b, t) => ~ Held(b, t)'
    BY <1>2, <1>3, SubmitHeld
  <2>1. CASE oldi /\ oldj
    <3>1. PICK t \in curr[d] .. e - 1 : ~ Held(d, t)
      BY <2>1 DEF TicketInv, CopiesWait
    <3>2. d \in Clients /\ e \in Nat /\ e < next[d]
      BY <1>7, <2>1
    <3>3. t \in Nat /\ t < next[d]
      BY <1>5, <3>2
    <3> QED
      BY <2>0, <3>1, <3>2, <3>3
  <2>2. CASE oldi /\ newj
    <3>1. d = c /\ e < next[d] /\ e \in Nat
      BY <1>7, <1>11, <2>2
    <3> QED
      BY <1>5, <1>11, <2>2, <3>1
  <2>3. CASE newi /\ oldj
    <3>1. d = c /\ e < next[d] /\ e \in Nat
      BY <1>7, <1>11, <2>3
    <3> QED
      BY <1>5, <1>11, <2>3, <3>1
  <2>4. CASE newi /\ newj
    <3>1. /\ queue'[h] = Enqueue(queue[h], r[h])
          /\ queue[h] \in Seq(Requests)
          /\ r[h] \in Requests /\ r[h].client = c
          /\ d = c /\ e = r[h].exp
      BY <1>2, <1>11, <2>4 DEF Enqueues, TypeOK
    <3>2. (i \in DOMAIN queue[h] => queue[h][i] # r[h])
          /\ (j \in DOMAIN queue[h] => queue[h][j] # r[h])
      BY <2>4
    <3>3. PICK k \in DOMAIN queue[h] \cap {i, j} :
            /\ queue[h][k].client = c
            /\ \A l \in DOMAIN queue'[h] \ {i, j} :
                 l \in DOMAIN queue[h] /\ queue'[h][l] = queue[h][l]
      BY <2>4, <3>1, <3>2, EnqueueEntries
    <3>4. PICK x \in Nat : x = queue[h][k].exp
      BY <1>7, <3>3
    <3>5. /\ curr[c] <= x /\ x < next[c] /\ x < e
          /\ e \in Nat /\ curr[c] \in Nat /\ next[c] \in Nat
      <4>1. x < next[c]
        BY <1>7, <3>3, <3>4
      <4>2. curr[c] <= x
        BY <3>3, <3>4 DEF TicketInv, ServedOnce
      <4> QED
        BY <1>5, <1>11, <2>4, <3>1, <3>4, <4>1, <4>2
    <3>6. CASE \E l \in DOMAIN queue[h] \ {k} :
                 queue[h][l].client = c /\ queue[h][l].exp = x
      <4>1. PICK t \in curr[c] .. x - 1 : ~ Held(c, t)
        BY <3>3, <3>4, <3>6 DEF TicketInv, CopiesWait
      <4>2. t \in Nat /\ t < next[c] /\ t \in curr[c] .. e - 1
        BY <3>4, <3>5
      <4> QED
        BY <2>0, <3>1, <4>1, <4>2
    <3>7. CASE ~ \E l \in DOMAIN queue[h] \ {k} :
                   queue[h][l].client = c /\ queue[h][l].exp = x
      <4>1. ASSUME NEW g \in Handlers, NEW l \in DOMAIN queue'[g],
                   queue'[g][l].client = c, queue'[g][l].exp = x
            PROVE  FALSE
        <5>1. ~ (queue'[g][l] = r[g] /\ Fresh(c, r[g]))
          BY <3>4, <3>5, <4>1 DEF Fresh
        <5>2. l \in DOMAIN queue[g] /\ queue'[g][l] = queue[g][l]
          BY <1>4, <5>1
        <5>3. CASE g = h
          <6>1. l \notin {i, j}
            BY <3>1, <3>4, <3>5, <2>4, <4>1, <5>3
          <6> QED
            BY <3>3, <3>7, <4>1, <5>2, <5>3, <6>1
        <5>4. CASE g # h
          BY <3>3, <3>4, <4>1, <5>2, <5>4 DEF TicketInv, QueuesDisjoint
        <5> QED
          BY <5>3, <5>4
      <4>2. ASSUME NEW g \in Handlers, Busy(g), hand[g].client = c
            PROVE  hand[g].exp # x
        <5>1. hand[g].exp < x
          BY <3>3, <3>4, <4>2 DEF TicketInv, ServedOnce
        <5> QED
          BY <1>6, <3>4, <4>2, <5>1
      <4>3. ~ Held(c, x)'
        BY <1>3, <4>1, <4>2 DEF Held, Busy
      <4>4. x \in curr[c] .. e - 1
        BY <3>4, <3>5
      <4> QED
        BY <3>1, <4>3, <4>4
    <3> QED
      BY <3>6, <3>7
  <2> QED
    BY <1>4, <2>1, <2>2, <2>3, <2>4
<1> QED
  BY <1>8, <1>9, <1>10, <1>12, <1>13, <1>14, <1>15 DEF TicketInv

-----------------------------------------------------------------------------
(***************************************************************************)
(* dequeue and the rest of processNextRequest.                             *)
(***************************************************************************)

\* What is known of the requests of a state, in one place.
LEMMA RequestFacts ==
  ASSUME TypeOK, TicketInv
  PROVE  /\ \A c \in Clients : curr[c] \in Nat /\ next[c] \in Nat
         /\ \A h \in Handlers : Busy(h) =>
              hand[h] \in Requests /\ hand[h].client \in Clients /\ hand[h].exp \in Nat
         /\ \A h \in Handlers : queue[h] \in Seq(Requests)
         /\ \A h \in Handlers : \A i \in DOMAIN queue[h] :
              /\ queue[h][i] \in Requests
              /\ queue[h][i].client \in Clients
              /\ queue[h][i].exp \in Nat
<1>1. /\ \A c \in Clients : curr[c] \in Nat /\ next[c] \in Nat
      /\ \A h \in Handlers : Busy(h) => hand[h] \in Requests
      /\ \A h \in Handlers : queue[h] \in Seq(Requests)
  BY DEF TypeOK, Busy
<1>2. \A h \in Handlers : \A i \in DOMAIN queue[h] : queue[h][i] \in Requests
  BY <1>1
<1>3. \A r \in Requests : r.client \in Clients /\ r.exp \in Nat
  BY DEF Requests
<1> QED
  BY <1>1, <1>2, <1>3

\* The request that is taken is the only one with its ticket: the client is
\* in no thread's hands, and no copy of the request is waiting.
LEMMA TakeTickets ==
  ASSUME TypeOK, TicketInv, NEW h \in Handlers, TakesReady(h)
  PROVE  /\ TicketInv'
         /\ \A d \in Clients, t \in Nat : Held(d, t)' => Held(d, t)
<1>1. PICK i \in DOMAIN queue[h] :
        /\ IsReady(queue[h][i])
        /\ hand' = [hand EXCEPT ![h] = queue[h][i]]
        /\ queue' = [queue EXCEPT ![h] = RemoveAt(queue[h], i)]
  BY DEF TakesReady
<1>2. PICK r \in Requests : r = queue[h][i]
  BY RequestFacts, <1>1
<1>3. PICK c \in Clients : c = r.client
  BY DEF Requests
<1>4. r.exp = curr[c] /\ curr[c] \in Nat
  BY <1>1, <1>2, <1>3, RequestFacts DEF IsReady
<1>5. /\ UNCHANGED <<next, curr>>
      /\ ~ Busy(h)
      /\ \A g \in Handlers : Busy(g)' <=> g = h \/ Busy(g)
      /\ hand'[h] = r
      /\ \A g \in Handlers \ {h} : hand'[g] = hand[g]
  BY <1>1, <1>2 DEF TakesReady, TypeOK, Busy
<1>6. queue[h] \in Seq(Requests)
  BY RequestFacts
<1>7. \A j \in DOMAIN queue'[h] :
        /\ Beyond(i, j) \in DOMAIN queue[h] \ {i}
        /\ queue'[h][j] = queue[h][Beyond(i, j)]
        /\ \A k \in DOMAIN queue'[h] : Beyond(i, j) = Beyond(i, k) => j = k
  <2>1. queue'[h] = RemoveAt(queue[h], i)
    BY <1>1 DEF TypeOK
  <2> QED
    BY <1>1, <1>6, <2>1, RemoveAtSkips
<1>8. \A g \in Handlers \ {h} : queue'[g] = queue[g]
  BY <1>1 DEF TypeOK
<1>9. \A g \in Handlers : \A j \in DOMAIN queue'[g] :
        \E k \in DOMAIN queue[g] : queue'[g][j] = queue[g][k] /\ (g = h => k # i)
  BY <1>7, <1>8
<1>10. \A d \in Clients, t \in Nat : Held(d, t)' => Held(d, t)
  <2> SUFFICES ASSUME NEW d \in Clients, NEW t \in Nat, Held(d, t)' PROVE Held(d, t)
    OBVIOUS
  <2>1. PICK g \in Handlers :
          \/ \E j \in DOMAIN queue'[g] : queue'[g][j].client = d /\ queue'[g][j].exp = t
          \/ Busy(g)' /\ hand'[g].client = d /\ hand'[g].exp = t
    BY DEF Held
  <2>2. CASE \E j \in DOMAIN queue'[g] : queue'[g][j].client = d /\ queue'[g][j].exp = t
    BY <1>9, <2>2 DEF Held
  <2>3. CASE Busy(g)' /\ hand'[g].client = d /\ hand'[g].exp = t
    BY <1>2, <1>5, <2>3 DEF Held
  <2> QED
    BY <2>1, <2>2, <2>3
<1>11. \A g \in Handlers : Busy(g) => hand[g].client # c
  <2> SUFFICES ASSUME NEW g \in Handlers, Busy(g), hand[g].client = c PROVE FALSE
    OBVIOUS
  <2>1. hand[g].exp = curr[c]
    BY DEF TicketInv, TurnInHand
  <2>2. hand[g].exp < r.exp
    BY <1>2, <1>3 DEF TicketInv, ServedOnce
  <2> QED
    BY <1>4, <2>1, <2>2
<1>12. \A g \in Handlers : \A k \in DOMAIN queue[g] :
         (g = h => k # i) /\ queue[g][k].client = c => curr[c] < queue[g][k].exp
  <2> SUFFICES ASSUME NEW g \in Handlers, NEW k \in DOMAIN queue[g], g = h => k # i,
                      queue[g][k].client = c
               PROVE  curr[c] < queue[g][k].exp
    OBVIOUS
  <2>1. curr[c] <= queue[g][k].exp
    BY DEF TicketInv, ServedOnce
  <2>2. ASSUME queue[g][k].exp = curr[c] PROVE FALSE
    <3>1. CASE g = h
      <4>1. \E t \in curr[c] .. r.exp - 1 : ~ Held(c, t)
        BY <1>2, <1>3, <1>4, <2>2, <3>1 DEF TicketInv, CopiesWait
      <4> QED
        BY <1>4, <4>1
    <3>2. CASE g # h
      BY <1>2, <1>3, <1>4, <2>2, <3>2 DEF TicketInv, QueuesDisjoint
    <3> QED
      BY <3>1, <3>2
  <2>3. queue[g][k].exp \in Nat
    BY RequestFacts
  <2> QED
    BY <1>4, <2>1, <2>2, <2>3
<1>13. OneHandlerPerClient'
  BY <1>3, <1>5, <1>11 DEF TicketInv, OneHandlerPerClient
<1>14. ServedOnce'
  <2> SUFFICES ASSUME NEW g \in Handlers, NEW j \in DOMAIN queue'[g]
               PROVE  /\ curr[queue'[g][j].client] <= queue'[g][j].exp
                      /\ \A f \in Handlers :
                           Busy(f)' /\ hand'[f].client = queue'[g][j].client
                             => hand'[f].exp < queue'[g][j].exp
    BY <1>5 DEF ServedOnce
  <2>1. PICK k \in DOMAIN queue[g] : queue'[g][j] = queue[g][k] /\ (g = h => k # i)
    BY <1>9
  <2>2. curr[queue[g][k].client] <= queue[g][k].exp
    BY DEF TicketInv, ServedOnce
  <2>3. ASSUME NEW f \in Handlers, Busy(f)', hand'[f].client = queue[g][k].client
        PROVE  hand'[f].exp < queue[g][k].exp
    <3>1. CASE f = h
      BY <1>3, <1>4, <1>5, <1>12, <2>1, <2>3, <3>1
    <3>2. CASE f # h
      BY <1>5, <2>3, <3>2 DEF TicketInv, ServedOnce
    <3> QED
      BY <3>1, <3>2
  <2> QED
    BY <2>1, <2>2, <2>3
<1>15. CountersOrdered'
  BY <1>5 DEF TicketInv, CountersOrdered
<1>16. TurnInHand'
  <2>1. r.exp < next[c]
    BY <1>2, <1>3 DEF TicketInv, WaitingHandedOut
  <2> QED
    BY <1>3, <1>4, <1>5, <2>1 DEF TicketInv, TurnInHand
<1>17. WaitingHandedOut'
  BY <1>5, <1>9 DEF TicketInv, WaitingHandedOut
<1>18. QueuesDisjoint'
  <2> SUFFICES ASSUME NEW f \in Handlers, NEW g \in Handlers, f # g,
                      NEW j \in DOMAIN queue'[f], NEW k \in DOMAIN queue'[g],
                      queue'[f][j].client = queue'[g][k].client
               PROVE  queue'[f][j].exp # queue'[g][k].exp
    BY DEF QueuesDisjoint
  <2>1. PICK a \in DOMAIN queue[f] : queue'[f][j] = queue[f][a]
    BY <1>9
  <2>2. PICK b \in DOMAIN queue[g] : queue'[g][k] = queue[g][b]
    BY <1>9
  <2> QED
    BY <2>1, <2>2 DEF TicketInv, QueuesDisjoint
<1>19. CopiesWait'
  <2> SUFFICES ASSUME NEW g \in Handlers,
                      NEW j \in DOMAIN queue'[g], NEW k \in DOMAIN queue'[g], j # k,
                      NEW d, NEW e,
                      queue'[g][j].client = d, queue'[g][j].exp = e,
                      queue'[g][k].client = d, queue'[g][k].exp = e
               PROVE  \E t \in curr[d] .. e - 1 : ~ Held(d, t)'
    BY <1>5 DEF CopiesWait
  <2>1. \E a, b \in DOMAIN queue[g] :
          a # b /\ queue'[g][j] = queue[g][a] /\ queue'[g][k] = queue[g][b]
    BY <1>7, <1>8
  <2>2. d \in Clients /\ e \in Nat /\ \E t \in curr[d] .. e - 1 : ~ Held(d, t)
    BY <2>1, RequestFacts DEF TicketInv, CopiesWait
  <2>3. \A t \in curr[d] .. e - 1 : t \in Nat
    BY <2>2, RequestFacts
  <2> QED
    BY <1>10, <2>2, <2>3
<1> QED
  BY <1>10, <1>13, <1>14, <1>15, <1>16, <1>17, <1>18, <1>19 DEF TicketInv

\* Executing, posting and answering move no ticket.
LEMMA OtherTickets ==
  ASSUME TypeOK, TicketInv, UNCHANGED <<next, curr, queue, hand>>,
         \A h \in Handlers : Busy(h)' <=> Busy(h)
  PROVE  /\ TicketInv'
         /\ \A d \in Clients, t \in Nat : Held(d, t)' => Held(d, t)
<1>1. \A d, t : Held(d, t)' <=> Held(d, t)
  BY DEF Held
<1>2. CopiesWait'
  BY <1>1 DEF TicketInv, CopiesWait
<1>3. OneHandlerPerClient' /\ ServedOnce' /\ TurnInHand'
  BY DEF TicketInv, OneHandlerPerClient, ServedOnce, TurnInHand
<1>4. CountersOrdered' /\ WaitingHandedOut' /\ QueuesDisjoint'
  BY DEF TicketInv, CountersOrdered, WaitingHandedOut, QueuesDisjoint
<1> QED
  BY <1>1, <1>2, <1>3, <1>4 DEF TicketInv

\* When a thread lets go of a request, its ticket is held by nobody.
LEMMA ReleaseTickets ==
  ASSUME TypeOK, TicketInv, NEW h \in Handlers,
         IncrementCurrCounter(h) \/ UnknownMethod(h)
  PROVE  /\ TicketInv'
         /\ \A d \in Clients, t \in Nat : Held(d, t)' => Held(d, t)
         /\ \A d \in Clients : curr'[d] # curr[d] =>
              /\ Held(d, curr[d])
              /\ IncrementCurrCounter(h)
<1>1. /\ Busy(h)
      /\ UNCHANGED <<next, queue>>
      /\ \A g \in Handlers : Busy(g)' <=> g # h /\ Busy(g)
      /\ \A g \in Handlers \ {h} : hand'[g] = hand[g]
  BY DEF IncrementCurrCounter, UnknownMethod, TypeOK, Busy
<1>2. PICK c \in Clients : c = hand[h].client
  BY <1>1, RequestFacts
<1>3. /\ hand[h].exp = curr[c] /\ curr[c] < next[c]
      /\ curr[c] \in Nat /\ next[c] \in Nat
  BY <1>1, <1>2, RequestFacts DEF TicketInv, TurnInHand
<1>4. /\ \A d \in Clients \ {c} : curr'[d] = curr[d]
      /\ curr'[c] = curr[c] \/ curr'[c] = curr[c] + 1
      /\ curr'[c] # curr[c] => IncrementCurrCounter(h)
  BY <1>2 DEF IncrementCurrCounter, UnknownMethod, TypeOK
<1>5. \A d \in Clients, t \in Nat : Held(d, t)' => Held(d, t)
  BY <1>1 DEF Held
<1>6. Held(c, curr[c])
  BY <1>1, <1>2, <1>3 DEF Held
<1>7. OneHandlerPerClient'
  BY <1>1 DEF TicketInv, OneHandlerPerClient
<1>8. \A g \in Handlers : Busy(g)' => Busy(g) /\ hand'[g] = hand[g] /\ hand[g].client # c
  BY <1>1, <1>2 DEF TicketInv, OneHandlerPerClient
<1>9. \A g \in Handlers : \A i \in DOMAIN queue[g] :
        queue[g][i].client = c => curr[c] < queue[g][i].exp
  BY <1>1, <1>2, <1>3 DEF TicketInv, ServedOnce
<1>10. ServedOnce'
  <2> SUFFICES ASSUME NEW g \in Handlers, NEW i \in DOMAIN queue[g]
               PROVE  /\ curr'[queue[g][i].client] <= queue[g][i].exp
                      /\ \A f \in Handlers :
                           Busy(f)' /\ hand'[f].client = queue[g][i].client
                             => hand'[f].exp < queue[g][i].exp
    BY <1>1 DEF ServedOnce
  <2>1. queue[g][i].client \in Clients /\ queue[g][i].exp \in Nat
    BY RequestFacts
  <2>2. curr'[queue[g][i].client] <= queue[g][i].exp
    <3>1. CASE queue[g][i].client = c
      BY <1>3, <1>4, <1>9, <2>1, <3>1
    <3>2. CASE queue[g][i].client # c
      BY <1>4, <2>1, <3>2 DEF TicketInv, ServedOnce
    <3> QED
      BY <3>1, <3>2
  <2> QED
    BY <1>8, <2>2 DEF TicketInv, ServedOnce
<1>11. CountersOrdered'
  <2> SUFFICES ASSUME NEW d \in Clients PROVE curr'[d] <= next[d]
    BY <1>1 DEF CountersOrdered
  <2>1. curr[d] <= next[d]
    BY DEF TicketInv, CountersOrdered
  <2> QED
    BY <1>3, <1>4, <2>1
<1>12. TurnInHand'
  <2> SUFFICES ASSUME NEW g \in Handlers, Busy(g)'
               PROVE  /\ hand'[g].exp = curr'[hand'[g].client]
                      /\ hand'[g].exp < next[hand'[g].client]
    BY <1>1 DEF TurnInHand
  <2>1. Busy(g) /\ hand'[g] = hand[g] /\ hand[g].client \in Clients \ {c}
    BY <1>8, RequestFacts
  <2> QED
    BY <1>4, <2>1 DEF TicketInv, TurnInHand
<1>13. WaitingHandedOut' /\ QueuesDisjoint'
  BY <1>1 DEF TicketInv, WaitingHandedOut, QueuesDisjoint
<1>14. CopiesWait'
  <2> SUFFICES ASSUME NEW g \in Handlers,
                      NEW i \in DOMAIN queue[g], NEW j \in DOMAIN queue[g], i # j,
                      NEW d, NEW e,
                      queue[g][i].client = d, queue[g][i].exp = e,
                      queue[g][j].client = d, queue[g][j].exp = e
               PROVE  \E t \in curr'[d] .. e - 1 : ~ Held(d, t)'
    BY <1>1 DEF CopiesWait
  <2>1. d \in Clients /\ e \in Nat /\ curr[d] \in Nat
    BY RequestFacts
  <2>2. PICK t \in curr[d] .. e - 1 : ~ Held(d, t)
    BY DEF TicketInv, CopiesWait
  <2>3. t \in curr'[d] .. e - 1
    <3>1. CASE d = c
      <4>1. t # curr[c]
        BY <1>6, <2>2, <3>1
      <4> QED
        BY <1>3, <1>4, <2>1, <2>2, <3>1, <4>1
    <3>2. CASE d # c
      BY <1>4, <2>1, <2>2, <3>2
    <3> QED
      BY <3>1, <3>2
  <2>4. t \in Nat
    BY <2>1, <2>2
  <2> QED
    BY <1>5, <2>1, <2>2, <2>3, <2>4
<1> QED
  BY <1>4, <1>5, <1>6, <1>7, <1>10, <1>11, <1>12, <1>13, <1>14 DEF TicketInv

-----------------------------------------------------------------------------
(***************************************************************************)
(* The invariant and its consequences.                                     *)
(***************************************************************************)
LEMMA InitTickets == Init => TicketInv
<1> SUFFICES ASSUME Init PROVE TicketInv
  OBVIOUS
<1>1. \A h \in Handlers : ~ Busy(h) /\ queue[h] = <<>>
  BY DEF Init, Busy
<1>2. \A h \in Handlers : DOMAIN queue[h] = {}
  BY <1>1
<1>3. CountersOrdered
  BY DEF Init, CountersOrdered
<1> QED
  BY <1>1, <1>2, <1>3
     DEF TicketInv, OneHandlerPerClient, ServedOnce, TurnInHand,
         WaitingHandedOut, QueuesDisjoint, CopiesWait

\* A step of a thread or of onResolve never brings a ticket back, and moves
\* the counter of a client only when the ticket of its turn was held.
LEMMA ServerTickets ==
  ASSUME TypeOK, TicketInv, ServerStep
  PROVE  /\ TicketInv'
         /\ next' = next
         /\ \A d \in Clients, t \in Nat : Held(d, t)' => Held(d, t)
         /\ \A d \in Clients : curr'[d] # curr[d] => Held(d, curr[d])
<1>1. CASE \E h \in Handlers : TakesReady(h)
  BY <1>1, TakeTickets DEF TakesReady
<1>2. CASE \E h \in Handlers : Execute(h) \/ Post(h)
  <2>1. UNCHANGED <<next, curr, queue, hand>>
    BY <1>2 DEF Execute, Post
  <2>2. \A g \in Handlers : Busy(g)' <=> Busy(g)
    BY <1>2 DEF Execute, Post, TypeOK, Busy
  <2> QED
    BY <2>1, <2>2, OtherTickets
<1>3. CASE \E h \in Handlers : IncrementCurrCounter(h) \/ UnknownMethod(h)
  BY <1>3, ReleaseTickets DEF IncrementCurrCounter, UnknownMethod
<1>4. CASE OnResolve \/ UNCHANGED vars
  <2>1. UNCHANGED <<next, curr, queue, hand, pc>>
    BY <1>4 DEF OnResolve, vars
  <2>2. \A g \in Handlers : Busy(g)' <=> Busy(g)
    BY <2>1 DEF Busy
  <2> QED
    BY <2>1, <2>2, OtherTickets
<1> QED
  BY <1>1, <1>2, <1>3, <1>4 DEF ServerStep

LEMMA StepTickets == TypeOK /\ TicketInv /\ DispatchStep => TicketInv'
  BY SubmitTickets, ServerTickets DEF DispatchStep

LEMMA SpecInvariant == Spec => [](TypeOK /\ TicketInv)
<1>1. Init => TicketInv
  BY InitTickets
<1>2. TypeOK /\ TicketInv /\ [Next]_vars => TicketInv'
  BY NextIsDispatchStep, StepTickets
<1>3. Spec => []TypeOK
  BY TypeCorrect
<1> QED
  BY <1>1, <1>2, <1>3, PTL DEF Spec

\* The counters and the queue lock are enough to keep the two threads off
\* one client: Client and Engine need no lock of their own.
THEOREM OneThreadPerClient == Spec => []OneHandlerPerClient
<1>1. TypeOK /\ TicketInv => OneHandlerPerClient
  BY DEF TicketInv
<1> QED
  BY <1>1, SpecInvariant, PTL

\* The inductive invariant holds: copies of a notification stay behind a
\* lost ticket.
THEOREM TicketsKept == Spec => []TicketInv
<1> QED
  BY SpecInvariant, PTL

\* newRequest cannot return its turn to a frozen client.
LEMMA SubmitFrozen ==
  ASSUME TypeOK, NEW c \in Clients, NEW m \in Methods, NewRequest(c, m),
         NEW d \in Clients, Frozen(d)
  PROVE  Frozen(d)'
<1>1. /\ next' \in [Clients -> Nat]
      /\ \A b \in Clients : next[b] <= next'[b]
  BY NewRequestEnqueues
<1>2. PICK H \in SUBSET Handlers, r \in [Handlers -> Requests] : Enqueues(c, m, H, r)
  BY NewRequestEnqueues
<1>3. UNCHANGED <<curr, pc, hand>>
  BY DEF NewRequest
<1>4. PICK t \in Nat : t = curr[d]
  BY DEF TypeOK
<1>5. t < next[d] /\ ~ Held(d, t)
  BY <1>4 DEF Frozen
<1>6. ~ Held(d, t)'
  BY <1>2, <1>3, <1>5, SubmitHeld
<1>7. curr'[d] = t /\ t < next'[d]
  BY <1>1, <1>3, <1>4, <1>5 DEF TypeOK
<1>8. ~ Held(d, curr[d])'
  BY <1>6, <1>7 DEF Held
<1> QED
  BY <1>7, <1>8 DEF Frozen

LEMMA ServerFrozen ==
  ASSUME TypeOK, TicketInv, ServerStep, NEW d \in Clients, Frozen(d)
  PROVE  Frozen(d)'
<1>1. PICK t \in Nat : t = curr[d]
  BY DEF TypeOK
<1>2. t < next[d] /\ ~ Held(d, t)
  BY <1>1 DEF Frozen
<1>3. curr'[d] = t /\ next' = next /\ ~ Held(d, t)'
  BY <1>1, <1>2, ServerTickets
<1>4. ~ Held(d, curr[d])'
  BY <1>3 DEF Held
<1> QED
  BY <1>2, <1>3, <1>4 DEF Frozen

\* A client whose turn was lost, by a replaced notification or by a method
\* no thread handles, is never served again, whatever anyone sends.
THEOREM FrozenStays == Spec => FrozenForEver
<1>1. TypeOK /\ TicketInv /\ [Next]_vars
        => \A c \in Clients : Frozen(c) => Frozen(c)'
  BY NextIsDispatchStep, SubmitFrozen, ServerFrozen DEF DispatchStep
<1> QED
  BY <1>1, SpecInvariant, PTL DEF Spec, FrozenForEver

-----------------------------------------------------------------------------
(***************************************************************************)
(* Counting the elements of a sequence that are in a set G.                *)
(***************************************************************************)
Hits(s, G) == {i \in DOMAIN s : s[i] \in G}

Number(s, G) == Cardinality(Hits(s, G))

Weight(x, G) == IF x \in G THEN 1 ELSE 0

LEMMA ElementOf ==
  ASSUME NEW S, NEW s \in Seq(S), NEW i \in DOMAIN s
  PROVE  s[i] \in S
OBVIOUS

LEMMA TailAt ==
  ASSUME NEW S, NEW s \in Seq(S), NEW n \in Nat, Len(s) = n + 1
  PROVE  Tail(s) = [i \in 1 .. n |-> s[i + 1]]
<1>1. s # <<>>
  OBVIOUS
<1>2. Tail(s) \in Seq(S) /\ Len(Tail(s)) = n /\ \A i \in 1 .. n : Tail(s)[i] = s[i + 1]
  BY <1>1
<1>3. PICK t \in Seq(S) : t = Tail(s)
  BY <1>2
<1>4. t \in [1 .. n -> S]
  <2>1. PICK k \in Nat : t \in [1 .. k -> S]
    BY SeqDef
  <2>2. k = n
    BY <1>2, <1>3, <2>1
  <2> QED
    BY <2>1, <2>2
<1>5. t = [i \in 1 .. n |-> t[i]]
  BY <1>4
<1> QED
  BY <1>2, <1>3, <1>5

LEMMA NumberTyped ==
  ASSUME NEW S, NEW s \in Seq(S), NEW G
  PROVE  IsFiniteSet(Hits(s, G)) /\ Number(s, G) \in Nat
<1>1. Len(s) \in Nat /\ Hits(s, G) \in SUBSET (1 .. Len(s))
  BY DEF Hits
<1>2. IsFiniteSet(1 .. Len(s))
  BY <1>1, FS_Interval
<1>3. IsFiniteSet(Hits(s, G))
  BY <1>1, <1>2, FS_Subset
<1> QED
  BY <1>3, FS_CardinalityType DEF Number

LEMMA NumberConcat ==
  ASSUME NEW S, NEW s \in Seq(S), NEW t \in Seq(S), NEW G
  PROVE  Number(s \o t, G) = Number(s, G) + Number(t, G)
<1> DEFINE n == Len(s)
           H == Hits(t, G)
           T == {n + i : i \in H}
           f == [i \in H |-> n + i]
<1>1. /\ n \in Nat /\ Len(t) \in Nat
      /\ DOMAIN s = 1 .. n /\ DOMAIN t = 1 .. Len(t)
      /\ DOMAIN (s \o t) = 1 .. n + Len(t)
      /\ \A i \in 1 .. n : (s \o t)[i] = s[i]
      /\ \A i \in 1 .. Len(t) : (s \o t)[n + i] = t[i]
  OBVIOUS
<1>2. H \subseteq 1 .. Len(t) /\ Hits(s, G) \subseteq 1 .. n
  BY <1>1 DEF Hits
<1>3. Hits(s \o t, G) = Hits(s, G) \cup T
  <2>1. ASSUME NEW i \in Hits(s \o t, G)
        PROVE  i \in Hits(s, G) \cup T
    <3>1. i \in 1 .. n + Len(t) /\ (s \o t)[i] \in G
      BY <1>1, <2>1 DEF Hits
    <3>2. CASE i \in 1 .. n
      BY <1>1, <3>1, <3>2 DEF Hits
    <3>3. CASE i \notin 1 .. n
      <4>1. PICK j \in 1 .. Len(t) : i = n + j
        <5>1. i - n \in 1 .. Len(t) /\ i = n + (i - n)
          BY <1>1, <3>1, <3>3
        <5> QED
          BY <5>1
      <4>2. j \in H
        BY <1>1, <3>1, <4>1 DEF Hits
      <4> QED
        BY <4>1, <4>2
    <3> QED
      BY <3>2, <3>3
  <2>2. ASSUME NEW i \in Hits(s, G)
        PROVE  i \in Hits(s \o t, G)
    BY <1>1 DEF Hits
  <2>3. ASSUME NEW j \in H
        PROVE  n + j \in Hits(s \o t, G)
    BY <1>1 DEF Hits
  <2> QED
    BY <2>1, <2>2, <2>3
<1>4. Hits(s, G) \cap T = {}
  BY <1>1, <1>2
<1>5. f \in Bijection(H, T)
  <2>1. f \in [H -> T] /\ \A y \in T : \E x \in H : f[x] = y
    OBVIOUS
  <2>2. \A x, y \in H : f[x] = f[y] => x = y
    BY <1>1, <1>2
  <2> QED
    BY <2>1, <2>2, Fun_IsBij
<1>6. IsFiniteSet(T) /\ Cardinality(T) = Number(t, G)
  <2>1. IsFiniteSet(H) /\ ExistsBijection(H, T)
    BY <1>5, NumberTyped DEF ExistsBijection
  <2> QED
    BY <2>1, FS_Bijection DEF Number
<1>7. IsFiniteSet(Hits(s, G)) /\ Number(s, G) \in Nat /\ Number(t, G) \in Nat
  BY NumberTyped
<1>8. Cardinality(Hits(s, G) \cup T) = Number(s, G) + Number(t, G)
  <2> HIDE DEF T
  <2>1. Cardinality(Hits(s, G) \cup T) =
          Cardinality(Hits(s, G)) + Cardinality(T) - Cardinality({})
    BY <1>4, <1>6, <1>7, FS_Union
  <2> QED
    BY <1>6, <1>7, <2>1, FS_EmptySet DEF Number
<1> QED
  BY <1>3, <1>8 DEF Number

LEMMA NumberEmpty ==
  ASSUME NEW G
  PROVE  Number(<<>>, G) = 0
<1>1. Hits(<<>>, G) = {}
  BY DEF Hits
<1> QED
  BY <1>1, FS_EmptySet DEF Number

LEMMA NumberOne ==
  ASSUME NEW x, NEW G
  PROVE  Number(<<x>>, G) = Weight(x, G)
<1>1. CASE x \in G
  <2>1. Hits(<<x>>, G) = {1}
    BY <1>1 DEF Hits
  <2> QED
    BY <1>1, <2>1, FS_Singleton DEF Number, Weight
<1>2. CASE x \notin G
  <2>1. Hits(<<x>>, G) = {}
    BY <1>2 DEF Hits
  <2> QED
    BY <1>2, <2>1, FS_EmptySet DEF Number, Weight
<1> QED
  BY <1>1, <1>2

LEMMA NumberTail ==
  ASSUME NEW S, NEW s \in Seq(S), s # <<>>, NEW G
  PROVE  Number(s, G) = Weight(Head(s), G) + Number(Tail(s), G)
<1>1. s = <<Head(s)>> \o Tail(s) /\ <<Head(s)>> \in Seq(S) /\ Tail(s) \in Seq(S)
  OBVIOUS
<1>2. Number(<<Head(s)>> \o Tail(s), G) = Number(<<Head(s)>>, G) + Number(Tail(s), G)
  BY <1>1, NumberConcat
<1> QED
  BY <1>1, <1>2, NumberOne

LEMMA NumberSplit ==
  ASSUME NEW S, NEW s \in Seq(S), NEW k \in 0 .. Len(s), NEW G
  PROVE  /\ SubSeq(s, 1, k) \in Seq(S) /\ SubSeq(s, k + 1, Len(s)) \in Seq(S)
         /\ Number(s, G) = Number(SubSeq(s, 1, k), G) + Number(SubSeq(s, k + 1, Len(s)), G)
<1>1. /\ Len(s) \in Nat /\ k \in Nat
      /\ \A i \in 1 .. Len(s) : s[i] \in S
  OBVIOUS
<1>2. SubSeq(s, 1, k) \in Seq(S) /\ SubSeq(s, k + 1, Len(s)) \in Seq(S)
  BY <1>1
<1>3. SubSeq(s, 1, k) \o SubSeq(s, k + 1, Len(s)) = s
  <2>1. 1 \in 1 .. Len(s) + 1 /\ k \in 1 - 1 .. Len(s) /\ Len(s) \in k .. Len(s)
    BY <1>1
  <2>2. SubSeq(s, 1, k) \o SubSeq(s, k + 1, Len(s)) = SubSeq(s, 1, Len(s))
    BY <2>1, ConcatAdjacentSubSeq
  <2> QED
    BY <2>2, SubSeqFull
<1>4. Number(SubSeq(s, 1, k) \o SubSeq(s, k + 1, Len(s)), G)
        = Number(SubSeq(s, 1, k), G) + Number(SubSeq(s, k + 1, Len(s)), G)
  BY <1>2, NumberConcat
<1> QED
  BY <1>2, <1>3, <1>4

LEMMA NumberRemove ==
  ASSUME NEW S, NEW s \in Seq(S), NEW i \in DOMAIN s, NEW G
  PROVE  /\ RemoveAt(s, i) \in Seq(S)
         /\ Number(s, G) = Weight(s[i], G) + Number(RemoveAt(s, i), G)
<1> DEFINE a == SubSeq(s, 1, i - 1)
           b == SubSeq(s, i, Len(s))
           c == SubSeq(s, i + 1, Len(s))
<1>1. Len(s) \in Nat /\ i \in 1 .. Len(s) /\ s[i] \in S
  OBVIOUS
<1>2. i - 1 \in 0 .. Len(s) /\ (i - 1) + 1 = i /\ i \in 0 .. Len(s)
  BY <1>1
<1>3. a \in Seq(S) /\ b \in Seq(S) /\ Number(s, G) = Number(a, G) + Number(b, G)
  BY <1>2, NumberSplit
<1>4. c \in Seq(S)
  BY <1>2, NumberSplit
<1>5. b = <<s[i]>> \o c
  <2>1. Len(s) \in i .. Len(s)
    BY <1>1
  <2>2. SubSeq(s, i, Len(s)) = <<s[i]>> \o SubSeq(s, i + 1, Len(s))
    BY <1>1, <2>1, SubSeqRecursiveFirst
  <2> QED
    BY <2>2
<1> HIDE DEF a, b, c
<1>6. Number(b, G) = Weight(s[i], G) + Number(c, G)
  <2>1. <<s[i]>> \in Seq(S)
    BY <1>1
  <2>2. Number(<<s[i]>> \o c, G) = Number(<<s[i]>>, G) + Number(c, G)
    BY <1>4, <2>1, NumberConcat
  <2>3. Number(<<s[i]>>, G) = Weight(s[i], G)
    BY NumberOne
  <2> QED
    BY <1>5, <2>2, <2>3
<1>7. a \o c \in Seq(S) /\ Number(a \o c, G) = Number(a, G) + Number(c, G)
  BY <1>3, <1>4, NumberConcat
<1>8. Number(a, G) \in Nat /\ Number(c, G) \in Nat /\ Weight(s[i], G) \in Nat
  BY <1>3, <1>4, NumberTyped DEF Weight
<1>9. RemoveAt(s, i) = a \o c
  BY DEF RemoveAt, a, c
<1> QED
  BY <1>3, <1>6, <1>7, <1>8, <1>9

LEMMA NumberAppend ==
  ASSUME NEW S, NEW s \in Seq(S), NEW x \in S, NEW G
  PROVE  Number(Append(s, x), G) = Number(s, G) + Weight(x, G)
<1>1. <<x>> \in Seq(S) /\ Append(s, x) = s \o <<x>>
  BY AppendIsConcat
<1>2. Number(s \o <<x>>, G) = Number(s, G) + Number(<<x>>, G)
  BY <1>1, NumberConcat
<1> QED
  BY <1>1, <1>2, NumberOne

\* Enqueue adds one request; what it overwrites counts like what it writes.
LEMMA NumberEnqueue ==
  ASSUME NEW q \in Seq(Requests), NEW r \in Requests, NEW G,
         r.type # 0 => \A i \in DOMAIN q : Overrides(r, q[i]) => (q[i] \in G <=> r \in G)
  PROVE  Number(Enqueue(q, r), G) = Number(q, G) + Weight(r, G)
<1>1. CASE r.type = 0
  <2>1. Number(Append(q, r), G) = Number(q, G) + Weight(r, G)
    BY NumberAppend
  <2> QED
    BY <1>1, <2>1 DEF Enqueue
<1>2. CASE r.type # 0
  <2>1. PICK p : p = Replaced(q, r)
    OBVIOUS
  <2>2. DOMAIN p = DOMAIN q /\ \A i \in DOMAIN q : p[i] = q[i] \/ (p[i] = r /\ Overrides(r, q[i]))
    BY <2>1 DEF Replaced
  <2>3. PICK n \in Nat : DOMAIN q = 1 .. n
    OBVIOUS
  <2>4. p \in Seq(Requests)
    <3>1. \A i \in 1 .. n : p[i] \in Requests
      BY <2>2, <2>3, ElementOf
    <3>2. p = [i \in 1 .. n |-> p[i]]
      BY <2>1, <2>3 DEF Replaced
    <3>3. p \in [1 .. n -> Requests]
      BY <3>1, <3>2
    <3> QED
      BY <3>3, SeqDef
  <2>5. Hits(p, G) = Hits(q, G)
    BY <1>2, <2>2 DEF Hits
  <2>6. Number(Append(p, r), G) = Number(p, G) + Weight(r, G)
    BY <2>4, NumberAppend
  <2>7. Enqueue(q, r) = Append(p, r)
    BY <1>2, <2>1 DEF Enqueue
  <2> QED
    BY <2>5, <2>6, <2>7 DEF Number
<1> QED
  BY <1>1, <1>2

\* The waiting requests of a client, as the elements of the queue that are its.
Of(c) == {r \in Requests : r.client = c}

LEMMA WaitingAreHits ==
  ASSUME NEW h \in Handlers, NEW q, q \in Seq(Requests), NEW c
  PROVE  {i \in DOMAIN q : q[i].client = c} = Hits(q, Of(c))
BY ElementOf DEF Hits, Of

\* newRequest takes nothing of a client out of a queue.
LEMMA SubmitKeepsNumber ==
  ASSUME TypeOK, NEW d \in Clients, NEW m \in Methods, NewRequest(d, m),
         NEW c \in Clients, NEW h \in Handlers
  PROVE  Number(queue[h], Of(c)) <= Number(queue'[h], Of(c))
<1>1. PICK H \in SUBSET Handlers, r \in [Handlers -> Requests] : Enqueues(d, m, H, r)
  BY NewRequestEnqueues
<1>2. PICK q \in Seq(Requests) : q = queue[h]
  BY DEF TypeOK
<1>3. Number(q, Of(c)) \in Nat
  BY NumberTyped
<1>4. CASE h \in H
  <2>1. PICK e \in Requests : e = r[h]
    OBVIOUS
  <2>2. \A i \in DOMAIN q : Overrides(e, q[i]) => (q[i] \in Of(c) <=> e \in Of(c))
    BY ElementOf DEF Overrides, Of
  <2>3. Number(Enqueue(q, e), Of(c)) = Number(q, Of(c)) + Weight(e, Of(c))
    BY <2>2, NumberEnqueue
  <2>4. queue'[h] = Enqueue(q, e)
    BY <1>1, <1>2, <1>4, <2>1 DEF Enqueues
  <2>5. Weight(e, Of(c)) \in Nat
    BY DEF Weight
  <2> QED
    BY <1>2, <1>3, <2>3, <2>4, <2>5
<1>5. CASE h \notin H
  BY <1>1, <1>2, <1>3, <1>5 DEF Enqueues
<1> QED
  BY <1>4, <1>5

\* A thread takes only what has its client's turn, and nothing of a frozen
\* client has.
LEMMA ServerKeepsNumber ==
  ASSUME TypeOK, ServerStep, NEW c \in Clients, Frozen(c), NEW h \in Handlers
  PROVE  Number(queue[h], Of(c)) <= Number(queue'[h], Of(c))
<1>1. PICK q \in Seq(Requests) : q = queue[h]
  BY DEF TypeOK
<1>2. Number(q, Of(c)) \in Nat
  BY NumberTyped
<1>3. CASE queue'[h] = queue[h]
  BY <1>1, <1>2, <1>3
<1>4. ASSUME NEW g \in Handlers, TakesReady(g)
      PROVE  Number(queue[h], Of(c)) <= Number(queue'[h], Of(c))
  <2>1. PICK k \in DOMAIN queue[g] :
          IsReady(queue[g][k]) /\ queue' = [queue EXCEPT ![g] = RemoveAt(@, k)]
    BY <1>4 DEF TakesReady
  <2>2. CASE g = h
    <3>1. queue'[h] = RemoveAt(q, k) /\ k \in DOMAIN q
      BY <1>1, <2>1, <2>2 DEF TypeOK
    <3>2. q[k] \notin Of(c)
      BY <1>1, <2>1, <2>2 DEF IsReady, Frozen, Held, Of
    <3>3. Number(q, Of(c)) = Weight(q[k], Of(c)) + Number(RemoveAt(q, k), Of(c))
          /\ RemoveAt(q, k) \in Seq(Requests)
      BY <3>1, NumberRemove
    <3>4. Weight(q[k], Of(c)) = 0
      BY <3>2 DEF Weight
    <3>5. Number(RemoveAt(q, k), Of(c)) \in Nat
      BY <3>3, NumberTyped
    <3> QED
      BY <1>1, <3>1, <3>3, <3>4, <3>5
  <2>3. CASE g # h
    <3>1. queue'[h] = queue[h]
      BY <2>1, <2>3 DEF TypeOK
    <3> QED
      BY <1>3, <3>1
  <2> QED
    BY <2>2, <2>3
<1>5. ASSUME NEW g \in Handlers,
             Execute(g) \/ Post(g) \/ IncrementCurrCounter(g) \/ UnknownMethod(g)
      PROVE  queue' = queue
  BY <1>5 DEF Execute, Post, IncrementCurrCounter, UnknownMethod
<1>6. ASSUME OnResolve \/ UNCHANGED vars
      PROVE  queue' = queue
  BY <1>6 DEF OnResolve, vars
<1> QED
  BY <1>3, <1>4, <1>5, <1>6 DEF ServerStep

\* What waits of a frozen client does not shrink in any step of dispatching.
LEMMA StepPilesUp ==
  ASSUME TypeOK, TypeOK', DispatchStep, NEW c \in Clients, NEW h \in Handlers, Frozen(c)
  PROVE  Cardinality(Waiting(c, h)) <= Cardinality(Waiting(c, h)')
<1>1. Number(queue[h], Of(c)) <= Number(queue'[h], Of(c))
  BY SubmitKeepsNumber, ServerKeepsNumber DEF DispatchStep
<1>2. queue[h] \in Seq(Requests) /\ queue'[h] \in Seq(Requests)
  BY DEF TypeOK
<1>3. /\ Waiting(c, h) = Hits(queue[h], Of(c))
      /\ Waiting(c, h)' = Hits(queue'[h], Of(c))
  BY <1>2, WaitingAreHits DEF Waiting
<1> QED
  BY <1>1, <1>3 DEF Number

\* A queue never gets rid of what a frozen client has in it.
THEOREM FrozenPilesUp == Spec => FrozenRequestsStay
<1>1. TypeOK /\ TypeOK' /\ [Next]_vars =>
        \A c \in Clients, h \in Handlers :
          Frozen(c) => Cardinality(Waiting(c, h)) <= Cardinality(Waiting(c, h)')
  BY NextIsDispatchStep, StepPilesUp
<1> QED
  BY <1>1, TypeCorrect, PTL DEF Spec, FrozenRequestsStay

-----------------------------------------------------------------------------
(***************************************************************************)
(* A client that never closes a project, and opens one only when none of   *)
(* its notifications is waiting, keeps its turn: each of its tickets from  *)
(* the current one on is held by a request, and each of those requests is  *)
(* one its thread handles.                                                 *)
(***************************************************************************)
AllHeld(c) == \A t \in Nat : curr[c] <= t /\ t < next[c] => Held(c, t)

AllHandled(c) ==
  \A h \in Handlers :
    /\ \A i \in DOMAIN queue[h] :
         queue[h][i].client = c => queue[h][i].method \in Handled(h)
    /\ Busy(h) /\ hand[h].client = c => hand[h].method \in Handled(h)

KeepsTurn(c) == AllHeld(c) /\ AllHandled(c)

PatientInv == \A c \in Patient : KeepsTurn(c)

\* Every element of q but the i-th is still there after the erasure.
LEMMA RemoveAtCovers ==
  ASSUME NEW q \in Seq(Requests), NEW i \in DOMAIN q, NEW k \in DOMAIN q, k # i
  PROVE  \E j \in DOMAIN RemoveAt(q, i) : RemoveAt(q, i)[j] = q[k]
<1>1. Len(q) \in Nat /\ i \in 1 .. Len(q) /\ k \in 1 .. Len(q)
  OBVIOUS
<1>2. DOMAIN RemoveAt(q, i) = 1 .. Len(q) - 1
  BY <1>1, RemoveAtProperties
<1>3. PICK j \in 1 .. Len(q) - 1 : j = IF k < i THEN k ELSE k - 1
  BY <1>1
<1>4. RemoveAt(q, i)[j] = IF j < i THEN q[j] ELSE q[j + 1]
  BY <1>1, <1>3, RemoveAtProperties
<1>5. CASE k < i
  BY <1>1, <1>2, <1>3, <1>4, <1>5
<1>6. CASE ~ (k < i)
  <2>1. j = k - 1 /\ ~ (j < i) /\ j + 1 = k
    BY <1>1, <1>3, <1>6
  <2> QED
    BY <1>2, <1>4, <2>1
<1> QED
  BY <1>5, <1>6

\* A request that overrides nothing leaves the queue as it was and is the
\* last of it.
LEMMA EnqueueKeeps ==
  ASSUME NEW q \in Seq(Requests), NEW r \in Requests
  PROVE  /\ \E i \in DOMAIN Enqueue(q, r) : Enqueue(q, r)[i] = r
         /\ \A k \in DOMAIN q :
              \/ k \in DOMAIN Enqueue(q, r) /\ Enqueue(q, r)[k] = q[k]
              \/ Overrides(r, q[k]) /\ r.type # 0
<1> DEFINE e == Enqueue(q, r)
<1>1. Len(q) \in Nat /\ DOMAIN q = 1 .. Len(q)
  OBVIOUS
<1>2. /\ e \in Seq(Requests)
      /\ Len(e) = Len(q) + 1
      /\ e[Len(q) + 1] = r
      /\ \A i \in 1 .. Len(q) : e[i] # q[i] => e[i] = r /\ Overrides(r, q[i])
      /\ \A i, j \in 1 .. Len(q) : e[i] # q[i] /\ e[j] # q[j] => i = j
  BY EnqueueProperties, Zenon
<1>3. \A k \in DOMAIN q : r.type = 0 => e[k] = q[k]
  BY <1>1 DEF Enqueue
<1> HIDE DEF e
<1>4. DOMAIN e = 1 .. Len(q) + 1 /\ DOMAIN q \subseteq DOMAIN e /\ Len(q) + 1 \in DOMAIN e
  BY <1>1, <1>2
<1>5. \A k \in DOMAIN q : e[k] = q[k] \/ (Overrides(r, q[k]) /\ r.type # 0)
  BY <1>1, <1>2, <1>3
<1> QED
  BY <1>2, <1>4, <1>5 DEF e

LEMMA TurnSubmit ==
  ASSUME TypeOK, TicketInv, NEW c \in Clients, NEW m \in Methods, NewRequest(c, m),
         NEW p \in Clients, KeepsTurn(p),
         c = p => m # "closeProject",
         c = p /\ m = "openProject" =>
           \A h \in Handlers : \A i \in Waiting(c, h) : queue[h][i].type = 0
  PROVE  KeepsTurn(p)'
<1>1. AllHeld(p) /\ AllHandled(p)
  BY DEF KeepsTurn
<1>2. PICK H \in SUBSET Handlers, r \in [Handlers -> Requests] : Enqueues(c, m, H, r)
  BY NewRequestEnqueues
<1>3. UNCHANGED <<curr, pc, hand>> /\ \A h \in Handlers : Busy(h)' <=> Busy(h)
  BY DEF NewRequest, Busy
<1>4. /\ \A h \in H : r[h].client = c
      /\ \A h \in Handlers \ H : queue'[h] = queue[h]
      /\ \A h \in H : queue'[h] = Enqueue(queue[h], r[h])
      /\ \A h \in Handlers : queue[h] \in Seq(Requests) /\ r[h] \in Requests
  BY <1>2, RequestFacts DEF Enqueues, Fresh
<1>5. \A h \in Handlers : \A i \in DOMAIN queue'[h] :
        \/ i \in DOMAIN queue[h] /\ queue'[h][i] = queue[h][i]
        \/ h \in H /\ queue'[h][i] = r[h]
  BY <1>2, SubmitEntries
<1>6. ASSUME NEW h \in H, NEW k \in DOMAIN queue[h], queue[h][k].client = p
      PROVE  k \in DOMAIN queue'[h] /\ queue'[h][k] = queue[h][k]
  <2>1. \/ k \in DOMAIN queue'[h] /\ queue'[h][k] = queue[h][k]
        \/ Overrides(r[h], queue[h][k]) /\ r[h].type # 0
    BY <1>4, EnqueueKeeps
  <2>2. ASSUME Overrides(r[h], queue[h][k]), r[h].type # 0
        PROVE  FALSE
    <3>1. c = p /\ queue[h][k].type = r[h].type
      BY <1>4, <1>6, <2>2 DEF Overrides
    <3>2. m = "openProject"
      BY <1>2, <2>2, <3>1 DEF Enqueues, TypeOf
    <3>3. queue[h][k].type = 0
      BY <1>6, <3>1, <3>2 DEF Waiting
    <3> QED
      BY <2>2, <3>1, <3>3
  <2> QED
    BY <2>1, <2>2
<1>7. \A h \in Handlers : \A k \in DOMAIN queue[h] : queue[h][k].client = p =>
         k \in DOMAIN queue'[h] /\ queue'[h][k] = queue[h][k]
  BY <1>4, <1>6
<1>8. \A t \in Nat : Held(p, t) => Held(p, t)'
  BY <1>3, <1>7 DEF Held
<1>9. AllHeld(p)'
  <2> SUFFICES ASSUME NEW t \in Nat, curr[p] <= t, t < next'[p]
               PROVE  Held(p, t)'
    BY <1>3 DEF AllHeld
  <2>1. next[p] \in Nat
    BY RequestFacts
  <2>2. CASE t < next[p]
    BY <1>1, <1>8, <2>2 DEF AllHeld
  <2>3. CASE next[p] <= t
    <3>1. p = c
      BY <2>1, <2>3 DEF NewRequest, One, Two, TypeOK
    <3>2. PICK h \in H : r[h].exp = t
      BY <1>2, <2>3, <3>1 DEF Enqueues
    <3>3. \E i \in DOMAIN queue'[h] : queue'[h][i] = r[h]
      BY <1>4, EnqueueKeeps
    <3> QED
      BY <1>4, <3>1, <3>2, <3>3 DEF Held
  <2> QED
    BY <2>1, <2>2, <2>3
<1>10. AllHandled(p)'
  <2>1. \A h \in H : c = p => r[h].method \in Handled(h)
    BY <1>2 DEF Enqueues
  <2>2. \A h \in Handlers : \A i \in DOMAIN queue'[h] :
          queue'[h][i].client = p => queue'[h][i].method \in Handled(h)
    BY <1>1, <1>4, <1>5, <2>1 DEF AllHandled
  <2>3. \A h \in Handlers : Busy(h) /\ hand[h].client = p => hand[h].method \in Handled(h)
    BY <1>1 DEF AllHandled
  <2> QED
    BY <1>3, <2>2, <2>3 DEF AllHandled
<1> QED
  BY <1>9, <1>10 DEF KeepsTurn

LEMMA TurnTake ==
  ASSUME TypeOK, NEW h \in Handlers, TakesReady(h), NEW c \in Clients, KeepsTurn(c)
  PROVE  KeepsTurn(c)'
<1>1. PICK i \in DOMAIN queue[h] :
        /\ hand' = [hand EXCEPT ![h] = queue[h][i]]
        /\ queue' = [queue EXCEPT ![h] = RemoveAt(queue[h], i)]
  BY DEF TakesReady
<1>2. /\ UNCHANGED <<next, curr>>
      /\ ~ Busy(h)
      /\ \A g \in Handlers : Busy(g)' <=> g = h \/ Busy(g)
      /\ hand'[h] = queue[h][i]
      /\ \A g \in Handlers \ {h} : hand'[g] = hand[g] /\ queue'[g] = queue[g]
      /\ queue'[h] = RemoveAt(queue[h], i)
  BY <1>1 DEF TakesReady, TypeOK, Busy
<1>3. queue[h] \in Seq(Requests)
  BY DEF TypeOK
<1>4. \A k \in DOMAIN queue[h] \ {i} : \E j \in DOMAIN queue'[h] : queue'[h][j] = queue[h][k]
  BY <1>1, <1>2, <1>3, RemoveAtCovers
<1>5. \A j \in DOMAIN queue'[h] : \E k \in DOMAIN queue[h] : queue'[h][j] = queue[h][k]
  BY <1>1, <1>2, <1>3, RemoveAtSkips
<1>6. ASSUME NEW t \in Nat, Held(c, t) PROVE Held(c, t)'
  <2>1. PICK g \in Handlers :
          \/ \E k \in DOMAIN queue[g] : queue[g][k].client = c /\ queue[g][k].exp = t
          \/ Busy(g) /\ hand[g].client = c /\ hand[g].exp = t
    BY <1>6 DEF Held
  <2>2. CASE Busy(g) /\ hand[g].client = c /\ hand[g].exp = t
    BY <1>2, <2>2 DEF Held
  <2>3. ASSUME NEW k \in DOMAIN queue[g], queue[g][k].client = c, queue[g][k].exp = t
        PROVE  Held(c, t)'
    <3>1. CASE g # h
      BY <1>2, <2>3, <3>1 DEF Held
    <3>2. CASE g = h /\ k = i
      BY <1>2, <2>3, <3>2 DEF Held
    <3>3. CASE g = h /\ k # i
      BY <1>4, <2>3, <3>3 DEF Held
    <3> QED
      BY <3>1, <3>2, <3>3
  <2> QED
    BY <2>1, <2>2, <2>3
<1>7. AllHeld(c)'
  BY <1>2, <1>6 DEF KeepsTurn, AllHeld
<1>8. AllHandled(c)'
  BY <1>1, <1>2, <1>5 DEF KeepsTurn, AllHandled
<1> QED
  BY <1>7, <1>8 DEF KeepsTurn

LEMMA TurnOthers ==
  ASSUME UNCHANGED <<next, curr, queue, hand>>,
         \A h \in Handlers : Busy(h)' <=> Busy(h), NEW c, KeepsTurn(c)
  PROVE  KeepsTurn(c)'
<1>1. \A d, t : Held(d, t)' <=> Held(d, t)
  BY DEF Held
<1>2. AllHeld(c)'
  BY <1>1 DEF KeepsTurn, AllHeld
<1>3. AllHandled(c)'
  BY DEF KeepsTurn, AllHandled
<1> QED
  BY <1>2, <1>3 DEF KeepsTurn

LEMMA TurnRelease ==
  ASSUME TypeOK, TicketInv, NEW h \in Handlers,
         IncrementCurrCounter(h) \/ UnknownMethod(h), NEW c \in Clients, KeepsTurn(c)
  PROVE  KeepsTurn(c)'
<1>0. AllHeld(c) /\ AllHandled(c)
  BY DEF KeepsTurn
<1>1. /\ Busy(h)
      /\ UNCHANGED <<next, queue>>
      /\ \A g \in Handlers : Busy(g)' <=> g # h /\ Busy(g)
      /\ \A g \in Handlers \ {h} : hand'[g] = hand[g]
  BY DEF IncrementCurrCounter, UnknownMethod, TypeOK, Busy
<1>2. hand[h].client \in Clients /\ hand[h].exp = curr[hand[h].client]
  BY <1>1, RequestFacts DEF TicketInv, TurnInHand
<1>3. AllHeld(c)'
  <2>1. curr[c] \in Nat
    BY RequestFacts
  <2>2. CASE hand[h].client = c
    <3>1. curr'[c] = curr[c] + 1
      <4>1. ~ UnknownMethod(h)
        BY <1>0, <1>1, <2>2 DEF UnknownMethod, AllHandled
      <4> QED
        BY <2>1, <2>2, <4>1 DEF IncrementCurrCounter, TypeOK
    <3>2. SUFFICES ASSUME NEW t \in Nat, curr[c] + 1 <= t, t < next[c]
                   PROVE  Held(c, t)'
      BY <1>1, <3>1 DEF AllHeld
    <3>3. Held(c, t)
      BY <1>0, <2>1, <3>2 DEF AllHeld
    <3>4. t # hand[h].exp
      BY <1>2, <2>1, <2>2, <3>2
    <3> QED
      BY <1>1, <3>3, <3>4 DEF Held
  <2>3. CASE hand[h].client # c
    <3>1. curr'[c] = curr[c]
      BY <1>2, <2>1, <2>3 DEF IncrementCurrCounter, UnknownMethod, TypeOK
    <3>2. \A t : Held(c, t) => Held(c, t)'
      BY <1>1, <2>3 DEF Held
    <3> QED
      BY <1>0, <1>1, <3>1, <3>2 DEF AllHeld
  <2> QED
    BY <2>2, <2>3
<1>4. AllHandled(c)'
  BY <1>0, <1>1 DEF AllHandled
<1> QED
  BY <1>3, <1>4 DEF KeepsTurn

\* The threads and the event loop take no client's turn away.
LEMMA TurnServer ==
  ASSUME TypeOK, TicketInv, ServerStep, NEW c \in Clients, KeepsTurn(c)
  PROVE  KeepsTurn(c)'
<1>1. CASE \E h \in Handlers : TakesReady(h)
  BY <1>1, TurnTake
<1>2. CASE \E h \in Handlers : Execute(h) \/ Post(h)
  <2>1. UNCHANGED <<next, curr, queue, hand>>
    BY <1>2 DEF Execute, Post
  <2>2. \A g \in Handlers : Busy(g)' <=> Busy(g)
    BY <1>2 DEF Execute, Post, TypeOK, Busy
  <2> QED
    BY <2>1, <2>2, TurnOthers
<1>3. CASE \E h \in Handlers : IncrementCurrCounter(h) \/ UnknownMethod(h)
  BY <1>3, TurnRelease
<1>4. CASE OnResolve \/ UNCHANGED vars
  <2>1. UNCHANGED <<next, curr, queue, hand, pc>>
    BY <1>4 DEF OnResolve, vars
  <2>2. \A g \in Handlers : Busy(g)' <=> Busy(g)
    BY <2>1 DEF Busy
  <2> QED
    BY <2>1, <2>2, TurnOthers
<1> QED
  BY <1>1, <1>2, <1>3, <1>4 DEF ServerStep

LEMMA TurnOwned ==
  ASSUME TypeOK, NEW c \in Clients, KeepsTurn(c)
  PROVE  ~ Frozen(c)
<1> SUFFICES ASSUME Frozen(c) PROVE FALSE
  OBVIOUS
<1>1. curr[c] \in Nat /\ curr[c] < next[c] /\ ~ Held(c, curr[c])
  BY DEF Frozen, TypeOK
<1> QED
  BY <1>1 DEF KeepsTurn, AllHeld

LEMMA PatientStep ==
  ASSUME TypeOK, TicketInv, PatientInv, DispatchAssumption, [Next]_vars
  PROVE  PatientInv'
<1> SUFFICES ASSUME NEW p \in Patient PROVE KeepsTurn(p)'
  BY DEF PatientInv
<1>1. p \in Clients /\ KeepsTurn(p)
  BY DEF DispatchAssumption, PatientInv
<1>2. ASSUME NEW c \in Clients, NEW m \in Methods, Submit(c, m)
      PROVE  KeepsTurn(p)'
  <2>1. NewRequest(c, m) /\ MaySend(c, m)
    BY <1>2 DEF Submit
  <2> QED
    BY <1>1, <2>1, TurnSubmit DEF MaySend
<1>3. CASE ServerStep
  BY <1>1, <1>3, TurnServer
<1>4. (\E c \in Clients, m \in Methods : Submit(c, m)) \/ ServerStep
  <2>1. \A h \in Handlers : Dequeue(h) => TakesReady(h)
    BY DEF Dequeue, TakesReady
  <2> QED
    BY <2>1 DEF Next, ServerStep, ProcessNextRequest
<1> QED
  BY <1>2, <1>3, <1>4

LEMMA PatientInit == DispatchAssumption /\ Init => PatientInv
<1> SUFFICES ASSUME DispatchAssumption, Init PROVE PatientInv
  OBVIOUS
<1>1. \A h \in Handlers : ~ Busy(h) /\ DOMAIN queue[h] = {}
  BY DEF Init, Busy
<1>2. \A c \in Patient : c \in Clients /\ curr[c] = 0 /\ next[c] = 0
  BY DEF Init, DispatchAssumption
<1> QED
  BY <1>1, <1>2 DEF PatientInv, KeepsTurn, AllHeld, AllHandled

\* A patient client is never frozen, whatever the other clients send: its
\* turn always belongs to a request that waits or is being processed by a
\* thread that will increment the counter.
THEOREM PatientKeepsItsTurn == Spec => []PatientNeverFrozen
<1>1. Init => PatientInv
  BY PatientInit, DispatchAssumption
<1>2. TypeOK /\ TicketInv /\ PatientInv /\ [Next]_vars => PatientInv'
  BY PatientStep, DispatchAssumption
<1>3. TypeOK /\ PatientInv => PatientNeverFrozen
  BY TurnOwned, DispatchAssumption DEF PatientNeverFrozen, PatientInv, DispatchAssumption
<1> QED
  BY <1>1, <1>2, <1>3, SpecInvariant, PTL DEF Spec

-----------------------------------------------------------------------------
(***************************************************************************)
(* The replies of a client leave in the order of its requests.  A reply    *)
(* leaves in three steps: its thread posts an id, the id waits in the      *)
(* event queue, and the main thread sends what it finds under it.  The     *)
(* invariant speaks of the replies that left and of those on their way.    *)
(***************************************************************************)
\* The request whose reply the i-th queued onResolve call will send.
Coming(i) == replyList[events[i]]

\* A thread posts the id of the reply of the request it has in hand.
PostsItsOwn == \A h \in Handlers : pc[h] = "post" => replyList[slot[h]] = hand[h]

ComingInOrder ==
  \A i, j \in DOMAIN events :
    i < j /\ Coming(i).client = Coming(j).client => Coming(i).exp < Coming(j).exp

SentBeforeComing ==
  \A c \in Clients : \A i \in DOMAIN sent[c], j \in DOMAIN events :
    Coming(j).client = c => sent[c][i].exp < Coming(j).exp

\* Only tickets before the client's turn are answered, and its turn itself if
\* it remains to be counted.
MayBeAnswered(c, t) ==
  \/ t < curr[c]
  \/ t = curr[c] /\ \E h \in Handlers : pc[h] = "count" /\ hand[h].client = c

AnsweredBelowTurn ==
  /\ \A c \in Clients : \A i \in DOMAIN sent[c] : MayBeAnswered(c, sent[c][i].exp)
  /\ \A i \in DOMAIN events : MayBeAnswered(Coming(i).client, Coming(i).exp)

OrderInv ==
  /\ RepliesInOrder
  /\ PostsItsOwn
  /\ ComingInOrder
  /\ SentBeforeComing
  /\ AnsweredBelowTurn

\* What every step uses of the other invariants.
LEMMA ComingTyped ==
  ASSUME TypeOK, ReplyInv
  PROVE  /\ \A i \in DOMAIN events :
              /\ events[i] \in DOMAIN replyList
              /\ events[i] \in Nat /\ events[i] < replyNext
              /\ Coming(i) \in Requests
              /\ Coming(i).client \in Clients /\ Coming(i).exp \in Nat
         /\ \A c \in Clients : \A i \in DOMAIN sent[c] : sent[c][i].exp \in Nat
         /\ \A c \in Clients : curr[c] \in Nat
<1>1. ASSUME NEW i \in DOMAIN events
      PROVE  /\ events[i] \in DOMAIN replyList
             /\ events[i] \in Nat /\ events[i] < replyNext
             /\ Coming(i) \in Requests
  BY DEF TypeOK, ReplyInv, PostedIsRegistered, Coming
<1>2. \A c \in Clients : \A i \in DOMAIN sent[c] : sent[c][i].exp \in Nat
  <2> DEFINE R == [exp : Nat, resolve : RpcMethods \cup {NoReply}]
  <2>1. \A r \in R : r.exp \in Nat
    OBVIOUS
  <2>2. sent \in [Clients -> Seq(R)]
    BY DEF TypeOK
  <2> HIDE DEF R
  <2> QED
    BY <2>1, <2>2
<1> QED
  BY <1>1, <1>2 DEF TypeOK, Requests

\* A step that leaves the replies alone and takes no thread away from its count
\* keeps the order.
LEMMA QuietOrder ==
  ASSUME TypeOK, ReplyInv, OrderInv,
         UNCHANGED <<curr, replyList, events, sent>>,
         \A h \in Handlers : pc[h] = "count" => pc'[h] = "count" /\ hand'[h] = hand[h],
         \A h \in Handlers : pc'[h] = "post" =>
           pc[h] = "post" /\ slot'[h] = slot[h] /\ hand'[h] = hand[h]
  PROVE  OrderInv'
<1>1. RepliesInOrder' /\ ComingInOrder' /\ SentBeforeComing'
  BY DEF OrderInv, RepliesInOrder, ComingInOrder, SentBeforeComing, Coming
<1>2. PostsItsOwn'
  BY DEF OrderInv, PostsItsOwn
<1>3. \A c, t : MayBeAnswered(c, t) => MayBeAnswered(c, t)'
  BY DEF MayBeAnswered
<1>4. AnsweredBelowTurn'
  BY <1>3 DEF OrderInv, AnsweredBelowTurn, Coming
<1> QED
  BY <1>1, <1>2, <1>4 DEF OrderInv

LEMMA ExecuteOrder ==
  ASSUME TypeOK, ReplyInv, OrderInv, NEW h \in Handlers, Execute(h)
  PROVE  OrderInv'
<1>1. pc[h] = "run" /\ UNCHANGED <<curr, hand, events, sent>>
  BY DEF Execute
<1>2. CASE /\ AddReply(h)
           /\ pc' = [pc EXCEPT ![h] = "post"]
  <2>1. /\ replyList'[replyNext] = hand[h]
        /\ \A id \in DOMAIN replyList : id # replyNext => replyList'[id] = replyList[id]
        /\ slot' = [slot EXCEPT ![h] = replyNext]
    BY <1>2 DEF AddReply
  <2>2. \A i \in DOMAIN events : Coming(i)' = Coming(i)
    <3>1. \A i \in DOMAIN events : events[i] \in DOMAIN replyList /\ events[i] # replyNext
      <4>1. replyNext \in Nat
        BY DEF TypeOK
      <4> QED
        BY <4>1, ComingTyped
    <3> QED
      BY <1>1, <2>1, <3>1 DEF Coming
  <2>3. PostsItsOwn'
    <3>1. \A g \in Handlers : pc[g] = "post" =>
            slot[g] \in DOMAIN replyList /\ slot[g] # replyNext
      BY DEF TypeOK, ReplyInv, PostedIsRegistered
    <3>2. ASSUME NEW g \in Handlers, pc'[g] = "post"
          PROVE  replyList'[slot'[g]] = hand'[g]
      <4>1. CASE g = h
        BY <1>1, <2>1, <4>1 DEF TypeOK
      <4>2. CASE g # h
        <5>1. pc[g] = "post" /\ slot'[g] = slot[g]
          BY <1>2, <2>1, <3>2, <4>2 DEF TypeOK
        <5> QED
          BY <1>1, <2>1, <3>1, <5>1 DEF OrderInv, PostsItsOwn
      <4> QED
        BY <4>1, <4>2
    <3> QED
      BY <3>2 DEF PostsItsOwn
  <2>4. \A c, t : MayBeAnswered(c, t) => MayBeAnswered(c, t)'
    <3>1. \A g \in Handlers : pc[g] = "count" => pc'[g] = "count"
      BY <1>1, <1>2 DEF TypeOK
    <3> QED
      BY <1>1, <3>1 DEF MayBeAnswered
  <2>5. AnsweredBelowTurn'
    BY <1>1, <2>2, <2>4 DEF OrderInv, AnsweredBelowTurn
  <2>6. RepliesInOrder' /\ ComingInOrder' /\ SentBeforeComing'
    BY <1>1, <2>2 DEF OrderInv, RepliesInOrder, ComingInOrder, SentBeforeComing
  <2> QED
    BY <2>3, <2>5, <2>6 DEF OrderInv
<1>3. CASE /\ pc' = [pc EXCEPT ![h] = "count"]
           /\ UNCHANGED <<slot, replyList, replyNext>>
  BY <1>1, <1>3, QuietOrder DEF TypeOK
<1> QED
  BY <1>2, <1>3 DEF Execute

\* A thread posts while its ticket is the client's turn: everything posted for
\* that client before is for a smaller one, for no other thread is at its count.
LEMMA PostOrder ==
  ASSUME TypeOK, ReplyInv, TicketInv, OrderInv, NEW h \in Handlers, Post(h)
  PROVE  OrderInv'
<1>0. PICK c, n : c = hand[h].client /\ n = Len(events) + 1
  OBVIOUS
<1>1. /\ pc[h] = "post"
      /\ events' = Append(events, slot[h])
      /\ slot' = [slot EXCEPT ![h] = 0]
      /\ pc' = [pc EXCEPT ![h] = "count"]
      /\ UNCHANGED <<curr, hand, replyList, sent>>
  BY DEF Post
<1>2. /\ hand[h] \in Requests /\ c \in Clients /\ hand[h].exp \in Nat
      /\ hand[h].exp = curr[c]
      /\ replyList[slot[h]] = hand[h]
  BY <1>0, <1>1 DEF TypeOK, Requests, TicketInv, TurnInHand, Busy, OrderInv, PostsItsOwn
<1>3. \A g \in Handlers : pc[g] = "count" => hand[g].client # c
  BY <1>0, <1>1 DEF TicketInv, OneHandlerPerClient, Busy
<1>4. /\ DOMAIN events' = DOMAIN events \cup {n}
      /\ n \in Nat /\ \A i \in DOMAIN events : i \in Nat /\ i < n
      /\ Coming(n)' = hand[h]
      /\ \A i \in DOMAIN events : Coming(i)' = Coming(i)
  <2>1. events \in Seq(Nat) /\ slot[h] \in Nat
    BY DEF TypeOK
  <2>2. /\ DOMAIN events' = 1 .. n
        /\ DOMAIN events = 1 .. n - 1
        /\ n \in Nat /\ n >= 1
        /\ events'[n] = slot[h]
        /\ \A i \in DOMAIN events : events'[i] = events[i]
    BY <1>0, <1>1, <2>1
  <2> QED
    BY <1>1, <1>2, <2>2 DEF Coming
<1>5. \A i \in DOMAIN events : Coming(i).client = c => Coming(i).exp < hand[h].exp
  BY <1>2, <1>3 DEF OrderInv, AnsweredBelowTurn, MayBeAnswered
<1>6. \A i \in DOMAIN sent[c] : sent[c][i].exp < hand[h].exp
  BY <1>2, <1>3 DEF OrderInv, AnsweredBelowTurn, MayBeAnswered
<1>7. ComingInOrder'
  <2> SUFFICES ASSUME NEW i \in DOMAIN events', NEW j \in DOMAIN events',
                      i < j, (Coming(i).client = Coming(j).client)'
               PROVE  (Coming(i).exp < Coming(j).exp)'
    BY DEF ComingInOrder
  <2>1. i \in DOMAIN events
    BY <1>4
  <2>2. CASE j = n
    BY <1>0, <1>4, <1>5, <2>1, <2>2
  <2>3. CASE j \in DOMAIN events
    BY <1>4, <2>1, <2>3 DEF OrderInv, ComingInOrder
  <2> QED
    BY <1>4, <2>2, <2>3
<1>8. SentBeforeComing'
  <2> SUFFICES ASSUME NEW d \in Clients, NEW i \in DOMAIN sent'[d],
                      NEW j \in DOMAIN events', (Coming(j).client = d)'
               PROVE  (sent[d][i].exp < Coming(j).exp)'
    BY DEF SentBeforeComing
  <2>1. sent' = sent
    BY <1>1
  <2>2. CASE j = n
    BY <1>0, <1>4, <1>6, <2>1, <2>2
  <2>3. CASE j \in DOMAIN events
    BY <1>4, <2>1, <2>3 DEF OrderInv, SentBeforeComing
  <2> QED
    BY <1>4, <2>2, <2>3
<1>9. AnsweredBelowTurn'
  <2>1. \A d, t : MayBeAnswered(d, t) => MayBeAnswered(d, t)'
    <3>1. \A g \in Handlers : pc[g] = "count" => pc'[g] = "count"
      BY <1>1 DEF TypeOK
    <3> QED
      BY <1>1, <3>1 DEF MayBeAnswered
  <2>2. MayBeAnswered(hand[h].client, hand[h].exp)'
    <3>1. pc'[h] = "count" /\ hand' = hand /\ curr' = curr
      BY <1>1 DEF TypeOK
    <3> QED
      BY <1>0, <1>2, <3>1 DEF MayBeAnswered
  <2>3. \A d \in Clients : \A i \in DOMAIN sent'[d] : MayBeAnswered(d, sent[d][i].exp)'
    BY <1>1, <2>1 DEF OrderInv, AnsweredBelowTurn
  <2>4. \A i \in DOMAIN events' : MayBeAnswered(Coming(i).client, Coming(i).exp)'
    <3> SUFFICES ASSUME NEW i \in DOMAIN events'
                 PROVE  MayBeAnswered(Coming(i).client, Coming(i).exp)'
      OBVIOUS
    <3>1. CASE i = n
      BY <1>1, <1>4, <2>2, <3>1
    <3>2. CASE i \in DOMAIN events
      <4>1. MayBeAnswered(Coming(i).client, Coming(i).exp)
        BY <3>2 DEF OrderInv, AnsweredBelowTurn
      <4> QED
        BY <1>4, <2>1, <3>2, <4>1
    <3> QED
      BY <1>4, <3>1, <3>2
  <2> QED
    BY <2>3, <2>4 DEF AnsweredBelowTurn
<1>10. PostsItsOwn'
  BY <1>1 DEF TypeOK, OrderInv, PostsItsOwn
<1>11. RepliesInOrder'
  BY <1>1 DEF OrderInv, RepliesInOrder
<1> QED
  BY <1>7, <1>8, <1>9, <1>10, <1>11 DEF OrderInv

LEMMA IncrementOrder ==
  ASSUME TypeOK, ReplyInv, OrderInv, NEW h \in Handlers, IncrementCurrCounter(h)
  PROVE  OrderInv'
<1> DEFINE c == hand[h].client
<1>1. /\ pc[h] = "count"
      /\ curr' = [curr EXCEPT ![c] = @ + 1]
      /\ hand' = [hand EXCEPT ![h] = NoRequest]
      /\ pc' = [pc EXCEPT ![h] = "idle"]
      /\ UNCHANGED <<slot, replyList, events, sent>>
  BY DEF IncrementCurrCounter
<1>2. c \in Clients /\ curr[c] \in Nat
  BY <1>1 DEF TypeOK, Requests
<1> HIDE DEF c
<1>3. ASSUME NEW d \in Clients, NEW t \in Nat, MayBeAnswered(d, t)
      PROVE  MayBeAnswered(d, t)'
  <2>1. CASE d = c
    <3>1. t <= curr[c] /\ curr'[c] = curr[c] + 1
      BY <1>1, <1>2, <1>3, <2>1 DEF TypeOK, MayBeAnswered
    <3> QED
      BY <1>2, <2>1, <3>1 DEF MayBeAnswered
  <2>2. CASE d # c
    <3>1. curr'[d] = curr[d]
      BY <1>1, <2>2 DEF TypeOK
    <3>2. \A g \in Handlers : pc[g] = "count" /\ hand[g].client = d
            => pc'[g] = "count" /\ hand'[g].client = d
      BY <1>1, <2>2 DEF TypeOK, c
    <3> QED
      BY <1>3, <3>1, <3>2 DEF MayBeAnswered
  <2> QED
    BY <2>1, <2>2
<1>4. AnsweredBelowTurn'
  BY <1>1, <1>3, ComingTyped DEF OrderInv, AnsweredBelowTurn, Coming
<1>5. PostsItsOwn'
  BY <1>1 DEF TypeOK, OrderInv, PostsItsOwn
<1>6. RepliesInOrder' /\ ComingInOrder' /\ SentBeforeComing'
  BY <1>1 DEF OrderInv, RepliesInOrder, ComingInOrder, SentBeforeComing, Coming
<1> QED
  BY <1>4, <1>5, <1>6 DEF OrderInv

\* The main thread sends the first reply on its way: all that left before are
\* for smaller tickets of the client, all still on their way for greater ones.
LEMMA OnResolveOrder ==
  ASSUME TypeOK, ReplyInv, OrderInv, OnResolve
  PROVE  OrderInv'
<1>0. PICK r, c : r = Coming(1) /\ c = r.client
  OBVIOUS
<1>1. /\ events # <<>>
      /\ replyList' = [i \in DOMAIN replyList \ {events[1]} |-> replyList[i]]
      /\ sent' = [sent EXCEPT ![c] = Append(sent[c], [exp |-> r.exp, resolve |-> r.resolve])]
      /\ events' = Tail(events)
      /\ UNCHANGED <<curr, pc, hand, slot>>
  <2>1. Head(events) = events[1]
    BY DEF OnResolve, TypeOK
  <2> QED
    BY <1>0, <2>1 DEF OnResolve, Coming
<1>2. /\ 1 \in DOMAIN events
      /\ \A i \in DOMAIN events' :
           i + 1 \in DOMAIN events /\ 1 < i + 1 /\ events'[i] = events[i + 1]
      /\ \A i, j \in DOMAIN events' : i < j => i + 1 < j + 1
  BY <1>1 DEF TypeOK
<1>3. r \in Requests /\ c \in Clients /\ r.exp \in Nat
  BY <1>0, <1>2, ComingTyped
<1>4. \A i \in DOMAIN events' : Coming(i)' = Coming(i + 1)
  <2> SUFFICES ASSUME NEW i \in DOMAIN events'
               PROVE  Coming(i)' = Coming(i + 1)
    OBVIOUS
  <2>1. events'[i] = events[i + 1] /\ i + 1 \in DOMAIN events /\ i + 1 # 1
    BY <1>2
  <2>2. events[i + 1] # events[1] /\ events[i + 1] \in DOMAIN replyList
    BY <1>2, <2>1 DEF ReplyInv, PostedIsRegistered
  <2> QED
    BY <1>1, <2>1, <2>2 DEF Coming
<1>5. PICK n : n = Len(sent[c]) + 1
  OBVIOUS
<1>6. /\ DOMAIN sent'[c] = DOMAIN sent[c] \cup {n}
      /\ n \in Nat /\ \A i \in DOMAIN sent[c] : i \in Nat /\ i < n
      /\ sent'[c][n].exp = r.exp
      /\ \A i \in DOMAIN sent[c] : sent'[c][i] = sent[c][i]
      /\ \A d \in Clients \ {c} : sent'[d] = sent[d]
  <2> DEFINE R == [exp : Nat, resolve : RpcMethods \cup {NoReply}]
             x == [exp |-> r.exp, resolve |-> r.resolve]
  <2>1. sent \in [Clients -> Seq(R)]
    BY DEF TypeOK
  <2>2. x \in R /\ x.exp = r.exp
    BY <1>3 DEF Requests
  <2>3. sent'[c] = Append(sent[c], x) /\ \A d \in Clients \ {c} : sent'[d] = sent[d]
    BY <1>1, <1>3, <2>1
  <2> HIDE DEF R, x
  <2>4. sent[c] \in Seq(R)
    BY <1>3, <2>1
  <2>5. /\ DOMAIN Append(sent[c], x) = 1 .. n
        /\ DOMAIN sent[c] = 1 .. n - 1
        /\ n \in Nat /\ n >= 1
        /\ Append(sent[c], x)[n] = x
        /\ \A i \in DOMAIN sent[c] : Append(sent[c], x)[i] = sent[c][i]
    BY <1>5, <2>2, <2>4
  <2> QED
    BY <2>2, <2>3, <2>5
<1>7. RepliesInOrder'
  <2> SUFFICES ASSUME NEW d \in Clients, NEW i \in DOMAIN sent'[d],
                      NEW j \in DOMAIN sent'[d], i < j
               PROVE  (sent[d][i].exp < sent[d][j].exp)'
    BY DEF RepliesInOrder
  <2>1. CASE d # c
    BY <1>6, <2>1 DEF OrderInv, RepliesInOrder
  <2>2. CASE d = c /\ j \in DOMAIN sent[c]
    <3>1. i \in DOMAIN sent[c]
      BY <1>6, <2>2
    <3> QED
      BY <1>3, <1>6, <2>2, <3>1 DEF OrderInv, RepliesInOrder
  <2>3. CASE d = c /\ j = n
    <3>1. i \in DOMAIN sent[c]
      BY <1>6, <2>3
    <3>2. sent[c][i].exp < r.exp
      BY <1>0, <1>2, <1>3, <3>1 DEF OrderInv, SentBeforeComing
    <3> QED
      BY <1>6, <2>3, <3>1, <3>2
  <2> QED
    BY <1>6, <2>1, <2>2, <2>3
<1>8. ComingInOrder'
  BY <1>2, <1>4 DEF OrderInv, ComingInOrder
<1>9. SentBeforeComing'
  <2> SUFFICES ASSUME NEW d \in Clients, NEW i \in DOMAIN sent'[d],
                      NEW j \in DOMAIN events', (Coming(j).client = d)'
               PROVE  (sent[d][i].exp < Coming(j).exp)'
    BY DEF SentBeforeComing
  <2>1. j + 1 \in DOMAIN events /\ 1 < j + 1 /\ Coming(j)' = Coming(j + 1)
    BY <1>2, <1>4
  <2>2. CASE d = c /\ i = n
    <3>1. Coming(1).client = Coming(j + 1).client
      BY <1>0, <2>1, <2>2
    <3>2. Coming(1).exp < Coming(j + 1).exp
      BY <1>2, <2>1, <3>1 DEF OrderInv, ComingInOrder
    <3> QED
      BY <1>0, <1>6, <2>1, <2>2, <3>2
  <2>3. CASE i \in DOMAIN sent[d] /\ sent'[d][i] = sent[d][i]
    <3>1. Coming(j + 1).client = d
      BY <2>1
    <3> QED
      BY <2>1, <2>3, <3>1 DEF OrderInv, SentBeforeComing
  <2> QED
    BY <1>3, <1>6, <2>2, <2>3
<1>10. AnsweredBelowTurn'
  <2>1. \A d, t : MayBeAnswered(d, t) => MayBeAnswered(d, t)'
    BY <1>1 DEF MayBeAnswered
  <2>2. \A i \in DOMAIN events : MayBeAnswered(Coming(i).client, Coming(i).exp)
    BY DEF OrderInv, AnsweredBelowTurn
  <2>3. \A i \in DOMAIN events' : MayBeAnswered(Coming(i).client, Coming(i).exp)'
    BY <1>2, <1>4, <2>1, <2>2
  <2>4. ASSUME NEW d \in Clients, NEW i \in DOMAIN sent'[d]
        PROVE  MayBeAnswered(d, sent[d][i].exp)'
    <3>1. CASE d = c /\ i = n
      <4>1. MayBeAnswered(c, r.exp)
        BY <1>0, <1>2, <2>2
      <4> QED
        BY <1>6, <2>1, <3>1, <4>1
    <3>2. CASE i \in DOMAIN sent[d] /\ sent'[d][i] = sent[d][i]
      <4>1. MayBeAnswered(d, sent[d][i].exp)
        BY <3>2 DEF OrderInv, AnsweredBelowTurn
      <4> QED
        BY <2>1, <3>2, <4>1
    <3> QED
      BY <1>3, <1>6, <3>1, <3>2
  <2> QED
    BY <2>3, <2>4 DEF AnsweredBelowTurn
<1>11. PostsItsOwn'
  <2>1. \A g \in Handlers : pc[g] = "post" =>
          slot[g] \in DOMAIN replyList /\ slot[g] # events[1]
    BY <1>2 DEF ReplyInv, PostedIsRegistered
  <2> QED
    BY <1>1, <2>1 DEF OrderInv, PostsItsOwn
<1> QED
  BY <1>7, <1>8, <1>9, <1>10, <1>11 DEF OrderInv

LEMMA InitOrder == Init => OrderInv
  BY DEF Init, OrderInv, RepliesInOrder, PostsItsOwn, ComingInOrder,
         SentBeforeComing, AnsweredBelowTurn

LEMMA StepOrder ==
  TypeOK /\ ReplyInv /\ TicketInv /\ OrderInv /\ DispatchStep => OrderInv'
<1> SUFFICES ASSUME TypeOK, ReplyInv, TicketInv, OrderInv, DispatchStep
             PROVE  OrderInv'
  OBVIOUS
<1>1. CASE UNCHANGED vars
  BY <1>1, QuietOrder DEF vars
<1>2. CASE \E c \in Clients, m \in Methods : NewRequest(c, m)
  BY <1>2, QuietOrder DEF NewRequest
<1>3. ASSUME NEW h \in Handlers, TakesReady(h)
      PROVE  OrderInv'
  BY <1>3, QuietOrder DEF TakesReady, TypeOK
<1>4. ASSUME NEW h \in Handlers, UnknownMethod(h)
      PROVE  OrderInv'
  BY <1>4, QuietOrder DEF UnknownMethod, TypeOK
<1> QED
  BY <1>1, <1>2, <1>3, <1>4, ExecuteOrder, PostOrder, IncrementOrder, OnResolveOrder
     DEF DispatchStep, ServerStep

LEMMA SpecOrder == Spec => [](TypeOK /\ ReplyInv /\ TicketInv /\ OrderInv)
<1>1. Init => TypeOK /\ ReplyInv /\ OrderInv
  BY InitTyped, InitOrder
<1>2. TypeOK /\ ReplyInv /\ [Next]_vars => TypeOK' /\ ReplyInv'
  BY NextTyped
<1>3. TypeOK /\ ReplyInv /\ TicketInv /\ OrderInv /\ [Next]_vars => OrderInv'
  BY NextIsDispatchStep, StepOrder
<1>4. Spec => [](TypeOK /\ TicketInv)
  BY SpecInvariant
<1> QED
  BY <1>1, <1>2, <1>3, <1>4, PTL DEF Spec

\* The replies of a client leave in the order of its requests, although two
\* threads compute them and a third one sends them.
THEOREM AnswersInOrder == Spec => []RepliesInOrder
<1>1. OrderInv => RepliesInOrder
  BY DEF OrderInv
<1> QED
  BY <1>1, SpecOrder, PTL

-----------------------------------------------------------------------------
(***************************************************************************)
(* What the clients see of the two queues and the two threads.             *)
(***************************************************************************)
LEMMA WorkingFor ==
  \A c : c \in Working <=> \E h \in Handlers : Busy(h) /\ hand[h].client = c
  BY DEF Working

\* A client is jammed as before if its counters and the holders of its
\* tickets are.
LEMMA FrozenAsBefore ==
  ASSUME TypeOK, NEW d \in Clients,
         next'[d] = next[d], curr'[d] = curr[d],
         \A t \in Nat : Held(d, t)' <=> Held(d, t)
  PROVE  Frozen(d)' <=> Frozen(d)
<1>1. PICK t \in Nat : t = curr[d]
  BY DEF TypeOK
<1>2. Held(d, curr[d]) <=> Held(d, t)
  BY <1>1
<1>3. (Held(d, curr[d]))' <=> Held(d, t)'
  BY <1>1 DEF Held
<1> QED
  BY <1>1, <1>2, <1>3 DEF Frozen

\* If one client alone may become jammed, and none recovers, the jammed clients
\* stay the same or there is one more.
LEMMA OneMoreJammed ==
  ASSUME NEW c \in Clients,
         \A d \in Clients : Frozen(d) => Frozen(d)',
         \A d \in Clients \ {c} : Frozen(d)' => Frozen(d)
  PROVE  Jammed' \in {Jammed, Jammed \cup {c}}
<1>1. CASE Frozen(c)'
  <2>1. Jammed' = Jammed \cup {c}
    BY <1>1 DEF Jammed
  <2> QED
    BY <2>1
<1>2. CASE ~ Frozen(c)'
  <2>1. Jammed' = Jammed
    BY <1>2 DEF Jammed
  <2> QED
    BY <2>1
<1> QED
  BY <1>1, <1>2

-----------------------------------------------------------------------------
(***************************************************************************)
(* newRequest accepts.                                                     *)
(***************************************************************************)

\* newRequest takes no ticket from another client.
LEMMA SubmitKeepsOthers ==
  ASSUME TypeOK, TicketInv, NEW c \in Clients, NEW m \in Methods, NewRequest(c, m),
         NEW d \in Clients \ {c}, NEW t \in Nat, Held(d, t)
  PROVE  Held(d, t)'
<1>1. PICK H \in SUBSET Handlers, r \in [Handlers -> Requests] : Enqueues(c, m, H, r)
  BY NewRequestEnqueues
<1>2. UNCHANGED <<pc, hand>>
  BY DEF NewRequest
<1>3. /\ \A h \in H : r[h].client = c
      /\ \A h \in Handlers \ H : queue'[h] = queue[h]
      /\ \A h \in H : queue'[h] = Enqueue(queue[h], r[h])
      /\ \A h \in Handlers : queue[h] \in Seq(Requests) /\ r[h] \in Requests
  BY <1>1, RequestFacts DEF Enqueues, Fresh
<1>4. \A h \in Handlers : \A k \in DOMAIN queue[h] : queue[h][k].client = d =>
        k \in DOMAIN queue'[h] /\ queue'[h][k] = queue[h][k]
  <2> SUFFICES ASSUME NEW h \in H, NEW k \in DOMAIN queue[h], queue[h][k].client = d
               PROVE  k \in DOMAIN queue'[h] /\ queue'[h][k] = queue[h][k]
    BY <1>3
  <2>1. ~ Overrides(r[h], queue[h][k])
    BY <1>3 DEF Overrides
  <2> QED
    BY <1>3, <2>1, EnqueueKeeps
<1> QED
  BY <1>2, <1>4 DEF Held, Busy

LEMMA SubmitAccepts ==
  ASSUME TypeOK, TicketInv, NEW c \in Clients, NEW m \in Methods, NewRequest(c, m)
  PROVE  Served!Accept(c)
<1>1. UNCHANGED <<curr, pc, hand, sent>>
  BY DEF NewRequest
<1>2. \E n \in {1, 2} : next' = [next EXCEPT ![c] = @ + n]
  BY DEF NewRequest, One, Two
<1>3. Working' = Working /\ Answers' = Answers
  BY <1>1 DEF Working, Busy, Answers
<1>4. \A d \in Clients : Frozen(d) => Frozen(d)'
  BY SubmitFrozen
<1>5. ASSUME NEW d \in Clients \ {c}, Frozen(d)'
      PROVE  Frozen(d)
  <2>1. PICK t \in Nat : t = curr[d]
    BY DEF TypeOK
  <2>2. next'[d] = next[d] /\ curr'[d] = t
    BY <1>1, <1>2, <2>1 DEF TypeOK
  <2>3. ~ Held(d, t)'
    BY <1>5, <2>2 DEF Frozen, Held
  <2>4. ~ Held(d, t)
    BY <2>3, SubmitKeepsOthers
  <2> QED
    BY <1>5, <2>1, <2>2, <2>4 DEF Frozen
<1>6. Jammed' \in {Jammed, Jammed \cup {c}}
  BY <1>4, <1>5, OneMoreJammed
<1> QED
  BY <1>1, <1>2, <1>3, <1>6 DEF Served!Accept

-----------------------------------------------------------------------------
(***************************************************************************)
(* processNextRequest starts, completes or abandons a turn.                *)
(***************************************************************************)

\* The request a thread takes keeps its ticket.
LEMMA TakeHolds ==
  ASSUME TypeOK, TicketInv, NEW h \in Handlers, TakesReady(h),
         NEW d \in Clients, NEW t \in Nat, Held(d, t)
  PROVE  Held(d, t)'
<1>1. PICK i \in DOMAIN queue[h] :
        /\ hand' = [hand EXCEPT ![h] = queue[h][i]]
        /\ queue' = [queue EXCEPT ![h] = RemoveAt(queue[h], i)]
  BY DEF TakesReady
<1>2. /\ \A g \in Handlers : Busy(g) => g # h
      /\ \A g \in Handlers : Busy(g)' <=> g = h \/ Busy(g)
      /\ hand'[h] = queue[h][i]
      /\ \A g \in Handlers \ {h} : hand'[g] = hand[g] /\ queue'[g] = queue[g]
      /\ queue'[h] = RemoveAt(queue[h], i)
  BY <1>1 DEF TakesReady, TypeOK, Busy
<1>3. queue[h] \in Seq(Requests)
  BY RequestFacts
<1>4. \A k \in DOMAIN queue[h] \ {i} : \E j \in DOMAIN queue'[h] : queue'[h][j] = queue[h][k]
  BY <1>1, <1>2, <1>3, RemoveAtCovers
<1>5. PICK g \in Handlers :
        \/ \E k \in DOMAIN queue[g] : queue[g][k].client = d /\ queue[g][k].exp = t
        \/ Busy(g) /\ hand[g].client = d /\ hand[g].exp = t
  BY DEF Held
<1>6. CASE Busy(g) /\ hand[g].client = d /\ hand[g].exp = t
  BY <1>2, <1>6 DEF Held
<1>7. ASSUME NEW k \in DOMAIN queue[g], queue[g][k].client = d, queue[g][k].exp = t
      PROVE  Held(d, t)'
  <2>1. CASE g # h
    BY <1>2, <1>7, <2>1 DEF Held
  <2>2. CASE g = h /\ k = i
    BY <1>2, <1>7, <2>2 DEF Held
  <2>3. CASE g = h /\ k # i
    BY <1>4, <1>7, <2>3 DEF Held
  <2> QED
    BY <2>1, <2>2, <2>3
<1> QED
  BY <1>5, <1>6, <1>7

LEMMA TakeStarts ==
  ASSUME TypeOK, TicketInv, NEW h \in Handlers, TakesReady(h)
  PROVE  \E c \in Clients : Served!Start(c)
<1>1. PICK i \in DOMAIN queue[h] :
        IsReady(queue[h][i]) /\ hand' = [hand EXCEPT ![h] = queue[h][i]]
  BY DEF TakesReady
<1>2. PICK c \in Clients : c = queue[h][i].client
  BY RequestFacts
<1>3. /\ UNCHANGED <<next, curr, sent>>
      /\ ~ Busy(h)
      /\ \A g \in Handlers : Busy(g)' <=> g = h \/ Busy(g)
      /\ hand'[h].client = c
      /\ \A g \in Handlers \ {h} : hand'[g] = hand[g]
  BY <1>1, <1>2 DEF TakesReady, TypeOK, Busy
<1>4. TicketInv' /\ \A d \in Clients, t \in Nat : Held(d, t)' <=> Held(d, t)
  BY TakeTickets, TakeHolds
<1>5. Jammed' = Jammed /\ Answers' = Answers
  BY <1>3, <1>4, FrozenAsBefore DEF Jammed, Answers
<1>6. Working' = Working \cup {c}
  BY <1>3 DEF Working
<1>7. c \notin Working
  <2> SUFFICES ASSUME NEW g \in Handlers, Busy(g), hand[g].client = c PROVE FALSE
    BY WorkingFor
  <2>1. g # h /\ Busy(g)' /\ Busy(h)' /\ hand'[g].client = hand'[h].client
    BY <1>3
  <2> QED
    BY <1>4, <2>1 DEF TicketInv, OneHandlerPerClient
<1>8. queue[h][i].exp = curr[c] /\ curr[c] < next[c]
  BY <1>1, <1>2 DEF IsReady, TicketInv, WaitingHandedOut
<1>9. c \notin Jammed
  BY <1>2, <1>8 DEF Jammed, Frozen, Held
<1> QED
  BY <1>3, <1>5, <1>6, <1>7, <1>8, <1>9 DEF Served!Start

\* What a thread that lets go of its request changes for the clients.
LEMMA ReleaseChanges ==
  ASSUME TypeOK, TicketInv, NEW h \in Handlers,
         IncrementCurrCounter(h) \/ UnknownMethod(h)
  PROVE  /\ hand[h].client \in Working
         /\ Working' = Working \ {hand[h].client}
         /\ Answers' = Answers
         /\ \A d \in Clients \ {hand[h].client} : Frozen(d)' <=> Frozen(d)
<1>1. /\ Busy(h)
      /\ UNCHANGED <<next, queue, sent>>
      /\ \A g \in Handlers : Busy(g)' <=> g # h /\ Busy(g)
      /\ \A g \in Handlers \ {h} : hand'[g] = hand[g]
  BY DEF IncrementCurrCounter, UnknownMethod, TypeOK, Busy
<1>2. PICK c \in Clients : c = hand[h].client
  BY <1>1, RequestFacts
<1>3. \A g \in Handlers \ {h} : Busy(g) => hand[g].client # c
  BY <1>1, <1>2 DEF TicketInv, OneHandlerPerClient
<1>4. Working' = Working \ {c}
  BY <1>1, <1>2, <1>3 DEF Working
<1>5. ASSUME NEW d \in Clients \ {c}
      PROVE  Frozen(d)' <=> Frozen(d)
  <2>1. \A t \in Nat : Held(d, t)' <=> Held(d, t)
    BY <1>1, <1>2 DEF Held
  <2>2. curr'[d] = curr[d]
    BY <1>2 DEF IncrementCurrCounter, UnknownMethod, TypeOK
  <2> QED
    BY <1>1, <2>1, <2>2, FrozenAsBefore
<1> QED
  BY <1>1, <1>2, <1>4, <1>5 DEF Answers, Working

LEMMA IncrementCompletes ==
  ASSUME TypeOK, TicketInv, NEW h \in Handlers, IncrementCurrCounter(h)
  PROVE  \E c \in Clients : Served!Complete(c)
<1>1. Busy(h) /\ UNCHANGED next
  BY DEF IncrementCurrCounter, Busy
<1>2. PICK c \in Clients : c = hand[h].client
  BY <1>1, RequestFacts
<1>3. curr' = [curr EXCEPT ![c] = @ + 1]
  BY <1>2 DEF IncrementCurrCounter
<1>4. /\ c \in Working
      /\ Working' = Working \ {c}
      /\ Answers' = Answers
      /\ \A d \in Clients \ {c} : Frozen(d)' <=> Frozen(d)
  BY <1>2, ReleaseChanges
<1>5. \A d \in Clients : Frozen(d) => Frozen(d)'
  BY ServerFrozen DEF ServerStep
<1>6. Jammed' \in {Jammed, Jammed \cup {c}}
  BY <1>4, <1>5, OneMoreJammed
<1> QED
  BY <1>1, <1>3, <1>4, <1>6 DEF Served!Complete

\* Without an increment nobody holds the client's turn any more: the requests
\* it has waiting are for later ones.
LEMMA UnknownAbandons ==
  ASSUME TypeOK, TicketInv, NEW h \in Handlers, UnknownMethod(h)
  PROVE  \E c \in Clients : Served!Abandon(c)
<1>1. /\ Busy(h)
      /\ UNCHANGED <<next, curr, queue>>
      /\ \A g \in Handlers : Busy(g)' <=> g # h /\ Busy(g)
      /\ \A g \in Handlers \ {h} : hand'[g] = hand[g]
  BY DEF UnknownMethod, TypeOK, Busy
<1>2. PICK c \in Clients : c = hand[h].client
  BY <1>1, RequestFacts
<1>3. PICK t \in Nat : t = curr[c]
  BY RequestFacts
<1>4. hand[h].exp = t /\ t < next[c]
  BY <1>1, <1>2, <1>3 DEF TicketInv, TurnInHand
<1>5. /\ c \in Working
      /\ Working' = Working \ {c}
      /\ Answers' = Answers
      /\ \A d \in Clients \ {c} : Frozen(d)' <=> Frozen(d)
  BY <1>2, ReleaseChanges
<1>6. ~ Held(c, t)'
  <2>1. \A g \in Handlers \ {h} : Busy(g) => hand[g].client # c
    BY <1>1, <1>2 DEF TicketInv, OneHandlerPerClient
  <2>2. \A g \in Handlers : \A i \in DOMAIN queue[g] :
          queue[g][i].client = c => t < queue[g][i].exp
    BY <1>1, <1>2, <1>4 DEF TicketInv, ServedOnce
  <2> QED
    BY <1>1, <2>1, <2>2 DEF Held
<1>7. Frozen(c)'
  <2>1. curr'[c] = t /\ curr'[c] < next'[c]
    BY <1>1, <1>3, <1>4
  <2> QED
    BY <1>6, <2>1 DEF Frozen, Held
<1>8. Jammed' = Jammed \cup {c}
  BY <1>5, <1>7 DEF Jammed
<1> QED
  BY <1>1, <1>5, <1>8 DEF Served!Abandon

\* Executing a request and posting its reply cannot be seen.
LEMMA QuietStutters ==
  ASSUME TypeOK, UNCHANGED <<next, curr, queue, hand, sent>>,
         \A h \in Handlers : Busy(h)' <=> Busy(h)
  PROVE  UNCHANGED Served!vars
<1>1. \A d \in Clients, t \in Nat : Held(d, t)' <=> Held(d, t)
  BY DEF Held
<1>2. Jammed' = Jammed
  BY <1>1, FrozenAsBefore DEF Jammed
<1>3. Working' = Working /\ Answers' = Answers
  BY DEF Working, Answers
<1> QED
  BY <1>2, <1>3 DEF Served!vars

-----------------------------------------------------------------------------
(***************************************************************************)
(* onResolve answers.                                                      *)
(***************************************************************************)

\* The tickets of one more reply.
LEMMA TicketsOfAppend ==
  ASSUME NEW R, \A r \in R : r.exp \in Nat, NEW s \in Seq(R), NEW x \in R
  PROVE  Tickets(Append(s, x)) = Append(Tickets(s), x.exp)
<1> DEFINE long  == Append(s, x)
           short == Tickets(s)
           left  == Tickets(long)
           right == Append(short, x.exp)
<1>1. PICK n \in Nat : n = Len(s) /\ DOMAIN s = 1 .. n
  OBVIOUS
<1>2. /\ DOMAIN long = 1 .. n + 1
      /\ long[n + 1] = x
      /\ \A i \in 1 .. n : long[i] = s[i] /\ s[i] \in R
  BY <1>1
<1>3. short \in [1 .. n -> Nat]
  BY <1>1, <1>2 DEF Tickets
<1>4. short \in Seq(Nat) /\ Len(short) = n
  BY <1>3
<1>5. x.exp \in Nat
  OBVIOUS
<1> HIDE DEF long, short
<1>6. left \in [1 .. n + 1 -> Nat]
  <2>1. \A i \in 1 .. n + 1 : long[i].exp \in Nat
    BY <1>2, <1>5
  <2> QED
    BY <1>2, <2>1 DEF Tickets
<1>7. left \in Seq(Nat) /\ Len(left) = n + 1
  BY <1>6
<1>8. /\ right \in Seq(Nat)
      /\ Len(right) = n + 1
      /\ \A i \in 1 .. n : right[i] = short[i]
      /\ right[n + 1] = x.exp
  BY <1>4, <1>5
<1>9. \A i \in 1 .. n : short[i] = s[i].exp
  BY <1>1 DEF short, Tickets
<1>10. \A i \in 1 .. n + 1 : left[i] = right[i]
  BY <1>2, <1>8, <1>9 DEF Tickets
<1> HIDE DEF left, right
<1>11. left = right
  BY <1>7, <1>8, <1>10, SeqEqual
<1> QED
  BY <1>11 DEF left, right, long, short

LEMMA OnResolveAnswers ==
  ASSUME TypeOK, ReplyInv, TicketInv, OrderInv, OnResolve
  PROVE  \E c \in Clients : \E t \in 0 .. curr[c] : Served!Answer(c, t)
<1>1. /\ 1 \in DOMAIN events /\ Head(events) = events[1]
      /\ Coming(1).client \in Clients /\ Coming(1).exp \in Nat
      /\ Coming(1).resolve \in RpcMethods \cup {NoReply}
  <2>1. 1 \in DOMAIN events /\ Head(events) = events[1]
    BY DEF OnResolve, TypeOK
  <2>2. Coming(1) \in Requests
    BY <2>1, ComingTyped
  <2> QED
    BY <2>1, <2>2 DEF Requests
<1>2. PICK c \in Clients, t \in Nat : c = Coming(1).client /\ t = Coming(1).exp
  BY <1>1
<1>3. PICK x : x = [exp |-> t, resolve |-> Coming(1).resolve]
  OBVIOUS
<1>4. /\ sent' = [sent EXCEPT ![c] = Append(sent[c], x)]
      /\ UNCHANGED <<next, curr, queue, pc, hand>>
  BY <1>1, <1>2, <1>3 DEF OnResolve, Coming
<1>5. t < curr[c] \/ (t = curr[c] /\ c \in Working)
  <2>1. MayBeAnswered(c, t)
    BY <1>1, <1>2 DEF OrderInv, AnsweredBelowTurn
  <2> QED
    BY <2>1, WorkingFor DEF MayBeAnswered, Busy
<1>6. \A i \in DOMAIN Answers[c] : Answers[c][i] < t
  BY <1>1, <1>2 DEF Answers, Tickets, OrderInv, SentBeforeComing
<1>7. Working' = Working /\ Jammed' = Jammed
  <2>1. \A d \in Clients, u \in Nat : Held(d, u)' <=> Held(d, u)
    BY <1>4 DEF Held, Busy
  <2> QED
    BY <1>4, <2>1, FrozenAsBefore DEF Working, Jammed, Busy
<1>8. Answers' = [Answers EXCEPT ![c] = Append(Answers[c], t)]
  <2>1. sent'[c] = Append(sent[c], x) /\ \A d \in Clients \ {c} : sent'[d] = sent[d]
    BY <1>4 DEF TypeOK
  <2>2. Answers'[c] = Append(Answers[c], t)
    <3> DEFINE R == [exp : Nat, resolve : RpcMethods \cup {NoReply}]
    <3>1. sent[c] \in Seq(R) /\ x \in R /\ x.exp = t /\ \A r \in R : r.exp \in Nat
      BY <1>1, <1>2, <1>3 DEF TypeOK
    <3> HIDE DEF R
    <3>2. Tickets(Append(sent[c], x)) = Append(Tickets(sent[c]), x.exp)
      BY <3>1, TicketsOfAppend
    <3>3. Answers[c] = Tickets(sent[c]) /\ Answers'[c] = Tickets(sent'[c])
      BY DEF Answers, Tickets
    <3> QED
      BY <2>1, <3>1, <3>2, <3>3
  <2>3. \A d \in Clients \ {c} : Answers'[d] = Answers[d]
    BY <2>1 DEF Answers, Tickets
  <2>4. Answers = [d \in Clients |-> Answers[d]] /\ Answers' = [d \in Clients |-> Answers'[d]]
    BY DEF Answers
  <2> QED
    BY <2>2, <2>3, <2>4
<1>9. t \in 0 .. curr[c]
  BY <1>5 DEF TypeOK
<1> QED
  BY <1>4, <1>5, <1>6, <1>7, <1>8, <1>9 DEF Served!Answer

-----------------------------------------------------------------------------
(***************************************************************************)
(* The refinement.                                                         *)
(***************************************************************************)
LEMMA InitServed == Init => Served!Init
<1> SUFFICES ASSUME Init PROVE Served!Init
  OBVIOUS
<1>1. next = [c \in Clients |-> 0] /\ curr = [c \in Clients |-> 0]
  BY DEF Init
<1>2. Working = {}
  BY DEF Init, Working, Busy
<1>3. Jammed = {}
  BY DEF Init, Jammed, Frozen
<1>4. Answers = [c \in Clients |-> <<>>]
  <2>1. \A c \in Clients : sent[c] = <<>> /\ DOMAIN sent[c] = {}
    BY DEF Init
  <2>2. Tickets(<<>>) = <<>>
    <3>1. Tickets(<<>>) \in [1 .. 0 -> Nat]
      BY DEF Tickets
    <3>2. Tickets(<<>>) \in Seq(Nat) /\ Len(Tickets(<<>>)) = 0
      BY <3>1
    <3> QED
      BY <3>2
  <2>3. \A c \in Clients : Answers[c] = <<>>
    BY <2>1, <2>2 DEF Answers
  <2> QED
    BY <2>3 DEF Answers
<1> QED
  BY <1>1, <1>2, <1>3, <1>4 DEF Served!Init

LEMMA StepServed ==
  ASSUME TypeOK, ReplyInv, TicketInv, OrderInv, DispatchStep
  PROVE  [Served!Next]_(Served!vars)
<1>1. ASSUME NEW c \in Clients, NEW m \in Methods, NewRequest(c, m)
      PROVE  Served!Next
  BY <1>1, SubmitAccepts DEF Served!Next
<1>2. ASSUME NEW h \in Handlers, TakesReady(h)
      PROVE  Served!Next
  BY <1>2, TakeStarts DEF Served!Next
<1>3. ASSUME NEW h \in Handlers, Execute(h) \/ Post(h)
      PROVE  UNCHANGED Served!vars
  <2>1. UNCHANGED <<next, curr, queue, hand, sent>>
    BY <1>3 DEF Execute, Post
  <2>2. \A g \in Handlers : Busy(g)' <=> Busy(g)
    BY <1>3 DEF Execute, Post, TypeOK, Busy
  <2> QED
    BY <2>1, <2>2, QuietStutters
<1>4. ASSUME NEW h \in Handlers, IncrementCurrCounter(h)
      PROVE  Served!Next
  BY <1>4, IncrementCompletes DEF Served!Next
<1>5. ASSUME NEW h \in Handlers, UnknownMethod(h)
      PROVE  Served!Next
  BY <1>5, UnknownAbandons DEF Served!Next
<1>6. ASSUME OnResolve
      PROVE  Served!Next
  BY <1>6, OnResolveAnswers DEF Served!Next
<1>7. ASSUME UNCHANGED vars
      PROVE  UNCHANGED Served!vars
  <2>1. \A g \in Handlers : Busy(g)' <=> Busy(g)
    BY <1>7 DEF vars, Busy
  <2> QED
    BY <1>7, <2>1, QuietStutters DEF vars
<1> QED
  BY <1>1, <1>2, <1>3, <1>4, <1>5, <1>6, <1>7 DEF DispatchStep, ServerStep

\* The queues, threads and the resolve list implement one turn of a client at a
\* time, in order, none twice, answered in order, for any number of clients: all
\* that the serial service allows itself is to lose a turn.
THEOREM ServesInTurn == Spec => ImplementsSerialService
<1>1. Init => Served!Init
  BY InitServed
<1>2. TypeOK /\ ReplyInv /\ TicketInv /\ OrderInv /\ [Next]_vars
        => [Served!Next]_(Served!vars)
  BY NextIsDispatchStep, StepServed
<1>3. Spec => [](TypeOK /\ ReplyInv /\ TicketInv /\ OrderInv)
  BY SpecOrder
<1> QED
  BY <1>1, <1>2, <1>3, PTL DEF Spec, ImplementsSerialService, Served!Spec
=============================================================================
