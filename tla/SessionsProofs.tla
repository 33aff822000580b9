--------------------------- MODULE SessionsProofs ---------------------------
(***************************************************************************)
(* Proof that only a user who selects again before projectOpened overtakes *)
(* an openProject of hers or loses her turn, for any number of sessions,   *)
(* benchmarks, frames and selections.                                      *)
(***************************************************************************)
EXTENDS Sessions, DispatchProofs

-----------------------------------------------------------------------------
(***************************************************************************)
(* The inductive invariant.                                                *)
(***************************************************************************)
SessionMethods == {"queryDatabase", "getScene", "requestFrame", "openProject"}

SessionTyped ==
  /\ outbox \in [Clients -> Seq(SessionMethods)]
  /\ opened \in [Clients -> Nat]
  /\ selections \in [Clients -> Nat]
  /\ hasty \in SUBSET Clients

\* A reply that tells c of a project comes from the request of c for initGL:
\* it is in the client's outbox, as part of openProject, then in the graphic
\* queue, in the hand of that queue's thread, among the replies on their way
\* to the main thread, and at last it was sent.
Opening(c) == {r \in Requests : r.client = c /\ r.resolve = "openProject"}
OpenMessages == {"openProject"}
OpenReplies == [exp : Nat, resolve : {"openProject"}]

Replies == [i \in DOMAIN events |-> replyList[events[i]]]

Unanswered(h) == pc[h] \in {"run", "post"}

InHand(c) ==
  IF Unanswered("GPU") THEN Weight(hand["GPU"], Opening(c)) ELSE 0

Underway(c) ==
  Number(queue["GPU"], Opening(c)) + InHand(c)
    + Number(Replies, Opening(c)) + Number(sent[c], OpenReplies)

Started(c) == Number(outbox[c], OpenMessages) + Underway(c)

\* Only projectOpened that were sent have arrived, who is not hasty waits for
\* them, and no more are on their way than she has selected projects.
WhatArrived == \A c \in Clients : opened[c] <= Number(sent[c], OpenReplies)
OneAtATime == \A c \in Clients \ hasty : selections[c] <= opened[c] + 1
NoneMadeUp == \A c \in Clients \ hasty : Started(c) <= selections[c]

\* Nobody closes a project: what answers openProject is on the graphic side.
OpensOnly ==
  /\ \A i \in DOMAIN queue["CPU"] : queue["CPU"][i].resolve # "openProject"
  /\ \A i \in DOMAIN queue["GPU"] :
       queue["GPU"][i].type = 1 => queue["GPU"][i].resolve = "openProject"
  /\ Busy("CPU") => hand["CPU"].resolve # "openProject"

\* A loadData waits together with the initGL of the same openProject.
Accompanied(c) ==
  \A i \in DOMAIN queue["CPU"] :
    queue["CPU"][i].client = c /\ queue["CPU"][i].type = 1 =>
      \E j \in DOMAIN queue["GPU"] :
        queue["GPU"][j] \in Opening(c) /\ queue["GPU"][j].exp = queue["CPU"][i].exp + 1

Companions == \A c \in Clients \ hasty : Accompanied(c)

KeepTheirTurns == \A c \in Clients \ hasty : KeepsTurn(c)

SessionInv ==
  /\ SessionTyped
  /\ WhatArrived
  /\ OneAtATime
  /\ NoneMadeUp
  /\ OpensOnly
  /\ Companions
  /\ KeepTheirTurns

ServerInv == TypeOK /\ ReplyInv /\ TicketInv /\ OrderInv

-----------------------------------------------------------------------------
(***************************************************************************)
(* A session's view of the server.                                         *)
(***************************************************************************)
\* What the server does on its own.
ServerActs == ServerStep /\ UNCHANGED sessionVars

LEMMA SessionSteps ==
  ASSUME SessionNext \/ UNCHANGED allSessionVars
  PROVE  \/ \E c \in Clients : Deliver(c) \/ Receive(c) \/ SelectData(c)
         \/ ServerActs
<1>1. \A h \in Handlers : ProcessNextRequest(h) => ServerStep
  BY DEF ProcessNextRequest, ServerStep, Dequeue, TakesReady
<1>2. OnResolve \/ UNCHANGED vars => ServerStep
  BY DEF ServerStep
<1> QED
  BY <1>1, <1>2 DEF SessionNext, ServerActs, Users, allSessionVars

LEMMA MethodsSent ==
  SessionMethods \subseteq Methods
BY SessionsAssumption DEF SessionsAssumption, SessionMethods

LEMMA DeliverFacts ==
  ASSUME SessionTyped, NEW c \in Clients, Deliver(c)
  PROVE  /\ Head(outbox[c]) \in SessionMethods /\ Head(outbox[c]) \in Methods
         /\ outbox[c] \in Seq(SessionMethods) /\ outbox[c] # <<>>
         /\ NewRequest(c, Head(outbox[c]))
         /\ outbox' = [outbox EXCEPT ![c] = Tail(@)]
         /\ UNCHANGED <<opened, selections, hasty>>
<1>1. outbox[c] \in Seq(SessionMethods) /\ outbox[c] # <<>>
  BY DEF SessionTyped, Deliver
<1>2. Head(outbox[c]) \in SessionMethods
  BY <1>1
<1> QED
  BY <1>1, <1>2, MethodsSent DEF Deliver

LEMMA SessionIsDispatch ==
  ASSUME SessionTyped, SessionNext \/ UNCHANGED allSessionVars
  PROVE  DispatchStep
<1>1. ASSUME NEW c \in Clients, Deliver(c)
      PROVE  DispatchStep
  BY <1>1, DeliverFacts DEF DispatchStep
<1>2. ASSUME NEW c \in Clients, Receive(c) \/ SelectData(c)
      PROVE  DispatchStep
  BY <1>2 DEF Receive, SelectData, DispatchStep, ServerStep
<1>3. CASE ServerActs
  BY <1>3 DEF ServerActs, DispatchStep
<1> QED
  BY <1>1, <1>2, <1>3, SessionSteps

LEMMA ServerInvStep ==
  ASSUME ServerInv, SessionTyped, SessionNext \/ UNCHANGED allSessionVars
  PROVE  ServerInv'
BY SessionIsDispatch, StepTyped, StepTickets, StepOrder DEF ServerInv

\* The number of projectOpened sent, as the model counts them.
LEMMA SentToIsNumber ==
  ASSUME TypeOK, NEW c \in Clients
  PROVE  SentTo(c, "openProject") = Number(sent[c], OpenReplies)
<1>1. sent[c] \in Seq([exp : Nat, resolve : RpcMethods \cup {NoReply}])
  BY DEF TypeOK
<1>2. ASSUME NEW i \in DOMAIN sent[c]
      PROVE  sent[c][i].resolve = "openProject" <=> sent[c][i] \in OpenReplies
  <2>1. sent[c][i] \in [exp : Nat, resolve : RpcMethods \cup {NoReply}]
    BY <1>1, ElementOf
  <2> QED
    BY <2>1 DEF OpenReplies
<1>3. {i \in DOMAIN sent[c] : sent[c][i].resolve = "openProject"} = Hits(sent[c], OpenReplies)
  BY <1>2 DEF Hits
<1> QED
  BY <1>3 DEF SentTo, Number

\* Each part of Started is a number.
LEMMA PartsTyped ==
  ASSUME TypeOK, ReplyInv, SessionTyped, NEW c \in Clients
  PROVE  /\ Replies \in Seq(Requests)
         /\ Number(outbox[c], OpenMessages) \in Nat
         /\ Number(queue["GPU"], Opening(c)) \in Nat
         /\ InHand(c) \in Nat
         /\ Number(Replies, Opening(c)) \in Nat
         /\ Number(sent[c], OpenReplies) \in Nat
<1>1. Replies \in Seq(Requests)
  <2>1. events \in Seq(Nat)
    BY DEF TypeOK
  <2>2. \A i \in DOMAIN events : replyList[events[i]] \in Requests
    BY ComingTyped DEF Coming
  <2>3. DOMAIN events = 1 .. Len(events) /\ Len(events) \in Nat
    BY <2>1
  <2>4. Replies \in [1 .. Len(events) -> Requests]
    BY <2>2, <2>3 DEF Replies
  <2>5. PICK n \in Nat : Len(events) = n
    BY <2>3
  <2>6. Replies \in [1 .. n -> Requests]
    BY <2>4, <2>5
  <2> QED
    BY <2>6, SeqDef
<1>2. /\ outbox[c] \in Seq(SessionMethods) /\ queue["GPU"] \in Seq(Requests)
      /\ sent[c] \in Seq([exp : Nat, resolve : RpcMethods \cup {NoReply}])
  BY DEF TypeOK, SessionTyped, Handlers
<1>3. InHand(c) \in Nat
  BY DEF InHand, Weight
<1>4. Number(sent[c], OpenReplies) \in Nat
  BY <1>2, NumberTyped
<1>5. Number(queue["GPU"], Opening(c)) \in Nat
  BY <1>2, NumberTyped
<1>6. Number(outbox[c], OpenMessages) \in Nat
  BY <1>2, NumberTyped
<1> QED
  BY <1>1, <1>3, <1>4, <1>5, <1>6, NumberTyped

-----------------------------------------------------------------------------
(***************************************************************************)
(* The server makes up no projectOpened.                                   *)
(***************************************************************************)
LEMMA TakeUnderway ==
  ASSUME TypeOK, ReplyInv, SessionTyped, NEW h \in Handlers, TakesReady(h), NEW c \in Clients
  PROVE  Underway(c)' = Underway(c) /\ sent' = sent
<1>1. UNCHANGED <<replyList, events, sent>> /\ pc[h] = "idle"
  BY DEF TakesReady
<1>2. Replies' = Replies
  BY <1>1 DEF Replies
<1>3. PICK G : G = Opening(c)
  OBVIOUS
<1>4. CASE h = "GPU"
  <2>1. PICK i \in DOMAIN queue["GPU"] :
          /\ hand' = [hand EXCEPT !["GPU"] = queue["GPU"][i]]
          /\ queue' = [queue EXCEPT !["GPU"] = RemoveAt(queue["GPU"], i)]
    BY <1>4 DEF TakesReady
  <2>2. /\ hand'["GPU"] = queue["GPU"][i] /\ queue'["GPU"] = RemoveAt(queue["GPU"], i)
        /\ pc'["GPU"] = "run" /\ queue["GPU"] \in Seq(Requests)
    BY <1>4, <2>1 DEF TakesReady, TypeOK, Handlers
  <2>3. InHand(c) = 0 /\ InHand(c)' = Weight(queue["GPU"][i], G)
    BY <1>1, <1>3, <1>4, <2>2 DEF InHand, Unanswered
  <2>4. Number(queue["GPU"], G) = Weight(queue["GPU"][i], G) + Number(queue'["GPU"], G)
    BY <2>2, NumberRemove
  <2>5. RemoveAt(queue["GPU"], i) \in Seq(Requests)
    BY <2>2, NumberRemove
  <2>6. Weight(queue["GPU"][i], G) \in Nat /\ Number(queue'["GPU"], G) \in Nat
    BY <2>2, <2>5, NumberTyped DEF Weight
  <2>7. Number(queue'["GPU"], G) + InHand(c)' = Number(queue["GPU"], G) + InHand(c)
    BY <2>3, <2>4, <2>6
  <2>8. Number(Replies, G) \in Nat /\ Number(sent[c], OpenReplies) \in Nat
    BY <1>3, PartsTyped
  <2> QED
    BY <1>1, <1>2, <1>3, <2>7, <2>8 DEF Underway
<1>5. CASE h # "GPU"
  <2>1. UNCHANGED <<queue["GPU"], hand["GPU"], pc["GPU"]>>
    BY <1>5 DEF TakesReady, TypeOK, Handlers
  <2>2. InHand(c)' = InHand(c)
    BY <2>1 DEF InHand, Unanswered
  <2> QED
    BY <1>1, <1>2, <2>1, <2>2 DEF Underway
<1> QED
  BY <1>4, <1>5

\* A thread executes a request, or gives it up, or counts it.
LEMMA ThreadUnderway ==
  ASSUME TypeOK, ReplyInv, SessionTyped, NEW h \in Handlers,
         Execute(h) \/ IncrementCurrCounter(h) \/ UnknownMethod(h), NEW c \in Clients
  PROVE  Underway(c)' <= Underway(c) /\ sent' = sent
<1>1. UNCHANGED <<queue, events, sent>>
  BY DEF Execute, IncrementCurrCounter, UnknownMethod
<1>2. Replies' = Replies
  <2>1. \A i \in DOMAIN events : replyList'[events[i]] = replyList[events[i]]
    <3>1. \A i \in DOMAIN events : events[i] \in DOMAIN replyList /\ events[i] # replyNext
      <4>1. replyNext \in Nat
        BY DEF TypeOK
      <4> QED
        BY <4>1, ComingTyped
    <3> QED
      BY <3>1 DEF Execute, AddReply, IncrementCurrCounter, UnknownMethod
  <2> QED
    BY <1>1, <2>1 DEF Replies
<1>3. InHand(c)' <= InHand(c)
  <2>1. InHand(c) \in Nat
    BY PartsTyped
  <2>2. InHand(c)' = InHand(c) \/ InHand(c)' = 0
    <3>1. CASE Execute(h)
      <4>1. hand' = hand /\ (Unanswered("GPU")' => Unanswered("GPU"))
        BY <3>1 DEF Execute, TypeOK, Handlers, Unanswered
      <4> QED
        BY <4>1 DEF InHand
    <3>2. CASE IncrementCurrCounter(h) \/ UnknownMethod(h)
      <4>1. CASE h = "GPU"
        <5>1. ~ Unanswered("GPU")'
          BY <3>2, <4>1 DEF IncrementCurrCounter, UnknownMethod, TypeOK, Handlers, Unanswered
        <5> QED
          BY <5>1 DEF InHand
      <4>2. CASE h # "GPU"
        <5>1. UNCHANGED <<hand["GPU"], pc["GPU"]>>
          BY <3>2, <4>2 DEF IncrementCurrCounter, UnknownMethod, TypeOK, Handlers
        <5> QED
          BY <5>1 DEF InHand, Unanswered
      <4> QED
        BY <4>1, <4>2
    <3> QED
      BY <3>1, <3>2
  <2> QED
    BY <2>1, <2>2
<1>4. InHand(c)' \in Nat
  BY DEF InHand, Weight
<1>5. PICK x, y, z : /\ x = Number(queue["GPU"], Opening(c))
                     /\ y = Number(Replies, Opening(c))
                     /\ z = Number(sent[c], OpenReplies)
  OBVIOUS
<1>6. x \in Nat /\ y \in Nat /\ z \in Nat /\ InHand(c) \in Nat
  BY <1>5, PartsTyped
<1>7. Underway(c) = x + InHand(c) + y + z /\ Underway(c)' = x + InHand(c)' + y + z
  BY <1>1, <1>2, <1>5 DEF Underway
<1> QED
  BY <1>1, <1>3, <1>4, <1>6, <1>7

\* A thread posts what it has in hand.
LEMMA PostUnderway ==
  ASSUME ServerInv, OpensOnly, SessionTyped, NEW h \in Handlers, Post(h), NEW c \in Clients
  PROVE  Underway(c)' <= Underway(c) /\ sent' = sent
<1>1. TypeOK /\ ReplyInv /\ PostsItsOwn
  BY DEF ServerInv, OrderInv
<1>2. /\ pc[h] = "post" /\ UNCHANGED <<queue, hand, replyList, sent>>
      /\ events' = Append(events, slot[h])
      /\ pc' = [pc EXCEPT ![h] = "count"]
  BY DEF Post
<1>3. replyList[slot[h]] = hand[h] /\ hand[h] \in Requests
  BY <1>1, <1>2 DEF PostsItsOwn, TypeOK
<1>4. Replies \in Seq(Requests)
  BY <1>1, PartsTyped
<1>5. Replies' = Append(Replies, hand[h])
  <2>1. events \in Seq(Nat) /\ slot[h] \in Nat
    BY <1>1 DEF TypeOK
  <2>2. /\ DOMAIN events = 1 .. Len(events) /\ Len(events) \in Nat
        /\ DOMAIN events' = 1 .. Len(events) + 1
        /\ events'[Len(events) + 1] = slot[h]
        /\ \A i \in 1 .. Len(events) : events'[i] = events[i]
    BY <1>2, <2>1
  <2>3. Len(Replies) = Len(events) /\ DOMAIN Replies = 1 .. Len(events)
    BY <1>4, <2>2 DEF Replies
  <2>4. Replies' = [i \in 1 .. Len(events) + 1 |-> replyList[events'[i]]]
    BY <1>2, <2>2 DEF Replies
  <2>5. Append(Replies, hand[h]) =
          [i \in 1 .. Len(events) + 1 |-> IF i = Len(events) + 1 THEN hand[h] ELSE Replies[i]]
    BY <1>3, <1>4, <2>2, <2>3
  <2>6. \A i \in 1 .. Len(events) + 1 :
          replyList[events'[i]] = IF i = Len(events) + 1 THEN hand[h] ELSE Replies[i]
    BY <1>3, <2>2 DEF Replies
  <2> QED
    BY <2>4, <2>5, <2>6
<1>6. Number(Replies', Opening(c)) = Number(Replies, Opening(c)) + Weight(hand[h], Opening(c))
  BY <1>3, <1>4, <1>5, NumberAppend
<1>7. InHand(c)' + Weight(hand[h], Opening(c)) <= InHand(c)
  <2>1. CASE h = "GPU"
    <3>1. InHand(c)' = 0 /\ InHand(c) = Weight(hand[h], Opening(c))
      BY <1>1, <1>2, <2>1 DEF InHand, Unanswered, TypeOK, Handlers
    <3> QED
      BY <3>1 DEF Weight
  <2>2. CASE h = "CPU"
    <3>1. Weight(hand[h], Opening(c)) = 0
      BY <1>2, <2>2 DEF OpensOnly, Busy, Weight, Opening
    <3>2. InHand(c)' = InHand(c)
      BY <1>1, <1>2, <2>2 DEF InHand, Unanswered, TypeOK, Handlers
    <3>3. InHand(c) \in Nat
      BY <1>1, PartsTyped
    <3> QED
      BY <3>1, <3>2, <3>3
  <2> QED
    BY <2>1, <2>2 DEF Handlers
<1>8. PICK x, y, z : /\ x = Number(queue["GPU"], Opening(c))
                     /\ y = Number(Replies, Opening(c))
                     /\ z = Number(sent[c], OpenReplies)
  OBVIOUS
<1>9. PICK w, v, u : w = Weight(hand[h], Opening(c)) /\ v = InHand(c) /\ u = InHand(c)'
  OBVIOUS
<1>10. x \in Nat /\ y \in Nat /\ z \in Nat /\ w \in Nat /\ v \in Nat /\ u \in Nat
  <2>1. x \in Nat /\ y \in Nat /\ z \in Nat /\ v \in Nat
    BY <1>1, <1>8, <1>9, PartsTyped
  <2>2. w \in Nat /\ u \in Nat
    BY <1>9 DEF InHand, Weight
  <2> QED
    BY <2>1, <2>2
<1>11. Underway(c) = x + v + y + z /\ Underway(c)' = x + u + (y + w) + z
  BY <1>2, <1>6, <1>8, <1>9 DEF Underway
<1>12. u + w <= v
  BY <1>7, <1>9
<1> QED
  BY <1>2, <1>10, <1>11, <1>12


\* Dropping the request that is answered leaves the other replies as they are.
LEMMA OnResolveReplies ==
  ASSUME TypeOK, ReplyInv, SessionTyped, OnResolve
  PROVE  /\ Replies \in Seq(Requests) /\ Replies # <<>>
         /\ Replies' = Tail(Replies)
         /\ UNCHANGED <<queue, pc, hand>>
         /\ sent' = [sent EXCEPT ![Head(Replies).client] =
                       Append(@, [exp |-> Head(Replies).exp, resolve |-> Head(Replies).resolve])]
<1>1. /\ events # <<>> /\ events \in Seq(Nat) /\ events' = Tail(events)
      /\ UNCHANGED <<queue, pc, hand>>
  BY DEF OnResolve, TypeOK
<1>2. PICK n \in Nat : n + 1 = Len(events)
  <2>1. Len(events) \in Nat /\ Len(events) # 0
    BY <1>1
  <2>2. Len(events) - 1 \in Nat
    BY <2>1
  <2> QED
    BY <2>1, <2>2
<1>3. /\ DOMAIN events = 1 .. n + 1 /\ DOMAIN events' = 1 .. n
      /\ Head(events) = events[1]
      /\ \A i \in 1 .. n : events'[i] = events[i + 1]
  BY <1>1, <1>2
<1>4. \A i \in 1 .. n + 1 : events[i] \in DOMAIN replyList /\ replyList[events[i]] \in Requests
  BY <1>3, ComingTyped DEF Coming
<1>5. Replies = [i \in 1 .. n + 1 |-> replyList[events[i]]] /\ Replies \in [1 .. n + 1 -> Requests]
  BY <1>3, <1>4 DEF Replies
<1>6. n + 1 \in Nat
  BY <1>2
<1>7. Replies \in Seq(Requests) /\ Len(Replies) = n + 1
  BY <1>5, <1>6, SeqDef
<1>8. Replies # <<>> /\ Head(Replies) = replyList[events[1]]
  BY <1>2, <1>5, <1>7
<1>9. Tail(Replies) = [i \in 1 .. n |-> replyList[events[i + 1]]]
  <2>1. Tail(Replies) = [i \in 1 .. n |-> Replies[i + 1]]
    BY <1>7, TailAt
  <2>2. \A i \in 1 .. n : Replies[i + 1] = replyList[events[i + 1]]
    BY <1>2, <1>5
  <2> QED
    BY <2>1, <2>2
<1>10. \A i \in 1 .. n : replyList'[events[i + 1]] = replyList[events[i + 1]]
  <2>1. replyList' = [j \in DOMAIN replyList \ {events[1]} |-> replyList[j]]
    BY <1>3 DEF OnResolve
  <2>2. \A i \in 1 .. n : events[i + 1] \in DOMAIN replyList /\ events[i + 1] # events[1]
    <3>1. \A i, j \in 1 .. n + 1 : events[i] = events[j] => i = j
      BY <1>3 DEF ReplyInv, PostedIsRegistered
    <3>2. \A i \in 1 .. n : i + 1 \in 1 .. n + 1 /\ 1 \in 1 .. n + 1 /\ i + 1 # 1
      BY <1>2
    <3> QED
      BY <1>4, <3>1, <3>2
  <2> QED
    BY <2>1, <2>2
<1>11. Replies' = Tail(Replies)
  BY <1>3, <1>9, <1>10 DEF Replies
<1>12. sent' = [sent EXCEPT ![Head(Replies).client] =
                  Append(@, [exp |-> Head(Replies).exp, resolve |-> Head(Replies).resolve])]
  BY <1>3, <1>8 DEF OnResolve
<1> QED
  BY <1>1, <1>7, <1>8, <1>11, <1>12

\* What was a reply on its way is now sent.
LEMMA OnResolveUnderway ==
  ASSUME TypeOK, ReplyInv, SessionTyped, OnResolve, NEW c \in Clients
  PROVE  /\ Underway(c)' <= Underway(c)
         /\ Number(sent[c], OpenReplies) <= Number(sent'[c], OpenReplies)
<1>1. /\ Replies \in Seq(Requests) /\ Replies # <<>>
      /\ Replies' = Tail(Replies)
      /\ UNCHANGED <<queue, pc, hand>>
  BY OnResolveReplies
<1>2. PICK r \in Requests : r = Head(Replies)
  BY <1>1
<1>3. r.client \in Clients /\ r.exp \in Nat /\ r.resolve \in RpcMethods \cup {NoReply}
  BY DEF Requests
<1>4. PICK e : e = [exp |-> r.exp, resolve |-> r.resolve]
  OBVIOUS
<1>5. sent' = [sent EXCEPT ![r.client] = Append(@, e)]
  BY <1>2, <1>4, OnResolveReplies
<1>6. PICK w : w = Weight(r, Opening(c))
  OBVIOUS
<1>7. Number(Replies, Opening(c)) = w + Number(Replies', Opening(c))
  BY <1>1, <1>2, <1>6, NumberTail
<1>8. Number(sent'[c], OpenReplies) = Number(sent[c], OpenReplies) + w
  <2>1. /\ sent[c] \in Seq([exp : Nat, resolve : RpcMethods \cup {NoReply}])
        /\ e \in [exp : Nat, resolve : RpcMethods \cup {NoReply}]
        /\ e \in OpenReplies <=> r.resolve = "openProject"
        /\ sent \in [Clients -> Seq([exp : Nat, resolve : RpcMethods \cup {NoReply}])]
    BY <1>3, <1>4 DEF TypeOK, OpenReplies
  <2>2. CASE r.client = c
    <3>1. sent'[c] = Append(sent[c], e)
      BY <1>5, <2>1, <2>2
    <3>2. w = Weight(e, OpenReplies)
      BY <1>6, <2>1, <2>2 DEF Weight, Opening
    <3>3. Number(Append(sent[c], e), OpenReplies)
            = Number(sent[c], OpenReplies) + Weight(e, OpenReplies)
      BY <2>1, NumberAppend
    <3> QED
      BY <3>1, <3>2, <3>3
  <2>3. CASE r.client # c
    <3>1. sent'[c] = sent[c] /\ w = 0
      BY <1>5, <1>6, <2>1, <2>3 DEF Weight, Opening
    <3>2. Number(sent[c], OpenReplies) \in Nat
      BY PartsTyped
    <3> QED
      BY <3>1, <3>2
  <2> QED
    BY <2>2, <2>3
<1>9. InHand(c)' = InHand(c)
  BY <1>1 DEF InHand, Unanswered
<1>10. PICK x, v, z : /\ x = Number(queue["GPU"], Opening(c)) /\ v = InHand(c)
                      /\ z = Number(sent[c], OpenReplies)
  OBVIOUS
<1>11. PICK y : y = Number(Replies', Opening(c))
  OBVIOUS
<1>12. x \in Nat /\ y \in Nat /\ z \in Nat /\ v \in Nat /\ w \in Nat
  <2>1. x \in Nat /\ z \in Nat /\ v \in Nat
    BY <1>10, PartsTyped
  <2>2. w \in Nat
    BY <1>6 DEF Weight
  <2>3. Tail(Replies) \in Seq(Requests)
    BY <1>1
  <2>4. y \in Nat
    BY <1>1, <1>11, <2>3, NumberTyped
  <2> QED
    BY <2>1, <2>2, <2>4
<1>13. Underway(c) = x + v + (w + y) + z
  BY <1>7, <1>10, <1>11 DEF Underway
<1>14. Underway(c)' = x + v + y + (z + w)
  BY <1>1, <1>8, <1>9, <1>10, <1>11 DEF Underway
<1>15. Number(sent'[c], OpenReplies) = z + w
  BY <1>8, <1>10
<1> QED
  BY <1>10, <1>12, <1>13, <1>14, <1>15


LEMMA ServerUnderway ==
  ASSUME ServerInv, OpensOnly, SessionTyped, ServerStep, NEW c \in Clients
  PROVE  /\ Underway(c)' <= Underway(c)
         /\ Number(sent[c], OpenReplies) <= Number(sent'[c], OpenReplies)
<1>1. TypeOK /\ ReplyInv
  BY DEF ServerInv
<1>2. Number(sent[c], OpenReplies) \in Nat
  BY <1>1, PartsTyped
<1>3. PICK u : u = Underway(c)
  OBVIOUS
<1>4. u \in Nat
  BY <1>1, <1>3, PartsTyped DEF Underway
<1>5. ASSUME NEW h \in Handlers, TakesReady(h)
      PROVE  Underway(c)' <= u /\ sent' = sent
  BY <1>1, <1>3, <1>4, <1>5, TakeUnderway
<1>6. ASSUME NEW h \in Handlers, Execute(h) \/ IncrementCurrCounter(h) \/ UnknownMethod(h)
      PROVE  Underway(c)' <= u /\ sent' = sent
  BY <1>1, <1>3, <1>6, ThreadUnderway
<1>7. ASSUME NEW h \in Handlers, Post(h)
      PROVE  Underway(c)' <= u /\ sent' = sent
  BY <1>3, <1>7, PostUnderway
<1>8. CASE UNCHANGED vars
  <2>1. UNCHANGED <<queue, hand, pc, replyList, events, sent>>
    BY <1>8 DEF vars
  <2>2. Replies' = Replies /\ InHand(c)' = InHand(c)
    BY <2>1 DEF Replies, InHand, Unanswered
  <2>3. Underway(c)' = u /\ sent' = sent
    BY <1>3, <2>1, <2>2 DEF Underway
  <2> QED
    BY <1>2, <1>3, <1>4, <2>3
<1>9. CASE OnResolve
  BY <1>1, <1>9, OnResolveUnderway
<1> QED
  BY <1>2, <1>3, <1>5, <1>6, <1>7, <1>8, <1>9 DEF ServerStep

LEMMA UnderwayTyped ==
  TypeOK /\ ReplyInv /\ SessionTyped =>
    \A c \in Clients : Underway(c) \in Nat /\ Number(outbox[c], OpenMessages) \in Nat
                       /\ Number(sent[c], OpenReplies) \in Nat
BY PartsTyped DEF Underway

-----------------------------------------------------------------------------
(***************************************************************************)
(* What the server does keeps the invariant.                               *)
(***************************************************************************)
\* A thread that takes initGL has not left its loadData behind.
LEMMA TakeCompanions ==
  ASSUME TypeOK, TicketInv, NEW h \in Handlers, TakesReady(h), NEW c \in Clients, Accompanied(c)
  PROVE  Accompanied(c)'
<1>1. PICK k \in DOMAIN queue[h] :
        IsReady(queue[h][k]) /\ queue' = [queue EXCEPT ![h] = RemoveAt(@, k)]
  BY DEF TakesReady
<1>2. queue \in [Handlers -> Seq(Requests)] /\ queue[h] \in Seq(Requests)
  BY DEF TypeOK
<1>3. CASE h = "CPU"
  <2>1. queue'["GPU"] = queue["GPU"] /\ queue'["CPU"] = RemoveAt(queue["CPU"], k)
    BY <1>1, <1>2, <1>3 DEF Handlers
  <2>2. \A i \in DOMAIN queue'["CPU"] :
          \E m \in DOMAIN queue["CPU"] : queue'["CPU"][i] = queue["CPU"][m]
    BY <1>1, <1>2, <1>3, <2>1, RemoveAtKeeps
  <2> QED
    BY <2>1, <2>2 DEF Accompanied
<1>4. CASE h = "GPU"
  <2>1. queue'["CPU"] = queue["CPU"] /\ queue'["GPU"] = RemoveAt(queue["GPU"], k)
    BY <1>1, <1>2, <1>4 DEF Handlers
  <2>2. ASSUME NEW i \in DOMAIN queue["CPU"],
               queue["CPU"][i].client = c, queue["CPU"][i].type = 1
        PROVE  \E j \in DOMAIN queue'["GPU"] :
                 /\ queue'["GPU"][j] \in Opening(c)
                 /\ queue'["GPU"][j].exp = queue["CPU"][i].exp + 1
    <3>1. PICK j \in DOMAIN queue["GPU"] :
            queue["GPU"][j] \in Opening(c) /\ queue["GPU"][j].exp = queue["CPU"][i].exp + 1
      BY <2>2 DEF Accompanied
    <3>2. j # k
      <4>1. queue["GPU"][j].client = c
        BY <3>1 DEF Opening
      <4>2. curr[c] <= queue["CPU"][i].exp
        BY <2>2 DEF TicketInv, ServedOnce, Handlers
      <4>3. curr[c] \in Nat /\ queue["CPU"][i].exp \in Nat
        BY RequestFacts DEF Handlers
      <4>4. queue["GPU"][k].client = c => queue["GPU"][k].exp = curr[c]
        BY <1>1, <1>4 DEF IsReady
      <4> QED
        BY <3>1, <4>1, <4>2, <4>3, <4>4
    <3>3. \E l \in DOMAIN RemoveAt(queue["GPU"], k) :
            RemoveAt(queue["GPU"], k)[l] = queue["GPU"][j]
      BY <1>1, <1>2, <1>4, <3>2, RemoveAtCovers
    <3> QED
      BY <2>1, <3>1, <3>3
  <2> QED
    BY <2>1, <2>2 DEF Accompanied
<1> QED
  BY <1>3, <1>4 DEF Handlers

LEMMA TakeOpensOnly ==
  ASSUME TypeOK, OpensOnly, NEW h \in Handlers, TakesReady(h)
  PROVE  OpensOnly'
<1>1. PICK k \in DOMAIN queue[h] :
        /\ hand' = [hand EXCEPT ![h] = queue[h][k]]
        /\ queue' = [queue EXCEPT ![h] = RemoveAt(@, k)]
  BY DEF TakesReady
<1>2. queue \in [Handlers -> Seq(Requests)] /\ queue[h] \in Seq(Requests)
  BY DEF TypeOK
<1>3. \A g \in Handlers : \A i \in DOMAIN queue'[g] :
        \E m \in DOMAIN queue[g] : queue'[g][i] = queue[g][m]
  <2> SUFFICES ASSUME NEW g \in Handlers, NEW i \in DOMAIN queue'[g]
               PROVE  \E m \in DOMAIN queue[g] : queue'[g][i] = queue[g][m]
    OBVIOUS
  <2>1. CASE g = h
    <3>1. queue'[g] = RemoveAt(queue[g], k) /\ k \in DOMAIN queue[g]
      BY <1>1, <1>2, <2>1
    <3> QED
      BY <1>2, <2>1, <3>1, RemoveAtKeeps
  <2>2. CASE g # h
    <3>1. queue'[g] = queue[g]
      BY <1>1, <1>2, <2>2
    <3> QED
      BY <3>1
  <2> QED
    BY <2>1, <2>2
<1>4. Busy("CPU")' => hand'["CPU"].resolve # "openProject"
  <2>1. CASE h = "CPU"
    <3>1. hand'["CPU"] = queue["CPU"][k] /\ k \in DOMAIN queue["CPU"]
      BY <1>1, <2>1 DEF TypeOK, Handlers
    <3> QED
      BY <3>1 DEF OpensOnly
  <2>2. CASE h # "CPU"
    <3>1. hand'["CPU"] = hand["CPU"] /\ pc'["CPU"] = pc["CPU"]
      BY <1>1, <2>2 DEF TakesReady, TypeOK, Handlers
    <3> QED
      BY <3>1 DEF OpensOnly, Busy
  <2> QED
    BY <2>1, <2>2
<1>5. "CPU" \in Handlers /\ "GPU" \in Handlers
  BY DEF Handlers
<1> QED
  BY <1>3, <1>4, <1>5 DEF OpensOnly

LEMMA ServerOpensOnly ==
  ASSUME TypeOK, TicketInv, OpensOnly, ServerStep
  PROVE  OpensOnly' /\ \A c \in Clients : Accompanied(c) => Accompanied(c)'
<1>1. ASSUME NEW h \in Handlers, TakesReady(h)
      PROVE  OpensOnly' /\ \A c \in Clients : Accompanied(c) => Accompanied(c)'
  BY <1>1, TakeOpensOnly, TakeCompanions
<1>2. ASSUME UNCHANGED queue, Busy("CPU")' => Busy("CPU") /\ hand'["CPU"] = hand["CPU"]
      PROVE  OpensOnly' /\ \A c \in Clients : Accompanied(c) => Accompanied(c)'
  BY <1>2 DEF OpensOnly, Accompanied
<1>3. ASSUME NEW h \in Handlers, Execute(h) \/ Post(h)
      PROVE  UNCHANGED queue /\ (Busy("CPU")' => Busy("CPU") /\ hand'["CPU"] = hand["CPU"])
  BY <1>3 DEF Execute, Post, Busy, TypeOK, Handlers
<1>4. ASSUME NEW h \in Handlers, IncrementCurrCounter(h) \/ UnknownMethod(h)
      PROVE  UNCHANGED queue /\ (Busy("CPU")' => Busy("CPU") /\ hand'["CPU"] = hand["CPU"])
  BY <1>4 DEF IncrementCurrCounter, UnknownMethod, Busy, TypeOK, Handlers
<1>5. ASSUME OnResolve \/ UNCHANGED vars
      PROVE  UNCHANGED queue /\ (Busy("CPU")' => Busy("CPU") /\ hand'["CPU"] = hand["CPU"])
  BY <1>5 DEF OnResolve, vars, Busy
<1> QED
  BY <1>1, <1>2, <1>3, <1>4, <1>5 DEF ServerStep

\* The server's steps keep all of it: projects are opened for what was sent.
LEMMA ServerSession ==
  ASSUME ServerInv, SessionInv, ServerActs
  PROVE  SessionInv'
<1>1. TypeOK /\ ReplyInv /\ TicketInv /\ OpensOnly /\ SessionTyped
  BY DEF ServerInv, SessionInv
<1>2. ServerStep /\ UNCHANGED <<outbox, opened, selections, hasty>>
  BY DEF ServerActs, sessionVars
<1>3. SessionTyped'
  BY <1>1, <1>2 DEF SessionTyped
<1>4. TypeOK' /\ ReplyInv'
  BY <1>1, <1>2, StepTyped DEF DispatchStep
<1>5. (\A c \in Clients : Underway(c) \in Nat /\ Number(outbox[c], OpenMessages) \in Nat
                          /\ Number(sent[c], OpenReplies) \in Nat)'
  BY <1>3, <1>4, UnderwayTyped, PTL
<1>6. \A c \in Clients : Underway(c) \in Nat /\ Number(outbox[c], OpenMessages) \in Nat
                         /\ Number(sent[c], OpenReplies) \in Nat
                         /\ selections[c] \in Nat /\ opened[c] \in Nat
  BY <1>1, UnderwayTyped DEF SessionTyped
<1>7. \A c \in Clients : /\ Underway(c)' <= Underway(c)
                         /\ Number(sent[c], OpenReplies) <= Number(sent'[c], OpenReplies)
  BY <1>1, <1>2, ServerUnderway
<1>8. WhatArrived'
  BY <1>2, <1>5, <1>6, <1>7 DEF WhatArrived, SessionInv
<1>9. OneAtATime'
  BY <1>2 DEF OneAtATime, SessionInv
<1>10. NoneMadeUp'
  <2> SUFFICES ASSUME NEW c \in Clients \ hasty
               PROVE  Started(c)' <= selections[c]
    BY <1>2 DEF NoneMadeUp
  <2>1. PICK n, u, v : /\ n = Number(outbox[c], OpenMessages)
                       /\ u = Underway(c) /\ v = Underway(c)'
    OBVIOUS
  <2>2. n \in Nat /\ u \in Nat /\ v \in Nat /\ v <= u
    BY <1>5, <1>6, <1>7, <2>1
  <2>3. n + u <= selections[c]
    BY <2>1 DEF SessionInv, NoneMadeUp, Started
  <2>4. Started(c)' = n + v
    BY <1>2, <2>1 DEF Started
  <2> QED
    BY <1>6, <2>2, <2>3, <2>4
<1>11. OpensOnly' /\ Companions'
  BY <1>1, <1>2, ServerOpensOnly DEF Companions, SessionInv
<1>12. KeepTheirTurns'
  BY <1>1, <1>2, TurnServer DEF KeepTheirTurns, SessionInv
<1> QED
  BY <1>3, <1>8, <1>9, <1>10, <1>11, <1>12 DEF SessionInv


-----------------------------------------------------------------------------
(***************************************************************************)
(* What the clients do keeps the invariant.                                *)
(***************************************************************************)
LEMMA ServerStays ==
  ASSUME UNCHANGED vars
  PROVE  /\ \A c \in Clients : Underway(c)' = Underway(c)
         /\ \A c \in Clients : sent'[c] = sent[c]
         /\ OpensOnly => OpensOnly'
         /\ \A c \in Clients : Accompanied(c) => Accompanied(c)'
         /\ \A c \in Clients : KeepsTurn(c) => KeepsTurn(c)'
<1>1. UNCHANGED <<queue, hand, pc, replyList, events, sent, next, curr>>
  BY DEF vars
<1>2. \A c \in Clients : Underway(c)' = Underway(c)
  <2>1. Replies' = Replies /\ \A c : InHand(c)' = InHand(c)
    BY <1>1 DEF Replies, InHand, Unanswered
  <2> QED
    BY <1>1, <2>1 DEF Underway
<1>3. OpensOnly => OpensOnly'
  BY <1>1 DEF OpensOnly, Busy
<1>4. \A c \in Clients : Accompanied(c) => Accompanied(c)'
  BY <1>1 DEF Accompanied
<1>5. \A c \in Clients : KeepsTurn(c) => KeepsTurn(c)'
  <2>1. \A h \in Handlers : Busy(h)' <=> Busy(h)
    BY <1>1 DEF Busy
  <2> QED
    BY <1>1, <2>1, TurnOthers
<1> QED
  BY <1>1, <1>2, <1>3, <1>4, <1>5

\* projectOpened sets off more requests, but no openProject.
LEMMA ReceiveSession ==
  ASSUME ServerInv, SessionInv, NEW d \in Clients, Receive(d)
  PROVE  SessionInv'
<1>1. TypeOK /\ ReplyInv /\ SessionTyped /\ WhatArrived /\ OneAtATime /\ NoneMadeUp
      /\ OpensOnly /\ Companions /\ KeepTheirTurns
  BY DEF ServerInv, SessionInv
<1>2. /\ opened[d] < SentTo(d, "openProject")
      /\ opened' = [opened EXCEPT ![d] = @ + 1]
      /\ outbox' = [outbox EXCEPT ![d] = @ \o OnProjectOpened(d)]
      /\ UNCHANGED <<selections, hasty>> /\ UNCHANGED vars
  BY DEF Receive
<1>3. OnProjectOpened(d) \in Seq(SessionMethods) /\ Number(OnProjectOpened(d), OpenMessages) = 0
  <2>1. PICK n \in Nat : n = IF d \in Benchmarks THEN Frames ELSE 1
    BY SessionsAssumption DEF SessionsAssumption
  <2>2. PICK s : s = [i \in 1 .. n |-> "requestFrame"]
    OBVIOUS
  <2>3. s \in Seq(SessionMethods) /\ <<"getScene">> \in Seq(SessionMethods)
    <3>1. s \in [1 .. n -> SessionMethods]
      BY <2>2 DEF SessionMethods
    <3> QED
      BY <3>1, SeqDef DEF SessionMethods
  <2>4. Hits(s, OpenMessages) = {} /\ Hits(<<"getScene">>, OpenMessages) = {}
    BY <2>2 DEF Hits, OpenMessages
  <2>5. Number(s, OpenMessages) = 0 /\ Number(<<"getScene">>, OpenMessages) = 0
    BY <2>4, FS_EmptySet DEF Number
  <2>6. OnProjectOpened(d) = <<"getScene">> \o s
    BY <2>1, <2>2 DEF OnProjectOpened
  <2>7. Number(<<"getScene">> \o s, OpenMessages)
          = Number(<<"getScene">>, OpenMessages) + Number(s, OpenMessages)
    BY <2>3, NumberConcat
  <2>8. <<"getScene">> \o s \in Seq(SessionMethods)
    BY <2>3
  <2> QED
    BY <2>5, <2>6, <2>7, <2>8
<1>4. outbox[d] \in Seq(SessionMethods) /\ outbox \in [Clients -> Seq(SessionMethods)]
      /\ opened \in [Clients -> Nat]
  BY <1>1 DEF SessionTyped
<1>5. \A c \in Clients : Number(outbox'[c], OpenMessages) = Number(outbox[c], OpenMessages)
  <2> SUFFICES ASSUME NEW c \in Clients
               PROVE  Number(outbox'[c], OpenMessages) = Number(outbox[c], OpenMessages)
    OBVIOUS
  <2>1. CASE c = d
    <3>1. outbox'[c] = outbox[d] \o OnProjectOpened(d)
      BY <1>2, <1>4, <2>1
    <3>2. Number(outbox[d] \o OnProjectOpened(d), OpenMessages)
            = Number(outbox[d], OpenMessages) + Number(OnProjectOpened(d), OpenMessages)
      BY <1>3, <1>4, NumberConcat
    <3>3. Number(outbox[d], OpenMessages) \in Nat
      BY <1>4, NumberTyped
    <3> QED
      BY <1>3, <2>1, <3>1, <3>2, <3>3
  <2>2. CASE c # d
    BY <1>2, <1>4, <2>2
  <2> QED
    BY <2>1, <2>2
<1>6. /\ \A c \in Clients : Underway(c)' = Underway(c)
      /\ \A c \in Clients : sent'[c] = sent[c]
      /\ OpensOnly'
      /\ \A c \in Clients : Accompanied(c) => Accompanied(c)'
      /\ \A c \in Clients : KeepsTurn(c) => KeepsTurn(c)'
  BY <1>1, <1>2, ServerStays
<1>7. SessionTyped'
  <2>1. outbox[d] \o OnProjectOpened(d) \in Seq(SessionMethods)
    BY <1>3, <1>4
  <2> QED
    BY <1>1, <1>2, <2>1 DEF SessionTyped
<1>8. WhatArrived'
  <2>1. \A c \in Clients : opened[c] \in Nat /\ Number(sent[c], OpenReplies) \in Nat
    BY <1>1, UnderwayTyped DEF SessionTyped
  <2>2. opened[d] < Number(sent[d], OpenReplies)
    BY <1>1, <1>2, SentToIsNumber
  <2>3. \A c \in Clients : opened'[c] = opened[c] \/ (c = d /\ opened'[c] = opened[d] + 1)
    BY <1>2, <1>4
  <2> QED
    BY <1>1, <1>6, <2>1, <2>2, <2>3 DEF WhatArrived
<1>9. OneAtATime'
  <2>1. \A c \in Clients : opened[c] \in Nat /\ selections[c] \in Nat
    BY <1>1 DEF SessionTyped
  <2>2. \A c \in Clients : opened'[c] = opened[c] \/ opened'[c] = opened[c] + 1
    BY <1>2, <1>4
  <2> QED
    BY <1>1, <1>2, <2>1, <2>2 DEF OneAtATime
<1>10. NoneMadeUp'
  BY <1>1, <1>2, <1>5, <1>6 DEF NoneMadeUp, Started
<1>11. Companions' /\ KeepTheirTurns'
  BY <1>1, <1>2, <1>6 DEF Companions, KeepTheirTurns
<1> QED
  BY <1>6, <1>7, <1>8, <1>9, <1>10, <1>11 DEF SessionInv

\* One selection is one openProject; who does not wait is hasty from then on.
LEMMA SelectSession ==
  ASSUME ServerInv, SessionInv, NEW d \in Clients, SelectData(d)
  PROVE  SessionInv'
<1>1. TypeOK /\ ReplyInv /\ SessionTyped /\ WhatArrived /\ OneAtATime /\ NoneMadeUp
      /\ OpensOnly /\ Companions /\ KeepTheirTurns
  BY DEF ServerInv, SessionInv
<1> DEFINE news == <<"openProject", "getScene", "requestFrame">>
<1>2. /\ selections' = [selections EXCEPT ![d] = @ + 1]
      /\ outbox' = [outbox EXCEPT ![d] = @ \o news]
      /\ hasty' = IF opened[d] < selections[d] THEN hasty \cup {d} ELSE hasty
      /\ opened' = opened /\ UNCHANGED vars
  BY DEF SelectData
<1>3. news \in Seq(SessionMethods) /\ Number(news, OpenMessages) = 1
  <2>1. news \in Seq(SessionMethods)
    BY DEF SessionMethods
  <2>2. Hits(news, OpenMessages) = {1}
    BY DEF Hits, OpenMessages
  <2> QED
    BY <2>1, <2>2, FS_Singleton DEF Number
<1> HIDE DEF news
<1>4. /\ outbox[d] \in Seq(SessionMethods) /\ outbox \in [Clients -> Seq(SessionMethods)]
      /\ selections \in [Clients -> Nat] /\ opened \in [Clients -> Nat] /\ hasty \subseteq Clients
  BY <1>1 DEF SessionTyped
<1>5. /\ Number(outbox'[d], OpenMessages) = Number(outbox[d], OpenMessages) + 1
      /\ \A c \in Clients \ {d} : outbox'[c] = outbox[c]
  <2>1. outbox'[d] = outbox[d] \o news /\ \A c \in Clients \ {d} : outbox'[c] = outbox[c]
    BY <1>2, <1>4
  <2>2. Number(outbox[d] \o news, OpenMessages)
          = Number(outbox[d], OpenMessages) + Number(news, OpenMessages)
    BY <1>3, <1>4, NumberConcat
  <2> QED
    BY <1>3, <2>1, <2>2
<1>6. /\ \A c \in Clients : Underway(c)' = Underway(c)
      /\ \A c \in Clients : sent'[c] = sent[c]
      /\ OpensOnly'
      /\ \A c \in Clients : Accompanied(c) => Accompanied(c)'
      /\ \A c \in Clients : KeepsTurn(c) => KeepsTurn(c)'
  BY <1>1, <1>2, ServerStays
<1>7. SessionTyped'
  <2>1. outbox[d] \o news \in Seq(SessionMethods)
    BY <1>3, <1>4
  <2>2. selections[d] + 1 \in Nat
    BY <1>4
  <2>3. outbox' \in [Clients -> Seq(SessionMethods)] /\ opened' \in [Clients -> Nat]
    BY <1>2, <1>4, <2>1
  <2>4. selections' \in [Clients -> Nat] /\ hasty' \in SUBSET Clients
    BY <1>2, <1>4, <2>2
  <2> QED
    BY <2>3, <2>4 DEF SessionTyped
<1>8. WhatArrived'
  BY <1>1, <1>2, <1>6 DEF WhatArrived
<1>9. \A c \in Clients \ hasty' : c \notin hasty
  BY <1>2
<1>10. \A c \in Clients \ hasty' :
          \/ c # d /\ selections'[c] = selections[c]
          \/ c = d /\ selections'[c] = selections[d] + 1 /\ selections[d] <= opened[d]
  BY <1>2, <1>4
<1>11. OneAtATime'
  <2> SUFFICES ASSUME NEW c \in Clients \ hasty'
               PROVE  selections'[c] <= opened[c] + 1
    BY <1>2 DEF OneAtATime
  <2>1. selections[c] \in Nat /\ opened[c] \in Nat /\ selections[c] <= opened[c] + 1
    BY <1>1, <1>4, <1>9 DEF OneAtATime
  <2> QED
    BY <1>10, <2>1
<1>12. NoneMadeUp'
  <2> SUFFICES ASSUME NEW c \in Clients \ hasty'
               PROVE  Started(c)' <= selections'[c]
    BY DEF NoneMadeUp
  <2>1. PICK n, u : n = Number(outbox[c], OpenMessages) /\ u = Underway(c)
    OBVIOUS
  <2>2. n \in Nat /\ u \in Nat /\ selections[c] \in Nat
    BY <1>1, <1>4, <2>1, UnderwayTyped
  <2>3. n + u <= selections[c]
    BY <1>1, <1>9, <2>1 DEF NoneMadeUp, Started
  <2>4. CASE c = d
    <3>1. Started(c)' = (n + 1) + u /\ selections'[c] = selections[c] + 1
      BY <1>5, <1>6, <1>10, <2>1, <2>4 DEF Started
    <3> QED
      BY <2>2, <2>3, <3>1
  <2>5. CASE c # d
    <3>1. Started(c)' = n + u /\ selections'[c] = selections[c]
      BY <1>5, <1>6, <1>10, <2>1, <2>5 DEF Started
    <3> QED
      BY <2>3, <3>1
  <2> QED
    BY <2>4, <2>5
<1>13. Companions' /\ KeepTheirTurns'
  BY <1>1, <1>6, <1>9 DEF Companions, KeepTheirTurns
<1> QED
  BY <1>6, <1>7, <1>8, <1>11, <1>12, <1>13 DEF SessionInv


\* What newRequest does for the messages of a session.
Asks(c, m, H, r) ==
  /\ \A h \in Handlers :
       queue'[h] = IF h \in H THEN Enqueue(queue[h], r[h]) ELSE queue[h]
  /\ \A h \in H : r[h].client = c /\ r[h].type = TypeOf(m)
  /\ "CPU" \in H => r["CPU"].resolve # "openProject"
  /\ "GPU" \in H => r["GPU"].resolve = m
  /\ m = "openProject" =>
       "CPU" \in H /\ "GPU" \in H /\ r["GPU"].exp = r["CPU"].exp + 1

LEMMA SessionAsks ==
  ASSUME TypeOK, NEW c \in Clients, NEW m \in SessionMethods, NewRequest(c, m)
  PROVE  \E H \in SUBSET Handlers, r \in [Handlers -> Requests] : Asks(c, m, H, r)
<1>1. next[c] \in Nat /\ queue \in [Handlers -> Seq(Requests)]
  BY DEF TypeOK
<1>2. CASE m \in {"queryDatabase", "getScene"}
  <2>1. PICK e : e = Create(c, next[c], m, m, m)
    OBVIOUS
  <2>2. One(c, m, "CPU")
    BY <1>2 DEF NewRequest
  <2>3. e \in Requests /\ e.client = c /\ e.type = TypeOf(m) /\ e.resolve # "openProject"
    BY <1>1, <1>2, <2>1 DEF Create, Requests, Tasks, RpcMethods, TypeOf
  <2>4. \A h \in Handlers :
          queue'[h] = IF h \in {"CPU"} THEN Enqueue(queue[h], e) ELSE queue[h]
    BY <1>1, <2>1, <2>2 DEF One
  <2>5. Asks(c, m, {"CPU"}, [h \in Handlers |-> e])
    BY <1>2, <2>3, <2>4 DEF Asks, Handlers
  <2>6. {"CPU"} \in SUBSET Handlers /\ [h \in Handlers |-> e] \in [Handlers -> Requests]
    BY <2>3 DEF Handlers
  <2> QED
    BY <2>5, <2>6
<1>3. CASE m = "requestFrame"
  <2>1. PICK e : e = Create(c, next[c], m, m, m)
    OBVIOUS
  <2>2. One(c, m, "GPU")
    BY <1>3 DEF NewRequest
  <2>3. e \in Requests /\ e.client = c /\ e.type = TypeOf(m) /\ e.resolve = m
    BY <1>1, <1>3, <2>1 DEF Create, Requests, Tasks, RpcMethods, TypeOf
  <2>4. \A h \in Handlers :
          queue'[h] = IF h \in {"GPU"} THEN Enqueue(queue[h], e) ELSE queue[h]
    BY <1>1, <2>1, <2>2 DEF One
  <2>5. Asks(c, m, {"GPU"}, [h \in Handlers |-> e])
    BY <1>3, <2>3, <2>4 DEF Asks, Handlers
  <2>6. {"GPU"} \in SUBSET Handlers /\ [h \in Handlers |-> e] \in [Handlers -> Requests]
    BY <2>3 DEF Handlers
  <2> QED
    BY <2>5, <2>6
<1>4. CASE m = "openProject"
  <2>1. PICK e : e = [h \in Handlers |->
                        IF h = "CPU" THEN Create(c, next[c], m, "loadData", NoReply)
                                     ELSE Create(c, next[c] + 1, m, "initGL", m)]
    OBVIOUS
  <2>2. Two(c, m, "CPU", "loadData", "GPU", "initGL")
    BY <1>4 DEF NewRequest
  <2>3. e["CPU"] = Create(c, next[c], m, "loadData", NoReply)
        /\ e["GPU"] = Create(c, next[c] + 1, m, "initGL", m)
    BY <2>1 DEF Handlers
  <2>4. /\ \A h \in Handlers : e[h] \in Requests /\ e[h].client = c /\ e[h].type = TypeOf(m)
        /\ e["CPU"].resolve # "openProject" /\ e["GPU"].resolve = m
        /\ e["GPU"].exp = e["CPU"].exp + 1
    BY <1>1, <1>4, <2>3 DEF Create, Requests, Tasks, RpcMethods, TypeOf, NoReply, Handlers
  <2>5. \A h \in Handlers : queue'[h] = Enqueue(queue[h], e[h])
    BY <1>1, <2>2, <2>3 DEF Two, Handlers
  <2>6. Asks(c, m, Handlers, e)
    BY <2>4, <2>5 DEF Asks, Handlers
  <2>7. e \in [Handlers -> Requests]
    BY <2>1, <2>4
  <2> QED
    BY <2>6, <2>7
<1> QED
  BY <1>2, <1>3, <1>4 DEF SessionMethods

\* Who is not hasty has nothing of hers waiting that openProject overrides.
LEMMA NothingToOverride ==
  ASSUME ServerInv, SessionInv, NEW c \in Clients \ hasty,
         outbox[c] # <<>>, Head(outbox[c]) = "openProject"
  PROVE  \A h \in Handlers : \A i \in Waiting(c, h) : queue[h][i].type = 0
<1>1. TypeOK /\ ReplyInv /\ SessionTyped /\ WhatArrived /\ OneAtATime /\ NoneMadeUp
      /\ OpensOnly /\ Companions
  BY DEF ServerInv, SessionInv
<1>2. c \in Clients /\ outbox[c] \in Seq(SessionMethods) /\ queue["GPU"] \in Seq(Requests)
  BY <1>1 DEF SessionTyped, TypeOK, Handlers
<1>3. PICK a, b, x, y, z :
        /\ a = Number(outbox[c], OpenMessages) /\ b = Number(Tail(outbox[c]), OpenMessages)
        /\ x = Number(queue["GPU"], Opening(c))
        /\ y = Number(Replies, Opening(c)) /\ z = Number(sent[c], OpenReplies)
  OBVIOUS
<1>4. PICK v : v = InHand(c)
  OBVIOUS
<1>5. a = 1 + b /\ b \in Nat
  <2>1. a = Weight(Head(outbox[c]), OpenMessages) + b
    BY <1>2, <1>3, NumberTail
  <2>2. Weight(Head(outbox[c]), OpenMessages) = 1
    BY DEF Weight, OpenMessages
  <2>3. Tail(outbox[c]) \in Seq(SessionMethods)
    BY <1>2
  <2> QED
    BY <1>3, <2>1, <2>2, <2>3, NumberTyped
<1>6. x \in Nat /\ y \in Nat /\ z \in Nat /\ v \in Nat
  BY <1>1, <1>3, <1>4, PartsTyped
<1>7. opened[c] \in Nat /\ selections[c] \in Nat
  BY <1>1 DEF SessionTyped
<1>8. a + (x + v + y + z) <= selections[c] /\ selections[c] <= opened[c] + 1 /\ opened[c] <= z
  BY <1>1, <1>3, <1>4 DEF NoneMadeUp, Started, Underway, OneAtATime, WhatArrived
<1>9. x = 0
  BY <1>5, <1>6, <1>7, <1>8
<1>10. \A i \in DOMAIN queue["GPU"] : queue["GPU"][i] \notin Opening(c)
  <2>1. IsFiniteSet(Hits(queue["GPU"], Opening(c)))
    BY <1>2, NumberTyped
  <2>2. Hits(queue["GPU"], Opening(c)) = {}
    BY <1>3, <1>9, <2>1, FS_EmptySet DEF Number
  <2> QED
    BY <2>2 DEF Hits
<1>11. \A i \in Waiting(c, "GPU") : queue["GPU"][i].type = 0
  <2> SUFFICES ASSUME NEW i \in Waiting(c, "GPU"), queue["GPU"][i].type # 0
               PROVE  FALSE
    OBVIOUS
  <2>1. i \in DOMAIN queue["GPU"] /\ queue["GPU"][i].client = c
    BY DEF Waiting
  <2>2. PICK r : r = queue["GPU"][i]
    OBVIOUS
  <2>3. r \in Requests
    BY <1>2, <2>1, <2>2, ElementOf
  <2>4. r.type = 1
    BY <2>2, <2>3 DEF Requests
  <2>5. r.resolve = "openProject"
    BY <1>1, <2>1, <2>2, <2>4 DEF OpensOnly
  <2> QED
    BY <1>10, <2>1, <2>2, <2>3, <2>5 DEF Opening
<1>12. \A i \in Waiting(c, "CPU") : queue["CPU"][i].type = 0
  <2> SUFFICES ASSUME NEW i \in Waiting(c, "CPU"), queue["CPU"][i].type # 0
               PROVE  FALSE
    OBVIOUS
  <2>1. i \in DOMAIN queue["CPU"] /\ queue["CPU"][i].client = c
    BY DEF Waiting
  <2>2. queue["CPU"] \in Seq(Requests)
    BY <1>1 DEF TypeOK, Handlers
  <2>3. PICK r \in Requests : r = queue["CPU"][i]
    BY <2>1, <2>2, ElementOf
  <2>4. r.type = 1
    BY <2>3 DEF Requests
  <2> QED
    BY <1>1, <1>10, <2>1, <2>3, <2>4 DEF Companions, Accompanied
<1> QED
  BY <1>11, <1>12 DEF Handlers


\* A message of a session arrives at the server.
LEMMA DeliverSession ==
  ASSUME ServerInv, SessionInv, NEW d \in Clients, Deliver(d)
  PROVE  SessionInv'
<1>1. TypeOK /\ ReplyInv /\ TicketInv /\ SessionTyped /\ WhatArrived /\ OneAtATime
      /\ NoneMadeUp /\ OpensOnly /\ Companions /\ KeepTheirTurns
  BY DEF ServerInv, SessionInv
<1>2. PICK m \in SessionMethods : m = Head(outbox[d])
  BY <1>1, DeliverFacts
<1>3. /\ m \in Methods /\ outbox[d] \in Seq(SessionMethods) /\ outbox[d] # <<>>
      /\ NewRequest(d, m)
      /\ outbox' = [outbox EXCEPT ![d] = Tail(@)]
      /\ UNCHANGED <<opened, selections, hasty>>
  BY <1>1, <1>2, DeliverFacts
<1>4. UNCHANGED <<curr, pc, hand, slot, replyList, replyNext, events, sent>>
  BY <1>3 DEF NewRequest
<1>5. PICK H \in SUBSET Handlers, r \in [Handlers -> Requests] : Asks(d, m, H, r)
  BY <1>1, <1>3, SessionAsks
<1>6. \A h \in Handlers : queue[h] \in Seq(Requests) /\ r[h] \in Requests
  BY <1>1 DEF TypeOK
<1>7. \A h \in Handlers :
        queue'[h] = IF h \in H THEN Enqueue(queue[h], r[h]) ELSE queue[h]
  BY <1>5 DEF Asks
<1>8. \A h \in H : r[h].client = d /\ r[h].type = TypeOf(m)
  BY <1>5 DEF Asks
<1>9. TypeOf(m) # 0 => m = "openProject"
  BY DEF TypeOf, SessionMethods
<1>10. ASSUME NEW c \in Clients \ hasty, NEW h \in H, NEW k \in DOMAIN queue[h],
              r[h].type # 0, Overrides(r[h], queue[h][k]), queue[h][k].client = c
       PROVE  FALSE
  <2>1. c = d /\ m = "openProject" /\ queue[h][k].type # 0
    BY <1>8, <1>9, <1>10 DEF Overrides
  <2>2. outbox[d] # <<>> /\ Head(outbox[d]) = "openProject"
    BY <1>2, <1>3, <2>1
  <2>3. k \in Waiting(d, h)
    BY <1>10, <2>1 DEF Waiting
  <2> QED
    BY <1>10, <2>1, <2>2, <2>3, NothingToOverride
<1>11. SessionTyped'
  <2>1. Tail(outbox[d]) \in Seq(SessionMethods)
    BY <1>3
  <2> QED
    BY <1>1, <1>3, <2>1 DEF SessionTyped
<1>12. WhatArrived' /\ OneAtATime'
  BY <1>1, <1>3, <1>4 DEF WhatArrived, OneAtATime
<1>13. NoneMadeUp'
  <2> SUFFICES ASSUME NEW c \in Clients \ hasty
               PROVE  Started(c)' <= selections[c]
    BY <1>3 DEF NoneMadeUp
  <2>1. PICK w : w = IF c = d /\ m = "openProject" THEN 1 ELSE 0
    OBVIOUS
  <2>2. Number(outbox[c], OpenMessages) = w + Number(outbox'[c], OpenMessages)
        /\ Number(outbox'[c], OpenMessages) \in Nat
    <3>1. CASE c = d
      <4>1. outbox'[c] = Tail(outbox[d]) /\ Tail(outbox[d]) \in Seq(SessionMethods)
        BY <1>1, <1>3, <3>1 DEF SessionTyped
      <4>2. w = Weight(Head(outbox[d]), OpenMessages)
        BY <1>2, <2>1, <3>1 DEF Weight, OpenMessages
      <4>3. Number(outbox[d], OpenMessages)
              = Weight(Head(outbox[d]), OpenMessages) + Number(Tail(outbox[d]), OpenMessages)
        BY <1>3, NumberTail
      <4>4. Number(Tail(outbox[d]), OpenMessages) \in Nat
        BY <4>1, NumberTyped
      <4> QED
        BY <3>1, <4>1, <4>2, <4>3, <4>4
    <3>2. CASE c # d
      <4>1. outbox'[c] = outbox[c] /\ w = 0
        BY <1>1, <1>3, <2>1, <3>2 DEF SessionTyped
      <4>2. Number(outbox[c], OpenMessages) \in Nat
        BY <1>1, PartsTyped
      <4> QED
        BY <4>1, <4>2
    <3> QED
      BY <3>1, <3>2
  <2>3. Number(queue'["GPU"], Opening(c)) = Number(queue["GPU"], Opening(c)) + w
    <3>1. CASE "GPU" \in H
      <4>1. PICK e \in Requests : e = r["GPU"]
        BY <1>6 DEF Handlers
      <4>2. PICK q \in Seq(Requests) : q = queue["GPU"]
        BY <1>6 DEF Handlers
      <4>3. e.client = d /\ e.type = TypeOf(m) /\ e.resolve = m
        BY <1>5, <1>8, <3>1, <4>1 DEF Asks
      <4>4. w = Weight(e, Opening(c))
        BY <2>1, <4>1, <4>3 DEF Weight, Opening
      <4>5. ASSUME e.type # 0, NEW i \in DOMAIN q, Overrides(e, q[i])
            PROVE  q[i] \in Opening(c) <=> e \in Opening(c)
        <5>1. q[i].client = d
          BY <4>3, <4>5 DEF Overrides
        <5>2. q[i].client # c
          BY <1>10, <3>1, <4>1, <4>2, <4>5
        <5> QED
          BY <4>3, <5>1, <5>2 DEF Opening
      <4>6. Number(Enqueue(q, e), Opening(c)) = Number(q, Opening(c)) + Weight(e, Opening(c))
        BY <4>5, NumberEnqueue
      <4>7. queue'["GPU"] = Enqueue(q, e)
        BY <1>7, <3>1, <4>1, <4>2 DEF Handlers
      <4> QED
        BY <4>2, <4>4, <4>6, <4>7
    <3>2. CASE "GPU" \notin H
      <4>1. queue'["GPU"] = queue["GPU"] /\ w = 0
        BY <1>5, <1>7, <2>1, <3>2 DEF Asks, Handlers
      <4>2. Number(queue["GPU"], Opening(c)) \in Nat
        BY <1>1, PartsTyped
      <4> QED
        BY <4>1, <4>2
    <3> QED
      BY <3>1, <3>2
  <2>4. Replies' = Replies /\ InHand(c)' = InHand(c)
    BY <1>4 DEF Replies, InHand, Unanswered
  <2>5. PICK b, x, y, z : /\ b = Number(outbox'[c], OpenMessages)
                          /\ x = Number(queue["GPU"], Opening(c))
                          /\ y = Number(Replies, Opening(c)) /\ z = Number(sent[c], OpenReplies)
    OBVIOUS
  <2>6. PICK v : v = InHand(c)
    OBVIOUS
  <2>7. x \in Nat /\ y \in Nat /\ z \in Nat /\ v \in Nat
    BY <1>1, <2>5, <2>6, PartsTyped
  <2>8. b \in Nat /\ w \in Nat
    BY <2>1, <2>2, <2>5
  <2>9. (w + b) + (x + v + y + z) <= selections[c]
    BY <1>1, <2>2, <2>5, <2>6 DEF NoneMadeUp, Started, Underway
  <2>10. Started(c)' = b + ((x + w) + v + y + z)
    BY <1>4, <2>3, <2>4, <2>5, <2>6 DEF Started, Underway
  <2>11. selections[c] \in Nat
    BY <1>1 DEF SessionTyped
  <2> QED
    BY <2>7, <2>8, <2>9, <2>10, <2>11
<1>14. \A h \in Handlers : \A i \in DOMAIN queue'[h] :
         \/ i \in DOMAIN queue[h] /\ queue'[h][i] = queue[h][i]
         \/ h \in H /\ queue'[h][i] = r[h]
  BY <1>6, <1>7, EnqueueEntries
<1>15. OpensOnly'
  <2>1. "CPU" \in H => r["CPU"].resolve # "openProject"
    BY <1>5 DEF Asks
  <2>2. "GPU" \in H /\ r["GPU"].type = 1 => r["GPU"].resolve = "openProject"
    <3>1. "GPU" \in H => r["GPU"].resolve = m /\ r["GPU"].type = TypeOf(m)
      BY <1>5 DEF Asks
    <3> QED
      BY <1>9, <3>1
  <2> QED
    BY <1>1, <1>4, <1>14, <2>1, <2>2 DEF OpensOnly, Busy, Handlers
<1>16. Companions'
  <2> SUFFICES ASSUME NEW c \in Clients \ hasty, NEW i \in DOMAIN queue'["CPU"],
                      queue'["CPU"][i].client = c, queue'["CPU"][i].type = 1
               PROVE  \E j \in DOMAIN queue'["GPU"] :
                        /\ queue'["GPU"][j] \in Opening(c)
                        /\ queue'["GPU"][j].exp = queue'["CPU"][i].exp + 1
    BY <1>3 DEF Companions, Accompanied
  <2>1. CASE i \in DOMAIN queue["CPU"] /\ queue'["CPU"][i] = queue["CPU"][i]
    <3>1. PICK j \in DOMAIN queue["GPU"] :
            queue["GPU"][j] \in Opening(c) /\ queue["GPU"][j].exp = queue["CPU"][i].exp + 1
      BY <1>1, <2>1 DEF Companions, Accompanied
    <3>2. queue["GPU"][j].client = c
      BY <3>1 DEF Opening
    <3>3. j \in DOMAIN queue'["GPU"] /\ queue'["GPU"][j] = queue["GPU"][j]
      <4>1. CASE "GPU" \in H
        <5>1. queue'["GPU"] = Enqueue(queue["GPU"], r["GPU"])
          BY <1>7, <4>1 DEF Handlers
        <5>2. \/ /\ j \in DOMAIN Enqueue(queue["GPU"], r["GPU"])
                 /\ Enqueue(queue["GPU"], r["GPU"])[j] = queue["GPU"][j]
              \/ Overrides(r["GPU"], queue["GPU"][j]) /\ r["GPU"].type # 0
          BY <1>6, EnqueueKeeps DEF Handlers
        <5> QED
          BY <1>10, <3>2, <4>1, <5>1, <5>2
      <4>2. CASE "GPU" \notin H
        BY <1>7, <4>2 DEF Handlers
      <4> QED
        BY <4>1, <4>2
    <3> QED
      BY <2>1, <3>1, <3>3
  <2>2. CASE "CPU" \in H /\ queue'["CPU"][i] = r["CPU"]
    <3>1. c = d /\ m = "openProject"
      BY <1>8, <1>9, <2>2
    <3>2. "GPU" \in H /\ r["GPU"].exp = r["CPU"].exp + 1 /\ r["GPU"].resolve = "openProject"
          /\ r["GPU"].client = d
      BY <1>5, <1>8, <3>1 DEF Asks
    <3>3. queue'["GPU"] = Enqueue(queue["GPU"], r["GPU"])
      BY <1>7, <3>2 DEF Handlers
    <3>4. \E j \in DOMAIN Enqueue(queue["GPU"], r["GPU"]) :
            Enqueue(queue["GPU"], r["GPU"])[j] = r["GPU"]
      BY <1>6, EnqueueKeeps DEF Handlers
    <3>5. r["GPU"] \in Opening(c)
      BY <1>6, <3>1, <3>2 DEF Opening, Handlers
    <3> QED
      BY <2>2, <3>2, <3>3, <3>4, <3>5
  <2>3. "CPU" \in Handlers
    BY DEF Handlers
  <2> QED
    BY <1>14, <2>1, <2>2, <2>3
<1>17. KeepTheirTurns'
  <2> SUFFICES ASSUME NEW c \in Clients \ hasty
               PROVE  KeepsTurn(c)'
    BY <1>3 DEF KeepTheirTurns
  <2>1. KeepsTurn(c)
    BY <1>1 DEF KeepTheirTurns
  <2>2. m # "closeProject"
    BY DEF SessionMethods
  <2>3. d = c /\ m = "openProject" =>
          \A h \in Handlers : \A i \in Waiting(d, h) : queue[h][i].type = 0
    BY <1>2, <1>3, NothingToOverride
  <2> QED
    BY <1>1, <1>3, <2>1, <2>2, <2>3, TurnSubmit
<1> QED
  BY <1>11, <1>12, <1>13, <1>15, <1>16, <1>17 DEF SessionInv

-----------------------------------------------------------------------------
LEMMA SessionStart == SessionInit => ServerInv /\ SessionInv
<1> SUFFICES ASSUME SessionInit
             PROVE  ServerInv /\ SessionInv
  OBVIOUS
<1>1. Init /\ ServerInv
  BY InitTyped, InitTickets, InitOrder DEF SessionInit, ServerInv
<1>2. /\ outbox = [c \in Clients |-> OnConnect(c)]
      /\ opened = [c \in Clients |-> 0]
      /\ selections = [c \in Clients |-> IF c \in Benchmarks THEN 1 ELSE 0]
      /\ hasty = {}
  BY DEF SessionInit
<1>3. SessionTyped
  <2>1. <<"queryDatabase", "openProject">> \in Seq(SessionMethods)
    BY DEF SessionMethods
  <2>2. <<"queryDatabase", "getScene", "requestFrame">> \in Seq(SessionMethods)
    BY DEF SessionMethods
  <2>3. \A c : OnConnect(c) \in Seq(SessionMethods)
    BY <2>1, <2>2 DEF OnConnect
  <2> QED
    BY <1>2, <2>3 DEF SessionTyped
<1>4. /\ queue["GPU"] = <<>> /\ queue["CPU"] = <<>> /\ events = <<>>
      /\ \A h \in Handlers : pc[h] = "idle" /\ queue[h] = <<>>
      /\ \A c \in Clients : sent[c] = <<>> /\ next[c] = 0 /\ curr[c] = 0
  BY <1>1 DEF Init, Handlers
<1>5. \A c \in Clients : Number(sent[c], OpenReplies) = 0
  BY <1>4, NumberEmpty
<1>6. WhatArrived /\ OneAtATime
  BY <1>2, <1>5 DEF WhatArrived, OneAtATime
<1>7. \A c \in Clients : Underway(c) = 0
  <2>1. Hits(Replies, {}) = {} /\ \A G : Hits(Replies, G) = {}
    BY <1>4 DEF Replies, Hits
  <2>2. \A G : Number(Replies, G) = 0
    BY <2>1, FS_EmptySet DEF Number
  <2>3. \A c : InHand(c) = 0
    BY <1>4 DEF InHand, Unanswered, Handlers
  <2> QED
    BY <1>4, <1>5, <2>2, <2>3, NumberEmpty DEF Underway
<1>8. NoneMadeUp
  <2> SUFFICES ASSUME NEW c \in Clients
               PROVE  Started(c) <= selections[c]
    BY DEF NoneMadeUp
  <2>1. CASE c \in Benchmarks
    <3>1. outbox[c] = <<"queryDatabase", "openProject">>
      BY <1>2, <2>1 DEF OnConnect
    <3>2. Hits(<<"queryDatabase", "openProject">>, OpenMessages) = {2}
      BY DEF Hits, OpenMessages
    <3>3. Number(outbox[c], OpenMessages) = 1
      BY <3>1, <3>2, FS_Singleton DEF Number
    <3> QED
      BY <1>2, <1>7, <2>1, <3>3 DEF Started
  <2>2. CASE c \notin Benchmarks
    <3>1. outbox[c] = <<"queryDatabase", "getScene", "requestFrame">>
      BY <1>2, <2>2 DEF OnConnect
    <3>2. Hits(<<"queryDatabase", "getScene", "requestFrame">>, OpenMessages) = {}
      BY DEF Hits, OpenMessages
    <3>3. Number(outbox[c], OpenMessages) = 0
      BY <3>1, <3>2, FS_EmptySet DEF Number
    <3> QED
      BY <1>2, <1>7, <2>2, <3>3 DEF Started
  <2> QED
    BY <2>1, <2>2
<1>9. OpensOnly /\ Companions
  BY <1>4 DEF OpensOnly, Companions, Accompanied, Busy, Handlers
<1>10. KeepTheirTurns
  BY <1>4 DEF KeepTheirTurns, KeepsTurn, AllHeld, AllHandled, Busy
<1> QED
  BY <1>1, <1>3, <1>6, <1>8, <1>9, <1>10 DEF SessionInv

LEMMA SessionStep ==
  ServerInv /\ SessionInv /\ [SessionNext]_allSessionVars => ServerInv' /\ SessionInv'
<1> SUFFICES ASSUME ServerInv, SessionInv, SessionNext \/ UNCHANGED allSessionVars
             PROVE  ServerInv' /\ SessionInv'
  OBVIOUS
<1>1. ServerInv'
  BY ServerInvStep DEF SessionInv
<1>2. SessionInv'
  BY SessionSteps, ServerSession, DeliverSession, ReceiveSession, SelectSession
<1> QED
  BY <1>1, <1>2

LEMMA SessionsKeepInv == SessionSpec => [](ServerInv /\ SessionInv)
BY SessionStart, SessionStep, PTL DEF SessionSpec

\* Whatever the sessions send, and however late it arrives: only a user who
\* selects again before projectOpened overtakes an openProject of hers or
\* loses her turn.
THEOREM OnlyTheHastyFreeze == SessionSpec => []OnlyHastyFreezes
<1>1. ServerInv /\ SessionInv => OnlyHastyFreezes
  <2> SUFFICES ASSUME ServerInv, SessionInv, NEW c \in Clients \ hasty
               PROVE  ~ Overtakes(c) /\ ~ Frozen(c)
    BY DEF OnlyHastyFreezes
  <2>1. ~ Overtakes(c)
    <3>1. ASSUME Overtakes(c)
          PROVE  FALSE
      <4>1. \A h \in Handlers : \A i \in Waiting(c, h) : queue[h][i].type = 0
        BY <3>1, NothingToOverride DEF Overtakes
      <4> QED
        BY <3>1, <4>1 DEF Overtakes
    <3> QED
      BY <3>1
  <2>2. ~ Frozen(c)
    BY TurnOwned DEF ServerInv, SessionInv, KeepTheirTurns
  <2> QED
    BY <2>1, <2>2
<1> QED
  BY <1>1, SessionsKeepInv, PTL

\* The replies to a session leave in the order of its requests.
THEOREM SessionsAnsweredInOrder == SessionSpec => []RepliesInOrder
<1>1. ServerInv /\ SessionInv => RepliesInOrder
  BY DEF ServerInv, OrderInv
<1> QED
  BY <1>1, SessionsKeepInv, PTL

\* In front of the same server, so: dispatching serves the sessions in turn.
THEOREM SessionsServedInTurn == SessionSpec => ImplementsSerialService
<1>1. SessionInit => Served!Init
  BY InitServed DEF SessionInit
<1>2. ServerInv /\ SessionInv /\ [SessionNext]_allSessionVars => [Served!Next]_(Served!vars)
  BY SessionIsDispatch, StepServed DEF ServerInv, SessionInv
<1> QED
  BY <1>1, <1>2, SessionsKeepInv, PTL DEF SessionSpec, ImplementsSerialService, Served!Spec
=============================================================================
