-------------------------- MODULE RenderingProofs --------------------------
(***************************************************************************)
(* Proofs about the engine of a client, which two threads use without a    *)
(* lock: the order of dispatching is enough for them.                      *)
(***************************************************************************)
EXTENDS Rendering, DispatchProofs, WellFoundedInduction

-----------------------------------------------------------------------------
(***************************************************************************)
(* The inductive invariant.                                                *)
(***************************************************************************)
\* What a request may carry besides its ticket.
Payload == Projects \cup Scenes \cup {NoScene}

\* The requests whose handler has not been called yet.
Pending ==
  {r \in Requests :
     \/ \E h \in Handlers : \E i \in DOMAIN queue[h] : queue[h][i] = r
     \/ \E h \in Handlers : pc[h] = "run" /\ hand[h] = r}

\* A ticket of client c is done once its handler was called, which is before
\* the counter moves.
Executed(c) == \E h \in Handlers : pc[h] \in {"post", "count"} /\ hand[h].client = c

Done(c) == IF Executed(c) THEN curr[c] + 1 ELSE curr[c]

\* loadData and initGL of one openProject have successive tickets and carry the
\* same project; nothing else carries one.
LoadComesFirst ==
  \A r \in Pending : r.method = "loadData" =>
    /\ arg[r.client][r.exp + 1] \in Projects
    /\ r.exp + 1 < next[r.client]
    /\ \A s \in Pending :
         s.client = r.client /\ s.exp = r.exp + 1 => s.method = "initGL"

InitComesNext ==
  \A r \in Pending : r.method = "initGL" =>
    /\ arg[r.client][r.exp + 1] \in Projects
    /\ r.exp > 0
    /\ arg[r.client][r.exp] = arg[r.client][r.exp + 1]
    /\ \A s \in Pending :
         s.client = r.client /\ s.exp + 1 = r.exp => s.method = "loadData"

OthersCarryScenes ==
  \A r \in Pending :
    /\ r.method \notin {"loadData", "initGL"} => arg[r.client][r.exp + 1] \in Scenes \cup {NoScene}
    /\ r.resolve = "getScene" => r.method = "getScene"

CarryInv == LoadComesFirst /\ InitComesNext /\ OthersCarryScenes

\* The next request of client c that is done is an initGL.
OnlyInit(c) ==
  /\ Done(c) < next[c]
  /\ \A r \in Pending : r.client = c /\ r.exp = Done(c) => r.method = "initGL"

\* The engine of a client that opened project p last, d last of those that were
\* read and v last of those with a view.
OfProject(e, p, d, v) ==
  /\ e \in Engines /\ e.failed = "no"
  /\ IF ~ e.created
     THEN /\ p = NoProject /\ d = NoProject
          /\ ~ e.ready /\ e.mode = "none" /\ e.method = "none"
     ELSE /\ p \in Projects
          /\ Consistent(e)
          /\ d \in Read /\ e.data = d /\ e.mode = DataOf[d]
          /\ v \in Viewed /\ e.view = Default(v)
          /\ p \in Read => d = p
          /\ p \in Viewed => v = p

EngineOf(e, c, t) ==
  OfProject(e, Opened(c, t), LastOpened(c, t, Read), LastOpened(c, t, Viewed))

\* Client c asked for an odd height with one of its first t tickets.
Odd(a) == a \in OddHeight \/ (a \in Scenes /\ a.odd)

WasOdd(c, t) == \E u \in 1 .. t : Odd(arg[c][u])

SceneOfData(e) == e.ready /\ e.volume = e.mode /\ e.built[e.mode] = e.data

\* The engine is that of the project opened last among the tickets that are
\* done, and its scene that of its data but between loadData and initGL.
EngineFits(c) ==
  /\ EngineOf(engine[c], c, Done(c))
  /\ engine[c].created => SceneOfData(engine[c]) \/ OnlyInit(c)
  /\ engine[c].odd => WasOdd(c, Done(c))

\* The loadData in front of an initGL created the engine.
InitFindsEngine ==
  \A r \in Pending :
    r.method = "initGL" /\ r.exp = Done(r.client) => engine[r.client].created

\* Tickets are answered as they are done, and scenes are answers to getScene.
AnswersAreDone == \A c \in Clients : \A t \in DOMAIN answer[c] : t \in Nat /\ t < Done(c)

SceneAnswered(c, r) ==
  r.resolve = "getScene" =>
    r.exp \in DOMAIN answer[c] /\ answer[c][r.exp] \in Scenes \cup {NoScene}

ScenesAnswered ==
  /\ \A id \in DOMAIN replyList : SceneAnswered(replyList[id].client, replyList[id])
  /\ \A c \in Clients : \A i \in DOMAIN sent[c] : SceneAnswered(c, sent[c][i])

\* An answer to a request with payload a of a client that opened p, d and v last.
AnswerFits(reply, p, d, v, a) ==
  /\ reply \in Images \cup Scenes \cup {NoScene}
  /\ reply \in Images /\ p \in Projects =>
       /\ reply.image
       /\ reply.data = d
       /\ a = NoScene => reply.of = v
  /\ reply = NoScene => d = NoProject
  /\ reply \in Scenes => reply.data = d /\ reply.method = DataOf[d]

AnswerOf(c, t) ==
  AnswerFits(answer[c][t], Opened(c, t), LastOpened(c, t, Read),
             LastOpened(c, t, Viewed), arg[c][t + 1])

AnswersFit == \A c \in Clients : \A t \in DOMAIN answer[c] : AnswerOf(c, t)

RenderTyped ==
  /\ arg \in [Clients -> Seq(Payload)]
  /\ seen \in [Clients -> Nat]
  /\ DOMAIN answer = Clients /\ DOMAIN scene = Clients
  /\ RenderTypeOK

EnginesInv ==
  /\ \A c \in Clients : EngineFits(c)
  /\ InitFindsEngine
  /\ AnswersAreDone
  /\ AnswersFit

\* The process ends by an exception, and for an incoherent client.
EndInv == alive \/ (failure.kind # "null" /\ ~ Coherent(failure.client))

RenderInv ==
  /\ ReplyInv /\ TicketInv
  /\ RenderTyped
  /\ CarryInv
  /\ EnginesInv
  /\ ScenesAnswered
  /\ EndInv

-----------------------------------------------------------------------------
(***************************************************************************)
(* The calls of Engine.                                                    *)
(***************************************************************************)
LEMMA EngineFields ==
  ASSUME NEW e \in Engines
  PROVE  /\ e.created \in BOOLEAN /\ e.ready \in BOOLEAN
         /\ e.mode \in Kinds \cup {"none"}
         /\ e.data \in OrNone(Projects)
         /\ e.view \in Views
         /\ e.method \in Kinds \cup {"none"}
         /\ e.volume \in Kinds \cup {"none"}
         /\ e.built \in [Kinds -> OrNone(Projects)]
         /\ e.shown \in OrNone(Projects)
         /\ e.odd \in BOOLEAN
         /\ e.failed \in {"no", "throw", "null"}
  BY DEF Engines

\* What a fresh view does to an engine that has a scene.
LEMMA UpdateViewFits ==
  ASSUME RenderingAssumption, NEW e \in Engines, e.failed = "no", NEW view,
         view.method \in Kinds \cup {"none"}, view.of \in OrNone(Projects),
         view.odd \in BOOLEAN, Consistent(e), e.volume = e.mode, e.built[e.mode] = e.data, e.data \in Projects
  PROVE  /\ UpdateView(e, view) \in Engines
         /\ UpdateView(e, view).failed # "null"
         /\ view.method \in {"none", e.mode} => UpdateView(e, view).failed = "no"
         /\ UpdateView(e, view).failed = "no" =>
              UpdateView(e, view) = [e EXCEPT !.shown = view.of, !.odd = e.odd \/ view.odd]
<1> DEFINE given == [e EXCEPT !.method = IF view.method = "none" THEN @
                                                               ELSE view.method]
<1>1. /\ given \in Engines
      /\ given.mode = e.mode /\ given.volume = e.volume /\ given.built = e.built
      /\ given.method = IF view.method = "none" THEN e.method ELSE view.method
  BY DEF Engines
<1>2. e.mode \in Kinds /\ e.data # NoProject /\ e.method = e.mode
  BY DEF Consistent, RenderingAssumption
<1>3. HasScene(given)
  BY <1>1, <1>2 DEF HasScene
<1>4. CASE given.method = given.mode
  <2>1. UpdateView(e, view) =
          [given EXCEPT !.shown = view.of, !.odd = given.odd \/ view.odd]
    BY <1>1, <1>2, <1>3, <1>4 DEF UpdateView, Consistent, Engines
  <2>2. given = e
    BY <1>1, <1>2, <1>4 DEF Engines
  <2> QED
    BY <2>1, <2>2 DEF Engines
<1>5. CASE given.method # given.mode
  <2>1. UpdateView(e, view) = [given EXCEPT !.failed = "throw"]
    BY <1>5 DEF UpdateView, Consistent, Fail
  <2>2. /\ UpdateView(e, view) \in Engines
        /\ UpdateView(e, view).failed = "throw"
    BY <1>1, <2>1 DEF Engines
  <2> QED
    BY <1>1, <1>2, <1>5, <2>2
<1> QED
  BY <1>4, <1>5

LEMMA OpenProjectFits ==
  ASSUME RenderingAssumption, NEW e \in Engines, e.failed = "no", NEW p \in Projects,
         NEW d, e.mode \in Kinds => d \in Read /\ e.data = d /\ e.mode = DataOf[d],
         NEW v, e.method \in Kinds => v \in Viewed /\ e.view = Default(v)
  PROVE  LET o == OpenProject(e, p)
             d1 == IF p \in Read THEN p ELSE d
             v1 == IF p \in Viewed THEN p ELSE v
         IN
         /\ o \in Engines
         /\ o.failed # "null"
         /\ DataOf[p] \in Kinds /\ ViewOf[p] = DataOf[p] => o.failed = "no"
         /\ o.odd = e.odd
         /\ o.failed = "no" =>
              /\ o.created
              /\ Consistent(o)
              /\ d1 \in Read /\ o.data = d1 /\ o.mode = DataOf[d1]
              /\ v1 \in Viewed /\ o.view = Default(v1)
<1> DEFINE e1 == [e EXCEPT !.created = TRUE]
           e2 == LoadJSONFile(e1, p)
           e3 == LoadData(e2, p)
<1>0. /\ DataOf[p] \in Kinds \cup {"todo", "bad"}
      /\ ViewOf[p] \in Kinds \cup {"none"}
      /\ Default(p) \in Views
      /\ p \in Read <=> DataOf[p] \in Kinds
      /\ p \in Viewed <=> ViewOf[p] # "none"
  BY DEF RenderingAssumption, Views, OrNone, Default, Read, Viewed
<1>1. /\ e1 \in Engines /\ e1.created /\ e1.failed = "no" /\ e1.odd = e.odd
      /\ e1.mode = e.mode /\ e1.data = e.data
      /\ e1.view = e.view /\ e1.method = e.method
  BY DEF Engines
<1> HIDE DEF e1
<1>2. /\ e2 \in Engines /\ e2.created /\ e2.failed = "no" /\ e2.odd = e.odd
      /\ e2.mode = e.mode /\ e2.data = e.data
      /\ p \in Viewed => e2.view = Default(p) /\ e2.method = ViewOf[p]
      /\ p \notin Viewed => e2.view = e.view /\ e2.method = e.method
  <2>1. CASE ViewOf[p] = "none"
    BY <1>0, <1>1, <2>1 DEF LoadJSONFile
  <2>2. CASE ViewOf[p] # "none"
    <3>1. e2 = [e1 EXCEPT !.view = Default(p), !.method = ViewOf[p]]
      BY <2>2 DEF LoadJSONFile
    <3>2. PICK w \in Views : w = Default(p)
      BY <1>0
    <3>3. ViewOf[p] \in Kinds
      BY <1>0, <2>2
    <3> HIDE DEF e2
    <3>4. PICK x \in Engines : x = e1
      BY <1>1
    <3>5. PICK m \in Kinds : m = ViewOf[p]
      BY <3>3
    <3>6. e2 = [x EXCEPT !.view = w, !.method = m]
      BY <3>1, <3>2, <3>4, <3>5
    <3>7. e2 \in Engines
      BY <3>6 DEF Engines
    <3>8. /\ e2.created = x.created /\ e2.failed = x.failed /\ e2.odd = x.odd
          /\ e2.mode = x.mode /\ e2.data = x.data
          /\ e2.view = w /\ e2.method = m
      BY <3>6 DEF Engines
    <3> QED
      BY <1>0, <1>1, <2>2, <3>2, <3>4, <3>5, <3>7, <3>8
  <2> QED
    BY <2>1, <2>2
<1> HIDE DEF e2
<1>3. /\ e3 \in Engines /\ e3.created /\ e3.failed = "no" /\ e3.odd = e.odd
      /\ e3.view = e2.view /\ e3.method = e2.method
      /\ p \in Read => e3.data = p /\ e3.mode = DataOf[p]
      /\ p \notin Read => e3.data = e.data /\ e3.mode = e.mode
  <2>1. CASE DataOf[p] \in Kinds
    <3>1. e3 = [e2 EXCEPT !.mode = DataOf[p], !.data = p]
      BY <2>1 DEF LoadData
    <3>2. p \in OrNone(Projects)
      BY DEF OrNone
    <3> HIDE DEF e3
    <3>3. PICK x \in Engines : x = e2
      BY <1>2
    <3>4. PICK k \in Kinds : k = DataOf[p]
      BY <2>1
    <3>5. e3 = [x EXCEPT !.mode = k, !.data = p]
      BY <3>1, <3>3, <3>4
    <3>6. e3 \in Engines
      BY <3>2, <3>5 DEF Engines
    <3>7. /\ e3.created = x.created /\ e3.failed = x.failed /\ e3.odd = x.odd
          /\ e3.view = x.view /\ e3.method = x.method
          /\ e3.mode = k /\ e3.data = p
      BY <3>5 DEF Engines
    <3> QED
      BY <1>0, <1>2, <2>1, <3>3, <3>4, <3>6, <3>7
  <2>2. CASE DataOf[p] \notin Kinds
    BY <1>0, <1>2, <2>2 DEF LoadData
  <2> QED
    BY <2>1, <2>2
<1>4. OpenProject(e, p) = IF DataOf[p] # "bad" /\ Consistent(e3) THEN e3 ELSE Fail(e3, "throw")
  BY DEF OpenProject, e1, e2
<1> HIDE DEF e3
<1>5. /\ Fail(e3, "throw") \in Engines /\ Fail(e3, "throw").failed = "throw"
      /\ Fail(e3, "throw").odd = e.odd
  BY <1>3 DEF Fail, Engines
<1>6. DataOf[p] \in Kinds /\ ViewOf[p] = DataOf[p] => DataOf[p] # "bad" /\ Consistent(e3)
  BY <1>0, <1>2, <1>3 DEF Consistent, Kinds
<1> DEFINE d1 == IF p \in Read THEN p ELSE d
           v1 == IF p \in Viewed THEN p ELSE v
<1>7. Consistent(e3) => d1 \in Read /\ e3.data = d1 /\ e3.mode = DataOf[d1]
  BY <1>3 DEF Consistent
<1>8. Consistent(e3) => v1 \in Viewed /\ e3.view = Default(v1)
  BY <1>2, <1>3 DEF Consistent
<1> HIDE DEF d1, v1
<1>9. /\ OpenProject(e, p) \in Engines
      /\ OpenProject(e, p).failed # "null"
      /\ OpenProject(e, p).odd = e.odd
      /\ OpenProject(e, p).failed = "no" => OpenProject(e, p) = e3 /\ Consistent(e3)
      /\ DataOf[p] \in Kinds /\ ViewOf[p] = DataOf[p] => OpenProject(e, p).failed = "no"
  BY <1>3, <1>4, <1>5, <1>6
<1> QED
  BY <1>3, <1>7, <1>8, <1>9 DEF d1, v1

LEMMA InitGLFits ==
  ASSUME RenderingAssumption, NEW e \in Engines, e.failed = "no", e.created,
         Consistent(e), e.data \in Projects
  PROVE  LET o == InitGL(e) IN
         /\ o \in Engines
         /\ o.failed # "null"
         /\ e.view.method = e.mode /\ HasRange(e) => o.failed = "no"
         /\ o.failed = "no" =>
              /\ o.odd = (e.odd \/ e.view.odd)
              /\ o.created /\ o.ready
              /\ Consistent(o)
              /\ o.data = e.data /\ o.mode = e.mode /\ o.view = e.view
              /\ o.volume = o.mode /\ o.built[o.mode] = o.data
<1> DEFINE s == InitScene(e)
           u == UpdateView(s, e.view)
<1>1. e.mode \in Kinds /\ e.mode # "none"
  BY DEF Consistent, Kinds
<1>2. /\ s \in Engines /\ s.failed = "no" /\ s.created /\ s.odd = e.odd
      /\ s.mode = e.mode /\ s.data = e.data /\ s.view = e.view /\ s.method = e.method
      /\ s.volume = s.mode /\ s.built[s.mode] = s.data
  <2>1. [e.built EXCEPT ![e.mode] = e.data] \in [Kinds -> OrNone(Projects)]
    BY <1>1, EngineFields
  <2>2. [e.built EXCEPT ![e.mode] = e.data][e.mode] = e.data
    BY <1>1, EngineFields
  <2>3. NoProject \in OrNone(Projects)
    BY DEF OrNone
  <2>4. s = [e EXCEPT !.volume = e.mode,
                      !.built = [e.built EXCEPT ![e.mode] = e.data],
                      !.shown = NoProject]
    BY DEF InitScene, Engines
  <2> DEFINE b == [e.built EXCEPT ![e.mode] = e.data]
  <2> HIDE DEF b
  <2>5. s = [e EXCEPT !.volume = e.mode, !.built = b, !.shown = NoProject]
    BY <2>4 DEF b
  <2>6. /\ s \in Engines
        /\ s.failed = e.failed /\ s.created = e.created /\ s.odd = e.odd
        /\ s.mode = e.mode /\ s.data = e.data /\ s.view = e.view /\ s.method = e.method
        /\ s.volume = e.mode /\ s.built = b
    <3> HIDE DEF s
    <3>1. PICK k \in Kinds : k = e.mode
      BY <1>1
    <3>2. PICK c \in [Kinds -> OrNone(Projects)] : c = b
      BY <2>1 DEF b
    <3>3. PICK n \in OrNone(Projects) : n = NoProject
      BY <2>3
    <3>4. s = [e EXCEPT !.volume = k, !.built = c, !.shown = n]
      BY <2>5, <3>1, <3>2, <3>3
    <3>5. s \in Engines
      BY <3>4 DEF Engines
    <3>6. /\ s.failed = e.failed /\ s.created = e.created /\ s.odd = e.odd
          /\ s.mode = e.mode /\ s.data = e.data /\ s.view = e.view /\ s.method = e.method
          /\ s.volume = k /\ s.built = c
      BY <3>4 DEF Engines
    <3> QED
      BY <3>1, <3>2, <3>5, <3>6
  <2> QED
    BY <2>2, <2>6 DEF b
<1>3. /\ e.view.method \in Kinds \cup {"none"} /\ e.view.of \in OrNone(Projects)
      /\ e.view.odd \in BOOLEAN
  BY EngineFields DEF Views
<1>4. Consistent(s)
  BY <1>2 DEF Consistent
<1> HIDE DEF s
<1>5. /\ u \in Engines
      /\ u.failed # "null"
      /\ e.view.method \in {"none", s.mode} => u.failed = "no"
      /\ u.failed = "no" =>
           u = [s EXCEPT !.shown = e.view.of, !.odd = s.odd \/ e.view.odd]
  BY <1>2, <1>3, <1>4, UpdateViewFits
<1>6. /\ HasRange(e) => InitGL(e) = [u EXCEPT !.ready = TRUE]
      /\ ~ HasRange(e) => InitGL(e) = Fail(e, "throw")
  BY <1>1 DEF InitGL, s
<1> HIDE DEF u
<1>7. CASE ~ HasRange(e)
  <2>1. Fail(e, "throw") \in Engines /\ Fail(e, "throw").failed = "throw"
    BY DEF Fail, Engines
  <2> QED
    BY <1>6, <1>7, <2>1
<1>8. CASE HasRange(e)
  <2>1. /\ InitGL(e) \in Engines
        /\ InitGL(e).failed = u.failed
        /\ InitGL(e).ready /\ InitGL(e).odd = u.odd
        /\ InitGL(e).created = u.created /\ InitGL(e).mode = u.mode
        /\ InitGL(e).data = u.data /\ InitGL(e).view = u.view
        /\ InitGL(e).method = u.method /\ InitGL(e).volume = u.volume
        /\ InitGL(e).built = u.built
    <3>1. InitGL(e) = [u EXCEPT !.ready = TRUE] /\ u \in Engines
      BY <1>5, <1>6, <1>8
    <3>2. InitGL(e) \in Engines
      BY <3>1 DEF Engines
    <3> QED
      BY <3>1, <3>2 DEF Engines
  <2>2. u.failed = "no" =>
          /\ u.created = s.created /\ u.mode = s.mode
          /\ u.data = s.data /\ u.view = s.view
          /\ u.method = s.method /\ u.volume = s.volume
          /\ u.built = s.built
          /\ u.odd = (s.odd \/ e.view.odd)
    <3> SUFFICES ASSUME u.failed = "no"
                 PROVE  /\ u.created = s.created /\ u.mode = s.mode
                        /\ u.data = s.data /\ u.view = s.view
                        /\ u.method = s.method /\ u.volume = s.volume
                        /\ u.built = s.built
                        /\ u.odd = (s.odd \/ e.view.odd)
      OBVIOUS
    <3>1. PICK w, b : w = e.view.of /\ b = (s.odd \/ e.view.odd)
      OBVIOUS
    <3>2. PICK x \in Engines : x = s
      BY <1>2
    <3>3. PICK y : y = u
      OBVIOUS
    <3>4. y = [x EXCEPT !.shown = w, !.odd = b]
      BY <1>5, <3>1, <3>2, <3>3
    <3>5. /\ y.created = x.created /\ y.mode = x.mode
          /\ y.data = x.data /\ y.view = x.view
          /\ y.method = x.method /\ y.volume = x.volume
          /\ y.built = x.built
          /\ y.odd = b
      BY <3>4 DEF Engines
    <3> QED
      BY <3>1, <3>2, <3>3, <3>5
  <2>3. u.failed = "no" => InitGL(e).created
    BY <1>2, <2>1, <2>2, Zenon
  <2>4. u.failed = "no" => Consistent(InitGL(e))
    BY <1>2, <1>4, <2>1, <2>2 DEF Consistent
  <2>5. u.failed = "no" =>
          /\ InitGL(e).data = e.data /\ InitGL(e).mode = e.mode /\ InitGL(e).view = e.view
          /\ InitGL(e).volume = InitGL(e).mode
          /\ InitGL(e).built[InitGL(e).mode] = InitGL(e).data
    BY <1>2, <2>1, <2>2
  <2>6. e.view.method = e.mode => u.failed = "no"
    BY <1>2, <1>5
  <2>7. u.failed = "no" => InitGL(e).odd = (e.odd \/ e.view.odd)
    BY <1>2, <2>1, <2>2
  <2> QED
    BY <1>5, <2>1, <2>3, <2>4, <2>5, <2>6, <2>7, Zenon
<1> QED
  BY <1>7, <1>8

LEMMA RenderFrameFits ==
  ASSUME RenderingAssumption, NEW e \in Engines, e.failed = "no",
         NEW a \in Scenes \cup {NoScene}, e.ready,
         Consistent(e), e.volume = e.mode, e.built[e.mode] = e.data, e.data \in Projects
  PROVE  LET o == RenderFrame(e, a)
             v == IF a = NoScene THEN e.view ELSE a
         IN  /\ o \in Engines
             /\ o.failed # "null"
             /\ v.method = e.mode => o.failed = "no"
             /\ o.failed = "no" => o = [e EXCEPT !.shown = v.of, !.odd = e.odd \/ v.odd]
<1> DEFINE v == IF a = NoScene THEN e.view ELSE a
<1>1. /\ v.method \in Kinds \cup {"none"} /\ v.of \in OrNone(Projects)
      /\ v.odd \in BOOLEAN
  BY EngineFields DEF Views, Scenes
<1>2. RenderFrame(e, a) = UpdateView(e, v)
  BY DEF RenderFrame
<1> HIDE DEF v
<1>3. /\ UpdateView(e, v) \in Engines
      /\ UpdateView(e, v).failed # "null"
      /\ v.method \in {"none", e.mode} => UpdateView(e, v).failed = "no"
      /\ UpdateView(e, v).failed = "no" =>
           UpdateView(e, v) = [e EXCEPT !.shown = v.of, !.odd = e.odd \/ v.odd]
  BY <1>1, UpdateViewFits
<1> QED
  BY <1>2, <1>3 DEF v


-----------------------------------------------------------------------------
(***************************************************************************)
(* The project opened last.                                                *)
(***************************************************************************)
LEMMA OpenedAtFirst == \A c : \A S : LastOpened(c, 0, S) = NoProject
  BY DEF LastOpened

LEMMA OpenedNext ==
  ASSUME NEW c, NEW t \in Nat, NEW S
  PROVE  LastOpened(c, t + 1, S) = IF arg[c][t + 1] \in S THEN arg[c][t + 1]
                                                           ELSE LastOpened(c, t, S)
<1> DEFINE opens == {u \in 1 .. t : arg[c][u] \in S}
           opens1 == {u \in 1 .. t + 1 : arg[c][u] \in S}
<1>1. CASE arg[c][t + 1] \in S
  <2>1. t + 1 \in opens1 /\ \A v \in opens1 : v <= t + 1 /\ v \in Nat
    BY <1>1
  <2>2. Max(opens1) \in opens1 /\ \A v \in opens1 : Max(opens1) >= v
    BY <2>1 DEF Max
  <2>3. LastOpened(c, t + 1, S) = arg[c][Max(opens1)]
    BY <2>1 DEF LastOpened
  <2>4. Max(opens1) = t + 1
    BY <2>1, <2>2
  <2> QED
    BY <1>1, <2>3, <2>4
<1>2. CASE arg[c][t + 1] \notin S
  <2>1. opens1 = opens
    BY <1>2
  <2>2. LastOpened(c, t + 1, S) = LastOpened(c, t, S)
    BY <2>1 DEF LastOpened
  <2> QED
    BY <1>2, <2>2
<1> QED
  BY <1>1, <1>2

LEMMA LatestExists ==
  ASSUME NEW t \in Nat, NEW S \in SUBSET (1 .. t), S # {}
  PROVE  Max(S) \in S
<1> DEFINE R == OpToRel(<, Nat)
           T == {t - u : u \in S}
<1>1. \A m, n \in Nat : m < n => <<m, n>> \in R
  BY DEF OpToRel
<1>2. T \subseteq Nat /\ T # {}
  <2>1. \A u \in S : t - u \in Nat
    OBVIOUS
  <2>2. \A u \in S : t - u \in T
    OBVIOUS
  <2> QED
    BY <2>1, <2>2
<1>3. IsWellFoundedOn(R, Nat)
  BY NatLessThanWellFounded
<1> HIDE DEF R
<1>4. PICK x \in T : \A y \in T : <<y, x>> \notin R
  BY <1>2, <1>3, WFMin, Zenon
<1>5. PICK u \in S : x = t - u
  BY <1>4
<1>6. \A v \in S : u >= v
  <2> SUFFICES ASSUME NEW v \in S, ~ (u >= v) PROVE FALSE
    OBVIOUS
  <2>1. t - v < t - u /\ t - v \in T /\ t - v \in Nat /\ t - u \in Nat
    OBVIOUS
  <2> QED
    BY <1>1, <1>4, <1>5, <2>1
<1> QED
  BY <1>6 DEF Max

LEMMA OpenedWasSent ==
  ASSUME NEW c, NEW t \in Nat, NEW S, LastOpened(c, t, S) # NoProject
  PROVE  /\ LastOpened(c, t, S) \in S
         /\ \E u \in 1 .. t : arg[c][u] = LastOpened(c, t, S)
<1> DEFINE opens == {u \in 1 .. t : arg[c][u] \in S}
<1>1. LastOpened(c, t, S) = IF opens = {} THEN NoProject ELSE arg[c][Max(opens)]
  BY DEF LastOpened
<1>2. opens # {}
  BY <1>1
<1>3. Max(opens) \in opens
  BY <1>2, LatestExists
<1> QED
  BY <1>1, <1>2, <1>3

\* Payloads are not rewritten.
LEMMA OpenedStays ==
  ASSUME NEW c, NEW t \in Nat, NEW S,
         \A i \in 1 .. t : arg'[c][i] = arg[c][i]
  PROVE  LastOpened(c, t, S)' = LastOpened(c, t, S)
<1> DEFINE opens == {u \in 1 .. t : arg[c][u] \in S}
<1>1. opens' = opens
  OBVIOUS
<1>2. LastOpened(c, t, S) = IF opens = {} THEN NoProject ELSE arg[c][Max(opens)]
  BY DEF LastOpened
<1>3. LastOpened(c, t, S)' = IF opens' = {} THEN NoProject ELSE arg'[c][Max(opens')]
  BY DEF LastOpened
<1>4. opens # {} => Max(opens) \in opens
  BY LatestExists
<1> HIDE DEF opens
<1>5. opens # {} => arg'[c][Max(opens)] = arg[c][Max(opens)]
  BY <1>4 DEF opens
<1> QED
  BY <1>1, <1>2, <1>3, <1>5
-----------------------------------------------------------------------------
(***************************************************************************)
(* Pending requests and done tickets.                                      *)
(***************************************************************************)
LEMMA PendingTyped ==
  ASSUME TypeOK, TicketInv
  PROVE  /\ \A c \in Clients : Done(c) \in Nat /\ next[c] \in Nat /\ Done(c) <= next[c]
         /\ \A r \in Pending :
              /\ r \in Requests /\ r.client \in Clients /\ r.exp \in Nat
              /\ Done(r.client) <= r.exp /\ r.exp < next[r.client]
         /\ \A h \in Handlers : pc[h] = "run" =>
              /\ hand[h] \in Pending
              /\ hand[h].exp = Done(hand[h].client)
              /\ \A r \in Pending :
                   r.client = hand[h].client /\ r.exp = hand[h].exp => r = hand[h]
<1>1. /\ \A c \in Clients : curr[c] \in Nat /\ next[c] \in Nat /\ curr[c] <= next[c]
      /\ \A h \in Handlers : Busy(h) =>
           hand[h] \in Requests /\ hand[h].client \in Clients /\ hand[h].exp \in Nat
      /\ \A h \in Handlers : \A i \in DOMAIN queue[h] :
           /\ queue[h][i] \in Requests
           /\ queue[h][i].client \in Clients
           /\ queue[h][i].exp \in Nat
  BY RequestFacts DEF TicketInv, CountersOrdered
<1>2. \A h \in Handlers : Busy(h) =>
        /\ hand[h].exp = curr[hand[h].client]
        /\ hand[h].exp < next[hand[h].client]
  BY DEF TicketInv, TurnInHand
<1>3. \A h \in Handlers : \A i \in DOMAIN queue[h] :
        /\ curr[queue[h][i].client] <= queue[h][i].exp
        /\ queue[h][i].exp < next[queue[h][i].client]
        /\ \A g \in Handlers :
             Busy(g) /\ hand[g].client = queue[h][i].client => hand[g].exp < queue[h][i].exp
  BY DEF TicketInv, ServedOnce, WaitingHandedOut
<1>4. \A g, h \in Handlers :
        Busy(g) /\ Busy(h) /\ hand[g].client = hand[h].client => g = h
  BY DEF TicketInv, OneHandlerPerClient
<1>5. \A h \in Handlers : pc[h] \in {"run", "post", "count"} => Busy(h)
  BY DEF Busy
<1>6. \A c \in Clients : Done(c) \in Nat /\ next[c] \in Nat /\ Done(c) <= next[c]
  BY <1>1, <1>2, <1>5 DEF Done, Executed
<1>7. ASSUME NEW h \in Handlers, NEW i \in DOMAIN queue[h]
      PROVE  Done(queue[h][i].client) <= queue[h][i].exp
  BY <1>1, <1>2, <1>3, <1>5 DEF Done, Executed
<1>8. ASSUME NEW h \in Handlers, pc[h] = "run"
      PROVE  /\ ~ Executed(hand[h].client)
             /\ hand[h].exp = Done(hand[h].client)
  <2>1. \A g \in Handlers : pc[g] \in {"post", "count"} => hand[g].client # hand[h].client
    BY <1>4, <1>5, <1>8
  <2> QED
    BY <1>2, <1>5, <1>8, <2>1 DEF Done, Executed
<1>9. \A r \in Pending :
        /\ r \in Requests
        /\ \/ \E h \in Handlers : \E i \in DOMAIN queue[h] : queue[h][i] = r
           \/ \E h \in Handlers : pc[h] = "run" /\ hand[h] = r
  BY DEF Pending
<1>10. \A r \in Pending :
         /\ r \in Requests /\ r.client \in Clients /\ r.exp \in Nat
         /\ Done(r.client) <= r.exp /\ r.exp < next[r.client]
  BY <1>1, <1>2, <1>3, <1>5, <1>7, <1>8, <1>9
<1>11. ASSUME NEW h \in Handlers, pc[h] = "run"
       PROVE  /\ hand[h] \in Pending
              /\ \A r \in Pending :
                   r.client = hand[h].client /\ r.exp = hand[h].exp => r = hand[h]
  <2>1. hand[h] \in Pending
    BY <1>1, <1>5, <1>11 DEF Pending
  <2>2. ASSUME NEW r \in Pending, r.client = hand[h].client, r.exp = hand[h].exp
        PROVE  r = hand[h]
    <3>1. ASSUME NEW g \in Handlers, NEW i \in DOMAIN queue[g], queue[g][i] = r
          PROVE  FALSE
      BY <1>1, <1>3, <1>5, <1>11, <2>2, <3>1
    <3>2. ASSUME NEW g \in Handlers, pc[g] = "run", hand[g] = r
          PROVE  g = h
      BY <1>4, <1>5, <1>11, <2>2, <3>2
    <3> QED
      BY <1>9, <3>1, <3>2
  <2> QED
    BY <2>1, <2>2
<1> QED
  BY <1>6, <1>8, <1>10, <1>11

\* A step that calls no handler leaves what is done and what is pending.
QuietStep ==
  \/ \E h \in Handlers : \/ TakesReady(h)
                         \/ Post(h)
                         \/ IncrementCurrCounter(h)
                         \/ UnknownMethod(h)
  \/ OnResolve
  \/ UNCHANGED vars

LEMMA QuietPending ==
  ASSUME TypeOK, TicketInv, QuietStep
  PROVE  /\ next' = next
         /\ Pending' \subseteq Pending
         /\ \A c \in Clients : Done(c)' = Done(c)
<1>1. CASE UNCHANGED <<next, curr, queue, pc, hand>>
  BY <1>1 DEF Pending, Done, Executed
<1>2. ASSUME NEW h \in Handlers, TakesReady(h)
      PROVE  /\ next' = next
             /\ Pending' \subseteq Pending
             /\ \A c \in Clients : Done(c)' = Done(c)
  <2>1. PICK i \in DOMAIN queue[h] :
          /\ hand' = [hand EXCEPT ![h] = queue[h][i]]
          /\ queue' = [queue EXCEPT ![h] = RemoveAt(queue[h], i)]
    BY <1>2 DEF TakesReady
  <2>2. /\ pc[h] = "idle" /\ pc' = [pc EXCEPT ![h] = "run"]
        /\ UNCHANGED <<next, curr>>
    BY <1>2 DEF TakesReady
  <2>3. queue[h] \in Seq(Requests)
    BY RequestFacts
  <2>4. \A j \in DOMAIN RemoveAt(queue[h], i) :
          \E k \in DOMAIN queue[h] : RemoveAt(queue[h], i)[j] = queue[h][k]
    BY <2>3, RemoveAtKeeps
  <2>5. /\ \A g \in Handlers \ {h} : queue'[g] = queue[g] /\ pc'[g] = pc[g] /\ hand'[g] = hand[g]
        /\ queue'[h] = RemoveAt(queue[h], i) /\ pc'[h] = "run" /\ hand'[h] = queue[h][i]
    BY <2>1, <2>2 DEF TypeOK
  <2>6. ASSUME NEW r \in Pending'
        PROVE  r \in Pending
    <3>1. /\ r \in Requests
          /\ \/ \E g \in Handlers : \E j \in DOMAIN queue'[g] : queue'[g][j] = r
             \/ \E g \in Handlers : pc'[g] = "run" /\ hand'[g] = r
      BY <2>6 DEF Pending
    <3>2. \/ \E g \in Handlers : \E j \in DOMAIN queue[g] : queue[g][j] = r
          \/ \E g \in Handlers : pc[g] = "run" /\ hand[g] = r
      BY <2>4, <2>5, <3>1
    <3> QED
      BY <3>1, <3>2 DEF Pending
  <2>7. \A c : Executed(c)' <=> Executed(c)
    BY <2>2, <2>5 DEF Executed
  <2> QED
    BY <2>2, <2>6, <2>7 DEF Done
<1>3. ASSUME NEW h \in Handlers, Post(h)
      PROVE  /\ next' = next
             /\ Pending' \subseteq Pending
             /\ \A c \in Clients : Done(c)' = Done(c)
  <2>1. /\ pc[h] = "post" /\ UNCHANGED <<next, curr, queue, hand>>
        /\ pc' = [pc EXCEPT ![h] = "count"]
    BY <1>3 DEF Post
  <2>2. /\ pc'[h] = "count"
        /\ \A g \in Handlers \ {h} : pc'[g] = pc[g]
    BY <2>1 DEF TypeOK
  <2>3. \A c : Executed(c)' <=> Executed(c)
    BY <2>1, <2>2 DEF Executed
  <2> QED
    BY <2>1, <2>2, <2>3 DEF Done, Pending
<1>4. ASSUME NEW h \in Handlers, IncrementCurrCounter(h) \/ UnknownMethod(h)
      PROVE  /\ next' = next
             /\ Pending' \subseteq Pending
             /\ \A c \in Clients : Done(c)' = Done(c)
  <2>1. /\ UNCHANGED <<next, queue>>
        /\ hand' = [hand EXCEPT ![h] = NoRequest]
        /\ pc' = [pc EXCEPT ![h] = "idle"]
    BY <1>4 DEF IncrementCurrCounter, UnknownMethod
  <2>2. /\ pc'[h] = "idle"
        /\ \A g \in Handlers \ {h} : pc'[g] = pc[g] /\ hand'[g] = hand[g]
    BY <2>1 DEF TypeOK
  <2>3. Pending' \subseteq Pending
    BY <2>1, <2>2 DEF Pending
  <2>4. PICK c \in Clients : c = hand[h].client
    BY <1>4, RequestFacts DEF IncrementCurrCounter, UnknownMethod, Busy
  <2>5. /\ Busy(h)
        /\ \A g \in Handlers : Busy(g) /\ hand[g].client = c => g = h
        /\ curr[c] \in Nat
    BY <1>4, <2>4, RequestFacts DEF IncrementCurrCounter, UnknownMethod, Busy,
                                    TicketInv, OneHandlerPerClient
  <2>6. \A d \in Clients \ {c} : Executed(d)' <=> Executed(d)
    BY <2>2, <2>4 DEF Executed
  <2>7. ~ Executed(c)'
    BY <2>2, <2>5 DEF Executed, Busy
  <2>8. CASE IncrementCurrCounter(h)
    <3>1. pc[h] = "count" /\ curr' = [curr EXCEPT ![c] = curr[c] + 1]
      BY <2>4, <2>8 DEF IncrementCurrCounter
    <3>2. Executed(c)
      BY <2>4, <3>1 DEF Executed
    <3>3. /\ curr'[c] = curr[c] + 1
          /\ \A d \in Clients \ {c} : curr'[d] = curr[d]
      BY <3>1 DEF TypeOK
    <3> QED
      BY <2>1, <2>3, <2>6, <2>7, <3>2, <3>3 DEF Done
  <2>9. CASE UnknownMethod(h)
    <3>1. pc[h] = "run" /\ curr' = curr
      BY <2>9 DEF UnknownMethod
    <3>2. ~ Executed(c)
      BY <2>5, <3>1 DEF Executed, Busy
    <3> QED
      BY <2>1, <2>3, <2>6, <2>7, <3>1, <3>2 DEF Done
  <2> QED
    BY <1>4, <2>8, <2>9
<1>5. CASE OnResolve
  BY <1>1, <1>5 DEF OnResolve
<1> QED
  BY <1>1, <1>2, <1>3, <1>4, <1>5 DEF QuietStep, vars


\* A handler call finishes one ticket of its client.
LEMMA ExecutePending ==
  ASSUME TypeOK, TicketInv, NEW h \in Handlers, Execute(h)
  PROVE  /\ next' = next
         /\ Pending' \subseteq Pending
         /\ \A c \in Clients :
              Done(c)' = IF c = hand[h].client THEN Done(c) + 1 ELSE Done(c)
<1>1. /\ pc[h] = "run" /\ UNCHANGED <<next, curr, queue, hand>>
      /\ pc' = [pc EXCEPT ![h] = "post"] \/ pc' = [pc EXCEPT ![h] = "count"]
  BY DEF Execute
<1>2. /\ pc'[h] \in {"post", "count"}
      /\ \A g \in Handlers \ {h} : pc'[g] = pc[g]
  BY <1>1 DEF TypeOK
<1>3. Pending' \subseteq Pending
  BY <1>1, <1>2 DEF Pending
<1>4. PICK b \in Clients : b = hand[h].client
  BY <1>1, RequestFacts DEF Busy
<1>5. /\ \A g \in Handlers : Busy(g) /\ hand[g].client = b => g = h
      /\ curr[b] \in Nat
  BY <1>1, <1>4, RequestFacts DEF Busy, TicketInv, OneHandlerPerClient
<1>6. ~ Executed(b) /\ Executed(b)'
  BY <1>1, <1>2, <1>4, <1>5 DEF Executed, Busy
<1>7. \A c \in Clients \ {b} : Executed(c)' <=> Executed(c)
  BY <1>1, <1>2, <1>4 DEF Executed
<1> QED
  BY <1>1, <1>3, <1>4, <1>6, <1>7 DEF Done

\* The sub-requests of a call.
Made(c, m) ==
  CASE m = "openProject"  -> {Create(c, next[c], m, "loadData", NoReply),
                              Create(c, next[c] + 1, m, "initGL", m)}
    [] m = "closeProject" -> {Create(c, next[c], m, "unloadGL", NoReply),
                              Create(c, next[c] + 1, m, "delData", m)}
    [] OTHER              -> {Create(c, next[c], m, m, m)}

LEMMA OneMakes ==
  ASSUME TypeOK, NEW c \in Clients, NEW m \in RpcMethods \cap Tasks,
         NEW h0 \in Handlers, One(c, m, h0)
  PROVE  /\ next' = [next EXCEPT ![c] = next[c] + 1]
         /\ \A h \in Handlers : \A i \in DOMAIN queue'[h] :
              \/ i \in DOMAIN queue[h] /\ queue'[h][i] = queue[h][i]
              \/ queue'[h][i] = Create(c, next[c], m, m, m)
<1> DEFINE r0 == Create(c, next[c], m, m, m)
<1>1. r0 \in Requests
  BY DEF Create, Requests, TypeOf, TypeOK
<1>2. queue' = [queue EXCEPT ![h0] = Enqueue(queue[h0], r0)]
  BY DEF One
<1> HIDE DEF r0
<1>3. \A h \in Handlers : queue'[h] = IF h = h0 THEN Enqueue(queue[h], r0) ELSE queue[h]
  BY <1>2 DEF TypeOK
<1>4. \A i \in DOMAIN Enqueue(queue[h0], r0) :
        \/ i \in DOMAIN queue[h0] /\ Enqueue(queue[h0], r0)[i] = queue[h0][i]
        \/ Enqueue(queue[h0], r0)[i] = r0
  BY <1>1, EnqueueEntries DEF TypeOK
<1>5. next' = [next EXCEPT ![c] = next[c] + 1]
  BY DEF One
<1> QED
  BY <1>3, <1>4, <1>5 DEF r0

LEMMA TwoMakes ==
  ASSUME TypeOK, NEW c \in Clients, NEW m \in RpcMethods,
         NEW h1 \in Handlers, NEW h2 \in Handlers, h1 # h2,
         NEW t1 \in Tasks, NEW t2 \in Tasks, Two(c, m, h1, t1, h2, t2)
  PROVE  /\ next' = [next EXCEPT ![c] = next[c] + 2]
         /\ \A h \in Handlers : \A i \in DOMAIN queue'[h] :
              \/ i \in DOMAIN queue[h] /\ queue'[h][i] = queue[h][i]
              \/ queue'[h][i] \in {Create(c, next[c], m, t1, NoReply),
                                   Create(c, next[c] + 1, m, t2, m)}
<1> DEFINE r1 == Create(c, next[c], m, t1, NoReply)
           r2 == Create(c, next[c] + 1, m, t2, m)
<1>1. r1 \in Requests /\ r2 \in Requests
  BY DEF Create, Requests, TypeOf, TypeOK
<1>2. queue' = [queue EXCEPT ![h1] = Enqueue(queue[h1], r1),
                             ![h2] = Enqueue(queue[h2], r2)]
  BY DEF Two, TypeOK
<1> HIDE DEF r1, r2
<1>3. \A h \in Handlers :
        queue'[h] = IF h = h1 THEN Enqueue(queue[h], r1)
                    ELSE IF h = h2 THEN Enqueue(queue[h], r2) ELSE queue[h]
  BY <1>2 DEF TypeOK
<1>4. \A h \in Handlers, r \in {r1, r2} : \A i \in DOMAIN Enqueue(queue[h], r) :
        \/ i \in DOMAIN queue[h] /\ Enqueue(queue[h], r)[i] = queue[h][i]
        \/ Enqueue(queue[h], r)[i] = r
  <2> SUFFICES ASSUME NEW h \in Handlers, NEW r \in {r1, r2}
               PROVE  \A i \in DOMAIN Enqueue(queue[h], r) :
                        \/ i \in DOMAIN queue[h] /\ Enqueue(queue[h], r)[i] = queue[h][i]
                        \/ Enqueue(queue[h], r)[i] = r
    OBVIOUS
  <2>1. queue[h] \in Seq(Requests) /\ r \in Requests
    BY <1>1 DEF TypeOK
  <2> QED
    BY <2>1, EnqueueEntries
<1>5. next' = [next EXCEPT ![c] = next[c] + 2]
  BY DEF Two
<1> QED
  BY <1>3, <1>4, <1>5 DEF r1, r2

LEMMA SubmitPending ==
  ASSUME TypeOK, TicketInv, NEW c \in Clients, NEW m \in Methods, NewRequest(c, m)
  PROVE  /\ next' = [next EXCEPT ![c] = next[c] + IF TypeOf(m) = 1 THEN 2 ELSE 1]
         /\ Pending' \subseteq Pending \cup Made(c, m)
         /\ \A d \in Clients : Done(d)' = Done(d)
<1> DEFINE ok(H) == \A h \in Handlers : \A i \in DOMAIN queue'[h] :
                      \/ i \in DOMAIN queue[h] /\ queue'[h][i] = queue[h][i]
                      \/ queue'[h][i] \in H
<1>1. UNCHANGED <<curr, pc, hand>>
  BY DEF NewRequest
<1>2. \A d \in Clients : Done(d)' = Done(d)
  BY <1>1 DEF Done, Executed
<1>3. /\ next' = [next EXCEPT ![c] = next[c] + IF TypeOf(m) = 1 THEN 2 ELSE 1]
      /\ ok(Made(c, m))
  <2>0. /\ {"queryDatabase", "getScene", "requestFrame"} \subseteq RpcMethods \cap Tasks
        /\ {"openProject", "closeProject"} \subseteq RpcMethods
        /\ {"loadData", "initGL", "unloadGL", "delData"} \subseteq Tasks
        /\ {"CPU", "GPU"} \subseteq Handlers
    BY DEF Tasks, RpcMethods, Handlers
  <2>1. CASE m \in {"queryDatabase", "getScene"} /\ One(c, m, "CPU")
    <3>1. Made(c, m) = {Create(c, next[c], m, m, m)}
      BY <2>1 DEF Made
    <3> QED
      BY <2>0, <2>1, <3>1, OneMakes DEF TypeOf
  <2>2. CASE m = "requestFrame" /\ One(c, m, "GPU")
    <3>1. Made(c, m) = {Create(c, next[c], m, m, m)}
      BY <2>2 DEF Made
    <3> QED
      BY <2>0, <2>2, <3>1, OneMakes DEF TypeOf
  <2>3. CASE m = "openProject"  /\ Two(c, m, "CPU", "loadData", "GPU", "initGL")
    <3>1. Made(c, m) = {Create(c, next[c], m, "loadData", NoReply),
                        Create(c, next[c] + 1, m, "initGL", m)}
      BY <2>3 DEF Made
    <3>2. /\ next' = [next EXCEPT ![c] = next[c] + 2]
          /\ \A h \in Handlers : \A i \in DOMAIN queue'[h] :
               \/ i \in DOMAIN queue[h] /\ queue'[h][i] = queue[h][i]
               \/ queue'[h][i] \in {Create(c, next[c], m, "loadData", NoReply),
                                    Create(c, next[c] + 1, m, "initGL", m)}
      BY <2>0, <2>3, TwoMakes
    <3> QED
      BY <2>3, <3>1, <3>2 DEF TypeOf
  <2>4. CASE m = "closeProject" /\ Two(c, m, "GPU", "unloadGL", "CPU", "delData")
    <3>1. Made(c, m) = {Create(c, next[c], m, "unloadGL", NoReply),
                        Create(c, next[c] + 1, m, "delData", m)}
      BY <2>4 DEF Made
    <3>2. /\ next' = [next EXCEPT ![c] = next[c] + 2]
          /\ \A h \in Handlers : \A i \in DOMAIN queue'[h] :
               \/ i \in DOMAIN queue[h] /\ queue'[h][i] = queue[h][i]
               \/ queue'[h][i] \in {Create(c, next[c], m, "unloadGL", NoReply),
                                    Create(c, next[c] + 1, m, "delData", m)}
      BY <2>0, <2>4, TwoMakes
    <3> QED
      BY <2>4, <3>1, <3>2 DEF TypeOf
  <2> QED
    BY <2>1, <2>2, <2>3, <2>4 DEF NewRequest
<1>4. Pending' \subseteq Pending \cup Made(c, m)
  BY <1>1, <1>3 DEF Pending
<1> QED
  BY <1>2, <1>3, <1>4


-----------------------------------------------------------------------------
(***************************************************************************)
(* What requests carry.                                                    *)
(***************************************************************************)
\* Steps of the server add no request.
LEMMA ServerCarries ==
  ASSUME CarryInv, Pending' \subseteq Pending, UNCHANGED <<next, arg>>
  PROVE  CarryInv'
<1>1. LoadComesFirst'
  BY DEF CarryInv, LoadComesFirst
<1>2. InitComesNext'
  BY DEF CarryInv, InitComesNext
<1>3. OthersCarryScenes'
  BY DEF CarryInv, OthersCarryScenes
<1> QED
  BY <1>1, <1>2, <1>3 DEF CarryInv

LEMMA MadeFacts ==
  ASSUME NEW c \in Clients, NEW m \in Methods, DispatchAssumption, next[c] \in Nat,
         NEW r \in Made(c, m)
  PROVE  /\ r.client = c /\ r.exp \in Nat
         /\ next[c] <= r.exp
         /\ r.exp < next[c] + IF TypeOf(m) = 1 THEN 2 ELSE 1
         /\ m = "openProject" => /\ r.exp = next[c] => r.method = "loadData"
                                 /\ r.exp = next[c] + 1 => r.method = "initGL"
         /\ m # "openProject" => r.method \notin {"loadData", "initGL"}
         /\ r.resolve = "getScene" => r.method = "getScene"
<1>0. m \in RpcMethods
  BY DEF DispatchAssumption
<1>1. CASE m = "openProject"
  <2>1. Made(c, m) = {Create(c, next[c], m, "loadData", NoReply),
                      Create(c, next[c] + 1, m, "initGL", m)}
    BY <1>1 DEF Made
  <2> QED
    BY <1>1, <2>1 DEF Create, TypeOf, NoReply
<1>2. CASE m = "closeProject"
  <2>1. Made(c, m) = {Create(c, next[c], m, "unloadGL", NoReply),
                      Create(c, next[c] + 1, m, "delData", m)}
    BY <1>2 DEF Made
  <2> QED
    BY <1>2, <2>1 DEF Create, TypeOf, NoReply
<1>3. CASE m \notin {"openProject", "closeProject"}
  <2>1. Made(c, m) = {Create(c, next[c], m, m, m)}
    BY <1>3 DEF Made
  <2> QED
    BY <1>0, <1>3, <2>1 DEF Create, TypeOf, RpcMethods
<1> QED
  BY <1>1, <1>2, <1>3

\* What a call does to the payloads.
LEMMA SendArgs ==
  ASSUME RenderTyped, DispatchAssumption, TicketInv,
         NEW c \in Clients, NEW m \in Methods, NEW a \in Payloads(c, m), Send(c, m, a)
  PROVE  /\ next[c] \in Nat
         /\ next' = [next EXCEPT ![c] = next[c] + IF TypeOf(m) = 1 THEN 2 ELSE 1]
         /\ a \in Payload
         /\ m = "openProject" => a \in Projects
         /\ m # "openProject" => a \in Scenes \cup {NoScene}
         /\ arg' \in [Clients -> Seq(Payload)]
         /\ \A d \in Clients : Len(arg'[d]) = next'[d]
         /\ \A d \in Clients : \A i \in 1 .. next[d] : arg'[d][i] = arg[d][i]
         /\ \A i \in 1 .. next'[c] : i > next[c] => arg'[c][i] = a
<1>1. next[c] \in Nat /\ arg \in [Clients -> Seq(Payload)]
  BY DEF RenderTyped, RenderTypeOK, TypeOK
<1>2. next' = [next EXCEPT ![c] = next[c] + IF TypeOf(m) = 1 THEN 2 ELSE 1]
  BY SubmitPending DEF Send, RenderTyped, RenderTypeOK
<1>3. /\ m = "openProject" => a \in Projects
      /\ m # "openProject" => a \in Scenes \cup {NoScene}
  <2>1. m = "openProject" => a \in Projects
    BY DEF Payloads
  <2>2. m = "requestFrame" => a \in {NoScene} \cup WithHeights(scene[c])
    BY DEF Payloads
  <2>3. m \notin {"openProject", "requestFrame"} => a \in {NoScene}
    BY DEF Payloads
  <2>4. scene[c] \in Scenes \cup {NoScene}
    BY DEF RenderTyped, RenderTypeOK
  <2>5. WithHeights(scene[c]) \subseteq Scenes
    BY <2>4 DEF WithHeights, Scenes
  <2> QED
    BY <2>1, <2>2, <2>3, <2>5
<1>4. a \in Payload
  BY <1>3 DEF Payload
<1>5. next'[c] \in Nat /\ next[c] <= next'[c]
  <2>1. next'[c] = next[c] + IF TypeOf(m) = 1 THEN 2 ELSE 1
    BY <1>2 DEF RenderTyped, RenderTypeOK, TypeOK
  <2> QED
    BY <1>1, <2>1
<1> DEFINE f == [i \in 1 .. next'[c] |-> IF i <= next[c] THEN arg[c][i] ELSE a]
<1>6. arg' = [arg EXCEPT ![c] = f]
  BY DEF Send
<1>7. Len(arg[c]) = next[c]
  BY DEF RenderTyped, RenderTypeOK
<1>8. \A i \in 1 .. next'[c] : f[i] \in Payload
  BY <1>1, <1>4, <1>5, <1>7
<1>9. f \in Seq(Payload) /\ Len(f) = next'[c]
  <2>1. f \in [1 .. next'[c] -> Payload]
    BY <1>8
  <2> HIDE DEF f
  <2> QED
    BY <1>5, <2>1
<1>10. /\ \A i \in 1 .. next[c] : f[i] = arg[c][i]
       /\ \A i \in 1 .. next'[c] : i > next[c] => f[i] = a
  BY <1>1, <1>5
<1> HIDE DEF f
<1>11. /\ arg'[c] = f
       /\ \A d \in Clients \ {c} : arg'[d] = arg[d] /\ next'[d] = next[d]
       /\ arg' \in [Clients -> Seq(Payload)]
  BY <1>1, <1>2, <1>6, <1>9 DEF RenderTyped, RenderTypeOK, TypeOK
<1>12. \A d \in Clients : Len(arg[d]) = next[d]
  BY DEF RenderTyped, RenderTypeOK
<1> QED
  BY <1>1, <1>2, <1>3, <1>4, <1>9, <1>10, <1>11, <1>12

LEMMA SendCarries ==
  ASSUME RenderTyped, DispatchAssumption, TicketInv, CarryInv,
         NEW c \in Clients, NEW m \in Methods, NEW a \in Payloads(c, m), Send(c, m, a)
  PROVE  CarryInv'
<1> DEFINE two == IF TypeOf(m) = 1 THEN 2 ELSE 1
<1>1. /\ next[c] \in Nat
      /\ next'[c] = next[c] + two
      /\ \A d \in Clients \ {c} : next'[d] = next[d]
      /\ m = "openProject" => a \in Projects
      /\ m # "openProject" => a \in Scenes \cup {NoScene}
      /\ \A d \in Clients : \A i \in 1 .. next[d] : arg'[d][i] = arg[d][i]
      /\ \A i \in 1 .. next'[c] : i > next[c] => arg'[c][i] = a
  <2>1. next \in [Clients -> Nat]
    BY DEF RenderTyped, RenderTypeOK, TypeOK
  <2>2. next' = [next EXCEPT ![c] = next[c] + two]
    BY SendArgs
  <2>3. next'[c] = next[c] + two /\ \A d \in Clients \ {c} : next'[d] = next[d]
    BY <2>1, <2>2
  <2> QED
    BY <2>1, <2>3, SendArgs
<1>2. Pending' \subseteq Pending \cup Made(c, m)
  BY SubmitPending DEF Send, RenderTyped, RenderTypeOK
<1>3. \A r \in Pending :
        r.client \in Clients /\ r.exp \in Nat /\ r.exp < next[r.client] /\ next[r.client] \in Nat
  BY PendingTyped DEF RenderTyped, RenderTypeOK
<1>4. \A r \in Made(c, m) :
         /\ r.client = c /\ r.exp \in Nat
         /\ next[c] <= r.exp
         /\ r.exp < next'[c]
         /\ m = "openProject" => /\ r.exp = next[c] => r.method = "loadData"
                                 /\ r.exp = next[c] + 1 => r.method = "initGL"
         /\ m # "openProject" => r.method \notin {"loadData", "initGL"}
         /\ r.resolve = "getScene" => r.method = "getScene"
  BY <1>1, MadeFacts
<1>5. two \in {1, 2} /\ (m = "openProject" => two = 2)
  BY DEF TypeOf
<1> HIDE DEF two
<1>6. \A r \in Pending :
         /\ arg'[r.client][r.exp + 1] = arg[r.client][r.exp + 1]
         /\ r.exp > 0 => arg'[r.client][r.exp] = arg[r.client][r.exp]
         /\ r.exp + 1 < next[r.client] => r.exp + 1 < next'[r.client]
  <2> SUFFICES ASSUME NEW r \in Pending
               PROVE  /\ arg'[r.client][r.exp + 1] = arg[r.client][r.exp + 1]
                      /\ r.exp > 0 => arg'[r.client][r.exp] = arg[r.client][r.exp]
                      /\ r.exp + 1 < next[r.client] => r.exp + 1 < next'[r.client]
    OBVIOUS
  <2>1. r.exp + 1 \in 1 .. next[r.client] /\ (r.exp > 0 => r.exp \in 1 .. next[r.client])
    BY <1>3
  <2> QED
    BY <1>1, <1>3, <1>5, <2>1
<1>7. \A r \in Made(c, m) : arg'[c][r.exp + 1] = a
  BY <1>1, <1>4, <1>5
<1>8. LoadComesFirst'
  <2> SUFFICES ASSUME NEW r \in Pending', r.method = "loadData"
               PROVE  /\ arg'[r.client][r.exp + 1] \in Projects
                      /\ r.exp + 1 < next'[r.client]
                      /\ \A s \in Pending' :
                           s.client = r.client /\ s.exp = r.exp + 1 => s.method = "initGL"
    BY DEF LoadComesFirst
  <2>1. CASE r \in Pending
    <3>1. /\ arg[r.client][r.exp + 1] \in Projects
          /\ r.exp + 1 < next[r.client]
          /\ \A s \in Pending :
               s.client = r.client /\ s.exp = r.exp + 1 => s.method = "initGL"
      BY <2>1 DEF CarryInv, LoadComesFirst
    <3>2. \A s \in Made(c, m) : ~ (s.client = r.client /\ s.exp = r.exp + 1)
      BY <1>1, <1>3, <1>4, <2>1, <3>1
    <3> QED
      BY <1>2, <1>6, <2>1, <3>1, <3>2
  <2>2. CASE r \in Made(c, m)
    <3>1. m = "openProject" /\ r.exp = next[c] /\ r.client = c
      BY <1>1, <1>4, <1>5, <2>2
    <3>2. \A s \in Pending : ~ (s.client = r.client /\ s.exp = r.exp + 1)
      BY <1>1, <1>3, <3>1
    <3> QED
      BY <1>1, <1>2, <1>4, <1>5, <1>7, <2>2, <3>1, <3>2
  <2> QED
    BY <1>2, <2>1, <2>2
<1>9. InitComesNext'
  <2> SUFFICES ASSUME NEW r \in Pending', r.method = "initGL"
               PROVE  /\ arg'[r.client][r.exp + 1] \in Projects
                      /\ r.exp > 0
                      /\ arg'[r.client][r.exp] = arg'[r.client][r.exp + 1]
                      /\ \A s \in Pending' :
                           s.client = r.client /\ s.exp + 1 = r.exp => s.method = "loadData"
    BY DEF InitComesNext
  <2>1. CASE r \in Pending
    <3>1. /\ arg[r.client][r.exp + 1] \in Projects
          /\ r.exp > 0
          /\ arg[r.client][r.exp] = arg[r.client][r.exp + 1]
          /\ \A s \in Pending :
               s.client = r.client /\ s.exp + 1 = r.exp => s.method = "loadData"
      BY <2>1 DEF CarryInv, InitComesNext
    <3>2. \A s \in Made(c, m) : ~ (s.client = r.client /\ s.exp + 1 = r.exp)
      BY <1>1, <1>3, <1>4, <2>1
    <3> QED
      BY <1>2, <1>6, <2>1, <3>1, <3>2
  <2>2. CASE r \in Made(c, m)
    <3>1. m = "openProject" /\ r.exp = next[c] + 1 /\ r.client = c
      BY <1>1, <1>4, <1>5, <2>2
    <3>2. \A s \in Pending : ~ (s.client = r.client /\ s.exp + 1 = r.exp)
      BY <1>1, <1>3, <3>1
    <3>3. \A s \in Made(c, m) : s.exp + 1 = r.exp => s.method = "loadData"
      BY <1>1, <1>4, <3>1
    <3>4. arg'[c][r.exp] = a
      BY <1>1, <1>5, <3>1
    <3> QED
      BY <1>1, <1>2, <1>7, <2>2, <3>1, <3>2, <3>3, <3>4
  <2> QED
    BY <1>2, <2>1, <2>2
<1>10. OthersCarryScenes'
  <2> SUFFICES ASSUME NEW r \in Pending'
               PROVE  /\ r.method \notin {"loadData", "initGL"}
                           => arg'[r.client][r.exp + 1] \in Scenes \cup {NoScene}
                      /\ r.resolve = "getScene" => r.method = "getScene"
    BY DEF OthersCarryScenes
  <2>1. CASE r \in Pending
    BY <1>6, <2>1 DEF CarryInv, OthersCarryScenes
  <2>2. CASE r \in Made(c, m)
    <3>1. r.method \notin {"loadData", "initGL"} => m # "openProject"
      BY <1>1, <1>4, <1>5, <2>2
    <3> QED
      BY <1>1, <1>4, <1>7, <2>2, <3>1
  <2> QED
    BY <1>2, <2>1, <2>2
<1> QED
  BY <1>8, <1>9, <1>10 DEF CarryInv


-----------------------------------------------------------------------------
LEMMA ImagesApart == Images \cap Scenes = {}
<1> SUFFICES ASSUME NEW x, x \in Images, x \in Scenes PROVE FALSE
  OBVIOUS
<1>1. "image" \in DOMAIN x
  BY DEF Images
<1>2. DOMAIN x = {"method", "of", "data", "odd"}
  BY DEF Scenes
<1> QED
  BY <1>1, <1>2


-----------------------------------------------------------------------------
(***************************************************************************)
(* The handlers, on an engine that fits.                                   *)
(***************************************************************************)
LEMMA LoadDataKeeps ==
  ASSUME RenderingAssumption, NEW e, NEW q, NEW d, NEW v, OfProject(e, q, d, v),
         NEW p \in Projects, OpenProject(e, p).failed = "no"
  PROVE  /\ OfProject(OpenProject(e, p), p, IF p \in Read THEN p ELSE d,
                      IF p \in Viewed THEN p ELSE v)
         /\ OpenProject(e, p).created
         /\ OpenProject(e, p).odd = e.odd
<1>1. /\ e \in Engines /\ e.failed = "no"
      /\ e.mode \in Kinds => d \in Read /\ e.data = d /\ e.mode = DataOf[d]
      /\ e.method \in Kinds => v \in Viewed /\ e.view = Default(v)
  BY DEF OfProject, Kinds
<1> DEFINE o == OpenProject(e, p)
           d1 == IF p \in Read THEN p ELSE d
           v1 == IF p \in Viewed THEN p ELSE v
<1>2. /\ o \in Engines
      /\ o.odd = e.odd
      /\ o.failed = "no" =>
              /\ o.created
              /\ Consistent(o)
              /\ d1 \in Read /\ o.data = d1 /\ o.mode = DataOf[d1]
              /\ v1 \in Viewed /\ o.view = Default(v1)
  BY <1>1, OpenProjectFits
<1>3. (p \in Read => d1 = p) /\ (p \in Viewed => v1 = p)
  OBVIOUS
<1> HIDE DEF o, d1, v1
<1>4. o.failed = "no"
  BY DEF o
<1>5. OfProject(o, p, d1, v1)
  BY <1>2, <1>3, <1>4 DEF OfProject
<1> QED
  BY <1>2, <1>4, <1>5 DEF o, d1, v1

LEMMA InitGLKeeps ==
  ASSUME RenderingAssumption, NEW e, NEW p, NEW d, NEW v, OfProject(e, p, d, v), e.created,
         InitGL(e).failed = "no"
  PROVE  /\ OfProject(InitGL(e), p, d, v) /\ InitGL(e).created /\ SceneOfData(InitGL(e))
         /\ InitGL(e).odd = (e.odd \/ v \in OddHeight)
<1> DEFINE o == InitGL(e)
<1>1. e.data \in Projects /\ e.view.odd = (v \in OddHeight)
  BY DEF OfProject, Read, Default
<1>2. /\ o \in Engines
      /\ o.failed = "no" =>
              /\ o.odd = (e.odd \/ e.view.odd)
              /\ o.created /\ o.ready
              /\ Consistent(o)
              /\ o.data = e.data /\ o.mode = e.mode /\ o.view = e.view
              /\ o.volume = o.mode /\ o.built[o.mode] = o.data
  BY <1>1, InitGLFits DEF OfProject
<1> HIDE DEF o
<1> QED
  BY <1>1, <1>2 DEF OfProject, SceneOfData, o

LEMMA RenderFrameKeeps ==
  ASSUME RenderingAssumption, NEW e, NEW p, NEW d, NEW v, OfProject(e, p, d, v),
         e.created => SceneOfData(e), NEW a \in Scenes \cup {NoScene},
         RenderFrame(e, a).failed = "no"
  PROVE  /\ OfProject(RenderFrame(e, a), p, d, v)
         /\ RenderFrame(e, a).created => SceneOfData(RenderFrame(e, a))
         /\ e.created => RenderFrame(e, a).created
         /\ RenderFrame(e, a).odd =>
              \/ e.odd
              \/ e.created /\ v \in OddHeight
              \/ Odd(a)
         /\ AnswerFits(FrameOf(RenderFrame(e, a)), p, d, v, a)
         /\ FrameOf(RenderFrame(e, a)) \notin Scenes \cup {NoScene}
<1>1. CASE ~ e.created
  <2>1. RenderFrame(e, a) = e /\ FrameOf(e) = NoImage /\ p = NoProject
    BY <1>1 DEF OfProject, RenderFrame, FrameOf
  <2>2. NoImage \in Images
    BY DEF NoImage, Images, OrNone
  <2> QED
    BY <1>1, <2>1, <2>2, ImagesApart DEF AnswerFits, RenderingAssumption
<1>2. CASE e.created
  <2> DEFINE w == IF a = NoScene THEN e.view ELSE a
             o == RenderFrame(e, a)
  <2>1. /\ e \in Engines /\ e.failed = "no" /\ p \in Projects /\ e.ready /\ Consistent(e)
        /\ e.volume = e.mode /\ e.built[e.mode] = e.data /\ e.data \in Projects
        /\ d \in Read /\ e.data = d /\ e.mode = DataOf[d]
        /\ v \in Viewed /\ e.view = Default(v)
        /\ p \in Read => d = p
        /\ p \in Viewed => v = p
    BY <1>2 DEF OfProject, SceneOfData, Read
  <2>2. o \in Engines /\ o = [e EXCEPT !.shown = w.of, !.odd = e.odd \/ w.odd]
    BY <2>1, RenderFrameFits
  <2>3. a = NoScene => w.of = v /\ w.odd = (v \in OddHeight)
    BY <2>1 DEF Default
  <2>4. a # NoScene => a \in Scenes /\ w = a
    OBVIOUS
  <2>5. w.of \in OrNone(Projects) /\ w.odd \in BOOLEAN
    BY <2>1, EngineFields DEF Scenes, Views
  <2> HIDE DEF o, w
  <2>6. /\ o.failed = "no" /\ o.data = e.data /\ o.mode = e.mode
        /\ o.view = e.view /\ o.method = e.method /\ o.volume = e.volume
        /\ o.built = e.built /\ o.shown = w.of
        /\ o.odd = (e.odd \/ w.odd)
    BY <2>1, <2>2 DEF Engines
  <2>7. o.created /\ o.ready
    BY <1>2, <2>1, <2>2 DEF Engines
  <2>8. Consistent(o)
    BY <2>1, <2>6 DEF Consistent
  <2>9. OfProject(o, p, d, v) /\ SceneOfData(o)
    BY <2>1, <2>2, <2>6, <2>7, <2>8 DEF OfProject, SceneOfData
  <2>10. FrameOf(o) = [image |-> TRUE, data |-> e.data, of |-> w.of]
    BY <2>1, <2>6, <2>7 DEF FrameOf
  <2>11. FrameOf(o) \in Images
    BY <2>1, <2>5, <2>10 DEF Images, OrNone
  <2>12. AnswerFits(FrameOf(o), p, d, v, a)
    <3>1. FrameOf(o).image /\ FrameOf(o).data = e.data /\ FrameOf(o).of = w.of
      BY <2>10
    <3>2. FrameOf(o) # NoScene /\ FrameOf(o) \notin Scenes
      BY <2>11, ImagesApart DEF RenderingAssumption
    <3> QED
      BY <2>1, <2>3, <2>11, <3>1, <3>2 DEF AnswerFits
  <2>13. o.odd => e.odd \/ v \in OddHeight \/ Odd(a)
    <3>1. ASSUME w.odd
          PROVE  v \in OddHeight \/ Odd(a)
      BY <2>3, <2>4, <3>1 DEF Odd
    <3> QED
      BY <2>6, <3>1
  <2> QED
    BY <1>2, <2>7, <2>9, <2>11, <2>12, <2>13, ImagesApart DEF o, RenderingAssumption
<1> QED
  BY <1>1, <1>2

LEMMA GetSceneKeeps ==
  ASSUME RenderingAssumption, NEW e, NEW p, NEW d, NEW v, OfProject(e, p, d, v),
         e.created => SceneOfData(e), NEW a
  PROVE  /\ GetScene(e) = e
         /\ AnswerFits(SceneOf(e), p, d, v, a)
         /\ SceneOf(e) \in Scenes \cup {NoScene}
<1>1. CASE ~ e.created
  <2>1. GetScene(e) = e /\ SceneOf(e) = NoScene /\ d = NoProject
    BY <1>1 DEF OfProject, GetScene, SceneOf
  <2> QED
    BY <2>1 DEF AnswerFits, RenderingAssumption
<1>2. CASE e.created
  <2>1. /\ e \in Engines /\ e.failed = "no" /\ p \in Projects /\ Consistent(e)
        /\ e.volume = e.mode /\ e.built[e.mode] = e.data /\ e.data \in Projects
        /\ e.data = d /\ e.mode = DataOf[d]
    BY <1>2 DEF OfProject, SceneOfData, Read
  <2>2. e.mode \in Kinds /\ e.mode # "none" /\ e.method = e.mode /\ e.data # NoProject
    BY <2>1 DEF Consistent, Kinds, RenderingAssumption
  <2>3. GetScene(e) = e
    BY <1>2, <2>1, <2>2 DEF GetScene, HasScene
  <2>4. SceneOf(e) = [method |-> e.mode, of |-> e.shown, data |-> e.data, odd |-> FALSE]
    BY <1>2, <2>1, <2>2 DEF SceneOf
  <2>5. SceneOf(e) \in Scenes
    BY <2>1, <2>2, <2>4, EngineFields DEF Scenes, OrNone
  <2>6. SceneOf(e).data = d /\ SceneOf(e).method = DataOf[d]
    BY <2>1, <2>4
  <2> QED
    BY <2>3, <2>5, <2>6, ImagesApart DEF AnswerFits, RenderingAssumption
<1> QED
  BY <1>1, <1>2


-----------------------------------------------------------------------------
(***************************************************************************)
(* Steps that call no handler.                                             *)
(***************************************************************************)
LEMMA FitsStay ==
  ASSUME TypeOK, TicketInv, NEW c \in Clients, EngineFits(c),
         engine'[c] = engine[c], Done(c)' = Done(c),
         \A i \in 1 .. next[c] : arg'[c][i] = arg[c][i],
         OnlyInit(c) => OnlyInit(c)'
  PROVE  EngineFits(c)'
<1>1. PICK n \in Nat : n = Done(c)
  BY PendingTyped
<1>2. \A i \in 1 .. n : i \in 1 .. next[c] /\ arg'[c][i] = arg[c][i]
  BY <1>1, PendingTyped
<1>3. Done(c)' = n /\ \A S : LastOpened(c, n, S)' = LastOpened(c, n, S)
  BY <1>1, <1>2, OpenedStays
<1>4. PICK p, d, v : p = Opened(c, n) /\ d = LastOpened(c, n, Read) /\ v = LastOpened(c, n, Viewed)
  OBVIOUS
<1>5. /\ OfProject(engine[c], p, d, v)
      /\ engine[c].created => SceneOfData(engine[c]) \/ OnlyInit(c)
      /\ engine[c].odd => WasOdd(c, n)
  BY <1>1, <1>4 DEF EngineFits, EngineOf
<1>6. /\ Opened(c, Done(c))' = p
      /\ LastOpened(c, Done(c), Read)' = d
      /\ LastOpened(c, Done(c), Viewed)' = v
  BY <1>3, <1>4 DEF Opened, Read, Viewed
<1>7. OfProject(engine'[c], p, d, v)
  BY <1>5
<1>8. EngineOf(engine[c], c, Done(c))'
  BY <1>6, <1>7 DEF EngineOf
<1>9. (engine[c].created => SceneOfData(engine[c]) \/ OnlyInit(c))'
  BY <1>5 DEF SceneOfData
<1>10. (engine[c].odd => WasOdd(c, Done(c)))'
  <2>1. WasOdd(c, n) => \E u \in 1 .. n : Odd(arg'[c][u])
    BY <1>2 DEF WasOdd
  <2> QED
    BY <1>3, <1>5, <2>1 DEF WasOdd
<1> QED
  BY <1>8, <1>9, <1>10 DEF EngineFits

\* An answer fits as long as the payloads up to its own are the same.
LEMMA AnswerStays ==
  ASSUME NEW c, NEW t, AnswerOf(c, t), answer'[c][t] = answer[c][t],
         \A S : LastOpened(c, t, S)' = LastOpened(c, t, S),
         arg'[c][t + 1] = arg[c][t + 1]
  PROVE  AnswerOf(c, t)'
<1>1. PICK x, p, d, v, a :
        /\ x = answer[c][t]
        /\ p = Opened(c, t) /\ d = LastOpened(c, t, Read) /\ v = LastOpened(c, t, Viewed)
        /\ a = arg[c][t + 1]
  OBVIOUS
<1>2. AnswerFits(x, p, d, v, a)
  BY <1>1 DEF AnswerOf
<1>3. /\ answer'[c][t] = x
      /\ Opened(c, t)' = p /\ LastOpened(c, t, Read)' = d /\ LastOpened(c, t, Viewed)' = v
      /\ arg'[c][t + 1] = a
  BY <1>1 DEF Opened, Read, Viewed
<1> QED
  BY <1>2, <1>3 DEF AnswerOf

LEMMA EnginesStay ==
  ASSUME TypeOK, TicketInv, EnginesInv, UNCHANGED <<engine, answer>>,
         \A c \in Clients : Done(c)' = Done(c),
         \A c \in Clients : \A i \in 1 .. next[c] : arg'[c][i] = arg[c][i],
         \A c \in Clients : OnlyInit(c) => OnlyInit(c)',
         \A r \in Pending' :
           /\ r.client \in Clients
           /\ r.method = "initGL" /\ r.exp = Done(r.client) => r \in Pending
  PROVE  EnginesInv'
<1>1. \A c \in Clients : Done(c) \in Nat /\ next[c] \in Nat /\ Done(c) <= next[c]
  BY PendingTyped
<1>2. ASSUME NEW c \in Clients, NEW t \in Nat, t <= Done(c)
      PROVE  \A S : LastOpened(c, t, S)' = LastOpened(c, t, S)
  <2>1. \A i \in 1 .. t : i \in 1 .. next[c]
    BY <1>1, <1>2
  <2> QED
    BY <2>1, OpenedStays
<1>3. ASSUME NEW c \in Clients
      PROVE  EngineFits(c)'
  BY FitsStay DEF EnginesInv
<1>4. InitFindsEngine'
  <2> SUFFICES ASSUME NEW r \in Pending', r.method = "initGL", r.exp = Done(r.client)'
               PROVE  engine'[r.client].created
    BY DEF InitFindsEngine
  <2>1. r \in Pending /\ r.exp = Done(r.client)
    OBVIOUS
  <2> QED
    BY <2>1 DEF EnginesInv, InitFindsEngine
<1>5. AnswersAreDone'
  BY DEF EnginesInv, AnswersAreDone
<1>6. AnswersFit'
  <2> SUFFICES ASSUME NEW c \in Clients, NEW t \in DOMAIN answer[c]
               PROVE  AnswerOf(c, t)'
    BY DEF AnswersFit
  <2>1. t \in Nat /\ t < Done(c)
    BY DEF EnginesInv, AnswersAreDone
  <2>2. t + 1 \in 1 .. next[c]
    BY <1>1, <2>1
  <2>3. \A S : LastOpened(c, t, S)' = LastOpened(c, t, S)
    BY <1>1, <1>2, <2>1
  <2>4. arg'[c][t + 1] = arg[c][t + 1]
    BY <2>2
  <2>5. AnswerOf(c, t)
    BY DEF EnginesInv, AnswersFit
  <2> QED
    BY <2>3, <2>4, <2>5, AnswerStays
<1> QED
  BY <1>3, <1>4, <1>5, <1>6 DEF EnginesInv

LEMMA QuietEngines ==
  ASSUME TypeOK, TicketInv, EnginesInv, CarryInv, QuietStep, UNCHANGED <<engine, arg, answer>>
  PROVE  EnginesInv' /\ CarryInv'
<1>1. /\ next' = next
      /\ Pending' \subseteq Pending
      /\ \A c \in Clients : Done(c)' = Done(c)
  BY QuietPending
<1>2. \A r \in Pending' :
        /\ r.client \in Clients
        /\ r.method = "initGL" /\ r.exp = Done(r.client) => r \in Pending
  BY <1>1, PendingTyped
<1>3. \A c \in Clients : OnlyInit(c) => OnlyInit(c)'
  BY <1>1 DEF OnlyInit
<1> QED
  BY <1>1, <1>2, <1>3, EnginesStay, ServerCarries

LEMMA SendEngines ==
  ASSUME RenderTyped, DispatchAssumption, TicketInv, EnginesInv, CarryInv,
         NEW c \in Clients, NEW m \in Methods, NEW a \in Payloads(c, m), Send(c, m, a)
  PROVE  EnginesInv' /\ CarryInv'
<1>0. TypeOK
  BY DEF RenderTyped, RenderTypeOK
<1>1. /\ next[c] \in Nat
      /\ next' = [next EXCEPT ![c] = next[c] + IF TypeOf(m) = 1 THEN 2 ELSE 1]
      /\ \A d \in Clients : \A i \in 1 .. next[d] : arg'[d][i] = arg[d][i]
  BY SendArgs
<1>2. UNCHANGED <<engine, answer>> /\ NewRequest(c, m)
  BY DEF Send
<1>3. /\ Pending' \subseteq Pending \cup Made(c, m)
      /\ \A d \in Clients : Done(d)' = Done(d)
  BY <1>0, <1>2, SubmitPending
<1>4. /\ \A d \in Clients : Done(d) \in Nat /\ next[d] \in Nat /\ Done(d) <= next[d]
      /\ \A r \in Pending : r.client \in Clients
  BY <1>0, PendingTyped
<1>5. \A d \in Clients : next'[d] \in Nat /\ next[d] <= next'[d]
  BY <1>0, <1>1, <1>4 DEF TypeOK
<1>6. \A r \in Made(c, m) :
        /\ r.client = c /\ r.exp \in Nat /\ next[c] <= r.exp
        /\ m = "openProject" => (r.exp = next[c] => r.method = "loadData")
        /\ m # "openProject" => r.method \notin {"loadData", "initGL"}
  BY <1>1, MadeFacts
<1>7. \A r \in Pending' :
        /\ r.client \in Clients
        /\ r.method = "initGL" /\ r.exp = Done(r.client) => r \in Pending
  <2>1. ASSUME NEW r \in Made(c, m), r.method = "initGL", r.exp = Done(r.client)
        PROVE  FALSE
    <3>1. r.exp = next[c] /\ m = "openProject"
      BY <1>4, <1>6, <2>1
    <3> QED
      BY <1>6, <2>1, <3>1
  <2> QED
    BY <1>3, <1>4, <1>6, <2>1
<1>8. ASSUME NEW d \in Clients, OnlyInit(d)
      PROVE  OnlyInit(d)'
  <2>1. Done(d) < next'[d]
    BY <1>4, <1>5, <1>8 DEF OnlyInit
  <2>2. ASSUME NEW r \in Pending', r.client = d, r.exp = Done(d)
        PROVE  r.method = "initGL"
    <3>1. r \notin Made(c, m)
      BY <1>4, <1>6, <1>8, <2>2 DEF OnlyInit
    <3> QED
      BY <1>3, <1>8, <2>2, <3>1 DEF OnlyInit
  <2>3. Done(d)' = Done(d)
    BY <1>3
  <2> QED
    BY <2>1, <2>2, <2>3 DEF OnlyInit
<1> QED
  BY <1>0, <1>1, <1>2, <1>3, <1>7, <1>8, EnginesStay, SendCarries


-----------------------------------------------------------------------------
(***************************************************************************)
(* The calls of the handlers.                                              *)
(***************************************************************************)
\* The client, the ticket and the payload of the request a thread runs, and
\* the engine it finds.
Runs(h, c, t, a) ==
  /\ c = hand[h].client /\ t = hand[h].exp /\ a = arg[c][t + 1]
  /\ c \in Clients /\ t \in Nat
  /\ t = Done(c) /\ t < next[c]
  /\ EngineOf(engine[c], c, t)
  /\ engine[c].odd => WasOdd(c, t)
  /\ hand[h].method = "loadData" =>
       /\ a \in Projects
       /\ t + 1 < next[c]
       /\ \A r \in Pending : r.client = c /\ r.exp = t + 1 => r.method = "initGL"
  /\ hand[h].method = "initGL" =>
       a \in Projects /\ Opened(c, t) = a /\ engine[c].created
  /\ hand[h].method \notin {"loadData", "initGL"} => a \in Scenes \cup {NoScene}
  /\ hand[h].method # "initGL" => (engine[c].created => SceneOfData(engine[c]))
  /\ \A r \in Pending : r.client = c /\ r.exp = t + 1 /\ r.method = "initGL" =>
       hand[h].method = "loadData"

LEMMA RunningFits ==
  ASSUME TypeOK, TicketInv, EnginesInv, CarryInv, NEW h \in Handlers, pc[h] = "run"
  PROVE  \E c \in Clients, t \in Nat, a \in Payload : Runs(h, c, t, a)
<1>1. /\ hand[h] \in Pending
      /\ hand[h].exp = Done(hand[h].client)
      /\ hand[h].client \in Clients /\ hand[h].exp \in Nat
      /\ hand[h].exp < next[hand[h].client]
  BY PendingTyped
<1>2. PICK c \in Clients, t \in Nat : c = hand[h].client /\ t = hand[h].exp
  BY <1>1
<1>3. PICK a : a = arg[c][t + 1]
  OBVIOUS
<1>4. EngineFits(c) /\ t = Done(c) /\ t < next[c]
  BY <1>1, <1>2 DEF EnginesInv
<1>5. hand[h].method # "initGL" => ~ OnlyInit(c)
  BY <1>1, <1>2, <1>4 DEF OnlyInit
<1>6. /\ EngineOf(engine[c], c, t)
      /\ engine[c].odd => WasOdd(c, t)
      /\ hand[h].method # "initGL" => (engine[c].created => SceneOfData(engine[c]))
  BY <1>4, <1>5 DEF EngineFits
<1>7. hand[h].method = "loadData" =>
        /\ a \in Projects
        /\ t + 1 < next[c]
        /\ \A r \in Pending : r.client = c /\ r.exp = t + 1 => r.method = "initGL"
  BY <1>1, <1>2, <1>3 DEF CarryInv, LoadComesFirst
<1>8. ASSUME hand[h].method = "initGL"
      PROVE  a \in Projects /\ Opened(c, t) = a /\ engine[c].created
  <2>1. a \in Projects /\ t > 0 /\ arg[c][t] = a
    BY <1>1, <1>2, <1>3, <1>8 DEF CarryInv, InitComesNext
  <2>2. PICK u \in Nat : t = u + 1
    <3>1. t - 1 \in Nat /\ t = (t - 1) + 1
      BY <2>1
    <3> QED
      BY <3>1
  <2>3. Opened(c, t) = a
    BY <2>1, <2>2, OpenedNext DEF Opened
  <2> QED
    BY <1>1, <1>2, <1>8, <2>1, <2>3 DEF EnginesInv, InitFindsEngine
<1>9. hand[h].method \notin {"loadData", "initGL"} => a \in Scenes \cup {NoScene}
  BY <1>1, <1>2, <1>3 DEF CarryInv, OthersCarryScenes
<1>10. \A r \in Pending : r.client = c /\ r.exp = t + 1 /\ r.method = "initGL" =>
         hand[h].method = "loadData"
  BY <1>1, <1>2 DEF CarryInv, InitComesNext
<1>11. Runs(h, c, t, a)
  BY <1>2, <1>3, <1>4, <1>6, <1>7, <1>8, <1>9, <1>10 DEF Runs
<1>12. a \in Payload
  BY <1>7, <1>8, <1>9 DEF Payload
<1> QED
  BY <1>11, <1>12

\* What the handler leaves behind when it ends well.
LEMMA OutcomeFits ==
  ASSUME RenderingAssumption, NEW h \in Handlers, NEW c \in Clients, NEW t \in Nat, NEW a,
         Runs(h, c, t, a), Outcome(h).failed = "no"
  PROVE  /\ EngineOf(Outcome(h), c, t + 1)
         /\ Outcome(h).odd => WasOdd(c, t + 1)
         /\ hand[h].method # "loadData" =>
              (Outcome(h).created => SceneOfData(Outcome(h)))
         /\ engine[c].created => Outcome(h).created
         /\ hand[h].method = "loadData" => Outcome(h).created
         /\ hand[h].method = "getScene" =>
              /\ AnswerFits(SceneOf(Outcome(h)), Opened(c, t), LastOpened(c, t, Read),
                            LastOpened(c, t, Viewed), a)
              /\ SceneOf(Outcome(h)) \in Scenes \cup {NoScene}
         /\ hand[h].method = "requestFrame" =>
              AnswerFits(FrameOf(Outcome(h)), Opened(c, t), LastOpened(c, t, Read),
                         LastOpened(c, t, Viewed), a)
<1> DEFINE e == engine[c]
           m == hand[h].method
           o == Outcome(h)
           p == Opened(c, t)
           d == LastOpened(c, t, Read)
           v == LastOpened(c, t, Viewed)
           was == WasOdd(c, t)
           odd1 == WasOdd(c, t + 1)
<1>1. /\ o = Perform(e, m, a) /\ OfProject(e, p, d, v)
      /\ m # "initGL" => (e.created => SceneOfData(e))
      /\ a = arg[c][t + 1]
      /\ e.odd => was
  BY DEF Outcome, Runs, EngineOf
<1>2. EngineOf(o, c, t + 1) <=>
        OfProject(o, IF a \in Projects THEN a ELSE p, IF a \in Read THEN a ELSE d,
                  IF a \in Viewed THEN a ELSE v)
  <2>1. /\ Opened(c, t + 1) = IF a \in Projects THEN a ELSE p
        /\ LastOpened(c, t + 1, Read) = IF a \in Read THEN a ELSE d
        /\ LastOpened(c, t + 1, Viewed) = IF a \in Viewed THEN a ELSE v
    <3>1. a = arg[c][t + 1]
      BY <1>1
    <3>2. \A S : LastOpened(c, t + 1, S) = IF a \in S THEN a ELSE LastOpened(c, t, S)
      BY <3>1, OpenedNext
    <3> QED
      BY <3>2 DEF Opened
  <2> HIDE DEF o
  <2> QED
    BY <2>1 DEF EngineOf
<1>3. a \in Scenes \cup {NoScene} => a \notin Projects /\ a \notin Read /\ a \notin Viewed
  BY DEF RenderingAssumption, Read, Viewed
<1>4. (was => odd1) /\ (Odd(a) => odd1)
  BY <1>1 DEF WasOdd
<1>5. e.created /\ v \in OddHeight => odd1
  <2>1. ASSUME e.created, v \in OddHeight
        PROVE  odd1
    <3>1. v # NoProject
      BY <1>1, <2>1 DEF OfProject, Viewed, RenderingAssumption
    <3>2. PICK u \in 1 .. t : arg[c][u] = v
      BY <3>1, OpenedWasSent
    <3> QED
      BY <1>4, <2>1, <3>2 DEF WasOdd, Odd
  <2> QED
    BY <2>1
<1> HIDE DEF e, m, o, p, d, v, was, odd1
<1>6. CASE m = "loadData"
  <2>1. a \in Projects
    BY <1>6 DEF Runs, m
  <2>2. o = OpenProject(e, a)
    BY <1>1, <1>6 DEF Perform
  <2>3. OpenProject(e, a).failed = "no"
    BY <2>2 DEF o
  <2>4. /\ OfProject(o, a, IF a \in Read THEN a ELSE d, IF a \in Viewed THEN a ELSE v)
        /\ o.created /\ o.odd = e.odd
    BY <1>1, <2>1, <2>2, <2>3, LoadDataKeeps
  <2>5. EngineOf(o, c, t + 1)
    BY <1>2, <2>1, <2>4
  <2> QED
    BY <1>1, <1>4, <1>6, <2>4, <2>5 DEF e, m, o, odd1
<1>7. CASE m = "initGL"
  <2>1. a \in Projects /\ p = a /\ e.created
    BY <1>7 DEF Runs, m, p, e
  <2>2. o = InitGL(e) /\ InitGL(e).failed = "no"
    BY <1>1, <1>7 DEF Perform, o
  <2>3. /\ OfProject(o, p, d, v) /\ o.created /\ SceneOfData(o)
        /\ o.odd = (e.odd \/ v \in OddHeight)
    BY <1>1, <2>1, <2>2, InitGLKeeps
  <2>4. (a \in Read => d = a) /\ (a \in Viewed => v = a)
    BY <1>1, <2>1 DEF OfProject
  <2>5. /\ (IF a \in Projects THEN a ELSE p) = p
        /\ (IF a \in Read THEN a ELSE d) = d
        /\ (IF a \in Viewed THEN a ELSE v) = v
    BY <2>1, <2>4
  <2>6. EngineOf(o, c, t + 1)
    BY <1>2, <2>3, <2>5
  <2> QED
    BY <1>1, <1>4, <1>5, <1>7, <2>1, <2>3, <2>6 DEF e, m, o, odd1
<1>8. CASE m = "requestFrame"
  <2>1. a \in Scenes \cup {NoScene}
    BY <1>8 DEF Runs, m
  <2>2. o = RenderFrame(e, a) /\ RenderFrame(e, a).failed = "no"
    BY <1>1, <1>8 DEF Perform, o
  <2>3. m # "initGL"
    BY <1>8
  <2>4. /\ OfProject(o, p, d, v)
        /\ o.created => SceneOfData(o)
        /\ e.created => o.created
        /\ o.odd => e.odd \/ (e.created /\ v \in OddHeight) \/ Odd(a)
        /\ AnswerFits(FrameOf(o), p, d, v, a)
    BY <1>1, <2>1, <2>2, <2>3, RenderFrameKeeps
  <2>5. EngineOf(o, c, t + 1)
    BY <1>2, <1>3, <2>1, <2>4
  <2> QED
    BY <1>1, <1>4, <1>5, <1>8, <2>4, <2>5 DEF e, m, o, p, d, v, odd1
<1>9. CASE m \notin {"loadData", "initGL", "requestFrame"}
  <2>1. a \in Scenes \cup {NoScene} /\ m # "initGL"
    BY <1>9 DEF Runs, m
  <2>2. m = "getScene" =>
          AnswerFits(SceneOf(e), p, d, v, a) /\ SceneOf(e) \in Scenes \cup {NoScene}
    BY <1>1, <2>1, GetSceneKeeps
  <2>3. o = e
    BY <1>1, <1>9, <2>1, GetSceneKeeps DEF Perform
  <2>4. EngineOf(o, c, t + 1)
    BY <1>1, <1>2, <1>3, <2>1, <2>3
  <2> QED
    BY <1>1, <1>4, <1>9, <2>1, <2>2, <2>3, <2>4 DEF e, m, o, p, d, v, odd1
<1> QED
  BY <1>6, <1>7, <1>8, <1>9

\* What a reply for ticket t of client c, with payload a, shows.
RightAnswer(c, t, a, reply) ==
  AnswerFits(reply, Opened(c, t), LastOpened(c, t, Read), LastOpened(c, t, Viewed), a)

\* Only the ticket that is done is answered.
LEMMA TaskAnswers ==
  ASSUME RenderingAssumption, DOMAIN answer = Clients, NEW h \in Handlers,
         NEW c \in Clients, NEW t \in Nat, NEW a, Runs(h, c, t, a), ExecuteTask(h)
  PROVE  /\ DOMAIN answer' = Clients
         /\ \A d \in Clients \ {c} : answer'[d] = answer[d]
         /\ DOMAIN answer'[c] \subseteq DOMAIN answer[c] \cup {t}
         /\ \A u \in DOMAIN answer[c] : u \in DOMAIN answer'[c]
         /\ \A u \in DOMAIN answer[c] \ {t} : answer'[c][u] = answer[c][u]
         /\ t \in DOMAIN answer'[c] /\ t \notin DOMAIN answer[c] =>
              RightAnswer(c, t, a, answer'[c][t])
         /\ hand[h].method = "getScene" =>
              t \in DOMAIN answer'[c] /\ answer'[c][t] \in Scenes \cup {NoScene}
<1>1. /\ c = hand[h].client /\ t = hand[h].exp
      /\ Outcome(h).failed = "no"
  BY DEF Runs, ExecuteTask
<1>2. ASSUME NEW reply, Record(c, t, reply)
      PROVE  /\ DOMAIN answer' = Clients
             /\ \A d \in Clients \ {c} : answer'[d] = answer[d]
             /\ DOMAIN answer'[c] = DOMAIN answer[c] \cup {t}
             /\ \A u \in DOMAIN answer[c] \ {t} : answer'[c][u] = answer[c][u]
             /\ answer'[c][t] = reply
  <2> DEFINE f == [u \in DOMAIN answer[c] \cup {t} |-> IF u = t THEN reply ELSE answer[c][u]]
  <2>1. answer' = [answer EXCEPT ![c] = f]
    BY <1>2 DEF Record
  <2>2. /\ DOMAIN f = DOMAIN answer[c] \cup {t}
        /\ \A u \in DOMAIN answer[c] \ {t} : f[u] = answer[c][u]
        /\ f[t] = reply
    OBVIOUS
  <2> HIDE DEF f
  <2>3. /\ DOMAIN answer' = Clients
        /\ \A d \in Clients \ {c} : answer'[d] = answer[d]
        /\ answer'[c] = f
    BY <2>1
  <2> QED
    BY <2>2, <2>3
<1>3. CASE hand[h].method = "getScene"
  <2>1. Record(c, t, SceneOf(Outcome(h)))
    BY <1>1, <1>3 DEF ExecuteTask
  <2>2. /\ RightAnswer(c, t, a, SceneOf(Outcome(h)))
        /\ SceneOf(Outcome(h)) \in Scenes \cup {NoScene}
    BY <1>1, <1>3, OutcomeFits DEF RightAnswer
  <2> QED
    BY <1>2, <1>3, <2>1, <2>2
<1>4. CASE hand[h].method = "requestFrame"
  <2>1. Record(c, t, FrameOf(Outcome(h)))
    BY <1>1, <1>4 DEF ExecuteTask
  <2>2. RightAnswer(c, t, a, FrameOf(Outcome(h)))
    BY <1>1, <1>4, OutcomeFits DEF RightAnswer
  <2> QED
    BY <1>2, <1>4, <2>1, <2>2
<1>5. CASE hand[h].method \notin {"getScene", "requestFrame"}
  <2>1. answer' = answer
    BY <1>5 DEF ExecuteTask
  <2> QED
    BY <1>5, <2>1
<1> QED
  BY <1>3, <1>4, <1>5

LEMMA TaskEngines ==
  ASSUME RenderingAssumption, TypeOK, TicketInv, EnginesInv, CarryInv,
         DOMAIN answer = Clients, engine \in [Clients -> Engines],
         NEW h \in Handlers, ExecuteTask(h)
  PROVE  EnginesInv' /\ CarryInv'
<1>1. Execute(h) /\ pc[h] = "run" /\ arg' = arg /\ Outcome(h).failed = "no"
  BY DEF ExecuteTask, Execute
<1>2. PICK c \in Clients, t \in Nat, a \in Payload : Runs(h, c, t, a)
  BY <1>1, RunningFits
<1>3. /\ c = hand[h].client /\ t = hand[h].exp /\ a = arg[c][t + 1]
      /\ t = Done(c) /\ t < next[c]
  BY <1>2 DEF Runs
<1>4. PICK o : o = Outcome(h)
  OBVIOUS
<1>5. engine' = [engine EXCEPT ![c] = o]
  BY <1>3, <1>4 DEF ExecuteTask
<1>6. engine'[c] = o /\ \A d \in Clients \ {c} : engine'[d] = engine[d]
  BY <1>5
<1>7. /\ next' = next
      /\ Pending' \subseteq Pending
      /\ \A d \in Clients : Done(d)' = IF d = c THEN Done(d) + 1 ELSE Done(d)
  BY <1>1, <1>3, ExecutePending
<1>8. /\ EngineOf(o, c, t + 1)
      /\ o.odd => WasOdd(c, t + 1)
      /\ hand[h].method # "loadData" => (o.created => SceneOfData(o))
      /\ engine[c].created => o.created
      /\ hand[h].method = "loadData" => o.created
  BY <1>1, <1>2, <1>4, OutcomeFits
<1>9. /\ \A d \in Clients : Done(d) \in Nat /\ next[d] \in Nat /\ Done(d) <= next[d]
      /\ \A r \in Pending : r.client \in Clients
  BY PendingTyped
<1>10. \A d \in Clients, u \in Nat : \A S : LastOpened(d, u, S)' = LastOpened(d, u, S)
  BY <1>1, OpenedStays
<1>11. ASSUME NEW d \in Clients, d # c
       PROVE  EngineFits(d)'
  <2>1. OnlyInit(d) => OnlyInit(d)'
    BY <1>7, <1>11 DEF OnlyInit
  <2> QED
    BY <1>1, <1>6, <1>7, <1>11, <2>1, FitsStay DEF EnginesInv
<1>12. EngineFits(c)'
  <2>1. PICK n \in Nat : n = t + 1
    OBVIOUS
  <2>2. Done(c)' = n
    BY <1>3, <1>7, <2>1
  <2>3. PICK p, d, v :
          p = Opened(c, n) /\ d = LastOpened(c, n, Read) /\ v = LastOpened(c, n, Viewed)
    OBVIOUS
  <2>4. EngineOf(engine[c], c, Done(c))'
    <3>1. /\ Opened(c, Done(c))' = p
          /\ LastOpened(c, Done(c), Read)' = d
          /\ LastOpened(c, Done(c), Viewed)' = v
      BY <1>10, <2>1, <2>2, <2>3 DEF Opened, Read, Viewed
    <3>2. OfProject(engine'[c], p, d, v)
      BY <1>6, <1>8, <2>1, <2>3 DEF EngineOf
    <3> QED
      BY <3>1, <3>2 DEF EngineOf
  <2>5. hand[h].method = "loadData" => OnlyInit(c)'
    BY <1>2, <1>7, <2>1, <2>2 DEF OnlyInit, Runs
  <2>6. (engine[c].created => SceneOfData(engine[c]) \/ OnlyInit(c))'
    BY <1>6, <1>8, <2>5 DEF SceneOfData
  <2>7. (engine[c].odd => WasOdd(c, Done(c)))'
    <3>1. o.odd => \E u \in 1 .. n : Odd(arg'[c][u])
      BY <1>1, <1>8, <2>1 DEF WasOdd
    <3> QED
      BY <1>6, <2>2, <3>1 DEF WasOdd
  <2> QED
    BY <2>4, <2>6, <2>7 DEF EngineFits
<1>13. InitFindsEngine'
  <2> SUFFICES ASSUME NEW r \in Pending', r.method = "initGL", r.exp = Done(r.client)'
               PROVE  engine'[r.client].created
    BY DEF InitFindsEngine
  <2>1. r \in Pending /\ r.client \in Clients
    BY <1>7, <1>9
  <2>2. CASE r.client = c
    <3>1. r.exp = t + 1
      BY <1>3, <1>7, <2>2
    <3>2. hand[h].method = "loadData"
      BY <1>2, <2>1, <2>2, <3>1 DEF Runs
    <3> QED
      BY <1>6, <1>8, <2>2, <3>2
  <2>3. CASE r.client # c
    <3>1. r.exp = Done(r.client)
      BY <1>7, <2>1, <2>3
    <3> QED
      BY <1>6, <2>1, <2>3, <3>1 DEF EnginesInv, InitFindsEngine
  <2> QED
    BY <2>2, <2>3
<1>14. /\ \A d \in Clients \ {c} : answer'[d] = answer[d]
       /\ DOMAIN answer'[c] \subseteq DOMAIN answer[c] \cup {t}
       /\ \A u \in DOMAIN answer[c] \ {t} : answer'[c][u] = answer[c][u]
       /\ t \in DOMAIN answer'[c] /\ t \notin DOMAIN answer[c] =>
            RightAnswer(c, t, a, answer'[c][t])
  BY <1>2, TaskAnswers
<1>15. \A d \in Clients : \A u \in DOMAIN answer[d] : u \in Nat /\ u < Done(d)
  BY DEF EnginesInv, AnswersAreDone
<1>16. t \notin DOMAIN answer[c]
  BY <1>3, <1>15
<1>17. AnswersAreDone'
  <2>1. \A d \in Clients : \A u \in DOMAIN answer'[d] : u \in Nat /\ u < Done(d)'
    BY <1>3, <1>7, <1>9, <1>14, <1>15
  <2> QED
    BY <2>1 DEF AnswersAreDone
<1>18. AnswersFit'
  <2> SUFFICES ASSUME NEW d \in Clients, NEW u \in DOMAIN answer'[d]
               PROVE  AnswerOf(d, u)'
    BY DEF AnswersFit
  <2>1. u \in Nat
    BY <1>14, <1>15
  <2>2. /\ \A S : LastOpened(d, u, S)' = LastOpened(d, u, S)
        /\ arg'[d][u + 1] = arg[d][u + 1]
    BY <1>1, <1>10, <2>1
  <2>3. CASE d = c /\ u = t
    <3>1. PICK x, p, q, v : /\ x = answer'[c][t] /\ p = Opened(c, t)
                            /\ q = LastOpened(c, t, Read) /\ v = LastOpened(c, t, Viewed)
      OBVIOUS
    <3>2. AnswerFits(x, p, q, v, a)
      BY <1>14, <1>16, <2>3, <3>1 DEF RightAnswer
    <3>3. /\ Opened(d, u)' = p
          /\ LastOpened(d, u, Read)' = q /\ LastOpened(d, u, Viewed)' = v
          /\ arg'[d][u + 1] = a /\ answer'[d][u] = x
      BY <1>3, <2>2, <2>3, <3>1 DEF Opened, Read, Viewed
    <3> QED
      BY <3>2, <3>3 DEF AnswerOf
  <2>4. CASE ~ (d = c /\ u = t)
    <3>1. u \in DOMAIN answer[d] /\ answer'[d][u] = answer[d][u]
      BY <1>14, <2>4
    <3>2. AnswerOf(d, u)
      BY <3>1 DEF EnginesInv, AnswersFit
    <3> QED
      BY <2>2, <3>1, <3>2, AnswerStays
  <2> QED
    BY <2>3, <2>4
<1> QED
  BY <1>1, <1>7, <1>11, <1>12, <1>13, <1>17, <1>18, ServerCarries DEF EnginesInv


-----------------------------------------------------------------------------
(***************************************************************************)
(* The scenes on their way to the browsers.                                *)
(***************************************************************************)
LEMMA TaskScenes ==
  ASSUME RenderingAssumption, TypeOK, TicketInv, EnginesInv, CarryInv,
         DOMAIN answer = Clients, ScenesAnswered, NEW h \in Handlers, ExecuteTask(h)
  PROVE  ScenesAnswered'
<1>1. Execute(h) /\ pc[h] = "run" /\ sent' = sent
  BY DEF ExecuteTask, Execute
<1>2. PICK c \in Clients, t \in Nat, a \in Payload : Runs(h, c, t, a)
  BY <1>1, RunningFits
<1>3. c = hand[h].client /\ t = hand[h].exp /\ t = Done(c) /\ hand[h] \in Pending
  BY <1>1, <1>2, PendingTyped DEF Runs
<1>4. t \notin DOMAIN answer[c]
  <2>1. \A u \in DOMAIN answer[c] : u \in Nat /\ u < Done(c)
    BY DEF EnginesInv, AnswersAreDone
  <2> QED
    BY <1>3, <2>1
<1>5. \A d \in Clients : \A u \in DOMAIN answer[d] :
        u \in DOMAIN answer'[d] /\ answer'[d][u] = answer[d][u]
  BY <1>2, <1>4, TaskAnswers
<1>6. hand[h].resolve = "getScene" =>
        t \in DOMAIN answer'[c] /\ answer'[c][t] \in Scenes \cup {NoScene}
  BY <1>2, <1>3, TaskAnswers DEF CarryInv, OthersCarryScenes
<1>7. ASSUME NEW d \in Clients, NEW r, SceneAnswered(d, r)
      PROVE  /\ r.resolve = "getScene" =>
                  /\ r.exp \in DOMAIN answer'[d]
                  /\ answer'[d][r.exp] \in Scenes \cup {NoScene}
  BY <1>5, <1>7 DEF SceneAnswered
<1>8. ASSUME NEW id \in DOMAIN replyList'
      PROVE  SceneAnswered(replyList[id].client, replyList[id])'
  <2>1. CASE id \in DOMAIN replyList /\ replyList'[id] = replyList[id]
    <3>1. PICK d \in Clients : d = replyList[id].client
      BY <2>1 DEF TypeOK, Requests
    <3>2. SceneAnswered(d, replyList[id])
      BY <2>1, <3>1 DEF ScenesAnswered
    <3> QED
      BY <1>7, <2>1, <3>1, <3>2 DEF SceneAnswered
  <2>2. CASE replyList'[id] = hand[h]
    BY <1>3, <1>6, <2>2 DEF SceneAnswered
  <2>3. \/ id \in DOMAIN replyList /\ replyList'[id] = replyList[id]
        \/ replyList'[id] = hand[h]
    BY <1>1, <1>8 DEF Execute, AddReply
  <2> QED
    BY <2>1, <2>2, <2>3
<1>9. ASSUME NEW d \in Clients, NEW i \in DOMAIN sent[d]
      PROVE  SceneAnswered(d, sent[d][i])'
  <2>1. SceneAnswered(d, sent[d][i])
    BY DEF ScenesAnswered
  <2> QED
    BY <1>1, <1>7, <2>1 DEF SceneAnswered
<1> QED
  BY <1>1, <1>8, <1>9 DEF ScenesAnswered

LEMMA ResolveScenes ==
  ASSUME TypeOK, ReplyInv, ScenesAnswered, OnResolve, answer' = answer
  PROVE  ScenesAnswered'
<1>1. PICK id : id = Head(events)
  OBVIOUS
<1>2. /\ events # <<>>
      /\ replyList' = [i \in DOMAIN replyList \ {id} |-> replyList[i]]
      /\ sent' = [sent EXCEPT ![replyList[id].client] =
           Append(@, [exp |-> replyList[id].exp, resolve |-> replyList[id].resolve])]
  BY <1>1 DEF OnResolve
<1>3. id \in DOMAIN replyList
  BY <1>1, <1>2 DEF TypeOK, ReplyInv, PostedIsRegistered
<1>4. PICK c \in Clients : c = replyList[id].client
  BY <1>3 DEF TypeOK, Requests
<1> DEFINE R == [exp : Nat, resolve : RpcMethods \cup {NoReply}]
<1>5. PICK x \in R : x = [exp |-> replyList[id].exp, resolve |-> replyList[id].resolve]
  BY <1>3 DEF TypeOK, Requests
<1>6. sent \in [Clients -> Seq(R)] /\ sent' = [sent EXCEPT ![c] = Append(sent[c], x)]
  BY <1>2, <1>4, <1>5 DEF TypeOK
<1>7. SceneAnswered(c, x)
  BY <1>3, <1>4, <1>5 DEF ScenesAnswered, SceneAnswered
<1> HIDE DEF R
<1>8. ASSUME NEW d \in Clients, NEW i \in DOMAIN sent'[d]
      PROVE  SceneAnswered(d, sent'[d][i])
  <2>1. CASE d # c
    <3>1. sent'[d] = sent[d]
      BY <1>6, <2>1
    <3> QED
      BY <1>8, <3>1 DEF ScenesAnswered
  <2>2. CASE d = c
    <3>1. sent'[c] = Append(sent[c], x) /\ sent[c] \in Seq(R)
      BY <1>6
    <3>2. \/ i \in DOMAIN sent[c] /\ sent'[c][i] = sent[c][i]
          \/ sent'[c][i] = x
      BY <1>8, <2>2, <3>1
    <3> QED
      BY <1>7, <2>2, <3>2 DEF ScenesAnswered
  <2> QED
    BY <2>1, <2>2
<1>9. ASSUME NEW i \in DOMAIN replyList'
      PROVE  SceneAnswered(replyList'[i].client, replyList'[i])
  BY <1>2, <1>9 DEF ScenesAnswered
<1>10. /\ \A i \in DOMAIN replyList' : SceneAnswered(replyList[i].client, replyList[i])'
       /\ \A d \in Clients : \A i \in DOMAIN sent'[d] : SceneAnswered(d, sent[d][i])'
  BY <1>8, <1>9 DEF SceneAnswered
<1> QED
  BY <1>10 DEF ScenesAnswered


LEMMA ScenesStay ==
  ASSUME ScenesAnswered, UNCHANGED <<replyList, sent, answer>>
  PROVE  ScenesAnswered'
  BY DEF ScenesAnswered, SceneAnswered

-----------------------------------------------------------------------------
(***************************************************************************)
(* Types.                                                                  *)
(***************************************************************************)
\* What of the types no invariant above states.
Rest ==
  /\ arg \in [Clients -> Seq(Payload)]
  /\ \A c \in Clients : Len(arg[c]) = next[c]
  /\ seen \in [Clients -> Nat]
  /\ \A c \in Clients : seen[c] <= Len(sent[c])
  /\ DOMAIN answer = Clients /\ DOMAIN scene = Clients
  /\ \A c \in Clients : scene[c] \in Scenes \cup {NoScene}
  /\ engine \in [Clients -> Engines]
  /\ alive \in BOOLEAN
  /\ failure \in [client : Clients, kind : {"throw", "null"}] \cup {NoRequest}

LEMMA RestIsRest ==
  ASSUME TypeOK, TicketInv, EnginesInv
  PROVE  RenderTyped <=> Rest
<1>1. \A c \in Clients : Done(c) \in Nat /\ next[c] \in Nat /\ Done(c) <= next[c]
  BY PendingTyped
<1>2. \A c \in Clients : \A t \in DOMAIN answer[c] : t \in 0 .. next[c] - 1
  BY <1>1 DEF EnginesInv, AnswersAreDone
<1>3. \A c \in Clients : \A t \in DOMAIN answer[c] :
        answer[c][t] \in Images \cup Scenes \cup {NoScene}
  BY DEF EnginesInv, AnswersFit, AnswerOf, AnswerFits
<1>4. \A c \in Clients : engine[c].failed = "no"
  BY DEF EnginesInv, EngineFits, EngineOf, OfProject
<1>5. RenderTyped => Rest
  BY DEF RenderTyped, RenderTypeOK, Rest
<1>6. ASSUME Rest
      PROVE  RenderTyped
  <2>1. RenderTypeOK
    BY <1>2, <1>3, <1>4, <1>6 DEF Rest, RenderTypeOK
  <2> QED
    BY <1>6, <2>1 DEF Rest, RenderTyped
<1> QED
  BY <1>5, <1>6

LEMMA TaskRest ==
  ASSUME RenderingAssumption, TypeOK, TicketInv, EnginesInv, CarryInv, Rest,
         NEW h \in Handlers, ExecuteTask(h)
  PROVE  Rest'
<1>1. /\ Execute(h) /\ pc[h] = "run"
      /\ UNCHANGED <<arg, alive, failure, seen, scene, next, sent>>
  BY DEF ExecuteTask, Execute
<1>2. PICK c \in Clients, t \in Nat, a \in Payload : Runs(h, c, t, a)
  BY <1>1, RunningFits
<1>3. DOMAIN answer' = Clients
  BY <1>2, TaskAnswers DEF Rest
<1>4. engine' = [engine EXCEPT ![c] = Outcome(h)] /\ Outcome(h).failed = "no"
  BY <1>2 DEF ExecuteTask, Runs
<1>5. Outcome(h) \in Engines
  BY <1>2, <1>4, OutcomeFits DEF EngineOf, OfProject
<1>6. engine' \in [Clients -> Engines]
  BY <1>4, <1>5 DEF Rest
<1> QED
  BY <1>1, <1>3, <1>6 DEF Rest

LEMMA SendRest ==
  ASSUME RenderTyped, DispatchAssumption, TicketInv, Rest,
         NEW c \in Clients, NEW m \in Methods, NEW a \in Payloads(c, m), Send(c, m, a)
  PROVE  Rest'
<1>1. arg' \in [Clients -> Seq(Payload)] /\ \A d \in Clients : Len(arg'[d]) = next'[d]
  BY SendArgs
<1>2. UNCHANGED <<engine, answer, alive, failure, seen, scene, sent>>
  BY DEF Send, NewRequest
<1> QED
  BY <1>1, <1>2 DEF Rest

LEMMA ReceiveRest ==
  ASSUME TypeOK, ScenesAnswered, Rest, NEW c \in Clients, BrowserReceives(c)
  PROVE  Rest'
<1>1. /\ seen[c] < Len(sent[c]) /\ seen[c] \in Nat
      /\ seen' = [seen EXCEPT ![c] = seen[c] + 1]
      /\ UNCHANGED <<next, sent, engine, arg, answer, alive, failure>>
  BY DEF BrowserReceives, vars, Rest
<1>2. Len(sent[c]) \in Nat /\ DOMAIN sent[c] = 1 .. Len(sent[c])
  BY DEF TypeOK
<1>3. PICK i \in DOMAIN sent[c] : i = seen[c] + 1
  BY <1>1, <1>2
<1>4. scene' = IF sent[c][i].resolve = "getScene"
               THEN [scene EXCEPT ![c] = answer[c][sent[c][i].exp]] ELSE scene
  BY <1>3 DEF BrowserReceives
<1>5. SceneAnswered(c, sent[c][i])
  BY DEF ScenesAnswered
<1>6. DOMAIN scene' = Clients /\ \A d \in Clients : scene'[d] \in Scenes \cup {NoScene}
  BY <1>4, <1>5 DEF Rest, SceneAnswered
<1>7. /\ seen' \in [Clients -> Nat]
      /\ \A d \in Clients : seen'[d] <= Len(sent[d])
  <2>1. seen \in [Clients -> Nat] /\ \A d \in Clients : seen[d] <= Len(sent[d])
    BY DEF Rest
  <2> QED
    BY <1>1, <1>2, <2>1
<1> QED
  BY <1>1, <1>6, <1>7 DEF Rest

LEMMA ResolveRest ==
  ASSUME TypeOK, ReplyInv, Rest, OnResolve, UNCHANGED renderVars
  PROVE  Rest'
<1>1. UNCHANGED <<next, engine, arg, answer, alive, failure, seen, scene>>
  BY DEF OnResolve, renderVars
<1>2. ASSUME NEW c \in Clients
      PROVE  seen[c] <= Len(sent'[c])
  <2> DEFINE R == [exp : Nat, resolve : RpcMethods \cup {NoReply}]
             r == replyList[Head(events)]
             x == [exp |-> r.exp, resolve |-> r.resolve]
  <2>1. Head(events) \in DOMAIN replyList
    BY DEF OnResolve, TypeOK, ReplyInv, PostedIsRegistered
  <2>2. r \in Requests
    BY <2>1 DEF TypeOK
  <2>3. sent \in [Clients -> Seq(R)] /\ x \in R
    BY <2>2 DEF TypeOK, Requests
  <2>4. sent' = [sent EXCEPT ![r.client] = Append(sent[r.client], x)]
    BY DEF OnResolve
  <2> HIDE DEF R, r, x
  <2>5. sent'[c] = sent[c] \/ sent'[c] = Append(sent[c], x)
    BY <2>3, <2>4
  <2>6. Len(sent[c]) \in Nat /\ Len(Append(sent[c], x)) = Len(sent[c]) + 1
    BY <2>3
  <2>7. seen[c] \in Nat /\ seen[c] <= Len(sent[c])
    BY DEF Rest
  <2> QED
    BY <2>5, <2>6, <2>7
<1> QED
  BY <1>1, <1>2 DEF Rest


-----------------------------------------------------------------------------
(***************************************************************************)
(* How the server ends.                                                    *)
(***************************************************************************)
LEMMA CoherentProjects ==
  ASSUME RenderingAssumption, NEW c \in Clients, NEW t \in Nat, next[c] \in Nat, t < next[c],
         Coherent(c)
  PROVE  /\ arg[c][t + 1] \in Projects => Sound(arg[c][t + 1])
         /\ arg[c][t + 1] \in Scenes => DataOf[Opened(c, t)] = arg[c][t + 1].method
         /\ Opened(c, t) \in Projects => Sound(Opened(c, t))
         /\ ~ WasOdd(c, t + 1)
<1>1. t + 1 \in 1 .. next[c] /\ (t + 1) - 1 = t
  OBVIOUS
<1>2. \A u \in 1 .. next[c] :
        /\ arg[c][u] \in Projects => Sound(arg[c][u])
        /\ arg[c][u] \in Scenes => DataOf[Opened(c, u - 1)] = arg[c][u].method
        /\ arg[c][u] \in Scenes => ~ arg[c][u].odd
  BY DEF Coherent
<1>3. ASSUME Opened(c, t) \in Projects
      PROVE  Sound(Opened(c, t))
  <2>1. LastOpened(c, t, Projects) # NoProject
    BY <1>3 DEF Opened, RenderingAssumption
  <2>2. PICK u \in 1 .. t : arg[c][u] = Opened(c, t)
    BY <2>1, OpenedWasSent DEF Opened
  <2>3. u \in 1 .. next[c]
    OBVIOUS
  <2> QED
    BY <1>2, <1>3, <2>2, <2>3
<1>4. arg[c][t + 1] \in Scenes => DataOf[Opened(c, t)] = arg[c][t + 1].method
  <2>1. arg[c][t + 1] \in Scenes => DataOf[Opened(c, (t + 1) - 1)] = arg[c][t + 1].method
    BY <1>1, <1>2
  <2> QED
    BY <1>1, <2>1
<1>5. ~ WasOdd(c, t + 1)
  <2>1. \A u \in 1 .. t + 1 : u \in 1 .. next[c]
    OBVIOUS
  <2>2. \A u \in 1 .. next[c] : ~ Odd(arg[c][u])
    BY <1>2 DEF Odd, Sound, RenderingAssumption
  <2> QED
    BY <2>1, <2>2 DEF WasOdd
<1> QED
  BY <1>1, <1>2, <1>3, <1>4, <1>5

LEMMA OutcomeSafe ==
  ASSUME RenderingAssumption, NEW h \in Handlers, NEW c \in Clients, NEW t \in Nat, NEW a,
         Runs(h, c, t, a), next[c] \in Nat
  PROVE  /\ Outcome(h) \in Engines
         /\ Outcome(h).failed # "null"
         /\ Coherent(c) => Outcome(h).failed = "no"
<1> DEFINE e == engine[c]
           m == hand[h].method
           o == Outcome(h)
           p == Opened(c, t)
           d == LastOpened(c, t, Read)
           v == LastOpened(c, t, Viewed)
<1>1. /\ o = Perform(e, m, a) /\ OfProject(e, p, d, v)
      /\ m # "initGL" => (e.created => SceneOfData(e))
      /\ a = arg[c][t + 1] /\ t < next[c]
      /\ e \in Engines /\ e.failed = "no"
  BY DEF Outcome, Runs, EngineOf, OfProject
<1>2. Coherent(c) =>
        /\ a \in Projects => Sound(a)
        /\ a \in Scenes => DataOf[p] = a.method
        /\ p \in Projects => Sound(p)
  BY <1>1, CoherentProjects
<1>3. ASSUME e.created
      PROVE  /\ p \in Projects /\ Consistent(e) /\ e.data \in Projects
             /\ Coherent(c) => e.mode = DataOf[p] /\ e.view.method = e.mode /\ HasRange(e)
  <2>1. /\ p \in Projects /\ Consistent(e) /\ e.data \in Projects
        /\ p \in Read => e.mode = DataOf[p] /\ e.data = p
        /\ p \in Viewed => e.view = Default(p)
    BY <1>1, <1>3 DEF OfProject, Read
  <2>2. Sound(p) => /\ p \in Read /\ p \in Viewed /\ p \notin Untyped
                    /\ ViewOf[p] = DataOf[p]
    BY <2>1 DEF Sound, Read, Viewed, Kinds
  <2>3. p \in Viewed => e.view.method = ViewOf[p]
    BY <2>1 DEF Default
  <2> QED
    BY <1>2, <2>1, <2>2, <2>3 DEF HasRange
<1>4. CASE m = "loadData"
  <2>1. a \in Projects
    BY <1>4 DEF Runs
  <2>2. o = OpenProject(e, a)
    BY <1>1, <1>4 DEF Perform
  <2>3. /\ e.mode \in Kinds => d \in Read /\ e.data = d /\ e.mode = DataOf[d]
        /\ e.method \in Kinds => v \in Viewed /\ e.view = Default(v)
    BY <1>1 DEF OfProject, Kinds
  <2>4. /\ OpenProject(e, a) \in Engines
        /\ OpenProject(e, a).failed # "null"
        /\ DataOf[a] \in Kinds /\ ViewOf[a] = DataOf[a] => OpenProject(e, a).failed = "no"
    <3>1. e \in Engines /\ e.failed = "no"
      BY <1>1
    <3> HIDE DEF e, d, v
    <3> QED
      BY <2>1, <2>3, <3>1, OpenProjectFits
  <2> QED
    BY <1>2, <2>1, <2>2, <2>4 DEF Sound
<1>5. CASE m = "initGL"
  <2>1. e.created
    BY <1>5 DEF Runs
  <2>2. o = InitGL(e)
    BY <1>1, <1>5 DEF Perform
  <2>3. /\ InitGL(e) \in Engines
        /\ InitGL(e).failed # "null"
        /\ e.view.method = e.mode /\ HasRange(e) => InitGL(e).failed = "no"
    BY <1>1, <1>3, <2>1, InitGLFits
  <2> QED
    BY <1>3, <2>1, <2>2, <2>3
<1>6. CASE m = "requestFrame"
  <2>1. a \in Scenes \cup {NoScene} /\ o = RenderFrame(e, a)
    BY <1>1, <1>6 DEF Perform, Runs
  <2>2. CASE ~ e.created
    <3>1. o = e
      BY <1>1, <2>1, <2>2 DEF OfProject, RenderFrame
    <3> QED
      BY <1>1, <3>1
  <2>3. CASE e.created
    <3> DEFINE w == IF a = NoScene THEN e.view ELSE a
    <3>1. e.ready /\ e.volume = e.mode /\ e.built[e.mode] = e.data
      BY <1>1, <1>6, <2>3 DEF SceneOfData
    <3>2. /\ RenderFrame(e, a) \in Engines
          /\ RenderFrame(e, a).failed # "null"
          /\ w.method = e.mode => RenderFrame(e, a).failed = "no"
      <4>1. /\ e \in Engines /\ e.failed = "no" /\ a \in Scenes \cup {NoScene}
            /\ Consistent(e) /\ e.data \in Projects
        BY <1>1, <1>3, <2>1, <2>3
      <4> HIDE DEF e
      <4> QED
        BY <3>1, <4>1, RenderFrameFits
    <3>3. Coherent(c) => w.method = e.mode
      BY <1>2, <1>3, <2>1, <2>3
    <3> QED
      BY <2>1, <3>2, <3>3
  <2> QED
    BY <2>2, <2>3
<1>7. CASE m = "getScene"
  <2>1. o = e
    BY <1>1, <1>7, GetSceneKeeps DEF Perform
  <2> QED
    BY <1>1, <2>1
<1>8. CASE m \notin {"loadData", "initGL", "requestFrame", "getScene"}
  <2>1. o = e
    BY <1>1, <1>8 DEF Perform
  <2> QED
    BY <1>1, <2>1
<1> QED
  BY <1>4, <1>5, <1>6, <1>7, <1>8

LEMMA TerminateEnds ==
  ASSUME RenderingAssumption, TypeOK, TicketInv, EnginesInv, CarryInv, Rest,
         NEW h \in Handlers, Terminate(h)
  PROVE  Rest' /\ EndInv'
<1>1. /\ pc[h] = "run"
      /\ alive' = FALSE
      /\ UNCHANGED <<vars, engine, arg, answer, seen, scene>>
  BY DEF Terminate
<1>2. PICK c \in Clients, t \in Nat, a \in Payload : Runs(h, c, t, a)
  BY <1>1, RunningFits
<1>3. hand[h].client = c /\ next[c] \in Nat /\ t < next[c]
  BY <1>2, PendingTyped DEF Runs
<1>4. failure' = [client |-> c, kind |-> "throw"] /\ ~ Coherent(c)
  <2>1. CASE Outcome(h).failed # "no"
    <3>1. /\ Outcome(h) \in Engines
          /\ Outcome(h).failed # "null"
          /\ ~ Coherent(c)
      BY <1>2, <1>3, <2>1, OutcomeSafe
    <3>2. failure' = [client |-> hand[h].client, kind |-> Outcome(h).failed]
      BY <2>1 DEF Terminate
    <3> QED
      BY <1>3, <2>1, <3>1, <3>2, EngineFields
  <2>2. CASE Outcome(h).failed = "no"
    <3>1. /\ Outcome(h).odd
          /\ failure' = [client |-> hand[h].client, kind |-> "throw"]
      BY <2>2 DEF Terminate, CopyMayFail
    <3>2. WasOdd(c, t + 1)
      BY <1>2, <2>2, <3>1, OutcomeFits
    <3> QED
      BY <1>3, <3>1, <3>2, CoherentProjects
  <2> QED
    BY <2>1, <2>2
<1>5. UNCHANGED <<next, sent>>
  BY <1>1 DEF vars
<1>6. Rest'
  <2>1. failure' \in [client : Clients, kind : {"throw", "null"}]
    BY <1>4
  <2>2. alive' \in BOOLEAN
    BY <1>1
  <2> QED
    BY <1>1, <1>5, <2>1, <2>2 DEF Rest
<1>7. Coherent(c)' <=> Coherent(c)
  BY <1>1, <1>5 DEF Coherent, Opened, LastOpened
<1>8. failure'.kind # "null" /\ failure'.client = c
  BY <1>4
<1>9. ~ Coherent(failure.client)'
  BY <1>4, <1>7, <1>8
<1> QED
  BY <1>6, <1>8, <1>9 DEF EndInv


-----------------------------------------------------------------------------
(***************************************************************************)
(* The theorems.                                                           *)
(***************************************************************************)
LEMMA RenderNextIsDispatchStep == [RenderNext]_allVars => DispatchStep
<1>1. \A c \in Clients, m \in Methods : \A a : Send(c, m, a) => NewRequest(c, m)
  BY DEF Send
<1>2. ASSUME NEW h \in Handlers, Handler(h)
      PROVE  DispatchStep
  BY <1>2 DEF Handler, ExecuteTask, Terminate, Dequeue, TakesReady, DispatchStep, ServerStep
<1>3. \A c : BrowserReceives(c) => UNCHANGED vars
  BY DEF BrowserReceives
<1>4. UNCHANGED allVars => UNCHANGED vars
  BY DEF allVars
<1> QED
  BY <1>1, <1>2, <1>3, <1>4 DEF RenderNext, DispatchStep, ServerStep

LEMMA InitRender == RenderInit => RenderInv
<1> SUFFICES ASSUME RenderInit PROVE RenderInv
  OBVIOUS
<1>0. Init /\ TypeOK /\ ReplyInv /\ TicketInv
  BY InitTyped, InitTickets DEF RenderInit
<1>1. Pending = {}
  BY <1>0 DEF Init, Pending
<1>2. \A c \in Clients : Done(c) = 0 /\ DOMAIN answer[c] = {} /\ DOMAIN sent[c] = {}
  BY <1>0 DEF Init, Done, Executed, RenderInit
<1>3. NewEngine \in Engines
  BY DEF NewEngine, Engines, Kinds, OrNone, Views
<1>4. CarryInv
  BY <1>1 DEF CarryInv, LoadComesFirst, InitComesNext, OthersCarryScenes
<1>5. \A c \in Clients : EngineFits(c)
  BY <1>2, <1>3, OpenedAtFirst DEF EngineFits, EngineOf, OfProject, Opened, RenderInit, NewEngine
<1>6. EnginesInv
  BY <1>1, <1>2, <1>5 DEF EnginesInv, InitFindsEngine, AnswersAreDone, AnswersFit
<1>7. ScenesAnswered
  BY <1>0, <1>2 DEF Init, ScenesAnswered
<1>8. Rest
  <2>1. \A c \in Clients : Len(sent[c]) = 0 /\ next[c] = 0
    BY <1>0 DEF Init
  <2>2. arg \in [Clients -> Seq(Payload)] /\ \A c \in Clients : Len(arg[c]) = 0
    BY DEF RenderInit
  <2> QED
    BY <1>3, <2>1, <2>2 DEF RenderInit, Rest
<1>9. EndInv
  <2>1. alive = TRUE
    BY DEF RenderInit
  <2> QED
    BY <2>1, Zenon DEF EndInv
<1> QED
  BY <1>0, <1>4, <1>6, <1>7, <1>8, <1>9, RestIsRest DEF RenderInv

LEMMA StepRender ==
  ASSUME RenderingAssumption, DispatchAssumption, RenderInv, [RenderNext]_allVars
  PROVE  RenderInv'
<1>0. /\ TypeOK /\ ReplyInv /\ TicketInv /\ RenderTyped /\ CarryInv /\ EnginesInv
      /\ ScenesAnswered /\ Rest
      /\ DOMAIN answer = Clients /\ engine \in [Clients -> Engines]
  <2>1. TypeOK /\ ReplyInv /\ TicketInv /\ RenderTyped /\ CarryInv /\ EnginesInv /\ ScenesAnswered
    BY DEF RenderInv, RenderTyped, RenderTypeOK
  <2>2. Rest
    BY <2>1, RestIsRest
  <2> QED
    BY <2>1, <2>2 DEF Rest
<1>1. TypeOK' /\ ReplyInv' /\ TicketInv'
  BY <1>0, RenderNextIsDispatchStep, StepTyped, StepTickets
<1> DEFINE Kept == CarryInv' /\ EnginesInv' /\ ScenesAnswered' /\ Rest'
<1>2. ASSUME UNCHANGED allVars
      PROVE  Kept /\ EndInv'
  <2>1. QuietStep /\ UNCHANGED <<engine, arg, answer, replyList, sent>>
    BY <1>2 DEF allVars, renderVars, vars, QuietStep
  <2>2. Rest'
    BY <1>0, <1>2 DEF Rest, allVars, renderVars, vars
  <2>3. EndInv'
    <3>1. UNCHANGED <<next, arg, alive, failure>>
      BY <1>2 DEF allVars, renderVars, vars
    <3>2. PICK c : c = failure.client
      OBVIOUS
    <3>3. Coherent(c)' <=> Coherent(c)
      BY <3>1 DEF Coherent, Opened, LastOpened
    <3>4. alive \/ (failure.kind # "null" /\ ~ Coherent(c))
      BY <3>2, Zenon DEF RenderInv, EndInv
    <3>5. failure'.kind = failure.kind /\ failure'.client = c
      BY <3>1, <3>2
    <3>6. (failure.kind # "null" /\ ~ Coherent(c)) => (failure.kind # "null" /\ ~ Coherent(failure.client))'
      BY <3>3, <3>5
    <3> QED
      BY <3>1, <3>4, <3>6, Zenon DEF EndInv
  <2>4. Kept
    BY <1>0, <2>1, <2>2, QuietEngines, ScenesStay
  <2> QED
    BY <2>3, <2>4
<1>3. ASSUME NEW c \in Clients, NEW m \in Methods, NEW a \in Payloads(c, m), Send(c, m, a)
      PROVE  Kept /\ alive' = alive
  <2>1. UNCHANGED <<replyList, sent, answer, alive>>
    BY <1>3 DEF Send, NewRequest
  <2> QED
    BY <1>0, <1>3, <2>1, SendEngines, ScenesStay, SendRest
<1>4. ASSUME NEW h \in Handlers, ExecuteTask(h)
      PROVE  Kept /\ alive' = alive
  BY <1>0, <1>4, TaskEngines, TaskScenes, TaskRest DEF ExecuteTask
<1>5. ASSUME NEW h \in Handlers, Terminate(h)
      PROVE  Kept /\ EndInv'
  <2>1. UNCHANGED vars /\ UNCHANGED <<engine, arg, answer>>
    BY <1>5 DEF Terminate
  <2>2. QuietStep /\ UNCHANGED <<replyList, sent>>
    BY <2>1 DEF QuietStep, vars
  <2> QED
    BY <1>0, <1>5, <2>1, <2>2, QuietEngines, ScenesStay, TerminateEnds
<1>6. ASSUME NEW h \in Handlers,
             Dequeue(h) \/ Post(h) \/ IncrementCurrCounter(h) \/ UnknownMethod(h),
             UNCHANGED renderVars
      PROVE  Kept /\ alive' = alive
  <2>1. QuietStep
    BY <1>6 DEF QuietStep, Dequeue, TakesReady
  <2>2. UNCHANGED <<replyList, sent>>
    BY <1>6 DEF Dequeue, Post, IncrementCurrCounter, UnknownMethod
  <2>3. next' = next
    BY <1>6 DEF Dequeue, Post, IncrementCurrCounter, UnknownMethod
  <2>4. UNCHANGED <<engine, arg, answer, alive, failure, seen, scene>>
    BY <1>6 DEF renderVars
  <2>5. Rest'
    BY <1>0, <2>2, <2>3, <2>4 DEF Rest
  <2> QED
    BY <1>0, <2>1, <2>2, <2>4, <2>5, QuietEngines, ScenesStay
<1>7. ASSUME OnResolve, UNCHANGED renderVars
      PROVE  Kept /\ alive' = alive
  <2>1. QuietStep /\ UNCHANGED <<engine, arg, answer, alive>>
    BY <1>7 DEF QuietStep, renderVars
  <2> QED
    BY <1>0, <1>7, <2>1, QuietEngines, ResolveScenes, ResolveRest
<1>8. ASSUME NEW c \in Clients, BrowserReceives(c)
      PROVE  Kept /\ alive' = alive
  <2>1. UNCHANGED vars /\ UNCHANGED <<engine, arg, answer, alive>>
    BY <1>8 DEF BrowserReceives
  <2>2. QuietStep /\ UNCHANGED <<replyList, sent>>
    BY <2>1 DEF QuietStep, vars
  <2> QED
    BY <1>0, <1>8, <2>1, <2>2, QuietEngines, ScenesStay, ReceiveRest
<1>9. Kept /\ EndInv'
  <2>1. RenderNext /\ alive' = alive => EndInv'
    <3>1. RenderNext => alive
      BY DEF RenderNext
    <3>2. ASSUME alive, alive' = alive
          PROVE  alive'
      <4>1. alive' <=> alive
        BY <3>2, Zenon
      <4> QED
        BY <3>2, <4>1, Zenon
    <3>3. alive' => EndInv'
      BY DEF EndInv
    <3> QED
      BY <3>1, <3>2, <3>3, Zenon
  <2> HIDE DEF Kept
  <2>2. ASSUME NEW h \in Handlers, Handler(h)
        PROVE  Kept /\ (alive' = alive \/ EndInv')
    BY <1>4, <1>5, <1>6, <2>2 DEF Handler
  <2>3. RenderNext => Kept /\ (alive' = alive \/ EndInv')
    BY <1>3, <1>7, <1>8, <2>2 DEF RenderNext
  <2> QED
    BY <1>2, <2>1, <2>3
<1>10. RenderTyped'
  <2>1. TypeOK /\ TicketInv /\ EnginesInv => (RenderTyped <=> Rest)
    BY RestIsRest
  <2>2. (TypeOK /\ TicketInv /\ EnginesInv => (RenderTyped <=> Rest))'
    BY RestIsRest, PTL
  <2> QED
    BY <1>1, <1>9, <2>2
<1> QED
  BY <1>1, <1>9, <1>10 DEF RenderInv

LEMMA RenderInvariant == RenderSpec => []RenderInv
<1>1. RenderInv /\ [RenderNext]_allVars => RenderInv'
  BY StepRender, RenderingAssumption, DispatchAssumption
<1> QED
  BY <1>1, InitRender, PTL DEF RenderSpec

\* Every variable of the engines and the browsers keeps its type; no call that
\* ended well leaves a failed engine.
THEOREM RenderTypeCorrect == RenderSpec => []RenderTypeOK
<1>1. RenderInv => RenderTypeOK
  BY DEF RenderInv, RenderTyped
<1> QED
  BY <1>1, RenderInvariant, PTL

\* The promises of dispatching hold although a request may end the process.
THEOREM RenderKeepsTickets == RenderSpec => []TicketInv
<1>1. RenderInv => TicketInv
  BY DEF RenderInv
<1> QED
  BY <1>1, RenderInvariant, PTL

\* What a frozen client has waiting stays in the queues, also beside tasks that
\* may end the process.
THEOREM RenderPilesUp == RenderSpec => FrozenRequestsStay
<1>1. RenderInv => TypeOK
  BY DEF RenderInv, RenderTyped, RenderTypeOK
<1>2. TypeOK /\ TypeOK' /\ [RenderNext]_allVars =>
        \A c \in Clients, h \in Handlers :
          Frozen(c) => Cardinality(Waiting(c, h)) <= Cardinality(Waiting(c, h)')
  BY RenderNextIsDispatchStep, StepPilesUp
<1> QED
  BY <1>1, <1>2, RenderInvariant, PTL DEF RenderSpec, FrozenRequestsStay

\* No handler uses a scene, a volume or an engine that does not exist yet,
\* whatever the clients send and in whatever order they open projects.
THEOREM NothingUsedTooEarly == RenderSpec => []NoNullDereference
<1>1. RenderInv => NoNullDereference
  BY DEF RenderInv, EndInv, NoNullDereference
<1> QED
  BY <1>1, RenderInvariant, PTL

\* A frame shows the data of the project opened last before it was asked for or,
\* if those of it are not read, of the last one before it that was.
THEOREM FramesShowProjects == RenderSpec => []FrameShowsProject
<1>1. RenderInv => FrameShowsProject
  BY DEF RenderInv, EnginesInv, AnswersFit, AnswerOf, AnswerFits, FrameShowsProject
<1> QED
  BY <1>1, RenderInvariant, PTL

\* A frame asked for without a scene shows the view of that project or, if its
\* file has none, of the last one before it that has.
THEOREM FramesShowDefaultViews == RenderSpec => []FrameShowsDefaultView
<1>1. RenderInv => FrameShowsDefaultView
  BY DEF RenderInv, EnginesInv, AnswersFit, AnswerOf, AnswerFits, FrameShowsDefaultView
<1> QED
  BY <1>1, RenderInvariant, PTL

\* getScene answers with the scene of the project opened last before it that was
\* read, and with nothing only if there is none.
THEOREM ScenesAreOfProjects == RenderSpec => []SceneIsOfProject
<1>1. RenderInv => SceneIsOfProject
  BY DEF RenderInv, EnginesInv, AnswersFit, AnswerOf, AnswerFits, SceneIsOfProject
<1> QED
  BY <1>1, RenderInvariant, PTL

\* The server ends only for a client that opened a project whose data or view
\* cannot be used, sent a scene of another kind of data, or asked for a height
\* of 0, a negative one or one of which no image can be allocated.
THEOREM CoherentClientsAreSafe == RenderSpec => []OnlyIncoherentEnds
<1>1. RenderInv => OnlyIncoherentEnds
  BY DEF RenderInv, EndInv, OnlyIncoherentEnds
<1> QED
  BY <1>1, RenderInvariant, PTL
=============================================================================
