----------------------------- MODULE Rendering -----------------------------
(***************************************************************************)
(* What the handler threads do with a client's engine.                     *)
(*                                                                         *)
(* Every client of the server owns an Engine: the data of the project that *)
(* was opened, the view of its project file, and the scene and renderer    *)
(* built for one of two kinds of data, regular grids and tetrahedral       *)
(* meshes.  Neither Client nor Engine has a lock; the CPU thread loads and *)
(* serializes, the GPU thread initialises and renders, and only the order  *)
(* of dispatching keeps them apart.  An exception is caught nowhere in the *)
(* threads and ends the process.                                           *)
(*                                                                         *)
(* The payload of a request is kept beside Dispatch: arg[c][t + 1] belongs *)
(* to ticket t of client c.  Data is resident on the GPU only within one   *)
(* task of the GPU thread, which is one step here, so it is no state.      *)
(***************************************************************************)
EXTENDS Dispatch

CONSTANTS
  Projects,    \* project files
  DataOf,      \* what the dataSource of a project file holds
  ViewOf,      \* the method of its view, "none" without a view
  Untyped,     \* those with a grid of values of a type initScene does not know
  OddHeight,   \* those whose view asks for an odd frame height
  NoProject,   \* no project, or a null pointer in its place
  NoScene      \* the empty JSON value

Kinds == {"grid", "tets"}

OrNone(S) == S \cup {NoProject}

\* A view: its method and the project file or files its parameters come from.
\* It is odd if it asks for a frame height of 0, a negative one, or one of
\* which no image can be allocated.
Views == [method : Kinds \cup {"none"}, of : OrNone(Projects), odd : BOOLEAN]

\* What getScene returns, and what a browser sends back with a frame request.
Scenes == [method : Kinds, of : OrNone(Projects), data : OrNone(Projects),
           odd : BOOLEAN]

NoImage == [image |-> FALSE, data |-> NoProject, of |-> NoProject]
Images == [image : BOOLEAN, data : OrNone(Projects), of : OrNone(Projects)]

\* "todo": one of the formats loadData accepts and does nothing for; "bad":
\* no data source, an unknown format, or a file the loaders reject.  The empty
\* value is no project file, no scene and no image.
ASSUME RenderingAssumption ==
  /\ DataOf \in [Projects -> Kinds \cup {"todo", "bad"}]
  /\ ViewOf \in [Projects -> Kinds \cup {"none"}]
  /\ Untyped \subseteq {p \in Projects : DataOf[p] = "grid"}
  /\ OddHeight \subseteq {p \in Projects : ViewOf[p] # "none"}
  /\ NoProject \notin Projects
  /\ NoScene \notin Projects \cup Scenes \cup Images
  /\ Projects \cap Scenes = {}

VARIABLES
  engine,    \* Client and its Engine
  arg,       \* payload of each ticket handed to a client
  answer,    \* what the reply of each answered ticket holds
  alive,     \* the process runs
  failure,   \* what ended it
  seen,      \* number of replies each client's browser has received
  scene      \* the scene the browser holds

renderVars == <<engine, arg, answer, alive, failure, seen, scene>>
allVars == <<vars, renderVars>>

Engines ==
  [created : BOOLEAN, ready : BOOLEAN,
   mode    : Kinds \cup {"none"},        \* _mode
   data    : OrNone(Projects),           \* _data
   view    : Views,                      \* _jsonView
   method  : Kinds \cup {"none"},        \* _jsonMethod
   volume  : Kinds \cup {"none"},        \* the type of _volume
   built   : [Kinds -> OrNone(Projects)],\* _sceneGrid, _sceneTets
   shown   : OrNone(Projects),           \* the view the scene is set to
   odd     : BOOLEAN,                    \* _size: some view that was used is odd
   failed  : {"no", "throw", "null"}]    \* how the last call ended

NewEngine ==
  [created |-> FALSE, ready |-> FALSE, mode |-> "none", data |-> NoProject,
   view |-> [method |-> "none", of |-> NoProject, odd |-> FALSE],
   method |-> "none", volume |-> "none", built |-> [k \in Kinds |-> NoProject],
   shown |-> NoProject, odd |-> FALSE, failed |-> "no"]

RenderTypeOK ==
  /\ TypeOK
  /\ engine \in [Clients -> Engines]
  /\ alive \in BOOLEAN
  /\ failure \in [client : Clients, kind : {"throw", "null"}] \cup {NoRequest}
  /\ \A c \in Clients :
       /\ Len(arg[c]) = next[c]
       /\ engine[c].failed = "no"
       /\ DOMAIN answer[c] \subseteq 0 .. next[c] - 1
       /\ \A t \in DOMAIN answer[c] :
            answer[c][t] \in Images \cup Scenes \cup {NoScene}
       /\ seen[c] <= Len(sent[c])
       /\ scene[c] \in Scenes \cup {NoScene}

RenderInit ==
  /\ Init
  /\ engine = [c \in Clients |-> NewEngine]
  /\ arg = [c \in Clients |-> <<>>]
  /\ answer = [c \in Clients |-> <<>>]
  /\ alive = TRUE
  /\ failure = NoRequest
  /\ seen = [c \in Clients |-> 0]
  /\ scene = [c \in Clients |-> NoScene]

-----------------------------------------------------------------------------
(***************************************************************************)
(* Engine and Client.  Each operator gives the engine after the call.      *)
(***************************************************************************)
Fail(e, how) == [e EXCEPT !.failed = how]

\* The check "inconsistent view and data" of loadData and updateView.
Consistent(e) == e.mode \in Kinds /\ e.method = e.mode

\* The view of a project file that has one.
Default(p) == [method |-> ViewOf[p], of |-> p, odd |-> p \in OddHeight]

\* Mutant: the view of the first project file is kept.
LoadJSONFileOnce(e, p) ==
  IF ViewOf[p] = "none" \/ (e.view.of # NoProject /\ DataOf[p] # "tets") THEN e
  ELSE [e EXCEPT !.view = Default(p), !.method = ViewOf[p]]

\* Mutant: the method of the view is taken over only once.
LoadJSONFileStaleMethod(e, p) ==
  IF ViewOf[p] = "none" THEN e
  ELSE [e EXCEPT !.view = Default(p), !.method = IF @ = "none" THEN ViewOf[p] ELSE @]

\* A project file without a view leaves the view of the previous one.
LoadJSONFile(e, p) ==
  IF ViewOf[p] = "none" THEN e
  ELSE [e EXCEPT !.view = Default(p), !.method = ViewOf[p]]

LoadData(e, p) ==
  IF DataOf[p] \in Kinds THEN [e EXCEPT !.mode = DataOf[p], !.data = p] ELSE e

OpenProject(e, p) ==
  LET opened == LoadData(LoadJSONFile([e EXCEPT !.created = TRUE], p), p) IN
  IF DataOf[p] # "bad" /\ Consistent(opened) THEN opened
                                             ELSE Fail(opened, "throw")

\* The volume, scene and renderer of _mode exist and fit it.
HasScene(e) == e.volume = e.mode /\ e.built[e.mode] # NoProject

UpdateView(e, view) ==
  LET given == [e EXCEPT !.method = IF view.method = "none" THEN @
                                                            ELSE view.method]
  IN  IF ~ Consistent(given) THEN Fail(given, "throw")
      ELSE IF ~ HasScene(given) THEN Fail(given, "null")
      ELSE [given EXCEPT !.shown = view.of, !.odd = @ \/ view.odd]

\* Mutant: a scene of this kind is built only once, like the framebuffer.
InitSceneOnce(e) ==
  IF e.built[e.mode] # NoProject THEN [e EXCEPT !.volume = e.mode]
  ELSE [e EXCEPT !.volume = e.mode, !.built[e.mode] = e.data]

InitScene(e) ==
  [e EXCEPT !.volume = e.mode, !.built[e.mode] = e.data, !.shown = NoProject]

\* The range of the values is read by their type.
HasRange(e) == e.mode = "grid" => e.data \notin Untyped

InitGL(e) ==
  IF ~ e.created THEN Fail(e, "null")
  ELSE IF e.mode = "none" \/ ~ HasRange(e) THEN Fail(e, "throw")
  ELSE [UpdateView(InitScene(e), e.view) EXCEPT !.ready = TRUE]

\* An empty scene asks for the view of the project file.
RenderFrame(e, s) ==
  IF ~ e.ready THEN e ELSE UpdateView(e, IF s = NoScene THEN e.view ELSE s)

\* copyRenderedImage throws if it cannot allocate the image.  After an odd
\* height that depends on the sizes before (Viewport has them), so it may
\* throw and it may not.
CopyMayFail(e) == e.ready /\ e.odd

FrameOf(e) ==
  IF ~ e.ready THEN NoImage
  ELSE [image |-> TRUE, data |-> e.built[e.mode], of |-> e.shown]

GetScene(e) ==
  IF ~ e.created THEN e
  ELSE IF e.mode = "none" THEN Fail(e, "throw")
  ELSE IF ~ HasScene(e) THEN Fail(e, "null")
  ELSE e

\* Mutant: no test for an engine that was not created.
SceneOfAnyEngine(e) ==
  [method |-> e.method, of |-> e.shown, data |-> e.data, odd |-> FALSE]

\* Mutant: the branch for tetrahedral meshes is missing.
SceneOfGrid(e) ==
  IF ~ e.created THEN NoScene
  ELSE [method |-> e.method, of |-> e.shown, data |-> e.built["grid"],
        odd |-> FALSE]

\* A scene has a camera, and its camera no frame height.
SceneOf(e) ==
  IF ~ e.created THEN NoScene
  ELSE [method |-> e.method, of |-> e.shown, data |-> e.built[e.mode],
        odd |-> FALSE]

\* The handler of a task, on the engine of its client.
Perform(e, task, a) ==
  CASE task = "loadData"     -> OpenProject(e, a)
    [] task = "initGL"       -> InitGL(e)
    [] task = "requestFrame" -> RenderFrame(e, a)
    [] task = "getScene"     -> GetScene(e)
    [] OTHER                 -> e

-----------------------------------------------------------------------------
(***************************************************************************)
(* The threads.                                                            *)
(***************************************************************************)
Outcome(h) ==
  LET r == hand[h] IN Perform(engine[r.client], r.method, arg[r.client][r.exp + 1])

Record(c, t, reply) ==
  answer' = [answer EXCEPT ![c] = [u \in DOMAIN @ \cup {t} |->
                                     IF u = t THEN reply ELSE @[u]]]

ExecuteTask(h) ==
  /\ Execute(h)
  /\ LET c == hand[h].client
         e == Outcome(h)
     IN  /\ e.failed = "no"
         /\ engine' = [engine EXCEPT ![c] = e]
         /\ \/ hand[h].method = "getScene" /\ Record(c, hand[h].exp, SceneOf(e))
            \/ hand[h].method = "requestFrame" /\ Record(c, hand[h].exp, FrameOf(e))
            \/ hand[h].method \notin {"getScene", "requestFrame"} /\ UNCHANGED answer
  /\ UNCHANGED <<arg, alive, failure, seen, scene>>

\* An uncaught exception, or a null pointer, ends the process.
Terminate(h) ==
  /\ pc[h] = "run"
  /\ LET e == Outcome(h)
         ends(how) == failure' = [client |-> hand[h].client, kind |-> how]
     IN  \/ e.failed # "no" /\ ends(e.failed)
         \/ /\ e.failed = "no" /\ hand[h].method = "requestFrame"
            /\ CopyMayFail(e)
            /\ ends("throw")
  /\ alive' = FALSE
  /\ UNCHANGED <<vars, engine, arg, answer, seen, scene>>

Handler(h) ==
  \/ ExecuteTask(h)
  \/ Terminate(h)
  \/ /\ Dequeue(h) \/ Post(h) \/ IncrementCurrCounter(h) \/ UnknownMethod(h)
     /\ UNCHANGED renderVars

-----------------------------------------------------------------------------
(***************************************************************************)
(* The browsers.  A request may carry a project or the scene received last *)
(* (which the browser may have drawn on since, and given a frame height).  *)
(***************************************************************************)
Send(c, m, a) ==
  /\ NewRequest(c, m)
  /\ arg' = [arg EXCEPT ![c] =
       [i \in 1 .. next'[c] |-> IF i <= next[c] THEN @[i] ELSE a]]
  /\ UNCHANGED <<engine, answer, alive, failure, seen, scene>>

WithHeights(s) ==
  IF s = NoScene THEN {} ELSE {[s EXCEPT !.odd = odd] : odd \in BOOLEAN}

Payloads(c, m) ==
  CASE m = "openProject"  -> Projects
    [] m = "requestFrame" -> {NoScene} \cup WithHeights(scene[c])
    [] OTHER              -> {NoScene}

BrowserReceives(c) ==
  /\ seen[c] < Len(sent[c])
  /\ seen' = [seen EXCEPT ![c] = @ + 1]
  /\ LET r == sent[c][seen[c] + 1] IN
       scene' = IF r.resolve = "getScene"
                THEN [scene EXCEPT ![c] = answer[c][r.exp]] ELSE scene
  /\ UNCHANGED <<vars, engine, arg, answer, alive, failure>>

RenderNext ==
  /\ alive
  /\ \/ \E c \in Clients, m \in Methods : \E a \in Payloads(c, m) : Send(c, m, a)
     \/ \E h \in Handlers : Handler(h)
     \/ OnResolve /\ UNCHANGED renderVars
     \/ \E c \in Clients : BrowserReceives(c)

RenderSpec == RenderInit /\ [][RenderNext]_allVars

-----------------------------------------------------------------------------
(***************************************************************************)
(* Properties.                                                             *)
(***************************************************************************)
\* The last project client c opened before ticket t, among those in S.
LastOpened(c, t, S) ==
  LET opens == {u \in 1 .. t : arg[c][u] \in S}
  IN  IF opens = {} THEN NoProject ELSE arg[c][Max(opens)]

Opened(c, t) == LastOpened(c, t, Projects)

\* The project files whose data is read, and those that have a view.
Read == {p \in Projects : DataOf[p] \in Kinds}
Viewed == {p \in Projects : ViewOf[p] # "none"}

\* The scene of _mode is never used before it exists, although _mode and
\* _data change in the CPU thread, the scene in the GPU thread, and _ready
\* stays set while the next project is opened.
NoNullDereference == alive \/ failure.kind # "null"

\* A frame shows the data of the project that was opened last before it was
\* asked for; if that is of a format that is accepted and not read, those of
\* the last project before it that was read.
FrameShowsProject ==
  \A c \in Clients : \A t \in DOMAIN answer[c] :
    answer[c][t] \in Images /\ Opened(c, t) \in Projects =>
      answer[c][t].image /\ answer[c][t].data = LastOpened(c, t, Read)

\* A frame asked for with an empty scene shows the view of that project; if its
\* file has no view, that of the last project before it that has one.
FrameShowsDefaultView ==
  \A c \in Clients : \A t \in DOMAIN answer[c] :
    /\ answer[c][t] \in Images
    /\ arg[c][t + 1] = NoScene
    /\ Opened(c, t) \in Projects
    => answer[c][t].of = LastOpened(c, t, Viewed)

\* getScene answers with the scene of the project opened last before it that
\* was read, and with an empty value only if there is none.
SceneIsOfProject ==
  \A c \in Clients : \A t \in DOMAIN answer[c] :
    LET p == LastOpened(c, t, Read) IN
    /\ answer[c][t] = NoScene => p = NoProject
    /\ answer[c][t] \in Scenes => answer[c][t].data = p /\ answer[c][t].method = DataOf[p]

\* A project whose data is read and has a known type, and whose view fits it
\* and is not odd.
Sound(p) ==
  DataOf[p] \in Kinds /\ ViewOf[p] = DataOf[p] /\ p \notin Untyped \cup OddHeight

\* A client is coherent as long as it opened sound projects, and sent scenes of
\* the kind of the project it had opened that are not odd.
Coherent(c) ==
  \A t \in 1 .. next[c] :
    /\ arg[c][t] \in Projects => Sound(arg[c][t])
    /\ arg[c][t] \in Scenes => DataOf[Opened(c, t - 1)] = arg[c][t].method /\ ~ arg[c][t].odd

\* No coherent client ends the server.  (The others do, for everyone: a
\* browser that asks for a frame with the scene it still holds, after it has
\* chosen a project of the other kind, is enough, and so is one that asks for
\* a height of 0 and then for an image again.)
OnlyIncoherentEnds == alive \/ ~ Coherent(failure.client)
=============================================================================
