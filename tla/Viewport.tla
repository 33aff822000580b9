------------------------------ MODULE Viewport ------------------------------
(***************************************************************************)
(* Image sizes, cameras and transfer functions of an engine.               *)
(*                                                                         *)
(* A view, the one of a project file or one a browser sends with a frame   *)
(* request, may lack a camera, a transfer function or a frame height; what *)
(* it lacks stays as it is.  The engine lives as long as its client, and   *)
(* the width of an image is computed from the height asked for and the     *)
(* shape of the image before.                                              *)
(*                                                                         *)
(* Tasks of one client never overlap (OneHandlerPerClient of Dispatch), so *)
(* a task is one step, and so are loadData and initGL of one openProject,  *)
(* between which no other task of the client runs.  A view fits the data   *)
(* of its project here; Rendering has those that do not.                   *)
(***************************************************************************)
EXTENDS Integers, Sequences, SequencesExt

CONSTANTS
  Views, HasCamera, HasTransfer,  \* views, and those with either part
  HeightOf,      \* the frameHeight in the camera of a view, or NoHeight
  Projects, ViewOf, KindOf,       \* project files, their views and their data
  MaxInt,        \* the largest int
  MaxHeight,     \* height of the largest square image that can be copied
  MaxTasks,      \* bound of the model on the tasks of the client
  NoHeight,
  NoView,        \* no view in a project file; the empty value of a browser
  NoFrame

Kinds == {"grid", "tets"}

Server == 600      \* width and height handle_loadData gives to openProject
Window == 800      \* winW and winH, which the experiment gives

MinInt == - MaxInt - 1

\* MaxHeight is at most 23170: the bytes of an image are indexed by an int.
ASSUME ViewportAssumption ==
  /\ NoHeight \notin Int
  /\ NoView \notin Views
  /\ HasCamera \subseteq Views /\ HasTransfer \subseteq Views
  /\ HeightOf \in [Views -> (MinInt .. MaxInt) \cup {NoHeight}]
  /\ \A v \in Views : HeightOf[v] # NoHeight => v \in HasCamera
  /\ ViewOf \in [Projects -> Views \cup {NoView}]
  /\ KindOf \in [Projects -> Kinds]
  /\ MaxInt \in Nat /\ MaxHeight \in Window .. MaxInt
  /\ MaxTasks \in Nat

VARIABLES
  engine,    \* the client's engine
  frame,     \* the image in the last reply to requestFrame
  picture,   \* the image the experiment saved
  ended,     \* what ended the process, "no" while it runs
  tasks,     \* number of tasks so far
  heights,   \* history: the frame heights of the views used so far
  used       \* history: the views used since the scene was made

viewportVars == <<engine, frame, picture, ended, tasks, heights, used>>

Square(n) == [w |-> n, h |-> n]
Sizes == [w : Int, h : Int]

\* How the parts of the scene were set: by a view, or by initScene.
Origin == Views \cup {NoView}

Engines ==
  [created : BOOLEAN, ready : BOOLEAN,
   kind     : Kinds,               \* _mode
   default  : Origin,              \* _jsonView
   size     : Sizes,               \* _size
   renderer : [Kinds -> Sizes],    \* the sizes of _rendererGrid, _rendererTets
   camera   : Origin,              \* _camera
   transfer : Origin]              \* _ctf, _otf

NewEngine ==
  [created |-> FALSE, ready |-> FALSE, kind |-> "grid", default |-> NoView,
   size |-> Square(0), renderer |-> [k \in Kinds |-> Square(0)],
   camera |-> NoView, transfer |-> NoView]

\* What a reader of the buffer gets: the size of the buffer, the size it was
\* rendered at, and whose camera and transfer function it shows.
ImageOf(e) ==
  [size |-> e.size, rendered |-> e.renderer[e.kind],
   camera |-> e.camera, transfer |-> e.transfer]

Images == [size : Sizes, rendered : Sizes, camera : Origin, transfer : Origin]

ViewportTypeOK ==
  /\ engine \in Engines
  /\ frame \in Images \cup {NoFrame}
  /\ picture \in [project : Projects, image : Images] \cup {NoFrame}
  /\ ended \in {"no", "load", "copy", "experiment"}
  /\ tasks \in 0 .. MaxTasks
  /\ heights \in Seq(Int)
  /\ used \in Seq(Views)
  /\ engine.ready => engine.created /\ engine.default \in Views

ViewportInit ==
  /\ engine = NewEngine
  /\ frame = NoFrame
  /\ picture = NoFrame
  /\ ended = "no"
  /\ tasks = 0
  /\ heights = <<>>
  /\ used = <<>>

-----------------------------------------------------------------------------
(***************************************************************************)
(* Engine.                                                                 *)
(***************************************************************************)
Abs(n) == IF n < 0 THEN - n ELSE n

\* n / d without its fraction.
Truncated(n, d) ==
  IF (n < 0) = (d < 0) THEN Abs(n) \div Abs(d) ELSE - (Abs(n) \div Abs(d))

\* int(n / d).  It is undefined of what is not a number, of an infinite one and
\* of one beyond the range of an int; the builds there are give 0 for the
\* first, and the least or the nearest int.
AsInt(n, d) ==
  IF n = 0 /\ d = 0 THEN {0, MinInt}
  ELSE IF Abs(n) <= MaxInt * Abs(d) THEN {Truncated(n, d)}
  ELSE IF (n < 0) = (d < 0) THEN {MinInt, MaxInt} ELSE {MinInt}

\* int(aspect * h), with aspect = w / h of the size before.  (The rounding of
\* the float is left out: there is none if the image is square.)
Widths(size, h) == AsInt(size.w * h, size.h)

UpdateRenderer(e) == [e EXCEPT !.renderer[e.kind] = e.size]

Resize(e, w, h) == UpdateRenderer([e EXCEPT !.size = [w |-> w, h |-> h]])

\* Mutant: the height replaces the width, too, whatever the shape was.
UpdateCameraSquare(e, v) ==
  IF v \notin HasCamera THEN {e}
  ELSE LET looking == [e EXCEPT !.camera = v]
           h == HeightOf[v]
       IN  IF h = NoHeight THEN {looking} ELSE {Resize(looking, h, h)}

UpdateCamera(e, v) ==
  IF v \notin HasCamera THEN {e}
  ELSE LET looking == [e EXCEPT !.camera = v]
           h == HeightOf[v]
       IN  IF h = NoHeight THEN {looking}
           ELSE {Resize(looking, w, h) : w \in Widths(e.size, h)}

UpdateTransferFunction(e, v) ==
  IF v \in HasTransfer THEN [e EXCEPT !.transfer = v] ELSE e

\* The engines that updateView may leave.
UpdateView(e, input) ==
  LET v == IF input = NoView THEN e.default ELSE input
  IN  UpdateCamera(UpdateTransferFunction(e, v), v)

\* Mutant: camera and transfer function are created once.
InitSceneKeeps(e) == [e EXCEPT !.renderer[e.kind] = Square(0)]

\* New camera, transfer functions, scene and renderer; the size stays.
InitScene(e) ==
  [e EXCEPT !.camera = NoView, !.transfer = NoView,
            !.renderer[e.kind] = Square(0)]

\* Mutant: the view of the project file is not read.
LoadWithoutView(e, p, n) ==
  LET made == IF e.created THEN e
                           ELSE [e EXCEPT !.created = TRUE, !.size = Square(n)]
  IN  [made EXCEPT !.kind = KindOf[p]]

\* Client::openProject: the size counts for a new engine only, and a file
\* without a view leaves the view that was loaded before.
Load(e, p, n) ==
  LET made == IF e.created THEN e
                           ELSE [e EXCEPT !.created = TRUE, !.size = Square(n)]
  IN  [made EXCEPT !.kind = KindOf[p],
                   !.default = IF ViewOf[p] = NoView THEN @ ELSE ViewOf[p]]

\* loadData throws unless there is a view, of this file or of one before, that
\* fits the data.
LoadFits(e, p) == ViewOf[p] = NoView => e.default # NoView /\ e.kind = KindOf[p]

InitGL(e) == {[f EXCEPT !.ready = TRUE] : f \in UpdateView(InitScene(e), NoView)}

\* Whether copyRenderedImage may end well.  The number of bytes is a size_t: a
\* negative one is more than a vector can hold, unless it has wrapped all the
\* way round.  Above MaxHeight the memory may be there and the index overflow.
Copied(e) ==
  LET pixels == e.size.w * e.size.h
  IN  IF pixels \in 0 .. MaxHeight * MaxHeight THEN {TRUE}
      ELSE IF pixels < 0 /\ - 2 * pixels <= MaxInt * MaxInt THEN {FALSE}
      ELSE BOOLEAN

-----------------------------------------------------------------------------
(***************************************************************************)
(* Tasks.                                                                  *)
(***************************************************************************)
Task == tasks < MaxTasks /\ tasks' = tasks + 1

Heights(v) == IF HeightOf[v] = NoHeight THEN <<>> ELSE <<HeightOf[v]>>

\* The view in use when an input or a project comes without one.
Given(v) == IF v = NoView THEN Head(used) ELSE v

\* handle_loadData and handle_initOpenGL.
OpenProject(p) ==
  /\ Task
  /\ \/ /\ LoadFits(engine, p)
        /\ engine' \in InitGL(Load(engine, p, Server))
        /\ heights' = heights \o Heights(Given(ViewOf[p]))
        /\ used' = <<Given(ViewOf[p])>>
        /\ UNCHANGED ended
     \/ /\ ~ LoadFits(engine, p)
        /\ ended' = "load"
        /\ UNCHANGED <<engine, heights, used>>
  /\ UNCHANGED <<frame, picture>>

\* Mutant: the renderer is resized only by a view with a frame height.
RenderFrameWithoutResize(input) ==
  /\ Task
  /\ engine.ready
  /\ \E e \in UpdateView(engine, input) :
       /\ engine' = e
       /\ TRUE \in Copied(e) /\ frame' = ImageOf(e)
  /\ heights' = heights \o Heights(Given(input))
  /\ used' = Append(used, Given(input))
  /\ UNCHANGED <<picture, ended>>

\* handle_requestFrame with an engine that is ready; one that is not leaves
\* an empty frame and changes nothing.
RenderFrame(input) ==
  /\ Task
  /\ engine.ready
  /\ \E e \in UpdateView(engine, input) :
       LET f == UpdateRenderer(e) IN
       /\ engine' = f
       /\ \/ TRUE \in Copied(f) /\ frame' = ImageOf(f) /\ UNCHANGED ended
          \/ FALSE \in Copied(f) /\ ended' = "copy" /\ UNCHANGED frame
  /\ heights' = heights \o Heights(Given(input))
  /\ used' = Append(used, Given(input))
  /\ UNCHANGED picture

\* Mutant: the experiment opens projects in the size of the server's images.
ExperimentAsServer(p) ==
  /\ tasks = 0
  /\ picture = NoFrame
  /\ LoadFits(NewEngine, p)
  /\ \E e \in InitGL(Load(NewEngine, p, Server)) : \E f \in UpdateView(e, NoView) :
       /\ TRUE \in Copied(f)
       /\ picture' = [project |-> p, image |-> ImageOf(UpdateRenderer(f))]
  /\ UNCHANGED <<engine, frame, ended, tasks, heights, used>>

\* startExperiment, before the GPU thread handles requests, with a client of
\* its own per project.
Experiment(p) ==
  /\ tasks = 0
  /\ picture = NoFrame
  /\ \/ /\ LoadFits(NewEngine, p)
        /\ \E e \in InitGL(Load(NewEngine, p, Window)) : \E f \in UpdateView(e, NoView) :
             \/ /\ TRUE \in Copied(f)
                /\ picture' = [project |-> p, image |-> ImageOf(UpdateRenderer(f))]
                /\ UNCHANGED ended
             \/ FALSE \in Copied(f) /\ ended' = "experiment" /\ UNCHANGED picture
     \/ ~ LoadFits(NewEngine, p) /\ ended' = "experiment" /\ UNCHANGED picture
  /\ UNCHANGED <<engine, frame, tasks, heights, used>>

ViewportNext ==
  /\ ended = "no"
  /\ \/ \E p \in Projects : OpenProject(p) \/ Experiment(p)
     \/ \E v \in Views \cup {NoView} : RenderFrame(v)

ViewportSpec == ViewportInit /\ [][ViewportNext]_viewportVars

-----------------------------------------------------------------------------
(***************************************************************************)
(* Properties.                                                             *)
(***************************************************************************)
\* As long as every frame height asked for is one of an image that can be
\* copied, every frame is square, as high as the last height asked for,
\* whichever project that was for, it was rendered at the size it is read at,
\* and copying a frame never ends the server.
FrameIsWhole ==
  (\A i \in DOMAIN heights : heights[i] \in 1 .. MaxHeight) =>
    /\ ended # "copy"
    /\ engine.ready =>
         engine.size = Square(IF heights = <<>> THEN Server ELSE Last(heights))
    /\ frame # NoFrame => frame.size.w > 0 /\ frame.rendered = frame.size

\* After a height of 0 no image of the client has a pixel any more: neither a
\* view with a positive height nor another project gives the engine a width
\* again.  (The next height may end the server; a negative one turns the sign
\* of the size around, and a positive one after that shows images again.)
Blank(e) == e.created /\ e.size.w <= 0

BlankForEver ==
  [][(\A i \in DOMAIN heights' : heights'[i] >= 0) /\ Blank(engine) => Blank(engine')]_viewportVars

\* Camera and transfer function of a frame come from the last view that had
\* one, among the views the browser has sent since the project was opened and
\* the view of its file; if its file has none, that of the last project opened
\* before that had one, and else never from a project opened before.
LastWith(part) ==
  LET with == {i \in DOMAIN used : used[i] \in part}
  IN  IF with = {} THEN NoView ELSE used[Max(with)]

PartsOfLastViews ==
  engine.ready =>
    engine.camera = LastWith(HasCamera) /\ engine.transfer = LastWith(HasTransfer)

\* The experiment takes the buffer for an image of the window's size: it reads
\* past the end exactly if the view of the project asks for a height that is
\* less, whatever its sign, and gets the picture that was rendered if it does
\* not ask at all.
ExperimentReads ==
  picture # NoFrame =>
    LET size == picture.image.size
        asked == HeightOf[ViewOf[picture.project]]
    IN  /\ size.w * size.h < Window * Window <=> asked \in 1 - Window .. Window - 1
        /\ asked = NoHeight => size = Square(Window)
        /\ picture.image.rendered = size
=============================================================================
