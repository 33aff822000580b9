--------------------------- MODULE ViewportProofs ---------------------------
(***************************************************************************)
(* Proofs about image sizes, cameras and transfer functions: for any views *)
(* with any frame heights, any projects, and any number of tasks.          *)
(***************************************************************************)
EXTENDS Viewport, WellFoundedInduction, TLAPS

\* An engine is created by opening its first project, in the same task that
\* makes it ready; until then nothing was seen of it.
NothingBefore ==
  /\ engine.created <=> engine.ready
  /\ ~ engine.ready => heights = <<>> /\ frame = NoFrame

\* The first view used since the scene was made is the one that counts when an
\* input or a project comes without any.
DefaultIsFirst ==
  engine.default # NoView => used # <<>> /\ Head(used) = engine.default

\* The height of an engine is the server's, or one that was asked for.
HeightWasAsked ==
  (\A i \in DOMAIN heights : heights[i] >= 0) => engine.size.h >= 0

ViewportInv ==
  /\ ViewportTypeOK
  /\ NothingBefore
  /\ DefaultIsFirst
  /\ HeightWasAsked
  /\ FrameIsWhole
  /\ PartsOfLastViews
  /\ ExperimentReads

-----------------------------------------------------------------------------
(***************************************************************************)
(* The operators of the engine.                                            *)
(***************************************************************************)
\* A quotient is an int, and not positive if that of the operands is not.
LEMMA AsIntTyped ==
  ASSUME ViewportAssumption, NEW n \in Int, NEW d \in Int
  PROVE  /\ AsInt(n, d) \subseteq Int
         /\ n <= 0 /\ d >= 0 => \A q \in AsInt(n, d) : q <= 0
<1>1. MaxInt \in Nat /\ MinInt \in Int /\ MinInt <= 0
  BY DEF ViewportAssumption, MinInt
<1>2. Abs(n) \in Nat /\ Abs(d) \in Nat
  BY DEF Abs
<1>3. ASSUME ~ (n = 0 /\ d = 0), Abs(n) <= MaxInt * Abs(d)
      PROVE  /\ Truncated(n, d) \in Int
             /\ n <= 0 /\ d >= 0 => Truncated(n, d) <= 0
  <2>1. d # 0
    BY <1>1, <1>3 DEF Abs
  <2>2. Abs(d) > 0 /\ (n = 0 => Abs(n) = 0)
    BY <2>1 DEF Abs
  <2>3. PICK a, b \in Nat : a = Abs(n) /\ b = Abs(d)
    BY <1>2
  <2>4. a \div b \in Nat /\ (a = 0 => a \div b = 0)
    BY <2>2, <2>3
  <2>5. Truncated(n, d) = IF (n < 0) = (d < 0) THEN a \div b ELSE - (a \div b)
    BY <2>3 DEF Truncated
  <2>6. PICK q \in Nat : q = a \div b
    BY <2>4
  <2> QED
    BY <2>2, <2>3, <2>4, <2>5, <2>6
<1>4. CASE n = 0 /\ d = 0
  BY <1>1, <1>4 DEF AsInt
<1>5. CASE ~ (n = 0 /\ d = 0) /\ Abs(n) <= MaxInt * Abs(d)
  <2>1. AsInt(n, d) = {Truncated(n, d)}
    BY <1>5 DEF AsInt
  <2> QED
    BY <1>3, <1>5, <2>1
<1>6. CASE ~ (n = 0 /\ d = 0) /\ ~ Abs(n) <= MaxInt * Abs(d)
  <2>1. AsInt(n, d) = IF (n < 0) = (d < 0) THEN {MinInt, MaxInt} ELSE {MinInt}
    BY <1>6 DEF AsInt
  <2>2. n = 0 => Abs(n) <= MaxInt * Abs(d)
    <3>1. PICK b \in Nat : b = Abs(d)
      BY <1>2
    <3> QED
      BY <1>1, <3>1 DEF Abs
  <2> QED
    BY <1>1, <1>6, <2>1, <2>2
<1> QED
  BY <1>4, <1>5, <1>6

LEMMA WidthsTyped ==
  ASSUME ViewportAssumption, NEW size \in Sizes, NEW h \in Int
  PROVE  /\ Widths(size, h) \subseteq Int
         /\ size.w <= 0 /\ size.h >= 0 /\ h >= 0 => \A w \in Widths(size, h) : w <= 0
<1>1. size.w \in Int /\ size.h \in Int
  BY DEF Sizes
<1>2. PICK n \in Int : n = size.w * h
  BY <1>1
<1>3. size.w <= 0 /\ h >= 0 => n <= 0
  BY <1>1, <1>2
<1> QED
  BY <1>1, <1>2, <1>3, AsIntTyped DEF Widths

\* A square stays one, even upside down.
LEMMA WidthsOfSquare ==
  ASSUME ViewportAssumption, NEW n \in Int, n # 0, NEW h \in MinInt .. MaxInt
  PROVE  Widths(Square(n), h) = {h}
<1>1. MaxInt \in Nat /\ MinInt = - MaxInt - 1 /\ h \in Int
  BY DEF ViewportAssumption, MinInt
<1>2. PICK a, b \in Nat : a = Abs(n) /\ b = Abs(h) /\ a > 0
  BY <1>1 DEF Abs
<1>3. Abs(n * h) = b * a
  <2>1. n = a \/ n = - a
    BY <1>2 DEF Abs
  <2>2. h = b \/ h = - b
    BY <1>1, <1>2 DEF Abs
  <2>3. PICK c \in Nat : c = b * a
    OBVIOUS
  <2>4. n * h = c \/ n * h = - c
    BY <2>1, <2>2, <2>3
  <2> QED
    BY <2>3, <2>4 DEF Abs
<1>4. (b * a) \div a = b
  BY <1>2
<1>5. /\ h > 0 => (n * h < 0) = (n < 0)
      /\ h < 0 => (n * h < 0) # (n < 0)
  <2>1. CASE n > 0
    <3>1. /\ h > 0 => n * h > 0
          /\ h < 0 => n * h < 0
      BY <1>1, <2>1
    <3> QED
      BY <1>1, <2>1, <3>1
  <2>2. CASE n < 0
    <3>1. /\ h > 0 => n * h < 0
          /\ h < 0 => n * h > 0
      BY <1>1, <2>2
    <3> QED
      BY <1>1, <2>2, <3>1
  <2> QED
    BY <2>1, <2>2
<1>6. h = 0 => b = 0
  BY <1>2 DEF Abs
<1>7. b * a <= MaxInt * a <=> b <= MaxInt
  BY <1>1, <1>2
<1>8. Widths(Square(n), h) = AsInt(n * h, n)
  BY DEF Widths, Square
<1>9. CASE b <= MaxInt
  <2>1. AsInt(n * h, n) = {Truncated(n * h, n)}
    BY <1>2, <1>3, <1>7, <1>9 DEF AsInt
  <2>2. Truncated(n * h, n) = IF (n * h < 0) = (n < 0) THEN b ELSE - b
    BY <1>2, <1>3, <1>4 DEF Truncated
  <2>3. Truncated(n * h, n) = IF h >= 0 THEN b ELSE - b
    BY <1>1, <1>2, <1>5, <1>6, <2>2
  <2> QED
    BY <1>1, <1>2, <1>8, <2>1, <2>3 DEF Abs
<1>10. CASE ~ b <= MaxInt
  <2>1. h = MinInt /\ h < 0
    BY <1>1, <1>2, <1>10 DEF Abs
  <2>2. AsInt(n * h, n) = {MinInt}
    BY <1>2, <1>3, <1>5, <1>7, <1>10, <2>1 DEF AsInt
  <2> QED
    BY <1>8, <2>1, <2>2
<1> QED
  BY <1>9, <1>10

\* What becomes of the size when view v is used.
SizeAfter(size, v) ==
  IF HeightOf[v] = NoHeight THEN {size}
  ELSE {[w |-> w, h |-> HeightOf[v]] : w \in Widths(size, HeightOf[v])}

\* What f has of the engine e that a view does not set.
SameButView(e, f) ==
  /\ f.created = e.created
  /\ f.ready = e.ready
  /\ f.kind = e.kind
  /\ f.default = e.default

PartsAfter(e, v, f) ==
  /\ f.camera = IF v \in HasCamera THEN v ELSE e.camera
  /\ f.transfer = IF v \in HasTransfer THEN v ELSE e.transfer

LEMMA RendererTyped ==
  ASSUME NEW e \in Engines
  PROVE  /\ UpdateRenderer(e) \in Engines
         /\ UpdateRenderer(e).renderer[e.kind] = e.size
         /\ UpdateRenderer(e).size = e.size
         /\ UpdateRenderer(e).camera = e.camera
         /\ UpdateRenderer(e).transfer = e.transfer
         /\ SameButView(e, UpdateRenderer(e))
<1>1. /\ e.kind \in Kinds /\ e.size \in Sizes /\ e.renderer \in [Kinds -> Sizes]
      /\ UpdateRenderer(e).renderer = [e.renderer EXCEPT ![e.kind] = e.size]
  BY DEF Engines, UpdateRenderer
<1>2. UpdateRenderer(e).renderer \in [Kinds -> Sizes]
  BY <1>1
<1>3. UpdateRenderer(e) = [e EXCEPT !.renderer = UpdateRenderer(e).renderer]
  BY DEF Engines, UpdateRenderer
<1>4. UpdateRenderer(e) \in Engines
  BY <1>2, <1>3 DEF Engines
<1> QED
  BY <1>1, <1>3, <1>4 DEF Engines, SameButView

LEMMA ResizeTyped ==
  ASSUME NEW e \in Engines, NEW w \in Int, NEW h \in Int
  PROVE  /\ Resize(e, w, h) \in Engines
         /\ Resize(e, w, h).size = [w |-> w, h |-> h]
         /\ Resize(e, w, h).camera = e.camera
         /\ Resize(e, w, h).transfer = e.transfer
         /\ SameButView(e, Resize(e, w, h))
<1> DEFINE f == [e EXCEPT !.size = [w |-> w, h |-> h]]
<1>1. [w |-> w, h |-> h] \in Sizes
  BY DEF Sizes
<1>2. f \in Engines
  BY <1>1 DEF Engines
<1>3. /\ f.size = [w |-> w, h |-> h]
      /\ f.camera = e.camera /\ f.transfer = e.transfer
      /\ SameButView(e, f)
  BY DEF Engines, SameButView
<1>4. Resize(e, w, h) = UpdateRenderer(f)
  BY DEF Resize
<1> QED
  BY <1>2, <1>3, <1>4, RendererTyped DEF SameButView

LEMMA TransferTyped ==
  ASSUME ViewportAssumption, NEW e \in Engines, NEW v \in Views
  PROVE  LET f == UpdateTransferFunction(e, v) IN
         /\ f \in Engines
         /\ f.size = e.size /\ f.camera = e.camera /\ SameButView(e, f)
         /\ f.transfer = IF v \in HasTransfer THEN v ELSE e.transfer
  BY DEF UpdateTransferFunction, Engines, Origin, SameButView

LEMMA CameraTyped ==
  ASSUME ViewportAssumption, NEW e \in Engines,
         NEW v \in Views, NEW f \in UpdateCamera(e, v)
  PROVE  /\ f \in Engines
         /\ f.size \in SizeAfter(e.size, v)
         /\ f.transfer = e.transfer /\ SameButView(e, f)
         /\ f.camera = IF v \in HasCamera THEN v ELSE e.camera
<1>1. CASE v \notin HasCamera
  <2>1. HeightOf[v] = NoHeight
    BY <1>1 DEF ViewportAssumption
  <2> QED
    BY <1>1, <2>1 DEF UpdateCamera, SizeAfter, SameButView
<1>2. CASE v \in HasCamera
  <2>0. PICK looking : looking = [e EXCEPT !.camera = v]
    OBVIOUS
  <2>1. /\ looking \in Engines
        /\ looking.size = e.size /\ looking.transfer = e.transfer
        /\ looking.camera = v /\ SameButView(e, looking)
    BY <2>0 DEF Engines, Origin, SameButView
  <2>2. CASE HeightOf[v] = NoHeight
    BY <1>2, <2>0, <2>1, <2>2 DEF UpdateCamera, SizeAfter
  <2>3. CASE HeightOf[v] # NoHeight
    <3>1. HeightOf[v] \in Int
      BY <2>3 DEF ViewportAssumption, MinInt
    <3>2. PICK w \in Widths(e.size, HeightOf[v]) : f = Resize(looking, w, HeightOf[v])
      BY <1>2, <2>0, <2>3 DEF UpdateCamera
    <3>3. e.size \in Sizes
      BY DEF Engines
    <3>4. w \in Int
      BY <3>1, <3>2, <3>3, WidthsTyped
    <3>5. /\ f \in Engines /\ f.size = [w |-> w, h |-> HeightOf[v]]
          /\ f.camera = looking.camera /\ f.transfer = looking.transfer
          /\ SameButView(looking, f)
      BY <2>1, <3>1, <3>2, <3>4, ResizeTyped
    <3>6. f.size \in SizeAfter(e.size, v)
      BY <2>3, <3>5 DEF SizeAfter
    <3> QED
      BY <1>2, <2>1, <3>5, <3>6 DEF SameButView
  <2> QED
    BY <2>2, <2>3
<1> QED
  BY <1>1, <1>2

\* The view updateView uses.
Shown(e, input) == IF input = NoView THEN e.default ELSE input

LEMMA ViewTyped ==
  ASSUME ViewportAssumption, NEW e \in Engines, NEW input,
         Shown(e, input) \in Views, NEW f \in UpdateView(e, input)
  PROVE  /\ f \in Engines
         /\ f.size \in SizeAfter(e.size, Shown(e, input))
         /\ SameButView(e, f)
         /\ PartsAfter(e, Shown(e, input), f)
<1> DEFINE v == Shown(e, input)
           g == UpdateTransferFunction(e, v)
<1>1. f \in UpdateCamera(g, v)
  BY DEF UpdateView, Shown
<1>2. /\ g \in Engines
      /\ g.size = e.size /\ g.camera = e.camera /\ SameButView(e, g)
      /\ g.transfer = IF v \in HasTransfer THEN v ELSE e.transfer
  BY TransferTyped
<1> HIDE DEF g, v
<1>3. v \in Views
  BY DEF v
<1>4. /\ f \in Engines
      /\ f.size \in SizeAfter(g.size, v)
      /\ f.transfer = g.transfer /\ SameButView(g, f)
      /\ f.camera = IF v \in HasCamera THEN v ELSE g.camera
  BY <1>1, <1>2, <1>3, CameraTyped
<1>5. SameButView(e, f)
  BY <1>2, <1>4 DEF SameButView
<1>6. PartsAfter(e, v, f)
  BY <1>2, <1>4 DEF PartsAfter
<1> QED
  BY <1>2, <1>4, <1>5, <1>6 DEF v

\* No width becomes positive again without a negative height, and a square
\* becomes another one.
LEMMA SizeAfterView ==
  ASSUME ViewportAssumption, NEW size \in Sizes,
         NEW v \in Views, NEW s \in SizeAfter(size, v)
  PROVE  /\ s \in Sizes
         /\ HeightOf[v] = NoHeight => s = size
         /\ HeightOf[v] # NoHeight => s.h = HeightOf[v]
         /\ size.w <= 0 /\ size.h >= 0 /\ s.h >= 0 => s.w <= 0
         /\ \A n \in Int : size = Square(n) /\ n # 0 =>
              s = Square(IF HeightOf[v] = NoHeight THEN n ELSE HeightOf[v])
<1>1. CASE HeightOf[v] = NoHeight
  BY <1>1 DEF SizeAfter
<1>2. CASE HeightOf[v] # NoHeight
  <2>1. HeightOf[v] \in Int /\ HeightOf[v] \in MinInt .. MaxInt
    BY <1>2 DEF ViewportAssumption, MinInt
  <2>2. PICK w \in Widths(size, HeightOf[v]) : s = [w |-> w, h |-> HeightOf[v]]
    BY <1>2 DEF SizeAfter
  <2>3. w \in Int /\ (size.w <= 0 /\ size.h >= 0 /\ HeightOf[v] >= 0 => w <= 0)
    BY <2>1, <2>2, WidthsTyped
  <2>4. \A n \in Int : size = Square(n) /\ n # 0 => w = HeightOf[v]
    BY <2>1, <2>2, WidthsOfSquare
  <2> QED
    BY <1>2, <2>1, <2>2, <2>3, <2>4 DEF Sizes, Square
<1> QED
  BY <1>1, <1>2

\* Opening a project keeps its view, or else the view there was.
DefaultAfter(e, p) == IF ViewOf[p] = NoView THEN e.default ELSE ViewOf[p]

\* What an engine has after loadData and initGL of project p.
LEMMA OpenTyped ==
  ASSUME ViewportAssumption, NEW e \in Engines, NEW p \in Projects,
         LoadFits(e, p), NEW v, v = DefaultAfter(e, p),
         NEW n \in Nat, NEW f \in InitGL(Load(e, p, n))
  PROVE  /\ v \in Views
         /\ f \in Engines
         /\ f.created /\ f.ready
         /\ f.default = v
         /\ f.size \in SizeAfter(IF e.created THEN e.size ELSE Square(n), v)
         /\ f.camera = IF v \in HasCamera THEN v ELSE NoView
         /\ f.transfer = IF v \in HasTransfer THEN v ELSE NoView
<1> DEFINE size == IF e.created THEN e.size ELSE Square(n)
           made == IF e.created THEN e
                   ELSE [e EXCEPT !.created = TRUE, !.size = Square(n)]
           l == Load(e, p, n)
           i == InitScene(l)
<1>1. Square(n) \in Sizes /\ Square(0) \in Sizes
  BY DEF Square, Sizes
<1>2. v \in Views /\ KindOf[p] \in Kinds
  BY DEF ViewportAssumption, LoadFits, DefaultAfter, Engines, Origin
<1>3. /\ made \in Engines /\ made.created = TRUE /\ made.size = size
      /\ made.default = e.default
  BY <1>1 DEF Engines
<1>4. l = [made EXCEPT !.kind = KindOf[p], !.default = v]
  BY <1>3 DEF Load, DefaultAfter, Engines
<1> HIDE DEF made, l
<1>5. /\ l \in Engines /\ l.created = TRUE /\ l.size = size /\ l.default = v
  BY <1>2, <1>3, <1>4 DEF Engines, Origin
<1>6. /\ i \in Engines /\ i.created = TRUE /\ i.size = size /\ i.default = v
      /\ i.camera = NoView /\ i.transfer = NoView
  <2>1. /\ l.renderer \in [Kinds -> Sizes] /\ l.kind \in Kinds
        /\ i = [l EXCEPT !.camera = NoView, !.transfer = NoView,
                         !.renderer = [l.renderer EXCEPT ![l.kind] = Square(0)]]
    BY <1>5 DEF Engines, InitScene
  <2>2. [l.renderer EXCEPT ![l.kind] = Square(0)] \in [Kinds -> Sizes]
    BY <1>1, <2>1
  <2> HIDE DEF i
  <2> QED
    BY <1>5, <2>1, <2>2 DEF Engines, Origin
<1>7. PICK g \in UpdateView(i, NoView) : f = [g EXCEPT !.ready = TRUE]
  BY DEF InitGL, l
<1>8. Shown(i, NoView) = v
  BY <1>6 DEF Shown
<1> HIDE DEF i, size
<1>9. /\ g \in Engines
      /\ g.size \in SizeAfter(size, v)
      /\ g.created = TRUE /\ g.default = v
      /\ PartsAfter(i, v, g)
  BY <1>2, <1>6, <1>8, ViewTyped DEF SameButView
<1>10. /\ f \in Engines /\ f.created = TRUE /\ f.ready = TRUE
       /\ f.default = v /\ f.size = g.size
       /\ f.camera = g.camera /\ f.transfer = g.transfer
  BY <1>7, <1>9 DEF Engines
<1> QED
  BY <1>2, <1>6, <1>9, <1>10 DEF PartsAfter, size

-----------------------------------------------------------------------------
(***************************************************************************)
(* The steps.                                                              *)
(***************************************************************************)
\* The views a browser can name.
Inputs == Views \cup {NoView}

\* What every step keeps, but for the pictures.
EngineInv == ViewportTypeOK /\ NothingBefore /\ DefaultIsFirst

LEMMA HeightsTyped ==
  ASSUME ViewportAssumption, NEW v \in Views
  PROVE  /\ Heights(v) \in Seq(Int)
         /\ HeightOf[v] = NoHeight => Heights(v) = <<>>
         /\ HeightOf[v] # NoHeight => Heights(v) = <<HeightOf[v]>> /\ HeightOf[v] \in Int
  BY DEF Heights, ViewportAssumption, MinInt

\* A reader gets an image of the engine's parts.
LEMMA ImageTyped ==
  ASSUME NEW e \in Engines
  PROVE  /\ ImageOf(e) \in Images
         /\ ImageOf(e).size = e.size
         /\ ImageOf(e).rendered = e.renderer[e.kind]
  BY DEF ImageOf, Images, Engines

\* What a task of project p leaves, with v the view that is used.
LEMMA OpenLeaves ==
  ASSUME ViewportAssumption, EngineInv, NEW p \in Projects, OpenProject(p),
         NEW v, v = DefaultAfter(engine, p)
  PROVE  /\ UNCHANGED <<frame, picture>> /\ tasks' \in 0 .. MaxTasks
         /\ \/ /\ v \in Views
               /\ engine' \in Engines
               /\ engine'.created /\ engine'.ready
               /\ engine'.default = v
               /\ engine'.size \in
                    SizeAfter(IF engine.created THEN engine.size ELSE Square(Server), v)
               /\ engine'.camera = IF v \in HasCamera THEN v ELSE NoView
               /\ engine'.transfer = IF v \in HasTransfer THEN v ELSE NoView
               /\ heights' = heights \o Heights(v)
               /\ used' = <<v>>
               /\ UNCHANGED ended
            \/ ended' = "load" /\ UNCHANGED <<engine, heights, used>>
<1>1. engine \in Engines /\ Server \in Nat
  BY DEF EngineInv, ViewportTypeOK, Server
<1>2. UNCHANGED <<frame, picture>> /\ tasks' \in 0 .. MaxTasks
  BY DEF OpenProject, Task, EngineInv, ViewportTypeOK, ViewportAssumption
<1>3. CASE /\ LoadFits(engine, p)
           /\ engine' \in InitGL(Load(engine, p, Server))
           /\ heights' = heights \o Heights(Given(ViewOf[p]))
           /\ used' = <<Given(ViewOf[p])>>
           /\ UNCHANGED ended
  <2>1. Given(ViewOf[p]) = v
    BY <1>3 DEF Given, DefaultAfter, LoadFits, EngineInv, DefaultIsFirst
  <2>2. /\ v \in Views
        /\ engine' \in Engines
        /\ engine'.created /\ engine'.ready
        /\ engine'.default = v
        /\ engine'.size \in
             SizeAfter(IF engine.created THEN engine.size ELSE Square(Server), v)
        /\ engine'.camera = IF v \in HasCamera THEN v ELSE NoView
        /\ engine'.transfer = IF v \in HasTransfer THEN v ELSE NoView
    BY <1>1, <1>3, OpenTyped
  <2> QED
    BY <1>2, <1>3, <2>1, <2>2
<1>4. CASE ended' = "load" /\ UNCHANGED <<engine, heights, used>>
  BY <1>2, <1>4
<1> QED
  BY <1>3, <1>4 DEF OpenProject

\* What a frame leaves, with v the view it was asked for.
LEMMA FrameLeaves ==
  ASSUME ViewportAssumption, EngineInv, NEW input \in Inputs, RenderFrame(input),
         NEW v, v = Shown(engine, input)
  PROVE  /\ v \in Views /\ engine.ready
         /\ UNCHANGED picture /\ tasks' \in 0 .. MaxTasks
         /\ engine' \in Engines
         /\ SameButView(engine, engine')
         /\ engine'.size \in SizeAfter(engine.size, v)
         /\ PartsAfter(engine, v, engine')
         /\ engine'.renderer[engine'.kind] = engine'.size
         /\ \/ TRUE \in Copied(engine') /\ frame' = ImageOf(engine') /\ ended' = ended
            \/ FALSE \in Copied(engine') /\ frame' = frame /\ ended' = "copy"
         /\ heights' = heights \o Heights(v)
         /\ used' = Append(used, v)
<1>1. /\ engine \in Engines
      /\ UNCHANGED picture /\ tasks' \in 0 .. MaxTasks
  BY DEF EngineInv, ViewportTypeOK, RenderFrame, Task, ViewportAssumption
<1>2. engine.ready /\ engine.default \in Views
  BY DEF EngineInv, ViewportTypeOK, RenderFrame
<1>3. v \in Views
  BY <1>2 DEF Shown, Inputs
<1>4. PICK e \in UpdateView(engine, input) :
        /\ engine' = UpdateRenderer(e)
        /\ \/ TRUE \in Copied(engine') /\ frame' = ImageOf(engine') /\ ended' = ended
           \/ FALSE \in Copied(engine') /\ frame' = frame /\ ended' = "copy"
  BY DEF RenderFrame
<1>5. /\ e \in Engines /\ e.size \in SizeAfter(engine.size, v)
      /\ SameButView(engine, e) /\ PartsAfter(engine, v, e)
  BY <1>1, <1>3, ViewTyped
<1>6. /\ engine' \in Engines /\ engine'.renderer[e.kind] = e.size
      /\ engine'.size = e.size /\ engine'.camera = e.camera
      /\ engine'.transfer = e.transfer /\ SameButView(e, engine')
  BY <1>4, <1>5, RendererTyped
<1>7. Given(input) = v
  BY <1>2 DEF Given, Shown, EngineInv, DefaultIsFirst, ViewportAssumption
<1>8. /\ heights' = heights \o Heights(v)
      /\ used' = Append(used, v)
  BY <1>7 DEF RenderFrame
<1> QED
  BY <1>1, <1>2, <1>3, <1>4, <1>5, <1>6, <1>8 DEF SameButView, PartsAfter

\* What the experiment saves, if anything: the width and the height are those
\* of the window, or the height the view of the project asks for.
LEMMA ExperimentLeaves ==
  ASSUME ViewportAssumption, NEW p \in Projects, Experiment(p)
  PROVE  /\ UNCHANGED <<engine, frame, tasks, heights, used>>
         /\ \/ /\ UNCHANGED ended
               /\ picture' \in [project : Projects, image : Images]
               /\ picture'.project = p /\ ViewOf[p] \in Views
               /\ picture'.image.rendered = picture'.image.size
               /\ LET asked == HeightOf[ViewOf[p]]
                      size == picture'.image.size
                  IN  /\ asked = NoHeight => size = Square(Window)
                      /\ asked # NoHeight => size.h = asked
                      /\ asked # NoHeight /\ asked # 0 => size = Square(asked)
            \/ UNCHANGED picture /\ ended' = "experiment"
<1> DEFINE v == ViewOf[p]
           asked == HeightOf[v]
<1>1. UNCHANGED <<engine, frame, tasks, heights, used>>
  BY DEF Experiment
<1>2. /\ NewEngine \in Engines /\ NewEngine.default = NoView /\ NewEngine.created = FALSE
      /\ Square(Window) \in Sizes /\ Window \in Int /\ Window # 0
  BY DEF NewEngine, Engines, Origin, Kinds, Square, Sizes, Window
<1>3. CASE UNCHANGED picture /\ ended' = "experiment"
  BY <1>1, <1>3
<1>4. ASSUME LoadFits(NewEngine, p), UNCHANGED ended,
             NEW e \in InitGL(Load(NewEngine, p, Window)),
             NEW f \in UpdateView(e, NoView),
             picture' = [project |-> p, image |-> ImageOf(UpdateRenderer(f))]
      PROVE  /\ picture' \in [project : Projects, image : Images]
             /\ picture'.project = p /\ v \in Views
             /\ picture'.image.rendered = picture'.image.size
             /\ asked = NoHeight => picture'.image.size = Square(Window)
             /\ asked # NoHeight => picture'.image.size.h = asked
             /\ asked # NoHeight /\ asked # 0 => picture'.image.size = Square(asked)
  <2>1. v = DefaultAfter(NewEngine, p) /\ v \in Views
    BY <1>2, <1>4 DEF LoadFits, DefaultAfter, ViewportAssumption
  <2>2. asked = NoHeight \/ asked \in Int
    BY <2>1 DEF ViewportAssumption, MinInt
  <2>3. e \in Engines /\ e.default = v /\ e.size \in SizeAfter(Square(Window), v)
    <3> HIDE DEF v
    <3>1. Window \in Nat
      BY DEF Window
    <3> QED
      BY <1>2, <1>4, <2>1, <3>1, OpenTyped
  <2>4. e.size \in Sizes
    BY <2>3 DEF Engines
  <2>5. Shown(e, NoView) = v
    BY <2>3 DEF Shown
  <2>6. f \in Engines /\ f.size \in SizeAfter(e.size, v)
    BY <2>1, <2>3, <2>5, ViewTyped
  <2> HIDE DEF v
  <2>7. PICK g : g = UpdateRenderer(f)
    OBVIOUS
  <2>8. g \in Engines /\ g.size = f.size /\ g.renderer[g.kind] = g.size
    BY <2>6, <2>7, RendererTyped DEF SameButView
  <2>9. /\ picture'.project = p /\ picture'.image = ImageOf(g)
        /\ picture' \in [project : Projects, image : Images]
        /\ picture'.image.size = f.size
        /\ picture'.image.rendered = f.size
    BY <1>4, <2>7, <2>8, ImageTyped
  <2>10. asked = NoHeight => f.size = Square(Window)
    BY <2>3, <2>6 DEF SizeAfter
  <2>11. asked # NoHeight => f.size.h = asked
    BY <2>6 DEF SizeAfter
  <2>12. ASSUME asked # NoHeight, asked # 0
         PROVE  f.size = Square(asked)
    <3>1. e.size = Square(asked)
      BY <1>2, <2>1, <2>3, <2>12, SizeAfterView
    <3> QED
      BY <2>1, <2>2, <2>4, <2>6, <2>12, <3>1, SizeAfterView
  <2> QED
    BY <2>1, <2>9, <2>10, <2>11, <2>12
<1> QED
  BY <1>1, <1>3, <1>4 DEF Experiment

LEMMA InitEngine ==
  ASSUME ViewportAssumption, ViewportInit
  PROVE  ViewportInv
<1>1. Square(0) \in Sizes /\ Square(0).h = 0
  BY DEF Square, Sizes
<1>2. NewEngine \in Engines
  BY <1>1 DEF NewEngine, Engines, Origin, Kinds
<1>3. /\ engine \in Engines /\ engine.created = FALSE /\ engine.ready = FALSE
      /\ engine.size = Square(0) /\ engine.default = NoView
  BY <1>2 DEF ViewportInit, NewEngine
<1>4. ViewportTypeOK
  BY <1>3 DEF ViewportInit, ViewportTypeOK, ViewportAssumption
<1>5. NothingBefore /\ DefaultIsFirst /\ HeightWasAsked
  BY <1>1, <1>3 DEF NothingBefore, DefaultIsFirst, HeightWasAsked, ViewportInit
<1>6. FrameIsWhole
  BY <1>3 DEF FrameIsWhole, ViewportInit
<1>7. PartsOfLastViews /\ ExperimentReads
  BY <1>3 DEF PartsOfLastViews, ExperimentReads, ViewportInit
<1> QED
  BY <1>4, <1>5, <1>6, <1>7 DEF ViewportInv

\* Appending a view keeps the first.
LEMMA HeadStays ==
  ASSUME NEW s \in Seq(Views), s # <<>>, NEW v \in Views
  PROVE  Append(s, v) # <<>> /\ Head(Append(s, v)) = Head(s)
  OBVIOUS

LEMMA EngineStays ==
  ASSUME ViewportAssumption, EngineInv, [ViewportNext]_viewportVars
  PROVE  EngineInv'
<1>0. /\ engine \in Engines
      /\ engine.ready => engine.created /\ engine.default \in Views
      /\ frame \in Images \cup {NoFrame}
      /\ picture \in [project : Projects, image : Images] \cup {NoFrame}
      /\ ended \in {"no", "load", "copy", "experiment"}
      /\ tasks \in 0 .. MaxTasks
      /\ heights \in Seq(Int) /\ used \in Seq(Views)
      /\ engine.default # NoView => used # <<>> /\ Head(used) = engine.default
      /\ NoView \notin Views
  BY DEF EngineInv, ViewportTypeOK, DefaultIsFirst, ViewportAssumption
<1>1. ASSUME UNCHANGED viewportVars
      PROVE  EngineInv'
  BY <1>1 DEF viewportVars, EngineInv, ViewportTypeOK, DefaultIsFirst, NothingBefore
<1>2. ASSUME NEW p \in Projects, OpenProject(p)
      PROVE  EngineInv'
  <2>1. PICK v : v = DefaultAfter(engine, p)
    OBVIOUS
  <2>2. UNCHANGED <<frame, picture>> /\ tasks' \in 0 .. MaxTasks
    BY <1>2, <2>1, OpenLeaves
  <2>3. CASE ended' = "load" /\ UNCHANGED <<engine, heights, used>>
    BY <1>0, <2>2, <2>3 DEF EngineInv, ViewportTypeOK, DefaultIsFirst, NothingBefore
  <2>4. CASE /\ v \in Views
             /\ engine' \in Engines
             /\ engine'.created /\ engine'.ready
             /\ engine'.default = v
             /\ heights' = heights \o Heights(v)
             /\ used' = <<v>>
             /\ UNCHANGED ended
    <3>1. heights' \in Seq(Int) /\ used' \in Seq(Views)
      BY <1>0, <2>4, HeightsTyped
    <3>2. used' # <<>> /\ Head(used') = engine'.default
      BY <2>4
    <3>3. ViewportTypeOK'
      BY <1>0, <2>2, <2>4, <3>1 DEF ViewportTypeOK
    <3>4. NothingBefore' /\ DefaultIsFirst'
      BY <2>4, <3>2 DEF NothingBefore, DefaultIsFirst
    <3> QED
      BY <3>3, <3>4 DEF EngineInv
  <2> QED
    BY <1>2, <2>1, <2>3, <2>4, OpenLeaves
<1>3. ASSUME NEW input \in Inputs, RenderFrame(input)
      PROVE  EngineInv'
  <2>1. PICK v : v = Shown(engine, input)
    OBVIOUS
  <2>2. /\ v \in Views /\ engine.ready
        /\ UNCHANGED picture /\ tasks' \in 0 .. MaxTasks
        /\ engine' \in Engines
        /\ SameButView(engine, engine')
        /\ \/ TRUE \in Copied(engine') /\ frame' = ImageOf(engine') /\ ended' = ended
           \/ FALSE \in Copied(engine') /\ frame' = frame /\ ended' = "copy"
        /\ heights' = heights \o Heights(v)
        /\ used' = Append(used, v)
    BY <1>3, <2>1, FrameLeaves
  <2>3. heights' \in Seq(Int) /\ used' \in Seq(Views)
    BY <1>0, <2>2, HeightsTyped
  <2>4. /\ frame' \in Images \cup {NoFrame}
        /\ ended' \in {"no", "load", "copy", "experiment"}
    BY <1>0, <2>2, ImageTyped
  <2>5. engine.default \in Views /\ used' # <<>> /\ Head(used') = engine.default
    BY <1>0, <2>2, HeadStays
  <2>6. ViewportTypeOK'
    BY <1>0, <2>2, <2>3, <2>4 DEF ViewportTypeOK, SameButView
  <2>7. NothingBefore' /\ DefaultIsFirst'
    BY <1>0, <2>2, <2>5 DEF NothingBefore, DefaultIsFirst, SameButView
  <2> QED
    BY <2>6, <2>7 DEF EngineInv
<1>4. ASSUME NEW p \in Projects, Experiment(p)
      PROVE  EngineInv'
  <2>1. UNCHANGED <<engine, frame, tasks, heights, used>>
    BY <1>4, ExperimentLeaves
  <2>2. /\ picture' \in [project : Projects, image : Images] \cup {NoFrame}
        /\ ended' \in {"no", "load", "copy", "experiment"}
    BY <1>0, <1>4, ExperimentLeaves
  <2> QED
    BY <2>1, <2>2 DEF EngineInv, ViewportTypeOK, DefaultIsFirst, NothingBefore
<1> QED
  BY <1>1, <1>2, <1>3, <1>4 DEF ViewportNext, Inputs

\* The height asked for last, the server's if there was none.
Asked(s) == IF s = <<>> THEN Server ELSE Last(s)

\* A view adds a height after those before, or none.
LEMMA HeightsBefore ==
  ASSUME ViewportAssumption, NEW s \in Seq(Int), NEW v \in Views,
         NEW t, t = s \o Heights(v)
  PROVE  /\ t \in Seq(Int)
         /\ \A i \in DOMAIN s : i \in DOMAIN t /\ t[i] = s[i]
         /\ Asked(t) = IF HeightOf[v] = NoHeight THEN Asked(s) ELSE HeightOf[v]
         /\ HeightOf[v] # NoHeight =>
              HeightOf[v] \in Int /\ Len(t) \in DOMAIN t /\ t[Len(t)] = HeightOf[v]
<1>1. CASE HeightOf[v] = NoHeight
  <2>1. t = s
    BY <1>1, HeightsTyped
  <2> QED
    BY <1>1, <2>1
<1>2. CASE HeightOf[v] # NoHeight
  <2>1. t = s \o <<HeightOf[v]>> /\ HeightOf[v] \in Int
    BY <1>2, HeightsTyped
  <2>2. /\ t \in Seq(Int) /\ Len(t) = Len(s) + 1 /\ Len(s) \in Nat
        /\ t[Len(s) + 1] = HeightOf[v]
        /\ \A i \in DOMAIN s : i \in DOMAIN t /\ t[i] = s[i]
        /\ Len(s) + 1 \in DOMAIN t
    BY <2>1
  <2> QED
    BY <1>2, <2>1, <2>2 DEF Asked, Last
<1> QED
  BY <1>1, <1>2

\* The square images of up to MaxHeight rows are those that can be copied.
LEMMA SquareCopied ==
  ASSUME ViewportAssumption, NEW n \in 1 .. MaxHeight, NEW e, e.size = Square(n)
  PROVE  Copied(e) = {TRUE}
<1>1. n \in Nat /\ MaxHeight \in Nat /\ n <= MaxHeight
  BY DEF ViewportAssumption, Window
<1>2. n * n \in Nat /\ n * n <= MaxHeight * MaxHeight
  BY <1>1
<1>3. e.size.w * e.size.h = n * n
  BY DEF Square
<1>4. e.size.w * e.size.h \in 0 .. MaxHeight * MaxHeight
  <2>1. PICK m \in Nat : m = MaxHeight * MaxHeight
    BY <1>1
  <2> QED
    BY <1>2, <1>3, <2>1
<1> QED
  BY <1>4 DEF Copied

LEMMA SizesStay ==
  ASSUME ViewportAssumption, EngineInv, FrameIsWhole, [ViewportNext]_viewportVars
  PROVE  FrameIsWhole'
<1> DEFINE Fits(s) == \A i \in DOMAIN s : s[i] \in 1 .. MaxHeight
<1>0. /\ engine \in Engines /\ engine.size \in Sizes
      /\ heights \in Seq(Int)
      /\ engine.created <=> engine.ready
      /\ ~ engine.ready => heights = <<>> /\ frame = NoFrame
      /\ MaxHeight \in Nat /\ Server \in 1 .. MaxHeight
  BY DEF EngineInv, ViewportTypeOK, NothingBefore, Engines, ViewportAssumption, Server, Window
<1>1. ASSUME Fits(heights)
      PROVE  /\ ended # "copy"
             /\ engine.ready => engine.size = Square(Asked(heights))
             /\ frame # NoFrame => frame.size.w > 0 /\ frame.rendered = frame.size
             /\ Asked(heights) \in 1 .. MaxHeight
  <2>1. Asked(heights) \in 1 .. MaxHeight
    BY <1>0, <1>1 DEF Asked, Last
  <2> QED
    BY <1>1, <2>1 DEF FrameIsWhole, Asked
<1>2. ASSUME NEW v \in Views, heights' = heights \o Heights(v), Fits(heights')
      PROVE  /\ Fits(heights)
             /\ Asked(heights') = IF HeightOf[v] = NoHeight THEN Asked(heights) ELSE HeightOf[v]
             /\ Asked(heights') \in 1 .. MaxHeight
  <2>1. /\ Fits(heights)
        /\ Asked(heights') = IF HeightOf[v] = NoHeight THEN Asked(heights) ELSE HeightOf[v]
        /\ HeightOf[v] # NoHeight => HeightOf[v] \in 1 .. MaxHeight
    <3>1. \A i \in DOMAIN heights : i \in DOMAIN heights' /\ heights'[i] = heights[i]
      BY <1>0, <1>2, HeightsBefore
    <3>2. HeightOf[v] # NoHeight =>
            Len(heights') \in DOMAIN heights' /\ heights'[Len(heights')] = HeightOf[v]
      BY <1>0, <1>2, HeightsBefore
    <3>3. Asked(heights') = IF HeightOf[v] = NoHeight THEN Asked(heights) ELSE HeightOf[v]
      BY <1>0, <1>2, HeightsBefore
    <3> QED
      BY <1>2, <3>1, <3>2, <3>3
  <2> QED
    BY <1>1, <2>1
<1> HIDE DEF Fits
<1>3. ASSUME UNCHANGED <<heights, engine, frame>>, UNCHANGED ended \/ ended' # "copy"
      PROVE  FrameIsWhole'
  BY <1>3 DEF FrameIsWhole
<1>4. ASSUME NEW p \in Projects, OpenProject(p)
      PROVE  FrameIsWhole'
  <2>1. PICK v : v = DefaultAfter(engine, p)
    OBVIOUS
  <2>2. UNCHANGED frame
    BY <1>4, <2>1, OpenLeaves
  <2>3. CASE ended' = "load" /\ UNCHANGED <<engine, heights>>
    BY <1>3, <2>2, <2>3
  <2>4. CASE /\ v \in Views
             /\ engine'.ready
             /\ engine'.size \in
                  SizeAfter(IF engine.created THEN engine.size ELSE Square(Server), v)
             /\ heights' = heights \o Heights(v)
             /\ UNCHANGED ended
    <3> SUFFICES ASSUME Fits(heights')
                 PROVE  /\ ended' # "copy"
                        /\ engine'.size = Square(Asked(heights'))
                        /\ frame' # NoFrame =>
                             frame'.size.w > 0 /\ frame'.rendered = frame'.size
      BY DEF FrameIsWhole, Fits, Asked
    <3>1. /\ Fits(heights)
          /\ Asked(heights') = IF HeightOf[v] = NoHeight THEN Asked(heights) ELSE HeightOf[v]
      BY <1>2, <2>4
    <3>2. /\ ended # "copy"
          /\ engine.ready => engine.size = Square(Asked(heights))
          /\ frame # NoFrame => frame.size.w > 0 /\ frame.rendered = frame.size
          /\ Asked(heights) \in Int /\ Asked(heights) # 0
      BY <1>0, <1>1, <3>1
    <3>3. ~ engine.created => Asked(heights) = Server
      BY <1>0 DEF Asked
    <3>4. (IF engine.created THEN engine.size ELSE Square(Server)) = Square(Asked(heights))
      BY <1>0, <3>2, <3>3
    <3>5. Square(Asked(heights)) \in Sizes
      BY <3>2 DEF Square, Sizes
    <3>6. engine'.size = Square(Asked(heights'))
      BY <2>4, <3>1, <3>2, <3>4, <3>5, SizeAfterView
    <3> QED
      BY <2>2, <2>4, <3>2, <3>6
  <2> QED
    BY <1>4, <2>1, <2>3, <2>4, OpenLeaves
<1>5. ASSUME NEW input \in Inputs, RenderFrame(input)
      PROVE  FrameIsWhole'
  <2>1. PICK v : v = Shown(engine, input)
    OBVIOUS
  <2>2. /\ v \in Views /\ engine.ready
        /\ engine' \in Engines
        /\ engine'.size \in SizeAfter(engine.size, v)
        /\ engine'.renderer[engine'.kind] = engine'.size
        /\ \/ TRUE \in Copied(engine') /\ frame' = ImageOf(engine') /\ ended' = ended
           \/ FALSE \in Copied(engine') /\ frame' = frame /\ ended' = "copy"
        /\ heights' = heights \o Heights(v)
    BY <1>5, <2>1, FrameLeaves
  <2> SUFFICES ASSUME Fits(heights')
               PROVE  /\ ended' # "copy"
                      /\ engine'.size = Square(Asked(heights'))
                      /\ frame'.size.w > 0 /\ frame'.rendered = frame'.size
    BY DEF FrameIsWhole, Fits, Asked
  <2>3. /\ Fits(heights)
        /\ Asked(heights') = IF HeightOf[v] = NoHeight THEN Asked(heights) ELSE HeightOf[v]
        /\ Asked(heights') \in 1 .. MaxHeight
    BY <1>2, <2>2
  <2>4. /\ ended # "copy"
        /\ engine.size = Square(Asked(heights))
        /\ Asked(heights) \in Int /\ Asked(heights) # 0
    BY <1>0, <1>1, <2>2, <2>3
  <2>5. engine'.size = Square(Asked(heights'))
    BY <1>0, <2>2, <2>3, <2>4, SizeAfterView
  <2>6. engine'.size.w = Asked(heights') /\ Asked(heights') > 0
    BY <1>0, <2>3, <2>5 DEF Square
  <2>7. Copied(engine') = {TRUE}
    BY <2>3, <2>5, SquareCopied
  <2>8. frame' = ImageOf(engine') /\ ended' = ended
    BY <2>2, <2>7
  <2>9. frame'.size = engine'.size /\ frame'.rendered = engine'.size
    BY <2>2, <2>8, ImageTyped
  <2> QED
    BY <2>4, <2>5, <2>6, <2>8, <2>9
<1>6. ASSUME NEW p \in Projects, Experiment(p)
      PROVE  FrameIsWhole'
  <2>1. /\ UNCHANGED <<heights, engine, frame>>
        /\ UNCHANGED ended \/ ended' # "copy"
    BY <1>6, ExperimentLeaves
  <2> QED
    BY <1>3, <2>1
<1> QED
  BY <1>3, <1>4, <1>5, <1>6 DEF ViewportNext, Inputs, viewportVars

LEMMA AskedStays ==
  ASSUME ViewportAssumption, EngineInv, HeightWasAsked, [ViewportNext]_viewportVars
  PROVE  HeightWasAsked'
<1>0. /\ engine \in Engines /\ engine.size \in Sizes /\ heights \in Seq(Int)
      /\ Square(Server) \in Sizes /\ Square(Server).h >= 0
  BY DEF EngineInv, ViewportTypeOK, Engines, Square, Sizes, Server
<1>1. ASSUME UNCHANGED <<engine, heights>>
      PROVE  HeightWasAsked'
  BY <1>1 DEF HeightWasAsked
<1>2. ASSUME NEW v \in Views, NEW size \in Sizes, size = engine.size \/ size = Square(Server),
             engine'.size \in SizeAfter(size, v), heights' = heights \o Heights(v)
      PROVE  HeightWasAsked'
  <2> SUFFICES ASSUME \A i \in DOMAIN heights' : heights'[i] >= 0
               PROVE  engine'.size.h >= 0
    BY DEF HeightWasAsked
  <2>1. /\ \A i \in DOMAIN heights : heights[i] >= 0
        /\ HeightOf[v] # NoHeight => HeightOf[v] >= 0
    <3>1. \A i \in DOMAIN heights : i \in DOMAIN heights' /\ heights'[i] = heights[i]
      BY <1>0, <1>2, HeightsBefore
    <3>2. HeightOf[v] # NoHeight =>
            Len(heights') \in DOMAIN heights' /\ heights'[Len(heights')] = HeightOf[v]
      BY <1>0, <1>2, HeightsBefore
    <3> QED
      BY <3>1, <3>2
  <2>2. engine.size.h >= 0
    BY <2>1 DEF HeightWasAsked
  <2>3. /\ HeightOf[v] = NoHeight => engine'.size = size
        /\ HeightOf[v] # NoHeight => engine'.size.h = HeightOf[v]
    BY <1>2, SizeAfterView
  <2> QED
    BY <1>0, <1>2, <2>1, <2>2, <2>3
<1>3. ASSUME NEW p \in Projects, OpenProject(p)
      PROVE  HeightWasAsked'
  <2>1. PICK v : v = DefaultAfter(engine, p)
    OBVIOUS
  <2>2. CASE UNCHANGED <<engine, heights>>
    BY <1>1, <2>2
  <2>3. CASE /\ v \in Views
             /\ engine'.size \in
                  SizeAfter(IF engine.created THEN engine.size ELSE Square(Server), v)
             /\ heights' = heights \o Heights(v)
    BY <1>0, <1>2, <2>3
  <2> QED
    BY <1>3, <2>1, <2>2, <2>3, OpenLeaves
<1>4. ASSUME NEW input \in Inputs, RenderFrame(input)
      PROVE  HeightWasAsked'
  <2>1. PICK v : v = Shown(engine, input)
    OBVIOUS
  <2>2. /\ v \in Views /\ engine'.size \in SizeAfter(engine.size, v)
        /\ heights' = heights \o Heights(v)
    BY <1>4, <2>1, FrameLeaves
  <2> QED
    BY <1>0, <1>2, <2>2
<1>5. ASSUME NEW p \in Projects, Experiment(p)
      PROVE  UNCHANGED <<engine, heights>>
  BY <1>5 DEF Experiment
<1> QED
  BY <1>1, <1>3, <1>4, <1>5 DEF ViewportNext, Inputs, viewportVars

\* Max is the maximum of a nonempty set of positions.
LEMMA LatestExists ==
  ASSUME NEW t \in Nat, NEW S \in SUBSET (1 .. t), S # {}
  PROVE  Max(S) \in S
<1> DEFINE R == OpToRel(<, Nat)
           T == {t - u : u \in S}
<1>1. \A m, n \in Nat : m < n => <<m, n>> \in R
  BY DEF OpToRel
<1>2. T \subseteq Nat /\ T # {}
  <2>1. \A u \in S : t - u \in Nat
    OBVIOUS
  <2>2. \A u \in S : t - u \in T
    OBVIOUS
  <2> QED
    BY <2>1, <2>2
<1>3. IsWellFoundedOn(R, Nat)
  BY NatLessThanWellFounded
<1> HIDE DEF R
<1>4. PICK x \in T : \A y \in T : <<y, x>> \notin R
  BY <1>2, <1>3, WFMin, Zenon
<1>5. PICK u \in S : x = t - u
  BY <1>4
<1>6. \A v \in S : u >= v
  <2> SUFFICES ASSUME NEW v \in S, ~ (u >= v) PROVE FALSE
    OBVIOUS
  <2>1. t - v < t - u /\ t - v \in T /\ t - v \in Nat /\ t - u \in Nat
    OBVIOUS
  <2> QED
    BY <1>1, <1>4, <1>5, <2>1
<1> QED
  BY <1>6 DEF Max

\* LastWith, of any sequence of views.
Recent(s, part) ==
  LET with == {i \in DOMAIN s : s[i] \in part}
  IN  IF with = {} THEN NoView ELSE s[Max(with)]

\* The view used last counts if it has the part.
LEMMA LastCounts ==
  ASSUME NEW part, NEW s \in Seq(Views), NEW v \in Views, NEW t, t = Append(s, v)
  PROVE  Recent(t, part) = IF v \in part THEN v ELSE Recent(s, part)
<1> DEFINE at == {i \in DOMAIN s : s[i] \in part}
           after == {i \in DOMAIN t : t[i] \in part}
<1>1. /\ Len(s) \in Nat /\ DOMAIN t = 1 .. Len(s) + 1 /\ DOMAIN s = 1 .. Len(s)
      /\ t[Len(s) + 1] = v /\ \A i \in 1 .. Len(s) : t[i] = s[i]
  OBVIOUS
<1>2. ASSUME v \in part
      PROVE  after # {} /\ t[Max(after)] = v
  <2>1. Len(s) + 1 \in after /\ \A i \in after : i \in Int /\ i <= Len(s) + 1
    BY <1>1, <1>2
  <2>2. Max(after) = Len(s) + 1
    <3> HIDE DEF after
    <3> QED
      BY <1>1, <2>1 DEF Max
  <2> QED
    BY <1>1, <2>1, <2>2
<1>3. ASSUME v \notin part
      PROVE  after = at
  BY <1>1, <1>3
<1>4. ASSUME v \notin part, at # {}
      PROVE  t[Max(after)] = s[Max(at)]
  <2>1. \A i \in at : i \in 1 .. Len(s)
    BY <1>1
  <2>2. Max(at) \in at
    BY <1>1, <1>4, <2>1, LatestExists
  <2> QED
    BY <1>1, <1>3, <1>4, <2>1, <2>2
<1>5. /\ Recent(s, part) = IF at = {} THEN NoView ELSE s[Max(at)]
      /\ Recent(t, part) = IF after = {} THEN NoView ELSE t[Max(after)]
  BY DEF Recent
<1> HIDE DEF at, after
<1> QED
  BY <1>2, <1>3, <1>4, <1>5

LEMMA PartsStay ==
  ASSUME ViewportAssumption, EngineInv, PartsOfLastViews, [ViewportNext]_viewportVars
  PROVE  PartsOfLastViews'
<1>0. used \in Seq(Views)
  BY DEF EngineInv, ViewportTypeOK
<1>1. ASSUME UNCHANGED <<engine, used>>
      PROVE  PartsOfLastViews'
  BY <1>1 DEF PartsOfLastViews, LastWith
<1>2. ASSUME NEW p \in Projects, OpenProject(p)
      PROVE  PartsOfLastViews'
  <2>1. PICK v : v = DefaultAfter(engine, p)
    OBVIOUS
  <2>2. CASE UNCHANGED <<engine, used>>
    BY <1>1, <2>2
  <2>3. CASE /\ used' = <<v>>
             /\ engine'.camera = IF v \in HasCamera THEN v ELSE NoView
             /\ engine'.transfer = IF v \in HasTransfer THEN v ELSE NoView
    <3>1. DOMAIN used' = {1} /\ used'[1] = v
      BY <2>3
    <3>2. ASSUME NEW part
          PROVE  LastWith(part)' = IF v \in part THEN v ELSE NoView
      <4>1. CASE v \in part
        <5>1. {i \in DOMAIN used' : used'[i] \in part} = {1}
          BY <3>1, <4>1
        <5>2. Max({1}) = 1
          BY DEF Max
        <5> QED
          BY <3>1, <4>1, <5>1, <5>2 DEF LastWith
      <4>2. CASE v \notin part
        BY <3>1, <4>2 DEF LastWith
      <4> QED
        BY <4>1, <4>2
    <3> QED
      BY <2>3, <3>2 DEF PartsOfLastViews
  <2> QED
    BY <1>2, <2>1, <2>2, <2>3, OpenLeaves
<1>3. ASSUME NEW input \in Inputs, RenderFrame(input)
      PROVE  PartsOfLastViews'
  <2>1. PICK v : v = Shown(engine, input)
    OBVIOUS
  <2>2. /\ v \in Views /\ engine.ready
        /\ PartsAfter(engine, v, engine')
        /\ used' = Append(used, v)
    BY <1>3, <2>1, FrameLeaves
  <2>3. ASSUME NEW part
        PROVE  LastWith(part)' = IF v \in part THEN v ELSE LastWith(part)
    <3>1. LastWith(part) = Recent(used, part) /\ LastWith(part)' = Recent(used', part)
      BY DEF LastWith, Recent
    <3>2. Recent(used', part) = IF v \in part THEN v ELSE Recent(used, part)
      BY <1>0, <2>2, LastCounts
    <3> QED
      BY <3>1, <3>2
  <2> QED
    BY <2>2, <2>3 DEF PartsOfLastViews, PartsAfter
<1>4. ASSUME NEW p \in Projects, Experiment(p)
      PROVE  UNCHANGED <<engine, used>>
  BY <1>4 DEF Experiment
<1> QED
  BY <1>1, <1>2, <1>3, <1>4 DEF ViewportNext, Inputs, viewportVars

LEMMA PictureStays ==
  ASSUME ViewportAssumption, EngineInv, ExperimentReads, [ViewportNext]_viewportVars
  PROVE  ExperimentReads'
<1>1. ASSUME UNCHANGED picture
      PROVE  ExperimentReads'
  BY <1>1 DEF ExperimentReads
<1>2. ASSUME NEW p \in Projects, Experiment(p)
      PROVE  ExperimentReads'
  <2> DEFINE asked == HeightOf[ViewOf[p]]
             size == picture'.image.size
  <2> SUFFICES ASSUME /\ picture' \in [project : Projects, image : Images]
                      /\ picture'.project = p /\ ViewOf[p] \in Views
                      /\ picture'.image.rendered = size
                      /\ asked = NoHeight => size = Square(Window)
                      /\ asked # NoHeight => size.h = asked
                      /\ asked # NoHeight /\ asked # 0 => size = Square(asked)
               PROVE  ExperimentReads'
    BY <1>1, <1>2, ExperimentLeaves
  <2>1. asked = NoHeight \/ asked \in Int
    BY DEF ViewportAssumption, MinInt
  <2>2. size \in Sizes
    BY DEF Images
  <2> HIDE DEF asked, size
  <2>3. size.w * size.h < Window * Window <=> asked \in 1 - Window .. Window - 1
    <3>1. CASE asked = NoHeight
      BY <3>1 DEF Square, Window, ViewportAssumption
    <3>2. CASE asked # NoHeight /\ asked # 0
      <4>1. asked \in Int /\ size.w = asked /\ size.h = asked
        BY <2>1, <3>2 DEF Square
      <4>2. CASE asked > 0
        BY <4>1, <4>2 DEF Window
      <4>3. CASE asked < 0
        <5>1. PICK n \in Nat : n = - asked
          BY <4>1, <4>3
        <5>2. asked * asked = n * n
          BY <4>1, <5>1
        <5>3. n * n < 800 * 800 <=> n < 800
          OBVIOUS
        <5> QED
          BY <4>1, <4>3, <5>1, <5>2, <5>3 DEF Window
      <4> QED
        BY <3>2, <4>1, <4>2, <4>3
    <3>3. CASE asked # NoHeight /\ asked = 0
      <4>1. size.h = 0 /\ size.w \in Int
        BY <2>2, <3>3 DEF Sizes
      <4>2. size.w * size.h = 0
        BY <4>1
      <4> QED
        BY <3>3, <4>2 DEF Window
    <3> QED
      BY <3>1, <3>2, <3>3
  <2> QED
    BY <2>3 DEF ExperimentReads, asked, size
<1>3. ASSUME NEW p \in Projects, OpenProject(p)
      PROVE  UNCHANGED picture
  BY <1>3 DEF OpenProject
<1>4. ASSUME NEW input \in Inputs, RenderFrame(input)
      PROVE  UNCHANGED picture
  BY <1>4 DEF RenderFrame
<1> QED
  BY <1>1, <1>2, <1>3, <1>4 DEF ViewportNext, Inputs, viewportVars

LEMMA ViewportInvariant == ViewportSpec => []ViewportInv
<1>1. ViewportInit => ViewportInv
  BY InitEngine, ViewportAssumption
<1>2. ViewportInv /\ [ViewportNext]_viewportVars => ViewportInv'
  BY EngineStays, SizesStay, AskedStays, PartsStay, PictureStays, ViewportAssumption
  DEF ViewportInv, EngineInv
<1> QED
  BY <1>1, <1>2, PTL DEF ViewportSpec

-----------------------------------------------------------------------------
\* Sizes are those of images, views those of the model, and an engine is ready
\* only with the view of a project file to fall back on.
THEOREM ViewportTypeCorrect == ViewportSpec => []ViewportTypeOK
<1>1. ViewportInv => ViewportTypeOK
  BY DEF ViewportInv
<1> QED
  BY <1>1, ViewportInvariant, PTL

\* While the frame heights asked for are from 1 to MaxHeight, frames are square
\* and as high as the last height asked for, after any number of projects, and
\* copying them never ends the server.
THEOREM FramesAreWhole == ViewportSpec => []FrameIsWhole
<1>1. ViewportInv => FrameIsWhole
  BY DEF ViewportInv
<1> QED
  BY <1>1, ViewportInvariant, PTL

\* A frame shows the camera and the transfer function of the last views that
\* had them, since the project was opened: the first of them is that of its
\* file or, if the file has none, of the last project before that had one.
THEOREM FramesShowLastParts == ViewportSpec => []PartsOfLastViews
<1>1. ViewportInv => PartsOfLastViews
  BY DEF ViewportInv
<1> QED
  BY <1>1, ViewportInvariant, PTL

\* The experiment reads past its buffer exactly for views that ask for less
\* than the height of the window, upside down or not.
THEOREM ExperimentReadsInside == ViewportSpec => []ExperimentReads
<1>1. ViewportInv => ExperimentReads
  BY DEF ViewportInv
<1> QED
  BY <1>1, ViewportInvariant, PTL

LEMMA BlankStays ==
  ASSUME ViewportAssumption, EngineInv, HeightWasAsked, HeightWasAsked',
         [ViewportNext]_viewportVars, Blank(engine),
         \A i \in DOMAIN heights' : heights'[i] >= 0
  PROVE  Blank(engine')
<1>0. /\ engine \in Engines /\ engine.size \in Sizes /\ heights \in Seq(Int)
      /\ engine.created /\ engine.size.w <= 0
  BY DEF EngineInv, ViewportTypeOK, Engines, Blank
<1>1. engine'.size.h >= 0
  BY DEF HeightWasAsked
<1>2. ASSUME NEW v \in Views, engine'.created, engine'.size \in SizeAfter(engine.size, v),
             heights' = heights \o Heights(v)
      PROVE  Blank(engine')
  <2>1. \A i \in DOMAIN heights : heights[i] >= 0
    <3>1. \A i \in DOMAIN heights : i \in DOMAIN heights' /\ heights'[i] = heights[i]
      BY <1>0, <1>2, HeightsBefore
    <3> QED
      BY <3>1
  <2>2. engine.size.h >= 0
    BY <2>1 DEF HeightWasAsked
  <2> QED
    BY <1>0, <1>1, <1>2, <2>2, SizeAfterView DEF Blank
<1>3. ASSUME NEW p \in Projects, OpenProject(p)
      PROVE  Blank(engine')
  <2>1. PICK v : v = DefaultAfter(engine, p)
    OBVIOUS
  <2>2. CASE UNCHANGED engine
    BY <2>2 DEF Blank
  <2>3. CASE /\ v \in Views /\ engine'.created
             /\ engine'.size \in
                  SizeAfter(IF engine.created THEN engine.size ELSE Square(Server), v)
             /\ heights' = heights \o Heights(v)
    BY <1>0, <1>2, <2>3
  <2> QED
    BY <1>3, <2>1, <2>2, <2>3, OpenLeaves
<1>4. ASSUME NEW input \in Inputs, RenderFrame(input)
      PROVE  Blank(engine')
  <2>1. PICK v : v = Shown(engine, input)
    OBVIOUS
  <2>2. /\ v \in Views /\ engine'.size \in SizeAfter(engine.size, v)
        /\ SameButView(engine, engine')
        /\ heights' = heights \o Heights(v)
    BY <1>4, <2>1, FrameLeaves
  <2> QED
    BY <1>0, <1>2, <2>2 DEF SameButView
<1>5. ASSUME NEW p \in Projects, Experiment(p)
      PROVE  Blank(engine')
  BY <1>5 DEF Experiment, Blank
<1>6. ASSUME UNCHANGED viewportVars
      PROVE  Blank(engine')
  BY <1>6 DEF viewportVars, Blank
<1> QED
  BY <1>3, <1>4, <1>5, <1>6 DEF ViewportNext, Inputs

\* One height of 0, and without a negative one the client never sees a pixel
\* again.
THEOREM BlankStaysBlank == ViewportSpec => BlankForEver
<1>1. ViewportInv /\ ViewportInv' /\ [ViewportNext]_viewportVars =>
        [(\A i \in DOMAIN heights' : heights'[i] >= 0) /\ Blank(engine)
           => Blank(engine')]_viewportVars
  BY BlankStays, ViewportAssumption DEF ViewportInv, EngineInv
<1> QED
  BY <1>1, ViewportInvariant, PTL DEF ViewportSpec, BlankForEver

=============================================================================
