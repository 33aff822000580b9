# TLA+ models of DXServer

DXServer renders volume data for several browsers. Three programs take part:

    browser  <- socket.io ->  gateway (Node)  <- websocket, JSON-RPC ->  render server (C++)

The hard part is the render server: three threads without much locking keep the
requests of each client in order by counting them. These modules model that, the
communicator in front of it, the engines behind it and the gateway; TLC checks
them on small instances, and TLAPS proves every safety property for all instances.

## 1. The system

| Part | Source | State | Operations | Module |
|---|---|---|---|---|
| Request queue | `src/RequestQueue.*`, `Util/Request.*` | `_central_queue`, `_graphic_queue`, `_queue_lock` | `newRequest` (splits and enqueues), `dequeueCPU`, `dequeueGPU` | `Dispatch`, `DispatchScan` |
| Task handlers | `src/TaskHandler.*` | the locals of two threads | `processNextRequest` for ever | `Dispatch`, `Rendering` |
| Client list | `Util/Client.*` | two counters, `_created`, `_ready`, an engine per client | `get`, `add`, counters, `openProject`, `initGL`, `renderFrame`, `getScene` | `Dispatch`, `Rendering` |
| Resolve list | `Util/Resolve.*` | `_reply_list`, `_reply_next` | `add`, `pop` | `Dispatch`, `ResolveList` |
| Communicator | `src/Communicator.*` | `_clients`: key -> socket | new connection, closure, message, `clientKey`, `onResolve` | `DXServer` |
| Engine | `Graphics/Engine.*` | data, mode, view, scene, renderer, image size, camera, transfer functions | `loadJSONFile`, `loadData`, `initScene`, `updateView`, `resize`, `render`, `serializeScene` | `Rendering`, `Viewport` |
| Web gateway | `nodejs/main.js`, `nodejs/module/*` | sockets, engines, `rpcCallList`, `vox.clients`, `vox.engines` | socket.io events, websocket events | `Gateway`, `Sessions` |
| Benchmark | `nodejs/simulate.js` | | opens, waits, asks for 100 frames | `Sessions` |
| Experiment | `src/Experiment.cpp` | | opens and draws the projects given as arguments | `Viewport` |
| Process start | `src/Main.cpp` | | which threads exist and what they do | `Dispatch`, `Viewport` |

Not modelled: the OpenGL context and windows (`DXGL`, `egl`, `qt`: one-time driver calls),
the file loaders (I/O; `Rendering` only tells whether they throw, and whether the values
have a type that `initScene` knows), the field names in `SceneDictionary.h`, and the
browser front end (a submodule that is not in this repository). Of the parts that are
modelled, left out are: the text of the JSON messages and `projectClosed`, which is never
sent; pixels, and the numbers inside cameras and transfer functions (the JSON library
throws for parts it cannot read; such a view stands with those of the wrong kind); OpenGL
residency, which begins and ends within a task; the thread pool members of `TaskHandler`,
which nothing uses; `vox.clients` and `vox.engines`, which are written and never read
(line 69 of `main.js` means to delete from them and never does); `Broadcast`, the Express
server, and `debugEngine.js`, whose params are a string, so that no file name is found and
the project it opens ends the server (an outcome `Rendering` has).

**How the parts interact.** The main thread runs the Qt event loop: websocket slots,
`newRequest` (a direct call), and `onResolve` (a queued call). The CPU and the GPU
thread poll their queue for a request whose ticket `_exp` equals
`_curr_request_counter` of its client, execute it, put the reply closure into the
resolve list, emit `onResolve(id)` and increment the counter. `_queue_lock` covers
`newRequest` and a whole `dequeue`; nothing covers `Client` and `Engine`. The gateway
is one Node process with one connection to the server per browser socket.

**What is hard.** Tickets, overriding notifications and two threads decide together
whether a client is ever served again; replies cross three threads and find their
socket late; keys outlive connections and even the process; an exception in a handler
thread ends the server for everyone; all browsers share one call list in the gateway.
`PROJECT.json` lists every such place with its line ("hazards") and the property for it.

**What makes each part correct.** *Dispatching*: one handler per client, nothing executed
twice, replies in order, no empty closure, progress of well-behaved clients. *Resolve
list*: an id leads to the reply it was made for, also after it has wrapped.
*Communicator*: a key leads to an open socket of the right browser, closures and takeovers
do not disturb others, a reply reaches the connection that still has its key. *Engine*: no
scene is used before it exists, frames and scenes show the project opened last, at the
size and with the parts the last views ask for, and clients cannot end the server as long
as they are coherent: they open projects that can be used and send views that fit them,
none with a frame height of 0, below 0 or too large for an image. *Gateway*: an answer
reaches its caller, and connections that fail do not end the process. *Sessions*: who
waits for `projectOpened` is served.

## 2. Modules

| Module | Role |
|---|---|
| `Dispatch` | main thread, CPU thread, GPU thread, resolve list: one action per step between which another thread can act |
| `SerialService` | what dispatching promises: numbered turns per client, one at a time, in order |
| `DispatchRefinement` | the mapping from `Dispatch` to `SerialService` |
| `DispatchExpected` | what notes and comments say where `Dispatch` (the code) does otherwise |
| `DispatchScan` | dispatching at the grain of the queue lock: `dequeue` request by request |
| `Sessions` | the gateway's sessions and the benchmark, with messages on their way, in front of `Dispatch` |
| `ResolveList`, `MCResolveList` | the resolve list with ids that wrap, and its instance |
| `Viewport`, `MCViewport` | image sizes, cameras and transfer functions of an engine, the experiment, and their instance |
| `DXServer`, `MCDXServer` | `Dispatch` behind the communicator, and its instance |
| `Rendering`, `MCRendering` | `Dispatch` in front of the engines and a browser, and its instance |
| `Gateway` | the Node process, with the server as a pipe per connection |
| `DispatchProofs` | theorems about `Dispatch`, and that it implements `SerialService`; the lemmas the next four build on |
| `DispatchScanProofs`, `DXServerProofs`, `RenderingProofs`, `SessionsProofs` | theorems about the modules that extend `Dispatch` |
| `ResolveProofs`, `ViewportProofs`, `GatewayProofs` | theorems about the modules that stand alone |

A definition preceded by a comment that starts with "Mutant:" is a faulty variant of
the one below it, used to show that a property depends on that line of code.

### Dispatch

| Definition | Code |
|---|---|
| `queue["CPU"]`, `queue["GPU"]` | `_central_queue`, `_graphic_queue` |
| `next`, `curr` | the two counters of a `Client` |
| `pc`, `hand`, `slot` | where a thread is in `processNextRequest`, its locals, the id it is about to emit |
| `replyList`, `replyNext`, `events` | resolve list, and the queued `onResolve` calls |
| `NewRequest` | `newRequest` with `enqueue`: a notification takes the place of the first one like it *and* is pushed back |
| `Dequeue`, `Execute`, `Post`, `IncrementCurrCounter`, `UnknownMethod` | the steps of `processNextRequest`; `UnknownMethod` is the branch that neither answers nor counts |
| `OnResolve` | `Communicator::onResolve` |

`dequeue` reads counters that the other thread may increment during the scan. It can
do so once only (its next request needs the lock), so the scan equals an atomic one
just before or just after that increment, and `Dequeue` is one step: `DispatchScan`
checks that argument. The connection delivers in order (Qt posts events of one receiver
in order).

`Patient` clients restrict themselves: no `closeProject`, and no `openProject` while a
notification of theirs waits. All other clients send anything at any time. `Sessions`
shows which of the programs are patient.

### DispatchScan

`Acquire`, `Skip`, `Take` and `GiveUp` are `dequeue`: lock, one call of `isReady()` per
step, and the erasure. `pos[h]` is the iterator of `find_if`; a thread owns `_queue_lock`
while its `pos` is not 0. `newRequest` waits for the lock and is one step, for all it
touches is read under the lock. Everything else is a step of `Dispatch`.

### Sessions

`Deliver` is `processTextMessage` for the next message of a connection, `Receive` the
arrival of `projectOpened`, the only reply that makes a program send something. What
arrives besides is passed on. `hasty` remembers who selected a project before all
earlier ones were reported open; only the properties read it. A frame the user asks for
by dragging is a call like those that are in the model and is left out.

### ResolveList

`First` and `Last` are the least and the greatest `int`. `Increment` wraps: the overflow
of a signed integer is undefined, and the builds there are increment. `Add` is
`resolves::add`; `Emit` is the step after it, in which the id is posted; `OnResolve` is
`pop` and the call. Replies are numbered from 0 (`added`, `base`); no guard reads the
numbers but the bound.

### DXServer

`clientSocket` is `_clients`. `ProcessRequest` uses the key the socket has now,
`ServerOnResolve` the socket the key has then. `ProcessClientKey` is `remapClientKey`;
its guard `s \notin greeted` is the gateway's: `clientKey` is the first message of a
connection and is sent once (`main.js:36`). `Restart` ends the process at any step and
starts it again; `generated` returns to 0 because `rand()` is never seeded. Messages of
a socket without a key are dropped and need no action. `asker`, `lastKey` and
`drawnFor` are history for the properties; no guard reads them.

### Rendering

`engine[c]` holds `_created`, `_ready`, `_mode`, `_data`, `_jsonView`, `_jsonMethod`, the
type of `_volume`, and for which data `_sceneGrid` and `_sceneTets` were built. Each
operator of the module is the method with that name; `failed` says that it threw or used a
null pointer, and `Terminate` ends the process then. Of `_size` it keeps only `odd`: that
some view in use asked for a height of 0, below 0, or too large. From then on
`copyRenderedImage` may throw (`CopyMayFail`) and may not, for what it does depends on the
sizes, which are in `Viewport`. `Untyped` projects have a grid whose values have a type
`initScene` throws for. The payload of a request is found by its ticket (`arg`), so queue
and threads are those of `Dispatch`, unchanged. A browser may ask for a frame with an
empty scene or with the one it received last (`note-week5.md:12`: after a drag), to which
it may have added a frame height. OpenGL residency is not state: `loadGL` and `unloadGL`
bracket a task of a single thread.

### Viewport

`Rendering` tells which project is shown, `Viewport` how large and how seen. `engine` has
`_size`, the sizes of both renderers, and for camera and transfer functions the view they
were last set by. A view may lack each part, and the frame height inside the camera, which
is any `int`; a project file may lack a view, and then the one loaded before counts
(`Load`) or `loadData` throws (`LoadFits`). The width of an image is computed as
`int(aspect * h)` from the size before. `AsInt` has the outcomes: the quotient without its
fraction (exact for squares; what the rounding of a `float` may add to others is left
out), and for what is not a number, infinite or too large, where C++ leaves it undefined,
what the builds there are return. `Copied` says whether `copyRenderedImage` ends well: it
does up to `MaxHeight` squared pixels, it does not for a negative product, and above the
memory and the `int` index decide. `ended` says what ended the process. Transfer and
occlusion transfer function stand or fall together. `OpenProject` is `loadData` and
`initGL` in one step, as no task of the client runs in between (`OneHandlerPerClient`).
`Experiment` is `startExperiment`, which runs in the GPU thread before it serves requests,
on clients of its own.

### Gateway

The engine of a socket has the name of the socket: `clientKey` arrives once per socket.
`calls` is `rpcCallList`; `pipe[b]` is what the server has yet to send on the
connection of `b`. The server may tell the connection its key or give it the key, and
so the remaining answers, of an earlier connection (`ServerLearnsKey`). `by` in a result
records who made the call; no action reads it. Sending on a connection that is not open
throws, which nothing in `main.js` catches (`Throws`). The websocket library is external:
while a connection is closing it may still deliver messages.

## 3. Runs

| Run | Instance | Shows |
|---|---|---|
| `dispatch_two` | a patient and an unrestricted client, frames, `openProject` and `closeProject`, 4 tickets, fairness | types, one handler per client, no empty closure; refinement of `SerialService`; a stuck client, by an override or by `closeProject`, stays stuck, and its requests stay; the patient client never is, and is always answered |
| `scan` | 2 unrestricted clients, 4 tickets | a scan that is interrupted ends like one that is not; the inductive invariant (by which nothing is served twice) and the refinement hold at this grain, too |
| `server` | 2 browsers, 3 connections, 3 keys, 1 restart | the communicator's properties |
| `rendering` | 1 client, 7 tickets, 6 kinds of project files | the engine's properties; with three `openProject`, copies of notifications are overridden and copied again, and the requests of a stuck client stay |
| `gateway` | 2 sockets, 1 user event each | no answer is lost, mix-ups need a shared id, and only a user who acts on a session without an open connection ends the process |
| `resolve` | 2 threads, 4 ids, 8 replies, fairness | ids lead to their replies, and every reply is called |
| `viewport` | 6 views, 6 projects of both kinds, one without a view, heights -400, 0, 300 and 4000, 5 tasks | sizes, cameras and transfer functions, and which sizes end the server |
| `sessions` | a user who selects twice, and the benchmark with 1 frame, fairness | only a hasty user gets stuck; the others are served, and replies leave in the order of the requests |
| `doc_turn_is_owned` | 1 client | a second `openProject` too early stops the client for good |
| `doc_executed_is_counted` | 1 client | `closeProject` is never completed |
| `doc_old_client` | as `server` | after a restart, a browser takes over the client of another |
| `doc_own_engine` | as `gateway` | browsers are given each other's answers |

The `doc_` runs are expected to be violated: each checks a sentence of the notes or of a
comment that the code does not keep (`PROJECT.json`, "findings").

**Bounds.** `MaxTicket` bounds the requests of a client; it is a guard of `NewRequest` and
nothing else. An `openProject` takes two tickets, so four let a second one override the
first, in `dispatch_two` for either client (the patient one only if it were not patient)
and in `scan`, where the copies are then passed over while the other client's counter
moves. That copies are overridden and copied in turn takes a third, hence six tickets;
`rendering`, with seven, has it. In `sessions` it is 15, what two selections and the
requests on connecting add up to, so that it never stops anybody; a longer loop of the
benchmark adds calls that nothing can override. Eight replies are two rounds of the four
ids of `resolve`; the ids include a negative one and 0, where the code starts. The views
of `viewport` have camera, transfer function and height, some or none of them. Its heights
are one less than the 600 the server starts with and the 800 of the experiment, 0, one
below 0, and one too large to be copied; `MaxInt` is 20000 and `MaxHeight` 2000, for TLC's
own numbers end at 2^31 and the model multiplies them. Five tasks let a project follow on
a height of 0 and on a frame that was drawn from another, and heights of 0, -400 and 300
follow each other, after which there are images again. Seven in `rendering` allow: open,
ask for the scene, open a project of the other kind, frame with the old scene, and one
more. Three connections allow a reload, a second window and a stranger. `MaxRestarts` is 1
because a second restart starts from nothing again. `MaxEvents` is 1: with the requests
sent when a connection and when a project opens, a socket already makes up to four calls.
Deadlock is not checked, since clients that have used up their bound owe nothing and the
system stops.

**Fairness** (`FairSpec`): weak fairness of each handler thread, which loops over
`processNextRequest` for ever, and of `OnResolve`, since the Qt event loop delivers what
is posted. No fairness for clients, and none is needed of the lock: a thread that scans
gives it up again without waiting for anything. The fairness says a thread that has a
ready request eventually takes it; a scheduler that starves one thread at the lock for
ever is excluded. A `std::mutex` promises nothing about that, so `scan`, which has the
lock, checks safety only. `SessionSpec` adds that something that is on its way on a
connection arrives (TCP), and nothing about users. `FairResolveSpec` asks the same of
threads and event loop as `FairSpec`, as long as the process runs.

## 4. Theorems

Every invariant and every action property that a passing run checks is stated by a
theorem, for all values of the constants that satisfy the assumptions of its module:

| Assumption | Says, besides the types of the constants |
|---|---|
| `DispatchAssumption` | nothing: any clients, methods, patient clients and `MaxTicket` |
| `ResolveAssumption`, `NothingAssumption` | 0 is between the least and the greatest id; `Nothing` is not an id with a number |
| `ServerAssumption` | `rand()` does not repeat a key within a process; `NoKey` is not a key |
| `RenderingAssumption` | projects and scenes differ; `NoProject` is not a project, `NoScene` not a project, a scene or an image; only grids have values of an unknown type, and only files with a view an odd height |
| `ViewportAssumption` | a height in a view is an `int` inside a camera; `NoHeight` is not a number, `NoView` not a view; the images of the experiment can be copied (`MaxHeight` is from 800 to `MaxInt`) |
| `SessionsAssumption` | the methods include those the programs send |
| `GatewayAssumption` | nothing: any browsers and `MaxEvents` |

- `Dispatch`. `TypeCorrect`; `PostedRegistered`: `Spec => []PostedIsRegistered`;
  `TicketsKept`: `Spec => []TicketInv`, and from it `OneThreadPerClient`; `FrozenStays`:
  `Spec => FrozenForEver`; `FrozenPilesUp`: `Spec => FrozenRequestsStay`;
  `PatientKeepsItsTurn`: `Spec => []PatientNeverFrozen`; `AnswersInOrder`: `Spec =>
  []RepliesInOrder`; `ServesInTurn`: `Spec => ImplementsSerialService`, that is, `Spec =>
  Served!Spec`.
- `DispatchScan`. `ScanTypeCorrect`; `ScanTicketsKept`: `TicketInv` at the grain of the
  lock; `ScanEndsAsInOneStep`: `ScanIsOneStep`; `ScanServesInTurn`: the refinement at that
  grain.
- `Sessions`. `OnlyTheHastyFreeze`: `SessionSpec => []OnlyHastyFreezes`;
  `SessionsServedInTurn`: the refinement, with the sessions as clients;
  `SessionsAnsweredInOrder`: `[]RepliesInOrder`.
- `DXServer`. `ServerTypeCorrect`; `ServerKeepsTickets`: the guarantees of dispatching,
  through restarts; `KeysLeadSafely`: `[]KeysLeadToLiveSockets`; `BrowsersApart`:
  `[]KeyStaysInBrowser`; `OrphansWereTakenOver`: `[]OrphanedByTakeover`; `KeptIsAnswered`:
  `[]KeptConnectionIsAnswered`; `OwnersUnmap`: `OnlyOwnerUnmaps`.
- `Rendering`. `RenderTypeCorrect`; `RenderKeepsTickets`; `RenderPilesUp`:
  `FrozenRequestsStay`; `NothingUsedTooEarly`: `[]NoNullDereference`;
  `FramesShowProjects`: `[]FrameShowsProject`; `FramesShowDefaultViews`:
  `[]FrameShowsDefaultView`; `ScenesAreOfProjects`: `[]SceneIsOfProject`;
  `CoherentClientsAreSafe`: `[]OnlyIncoherentEnds`.
- `Viewport`. `ViewportTypeCorrect`; `FramesAreWhole`: `[]FrameIsWhole`;
  `FramesShowLastParts`: `[]PartsOfLastViews`; `ExperimentReadsInside`:
  `[]ExperimentReads`; `BlankStaysBlank`: `BlankForEver`.
- `Gateway`. `GatewayTypeCorrect`; `NoAnswerIsDropped`: `[]AnswersFindCalls`;
  `MixedBySharing`: `[]OnlySharedIdsMix`; `EndedByUsers`: `[]OnlyUsersEnd`.
- `ResolveList`. `IdsTyped`: `[]ResolveTypeOK`; `RepliesMatch`: `[]MatchedUnlessOverrun`.

*One set of lemmas for five specifications.* `DispatchStep` is any step of `newRequest`
or of the server, where a thread may take any request that is ready (`TakesReady`) and
not only the first. The lemmas about dispatching are proved of `DispatchStep`
(`StepTyped`, `StepTickets`, `StepOrder`, `StepServed`, `TurnServer`); of `Dispatch`
itself, of a scan with its lock, of the communicator between restarts, of the engines and
of the sessions it is then enough to show that each of their steps is a `DispatchStep`.

*Why `TicketInv`.* That no two threads work for one client is not inductive. What keeps
them apart is that the request in hand is the client's turn (`TurnInHand`) and that the
two queues share no ticket (`QueuesDisjoint`). Within a queue, though, a ticket can occur
twice, because a notification that takes another one's place is pushed back as well. If
the first copy could be taken while the second waits, it would be executed twice. It
cannot: the ticket that was thrown away was smaller, belongs to nobody now, and so the
client's turn never gets as far as the copies. This is `CopiesWait`, the heart of the
invariant: it turns one defect of `enqueue` into the reason that the other is harmless.

*Why `PatientKeepsItsTurn`.* The strengthening is `KeepsTurn` for every patient client:
each of its tickets from its turn up to its next ticket is held by some request
(`AllHeld`), and each of its requests is of a method that its thread has a branch for
(`AllHandled`). The
first needs that a patient client never takes another request's ticket away, the second
that it never sends `closeProject`, which alone ends in the branch that does not count.

*Why `RepliesMatch`.* Ids repeat, so that an id is in the list says nothing about whose it
is. `base` is the number of the reply that got, or will get, the id `First` in the present
round; the id of reply `n` is then `First + n - base` in this round, and the same plus
`Size` in the one before. As long as nobody waited for `Size` additions, what is
outstanding belongs to these two rounds, and different numbers in a window of `Size` have
different ids: so an `Add` cannot hit an entry that is still needed, and a `pop` erases
only its own.

*Why `AnswersInOrder`.* A reply is on its way for a while: it is posted, waits in the
event queue, and is then found in the resolve list under its id. `OrderInv` therefore
orders what is sent and what is coming in one line per client, and says that whatever
stands in that line is for a ticket below the client's turn, or for the turn itself while
its thread has still to count it. So when a thread posts, with its client's turn in hand,
everything in the line is for an earlier ticket: another thread that has still to count
the same turn would break `OneHandlerPerClient`. This needs the post before the count,
in the order of the code, and the first-in-first-out event queue of Qt.

*Why `ServesInTurn`.* `NewRequest` maps to `Accept`, `Dequeue` to `Start`, the increment to
`Complete`, the unknown method to `Abandon`, `OnResolve` to `Answer`; execution and
posting are stutters. Two parts are not by definition. A client may become jammed only
when it sends or when its own turn ends: what others enqueue takes none of its tickets
(`SubmitKeepsOthers`) and dequeue hands a ticket from the queue to the thread
(`TakeHolds`). And an answer must be above all earlier answers of the client and not
beyond its turn, which is `OrderInv` once more.

*Why `FrozenPilesUp`.* What waits of a client is counted (`Number`). To enqueue is to
write over a request of the same client and to append, so no number shrinks; and what a
thread takes is ready, so that its client's turn is held and the client is not frozen.

*Why `ScanEndsAsInOneStep`.* `ScanInv` says of a thread that scans: the other has no
position of its own (`OnlyScanner`); the counters are those it found when it got the lock,
or one of them has moved by one and no thread has a request (`OneCountMoved`); and what
it passed was not ready when it got the lock (`PassedOver`). The other thread cannot count
twice, for it takes its next request under the lock. A request that was ready at first is
still ready at the end: the ticket that was counted meanwhile was in a hand, and by
`ServedOnce` no waiting request has it. So what a scan takes is the first request that was
ready at the start or the first that the count has made ready, and that it gives up means
that nothing was ready at the start.

*Why `OnlyTheHastyFreeze`.* A session goes by what has arrived, `KeepsTurn` by what waits
in the server's queues. The bridge is an account of every project on its way. For each
client, `Started` adds up the `openProject` in its outbox, the `initGL` that wait, are in
hand, or whose replies are coming, and the `projectOpened` that were sent; no step makes
it grow but a selection (`NoneMadeUp`). Who is not hasty has selected at most one project
more than have been reported open (`OneAtATime`), and only what was sent has arrived
(`WhatArrived`). So when an `openProject` leaves her outbox, nothing of hers that it could
override waits on the graphic side, and then nothing on the central side either: a
`loadData` waits only together with the `initGL` of the same `openProject`
(`Companions`), since the two have successive tickets and are taken in order. The number
of elements of a queue with a property and how `Enqueue`, `RemoveAt`, `Append` and `Tail`
change it are lemmas of `DispatchProofs`.

*Why the theorems about `DXServer`.* `KeysInv` adds to the properties: keys in use were
drawn by this process (`KeysDrawn`), a socket has no key but the last it was given
(`LastKeyIsKey`), before a restart a browser has been told only keys that were drawn for
it (`ToldIsDrawnFor`), and who asked under a key and has not sent `clientKey` since has
had no other (`AskersKept`). `KeptConnectionIsAnswered` also needs `OrderInv`: what is sent
is a ticket that was handed out, so somebody asked for it.

*Why the theorems about `Rendering`.* The engine has no lock, and what it holds depends on
the tasks done so far. `Done(c)` is the client's ticket up to which they are done, and
`EngineFits` ties the engine to the project opened last below it. Between `loadData` and
`initGL` data and scene do not fit each other; that nothing is drawn then is `CarryInv`
(the two tasks carry the same project on successive tickets) together with `TicketInv`:
the next request of this client can only be that `initGL` (`OnlyInit`). `AnswersFit` keeps
for each answer what it was drawn for: the last project that was read and, for a frame
without a scene, the last that had a view; these two need not be one project, nor the last
one opened (`OfProject` has each of them as a parameter of its own). `ScenesAnswered`
says that the scenes a browser sends back are answers it got, but for the height. That an
image can be allocated for a coherent client is `WasOdd`: the engine is odd only if the
client opened an odd project or sent an odd scene. The process ends by an exception and
never by a null pointer, and for an incoherent client (`EndInv`).

*Why the theorems about `Viewport`.* `NothingBefore` says that nothing was seen of an
engine before its first project, and `DefaultIsFirst` that the view in `_jsonView` is the
first of those used since the scene was made, also when the file brought none. Sizes come
from two lemmas about arithmetic: a square stays a square, at any height and upside down
(`WidthsOfSquare`), and a quotient is not positive if the dividend is not and the divisor
is not negative (`AsIntTyped`). The second is why nothing but a negative height ends
blankness; `HeightWasAsked` supplies the divisor.

*Why `NoAnswerIsDropped`.* Every browser's answers are looked up in one list by id, and a
found entry is erased. `CallsSuffice` counts: for each id there are at least as many
entries in the list as answers in all pipes together. While an id is not shared this holds
engine by engine, too, which gives `MixedBySharing`: all entries for the id then have the
same owner. A message that arrives takes one answer out of one pipe and at most one entry
out of the list; the lemmas `Number...` and `HeldInOne` do the counting. `EndedByUsers` is
`OpenedByUser`: what the server reports open, some user asked for.

Only model-checked: liveness (`PatientIsAnswered`, `EveryReplyIsCalled`,
`SessionsAreServed`), which is out of the prover's reach. Nothing in the theorems is by
induction over data.

## 5. Plan

Done: A `Dispatch` and its abstract service; B its invariants and the refinement proved; C
`DXServer`; D `Rendering`; E `Gateway`; F `ResolveList`, with its proof; G `DispatchScan`;
H `Viewport`; I `Sessions`.

Proofs: J every invariant and action property of all modules, `ScanInv` and
`ScanIsOneStep`, the keys of `DXServer`, the engines of `Rendering`, the sizes of
`Viewport`, the lists of `Gateway` and the sessions.

Next: an abstract specification of the gateway (a browser is answered once per call, by
an engine of its own while ids are not shared) and of the communicator (a key has at most
one open socket of its browser), with the refinements proved from `CallsSuffice` and
`KeysInv`; and the safety half of `SessionsAreServed`, that a client who was not hasty and
is owed something has a message or a request on its way.
