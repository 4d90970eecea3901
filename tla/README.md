# Verification of La Manchaland

La Manchaland runs a large language model on a small network. A **controller**
(Go, `cmd/controller`) serves a dashboard and an OpenAI-compatible API, starts
`llama-server` as a child process and finds **workers** (`cmd/worker`) by mDNS.
The repository has no tests. This directory models the parts of it whose state
changes under more than one hand, checks them with TLC on small instances, and
proves their safety properties with TLAPS for all values of the constants.

## The system: inventory

| Component | State | Operations | What is hard about it |
|---|---|---|---|
| `internal/llmserver` | settings, `isRunning`, `cancel`, one mutex; the child processes | setters, `Start`, `Stop`, `Restart`, `StartNonBlocking`; a waiter goroutine per launch | `Start` holds the mutex for its whole 15 s poll; waiters of killed children report late; the kill is asynchronous; one port for all children |
| `internal/api/api.go` | `modelPath`, `mmprojPath`, `modelLoaded`, `rpcWorkers`, `clients`, one RWMutex | handlers of `/api/model`, `/api/workers`, `/api/workers/manual`, `/ws`; `broadcastUpdate`; a goroutine per load and per connection | two mutexes; broadcasts that lock again inside a locked section; flags set after the lock was released; map writes under a read lock |
| `internal/api/proxy.go` | none | `/v1/*` handlers | `IsRunning` is stale when the request is forwarded; the fallback's target |
| `internal/discovery` | map of workers, channel nobody reads | scanner goroutine, manual add, remove, metrics update | pointers shared with readers; entries without an IPv4 address; no expiry |
| `internal/config`, flags | none after start | defaults, file, flags | a sentinel that cannot override; partial files; RPC worker list that is parsed to nothing |
| `internal/monitor` | last sample | sampling, CSV of nvidia-smi | none that is concurrent |
| `cmd/controller` | contexts, HTTP server | start-up, signal, shutdown | `llm.Stop` is never called: the child survives, holds the port and answers the next controller's polls |
| `cmd/worker` | its own discovery map, RPC child | announce, report | the metrics update reaches only its own, empty map |
| dashboard (`webfs/web/ui/js/app.js`): connection | socket, timers, attempts | reconnect | two reconnects per failure |
| dashboard: chat | messages, history, attached image | send, stream, read an image | stream lines split across chunks; images that load late; errors swallowed by a catch |
| dashboard: forms and cards | workers, count, model's state, load button, device dialog | refresh of three requests, broadcasts, load, unload, add, open a device | refreshes and broadcasts overtake one another; an exception half way through an update; numbers of another device |
| dashboard: settings | the dialog's numbers, and their copies in `handleModel` and `llmserver` | save, load, the setters, `Start` | values that mean "absent" on one of four levels only; setters of several requests that mix |
| topology view (`topology.js`) | nodes, positions by id, animation frame | update, layout, animate, click | names that clash; a frame that throws is the last one |
| older UI copy, embedded files | | | not part of the core |

How they interact: a browser calls the handlers over HTTP and listens on `/ws`.
Handlers change `api.Server` under its RWMutex and call `llmserver.Server`, which
has a mutex of its own. A load is a goroutine that blocks in `Start`. Broadcasts
read `api.Server` and discovery and write to every client. The waiter goroutine
of each child changes `isRunning` when the child is gone.

What makes each part correct: the lifecycle must know which child its flag and
its cancel function stand for, stop what it started, and notice deaths; the API
must answer every request, never lose its mutex, use the workers it was given, never report a model that is not
there, and tell clients the latest state; discovery must list exactly the workers
that were found and not removed; the proxy must forward to the server that is
loaded; the dashboard must show every token, keep one connection, show one list in
its three views, show what the user's requests led to, and have the server started
with the numbers it shows. Of a controller that exits, the next one must not take
the child for its own.
PROJECT.json lists the hazards at their lines.

## Modules

| Module | Models | State and actions |
|---|---|---|
| `LlamaServer` | `internal/llmserver/server.go` | The fields under `Server.mu` (`settings`, `isRunning`, `cancel`), who is inside `Start`'s poll (`mu`, `polls`), who is inside `Restart`, per launch the stage of the child (`spawned`, `booting`, `loading`, `ready`, `exited`, `reaped`) and whether its context was cancelled, and the number of launches earlier controllers made (`born`). One action per critical section: setters, the three outcomes of `Start`, each poll, `Stop`, both halves of `Restart`, `StartNonBlocking`, `Reap` for the waiter, and `Exit` for the end of the controller and the start of the next. The child (binding the port, loading, dying) is the environment. |
| `OneServer` | what `llmserver` promises a caller | The server that answers to `Stop`, those lost, those told to stop that still run, the late reports and the survivors of earlier controllers. `LlamaServer` implements it (`OneServerKept`). |
| `RWMutex` | Go's `sync.RWMutex` (external) | The announced writer, the read locks each goroutine holds, and the readers that wait for the writer. `LockSpec` is the mutex on its own; `ApiServer` implements it (theorem `UsesMutex`). |
| `ApiServer` | `internal/api/api.go` and `proxy.go`, composed of `LlamaServer` and `RWMutex` by INSTANCE | A step (`pc`) per goroutine, the request each handler serves, the fields of `api.Server`, discovery's keys, the last `loaded` that was broadcast. One action per section between two points where the code can block or be interleaved. |
| `Discovery` | `internal/discovery/discovery.go` | The keys of the map with the status of their records, the entries the resolver has found, the step of the scanner's loop, the records in the channel, whether the process lives. |
| `Conversation` | what the chat promises the user | The messages with the conversation each was sent with, those whose response ended without an error (complete or cut short: the page cannot tell), the conversation as it stands. `ChatStream` implements it (`ConversationKept`). |
| `ChatStream` | `sendChatMessage` and the image preview of `app.js` | A record per message sent (its stage, the lines of the response, how much of it was read and in which pieces, text, what of it is on the page, image, context), `isGenerating`, `chatHistory`, images being read and attached. One action per callback or piece of code between two awaits. |
| `Reconnect` | the WebSocket of `app.js` | Counts of sockets that connect, are open or have failed, of timers and of attempts; the status shown. One action per callback. |
| `Topology` | `topology.js` | The nodes in drawing order, their places, the index by id, and whether frames still come. |
| `Dashboard` | the page around both: EXTENDS `Reconnect` and `Topology` | The history of the server's states, whether its mutex is lost (`wedged`), the broadcast under way, per slot a request of the user and then its refresh, what is shown, the device dialog. One action per answer, per piece of code between two awaits and per click. |
| `ModelSettings` | the numbers and paths of a load, in `app.js`, `handleModel` and `llmserver` | The request of each page, the handler's next setter, both copies of the paths, the fields of `llmserver`, the numbers a request found there. One action per critical section. |
| `MCLlamaServer`, `MCApiServer`, `MCDiscovery`, `MCChatStream`, `MCDashboard` | | Instances for TLC. |
| `LlamaServerProofs`, `ApiServerProofs`, `ApiServerRefinement`, `DiscoveryProofs`, `ChatStreamProofs`, `ReconnectProofs`, `DashboardProofs`, `ModelSettingsProofs` | | Theorems and proofs. |

Choices worth knowing:

- A launch is named by its number. `cancel` holds the launch its function would
  kill, so "overwritten without being called" is visible.
- `stopLocked` only cancels; the child dies later (`Die`), and its waiter reports
  later still (`Reap`), when the mutex is free.
- Any `ready` child answers a health poll: the poll asks the port, not the child.
- Of the setters of `llmserver`, `SetModelPath` and `SetRPCWorkers` are kept; the
  others assign a field under the mutex that only reaches the command line. They
  are in `ModelSettings`, with `mmprojPath`.
- `Exit` is a signal or a panic outside the handlers, at any point: goroutines and
  fields are gone, a spawned child that had not started never will, the others
  survive and keep the port. `main` returns with the HTTP server shut down and never
  calls `llm.Stop`. A child that was cancelled but not yet killed survives like any
  other: the kill is a goroutine of the controller's. The next controller begins as
  `main` leaves it, with any configured path and workers. The run `llama_orphan` excludes
  `Exit`: its orphan is one of a controller that runs on.
- Configured workers reach `llmserver` only: the loop that would add them to
  `api.Server` (`main.go:85-93`) parses none of them, since Sscanf knows no `%[`.
  `ApiServer` starts with an empty `rpcWorkers` and any of `ConfiguredLists` in
  `settings`.
- `Lock()` is two steps, since the announcement alone shuts out new readers, and
  so is `RLock()` when it has to wait. A section between them that does not block
  is one step.
- A broadcast builds its payload and writes it in one step: the read lock
  keeps the fields still in between. Any subset of the clients may fail. Two
  broadcasts under way at once with a client present may clash: the process
  dies, or net/http recovers the panic of a handler and its deferred unlocks run.
- `WriteMessage` has no deadline, so a broadcast to clients may never end. It can be
  delivered at any time; no fairness says that it is.
- After `AddRPCWorker` has asked for the nested read lock the handler has no
  action: the lock cannot be granted (theorem `WedgedForEver`), so the code
  behind it never runs.
- A `/v1` request is two steps: the `IsRunning` check, which waits for the mutex
  of `llmserver`, and everything after it. Completions, embeddings and the fallback
  differ in headers, in how they treat the body and in the address they ask, none
  of which is modelled.
- `Discovery` and `ApiServer` share no variables: the API sees the key set only, and
  what the map's own mutex protects is in `Discovery`.
- A streamed response is a sequence of kinds of lines. A position counts half
  lines, so a chunk may end at a line's end or inside it, and a text is the set of
  the lines it was made from.
- `contentEl` in `sendChatMessage` is the paragraph itself, so the `querySelector('p')`
  that should receive the text gives null. `ReadChunk` therefore lets the text grow
  and shows none of it; lines of reasoning go into a block of their own and are shown.
- The proxy ends a response whose copy failed like any other, so `EndStream` may come
  at any point, even before the first line; the page keeps what it has as the answer.
- A socket that fails fires `onerror` and then `onclose`; one that the server closes
  fires `onclose` alone. Sockets are alike, so they are counted. `new WebSocket` does not
  throw for an address made of the page's own host, so the catch behind it
  (`app.js:190-192`) is left out.
- A refresh asks three addresses at once. Its snapshots are numbers of server
  states, so "older than what was shown" can be said; the page compares nothing.
  `RefreshFails` stands for a refused request or a body that breaks off.
- What the server can report is a set of states in `Dashboard`; how it gets there is
  `ApiServer`'s subject. A load ends in a state with a path, an unload in one that is
  not loaded. Adding a worker lists it, is never answered, and takes the API mutex with
  it (`ServeAdd`): from then on no request for the model, no load and no broadcast comes
  through. Other clients may do the same at any time.
- A place on the canvas is the number of a slot on the circle, 0 for the centre.
  `drawNode` throws for a node without a place (`topology.js:146`), and the layout
  passes over a worker with the controller's name (`topology.js:70`). What breaks off
  then depends on who called: `updateWorkers` before its count (`app.js:242`), or the
  animation, which never asks for another frame.
- In `ModelSettings` a page is named with the handler that serves it. A value passes
  four places that each have a notion of "not given": `parseInt(..) ?? d` keeps NaN,
  JSON makes null of it, Go makes zero of that, and the handler takes zero for absent.
- Requests that only fail (wrong method, undecodable body) change nothing and are
  left out, except the 400 of `DELETE /api/workers`, which happens under the lock.

## Runs

| Run | Question | Bounds |
|---|---|---|
| `llama` | Do flag, cancel function and mutex always stand for the newest launch of this controller, and does nothing get between a `Start` and what it set? Can a server be lost other than behind a stale waiter or by an exit? Does it implement `OneServer`? Does `Start` return, is a death noticed, is a cancelled child reaped? | 2 callers, 3 launches, 2 polls, any number of exits |
| `llama_orphan` | Does `Stop` leave no server behind? **No**: the waiter of launch 1 clears the flag of launch 2, the next `Start` overwrites its cancel function, `Stop` reaches launch 3 only. | 3 launches, the calls the controller makes |
| `api_model` | Loads, reloads, unloads, deletes, status and `/v1` requests: one lock order, nobody waiting in a circle, clients told the truth in the end, no `/v1` request refused while a server runs unless a waiter has reported | 2 handlers, 1 load at a time, 2 launches, 1 poll |
| `api_workers` | Which requests can wedge the API mutex, is the client registry right, and is every request answered unless the mutex is wedged, broadcasts have clashed or one never gets done with a client? | 2 handlers, 1 load, 1 browser, 1 launch |
| `api_live` | The same of status requests, loads, unloads and removals | 2 handlers, 1 load, 1 launch |
| `api_add_wedge` | Is every request answered? **No**: adding a worker manually hangs, and with it every later request that needs the API mutex (not `GET /api/workers`, `/api/metrics` and `/v1`). | as `api_workers`, without the browser |
| `api_race` | Has a model reported as loaded a server? **No**: a `DELETE` may fall between the healthy poll and `modelLoaded = true`. | as `api_model` |
| `api_workers_unused` | Is a load told of the workers the controller lists, and does it leave those the configuration gave? **No**: nothing that discovery finds reaches `rpcWorkers`, and the first load overwrites the configured list with the API's empty one. | as `api_workers`, without the browser |
| `discovery` | Is every announced worker listed, though nobody reads the channel? How long can a worker without an address be listed? | 3 workers, one without an address, a channel of 2 |
| `chat` | Can two answers overlap, is the conversation the one `Conversation` promises and each context complete, what is lost when a response is cut, is an image sent once? | 2 messages, 2 images, two responses with every kind of line |
| `chat_shown` | Is what was received shown? **No**: the text is assigned to an element that does not exist, and the error is swallowed. | 1 message |
| `dashboard` | Does the page keep trying, show the truth about its connection, and how many sockets can there be? Is the load button disabled exactly during a request, are answered requests shown in the end, and once no refresh is under way, do the views agree, is each worker joined by its own edge, whose numbers does the dialog show? With which numbers is the server started, and does the API report its path? | in four parts, see below |

The bounds. Three launches are the least in which a stale waiter, a flag it
clears, and a server orphaned by the next `Start` follow one another. Two handlers
and a load goroutine give every pairwise race of the model requests and a reload;
with the load or a connection as the writer they also let a reader, an announced writer
and a broadcast meet. One poll stands for thirty where only
success or timeout matters; two are used where the count does. One worker and one path are enough because no property compares two.
`MaxLaunch` and `Loaders` also bound how many loads are accepted: `Receive` refuses
a load beyond them, so a bound never blocks a goroutine. A channel of two fills and
overflows with three workers. A configured list of one worker is enough to
be lost. Two messages are the least that can overlap or follow
each other in a context, and two images the least that can overtake each other. Handlers are
interchangeable, so `api_model`, which checks no liveness, uses their symmetry. `Spec` is
without deadlock checks for the API since it really stops: in a wedge, or after a
panic. So do the chat, once its messages are used up, and the page, when its
connection gives up.

`dashboard` explores the page in four parts, because what one part varies does not
matter to the properties of the others: the *socket* alone, with 3 attempts (the code
has 10) and 7 sockets, which let a connection open, fail and use up its attempts again; the
*requests*, with one socket that stays open, two slots and a history of two states,
so that a refresh can be overtaken by a request and by another refresh; the *device*
dialog and the graph, with sockets that come and go; and the *settings* of two pages.
Of four workers two share a name and one has the controller's; three lists combine
them. The dialog's fields hold positive, negative and unreadable numbers, and the zero of the
initial settings.
The page's own actions are the unrestricted ones of `Dashboard` in each part;
the theorems are about the whole of it.

Fairness. Goroutines are scheduled, so their steps are fair. Steps that take a
mutex are strongly fair: `sync.Mutex` hands over to a goroutine that has waited for
a millisecond, and `sync.RWMutex` queues its writers on such a mutex. A cancelled
child is killed (`exec.CommandContext` sends SIGKILL). Nothing else is fair:
requests need not arrive, a child may hang while it loads, a live child need not
die. The scanner's loop is scheduled, and the resolver delivers each entry in its turn
(`SF_vars(Receive(k))`). A broadcast to clients is not fair, because
its writes have no deadline: `AnsweredUnlessWedged` excuses one that never ends. A
refresh goes on as far as the server lets it: what can be answered is, and what was
answered is applied (`WF` on `Refreshing`). Once the API mutex is lost, `GET /api/model`
cannot be answered and the fetch, which has no timeout, waits for ever; `wedged` disables
the step and excuses `AnsweredIsShown`, as does `lost`, which remembers a failed refresh. The
page needs no other fairness: nobody must click, and the server need not broadcast. It is
assumed that a health poll is answered or refused and that a client that starts a request
body finishes it; `http.Get` and the JSON decoder have no timeout of their own.

## Proofs

`LlamaServerProofs`, for any set of callers, paths and lists and any bounds. The
inductive invariant `IInv` is the type invariant and four properties that need one
another. `LeakNeedsStaleReap` is about children, but what a reload cancels is decided
by `isRunning` and `cancel`: to preserve it, a launch must know that a set flag
means `cancel` is the newest launch (`RunningIsOwned`), and `Stop` must know that
`cancel` still is the newest launch after the flag was lost (`NewestIsCancellable`).
The conjunct `StartKeepsFlag` and the action property `StartIsAtomic` hold because every
writer of what a `Start` has set needs the mutex it polls with: were the waiter to
report without it, `StartUndisturbed` would fail at the first poll.
The lemmas `StopLockedIInv` and `LaunchIInv` treat the two ways the code changes
children, `FrameIInv` every step that changes none. `StopCompleteUntilStaleReap` is
the promise `llama_orphan` refutes, with the condition under which it holds.
`ImplementsOneServer` is the refinement: `IInv` shows which of `OneServer`'s steps each
step is. A launch changes only what `isRunning` stood for, a reap is a late report
unless it is the newest launch's, and an exit moves what lives to the survivors.

`ApiServerProofs`, for any number of handlers, loads and connections. `LockInv` says
that the read locks a goroutine holds or awaits are a function of its step
(`Depth`), that a writer is at a step that writes, and that a goroutine polls only
at `loadPoll`. Lemmas say what each operation of the mutex does to these shares;
`Move` says a step is fine if the goroutine arrives with the share its new step
calls for. From it: only worker requests wedge the mutex, a wedge is permanent, no
`Start` polls with the API mutex held. `UsesMutex` shows that the shares are handled as
`sync.RWMutex` allows, step by step; that a wedge is permanent (`WedgedForEver`) is then a
fact of the mutex alone, so it is a theorem and no property of a run. `NoCircle` is about both mutexes: `Awaits` names the goroutines that have to move
before one can, and without a wedge a reader waits for a writer at most, that one for a
reader it found, and that one for a `Start` that polls with no share and awaits nobody
(`WaitersHaveWriter`, `WaitsAreShort`). That whoever awaits nobody does go on is
what `api_live` checks.

`ApiServerRefinement` composes the two: every step of a handler, load or connection is a
step of `LlamaServer` or leaves its variables alone (lemma `LlmNext`). For that a load must
hand over a list of workers `LlamaServer` knows: the first one that is appended wedges the
mutex, so that there is never a second (`RpcInv`). Two theorems say what that means: a worker
on the list is a wedge (`FirstWorkerWedges`), and since a load reads the list with the mutex
held and sets it before its `Start`, every llama-server is launched with an empty list,
configured workers included (`NoWorkerReachesServer`; `ListBeforeLoads` says that what the
configuration gave lasts until the first load). What `api_workers_unused` finds
on one instance is so for every one. With the refinement,
`LSP == INSTANCE LlamaServerProofs` carries the lifecycle's
inductive invariant over to the API (`ServerStaysSound`), and its refinement too: the API
server keeps the promise of `OneServer` (`ApiKeepsOneServer`). From the invariant follows
when the proxy refuses (`RefusalExplained`). `ConnInv` keeps the registry to the steps of
connections. `FreshInv` says that a value of `modelLoaded` nobody was told of has a
goroutine on its way to broadcast.

`DiscoveryProofs`, for any workers, any of them without an address, and any channel.
`AddresslessIsFatal` relates the map to the scanner's step, and the type invariant
makes it inductive.

`ChatStreamProofs`, for any responses and any number of messages and images.
The history of a finished conversation depends on there being one turn at a time,
which depends on `isGenerating` being cleared with the turn that set it: these are
proved together, over an operator on whole turn records so that each action shows
what it does to one turn. That a text holds exactly the uncut lines follows from how
the lines within one chunk and the lines before it add up (lemmas over arbitrary
positions). That an image is sent once needs that an image being read is not yet
attached, and that numbers are given once. `ImplementsConversation` is the refinement: a
send is a send, a response that ends without an error keeps the turn, whether it was
complete or cut short, a refusal, a failed request or a stream that breaks off drops it, and everything between (chunks, images) is a stutter. The
history in order (`HistoryKept`) is the lemma it rests on.
`OnlyReasoningIsShown` says of every response what `chat_shown` finds on one: of what the
page shows, no line is a line of text.

`ReconnectProofs`, for any bounds. The bound on sockets counts what each opened
connection allows: every timer is paid for by an attempt, and only `onopen`
resets the attempts. The arithmetic is in lemmas over plain numbers.

`DashboardProofs`, for any workers, names, states, slots and history. Every step of the
page is a step of `Reconnect` or leaves it alone (lemma `SocketIsReconnect`), so the theorems
about the connection hold of the page, its types within `PageTypeOK`. Types need a pigeonhole argument: that of several
nodes with one id there is a last one (`HasLast`), since a layout's index takes the last.
`GraphInv` ties nodes, places, positions and animation to the list that is shown; while
no worker is misnamed every node has a place, so nothing throws. `LoadInv` says that
the loads under way are one and the same. `EffectsShown` needs to know where an
effect is while it is not shown: in a refresh that will bring it, unless one failed or
broke off (`EffectOnItsWay`). A refresh that was overtaken brings an older state and takes
nothing back from what was seen. `DialogHonest` needs that only the first
node is the controller's, and that no two nodes share a place.

`ModelSettingsProofs`, for any pages, files and typed numbers. `PathsInv` says how far
the paths have got: while one handler works alone, what it is yet to set is what the API
has already. `NumbersInv` says of the numbers, setter by setter up to the `Start`, that one
the request gave is in place once its setter has run, and that any other is what the
request found (`found`). `DialogReachesServer` covers every number a field can hold.

Assumptions used: `Nobody` is not a goroutine, the sets of goroutines are disjoint,
`NoPath` is not a path, configured lists are sequences of workers, bounds are naturals and there is
at least one poll, requests are requests, addressless workers are workers, responses
are sequences of kinds of lines with `[DONE]` last if at all, there may be at least
one socket, the controller is not a worker record and each record has a name, server
states are records of a list of workers and three flags, `NoFile` is not a file, NaN
is not an integer, the dialog's fields hold integers or NaN, and configured numbers
are naturals. TLC evaluates all of them.

Every safety property the passing runs check is proved. Only model-checked is
liveness, which is out of the proof system's reach: `StartReturns`, `DeathIsNoticed`,
`CancelledIsReaped`, `AnsweredUnlessWedged`, `AnnouncedIsListed`, `AnsweredIsShown`.

## What the models show of the code

Besides the five promises the runs refute (`api_workers_unused` in two ways: neither
discovered nor configured workers are ever used), the conditions under which properties hold
say where the code is weak:

- A waiter's late report is the only way a running controller loses a server
  (`LeakNeedsStaleReap`, `OneServerKept`). A controller that exits leaves its child to
  nobody, and may leave one that it had told to stop.
- `DELETE /api/model` clears the API's paths only, and an empty projector clears
  `llmserver`'s only; two handlers that meet between their setters leave the path of one
  and the settings of the other (`ApiKnowsServer`, `LoadUsesDialog`).
- Zero GPU layers, zero threads, negative numbers of anything but GPU layers and
  what is not a number cannot be asked for: the server is started with what was kept
  before (`LoadUsesDialog`). The dialog says "Threads (0 = auto)" (`index.html:274`), and a
  zero there changes nothing once an earlier load or the configuration has set a number.
- One worker named `controller` stops the graph until the page is loaded again, and
  may keep the count and the model's state from being shown (`ViewsAgreeUnlessMisnamed`,
  `AnsweredIsShown`).
- Without local metrics the controller's dialog shows the numbers of the device
  that was opened before (`DialogIsOfDevice`).
- The state shown may go back to an older one, since a refresh that was overtaken
  is applied all the same; `AnsweredIsShown` and `ShownAtRest` promise only that the
  newer one appears, the first eventually, the second by the time no refresh is under way.
- The load button is disabled while the request is under way, not while the model
  loads (`OneLoadAtATime`).

## Not modelled

- `internal/monitor`: samples the machine and keeps a field nobody reads.
- The older copy of the UI under `src/web`: not embedded in the binary. Static files
  and `webfs.go` have no state.
- How defaults, the file and the flags combine: sequential code that runs once. `ModelSettings` starts from any result.
- The worker's RPC child, started and stopped once by one owner, and the worker's
  private map of metrics, which has no reader; hence `UpdateWorkerMetrics`.
- `/v1/models` and its unlocked read of the path (a torn read of a string has no place in
  a model of values), the fallback's address, `/v1` bodies that are JSON `null`, headers.
- The records `GetWorkers` shares with writers: a race tears one record for one
  broadcast, and the next one repairs it.
- A health poll or a request body that never ends: neither has a timeout, and both
  hold a mutex. The fairness above assumes they end. A client that does not read is in
  the model as a broadcast that never ends, but what holds meanwhile is not: liveness
  excuses it.
- Timeouts of the network and of the HTTP server (none is configured), limits of
  memory, files and processes, and clocks.
- Drawing: colours, labels, the canvas's size (a resize changes it and does not lay
  the nodes out again), wording, file pickers, the copy button and the reasoning switch.

Several properties name an exception because the code really takes it (a report of an
older waiter, handlers that meet between their setters, an ill-named worker, a cut
response): they say what holds apart from it, and the hazards in PROJECT.json note where
that leaves a hazard open. Further work would be larger instances, and proofs of liveness
if a prover for it is at hand.
