------------------------------ MODULE ApiServer ------------------------------
(* The controller's HTTP and WebSocket handlers (internal/api/api.go and      *)
(* proxy.go) with the goroutines they leave behind, over the llama-server     *)
(* lifecycle of LlamaServer and the RWMutex api.Server.mu.                    *)
(*                                                                            *)
(* A handler serves one request at a time; a load spawns a goroutine; every   *)
(* WebSocket connection leaves a cleanup goroutine.  Lock() is two steps,     *)
(* Announce and the section that ends in Unlock.  A section between Lock and  *)
(* Unlock is one step unless it calls something that blocks.                  *)
EXTENDS Naturals, Sequences, FiniteSets
LOCAL INSTANCE Functions

CONSTANTS Handlers, Loaders, Conns, Nobody,
          Paths, NoPath, Workers, None,
          ConfiguredLists,  \* lists of workers the configuration may name
          Requests,     \* the requests clients send
          MaxLaunch, MaxPolls

Goroutines == Handlers \cup Loaders \cup Conns

AllRequests ==
  [kind : {"setModel", "load", "unload"}, arg : Paths \cup {NoPath}]
    \cup [kind : {"addWorker", "deleteWorker"}, arg : Workers]
    \cup [kind : {"getModel", "deleteModel", "v1"}, arg : {None}]

NoRequest == [kind |-> "none", arg |-> None]

ASSUME RequestsAssumption == Requests \subseteq AllRequests
ASSUME GoroutinesAssumption ==
  /\ Nobody \notin Goroutines
  /\ Handlers \cap Loaders = {}
  /\ Conns \cap (Handlers \cup Loaders) = {}

ASSUME NoPathAssumption == NoPath \notin Paths
ASSUME ConfiguredAssumption == ConfiguredLists \subseteq Seq(Workers)
ASSUME BoundsAssumption == MaxLaunch \in Nat /\ MaxPolls \in Nat \ {0}

VARIABLES pc, req,
          modelPath, modelLoaded, rpcWorkers, clients,  \* fields of api.Server
          workers,       \* keys of the discovery map
          sentLoaded,    \* "loaded" in the last broadcast
          crashed,       \* the process has panicked
          writer, readers, waiting,                     \* api.Server.mu
          settings, isRunning, cancel, mu, polls,       \* llmserver.Server
          launched, proc, cancelled

apiVars == <<modelPath, modelLoaded, rpcWorkers, clients, workers, sentLoaded>>
lockVars == <<writer, readers, waiting>>
llmVars == <<settings, isRunning, cancel, mu, polls, launched, proc, cancelled>>
vars == <<pc, req, apiVars, crashed, lockVars, llmVars>>

\* What llmserver starts with, and what AddRPCWorker makes of api.Server's empty
\* list: it wedges the mutex with its first append, so no list grows longer.
RpcLists == {<<>>} \cup ConfiguredLists \cup {<<w>> : w \in Workers}

LS == INSTANCE LlamaServer WITH Callers <- Loaders, restarting <- {}, born <- 0
Mu == INSTANCE RWMutex

Steps == {"idle", "getLock", "getRead", "postLock", "postLlm", "unloadStop",
          "unloadLock", "delStop", "delLock", "addDiscovery", "addLock",
          "addNested", "rmLock", "rmRemove", "rmSend", "v1Check", "v1Forward",
          "loadLock", "loadStart", "loadPoll", "loadedLock", "bcast", "send",
          "wsLock", "wsDone"}

\* The steps that begin with s.mu.Lock(), and those that take the mutex of
\* llmserver.
LockSteps == {"postLock", "unloadLock", "delLock", "addLock", "loadLock",
              "loadedLock", "wsLock", "wsDone"}
LlmSteps == {"getRead", "postLlm", "unloadStop", "delStop", "v1Check",
             "loadLock", "loadStart"}

TypeOK ==
  /\ pc \in [Goroutines -> Steps]
  /\ req \in [Handlers -> AllRequests \cup {NoRequest}]
  /\ modelPath \in Paths \cup {NoPath}
  /\ modelLoaded \in BOOLEAN
  /\ rpcWorkers \in RpcLists
  /\ clients \subseteq Conns
  /\ workers \subseteq Workers
  /\ sentLoaded \in BOOLEAN
  /\ crashed \in BOOLEAN
  /\ Mu!LockTypeOK
  /\ LS!TypeOK

\* Before it listens, cmd/controller passes the configured path to both servers
\* and the configured workers to llmserver only: the loop that would add them to
\* api.Server as well parses none of them.
Init ==
  /\ pc = [g \in Goroutines |-> "idle"]
  /\ req = [h \in Handlers |-> NoRequest]
  /\ modelPath \in Paths \cup {NoPath}
  /\ modelLoaded = FALSE
  /\ rpcWorkers = <<>>
  /\ clients = {}
  /\ workers = {}
  /\ sentLoaded = FALSE
  /\ crashed = FALSE
  /\ Mu!LockInit
  /\ \E r \in {<<>>} \cup ConfiguredLists :
       settings = [modelPath |-> modelPath, rpcWorkers |-> r]
  /\ isRunning = FALSE
  /\ cancel = 0
  /\ mu = Nobody
  /\ polls = 0
  /\ launched = 0
  /\ proc = [i \in {} |-> "spawned"]
  /\ cancelled = {}

Goto(g, step) == pc' = [pc EXCEPT ![g] = step]

\* The request has been answered.
Finish(h) ==
  /\ Goto(h, "idle")
  /\ req' = IF h \in Handlers THEN [req EXCEPT ![h] = NoRequest] ELSE req

Busy == {g \in Handlers \cup Loaders : pc[g] # "idle"}
Quiet == Busy = {}
-----------------------------------------------------------------------------
(* Arrival.  MaxLaunch and Loaders bound the load requests in flight.       *)

PendingLoads ==
  {l \in Loaders : pc[l] # "idle"} \cup {h \in Handlers : req[h].kind = "load"}

FirstStep(kind) ==
  CASE kind = "getModel" -> "getLock"
    [] kind \in {"setModel", "load", "unload"} -> "postLock"
    [] kind = "deleteModel" -> "delStop"
    [] kind = "addWorker" -> "addDiscovery"
    [] kind = "deleteWorker" -> "rmLock"
    [] kind = "v1" -> "v1Check"

Receive(h) ==
  /\ pc[h] = "idle"
  /\ \E r \in Requests :
       /\ r.kind = "load" => /\ Cardinality(PendingLoads) < Cardinality(Loaders)
                             /\ launched + Cardinality(PendingLoads) < MaxLaunch
       /\ req' = [req EXCEPT ![h] = r]
       /\ Goto(h, FirstStep(r.kind))
  /\ UNCHANGED <<apiVars, lockVars, llmVars>>

\* s.mu.Lock() announces itself.
Announce(g) ==
  /\ pc[g] \in LockSteps
  /\ Mu!Announce(g)
  /\ UNCHANGED <<pc, req, apiVars, llmVars>>

\* s.mu.RLock() at the head of a reading section.
Enter(g, here, there) ==
  /\ pc[g] = here
  /\ Mu!RLock(g)
  /\ Goto(g, there)
  /\ UNCHANGED <<req, apiVars, llmVars>>
-----------------------------------------------------------------------------
(* broadcastUpdate.  The payload and the writes are one section.  A client   *)
(* whose write fails is closed and deleted, under the read lock.             *)

Deliver ==
  /\ \E failed \in SUBSET clients : clients' = clients \ failed
  /\ sentLoaded' = modelLoaded
  /\ UNCHANGED <<modelPath, modelLoaded, rpcWorkers, workers>>

BroadcastLock(g) == Enter(g, "bcast", "send")

BroadcastSendTwice(g) ==             \* an RUnlock beside the deferred one
  /\ pc[g] = "send"
  /\ Deliver
  /\ Mu!RUnlock(g, 2)
  /\ Finish(g)
  /\ UNCHANGED llmVars

BroadcastSendKeepsLock(g) ==         \* forgets its RUnlock
  /\ pc[g] = "send"
  /\ Deliver
  /\ Finish(g)
  /\ UNCHANGED <<lockVars, llmVars>>

BroadcastSend(g) ==
  /\ pc[g] = "send"
  /\ Deliver
  /\ Mu!RUnlock(g, 1)
  /\ Finish(g)
  /\ UNCHANGED llmVars

Broadcasting == {g \in Goroutines : pc[g] \in {"send", "rmSend"} /\ Mu!Shared(g)}

\* Two broadcasts write to the same connections, and may both delete from the
\* map: the process dies, or one handler's panic is recovered by net/http
\* after its deferred RUnlocks.
BroadcastClash(g) ==
  /\ g \in Broadcasting
  /\ Broadcasting # {g}
  /\ clients # {}
  /\ \/ /\ crashed' = TRUE
        /\ UNCHANGED <<pc, req, lockVars>>
     \/ /\ g \in Handlers
        /\ Mu!RUnlock(g, readers[g])
        /\ Finish(g)
        /\ UNCHANGED crashed
  /\ UNCHANGED <<apiVars, llmVars>>
-----------------------------------------------------------------------------
(* GET, POST and DELETE /api/model.                                         *)

GetModelLock(h) == Enter(h, "getLock", "getRead")

\* llmServer.IsRunning needs the other mutex, which a Start may hold for long.
GetModelRead(h) ==
  /\ pc[h] = "getRead"
  /\ mu = Nobody
  /\ Mu!RUnlock(h, 1)
  /\ Finish(h)
  /\ UNCHANGED <<apiVars, llmVars>>

PostModelPath(h) ==
  /\ pc[h] = "postLock"
  /\ Mu!Unlock(h)
  /\ modelPath' = req[h].arg
  /\ Goto(h, "postLlm")
  /\ UNCHANGED <<req, modelLoaded, rpcWorkers, clients, workers, sentLoaded, llmVars>>

\* The llmServer setters, then the action of the request.
PostModelLlm(h) ==
  /\ pc[h] = "postLlm"
  /\ LS!SetModelPath(req[h].arg)
  /\ \/ /\ req[h].kind = "setModel"
        /\ Finish(h)
     \/ /\ req[h].kind = "load"
        /\ \E l \in {k \in Loaders : pc[k] = "idle"} :
             pc' = [pc EXCEPT ![h] = "idle", ![l] = "loadLock"]
        /\ req' = [req EXCEPT ![h] = NoRequest]
     \/ /\ req[h].kind = "unload"
        /\ Goto(h, "unloadStop")
        /\ UNCHANGED req
  /\ UNCHANGED <<apiVars, lockVars>>

UnloadStop(h) ==
  /\ pc[h] = "unloadStop"
  /\ LS!Stop
  /\ Goto(h, "unloadLock")
  /\ UNCHANGED <<req, apiVars, lockVars>>

UnloadWithoutBroadcast(h) ==         \* drops the broadcast at the end
  /\ pc[h] = "unloadLock"
  /\ Mu!Unlock(h)
  /\ modelLoaded' = FALSE
  /\ Finish(h)
  /\ UNCHANGED <<modelPath, rpcWorkers, clients, workers, sentLoaded, llmVars>>

UnloadDone(h) ==
  /\ pc[h] = "unloadLock"
  /\ Mu!Unlock(h)
  /\ modelLoaded' = FALSE
  /\ Goto(h, "bcast")
  /\ UNCHANGED <<req, modelPath, rpcWorkers, clients, workers, sentLoaded, llmVars>>

DeleteModelStop(h) ==
  /\ pc[h] = "delStop"
  /\ LS!Stop
  /\ Goto(h, "delLock")
  /\ UNCHANGED <<req, apiVars, lockVars>>

\* The path llmServer would start with stays as it was.
DeleteModelDone(h) ==
  /\ pc[h] = "delLock"
  /\ Mu!Unlock(h)
  /\ modelPath' = NoPath
  /\ modelLoaded' = FALSE
  /\ Goto(h, "bcast")
  /\ UNCHANGED <<req, rpcWorkers, clients, workers, sentLoaded, llmVars>>
-----------------------------------------------------------------------------
(* The goroutine of a load.                                                 *)

LoadKeepsLock(l) ==                  \* "defer s.mu.Unlock()" around Start
  /\ pc[l] = "loadLock"
  /\ Mu!Exclusive(l)
  /\ LS!SetRPCWorkers(rpcWorkers)
  /\ Goto(l, "loadStart")
  /\ UNCHANGED <<req, apiVars, lockVars>>

LoadSetWorkers(l) ==
  /\ pc[l] = "loadLock"
  /\ Mu!Unlock(l)
  /\ LS!SetRPCWorkers(rpcWorkers)
  /\ Goto(l, "loadStart")
  /\ UNCHANGED <<req, apiVars>>

LoadFails(l) ==
  /\ pc[l] = "loadStart"
  /\ LS!StartNoPath(l) \/ LS!StartNoBinary(l)
  /\ Finish(l)
  /\ UNCHANGED <<apiVars, lockVars>>

LoadLaunches(l) ==
  /\ pc[l] = "loadStart"
  /\ LS!StartLaunch(l)
  /\ Goto(l, "loadPoll")
  /\ UNCHANGED <<req, apiVars, lockVars>>

LoadReadyLocked(l) ==                \* Start reports before it unlocks
  /\ pc[l] = "loadPoll"
  /\ mu = l
  /\ \E i \in LS!Launches : proc[i] = "ready"
  /\ Goto(l, "loadedLock")
  /\ UNCHANGED <<req, apiVars, lockVars, llmVars>>

LoadReady(l) ==
  /\ pc[l] = "loadPoll"
  /\ LS!PollHealthy(l)
  /\ Goto(l, "loadedLock")
  /\ UNCHANGED <<req, apiVars, lockVars>>

LoadPolls(l) ==
  /\ pc[l] = "loadPoll"
  /\ LS!PollUnhealthy(l)
  /\ Goto(l, IF mu' = l THEN "loadPoll" ELSE "idle")
  /\ UNCHANGED <<req, apiVars, lockVars>>

LoadedBroadcastLocked(l) ==          \* broadcasts before it unlocks
  /\ pc[l] = "loadedLock"
  /\ Mu!Exclusive(l)
  /\ Mu!RLock(l)
  /\ modelLoaded' = TRUE
  /\ Goto(l, "send")
  /\ UNCHANGED <<req, modelPath, rpcWorkers, clients, workers, sentLoaded, llmVars>>

LoadedDone(l) ==
  /\ pc[l] = "loadedLock"
  /\ Mu!Unlock(l)
  /\ modelLoaded' = TRUE
  /\ Goto(l, "bcast")
  /\ UNCHANGED <<req, modelPath, rpcWorkers, clients, workers, sentLoaded, llmVars>>
-----------------------------------------------------------------------------
(* POST /api/workers/manual and DELETE /api/workers.                        *)

AddToDiscovery(h) ==
  /\ pc[h] = "addDiscovery"
  /\ workers' = workers \cup {req[h].arg}
  /\ Goto(h, "addLock")
  /\ UNCHANGED <<req, modelPath, modelLoaded, rpcWorkers, clients, sentLoaded,
                 lockVars, llmVars>>

\* AddRPCWorker appends and calls broadcastUpdate before its deferred Unlock;
\* that RLock is never granted, so the handler has no further step.
AddRPCWorker(h) ==
  /\ pc[h] = "addLock"
  /\ Mu!Exclusive(h)
  /\ rpcWorkers' = Append(rpcWorkers, req[h].arg)
  /\ Mu!RLock(h)
  /\ Goto(h, "addNested")
  /\ UNCHANGED <<req, modelPath, modelLoaded, clients, workers, sentLoaded, llmVars>>

\* The mDNS scanner lists a worker; nobody tells rpcWorkers.
Discovered(w) ==
  /\ workers' = workers \cup {w}
  /\ UNCHANGED <<pc, req, modelPath, modelLoaded, rpcWorkers, clients,
                 sentLoaded, lockVars, llmVars>>

RemoveWorkerLock(h) == Enter(h, "rmLock", "rmRemove")

\* The body is decoded and the broadcast begins under the first RLock.
RemoveWorker(h) ==
  /\ pc[h] = "rmRemove"
  /\ Mu!Shared(h)
  /\ \/ /\ Mu!RUnlock(h, 1)          \* 400, invalid request
        /\ Finish(h)
        /\ UNCHANGED apiVars
     \/ /\ workers' = workers \ {req[h].arg}
        /\ Mu!RLock(h)
        /\ Goto(h, "rmSend")
        /\ UNCHANGED <<req, modelPath, modelLoaded, rpcWorkers, clients, sentLoaded>>
  /\ UNCHANGED llmVars

RemoveWorkerSend(h) ==
  /\ pc[h] = "rmSend"
  /\ Deliver
  /\ Mu!RUnlock(h, 2)
  /\ Finish(h)
  /\ UNCHANGED llmVars
-----------------------------------------------------------------------------
(* The requests of /v1 that go to llama-server.  Completions, embeddings and *)
(* the fallback differ in headers and in the address they ask.               *)

V1CheckLoaded(h) ==                  \* asks modelLoaded instead of IsRunning
  /\ pc[h] = "v1Check"
  /\ mu = Nobody
  /\ \/ modelLoaded /\ Goto(h, "v1Forward") /\ UNCHANGED req
     \/ ~modelLoaded /\ Finish(h)
  /\ UNCHANGED <<apiVars, lockVars, llmVars>>

\* IsRunning waits for the mutex of llmserver, and 503 says the model is not
\* loaded.
V1Check(h) ==
  /\ pc[h] = "v1Check"
  /\ mu = Nobody
  /\ \/ isRunning /\ Goto(h, "v1Forward") /\ UNCHANGED req
     \/ ~isRunning /\ Finish(h)
  /\ UNCHANGED <<apiVars, lockVars, llmVars>>

\* The body is read and sent on, whatever holds by then: a child answers, the
\* new one with 503 while it loads, or the connection is refused and 502 says
\* so.
V1Forward(h) ==
  /\ pc[h] = "v1Forward"
  /\ Finish(h)
  /\ UNCHANGED <<apiVars, lockVars, llmVars>>
-----------------------------------------------------------------------------
(* /ws.  The request context ends when the handler returns, so the cleanup  *)
(* goroutine is free to run at once.                                        *)

WsUpgrade(c) ==
  /\ pc[c] = "idle"
  /\ Goto(c, "wsLock")
  /\ UNCHANGED <<req, apiVars, lockVars, llmVars>>

WsRegister(c) ==
  /\ pc[c] = "wsLock"
  /\ Mu!Unlock(c)
  /\ clients' = clients \cup {c}
  /\ Goto(c, "wsDone")
  /\ UNCHANGED <<req, modelPath, modelLoaded, rpcWorkers, workers, sentLoaded, llmVars>>

WsCleanupKeeps(c) ==                 \* closes the connection, keeps the entry
  /\ pc[c] = "wsDone"
  /\ Mu!Unlock(c)
  /\ Goto(c, "idle")
  /\ UNCHANGED <<req, apiVars, llmVars>>

WsCleanup(c) ==
  /\ pc[c] = "wsDone"
  /\ Mu!Unlock(c)
  /\ clients' = clients \ {c}
  /\ Goto(c, "idle")
  /\ UNCHANGED <<req, modelPath, modelLoaded, rpcWorkers, workers, sentLoaded, llmVars>>
-----------------------------------------------------------------------------
ModelStep(h) ==
  \/ GetModelLock(h)
  \/ GetModelRead(h)
  \/ PostModelPath(h)
  \/ PostModelLlm(h)
  \/ UnloadStop(h)
  \/ UnloadDone(h)
  \/ DeleteModelStop(h)
  \/ DeleteModelDone(h)

WorkerStep(h) ==
  \/ AddToDiscovery(h)
  \/ AddRPCWorker(h)
  \/ RemoveWorkerLock(h)
  \/ RemoveWorker(h)
  \/ RemoveWorkerSend(h)

V1Step(h) == V1Check(h) \/ V1Forward(h)

LoadStep(l) ==
  \/ LoadSetWorkers(l)
  \/ LoadFails(l)
  \/ LoadLaunches(l)
  \/ LoadReady(l)
  \/ LoadPolls(l)
  \/ LoadedDone(l)

BroadcastStep(g) == BroadcastLock(g) \/ BroadcastSend(g)

WsStep(c) == WsRegister(c) \/ WsCleanup(c)

\* Whatever a goroutine does once it is under way.
Step(g) ==
  /\ ~crashed
  /\ \/ Announce(g)
     \/ g \in Handlers /\ (ModelStep(g) \/ WorkerStep(g) \/ V1Step(g))
     \/ g \in Loaders /\ LoadStep(g)
     \/ g \in Conns /\ WsStep(g)
     \/ BroadcastStep(g)
  /\ UNCHANGED crashed

Arrive ==
  /\ ~crashed
  /\ \/ \E h \in Handlers : Receive(h)
     \/ \E c \in Conns : WsUpgrade(c)
     \/ \E w \in Workers : Discovered(w)
  /\ UNCHANGED crashed

Clash == ~crashed /\ \E g \in Goroutines : BroadcastClash(g)

ChildDo(A) == ~crashed /\ A /\ UNCHANGED <<pc, req, apiVars, crashed, lockVars>>

Child(i) ==
  ChildDo(\/ LS!RunChild(i)
          \/ LS!BindPort(i)
          \/ LS!FinishLoading(i)
          \/ LS!Die(i)
          \/ LS!Reap(i))

Next ==
  \/ Arrive
  \/ \E g \in Goroutines : Step(g)
  \/ Clash
  \/ \E i \in LS!Launches : Child(i)

\* A broadcast is under way to clients.  WriteMessage has no deadline: it may
\* block on one that does not read, with the read lock held.
WritesToClients(g) == g \in Broadcasting /\ clients # {}

\* Goroutines are scheduled.  Neither mutex starves a waiter for ever
\* (sync.Mutex hands over to a long waiter, sync.RWMutex queues its writers on
\* one), so a goroutine that can step again and again does, unless it writes to
\* clients.  Requests need not arrive, their bodies do, and a child owes only
\* its death when it is cancelled.
Fairness ==
  /\ \A g \in Goroutines : SF_vars(~WritesToClients(g) /\ Step(g))
  /\ \A i \in 1 .. MaxLaunch :
       /\ WF_vars(i \in LS!Launches /\ ChildDo(LS!RunChild(i)))
       /\ WF_vars(i \in LS!Launches /\ ChildDo(LS!Killed(i)))
       /\ SF_vars(i \in LS!Launches /\ ChildDo(LS!Reap(i)))

Spec == Init /\ [][Next]_vars
FairSpec == Spec /\ Fairness
-----------------------------------------------------------------------------
(* Safety.                                                                  *)

\* A Start polls for up to 15 s with Server.mu of llmserver held; it never
\* holds api.Server.mu meanwhile, so the two mutexes are taken in one order.
PollsWithoutApiLock ==
  mu # Nobody => writer # mu /\ readers[mu] = 0 /\ mu \notin waiting

\* Loads, unloads, deletes and status requests, in any number and order, never
\* wedge the API mutex: only the worker requests lock it twice.
OnlyWorkerRequestsWedge ==
  Mu!Wedged => \E h \in Handlers : req[h].kind \in {"addWorker", "deleteWorker"}

\* The goroutines that have to move before g can.
Awaits(g) ==
  IF g \in waiting THEN {writer}
  ELSE IF pc[g] \in LockSteps /\ ~Mu!Exclusive(g)
    THEN IF writer = g THEN {r \in Goroutines : readers[r] > 0}
                       ELSE {writer} \ {Nobody}
  ELSE IF pc[g] \in LlmSteps THEN {mu} \ {Nobody} ELSE {}

\* Goroutines never wait for one another in a circle, over both mutexes: at
\* worst a reader waits for a writer, the writer for a reader it found, and
\* that one for a Start that polls.  The only circles are wedges.
NoCircularWait ==
  ~Mu!Wedged =>
    \A g \in Goroutines : \A a \in Awaits(g) : \A b \in Awaits(a) :
      \A c \in Awaits(b) : Awaits(c) = {}

\* Once every request and load is over, clients were last told what holds: the
\* last writer of modelLoaded is followed by a broadcast that reads it.
LastBroadcastFresh == Quiet => sentLoaded = modelLoaded

\* The registry holds no connection whose cleanup has run, even when a failed
\* write and the cleanup race to delete it.
ClientsAreOpen == \A c \in clients : pc[c] = "wsDone"

\* The proxy says "model not loaded" while a server runs that nothing has told
\* to stop only after a waiter has reported: a load, a reload or a slow start
\* never makes it refuse (handleChatCompletions and its siblings).
RefusesBehindReapOnly ==
  [][\A h \in Handlers :
       pc[h] = "v1Check" /\ pc'[h] = "idle"
         => LS!Live \subseteq cancelled \/ LS!Reaped # {}]_vars

\* After the last request and load, a model reported as loaded still has a
\* server that the next Stop can reach.
LoadedHasServer == Quiet /\ modelLoaded => cancel # 0

\* A load hands llama-server every worker the controller lists by then, and
\* leaves it those that the configuration gave it (rpc_workers).
LoadUsesWorkers ==
  [][\A l \in Loaders : LoadSetWorkers(l) =>
       workers \cup Range(settings.rpcWorkers) \subseteq Range(settings'.rpcWorkers)]_vars
-----------------------------------------------------------------------------
(* Liveness.                                                                *)

\* Every request is answered, unless worker requests have wedged the mutex, two
\* broadcasts have clashed or one never gets done with a client.
AnsweredUnlessWedged ==
  \/ \E g \in Goroutines : <>[]WritesToClients(g)
  \/ \A h \in Handlers : pc[h] # "idle" ~> pc[h] = "idle" \/ Mu!Wedged \/ crashed

\* Every request is answered unless the process panics.
Answered == \A h \in Handlers : pc[h] # "idle" ~> pc[h] = "idle" \/ crashed
=============================================================================
