------------------------- MODULE ApiServerRefinement -------------------------
(* What is proved of llama-server's lifecycle holds behind the API, which     *)
(* keeps what it tells browsers true: the refinement of LlamaServer by        *)
(* ApiServer, the registry of connections and the last broadcast, for any     *)
(* number of goroutines.                                                      *)
EXTENDS ApiServerProofs

ConnSteps == {"idle", "wsLock", "wsDone"}
SendSteps == {"bcast", "send", "rmSend"}
Others == Handlers \cup Loaders

\* The connections keep to their own steps, and the registry to them.
ConnInv ==
  /\ \A c \in Conns : pc[c] \in ConnSteps
  /\ clients \subseteq Conns
  /\ ClientsAreOpen

\* A value not yet broadcast has its broadcast to come.
FreshInv ==
  \/ sentLoaded = modelLoaded
  \/ \E g \in Others : pc[g] \in SendSteps

\* The first worker that is appended wedges the mutex for ever.
RpcInv ==
  /\ rpcWorkers \in RpcLists
  /\ rpcWorkers # <<>> =>
       \E g \in Handlers : pc[g] = "addNested" /\ writer = g /\ g \in waiting

Inv == LockInv /\ ConnInv /\ FreshInv /\ RpcInv
-----------------------------------------------------------------------------
(* What a step does to the goroutines it is not about.                      *)

\* Steps of a handler leave every goroutine alone but for the loader a load
\* wakes.
LEMMA HandlerMoves ==
  ASSUME LockInv, NEW h \in Handlers, ModelStep(h) \/ WorkerStep(h) \/ V1Step(h)
  PROVE  \A g \in Goroutines \ {h} :
           pc'[g] = pc[g] \/ (g \in Loaders /\ pc[g] = "idle" /\ pc'[g] = "loadLock")
<1>1. pc \in [Goroutines -> Steps] /\ h \in Goroutines /\ Loaders \subseteq Goroutines
  BY DEF LockInv, Typed, Goroutines
<1>2. CASE ModelStep(h)
  <2>1. CASE PostModelLlm(h)
    BY <1>1, <2>1 DEF PostModelLlm, Finish, Goto
  <2>2. CASE ~PostModelLlm(h)
    BY <1>1, <1>2, <2>2
       DEF ModelStep, GetModelLock, Enter, GetModelRead, PostModelPath, UnloadStop,
           UnloadDone, DeleteModelStop, DeleteModelDone, Finish, Goto
  <2> QED BY <2>1, <2>2
<1>3. CASE WorkerStep(h)
  BY <1>1, <1>3 DEF WorkerStep, AddToDiscovery, AddRPCWorker, RemoveWorkerLock, Enter,
                    RemoveWorker, RemoveWorkerSend, Finish, Goto
<1>4. CASE V1Step(h)
  BY <1>1, <1>4 DEF V1Step, V1Check, V1Forward, Finish, Goto
<1> QED BY <1>2, <1>3, <1>4

\* Steps of any other goroutine leave the rest alone.
LEMMA OtherMoves ==
  ASSUME LockInv, NEW g \in Goroutines,
         LoadStep(g) \/ WsStep(g) \/ BroadcastStep(g) \/ WsUpgrade(g)
  PROVE  \A k \in Goroutines \ {g} : pc'[k] = pc[k]
<1>1. pc \in [Goroutines -> Steps]
  BY DEF LockInv, Typed
<1> QED BY <1>1 DEF LoadStep, LoadSetWorkers, LoadFails, LoadLaunches, LoadReady,
                    LoadPolls, LoadedDone, WsStep, WsRegister, WsCleanup,
                    BroadcastStep, BroadcastLock, Enter, BroadcastSend, WsUpgrade,
                    Finish, Goto

LEMMA ClashMoves ==
  ASSUME LockInv, NEW g \in Goroutines, BroadcastClash(g)
  PROVE  /\ \A k \in Goroutines \ {g} : pc'[k] = pc[k]
         /\ g \notin Handlers => pc'[g] = pc[g]
         /\ UNCHANGED <<apiVars, llmVars>>
<1>1. pc \in [Goroutines -> Steps]
  BY DEF LockInv, Typed
<1> QED BY <1>1 DEF BroadcastClash, Finish, Goto

LEMMA ReceiveMoves ==
  ASSUME LockInv, NEW h \in Handlers, Receive(h)
  PROVE  /\ \A k \in Goroutines \ {h} : pc'[k] = pc[k]
         /\ pc[h] = "idle"
         /\ UNCHANGED <<apiVars, lockVars, llmVars>>
<1>1. pc \in [Goroutines -> Steps]
  BY DEF LockInv, Typed
<1> QED BY <1>1 DEF Receive, Goto
-----------------------------------------------------------------------------
(* The registry of connections.                                             *)

LEMMA ConnKept ==
  ASSUME ConnInv, \A c \in Conns : pc'[c] = pc[c], clients' \subseteq clients
  PROVE  ConnInv'
BY DEF ConnInv, ClientsAreOpen

LEMMA NextConnInv == LockInv /\ ConnInv /\ [Next]_vars => ConnInv'
<1> SUFFICES ASSUME LockInv, ConnInv, [Next]_vars PROVE ConnInv'
  OBVIOUS
<1>0. /\ Conns \subseteq Goroutines
      /\ \A h \in Handlers \cup Loaders : h \notin Conns
  BY GoroutinesAssumption DEF Goroutines
<1>1. CASE Arrive
  <2>1. ASSUME NEW h \in Handlers, Receive(h) PROVE ConnInv'
    BY <1>0, <2>1, ReceiveMoves, ConnKept DEF apiVars
  <2>2. ASSUME NEW c \in Conns, WsUpgrade(c) PROVE ConnInv'
    <3>1. pc' = [pc EXCEPT ![c] = "wsLock"] /\ clients' = clients /\ pc[c] = "idle"
      BY <2>2 DEF WsUpgrade, Goto, apiVars
    <3>2. c \notin clients
      BY <3>1 DEF ConnInv, ClientsAreOpen
    <3> QED BY <1>0, <3>1, <3>2 DEF ConnInv, ConnSteps, ClientsAreOpen, LockInv, Typed
  <2>3. ASSUME NEW w \in Workers, Discovered(w) PROVE ConnInv'
    BY <2>3, ConnKept DEF Discovered
  <2> QED BY <1>1, <2>1, <2>2, <2>3 DEF Arrive
<1>2. ASSUME NEW g \in Goroutines, Step(g) PROVE ConnInv'
  <2>1. CASE Announce(g)
    BY <2>1, ConnKept DEF Announce, apiVars
  <2>2. CASE g \in Handlers /\ (ModelStep(g) \/ WorkerStep(g) \/ V1Step(g))
    <3>1. \A c \in Conns : pc'[c] = pc[c]
      BY <1>0, <2>2, HandlerMoves
    <3>2. clients' \subseteq clients
      BY <2>2 DEF ModelStep, GetModelLock, Enter, GetModelRead, PostModelPath,
                  PostModelLlm, UnloadStop, UnloadDone, DeleteModelStop,
                  DeleteModelDone, WorkerStep, AddToDiscovery, AddRPCWorker,
                  RemoveWorkerLock, RemoveWorker, RemoveWorkerSend, Deliver,
                  V1Step, V1Check, V1Forward, apiVars
    <3> QED BY <3>1, <3>2, ConnKept
  <2>3. CASE g \in Loaders /\ LoadStep(g)
    <3>1. \A c \in Conns : pc'[c] = pc[c]
      BY <1>0, <2>3, OtherMoves
    <3>2. clients' = clients
      BY <2>3 DEF LoadStep, LoadSetWorkers, LoadFails, LoadLaunches, LoadReady,
                  LoadPolls, LoadedDone, apiVars
    <3> QED BY <3>1, <3>2, ConnKept
  <2>4. CASE g \in Conns /\ WsStep(g)
    <3>1. \A k \in Goroutines \ {g} : pc'[k] = pc[k]
      BY <2>4, OtherMoves
    <3>2. \/ pc'[g] = "wsDone" /\ clients' = clients \cup {g}
          \/ pc'[g] = "idle" /\ clients' = clients \ {g}
      BY <2>4 DEF WsStep, WsRegister, WsCleanup, Goto, LockInv, Typed
    <3> QED BY <1>0, <2>4, <3>1, <3>2 DEF ConnInv, ConnSteps, ClientsAreOpen
  <2>5. CASE BroadcastStep(g)
    <3>1. pc[g] \in {"bcast", "send"} /\ clients' \subseteq clients
      BY <2>5 DEF BroadcastStep, BroadcastLock, Enter, BroadcastSend, Deliver, apiVars
    <3>2. g \notin Conns
      BY <3>1 DEF ConnInv, ConnSteps
    <3> QED BY <1>0, <2>5, <3>1, <3>2, OtherMoves, ConnKept
  <2> QED BY <1>2, <2>1, <2>2, <2>3, <2>4, <2>5 DEF Step
<1>3. ASSUME NEW g \in Goroutines, BroadcastClash(g) PROVE ConnInv'
  BY <1>0, <1>3, ClashMoves, ConnKept DEF apiVars
<1>4. ASSUME NEW i \in LS!Launches, Child(i) PROVE ConnInv'
  BY <1>4, ConnKept DEF Child, ChildDo, apiVars
<1>5. CASE UNCHANGED vars
  BY <1>5, ConnKept DEF vars, apiVars
<1> QED BY <1>1, <1>2, <1>3, <1>4, <1>5 DEF Next, Clash
-----------------------------------------------------------------------------
(* The last broadcast.                                                      *)

LEMMA FreshKept ==
  ASSUME FreshInv, UNCHANGED <<sentLoaded, modelLoaded>>,
         \A g \in Others : pc[g] \in SendSteps => pc'[g] \in SendSteps
  PROVE  FreshInv'
BY DEF FreshInv

LEMMA NextFreshInv == LockInv /\ ConnInv /\ FreshInv /\ [Next]_vars => FreshInv'
<1> SUFFICES ASSUME LockInv, ConnInv, FreshInv, [Next]_vars PROVE FreshInv'
  OBVIOUS
<1>0. /\ pc \in [Goroutines -> Steps]
      /\ Others \subseteq Goroutines
      /\ \A g \in Others : g \notin Conns
  BY GoroutinesAssumption DEF LockInv, Typed, Goroutines, Others
<1>1. CASE Arrive
  <2>1. ASSUME NEW h \in Handlers, Receive(h) PROVE FreshInv'
    BY <1>0, <2>1, ReceiveMoves, FreshKept DEF apiVars, SendSteps
  <2>2. ASSUME NEW c \in Conns, WsUpgrade(c) PROVE FreshInv'
    <3>1. c \in Goroutines
      BY DEF Goroutines
    <3> QED BY <1>0, <2>2, <3>1, OtherMoves, FreshKept DEF WsUpgrade, apiVars
  <2>3. ASSUME NEW w \in Workers, Discovered(w) PROVE FreshInv'
    BY <2>3, FreshKept DEF Discovered
  <2> QED BY <1>1, <2>1, <2>2, <2>3 DEF Arrive
<1>2. ASSUME NEW g \in Goroutines, Step(g) PROVE FreshInv'
  <2>1. CASE Announce(g)
    BY <2>1, FreshKept DEF Announce, apiVars
  <2>2. CASE g \in Handlers /\ (ModelStep(g) \/ WorkerStep(g) \/ V1Step(g))
    <3>1. \A k \in Others \ {g} : pc[k] \in SendSteps => pc'[k] = pc[k]
      BY <1>0, <2>2, HandlerMoves DEF SendSteps
    <3>2. CASE UnloadDone(g) \/ DeleteModelDone(g)
      <4>1. pc'[g] \in SendSteps
        BY <1>0, <3>2 DEF UnloadDone, DeleteModelDone, Goto, SendSteps
      <4> QED BY <2>2, <4>1 DEF FreshInv, Others
    <3>3. CASE RemoveWorkerSend(g)
      BY <3>3 DEF RemoveWorkerSend, Deliver, FreshInv
    <3>4. CASE ~(UnloadDone(g) \/ DeleteModelDone(g) \/ RemoveWorkerSend(g))
      <4>1. pc[g] \notin SendSteps /\ UNCHANGED <<sentLoaded, modelLoaded>>
        BY <2>2, <3>4 DEF ModelStep, GetModelLock, Enter, GetModelRead, PostModelPath,
                    PostModelLlm, UnloadStop, DeleteModelStop,
                    WorkerStep, AddToDiscovery, AddRPCWorker,
                    RemoveWorkerLock, RemoveWorker,
                    V1Step, V1Check, V1Forward, apiVars, SendSteps
      <4> QED BY <3>1, <4>1, FreshKept
    <3> QED BY <3>2, <3>3, <3>4
  <2>3. CASE g \in Loaders /\ LoadStep(g)
    <3>1. CASE LoadedDone(g)
      <4>1. pc'[g] \in SendSteps
        BY <1>0, <3>1 DEF LoadedDone, Goto, SendSteps
      <4> QED BY <2>3, <4>1 DEF FreshInv, Others
    <3>2. CASE ~LoadedDone(g)
      <4>1. pc[g] \notin SendSteps /\ UNCHANGED <<sentLoaded, modelLoaded>>
        BY <2>3, <3>2 DEF LoadStep, LoadSetWorkers, LoadFails, LoadLaunches, LoadReady,
                          LoadPolls, apiVars, SendSteps
      <4> QED BY <1>0, <2>3, <4>1, OtherMoves, FreshKept
    <3> QED BY <3>1, <3>2
  <2>4. CASE g \in Conns /\ WsStep(g)
    <3>1. UNCHANGED <<sentLoaded, modelLoaded>>
      BY <2>4 DEF WsStep, WsRegister, WsCleanup
    <3> QED BY <1>0, <2>4, <3>1, OtherMoves, FreshKept
  <2>5. CASE BroadcastLock(g)
    <3>1. pc'[g] \in SendSteps /\ UNCHANGED <<sentLoaded, modelLoaded>>
      BY <1>0, <2>5 DEF BroadcastLock, Enter, Goto, apiVars, SendSteps
    <3> QED BY <1>0, <2>5, <3>1, OtherMoves, FreshKept DEF BroadcastStep
  <2>6. CASE BroadcastSend(g)
    BY <2>6 DEF BroadcastSend, Deliver, FreshInv
  <2> QED BY <1>2, <2>1, <2>2, <2>3, <2>4, <2>5, <2>6 DEF Step, BroadcastStep
<1>3. ASSUME NEW g \in Goroutines, BroadcastClash(g) PROVE FreshInv'
  <2>1. PICK k \in Broadcasting : k # g
    BY <1>3 DEF BroadcastClash
  <2>2. pc[k] \in SendSteps /\ pc[k] \notin ConnSteps /\ k \in Goroutines
    BY <2>1 DEF Broadcasting, SendSteps, ConnSteps
  <2>3. k \in Others
    BY <2>2 DEF Goroutines, Others, ConnInv
  <2> QED BY <1>3, <2>1, <2>2, <2>3, ClashMoves DEF FreshInv
<1>4. ASSUME NEW i \in LS!Launches, Child(i) PROVE FreshInv'
  BY <1>4, FreshKept DEF Child, ChildDo, apiVars
<1>5. CASE UNCHANGED vars
  BY <1>5, FreshKept DEF vars, apiVars
<1> QED BY <1>1, <1>2, <1>3, <1>4, <1>5 DEF Next, Clash
-----------------------------------------------------------------------------
(* The worker list.                                                         *)

\* A handler inside AddRPCWorker's broadcast is there for good, and so are its
\* announcement and its pending RLock.
LEMMA NestedStays ==
  ASSUME LockInv, [Next]_vars,
         NEW k \in Handlers, pc[k] = "addNested", writer = k, k \in waiting
  PROVE  pc'[k] = "addNested" /\ writer' = k /\ k \in waiting'
<1>0. /\ pc \in [Goroutines -> Steps] /\ k \in Goroutines
      /\ k \notin Loaders /\ k \notin Conns /\ k # Nobody
  BY GoroutinesAssumption DEF LockInv, Typed, Goroutines
<1>1. writer' = k /\ k \in waiting'
  <2>1. [Mu!LockNext]_lockVars
    BY MutexStep
  <2> QED BY <1>0, <2>1 DEF Mu!LockNext, Mu!Announce, Mu!Unlock, Mu!Exclusive,
                            Mu!RLock, Mu!RUnlock, lockVars
<1>2. pc'[k] = "addNested"
  <2>1. CASE Arrive
    <3>1. ASSUME NEW h \in Handlers, Receive(h) PROVE pc'[k] = "addNested"
      BY <1>0, <3>1, ReceiveMoves
    <3>2. ASSUME NEW c \in Conns, WsUpgrade(c) PROVE pc'[k] = "addNested"
      <4>1. c \in Goroutines
        BY DEF Goroutines
      <4> QED BY <1>0, <3>2, <4>1, OtherMoves
    <3>3. ASSUME NEW w \in Workers, Discovered(w) PROVE pc'[k] = "addNested"
      BY <3>3 DEF Discovered
    <3> QED BY <2>1, <3>1, <3>2, <3>3 DEF Arrive
  <2>2. ASSUME NEW g \in Goroutines, Step(g) PROVE pc'[k] = "addNested"
    <3>1. CASE Announce(g)
      BY <3>1 DEF Announce
    <3>2. CASE g \in Handlers /\ (ModelStep(g) \/ WorkerStep(g) \/ V1Step(g))
      <4>1. g # k
        BY <3>2 DEF ModelStep, GetModelLock, Enter, GetModelRead, PostModelPath,
                    PostModelLlm, UnloadStop, UnloadDone, DeleteModelStop,
                    DeleteModelDone, WorkerStep, AddToDiscovery, AddRPCWorker,
                    RemoveWorkerLock, RemoveWorker, RemoveWorkerSend,
                    V1Step, V1Check, V1Forward
      <4> QED BY <1>0, <3>2, <4>1, HandlerMoves
    <3>3. CASE (g \in Loaders /\ LoadStep(g)) \/ (g \in Conns /\ WsStep(g))
      BY <1>0, <3>3, OtherMoves
    <3>4. CASE BroadcastStep(g)
      <4>1. g # k
        BY <3>4 DEF BroadcastStep, BroadcastLock, Enter, BroadcastSend
      <4> QED BY <1>0, <3>4, <4>1, OtherMoves
    <3> QED BY <2>2, <3>1, <3>2, <3>3, <3>4 DEF Step
  <2>3. ASSUME NEW g \in Goroutines, BroadcastClash(g) PROVE pc'[k] = "addNested"
    <3>1. g # k
      BY <2>3 DEF BroadcastClash, Broadcasting
    <3> QED BY <1>0, <2>3, <3>1, ClashMoves
  <2>4. ASSUME NEW i \in LS!Launches, Child(i) PROVE pc'[k] = "addNested"
    BY <2>4 DEF Child, ChildDo
  <2>5. CASE UNCHANGED vars
    BY <2>5 DEF vars
  <2> QED BY <2>1, <2>2, <2>3, <2>4, <2>5 DEF Next, Clash
<1> QED BY <1>1, <1>2

LEMMA NextRpcInv == LockInv /\ RpcInv /\ [Next]_vars => RpcInv'
<1> SUFFICES ASSUME LockInv, RpcInv, [Next]_vars PROVE RpcInv'
  OBVIOUS
<1>1. CASE rpcWorkers' = rpcWorkers
  BY <1>1, NestedStays DEF RpcInv, RpcLists
<1>2. ASSUME NEW h \in Handlers, AddRPCWorker(h) PROVE RpcInv'
  <2>1. writer = h /\ writer' = h /\ h \in waiting'
    <3>1. h \in Goroutines /\ h # Nobody
      BY GoroutinesAssumption DEF Goroutines
    <3> QED BY <1>2, <3>1 DEF AddRPCWorker, Mu!Exclusive, Mu!RLock
  <2>2. rpcWorkers = <<>>
    BY <1>2, <2>1 DEF AddRPCWorker, RpcInv
  <2>3. req[h].arg \in Workers
    <3>1. h \in Goroutines /\ pc[h] \in AddSteps
      BY <1>2 DEF AddRPCWorker, Goroutines, AddSteps
    <3>2. req[h].kind = "addWorker" /\ req[h] \in AllRequests \cup {NoRequest}
      BY <3>1 DEF LockInv, Typed, Disciplined
    <3> QED BY <3>2 DEF AllRequests, NoRequest
  <2>4. rpcWorkers' = <<req[h].arg>>
    BY <1>2, <2>2 DEF AddRPCWorker
  <2>5. pc'[h] = "addNested"
    BY <1>2 DEF AddRPCWorker, Goto, LockInv, Typed, Goroutines
  <2> QED BY <2>1, <2>3, <2>4, <2>5 DEF RpcInv, RpcLists
<1>3. \/ rpcWorkers' = rpcWorkers
      \/ \E h \in Handlers : AddRPCWorker(h)
  <2>1. CASE Arrive
    BY <2>1 DEF Arrive, Receive, WsUpgrade, Discovered, apiVars
  <2>2. ASSUME NEW g \in Goroutines, Step(g)
        PROVE  \/ rpcWorkers' = rpcWorkers
               \/ \E h \in Handlers : AddRPCWorker(h)
    <3>1. CASE Announce(g)
      BY <3>1 DEF Announce, apiVars
    <3>2. CASE g \in Handlers /\ (ModelStep(g) \/ V1Step(g))
      BY <3>2 DEF ModelStep, GetModelLock, Enter, GetModelRead, PostModelPath,
                  PostModelLlm, UnloadStop, UnloadDone, DeleteModelStop,
                  DeleteModelDone, V1Step, V1Check, V1Forward, apiVars
    <3>3. CASE g \in Handlers /\ WorkerStep(g)
      BY <3>3 DEF WorkerStep, AddToDiscovery, RemoveWorkerLock, Enter, RemoveWorker,
                  RemoveWorkerSend, Deliver, apiVars
    <3>4. CASE g \in Loaders /\ LoadStep(g)
      BY <3>4 DEF LoadStep, LoadSetWorkers, LoadFails, LoadLaunches, LoadReady,
                  LoadPolls, LoadedDone, apiVars
    <3>5. CASE WsStep(g) \/ BroadcastStep(g)
      BY <3>5 DEF WsStep, WsRegister, WsCleanup, BroadcastStep, BroadcastLock,
                  Enter, BroadcastSend, Deliver, apiVars
    <3> QED BY <2>2, <3>1, <3>2, <3>3, <3>4, <3>5 DEF Step
  <2>3. CASE Clash
    BY <2>3 DEF Clash, BroadcastClash, apiVars
  <2>4. ASSUME NEW i \in LS!Launches, Child(i) PROVE rpcWorkers' = rpcWorkers
    BY <2>4 DEF Child, ChildDo, apiVars
  <2>5. CASE UNCHANGED vars
    BY <2>5 DEF vars, apiVars
  <2> QED BY <2>1, <2>2, <2>3, <2>4, <2>5 DEF Next
<1> QED BY <1>1, <1>2, <1>3
-----------------------------------------------------------------------------
LEMMA InitInvs == Init => Inv
<1> SUFFICES ASSUME Init PROVE Inv
  OBVIOUS
<1>1. ConnInv
  BY DEF Init, ConnInv, ConnSteps, ClientsAreOpen, Goroutines
<1>2. FreshInv /\ RpcInv
  BY DEF Init, FreshInv, RpcInv, RpcLists
<1> QED BY <1>1, <1>2, InitInv DEF Inv

LEMMA SpecInv == Spec => []Inv
<1>1. Inv /\ [Next]_vars => Inv'
  BY NextInv, NextConnInv, NextFreshInv, NextRpcInv DEF Inv
<1> QED BY <1>1, InitInvs, PTL DEF Spec

\* Whatever clash, failed write or cleanup comes first, no connection outlives
\* its cleanup in the registry.
THEOREM RegistryIsOpen == Spec => []ClientsAreOpen
<1>1. Inv => ClientsAreOpen
  BY DEF Inv, ConnInv
<1> QED BY <1>1, SpecInv, PTL

\* The last writer of modelLoaded is followed by a broadcast that reads it, even
\* when broadcasts clash.
THEOREM BroadcastFresh == Spec => []LastBroadcastFresh
<1>1. Inv => LastBroadcastFresh
  <2> SUFFICES ASSUME Inv, Quiet PROVE sentLoaded = modelLoaded
    BY DEF LastBroadcastFresh
  <2>1. \A g \in Others : pc[g] \notin SendSteps
    BY DEF Quiet, Busy, Others, SendSteps
  <2> QED BY <2>1 DEF Inv, FreshInv
<1> QED BY <1>1, SpecInv, PTL
-----------------------------------------------------------------------------
(* LlamaServer is implemented by the API server that drives it.             *)

LEMMA LlmStutters ==
  ASSUME UNCHANGED llmVars
  PROVE  UNCHANGED LS!vars
BY DEF llmVars, LS!vars

\* A setter, a Stop, or a step of Start, as LlamaServer has them.
LEMMA LlmOperates ==
  ASSUME \/ \E p \in Paths \cup {NoPath} : LS!SetModelPath(p)
         \/ \E r \in RpcLists : LS!SetRPCWorkers(r)
         \/ LS!Stop
         \/ \E l \in Loaders : LS!Start(l) \/ LS!PollHealthy(l) \/ LS!PollUnhealthy(l)
  PROVE  LS!Next
<1>1. CASE \/ \E p \in Paths \cup {NoPath} : LS!SetModelPath(p)
           \/ \E r \in RpcLists : LS!SetRPCWorkers(r)
           \/ LS!Stop
  BY <1>1 DEF LS!Next, LS!Operator
<1>2. ASSUME NEW l \in Loaders, LS!Start(l) PROVE LS!Next
  BY <1>2 DEF LS!Next, LS!Call
<1>3. ASSUME NEW l \in Loaders, LS!PollHealthy(l) \/ LS!PollUnhealthy(l) PROVE LS!Next
  BY <1>3 DEF LS!Next, LS!Poll
<1> QED BY <1>1, <1>2, <1>3

LEMMA LlmNext == Inv /\ [Next]_vars => [LS!Next]_(LS!vars)
<1> SUFFICES ASSUME Inv, [Next]_vars PROVE [LS!Next]_(LS!vars)
  OBVIOUS
<1>1. CASE Arrive
  BY <1>1, LlmStutters DEF Arrive, Receive, WsUpgrade, Discovered
<1>2. ASSUME NEW g \in Goroutines, Step(g) PROVE [LS!Next]_(LS!vars)
  <2>1. CASE Announce(g) \/ BroadcastStep(g)
    BY <2>1, LlmStutters DEF Announce, BroadcastStep, BroadcastLock, Enter, BroadcastSend
  <2>2. CASE g \in Handlers /\ PostModelLlm(g)
    <3>1. LS!SetModelPath(req[g].arg)
      BY <2>2 DEF PostModelLlm
    <3>2. req[g].arg \in Paths \cup {NoPath}
      <4>1. /\ req[g] \in AllRequests \cup {NoRequest}
            /\ req[g].kind \in {"setModel", "load", "unload"}
        BY <2>2 DEF PostModelLlm, Inv, LockInv, Typed
      <4> QED BY <4>1 DEF AllRequests, NoRequest
    <3> QED BY <3>1, <3>2, LlmOperates
  <2>3. CASE UnloadStop(g) \/ DeleteModelStop(g)
    BY <2>3, LlmOperates DEF UnloadStop, DeleteModelStop
  <2>4. CASE \/ GetModelLock(g) \/ GetModelRead(g) \/ PostModelPath(g)
             \/ UnloadDone(g) \/ DeleteModelDone(g) \/ WorkerStep(g) \/ V1Step(g)
    BY <2>4, LlmStutters
       DEF GetModelLock, Enter, GetModelRead, PostModelPath, UnloadDone,
           DeleteModelDone, WorkerStep, AddToDiscovery, AddRPCWorker,
           RemoveWorkerLock, RemoveWorker, RemoveWorkerSend, V1Step, V1Check, V1Forward
  <2>5. CASE g \in Loaders /\ LoadStep(g)
    <3>1. CASE LoadSetWorkers(g)
      BY <3>1, LlmOperates DEF LoadSetWorkers, Inv, RpcInv
    <3>2. CASE LoadFails(g) \/ LoadLaunches(g)
      <4>1. LS!Start(g)
        BY <3>2 DEF LoadFails, LoadLaunches, LS!Start
      <4> QED BY <2>5, <4>1, LlmOperates
    <3>3. CASE LoadReady(g) \/ LoadPolls(g)
      BY <2>5, <3>3, LlmOperates DEF LoadReady, LoadPolls
    <3>4. CASE LoadedDone(g)
      BY <3>4, LlmStutters DEF LoadedDone
    <3> QED BY <2>5, <3>1, <3>2, <3>3, <3>4 DEF LoadStep
  <2>6. CASE g \in Conns /\ WsStep(g)
    BY <2>6, LlmStutters DEF WsStep, WsRegister, WsCleanup
  <2> QED BY <1>2, <2>1, <2>2, <2>3, <2>4, <2>5, <2>6 DEF Step, ModelStep
<1>3. CASE Clash
  BY <1>3, LlmStutters DEF Clash, BroadcastClash
<1>4. ASSUME NEW i \in LS!Launches, Child(i) PROVE [LS!Next]_(LS!vars)
  BY <1>4 DEF Child, ChildDo, LS!Next, LS!Child
<1>5. CASE UNCHANGED vars
  BY <1>5, LlmStutters DEF vars
<1> QED BY <1>1, <1>2, <1>3, <1>4, <1>5 DEF Next
-----------------------------------------------------------------------------
(* What is proved of LlamaServer holds of the server the API drives.        *)

LSP == INSTANCE LlamaServerProofs WITH Callers <- Loaders, restarting <- {}, born <- 0

\* The two instances of LlamaServer are one.
LEMMA SameNext == [LS!Next]_(LS!vars) <=> [LSP!Next]_(LSP!vars)
BY DEF LS!Next, LSP!Next, LS!vars, LSP!vars, LS!Operator, LSP!Operator,
       LS!SetModelPath, LSP!SetModelPath, LS!SetRPCWorkers, LSP!SetRPCWorkers,
       LS!Stop, LSP!Stop, LS!stopLocked, LSP!stopLocked, LS!CancelCurrent,
       LSP!CancelCurrent, LS!StartNonBlocking, LSP!StartNonBlocking, LS!Launch,
       LSP!Launch, LS!Call, LSP!Call, LS!Start, LSP!Start, LS!StartNoPath,
       LSP!StartNoPath, LS!StartNoBinary, LSP!StartNoBinary, LS!StartLaunch,
       LSP!StartLaunch, LS!RestartCheck, LSP!RestartCheck, LS!RestartStart,
       LSP!RestartStart, LS!Poll, LSP!Poll, LS!PollHealthy, LSP!PollHealthy,
       LS!PollUnhealthy, LSP!PollUnhealthy, LS!Launches, LSP!Launches,
       LS!Child, LSP!Child, LS!RunChild, LSP!RunChild, LS!BindPort,
       LSP!BindPort, LS!PortFree, LSP!PortFree, LS!FinishLoading,
       LSP!FinishLoading, LS!Die, LSP!Die, LS!Reap, LSP!Reap, LS!childVars,
       LSP!childVars, LS!Exit, LSP!Exit

LEMMA LlmAssumptions ==
  /\ Nobody \notin Loaders /\ NoPath \notin Paths
  /\ MaxLaunch \in Nat /\ MaxPolls \in Nat \ {0}
BY GoroutinesAssumption, NoPathAssumption, BoundsAssumption DEF Goroutines

LEMMA LlmStarts == Init => LSP!Init
BY DEF Init, LSP!Init, RpcLists

LEMMA LlmInv == Spec => []LSP!IInv
<1>1. Init => LSP!IInv
  BY LlmStarts, LSP!InitIInv, LlmAssumptions, Zenon
<1>2. LSP!IInv /\ [LSP!Next]_(LSP!vars) => LSP!IInv'
  BY LSP!NextIInv, LlmAssumptions, Zenon
<1>3. Inv /\ LSP!IInv /\ [Next]_vars => LSP!IInv'
  BY <1>2, LlmNext, SameNext
<1> QED BY <1>1, <1>3, SpecInv, PTL DEF Spec

\* The first worker that a request puts on the list for loads (AddRPCWorker) hangs
\* the API mutex for good, whatever else goes on.
THEOREM FirstWorkerWedges == Spec => [](rpcWorkers # <<>> => Mu!Wedged)
<1>1. Inv => (rpcWorkers # <<>> => Mu!Wedged)
  BY DEF Inv, RpcInv, Mu!Wedged
<1> QED BY <1>1, SpecInv, PTL

\* Who changes the settings of llama-server: the requests for a model its path,
\* the loads its workers.
LEMMA SettingsChange ==
  ASSUME [Next]_vars
  PROVE  \/ settings' = settings
         \/ \E h \in Handlers : LS!SetModelPath(req[h].arg)
         \/ \E l \in Loaders : LoadSetWorkers(l)
<1>1. CASE Arrive
  BY <1>1 DEF Arrive, Receive, WsUpgrade, Discovered, llmVars
<1>2. ASSUME NEW g \in Goroutines, Step(g), settings' # settings
      PROVE  \/ g \in Handlers /\ LS!SetModelPath(req[g].arg)
             \/ g \in Loaders /\ LoadSetWorkers(g)
  <2>1. CASE Announce(g) \/ BroadcastStep(g) \/ WsStep(g)
    BY <1>2, <2>1 DEF Announce, BroadcastStep, BroadcastLock, Enter, BroadcastSend,
                      WsStep, WsRegister, WsCleanup, llmVars
  <2>2. CASE g \in Handlers /\ ModelStep(g)
    BY <1>2, <2>2 DEF ModelStep, GetModelLock, Enter, GetModelRead, PostModelPath,
                      PostModelLlm, UnloadStop, UnloadDone, DeleteModelStop,
                      DeleteModelDone, LS!Stop, llmVars
  <2>3. CASE g \in Handlers /\ (WorkerStep(g) \/ V1Step(g))
    BY <1>2, <2>3 DEF WorkerStep, AddToDiscovery, AddRPCWorker, RemoveWorkerLock,
                      Enter, RemoveWorker, RemoveWorkerSend, V1Step, V1Check,
                      V1Forward, llmVars
  <2>4. CASE g \in Loaders /\ LoadStep(g)
    BY <1>2, <2>4 DEF LoadStep, LoadFails, LoadLaunches, LoadReady, LoadPolls,
                      LoadedDone, LS!StartNoPath, LS!StartNoBinary, LS!StartLaunch,
                      LS!PollHealthy, LS!PollUnhealthy, llmVars
  <2> QED BY <1>2, <2>1, <2>2, <2>3, <2>4 DEF Step
<1>3. CASE Clash
  BY <1>3 DEF Clash, BroadcastClash, llmVars
<1>4. ASSUME NEW i \in LS!Launches, Child(i) PROVE settings' = settings
  BY <1>4 DEF Child, ChildDo, LS!RunChild, LS!BindPort, LS!FinishLoading, LS!Die,
              LS!Reap, LS!childVars, llmVars
<1>5. CASE UNCHANGED vars
  BY <1>5 DEF vars, llmVars
<1> QED BY <1>1, <1>2, <1>3, <1>4, <1>5 DEF Next

StartSteps == {"loadStart", "loadPoll"}

\* Only a load that has set the workers comes to Start, and only Start launches.
LEMMA StartsAfterWorkers ==
  ASSUME LockInv, [Next]_vars, \A l \in Loaders : ~LoadSetWorkers(l),
         \A l \in Loaders : pc[l] \notin StartSteps
  PROVE  launched' = launched /\ \A l \in Loaders : pc'[l] \notin StartSteps
<1>0. /\ pc \in [Goroutines -> Steps] /\ Loaders \subseteq Goroutines
      /\ \A l \in Loaders : l \notin Handlers /\ l \notin Conns
  BY GoroutinesAssumption DEF LockInv, Typed, Goroutines
<1>1. CASE Arrive
  <2>1. ASSUME NEW h \in Handlers, Receive(h)
        PROVE  launched' = launched /\ \A l \in Loaders : pc'[l] = pc[l]
    BY <1>0, <2>1, ReceiveMoves DEF llmVars
  <2>2. ASSUME NEW c \in Conns, WsUpgrade(c)
        PROVE  launched' = launched /\ \A l \in Loaders : pc'[l] = pc[l]
    BY <1>0, <2>2 DEF WsUpgrade, Goto, llmVars
  <2>3. ASSUME NEW w \in Workers, Discovered(w)
        PROVE  launched' = launched /\ \A l \in Loaders : pc'[l] = pc[l]
    BY <2>3 DEF Discovered, llmVars
  <2> QED BY <1>1, <2>1, <2>2, <2>3 DEF Arrive
<1>2. ASSUME NEW g \in Goroutines, Step(g)
      PROVE  launched' = launched /\ \A l \in Loaders : pc'[l] \notin StartSteps
  <2>1. CASE Announce(g)
    BY <2>1 DEF Announce, llmVars
  <2>2. CASE g \in Handlers /\ (ModelStep(g) \/ WorkerStep(g) \/ V1Step(g))
    <3>1. launched' = launched
      BY <2>2 DEF ModelStep, GetModelLock, Enter, GetModelRead, PostModelPath,
                  PostModelLlm, UnloadStop, UnloadDone, DeleteModelStop,
                  DeleteModelDone, WorkerStep, AddToDiscovery, AddRPCWorker,
                  RemoveWorkerLock, RemoveWorker, RemoveWorkerSend, V1Step, V1Check,
                  V1Forward, LS!SetModelPath, LS!Stop, llmVars
    <3> QED BY <1>0, <2>2, <3>1, HandlerMoves DEF StartSteps
  <2>3. CASE g \in Loaders /\ LoadStep(g)
    <3>1. LoadedDone(g)
      BY <2>3 DEF LoadStep, LoadFails, LoadLaunches, LoadReady, LoadPolls, StartSteps
    <3> QED BY <1>0, <3>1 DEF LoadedDone, Goto, StartSteps, llmVars
  <2>4. CASE g \in Conns /\ WsStep(g)
    BY <1>0, <2>4, OtherMoves DEF WsStep, WsRegister, WsCleanup, llmVars
  <2>5. CASE BroadcastStep(g)
    BY <1>0, <2>5 DEF BroadcastStep, BroadcastLock, Enter, BroadcastSend, Finish, Goto,
                      StartSteps, llmVars
  <2> QED BY <1>2, <2>1, <2>2, <2>3, <2>4, <2>5 DEF Step
<1>3. ASSUME NEW g \in Goroutines, BroadcastClash(g)
      PROVE  launched' = launched /\ \A l \in Loaders : pc'[l] = pc[l]
  BY <1>0, <1>3 DEF BroadcastClash, Finish, Goto, llmVars
<1>4. ASSUME NEW i \in LS!Launches, Child(i) PROVE launched' = launched /\ pc' = pc
  BY <1>4 DEF Child, ChildDo, LS!RunChild, LS!BindPort, LS!FinishLoading, LS!Die,
              LS!Reap, LS!childVars
<1>5. CASE UNCHANGED vars
  BY <1>5 DEF vars, llmVars
<1> QED BY <1>1, <1>2, <1>3, <1>4, <1>5 DEF Next, Clash

\* A list of workers is with llmserver only as long as no load has put that of the
\* API, the empty one, in its place.
ListBeforeLoads ==
  settings.rpcWorkers # <<>> =>
    launched = 0 /\ \A l \in Loaders : pc[l] \notin StartSteps

LEMMA NextListBeforeLoads ==
  Inv /\ LSP!IInv /\ ListBeforeLoads /\ [Next]_vars => ListBeforeLoads'
<1> SUFFICES ASSUME Inv, LSP!IInv, ListBeforeLoads, [Next]_vars,
                    settings'.rpcWorkers # <<>>
             PROVE  launched' = 0 /\ \A l \in Loaders : pc'[l] \notin StartSteps
  BY DEF ListBeforeLoads
<1>0. settings \in [modelPath : Paths \cup {NoPath}, rpcWorkers : RpcLists]
  BY DEF LSP!IInv, LSP!TypeOK
<1>1. ASSUME NEW l \in Loaders, LoadSetWorkers(l) PROVE FALSE
  <2>1. rpcWorkers = <<>>
    BY <1>1, GoroutinesAssumption
       DEF LoadSetWorkers, Mu!Unlock, Mu!Exclusive, Inv, RpcInv
  <2> QED BY <1>0, <1>1, <2>1 DEF LoadSetWorkers, LS!SetRPCWorkers
<1>2. settings.rpcWorkers # <<>>
  <2>1. ASSUME NEW p, LS!SetModelPath(p) PROVE settings.rpcWorkers # <<>>
    BY <1>0, <2>1 DEF LS!SetModelPath
  <2> QED BY <1>1, <2>1, SettingsChange
<1> QED BY <1>1, <1>2, StartsAfterWorkers DEF ListBeforeLoads, Inv

\* A load reads the list of the API with its mutex held, and finds it empty: no
\* llama-server is ever launched with --rpc, whichever workers are discovered, added
\* or configured.
THEOREM NoWorkerReachesServer ==
  Spec => [][launched' # launched => settings.rpcWorkers = <<>>]_vars
<1>1. Init => ListBeforeLoads
  BY DEF Init, ListBeforeLoads, StartSteps, Goroutines
<1>2. Inv /\ LSP!IInv /\ ListBeforeLoads /\ [Next]_vars =>
        [launched' # launched => settings.rpcWorkers = <<>>]_vars
  <2> SUFFICES ASSUME Inv, ListBeforeLoads, [Next]_vars,
                      settings.rpcWorkers # <<>>
               PROVE  launched' = launched
    OBVIOUS
  <2>1. CASE \E l \in Loaders : LoadSetWorkers(l)
    BY <2>1 DEF LoadSetWorkers, LS!SetRPCWorkers
  <2>2. CASE \A l \in Loaders : ~LoadSetWorkers(l)
    BY <2>2, StartsAfterWorkers DEF ListBeforeLoads, Inv
  <2> QED BY <2>1, <2>2
<1> QED BY <1>1, <1>2, NextListBeforeLoads, SpecInv, LlmInv, PTL DEF Spec

\* Under every interleaving of requests, loads and waiters, the API server keeps
\* the promise of llama-server to its caller: a load replaces the one server it
\* knows of, an unload stops it, and only the late report of a replaced launch
\* loses one.
THEOREM ApiKeepsOneServer == Spec => LS!OneServerKept
<1>1. Init => LSP!Promise!Init
  BY LlmStarts, LSP!PromiseInit, LlmAssumptions, Zenon
<1>2. LSP!IInv /\ [LSP!Next]_(LSP!vars) => [LSP!Promise!Next]_(LSP!Promise!vars)
  BY LSP!PromiseNext, LlmAssumptions, Zenon
<1>3. Inv /\ LSP!IInv /\ [Next]_vars => [LSP!Promise!Next]_(LSP!Promise!vars)
  BY <1>2, LlmNext, SameNext
<1>4. LSP!Promise!Init => LS!Promise!Init
  BY DEF LSP!Promise!Init, LS!Promise!Init, LSP!Kept, LS!Kept, LSP!Strays, LS!Strays,
         LSP!Late, LS!Late, LSP!Dying, LS!Dying, LSP!Survivors, LS!Survivors, LSP!Own, LS!Own, LSP!Live,
         LS!Live, LSP!Launches, LS!Launches, LSP!Reaped, LS!Reaped
<1>5. [LSP!Promise!Next]_(LSP!Promise!vars) => [LS!Promise!Next]_(LS!Promise!vars)
  BY DEF LSP!Promise!Next, LS!Promise!Next, LSP!Promise!vars, LS!Promise!vars,
         LSP!Promise!Load, LS!Promise!Load, LSP!Promise!Unload, LS!Promise!Unload,
         LSP!Promise!LateReport, LS!Promise!LateReport, LSP!Promise!End, LS!Promise!End,
         LSP!Promise!Exit, LS!Promise!Exit,
         LSP!Kept, LS!Kept, LSP!Strays, LS!Strays,
         LSP!Late, LS!Late, LSP!Dying, LS!Dying, LSP!Survivors, LS!Survivors, LSP!Own, LS!Own, LSP!Live,
         LS!Live, LSP!Launches, LS!Launches, LSP!Reaped, LS!Reaped
<1> QED BY <1>1, <1>3, <1>4, <1>5, LlmInv, SpecInv, PTL
        DEF Spec, LS!OneServerKept, LS!Promise!Spec

\* Under every interleaving of requests and loads the flag stands for a server
\* that the next load or unload can cancel, and a server is lost only behind the
\* waiter of an older one.
THEOREM ServerStaysSound ==
  Spec => [](LS!RunningIsOwned /\ LS!NewestIsCancellable /\ LS!LeakNeedsStaleReap)
<1>1. LSP!IInv => LS!RunningIsOwned /\ LS!NewestIsCancellable /\ LS!LeakNeedsStaleReap
  BY DEF LSP!IInv, LSP!RunningIsOwned, LS!RunningIsOwned, LSP!NewestIsCancellable,
         LS!NewestIsCancellable, LSP!LeakNeedsStaleReap, LS!LeakNeedsStaleReap,
         LSP!Live, LS!Live, LSP!Reaped, LS!Reaped, LSP!Launches, LS!Launches
<1> QED BY <1>1, LlmInv, PTL

\* A /v1 handler is done at once only if IsRunning said no.
LEMMA OnlyV1Refuses ==
  ASSUME LockInv, [Next]_vars, NEW h \in Handlers, pc[h] = "v1Check", pc'[h] = "idle"
  PROVE  ~isRunning
<1>0. h \in Goroutines /\ h \notin Loaders /\ h \notin Conns
  BY GoroutinesAssumption DEF Goroutines
<1>1. CASE Arrive
  <2>1. ASSUME NEW k \in Handlers, Receive(k) PROVE FALSE
    BY <1>0, <2>1, ReceiveMoves
  <2>2. ASSUME NEW c \in Conns, WsUpgrade(c) PROVE FALSE
    BY <1>0, <2>2 DEF WsUpgrade, Goto, LockInv, Typed
  <2>3. ASSUME NEW w \in Workers, Discovered(w) PROVE FALSE
    BY <2>3 DEF Discovered
  <2> QED BY <1>1, <2>1, <2>2, <2>3 DEF Arrive
<1>2. ASSUME NEW g \in Goroutines, Step(g), ~(g = h /\ V1Check(h)) PROVE FALSE
  <2>1. CASE Announce(g)
    BY <2>1 DEF Announce
  <2>2. CASE g # h /\ g \in Handlers /\ (ModelStep(g) \/ WorkerStep(g) \/ V1Step(g))
    BY <1>0, <2>2, HandlerMoves
  <2>3. CASE h = g /\ (ModelStep(h) \/ WorkerStep(h) \/ V1Step(h))
    BY <1>2, <2>3
       DEF ModelStep, GetModelLock, Enter, GetModelRead, PostModelPath, PostModelLlm,
           UnloadStop, UnloadDone, DeleteModelStop, DeleteModelDone, WorkerStep,
           AddToDiscovery, AddRPCWorker, RemoveWorkerLock, RemoveWorker,
           RemoveWorkerSend, V1Step, V1Forward
  <2>4. CASE g \in Loaders /\ LoadStep(g)
    BY <1>0, <2>4, OtherMoves
  <2>5. CASE g \in Conns /\ WsStep(g)
    BY <1>0, <2>5, OtherMoves
  <2>6. CASE BroadcastStep(g)
    <3>1. g # h
      BY <2>6 DEF BroadcastStep, BroadcastLock, Enter, BroadcastSend
    <3> QED BY <1>0, <2>6, <3>1, OtherMoves
  <2> QED BY <1>2, <2>1, <2>2, <2>3, <2>4, <2>5, <2>6 DEF Step
<1>3. ASSUME NEW g \in Goroutines, BroadcastClash(g) PROVE FALSE
  <2>1. g # h
    BY <1>3 DEF BroadcastClash, Broadcasting
  <2> QED BY <1>0, <1>3, <2>1, ClashMoves
<1>4. ASSUME NEW i \in LS!Launches, Child(i) PROVE FALSE
  BY <1>4 DEF Child, ChildDo
<1>5. CASE UNCHANGED vars
  BY <1>5 DEF vars
<1>6. CASE V1Check(h)
  BY <1>0, <1>6 DEF V1Check, Goto, LockInv, Typed
<1> QED BY <1>1, <1>2, <1>3, <1>4, <1>5, <1>6 DEF Next, Clash

\* A load, a reload or a slow start never makes the proxy refuse: it does so
\* without cause only after the waiter of a launch has reported.
THEOREM RefusalExplained == Spec => RefusesBehindReapOnly
<1>1. ASSUME LockInv, LS!LeakNeedsStaleReap, [Next]_vars,
             NEW h \in Handlers, pc[h] = "v1Check", pc'[h] = "idle"
      PROVE  LS!Live \subseteq cancelled \/ LS!Reaped # {}
  <2>1. ~isRunning
    BY <1>1, OnlyV1Refuses
  <2> QED BY <1>1, <2>1 DEF LS!LeakNeedsStaleReap, LS!Live, LS!Launches
<1>2. Inv /\ LS!LeakNeedsStaleReap /\ [Next]_vars =>
        [\A h \in Handlers :
           pc[h] = "v1Check" /\ pc'[h] = "idle"
             => LS!Live \subseteq cancelled \/ LS!Reaped # {}]_vars
  BY <1>1 DEF Inv
<1>3. Spec => []LS!LeakNeedsStaleReap
  BY ServerStaysSound, PTL
<1> QED BY <1>2, <1>3, SpecInv, PTL DEF Spec, RefusesBehindReapOnly
-----------------------------------------------------------------------------
(* Types.                                                                   *)

ModelKinds == {"setModel", "load", "unload"}

RestInv ==
  /\ modelPath \in Paths \cup {NoPath}
  /\ {modelLoaded, sentLoaded, crashed} \subseteq BOOLEAN
  /\ workers \subseteq Workers
  /\ \A h \in Handlers : pc[h] = "postLock" => req[h].kind \in ModelKinds

\* A request of a kind carries an argument of that kind.
LEMMA ArgumentOfKind ==
  ASSUME LockInv, NEW h \in Handlers
  PROVE  /\ req[h].kind \in ModelKinds => req[h].arg \in Paths \cup {NoPath}
         /\ req[h].kind = "addWorker" => req[h].arg \in Workers
<1>1. req[h] \in AllRequests \cup {NoRequest}
  BY DEF LockInv, Typed
<1> QED BY <1>1 DEF AllRequests, NoRequest, ModelKinds

LEMMA RestKept ==
  ASSUME RestInv, UNCHANGED <<modelPath, modelLoaded, sentLoaded, crashed, workers>>,
         \A h \in Handlers : pc'[h] = "postLock" => pc[h] = "postLock" /\ req'[h] = req[h]
  PROVE  RestInv'
BY DEF RestInv

\* Whose request a step may end: its own.
LEMMA RequestsStay ==
  ASSUME LockInv, NEW g \in Goroutines, Step(g) \/ BroadcastClash(g)
  PROVE  \A h \in Handlers : pc'[h] = "postLock" => pc[h] = "postLock" /\ req'[h] = req[h]
<1>1. /\ pc \in [Goroutines -> Steps] /\ req \in [Handlers -> AllRequests \cup {NoRequest}]
      /\ Handlers \subseteq Goroutines
      /\ \A h \in Handlers : h \notin Loaders /\ h \notin Conns
  BY GoroutinesAssumption DEF LockInv, Typed, Goroutines
<1>2. CASE Announce(g)
  BY <1>2 DEF Announce
<1>3. CASE g \in Handlers /\ ModelStep(g)
  BY <1>1, <1>3 DEF ModelStep, GetModelLock, Enter, GetModelRead, PostModelPath,
                    PostModelLlm, UnloadStop, UnloadDone, DeleteModelStop,
                    DeleteModelDone, Finish, Goto
<1>4. CASE g \in Handlers /\ (WorkerStep(g) \/ V1Step(g))
  BY <1>1, <1>4 DEF WorkerStep, AddToDiscovery, AddRPCWorker, RemoveWorkerLock, Enter,
                    RemoveWorker, RemoveWorkerSend, V1Step, V1Check, V1Forward,
                    Finish, Goto
<1>5. CASE g \in Loaders /\ LoadStep(g)
  BY <1>1, <1>5 DEF LoadStep, LoadSetWorkers, LoadFails, LoadLaunches, LoadReady,
                    LoadPolls, LoadedDone, Finish, Goto
<1>6. CASE g \in Conns /\ WsStep(g)
  BY <1>1, <1>6 DEF WsStep, WsRegister, WsCleanup, Goto
<1>7. CASE BroadcastStep(g)
  BY <1>1, <1>7 DEF BroadcastStep, BroadcastLock, Enter, BroadcastSend, Finish, Goto
<1>8. CASE BroadcastClash(g)
  BY <1>1, <1>8 DEF BroadcastClash, Finish, Goto
<1> QED BY <1>2, <1>3, <1>4, <1>5, <1>6, <1>7, <1>8 DEF Step

LEMMA NextRestInv == LockInv /\ RestInv /\ [Next]_vars => RestInv'
<1> SUFFICES ASSUME LockInv, RestInv, [Next]_vars PROVE RestInv'
  OBVIOUS
<1>1. CASE Arrive
  <2>1. ASSUME NEW h \in Handlers, Receive(h) PROVE RestInv'
    <3>1. PICK r \in Requests : /\ req' = [req EXCEPT ![h] = r]
                                /\ pc' = [pc EXCEPT ![h] = FirstStep(r.kind)]
      BY <2>1 DEF Receive, Goto
    <3>2. r.kind \in {"getModel", "setModel", "load", "unload", "deleteModel",
                      "addWorker", "deleteWorker", "v1"}
      BY RequestsAssumption DEF AllRequests
    <3>3. FirstStep(r.kind) = "postLock" => r.kind \in ModelKinds
      BY <3>2 DEF FirstStep, ModelKinds
    <3>4. \A k \in Handlers : pc'[k] = "postLock" => req'[k].kind \in ModelKinds
      BY <3>1, <3>3 DEF LockInv, Typed, RestInv, Goroutines
    <3> QED BY <1>1, <2>1, <3>4 DEF Receive, Arrive, apiVars, RestInv
  <2>2. ASSUME NEW c \in Conns, WsUpgrade(c) PROVE RestInv'
    <3>1. \A h \in Handlers : pc'[h] = pc[h]
      BY <2>2, GoroutinesAssumption DEF WsUpgrade, Goto, LockInv, Typed, Goroutines
    <3> QED BY <1>1, <2>2, <3>1, RestKept DEF WsUpgrade, Arrive, apiVars
  <2>3. ASSUME NEW w \in Workers, Discovered(w) PROVE RestInv'
    BY <1>1, <2>3 DEF Discovered, Arrive, RestInv
  <2> QED BY <1>1, <2>1, <2>2, <2>3 DEF Arrive
<1>2. ASSUME NEW g \in Goroutines, Step(g) PROVE RestInv'
  <2>0. /\ crashed' = crashed
        /\ \A h \in Handlers : pc'[h] = "postLock" => req'[h].kind \in ModelKinds
    BY <1>2, RequestsStay DEF Step, RestInv
  <2>1. CASE Announce(g) \/ BroadcastLock(g)
    BY <2>0, <2>1 DEF Announce, BroadcastLock, Enter, apiVars, RestInv
  <2>2. CASE g \in Handlers /\ ModelStep(g)
    <3>1. CASE PostModelPath(g)
      BY <2>0, <2>2, <3>1, ArgumentOfKind DEF PostModelPath, RestInv
    <3>2. CASE ~PostModelPath(g)
      BY <2>0, <2>2, <3>2
         DEF ModelStep, GetModelLock, Enter, GetModelRead, PostModelLlm, UnloadStop,
             UnloadDone, DeleteModelStop, DeleteModelDone, apiVars, RestInv
    <3> QED BY <3>1, <3>2
  <2>3. CASE g \in Handlers /\ WorkerStep(g)
    <3>1. CASE AddToDiscovery(g)
      <4>1. g \in Goroutines /\ req[g].kind = "addWorker"
        BY <1>2, <3>1 DEF AddToDiscovery, LockInv, Disciplined, AddSteps
      <4> QED BY <2>0, <2>3, <3>1, <4>1, ArgumentOfKind DEF AddToDiscovery, RestInv
    <3>2. CASE ~AddToDiscovery(g)
      BY <2>0, <2>3, <3>2
         DEF WorkerStep, AddRPCWorker, RemoveWorkerLock, Enter, RemoveWorker,
             RemoveWorkerSend, Deliver, apiVars, RestInv
    <3> QED BY <3>1, <3>2
  <2>4. CASE g \in Handlers /\ V1Step(g)
    BY <2>0, <2>4 DEF V1Step, V1Check, V1Forward, apiVars, RestInv
  <2>5. CASE g \in Loaders /\ LoadStep(g)
    BY <2>0, <2>5 DEF LoadStep, LoadSetWorkers, LoadFails, LoadLaunches, LoadReady,
                      LoadPolls, LoadedDone, apiVars, RestInv
  <2>6. CASE g \in Conns /\ WsStep(g)
    BY <2>0, <2>6 DEF WsStep, WsRegister, WsCleanup, RestInv
  <2>7. CASE BroadcastSend(g)
    BY <2>0, <2>7 DEF BroadcastSend, Deliver, RestInv
  <2> QED BY <1>2, <2>1, <2>2, <2>3, <2>4, <2>5, <2>6, <2>7 DEF Step, BroadcastStep
<1>3. ASSUME NEW g \in Goroutines, BroadcastClash(g) PROVE RestInv'
  <2>1. crashed' \in BOOLEAN /\ UNCHANGED apiVars
    BY <1>3 DEF BroadcastClash, RestInv
  <2> QED BY <1>3, <2>1, RequestsStay DEF RestInv, apiVars
<1>4. ASSUME NEW i \in LS!Launches, Child(i) PROVE RestInv'
  BY <1>4 DEF Child, ChildDo, apiVars, RestInv
<1>5. CASE UNCHANGED vars
  BY <1>5 DEF vars, apiVars, RestInv
<1> QED BY <1>1, <1>2, <1>3, <1>4, <1>5 DEF Next, Clash

\* Every variable of the API server keeps its type, llama-server's among them.
THEOREM TypeCorrect == Spec => []TypeOK
<1>1. Init => RestInv
  BY DEF Init, RestInv, Goroutines
<1>2. LSP!IInv => LS!TypeOK
  BY DEF LSP!IInv, LSP!TypeOK, LS!TypeOK, LSP!Launches, LS!Launches
<1>3. Inv /\ RestInv /\ LSP!IInv => TypeOK
  BY <1>2 DEF Inv, LockInv, Typed, ConnInv, RpcInv, RestInv, TypeOK
<1>4. Inv /\ RestInv /\ [Next]_vars => RestInv'
  BY NextRestInv DEF Inv
<1> QED BY <1>1, <1>3, <1>4, SpecInv, LlmInv, PTL DEF Spec
=============================================================================
