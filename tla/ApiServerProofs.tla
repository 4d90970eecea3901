--------------------------- MODULE ApiServerProofs ---------------------------
(* Who holds or awaits api.Server.mu can be read off each goroutine's step.   *)
(* That is the inductive invariant from which follow, for any number of       *)
(* handlers, loads and connections: only worker requests wedge the mutex, a   *)
(* wedge is for ever, and no Start polls with the API mutex held.             *)
EXTENDS ApiServer, TLAPS

\* Read locks that a goroutine at a step holds or has asked for.
Depth(step) ==
  IF step \in {"getRead", "send", "rmRemove", "addNested"} THEN 1
  ELSE IF step = "rmSend" THEN 2 ELSE 0

Asked(g) == readers[g] + (IF g \in waiting THEN 1 ELSE 0)

AddSteps == {"addDiscovery", "addLock", "addNested"}
RemoveSteps == {"rmLock", "rmRemove", "rmSend"}

Typed ==
  /\ pc \in [Goroutines -> Steps]
  /\ req \in [Handlers -> AllRequests \cup {NoRequest}]
  /\ Mu!LockTypeOK
  /\ mu \in Loaders \cup {Nobody}

\* The lock discipline of one goroutine.
Disciplined(g) ==
  /\ Asked(g) = Depth(pc[g])
  /\ writer = g => pc[g] \in LockSteps \cup {"addNested"}
  /\ mu = g => pc[g] = "loadPoll"
  /\ pc[g] \in AddSteps => g \in Handlers /\ req[g].kind = "addWorker"
  /\ pc[g] \in RemoveSteps => g \in Handlers /\ req[g].kind = "deleteWorker"

LockInv == Typed /\ \A g \in Goroutines : Disciplined(g)

\* A step of g leaves the other goroutines' share in the mutex alone.
OthersKept(g) ==
  \A h \in Goroutines \ {g} : Asked(h)' = Asked(h) /\ (writer' = h => writer = h)
-----------------------------------------------------------------------------
(* What each operation of the mutex does to the shares.                     *)

\* Announce makes g the writer.
LEMMA AnnounceShares ==
  ASSUME Mu!LockTypeOK, NEW g \in Goroutines, Mu!Announce(g)
  PROVE  /\ Mu!LockTypeOK' /\ OthersKept(g)
         /\ Asked(g)' = Asked(g)
         /\ writer' = g
  BY GoroutinesAssumption DEF Mu!LockTypeOK, Mu!Announce, OthersKept, Asked

\* Unlock turns every awaited read lock into one that is held.
LEMMA UnlockShares ==
  ASSUME Mu!LockTypeOK, NEW g \in Goroutines, Mu!Unlock(g)
  PROVE  /\ Mu!LockTypeOK' /\ OthersKept(g)
         /\ Asked(g)' = Asked(g)
         /\ writer' = Nobody
<1>1. \A h \in Goroutines : Asked(h)' = Asked(h)
  BY DEF Mu!LockTypeOK, Mu!Unlock, Mu!Exclusive, Asked
<1>2. Mu!LockTypeOK'
  BY DEF Mu!LockTypeOK, Mu!Unlock
<1> QED BY <1>1, <1>2, GoroutinesAssumption DEF Mu!Unlock, OthersKept

\* RLock adds one, held or awaited.
LEMMA RLockShares ==
  ASSUME Mu!LockTypeOK, NEW g \in Goroutines, g \notin waiting, Mu!RLock(g)
  PROVE  /\ Mu!LockTypeOK' /\ OthersKept(g)
         /\ Asked(g)' = Asked(g) + 1
         /\ writer' = writer
  BY DEF Mu!LockTypeOK, Mu!RLock, OthersKept, Asked

\* RUnlock gives back what is held.
LEMMA RUnlockShares ==
  ASSUME Mu!LockTypeOK, NEW g \in Goroutines, NEW n \in Nat, n <= readers[g],
         Mu!RUnlock(g, n)
  PROVE  /\ Mu!LockTypeOK' /\ OthersKept(g)
         /\ Asked(g)' = Asked(g) - n
         /\ writer' = writer
  BY DEF Mu!LockTypeOK, Mu!RUnlock, Mu!Shared, OthersKept, Asked

\* A step that does not touch the mutex.
LEMMA SameShares ==
  ASSUME Mu!LockTypeOK, NEW g \in Goroutines, UNCHANGED lockVars
  PROVE  /\ Mu!LockTypeOK' /\ OthersKept(g)
         /\ Asked(g)' = Asked(g)
         /\ writer' = writer
  BY DEF Mu!LockTypeOK, lockVars, OthersKept, Asked

\* The invariant survives a step that moves one goroutine, if the goroutine
\* arrives with the share its new step calls for.
LEMMA Move ==
  ASSUME LockInv, NEW g \in Goroutines, NEW s \in Steps,
         pc' = [pc EXCEPT ![g] = s],
         req' \in [Handlers -> AllRequests \cup {NoRequest}],
         \A h \in Handlers \ {g} : req'[h] = req[h],
         Mu!LockTypeOK', OthersKept(g),
         Asked(g)' = Depth(s),
         writer' = g => s \in LockSteps \cup {"addNested"},
         mu' \in {mu, Nobody} \/ (mu' = g /\ g \in Loaders),
         mu' = g => s = "loadPoll",
         s \in AddSteps => g \in Handlers /\ req'[g].kind = "addWorker",
         s \in RemoveSteps => g \in Handlers /\ req'[g].kind = "deleteWorker"
  PROVE  LockInv'
<1>1. Typed'
  BY DEF LockInv, Typed
<1>2. Disciplined(g)'
  BY DEF LockInv, Typed, Disciplined
<1>3. ASSUME NEW h \in Goroutines \ {g} PROVE Disciplined(h)'
  <2>1. /\ pc'[h] = pc[h]
        /\ h \in Handlers => req'[h] = req[h]
        /\ mu' = h => mu = h
    BY <1>3, GoroutinesAssumption DEF LockInv, Typed
  <2> QED BY <2>1, <1>3 DEF LockInv, Disciplined, OthersKept
<1> QED BY <1>1, <1>2, <1>3 DEF LockInv
-----------------------------------------------------------------------------
(* Every action keeps the invariant.                                        *)

\* Finish answers the request, and a goroutine that is not a handler has none.
LEMMA FinishMoves ==
  ASSUME LockInv, NEW g \in Goroutines, Finish(g)
  PROVE  /\ pc' = [pc EXCEPT ![g] = "idle"]
         /\ req' \in [Handlers -> AllRequests \cup {NoRequest}]
         /\ \A h \in Handlers \ {g} : req'[h] = req[h]
  BY DEF LockInv, Typed, Finish, Goto

\* The announcing goroutine stays where it is.
LEMMA AnnounceInv ==
  ASSUME LockInv, NEW g \in Goroutines, Announce(g)
  PROVE  LockInv'
<1>1. pc' = [pc EXCEPT ![g] = pc[g]] /\ pc[g] \in LockSteps /\ pc[g] \in Steps
  BY DEF Announce, LockInv, Typed, LockSteps
<1>2. Mu!LockTypeOK' /\ OthersKept(g) /\ Asked(g)' = Depth(pc[g])
  BY AnnounceShares DEF Announce, LockInv, Typed, Disciplined
<1>3. mu' = mu /\ req' = req
  BY DEF Announce, llmVars
<1> QED BY <1>1, <1>2, <1>3, Move DEF LockInv, Typed, Disciplined

\* The head of a reading section.
LEMMA EnterInv ==
  ASSUME LockInv, NEW g \in Goroutines,
         NEW here \in {"getLock", "bcast", "rmLock"},
         NEW there \in {"getRead", "send", "rmRemove"},
         here = "rmLock" <=> there = "rmRemove",
         Enter(g, here, there)
  PROVE  LockInv'
<1>1. pc[g] = here /\ pc' = [pc EXCEPT ![g] = there] /\ there \in Steps
  BY DEF Enter, Goto, Steps
<1>2. Asked(g) = 0 /\ g \notin waiting
  BY <1>1 DEF LockInv, Typed, Disciplined, Depth, Asked, Mu!LockTypeOK
<1>3. Mu!LockTypeOK' /\ OthersKept(g) /\ Asked(g)' = Depth(there) /\ writer' = writer
  BY <1>2, RLockShares DEF Enter, LockInv, Typed, Depth
<1>4. writer # g /\ mu # g
  BY <1>1 DEF LockInv, Disciplined, LockSteps
<1>5. mu' = mu /\ req' = req
  BY DEF Enter, llmVars
<1>6. there \in RemoveSteps => g \in Handlers /\ req'[g].kind = "deleteWorker"
  BY <1>1, <1>5 DEF LockInv, Disciplined, RemoveSteps
<1>7. there \notin AddSteps
  BY DEF AddSteps
<1> QED BY <1>1, <1>3, <1>4, <1>5, <1>6, <1>7, Move DEF LockInv, Typed

\* A write section that ends in Unlock, at a step that reads nothing.
LEMMA UnlockInv ==
  ASSUME LockInv, NEW g \in Goroutines, pc[g] \in LockSteps, Mu!Unlock(g),
         NEW s \in {"postLlm", "bcast", "loadStart", "wsDone", "idle"},
         pc' = [pc EXCEPT ![g] = s], req' = req, mu' = mu
  PROVE  LockInv'
<1>1. Asked(g)' = Depth(s) /\ Mu!LockTypeOK' /\ OthersKept(g) /\ writer' = Nobody
  BY UnlockShares DEF LockInv, Typed, Disciplined, Depth, LockSteps
<1>2. mu' # g /\ writer' # g /\ s \in Steps
  BY <1>1, GoroutinesAssumption DEF LockInv, Disciplined, LockSteps, Steps
<1>3. s \notin AddSteps /\ s \notin RemoveSteps
  BY DEF AddSteps, RemoveSteps
<1> QED BY <1>1, <1>2, <1>3, Move DEF LockInv, Typed

\* The end of a reading section.
LEMMA LeaveInv ==
  ASSUME LockInv, NEW g \in Goroutines, NEW n \in Nat,
         pc[g] \in {"getRead", "send", "rmRemove", "rmSend"}, n = Depth(pc[g]),
         Mu!RUnlock(g, n), Finish(g), mu' = mu
  PROVE  LockInv'
<1>1. readers[g] = n
  BY DEF LockInv, Typed, Disciplined, Mu!LockTypeOK, Mu!RUnlock, Mu!Shared, Asked
<1>2. Mu!LockTypeOK' /\ OthersKept(g) /\ Asked(g)' = 0 /\ writer' = writer
  <2>1. Asked(g) = n
    BY DEF LockInv, Disciplined
  <2> QED BY <1>1, <2>1, RUnlockShares DEF LockInv, Typed
<1>3. writer # g /\ mu # g
  BY DEF LockInv, Disciplined, LockSteps
<1>4. Depth("idle") = 0 /\ "idle" \in Steps
  BY DEF Depth, Steps
<1>5. "idle" \notin AddSteps /\ "idle" \notin RemoveSteps
  BY DEF AddSteps, RemoveSteps
<1> QED BY <1>2, <1>3, <1>4, <1>5, FinishMoves, Move DEF LockInv, Typed

\* A step of g outside the mutex, between steps that hold nothing.
LEMMA LocalInv ==
  ASSUME LockInv, NEW g \in Goroutines, UNCHANGED lockVars,
         pc[g] \notin LockSteps,
         Depth(pc[g]) = 0,
         NEW s \in Steps, Depth(s) = 0, pc' = [pc EXCEPT ![g] = s],
         req' \in [Handlers -> AllRequests \cup {NoRequest}],
         \A h \in Handlers \ {g} : req'[h] = req[h],
         mu' \in {mu, Nobody} \/ (mu' = g /\ g \in Loaders),
         mu' = g => s = "loadPoll",
         s \in AddSteps => g \in Handlers /\ req'[g].kind = "addWorker",
         s \in RemoveSteps => g \in Handlers /\ req'[g].kind = "deleteWorker"
  PROVE  LockInv'
<1>1. Asked(g)' = Depth(s) /\ Mu!LockTypeOK' /\ OthersKept(g) /\ writer' = writer
  BY SameShares DEF LockInv, Typed, Disciplined
<1>2. writer # g
  BY DEF LockInv, Disciplined, Depth
<1> QED BY <1>1, <1>2, Move

\* Handlers of /api/model.
LEMMA ModelStepInv ==
  ASSUME LockInv, NEW g \in Handlers, ModelStep(g)
  PROVE  LockInv'
<1> g \in Goroutines
  BY DEF Goroutines
<1>1. CASE GetModelLock(g)
  BY <1>1, EnterInv DEF GetModelLock
<1>2. CASE GetModelRead(g)
  <2>1. pc[g] = "getRead" /\ Depth(pc[g]) = 1
    BY <1>2 DEF GetModelRead, Depth
  <2> QED BY <1>2, <2>1, LeaveInv DEF GetModelRead, llmVars
<1>3. CASE PostModelPath(g)
  BY <1>3, UnlockInv DEF PostModelPath, Goto, LockSteps, llmVars
<1>4. CASE PostModelLlm(g)
  <2>1. /\ pc[g] = "postLlm" /\ Depth(pc[g]) = 0 /\ pc[g] \notin LockSteps
        /\ UNCHANGED lockVars /\ mu' = mu /\ mu # g
    BY <1>4 DEF PostModelLlm, LS!SetModelPath, Depth, LockSteps, LockInv, Disciplined
  <2>2. /\ {"idle", "unloadStop", "loadLock"} \subseteq Steps
        /\ Depth("idle") = 0 /\ Depth("unloadStop") = 0 /\ Depth("loadLock") = 0
        /\ \A s \in {"idle", "unloadStop", "loadLock"} :
             s \notin AddSteps /\ s \notin RemoveSteps
    BY DEF Steps, Depth, AddSteps, RemoveSteps
  <2>3. CASE Finish(g)
    BY <2>1, <2>2, <2>3, FinishMoves, LocalInv DEF LockInv, Typed
  <2>4. CASE Goto(g, "unloadStop") /\ UNCHANGED req
    BY <2>1, <2>2, <2>4, LocalInv DEF LockInv, Typed, Goto
  <2>5. ASSUME NEW l \in Loaders, pc[l] = "idle",
               pc' = [pc EXCEPT ![g] = "idle", ![l] = "loadLock"],
               req' = [req EXCEPT ![g] = NoRequest]
        PROVE  LockInv'
    <3>1. Typed'
      BY <2>1, <2>2, <2>5 DEF LockInv, Typed, lockVars, Mu!LockTypeOK, Goroutines
    <3>2. l # g /\ l \in Goroutines /\ l \notin Handlers
      BY GoroutinesAssumption DEF Goroutines
    <3>3. \A h \in Goroutines : Asked(h)' = Asked(h)
      BY <2>1 DEF lockVars, Asked
    <3>4. Disciplined(g)' /\ Disciplined(l)'
      BY <2>1, <2>2, <2>5, <3>2, <3>3
         DEF LockInv, Typed, Disciplined, lockVars, Depth, LockSteps
    <3>5. \A h \in Goroutines \ {g, l} : Disciplined(h)'
      BY <2>1, <2>5, <3>3 DEF LockInv, Typed, Disciplined, lockVars
    <3> QED BY <3>1, <3>4, <3>5 DEF LockInv
  <2> QED BY <1>4, <2>3, <2>4, <2>5 DEF PostModelLlm
<1>5. CASE UnloadStop(g) \/ DeleteModelStop(g)
  <2>1. PICK s \in {"unloadLock", "delLock"} : pc' = [pc EXCEPT ![g] = s]
    BY <1>5 DEF UnloadStop, DeleteModelStop, Goto
  <2>2. /\ pc[g] \notin LockSteps /\ Depth(pc[g]) = 0
        /\ UNCHANGED lockVars /\ mu' = mu /\ mu # g /\ req' = req
    BY <1>5 DEF UnloadStop, DeleteModelStop, LS!Stop, Depth, LockSteps,
                LockInv, Disciplined
  <2>3. s \in Steps /\ Depth(s) = 0 /\ s \notin AddSteps /\ s \notin RemoveSteps
    BY DEF Steps, Depth, AddSteps, RemoveSteps
  <2> QED BY <2>1, <2>2, <2>3, LocalInv DEF LockInv, Typed
<1>6. CASE UnloadDone(g) \/ DeleteModelDone(g)
  BY <1>6, UnlockInv DEF UnloadDone, DeleteModelDone, Goto, LockSteps, llmVars
<1> QED BY <1>1, <1>2, <1>3, <1>4, <1>5, <1>6 DEF ModelStep

\* Handlers of the worker requests.
LEMMA WorkerStepInv ==
  ASSUME LockInv, NEW g \in Handlers, WorkerStep(g)
  PROVE  LockInv'
<1> g \in Goroutines
  BY DEF Goroutines
<1>1. CASE AddToDiscovery(g)
  <2>1. /\ pc[g] = "addDiscovery" /\ pc' = [pc EXCEPT ![g] = "addLock"]
        /\ UNCHANGED lockVars /\ mu' = mu /\ req' = req
    BY <1>1 DEF AddToDiscovery, Goto, llmVars
  <2>2. /\ pc[g] \notin LockSteps /\ Depth(pc[g]) = 0 /\ Depth("addLock") = 0
        /\ "addLock" \in Steps /\ "addLock" \notin RemoveSteps
    BY <2>1 DEF LockSteps, Depth, Steps, RemoveSteps
  <2>3. mu # g /\ req[g].kind = "addWorker"
    BY <2>1 DEF LockInv, Disciplined, AddSteps
  <2> QED BY <2>1, <2>2, <2>3, LocalInv DEF LockInv, Typed
<1>2. CASE AddRPCWorker(g)
  <2>1. /\ pc[g] = "addLock" /\ pc' = [pc EXCEPT ![g] = "addNested"]
        /\ Mu!RLock(g) /\ mu' = mu /\ req' = req
    BY <1>2 DEF AddRPCWorker, Goto, llmVars
  <2>2. Asked(g) = 0 /\ g \notin waiting /\ mu # g /\ req[g].kind = "addWorker"
    BY <2>1 DEF LockInv, Typed, Disciplined, Depth, Asked, Mu!LockTypeOK, AddSteps
  <2>3. Mu!LockTypeOK' /\ OthersKept(g) /\ Asked(g)' = 1
    BY <2>1, <2>2, RLockShares DEF LockInv, Typed
  <2>4. Depth("addNested") = 1 /\ "addNested" \in Steps /\ "addNested" \notin RemoveSteps
    BY DEF Depth, Steps, RemoveSteps
  <2> QED BY <2>1, <2>2, <2>3, <2>4, Move DEF LockInv, Typed
<1>3. CASE RemoveWorkerLock(g)
  BY <1>3, EnterInv DEF RemoveWorkerLock
<1>4. CASE RemoveWorker(g)
  <2>0. /\ pc[g] = "rmRemove" /\ Mu!Shared(g) /\ mu' = mu /\ Depth(pc[g]) = 1
    BY <1>4 DEF RemoveWorker, llmVars, Depth
  <2>1. CASE Mu!RUnlock(g, 1) /\ Finish(g)
    BY <2>0, <2>1, LeaveInv
  <2>2. CASE Mu!RLock(g) /\ Goto(g, "rmSend") /\ req' = req
    <3>1. Mu!LockTypeOK' /\ OthersKept(g) /\ Asked(g)' = 2 /\ writer' = writer
      BY <2>0, <2>2, RLockShares DEF LockInv, Typed, Disciplined, Mu!Shared
    <3>2. writer # g /\ mu # g /\ req[g].kind = "deleteWorker"
      BY <2>0 DEF LockInv, Disciplined, LockSteps, RemoveSteps
    <3>3. Depth("rmSend") = 2 /\ "rmSend" \in Steps /\ "rmSend" \notin AddSteps
      BY DEF Depth, Steps, AddSteps
    <3> QED BY <2>0, <2>2, <3>1, <3>2, <3>3, Move DEF LockInv, Typed, Goto
  <2> QED BY <1>4, <2>1, <2>2 DEF RemoveWorker
<1>5. CASE RemoveWorkerSend(g)
  <2>1. pc[g] = "rmSend" /\ Depth(pc[g]) = 2
    BY <1>5 DEF RemoveWorkerSend, Depth
  <2> QED BY <1>5, <2>1, LeaveInv DEF RemoveWorkerSend, llmVars
<1> QED BY <1>1, <1>2, <1>3, <1>4, <1>5 DEF WorkerStep

\* The proxy takes no share in the API mutex.
LEMMA V1StepInv ==
  ASSUME LockInv, NEW g \in Handlers, V1Step(g)
  PROVE  LockInv'
<1> g \in Goroutines
  BY DEF Goroutines
<1>1. /\ pc[g] \in {"v1Check", "v1Forward"} /\ UNCHANGED lockVars /\ mu' = mu
      /\ Finish(g) \/ (Goto(g, "v1Forward") /\ req' = req)
  BY DEF V1Step, V1Check, V1Forward, llmVars
<1>2. /\ pc[g] \notin LockSteps /\ Depth(pc[g]) = 0 /\ mu # g
      /\ \A s \in {"idle", "v1Forward"} :
           s \in Steps /\ Depth(s) = 0 /\ s \notin AddSteps /\ s \notin RemoveSteps
  BY <1>1 DEF LockInv, Disciplined, LockSteps, Depth, Steps, AddSteps, RemoveSteps
<1>3. CASE Finish(g)
  BY <1>1, <1>2, <1>3, FinishMoves, LocalInv DEF LockInv, Typed
<1>4. CASE Goto(g, "v1Forward") /\ req' = req
  BY <1>1, <1>2, <1>4, LocalInv DEF LockInv, Typed, Goto
<1> QED BY <1>1, <1>3, <1>4

\* The load goroutine: it is the only one to hold the mutex of llmserver across
\* steps, and only while it polls.
LEMMA LoadStepInv ==
  ASSUME LockInv, NEW g \in Loaders, LoadStep(g)
  PROVE  LockInv'
<1> g \in Goroutines
  BY DEF Goroutines
<1>1. CASE LoadSetWorkers(g)
  BY <1>1, UnlockInv DEF LoadSetWorkers, Goto, LockSteps, LS!SetRPCWorkers
<1>2. CASE LoadFails(g)
  <2>1. /\ pc[g] = "loadStart" /\ UNCHANGED lockVars /\ mu' = mu /\ Finish(g)
    BY <1>2 DEF LoadFails, LS!StartNoPath, LS!StartNoBinary
  <2>2. /\ pc[g] \notin LockSteps /\ Depth(pc[g]) = 0 /\ mu # g
        /\ Depth("idle") = 0 /\ "idle" \in Steps
        /\ "idle" \notin AddSteps /\ "idle" \notin RemoveSteps
    BY <2>1 DEF LockInv, Disciplined, LockSteps, Depth, Steps, AddSteps, RemoveSteps
  <2> QED BY <2>1, <2>2, FinishMoves, LocalInv DEF LockInv, Typed
<1>3. CASE LoadLaunches(g) \/ LoadReady(g) \/ LoadPolls(g)
  <2>1. /\ UNCHANGED lockVars /\ req' = req
        /\ pc[g] \in {"loadStart", "loadPoll"}
    BY <1>3 DEF LoadLaunches, LoadReady, LoadPolls
  <2>2. PICK s \in {"loadPoll", "loadedLock", "idle"} :
          /\ pc' = [pc EXCEPT ![g] = s]
          /\ mu' = g => s = "loadPoll"
    BY <1>3, GoroutinesAssumption
       DEF LoadLaunches, LoadReady, LoadPolls, Goto, LS!PollHealthy
  <2>3. mu' \in {mu, Nobody, g}
    BY <1>3 DEF LoadLaunches, LoadReady, LoadPolls, LS!StartLaunch,
                LS!PollHealthy, LS!PollUnhealthy
  <2>4. /\ pc[g] \notin LockSteps /\ Depth(pc[g]) = 0 /\ Depth(s) = 0
        /\ s \in Steps /\ s \notin AddSteps /\ s \notin RemoveSteps
    BY <2>1 DEF LockSteps, Depth, Steps, AddSteps, RemoveSteps
  <2> QED BY <2>1, <2>2, <2>3, <2>4, LocalInv DEF LockInv, Typed
<1>4. CASE LoadedDone(g)
  BY <1>4, UnlockInv DEF LoadedDone, Goto, LockSteps, llmVars
<1> QED BY <1>1, <1>2, <1>3, <1>4 DEF LoadStep

\* WebSocket handlers and their cleanup.
LEMMA WsStepInv ==
  ASSUME LockInv, NEW g \in Conns, WsStep(g)
  PROVE  LockInv'
  BY UnlockInv
     DEF WsStep, WsRegister, WsCleanup, Goroutines, Goto, LockSteps, llmVars

\* Broadcasts, alone or clashing.
LEMMA BroadcastInv ==
  ASSUME LockInv, NEW g \in Goroutines,
         BroadcastStep(g) \/ BroadcastClash(g)
  PROVE  LockInv'
<1>1. CASE BroadcastLock(g)
  BY <1>1, EnterInv DEF BroadcastLock
<1>2. CASE BroadcastSend(g)
  <2>1. pc[g] = "send" /\ Depth(pc[g]) = 1
    BY <1>2 DEF BroadcastSend, Depth
  <2> QED BY <1>2, <2>1, LeaveInv DEF BroadcastSend, llmVars
<1>3. CASE BroadcastClash(g)
  <2>1. /\ pc[g] \in {"send", "rmSend"} /\ Mu!Shared(g) /\ mu' = mu
    BY <1>3 DEF BroadcastClash, Broadcasting, llmVars
  <2>2. readers[g] = Depth(pc[g]) /\ readers[g] \in Nat
    BY <2>1 DEF LockInv, Typed, Disciplined, Asked, Mu!Shared, Mu!LockTypeOK
  <2>3. CASE Mu!RUnlock(g, readers[g]) /\ Finish(g)
    BY <2>1, <2>2, <2>3, LeaveInv
  <2>4. CASE UNCHANGED <<pc, req, lockVars>>
    BY <2>1, <2>4
       DEF LockInv, Typed, Disciplined, Asked, lockVars, Mu!LockTypeOK
  <2> QED BY <1>3, <2>3, <2>4 DEF BroadcastClash
<1> QED BY <1>1, <1>2, <1>3 DEF BroadcastStep

\* A request arrives at a handler that holds nothing.
LEMMA ReceiveInv ==
  ASSUME LockInv, NEW g \in Handlers, Receive(g)
  PROVE  LockInv'
<1> g \in Goroutines
  BY DEF Goroutines
<1>1. PICK r \in Requests :
        /\ req' = [req EXCEPT ![g] = r]
        /\ pc' = [pc EXCEPT ![g] = FirstStep(r.kind)]
  BY DEF Receive, Goto
<1>2. r \in AllRequests
  BY RequestsAssumption
<1>3. r.kind \in {"setModel", "load", "unload", "addWorker", "deleteWorker",
                  "getModel", "deleteModel", "v1"}
  BY <1>2 DEF AllRequests
<1> DEFINE s == FirstStep(r.kind)
<1>4. /\ s \in Steps /\ Depth(s) = 0
      /\ s \in AddSteps => r.kind = "addWorker"
      /\ s \in RemoveSteps => r.kind = "deleteWorker"
  BY <1>3 DEF FirstStep, Steps, Depth, AddSteps, RemoveSteps
<1>5. req' \in [Handlers -> AllRequests \cup {NoRequest}] /\ req'[g] = r
  BY <1>1, <1>2 DEF LockInv, Typed
<1>6. \A h \in Handlers \ {g} : req'[h] = req[h]
  BY <1>1 DEF LockInv, Typed
<1>7. UNCHANGED lockVars /\ mu' = mu /\ pc[g] = "idle"
  BY DEF Receive, llmVars
<1>8. mu # g /\ pc[g] \notin LockSteps /\ Depth(pc[g]) = 0
  BY <1>7 DEF LockInv, Disciplined, LockSteps, Depth
<1> HIDE DEF s
<1> QED BY <1>1, <1>4, <1>5, <1>6, <1>7, <1>8, LocalInv DEF LockInv, Typed, s

\* Steps that move no goroutine: discovery and the children of llama-server.
LEMMA StillInv ==
  ASSUME LockInv, UNCHANGED <<pc, req, lockVars, mu>>
  PROVE  LockInv'
  BY DEF LockInv, Typed, Disciplined, Asked, lockVars, Mu!LockTypeOK

LEMMA NextInv == LockInv /\ [Next]_vars => LockInv'
<1> SUFFICES ASSUME LockInv, [Next]_vars PROVE LockInv'
  OBVIOUS
<1>1. CASE Arrive
  <2>1. CASE \E h \in Handlers : Receive(h)
    BY <2>1, ReceiveInv
  <2>2. ASSUME NEW c \in Conns, WsUpgrade(c) PROVE LockInv'
    <3>1. /\ c \in Goroutines /\ pc[c] = "idle"
          /\ pc' = [pc EXCEPT ![c] = "wsLock"]
          /\ UNCHANGED lockVars /\ mu' = mu /\ req' = req
      BY <2>2 DEF WsUpgrade, Goto, Goroutines, llmVars
    <3>2. mu # c /\ "wsLock" \in Steps
      BY <3>1 DEF LockInv, Disciplined, Steps
    <3>3. /\ pc[c] \notin LockSteps /\ Depth(pc[c]) = 0 /\ Depth("wsLock") = 0
          /\ "wsLock" \notin AddSteps /\ "wsLock" \notin RemoveSteps
      BY <3>1 DEF LockSteps, Depth, AddSteps, RemoveSteps
    <3> QED BY <3>1, <3>2, <3>3, LocalInv DEF LockInv, Typed
  <2>3. CASE \E w \in Workers : Discovered(w)
    BY <2>3, StillInv DEF Discovered, llmVars
  <2> QED BY <1>1, <2>1, <2>2, <2>3 DEF Arrive
<1>2. ASSUME NEW g \in Goroutines, Step(g) PROVE LockInv'
  BY <1>2, AnnounceInv, ModelStepInv, WorkerStepInv, V1StepInv, LoadStepInv,
     WsStepInv, BroadcastInv DEF Step
<1>3. CASE Clash
  BY <1>3, BroadcastInv DEF Clash
<1>4. ASSUME NEW i \in LS!Launches, Child(i) PROVE LockInv'
  <2>1. UNCHANGED <<pc, req, lockVars, mu>>
    BY <1>4 DEF Child, ChildDo, LS!RunChild, LS!BindPort, LS!FinishLoading,
                LS!Die, LS!Reap, LS!childVars
  <2> QED BY <2>1, StillInv
<1>5. CASE UNCHANGED vars
  BY <1>5, StillInv DEF vars, llmVars
<1> QED BY <1>1, <1>2, <1>3, <1>4, <1>5 DEF Next

LEMMA InitInv == Init => LockInv
<1> SUFFICES ASSUME Init PROVE LockInv
  OBVIOUS
<1>1. Typed
  BY DEF Init, Typed, Steps, Mu!LockInit, Mu!LockTypeOK
<1>2. ASSUME NEW g \in Goroutines PROVE Disciplined(g)
  BY GoroutinesAssumption
     DEF Init, Disciplined, Asked, Depth, AddSteps, RemoveSteps, Mu!LockInit
<1> QED BY <1>1, <1>2 DEF LockInv
-----------------------------------------------------------------------------
\* Every goroutine holds exactly the share of the API mutex its step calls for.
THEOREM LockDiscipline == Spec => []LockInv
  BY InitInv, NextInv, PTL DEF Spec

\* No interleaving of loads, unloads, deletes, status requests and connections
\* makes a goroutine wait for itself; a worker request must be under way.
THEOREM OnlyWorkersWedge == Spec => []OnlyWorkerRequestsWedge
<1>1. LockInv => OnlyWorkerRequestsWedge
  <2> SUFFICES ASSUME LockInv, NEW g \in waiting, writer = g \/ readers[g] > 0
               PROVE  \E h \in Handlers : req[h].kind \in {"addWorker", "deleteWorker"}
    BY DEF OnlyWorkerRequestsWedge, Mu!Wedged
  <2>1. g \in Goroutines /\ Disciplined(g) /\ readers[g] \in Nat
    BY DEF LockInv, Typed, Mu!LockTypeOK
  <2>2. pc[g] \in {"addNested", "rmSend"}
    BY <2>1 DEF Disciplined, Asked, Depth, LockSteps
  <2> QED BY <2>1, <2>2 DEF Disciplined, AddSteps, RemoveSteps
<1> QED BY <1>1, LockDiscipline, PTL

\* A Start polls with no share in the API mutex.
THEOREM PollsUnlocked == Spec => []PollsWithoutApiLock
<1>1. LockInv => PollsWithoutApiLock
  <2> SUFFICES ASSUME LockInv, mu # Nobody
               PROVE  writer # mu /\ readers[mu] = 0 /\ mu \notin waiting
    BY DEF PollsWithoutApiLock
  <2>1. mu \in Goroutines /\ readers[mu] \in Nat
    BY DEF LockInv, Typed, Goroutines, Mu!LockTypeOK
  <2>2. pc[mu] = "loadPoll" /\ Asked(mu) = Depth(pc[mu])
    BY <2>1 DEF LockInv, Disciplined
  <2> QED BY <2>1, <2>2 DEF LockInv, Disciplined, Asked, Depth, LockSteps
<1> QED BY <1>1, LockDiscipline, PTL

\* Nobody runs on while its own RLock is pending, and nobody unlocks what it does
\* not hold.
LEMMA MutexStep == LockInv /\ [Next]_vars => [Mu!LockNext]_lockVars
<1> SUFFICES ASSUME LockInv, [Next]_vars PROVE [Mu!LockNext]_lockVars
  OBVIOUS
<1>1. \A h \in Goroutines : /\ readers[h] \in Nat
                            /\ Asked(h) = Depth(pc[h])
  BY DEF LockInv, Typed, Disciplined, Mu!LockTypeOK
<1>2. ASSUME NEW h \in Goroutines, pc[h] \in LockSteps,
             Mu!Announce(h) \/ Mu!Unlock(h)
      PROVE  Mu!LockNext
  BY <1>1, <1>2 DEF Depth, LockSteps, Asked, Mu!LockNext
<1>3. ASSUME NEW h \in Goroutines, Mu!RLock(h),
             Depth(pc[h]) = 0 \/ Mu!Shared(h)
      PROVE  Mu!LockNext
  BY <1>1, <1>3 DEF Asked, Mu!Shared, Mu!LockNext
<1>4. ASSUME NEW h \in Goroutines, NEW n \in Nat \ {0}, Mu!RUnlock(h, n),
             n <= Depth(pc[h])
      PROVE  Mu!LockNext
  <2>1. h \notin waiting /\ n \in 1 .. readers[h]
    BY <1>1, <1>4 DEF Asked, Mu!RUnlock, Mu!Shared
  <2> QED BY <1>4, <2>1 DEF Mu!LockNext
<1>5. CASE Arrive
  BY <1>5 DEF Arrive, Receive, WsUpgrade, Discovered
<1>6. ASSUME NEW h \in Goroutines, Step(h) PROVE [Mu!LockNext]_lockVars
  <2>1. CASE Announce(h)
    BY <2>1, <1>2 DEF Announce
  <2>2. CASE ModelStep(h)
    <3>1. CASE GetModelLock(h)
      BY <3>1, <1>3 DEF GetModelLock, Enter, Depth
    <3>2. CASE GetModelRead(h)
      BY <3>2, <1>4 DEF GetModelRead, Depth
    <3>3. CASE PostModelPath(h) \/ UnloadDone(h) \/ DeleteModelDone(h)
      BY <3>3, <1>2 DEF PostModelPath, UnloadDone, DeleteModelDone, LockSteps
    <3> QED BY <2>2, <3>1, <3>2, <3>3
            DEF ModelStep, PostModelLlm, UnloadStop, DeleteModelStop
  <2>3. CASE WorkerStep(h)
    <3>1. CASE AddRPCWorker(h)
      BY <3>1, <1>3 DEF AddRPCWorker, Depth
    <3>2. CASE RemoveWorkerLock(h)
      BY <3>2, <1>3 DEF RemoveWorkerLock, Enter, Depth
    <3>3. CASE RemoveWorker(h)
      BY <3>3, <1>3, <1>4 DEF RemoveWorker, Depth
    <3>4. CASE RemoveWorkerSend(h)
      BY <3>4, <1>4 DEF RemoveWorkerSend, Depth
    <3> QED BY <2>3, <3>1, <3>2, <3>3, <3>4 DEF WorkerStep, AddToDiscovery
  <2>4. CASE V1Step(h)
    BY <2>4 DEF V1Step, V1Check, V1Forward
  <2>5. CASE LoadStep(h)
    BY <2>5, <1>2 DEF LoadStep, LoadSetWorkers, LoadFails, LoadLaunches,
                      LoadReady, LoadPolls, LoadedDone, LockSteps
  <2>6. CASE WsStep(h)
    BY <2>6, <1>2 DEF WsStep, WsRegister, WsCleanup, LockSteps
  <2>7. CASE BroadcastLock(h)
    BY <2>7, <1>3 DEF BroadcastLock, Enter, Depth
  <2>8. CASE BroadcastSend(h)
    BY <2>8, <1>4 DEF BroadcastSend, Depth
  <2> QED BY <1>6, <2>1, <2>2, <2>3, <2>4, <2>5, <2>6, <2>7, <2>8
          DEF Step, BroadcastStep
<1>7. ASSUME NEW h \in Goroutines, BroadcastClash(h) PROVE [Mu!LockNext]_lockVars
  <2>1. CASE Mu!RUnlock(h, readers[h])
    <3>1. h \notin waiting /\ readers[h] \in 1 .. readers[h]
      BY <1>1, <2>1 DEF Mu!RUnlock, Mu!Shared
    <3> QED BY <2>1, <3>1 DEF Mu!LockNext
  <2> QED BY <1>7, <2>1 DEF BroadcastClash
<1>8. ASSUME NEW i \in LS!Launches, Child(i) PROVE UNCHANGED lockVars
  BY <1>8 DEF Child, ChildDo
<1>9. CASE UNCHANGED vars
  BY <1>9 DEF vars
<1> QED BY <1>5, <1>6, <1>7, <1>8, <1>9 DEF Next, Clash

\* The handlers, loads and cleanups use the API mutex only as RWMutex specifies
\* it, for ever: what holds of the mutex alone holds of the API server's.
THEOREM UsesMutex == Spec => Mu!LockSpec
<1>1. Init => Mu!LockInit
  BY DEF Init
<1>2. LockInv /\ [Next]_vars => [Mu!LockNext]_lockVars
  BY MutexStep
<1> QED BY <1>1, <1>2, LockDiscipline, PTL DEF Spec, Mu!LockSpec, lockVars, Mu!lockVars

\* Once the API mutex is wedged, no step of any goroutine frees it.
THEOREM WedgedForEver == Spec => [][Mu!Wedged => Mu!Wedged']_vars
<1>1. LockInv /\ [Next]_vars => (Mu!Wedged => Mu!Wedged')
  <2> SUFFICES ASSUME Mu!LockTypeOK, [Mu!LockNext]_lockVars,
                      NEW g \in waiting, writer = g \/ readers[g] > 0
               PROVE  g \in waiting' /\ (writer' = g \/ readers'[g] > 0)
    BY MutexStep DEF Mu!Wedged, LockInv, Typed
  <2>1. g \in Goroutines /\ readers[g] \in Nat /\ g # Nobody
    BY GoroutinesAssumption DEF Mu!LockTypeOK
  <2>2. ASSUME NEW h \in Goroutines \ waiting, Mu!Unlock(h) PROVE FALSE
    BY <2>1, <2>2 DEF Mu!Unlock, Mu!Exclusive
  <2>3. ASSUME NEW h \in Goroutines \ waiting, NEW n \in Nat,
               Mu!Announce(h) \/ Mu!RLock(h) \/ Mu!RUnlock(h, n)
        PROVE  g \in waiting' /\ (writer' = g \/ readers'[g] > 0)
    BY <2>1, <2>3 DEF Mu!Announce, Mu!RLock, Mu!RUnlock, Mu!LockTypeOK
  <2>4. CASE UNCHANGED lockVars
    BY <2>4 DEF lockVars
  <2> QED BY <2>2, <2>3, <2>4 DEF Mu!LockNext
<1> QED BY <1>1, LockDiscipline, PTL DEF Spec
-----------------------------------------------------------------------------
(* No circle of waits over the two mutexes.                                 *)

\* A pending RLock waits for a writer that has announced itself.
WaitsForWriter == waiting # {} => writer # Nobody

LEMMA WaitersHaveWriter == Spec => []WaitsForWriter
<1>1. Init => WaitsForWriter
  BY DEF Init, Mu!LockInit, WaitsForWriter
<1>2. LockInv /\ WaitsForWriter /\ [Next]_vars => WaitsForWriter'
  <2> SUFFICES ASSUME WaitsForWriter, [Mu!LockNext]_lockVars
               PROVE  WaitsForWriter'
    BY MutexStep
  <2> QED BY GoroutinesAssumption
          DEF Mu!LockNext, WaitsForWriter, lockVars, Mu!Announce, Mu!Unlock,
              Mu!RLock, Mu!RUnlock
<1> QED BY <1>1, <1>2, LockDiscipline, PTL DEF Spec

\* What a goroutine waits for, by its share in the API mutex: the holder of the
\* llmserver mutex for nobody, a reader at most for that holder, the writer for
\* such readers or for the holder, and everyone else for one of the two.
LEMMA WaitsAreShort ==
  ASSUME LockInv, WaitsForWriter, ~Mu!Wedged
  PROVE  NoCircularWait
<1> DEFINE Holder == {mu} \ {Nobody}
           Readers == {r \in Goroutines : readers[r] > 0}
<1>1. /\ writer \in Goroutines \cup {Nobody} /\ mu \in Goroutines \cup {Nobody}
      /\ waiting \subseteq Goroutines
  BY DEF LockInv, Typed, Mu!LockTypeOK, Goroutines
<1>2. ASSUME NEW h \in Holder PROVE h \in Goroutines /\ Awaits(h) = {}
  <2>1. h \in Goroutines /\ pc[h] = "loadPoll" /\ h \notin waiting
    BY <1>1, <1>2 DEF LockInv, Typed, Mu!LockTypeOK, Disciplined, Asked, Depth
  <2> QED BY <2>1 DEF Awaits, LockSteps, LlmSteps
<1>3. ASSUME NEW r \in Readers PROVE Awaits(r) \subseteq Holder
  <2>1. r \notin waiting
    BY DEF Mu!Wedged
  <2>2. pc[r] \notin LockSteps
    BY DEF LockInv, Typed, Mu!LockTypeOK, Disciplined, Asked, Depth, LockSteps
  <2> QED BY <2>1, <2>2 DEF Awaits
<1>4. ASSUME writer # Nobody
      PROVE  Awaits(writer) \subseteq Readers \/ Awaits(writer) \subseteq Holder
  <2>1. writer \notin waiting
    BY DEF Mu!Wedged
  <2> QED BY <2>1 DEF Awaits
<1>5. ASSUME NEW g \in Goroutines
      PROVE  \/ Awaits(g) \subseteq {writer} \ {Nobody}
             \/ Awaits(g) \subseteq Readers
             \/ Awaits(g) \subseteq Holder
  <2>1. CASE g \in waiting
    BY <2>1 DEF WaitsForWriter, Awaits
  <2>2. CASE g \notin waiting
    BY <2>2 DEF Awaits
  <2> QED BY <2>1, <2>2
<1> SUFFICES ASSUME NEW g \in Goroutines, NEW a \in Awaits(g),
                    NEW b \in Awaits(a), NEW c \in Awaits(b)
             PROVE  Awaits(c) = {}
  BY DEF NoCircularWait
<1> HIDE DEF Holder, Readers
<1>6. CASE a \in Holder
  BY <1>2, <1>6
<1>7. CASE a \in Readers
  BY <1>2, <1>3, <1>7
<1>8. CASE a = writer /\ writer # Nobody
  BY <1>2, <1>3, <1>4, <1>8
<1> QED BY <1>5, <1>6, <1>7, <1>8

\* Goroutines never wait for one another in a circle, over both mutexes, unless
\* one of them waits for itself.
THEOREM NoCircle == Spec => []NoCircularWait
<1>1. LockInv /\ WaitsForWriter => NoCircularWait
  BY WaitsAreShort DEF NoCircularWait
<1> QED BY <1>1, LockDiscipline, WaitersHaveWriter, PTL
=============================================================================
