----------------------------- MODULE LlamaServer -----------------------------
(* The lifecycle of the llama-server child processes                        *)
(* (internal/llmserver/server.go).  One mutex, Server.mu, guards the fields; *)
(* Start keeps it for its whole health poll.  Every launch leaves a waiter   *)
(* goroutine that clears isRunning when its child is gone, whichever child   *)
(* the field stands for by then.                                             *)
(* The controller may exit, by a signal or a panic, and be started again; its *)
(* goroutines and fields are gone then, its children are not.                *)
(* A child is named by its launch number.  MaxLaunch bounds the launches of  *)
(* a behaviour and MaxPolls stands for the 30 polls of Start.                *)
EXTENDS Naturals

CONSTANTS Callers,    \* goroutines that call Start or Restart
          Nobody,     \* no goroutine holds Server.mu across a poll
          Paths,      \* model paths
          NoPath,     \* the empty path
          RpcLists,   \* values of rpcWorkers
          MaxLaunch,
          MaxPolls

ASSUME NobodyAssumption == Nobody \notin Callers
ASSUME NoPathAssumption == NoPath \notin Paths
ASSUME BoundsAssumption == MaxLaunch \in Nat /\ MaxPolls \in Nat \ {0}

VARIABLES settings,    \* modelPath and rpcWorkers; the other setters are alike
          isRunning,
          cancel,      \* the launch Server.cancel kills, 0 for nil
          mu,          \* the caller inside Start's poll, or Nobody
          polls,       \* failed polls of that Start
          restarting,  \* callers between the two critical sections of Restart
          born,        \* launches of controllers before this one
          launched,    \* launches so far
          proc,        \* the stage of each launch's child
          cancelled    \* launches whose context was cancelled

vars == <<settings, isRunning, cancel, mu, polls, restarting, born,
          launched, proc, cancelled>>

Launches == 1 .. launched
Live == {i \in Launches : proc[i] \in {"spawned", "booting", "loading", "ready"}}
PortFree == \A i \in Launches : proc[i] \notin {"loading", "ready"}
Reaped == {i \in Launches : proc[i] = "reaped"}

TypeOK ==
  /\ settings \in [modelPath : Paths \cup {NoPath}, rpcWorkers : RpcLists]
  /\ isRunning \in BOOLEAN
  /\ cancel \in 0 .. launched
  /\ mu \in Callers \cup {Nobody}
  /\ polls \in 0 .. MaxPolls - 1
  /\ restarting \subseteq Callers
  /\ born \in 0 .. launched
  /\ launched \in 0 .. MaxLaunch
  /\ proc \in [Launches -> {"spawned", "booting", "loading", "ready",
                            "exited", "reaped"}]
  /\ cancelled \subseteq Launches

\* New, with the path and the workers cmd/controller may have set from the
\* configuration.
Init ==
  /\ \E p \in Paths \cup {NoPath}, r \in RpcLists :
       settings = [modelPath |-> p, rpcWorkers |-> r]
  /\ isRunning = FALSE
  /\ cancel = 0
  /\ mu = Nobody
  /\ polls = 0
  /\ restarting = {}
  /\ born = 0
  /\ launched = 0
  /\ proc = [i \in {} |-> "spawned"]
  /\ cancelled = {}
-----------------------------------------------------------------------------
(* Setters and the pieces Start, Stop and StartNonBlocking share.           *)

SetModelPath(p) ==
  /\ mu = Nobody
  /\ settings' = [settings EXCEPT !.modelPath = p]
  /\ UNCHANGED <<isRunning, cancel, mu, polls, launched, proc, cancelled>>

SetRPCWorkers(r) ==
  /\ mu = Nobody
  /\ settings' = [settings EXCEPT !.rpcWorkers = r]
  /\ UNCHANGED <<isRunning, cancel, mu, polls, launched, proc, cancelled>>

CancelCurrent == cancelled \cup ({cancel} \ {0})

StopLockedKeepsContext ==            \* forgets to call s.cancel()
  /\ cancel' = 0
  /\ isRunning' = FALSE
  /\ UNCHANGED cancelled

stopLocked ==
  /\ cancel' = 0
  /\ isRunning' = FALSE
  /\ cancelled' = CancelCurrent

\* Context, flag and waiter goroutine of a new child; the child itself is
\* started by the waiter.
Launch ==
  /\ launched < MaxLaunch
  /\ launched' = launched + 1
  /\ cancel' = launched + 1
  /\ isRunning' = TRUE
  /\ proc' = [i \in 1 .. launched + 1 |->
                IF i = launched + 1 THEN "spawned" ELSE proc[i]]
-----------------------------------------------------------------------------
(* Start.  The launch and the poll are one critical section.                *)

StartNoPath(c) ==
  /\ mu = Nobody
  /\ settings.modelPath = NoPath
  /\ UNCHANGED <<settings, isRunning, cancel, mu, polls, launched, proc, cancelled>>

\* The binary is looked up after the running server was stopped.
StartNoBinary(c) ==
  /\ mu = Nobody
  /\ settings.modelPath # NoPath
  /\ IF isRunning THEN stopLocked ELSE UNCHANGED <<isRunning, cancel, cancelled>>
  /\ UNCHANGED <<settings, mu, polls, launched, proc>>

StartLaunchOver(c) ==                \* drops "if s.isRunning { s.stopLocked() }"
  /\ mu = Nobody
  /\ settings.modelPath # NoPath
  /\ Launch
  /\ mu' = c
  /\ polls' = 0
  /\ UNCHANGED <<settings, cancelled>>

StartLaunch(c) ==
  /\ mu = Nobody
  /\ settings.modelPath # NoPath
  /\ Launch
  /\ cancelled' = IF isRunning THEN CancelCurrent ELSE cancelled
  /\ mu' = c
  /\ polls' = 0
  /\ UNCHANGED settings

Start(c) == StartNoPath(c) \/ StartNoBinary(c) \/ StartLaunch(c)

\* Any child that serves the port answers the poll, not only the one just
\* launched, nor only those of this controller.
PollHealthy(c) ==
  /\ mu = c
  /\ \E i \in Launches : proc[i] = "ready"
  /\ mu' = Nobody
  /\ polls' = 0
  /\ UNCHANGED <<settings, isRunning, cancel, launched, proc, cancelled>>

PollForever(c) ==                    \* never gives up
  /\ mu = c
  /\ \A i \in Launches : proc[i] # "ready"
  /\ polls' = (polls + 1) % MaxPolls
  /\ UNCHANGED <<settings, isRunning, cancel, mu, launched, proc, cancelled>>

PollOnceMore(c) ==                   \* "i <= 30"
  /\ mu = c
  /\ \A i \in Launches : proc[i] # "ready"
  /\ IF polls < MaxPolls
       THEN polls' = polls + 1 /\ UNCHANGED mu
       ELSE polls' = 0 /\ mu' = Nobody
  /\ UNCHANGED <<settings, isRunning, cancel, launched, proc, cancelled>>

\* Refused, or 503 while the model loads.  The last failed poll makes Start
\* return its timeout error, with the child and isRunning left as they are.
PollUnhealthy(c) ==
  /\ mu = c
  /\ \A i \in Launches : proc[i] # "ready"
  /\ IF polls + 1 < MaxPolls
       THEN polls' = polls + 1 /\ UNCHANGED mu
       ELSE polls' = 0 /\ mu' = Nobody
  /\ UNCHANGED <<settings, isRunning, cancel, launched, proc, cancelled>>

Stop ==
  /\ mu = Nobody
  /\ stopLocked
  /\ UNCHANGED <<settings, mu, polls, launched, proc>>

\* Restart reads the path under the mutex, releases it, and calls Start.  With
\* no path it returns an error and changes nothing.
RestartCheck(c) ==
  /\ mu = Nobody
  /\ c \notin restarting
  /\ settings.modelPath # NoPath
  /\ restarting' = restarting \cup {c}
  /\ UNCHANGED <<settings, isRunning, cancel, mu, polls, launched, proc, cancelled>>

RestartStart(c) ==
  /\ c \in restarting
  /\ Start(c)
  /\ restarting' = restarting \ {c}

\* StartNonBlocking never replaces a running server; its poll only logs.
StartNonBlocking ==
  /\ mu = Nobody
  /\ settings.modelPath # NoPath
  /\ ~isRunning
  /\ Launch
  /\ UNCHANGED <<settings, mu, polls, cancelled>>
-----------------------------------------------------------------------------
(* The waiter goroutines and the children they run.                         *)

childVars == <<settings, isRunning, cancel, mu, polls, launched, cancelled>>

\* cmd.Run: a cancelled context starts nothing, and the start itself may fail.
RunChild(i) ==
  /\ i > born
  /\ proc[i] = "spawned"
  /\ \E stage \in IF i \in cancelled THEN {"exited"} ELSE {"booting", "exited"} :
       proc' = [proc EXCEPT ![i] = stage]
  /\ UNCHANGED childVars

\* The child listens before it loads the model, and leaves if it cannot.
BindPort(i) ==
  /\ proc[i] = "booting"
  /\ proc' = [proc EXCEPT ![i] = IF PortFree THEN "loading" ELSE "exited"]
  /\ UNCHANGED childVars

FinishLoading(i) ==
  /\ proc[i] = "loading"
  /\ proc' = [proc EXCEPT ![i] = "ready"]
  /\ UNCHANGED childVars

\* A crash at any time, or the kill exec.CommandContext sends on cancel.
Die(i) ==
  /\ proc[i] \in {"booting", "loading", "ready"}
  /\ proc' = [proc EXCEPT ![i] = "exited"]
  /\ UNCHANGED childVars

Killed(i) == i > born /\ i \in cancelled /\ Die(i)

ReapUnlocked(i) ==                   \* clears the flag without the mutex
  /\ i > born
  /\ proc[i] = "exited"
  /\ proc' = [proc EXCEPT ![i] = "reaped"]
  /\ isRunning' = FALSE
  /\ UNCHANGED <<settings, cancel, mu, polls, launched, cancelled>>

ReapQuietly(i) ==                    \* leaves the flag set
  /\ mu = Nobody
  /\ i > born
  /\ proc[i] = "exited"
  /\ proc' = [proc EXCEPT ![i] = "reaped"]
  /\ UNCHANGED childVars

ReapUnlessCancelled(i) ==            \* puts the update under "ctx.Err() == nil"
  /\ mu = Nobody
  /\ i > born
  /\ proc[i] = "exited"
  /\ i \notin cancelled
  /\ proc' = [proc EXCEPT ![i] = "reaped"]
  /\ isRunning' = FALSE
  /\ UNCHANGED <<settings, cancel, mu, polls, launched, cancelled>>

\* The waiter, once cmd.Run has returned.
Reap(i) ==
  /\ mu = Nobody
  /\ i > born
  /\ proc[i] = "exited"
  /\ proc' = [proc EXCEPT ![i] = "reaped"]
  /\ isRunning' = FALSE
  /\ UNCHANGED <<settings, cancel, mu, polls, launched, cancelled>>
-----------------------------------------------------------------------------
(* The controller's end and its next start.                                 *)

\* A signal, or a panic outside the handlers, ends the controller wherever it
\* is.  main stops the web server and leaves llama-server alone: a child that
\* was started goes on, one that was not never will be.  The next controller
\* begins as in Init.
Exit ==
  /\ \E p \in Paths \cup {NoPath}, r \in RpcLists :
       settings' = [modelPath |-> p, rpcWorkers |-> r]
  /\ isRunning' = FALSE
  /\ cancel' = 0
  /\ mu' = Nobody
  /\ polls' = 0
  /\ restarting' = {}
  /\ born' = launched
  /\ proc' = [i \in Launches |->
                IF i > born /\ proc[i] = "spawned" THEN "exited" ELSE proc[i]]
  /\ UNCHANGED <<launched, cancelled>>
-----------------------------------------------------------------------------
Call(c) ==
  /\ \/ c \notin restarting /\ Start(c) /\ UNCHANGED restarting
     \/ RestartCheck(c)
     \/ RestartStart(c)
  /\ UNCHANGED born

Poll(c) == (PollHealthy(c) \/ PollUnhealthy(c)) /\ UNCHANGED <<restarting, born>>

Operator ==
  /\ \/ \E p \in Paths \cup {NoPath} : SetModelPath(p)
     \/ \E r \in RpcLists : SetRPCWorkers(r)
     \/ Stop
     \/ StartNonBlocking
  /\ UNCHANGED <<restarting, born>>

Child(i) ==
  /\ RunChild(i) \/ BindPort(i) \/ FinishLoading(i) \/ Die(i) \/ Reap(i)
  /\ UNCHANGED <<restarting, born>>

Next ==
  \/ Operator
  \/ \E c \in Callers : Call(c) \/ Poll(c)
  \/ \E i \in Launches : Child(i)
  \/ Exit

\* The poll loop and the waiters are scheduled; a child whose context is
\* cancelled is killed; sync.Mutex hands itself to a goroutine that has waited
\* long enough, so a waiter is not passed over for ever.  A live child owes
\* nothing: it may hang while it loads.
Fairness ==
  /\ \A c \in Callers : WF_vars(Poll(c))
  /\ \A i \in 1 .. MaxLaunch :
       /\ WF_vars(i \in Launches /\ RunChild(i) /\ UNCHANGED <<restarting, born>>)
       /\ WF_vars(i \in Launches /\ Killed(i) /\ UNCHANGED <<restarting, born>>)
       /\ SF_vars(i \in Launches /\ Reap(i) /\ UNCHANGED <<restarting, born>>)

Spec == Init /\ [][Next]_vars

\* The controller calls neither Restart nor StartNonBlocking; this one never
\* exits.
ControllerSpec ==
  /\ Init
  /\ [][\/ Operator /\ ~StartNonBlocking
        \/ \E c \in Callers : (Call(c) /\ ~RestartCheck(c)) \/ Poll(c)
        \/ \E i \in Launches : Child(i)]_vars

FairSpec == Spec /\ Fairness
-----------------------------------------------------------------------------
(* Safety.                                                                  *)

\* isRunning is never TRUE for a server that is gone for good: it stands for
\* the newest launch, whose waiter has yet to report and whose context the
\* next Stop will cancel.
RunningIsOwned ==
  isRunning => /\ launched > born
               /\ cancel = launched
               /\ launched \notin cancelled
               /\ launched \notin Reaped

\* Stop always reaches this controller's newest launch, even after its waiter, or a stale
\* one, has cleared isRunning: s.cancel is nil only once it was called.
NewestIsCancellable ==
  /\ launched > born /\ launched \notin cancelled => cancel = launched
  /\ cancel # 0 => cancel = launched /\ cancel > born /\ cancel \notin cancelled

\* A child of this controller runs outside Stop's reach, or goes unreported,
\* only after the waiter of an OLDER launch has reported: the code has no other
\* way to lose a server while it runs.
LeakNeedsStaleReap ==
  \A i \in Live \ cancelled :
    \/ i <= born
    \/ i = launched /\ isRunning
    \/ \E j \in Reaped : born < j /\ j < i

\* While Start polls, isRunning stays TRUE.
StartKeepsFlag == mu # Nobody => isRunning

\* Start is one critical section from its launch to its return: meanwhile no
\* waiter, setter, Stop or second Start changes what it has set, so that a Start
\* that returns after launching, healthy or timed out, leaves isRunning TRUE.
\* Only the end of the controller cuts it short.
StartIsAtomic ==
  [][mu # Nobody /\ born' = born =>
       isRunning /\ UNCHANGED <<settings, isRunning, cancel, launched, cancelled>>]_vars

\* Stop leaves no server running that it was not able to cancel: nothing live
\* is uncancelled once cancel is nil.
StopStopsAll == cancel = 0 => \A i \in Live : i > born => i \in cancelled

\* What the controller can stop, what it has lost, what it has told to stop, and
\* what an earlier one left, killed or not, change only as OneServer says.
Own == {i \in Live \ cancelled : i > born}
Kept == {i \in Own : i = launched /\ isRunning}
Strays == Own \ Kept
Late == {i \in Launches \ Reaped : born < i /\ i < launched}
Dying == {i \in Live \cap cancelled : i > born}
Survivors == {i \in Live : i <= born}
Promise == INSTANCE OneServer WITH
             Servers <- 1 .. MaxLaunch, server <- Kept, strays <- Strays,
             dying <- Dying, late <- Late, survivors <- Survivors
OneServerKept == Promise!Spec
-----------------------------------------------------------------------------
(* Liveness.                                                                *)

\* Start returns, whatever its child does, since its polls are counted.
StartReturns == \A c \in Callers : mu = c ~> mu # c

\* A server that died is not reported running for ever: the waiter clears the
\* flag, unless a newer server is up.
DeathIsNoticed ==
  \A i \in 1 .. MaxLaunch :
    i = launched /\ proc[i] = "exited" ~> ~isRunning \/ launched > i

\* A cancelled child is killed and waited for, so it neither keeps the port
\* nor stays a zombie, unless the controller exits first.
CancelledIsReaped ==
  \A i \in 1 .. MaxLaunch : i \in cancelled ~> i \in Reaped \/ i <= born
=============================================================================
