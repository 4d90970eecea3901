-------------------------- MODULE LlamaServerProofs --------------------------
(* Safety of the llama-server lifecycle for any number of callers, launches  *)
(* and polls.  The four invariants support one another: who owns the flag    *)
(* says which context a reload cancels, and that says which child can leak.  *)
EXTENDS LlamaServer, TLAPS

\* The conjunction that every step preserves.
IInv ==
  /\ TypeOK
  /\ RunningIsOwned
  /\ NewestIsCancellable
  /\ LeakNeedsStaleReap
  /\ StartKeepsFlag

\* The flag, the context and the mutex move together; the children do not.
LEMMA InitIInv == Init => IInv
<1> SUFFICES ASSUME Init PROVE IInv
  OBVIOUS
<1>1. Launches = {} /\ Live = {} /\ Reaped = {}
  BY DEF Init, Launches, Live, Reaped
<1>2. TypeOK
  <2>1. proc \in [Launches -> {"spawned", "booting", "loading", "ready",
                               "exited", "reaped"}]
    BY <1>1 DEF Init
  <2>2. settings \in [modelPath : Paths \cup {NoPath}, rpcWorkers : RpcLists]
    BY DEF Init
  <2>3. polls \in 0 .. MaxPolls - 1 /\ launched \in 0 .. MaxLaunch
    BY BoundsAssumption DEF Init
  <2>4. isRunning \in BOOLEAN
    BY DEF Init
  <2>5. cancel \in 0 .. launched /\ born \in 0 .. launched
    BY DEF Init
  <2>6. /\ mu \in Callers \cup {Nobody}
        /\ restarting \subseteq Callers
        /\ cancelled \subseteq Launches
    BY DEF Init
  <2> QED BY <2>1, <2>2, <2>3, <2>4, <2>5, <2>6 DEF TypeOK
<1>3. /\ RunningIsOwned /\ NewestIsCancellable
      /\ LeakNeedsStaleReap /\ StartKeepsFlag
  BY <1>1 DEF Init, RunningIsOwned, NewestIsCancellable,
              LeakNeedsStaleReap, StartKeepsFlag
<1> QED BY <1>2, <1>3 DEF IInv

\* A step that leaves the flag, the context and the children alone keeps the
\* invariant if its other variables keep their types.
LEMMA FrameIInv ==
  ASSUME IInv, UNCHANGED <<isRunning, cancel, born, launched, proc, cancelled>>,
         settings' \in [modelPath : Paths \cup {NoPath}, rpcWorkers : RpcLists],
         mu' \in {mu, Nobody}, polls' \in 0 .. MaxPolls - 1,
         restarting' \subseteq Callers
  PROVE  IInv'
<1>1. Launches' = Launches /\ Live' = Live /\ Reaped' = Reaped
  BY DEF Launches, Live, Reaped
<1>2. TypeOK'
  BY <1>1 DEF IInv, TypeOK
<1>3. RunningIsOwned' /\ NewestIsCancellable' /\ LeakNeedsStaleReap'
  BY <1>1 DEF IInv, RunningIsOwned, NewestIsCancellable, LeakNeedsStaleReap
<1>4. StartKeepsFlag'
  BY DEF IInv, StartKeepsFlag
<1> QED BY <1>2, <1>3, <1>4 DEF IInv

\* stopLocked on a running server, or on one already stopped, keeps every part:
\* what was live and running is now cancelled.
LEMMA StopLockedIInv ==
  ASSUME IInv, mu = Nobody, stopLocked,
         UNCHANGED <<settings, mu, polls, born, launched, proc>>,
         restarting' \subseteq Callers
  PROVE  IInv'
<1>1. TypeOK'
  <2>1. Launches' = Launches
    BY DEF Launches
  <2>2. cancel' \in 0 .. launched' /\ cancelled' \subseteq Launches'
    BY <2>1 DEF IInv, TypeOK, stopLocked, CancelCurrent, Launches
  <2> QED BY <2>1, <2>2 DEF IInv, TypeOK, stopLocked
<1>2. RunningIsOwned' /\ StartKeepsFlag'
  BY DEF stopLocked, RunningIsOwned, StartKeepsFlag
<1>3. NewestIsCancellable'
  BY DEF IInv, TypeOK, NewestIsCancellable, stopLocked, CancelCurrent
<1>4. LeakNeedsStaleReap'
  BY DEF IInv, TypeOK, RunningIsOwned, NewestIsCancellable,
         LeakNeedsStaleReap, stopLocked, CancelCurrent, Launches, Live, Reaped
<1> QED BY <1>1, <1>2, <1>3, <1>4 DEF IInv

\* A launch that cancels the running server first, if there is one, keeps every
\* part; who holds the mutex afterwards does not matter.
LEMMA LaunchIInv ==
  ASSUME IInv, mu = Nobody, Launch,
         cancelled' = IF isRunning THEN CancelCurrent ELSE cancelled,
         settings' = settings, born' = born,
         mu' \in Callers \cup {Nobody}, polls' \in 0 .. MaxPolls - 1,
         restarting' \subseteq Callers
  PROVE  IInv'
<1> DEFINE n == launched + 1
<1>1. /\ Launches' = Launches \cup {n}
      /\ n \notin Launches
      /\ launched \in Nat
  BY DEF IInv, TypeOK, Launch, Launches
<1>2. \A i \in Launches : proc'[i] = proc[i]
  BY DEF IInv, TypeOK, Launch, Launches
<1>3. proc'[n] = "spawned" /\ cancel' = n /\ launched' = n /\ isRunning'
  BY DEF IInv, TypeOK, Launch, Launches
<1>4. cancelled' \subseteq Launches /\ cancelled \subseteq cancelled'
  BY DEF IInv, TypeOK, CancelCurrent, Launches
<1>5. TypeOK'
  <2>1. proc' \in [Launches' -> {"spawned", "booting", "loading", "ready",
                                 "exited", "reaped"}]
    BY DEF IInv, TypeOK, Launch, Launches
  <2> QED BY <1>1, <1>3, <1>4, <2>1, BoundsAssumption DEF IInv, TypeOK, Launch
<1>6. RunningIsOwned' /\ NewestIsCancellable' /\ StartKeepsFlag'
  BY <1>1, <1>3, <1>4
     DEF RunningIsOwned, NewestIsCancellable, StartKeepsFlag, Reaped, IInv, TypeOK
<1>7. LeakNeedsStaleReap'
  <2> SUFFICES ASSUME NEW i \in Live' \ cancelled', i # launched', ~(i <= born)
               PROVE  \E j \in Reaped' : born < j /\ j < i
    BY <1>3 DEF LeakNeedsStaleReap
  <2>1. i \in Live \ cancelled
    BY <1>1, <1>2, <1>3, <1>4 DEF Live
  <2>2. ~(i = launched /\ isRunning)
    BY <2>1 DEF IInv, TypeOK, RunningIsOwned, CancelCurrent
  <2>3. PICK j \in Reaped : born < j /\ j < i
    BY <2>1, <2>2 DEF IInv, LeakNeedsStaleReap
  <2> QED BY <2>3, <1>1, <1>2 DEF Reaped
<1> QED BY <1>5, <1>6, <1>7 DEF IInv

\* A step of Start, whoever calls it, keeps the invariant.
LEMMA StartIInv ==
  ASSUME IInv, NEW c \in Callers, Start(c), born' = born,
         restarting' \subseteq Callers
  PROVE  IInv'
<1>1. CASE StartNoPath(c)
  BY <1>1, FrameIInv DEF StartNoPath, IInv, TypeOK
<1>2. CASE StartNoBinary(c)
  <2>1. CASE isRunning
    BY <1>2, <2>1, StopLockedIInv DEF StartNoBinary
  <2>2. CASE ~isRunning
    BY <1>2, <2>2, FrameIInv DEF StartNoBinary, IInv, TypeOK
  <2> QED BY <2>1, <2>2
<1>3. CASE StartLaunch(c)
  <2>1. mu' \in Callers \cup {Nobody} /\ polls' \in 0 .. MaxPolls - 1
    BY <1>3, BoundsAssumption DEF StartLaunch
  <2> QED BY <1>3, <2>1, LaunchIInv DEF StartLaunch
<1> QED BY <1>1, <1>2, <1>3 DEF Start

\* Steps of a child and of its waiter: only the waiter touches the fields, and
\* it turns a lost server into one that a reaped older launch explains.
LEMMA ChildIInv ==
  ASSUME IInv, NEW i \in Launches, Child(i)
  PROVE  IInv'
<1>1. CASE RunChild(i) \/ BindPort(i) \/ FinishLoading(i) \/ Die(i)
  <2>1. PICK s \in {"booting", "loading", "ready", "exited"} :
          proc' = [proc EXCEPT ![i] = s]
    BY <1>1, Zenon DEF RunChild, BindPort, FinishLoading, Die
  <2>2. UNCHANGED childVars /\ UNCHANGED <<restarting, born>>
    BY <1>1 DEF Child, RunChild, BindPort, FinishLoading, Die
  <2>3. i \in Live
    BY <1>1 DEF RunChild, BindPort, FinishLoading, Die, Live
  <2>4. Launches' = Launches /\ Reaped' = Reaped /\ Live' \subseteq Live
    BY <2>1, <2>2, <2>3 DEF IInv, TypeOK, childVars, Launches, Reaped, Live
  <2>5. TypeOK'
    BY <2>1, <2>2, <2>4 DEF IInv, TypeOK, childVars
  <2> QED BY <2>2, <2>4, <2>5
             DEF IInv, childVars, RunningIsOwned, NewestIsCancellable,
                 LeakNeedsStaleReap, StartKeepsFlag
<1>2. CASE Reap(i)
  <2>1. /\ Launches' = Launches
        /\ Reaped' = Reaped \cup {i}
        /\ Live' = Live
        /\ i \notin Live
    BY <1>2 DEF Reap, IInv, TypeOK, Launches, Reaped, Live
  <2>2. TypeOK'
    BY <1>2, <2>1 DEF Reap, Child, IInv, TypeOK, RunChild, BindPort,
                      FinishLoading, Die
  <2>3. RunningIsOwned' /\ NewestIsCancellable' /\ StartKeepsFlag'
    BY <1>2 DEF Reap, Child, IInv, RunningIsOwned, NewestIsCancellable, StartKeepsFlag
  <2>4. LeakNeedsStaleReap'
    <3> SUFFICES ASSUME NEW k \in Live \ cancelled, ~(k <= born)
                 PROVE  \E j \in Reaped' : born < j /\ j < k
      BY <1>2, <2>1 DEF Reap, Child, LeakNeedsStaleReap
    <3>1. CASE k = launched
      <4>1. i # k /\ i \in Reaped' /\ born < i
        BY <1>2, <2>1 DEF Reap
      <4>2. i < k
        BY <3>1, <4>1 DEF IInv, TypeOK, Launches
      <4> QED BY <4>1, <4>2
    <3>2. CASE k # launched
      BY <2>1, <3>2 DEF IInv, LeakNeedsStaleReap
    <3> QED BY <3>1, <3>2
  <2> QED BY <2>2, <2>3, <2>4 DEF IInv
<1> QED BY <1>1, <1>2 DEF Child

\* The exit of a controller leaves its children to nobody and the next one with
\* nothing to own.
LEMMA ExitIInv ==
  ASSUME IInv, Exit
  PROVE  IInv'
<1>1. Launches' = Launches /\ launched \in Nat
  BY DEF Exit, IInv, TypeOK, Launches
<1>2. \A i \in Launches : i <= born'
  BY DEF Exit, IInv, TypeOK, Launches
<1>3. TypeOK'
  <2>1. proc' \in [Launches' -> {"spawned", "booting", "loading", "ready",
                                 "exited", "reaped"}]
    BY <1>1 DEF Exit, IInv, TypeOK
  <2>2. /\ settings' \in [modelPath : Paths \cup {NoPath}, rpcWorkers : RpcLists]
        /\ polls' \in 0 .. MaxPolls - 1
    BY BoundsAssumption DEF Exit
  <2>3. cancel' \in 0 .. launched' /\ born' \in 0 .. launched'
    BY <1>1 DEF Exit
  <2> QED BY <1>1, <2>1, <2>2, <2>3 DEF Exit, IInv, TypeOK
<1>4. LeakNeedsStaleReap'
  BY <1>1, <1>2 DEF LeakNeedsStaleReap, Live
<1>5. RunningIsOwned' /\ NewestIsCancellable' /\ StartKeepsFlag'
  BY <1>1 DEF Exit, RunningIsOwned, NewestIsCancellable, StartKeepsFlag
<1> QED BY <1>3, <1>4, <1>5 DEF IInv

LEMMA NextIInv == IInv /\ [Next]_vars => IInv'
<1> SUFFICES ASSUME IInv, [Next]_vars PROVE IInv'
  OBVIOUS
<1>1. CASE Operator
  <2>0. restarting' \subseteq Callers
    BY <1>1 DEF Operator, IInv, TypeOK
  <2>1. CASE \/ \E p \in Paths \cup {NoPath} : SetModelPath(p)
             \/ \E r \in RpcLists : SetRPCWorkers(r)
    <3>1. settings' \in [modelPath : Paths \cup {NoPath}, rpcWorkers : RpcLists]
      BY <2>1 DEF SetModelPath, SetRPCWorkers, IInv, TypeOK
    <3> QED BY <1>1, <2>0, <2>1, <3>1, FrameIInv
               DEF Operator, SetModelPath, SetRPCWorkers, IInv, TypeOK
  <2>2. CASE Stop
    BY <1>1, <2>0, <2>2, StopLockedIInv DEF Operator, Stop
  <2>3. CASE StartNonBlocking
    BY <1>1, <2>0, <2>3, LaunchIInv DEF Operator, StartNonBlocking, IInv, TypeOK
  <2> QED BY <1>1, <2>1, <2>2, <2>3 DEF Operator
<1>2. ASSUME NEW c \in Callers, Call(c) PROVE IInv'
  <2>0. born' = born
    BY <1>2 DEF Call
  <2>1. CASE c \notin restarting /\ Start(c) /\ UNCHANGED restarting
    BY <2>0, <2>1, StartIInv DEF IInv, TypeOK
  <2>2. CASE RestartCheck(c)
    BY <2>0, <2>2, FrameIInv DEF RestartCheck, IInv, TypeOK
  <2>3. CASE RestartStart(c)
    BY <2>0, <2>3, StartIInv DEF RestartStart, IInv, TypeOK
  <2> QED BY <1>2, <2>1, <2>2, <2>3 DEF Call
<1>3. ASSUME NEW c \in Callers, Poll(c) PROVE IInv'
  <2>1. polls' \in 0 .. MaxPolls - 1 /\ mu' \in {mu, Nobody}
    BY <1>3, BoundsAssumption
       DEF Poll, PollHealthy, PollUnhealthy, IInv, TypeOK
  <2> QED BY <1>3, <2>1, FrameIInv
             DEF Poll, PollHealthy, PollUnhealthy, IInv, TypeOK
<1>4. ASSUME NEW i \in Launches, Child(i) PROVE IInv'
  BY <1>4, ChildIInv
<1>5. CASE Exit
  BY <1>5, ExitIInv
<1>6. CASE UNCHANGED vars
  BY <1>6, FrameIInv DEF vars, IInv, TypeOK
<1> QED BY <1>1, <1>2, <1>3, <1>4, <1>5, <1>6 DEF Next
-----------------------------------------------------------------------------
LEMMA SpecIInv == Spec => []IInv
  BY InitIInv, NextIInv, PTL DEF Spec

\* Every variable of the lifecycle keeps its type.
THEOREM TypeCorrect == Spec => []TypeOK
  BY SpecIInv, PTL DEF IInv

\* isRunning always stands for the newest launch, not yet reaped, whose context
\* the next Stop cancels.
THEOREM FlagOwned == Spec => []RunningIsOwned
  BY SpecIInv, PTL DEF IInv

\* From its launch to its return nothing gets between a Start and what it set,
\* unless the controller ends.
THEOREM StartUndisturbed == Spec => StartIsAtomic
<1>1. IInv /\ [Next]_vars =>
        (mu # Nobody /\ born' = born =>
           isRunning /\ UNCHANGED <<settings, isRunning, cancel, launched, cancelled>>)
  <2> SUFFICES ASSUME IInv, [Next]_vars, mu # Nobody, born' = born
               PROVE  isRunning /\ UNCHANGED <<settings, isRunning, cancel,
                                               launched, cancelled>>
    OBVIOUS
  <2>1. isRunning /\ launched > born
    BY DEF IInv, StartKeepsFlag, RunningIsOwned
  <2>2. ~Operator
    BY DEF Operator, SetModelPath, SetRPCWorkers, Stop, StartNonBlocking
  <2>3. \A c \in Callers : ~Call(c)
    BY DEF Call, RestartCheck, RestartStart, Start, StartNoPath, StartNoBinary,
           StartLaunch
  <2>4. ~Exit
    BY <2>1 DEF Exit, IInv, TypeOK
  <2>5. ASSUME NEW c \in Callers, Poll(c)
        PROVE  UNCHANGED <<settings, isRunning, cancel, launched, cancelled>>
    BY <2>5 DEF Poll, PollHealthy, PollUnhealthy
  <2>6. ASSUME NEW i \in Launches, Child(i)
        PROVE  UNCHANGED <<settings, isRunning, cancel, launched, cancelled>>
    BY <2>6 DEF Child, RunChild, BindPort, FinishLoading, Die, Reap, childVars
  <2> QED BY <2>1, <2>2, <2>3, <2>4, <2>5, <2>6 DEF Next, vars
<1> QED BY <1>1, SpecIInv, PTL DEF Spec, StartIsAtomic

\* Stop can always cancel the newest launch.
THEOREM NewestReachable == Spec => []NewestIsCancellable
  BY SpecIInv, PTL DEF IInv

\* A server escapes the controller's reach only behind a stale waiter.
THEOREM LeaksExplained == Spec => []LeakNeedsStaleReap
  BY SpecIInv, PTL DEF IInv

\* Stop does stop every server of this controller as long as none of its
\* launches but the newest has been reaped: the promise of unload breaks
\* nowhere else than at the stale waiter.
THEOREM StopCompleteUntilStaleReap ==
  Spec => []((\A j \in Reaped : born < j => j >= launched) => StopStopsAll)
<1>1. IInv => ((\A j \in Reaped : born < j => j >= launched) => StopStopsAll)
  <2> SUFFICES ASSUME IInv, \A j \in Reaped : born < j => j >= launched,
                      cancel = 0, NEW i \in Live, i > born, i \notin cancelled
               PROVE  FALSE
    BY DEF StopStopsAll
  <2>1. ~isRunning
    BY DEF IInv, TypeOK, RunningIsOwned
  <2>2. PICK j \in Reaped : born < j /\ j < i
    BY <2>1 DEF IInv, TypeOK, LeakNeedsStaleReap, Live, Launches
  <2> QED BY <2>2 DEF IInv, TypeOK, Live, Reaped, Launches
<1> QED BY <1>1, SpecIInv, PTL
-----------------------------------------------------------------------------
(* LlamaServer implements OneServer.                                        *)

LEMMA PromiseInit == Init => Promise!Init
BY DEF Init, Promise!Init, Kept, Strays, Dying, Late, Survivors, Own, Live, Launches

\* What leaves the children, their contexts and the flag alone is a stutter.
LEMMA PromiseFrame ==
  ASSUME UNCHANGED <<isRunning, born, launched, proc, cancelled>>
  PROVE  UNCHANGED Promise!vars
<1>1. Launches' = Launches /\ Live' = Live /\ Reaped' = Reaped
  BY DEF Launches, Live, Reaped
<1>2. Own' = Own /\ Kept' = Kept
  BY <1>1 DEF Own, Kept
<1> QED BY <1>1, <1>2 DEF Promise!vars, Strays, Dying, Late, Survivors

\* stopLocked reaches the newest launch of this controller and no other.
LEMMA PromiseStop ==
  ASSUME IInv, stopLocked, UNCHANGED <<born, launched, proc>>
  PROVE  Promise!Unload
<1>1. Launches' = Launches /\ Live' = Live /\ Reaped' = Reaped
  BY DEF Launches, Live, Reaped
<1>2. Late' = Late
  BY <1>1 DEF Late
<1>3. Kept' = {}
  BY DEF stopLocked, Kept
<1>4. Live' \ cancelled' = (Live \ cancelled) \ {cancel}
  BY <1>1 DEF stopLocked, CancelCurrent, Live, Launches
<1>5. cancel # 0 => cancel > born
  BY DEF IInv, NewestIsCancellable
<1>6. Survivors' = Survivors
  BY <1>1 DEF Survivors
<1>7. Own' = Own \ {cancel}
  BY <1>4 DEF Own
<1>8. Kept \subseteq {cancel}
  BY DEF IInv, RunningIsOwned, Kept
<1>9. Strays' = Strays \ {cancel}
  BY <1>3, <1>7, <1>8 DEF Strays
<1>10. Strays' = Strays \/ \E n \in Strays : Strays' = Strays \ {n}
  BY <1>9
<1>11. Dying' = Dying \cup (Own \cap {cancel})
  <2>1. Live' \cap cancelled' = (Live \cap cancelled) \cup (Live \cap {cancel})
    BY <1>1 DEF stopLocked, CancelCurrent, Live, Launches
  <2> QED BY <2>1 DEF Dying, Own
<1>12. Dying' = Dying \cup Kept \cup (Strays \ Strays')
  <2>1. Own \cap {cancel} = Kept \cup (Strays \ Strays')
    BY <1>8, <1>9 DEF Strays, Kept
  <2> QED BY <1>11, <2>1
<1> QED BY <1>2, <1>3, <1>6, <1>10, <1>12 DEF Promise!Unload

\* A launch replaces what isRunning stands for, and loses nothing.
LEMMA PromiseLaunch ==
  ASSUME IInv, Launch, born' = born,
         cancelled' = IF isRunning THEN CancelCurrent ELSE cancelled
  PROVE  Promise!Load
<1> DEFINE n == launched + 1
<1>1. /\ Launches' = Launches \cup {n}
      /\ n \notin Launches
      /\ launched \in Nat /\ born \in Nat
      /\ n \in 1 .. MaxLaunch /\ n > born
  BY BoundsAssumption DEF IInv, TypeOK, Launch, Launches
<1>2. \A i \in Launches : proc'[i] = proc[i]
  BY DEF IInv, TypeOK, Launch, Launches
<1>3. proc'[n] = "spawned" /\ launched' = n /\ isRunning'
  BY DEF IInv, TypeOK, Launch, Launches
<1>4. Live' = Live \cup {n} /\ Reaped' = Reaped
  BY <1>1, <1>2, <1>3 DEF Live, Reaped
<1>6. n \notin cancelled'
  BY <1>1 DEF IInv, TypeOK, CancelCurrent, Launches
<1>7. Live \ cancelled' = (Live \ cancelled) \ Kept
  <2>1. CASE isRunning
    <3>1. cancelled' = cancelled \cup {launched} /\ launched > born
      BY <2>1, <1>1 DEF IInv, RunningIsOwned, CancelCurrent
    <3>2. Kept = (Live \ cancelled) \cap {launched}
      BY <2>1, <3>1 DEF Kept, Own
    <3> QED BY <3>1, <3>2
  <2>2. CASE ~isRunning
    BY <2>2 DEF Kept
  <2> QED BY <2>1, <2>2
<1>8. Live' \ cancelled' = ((Live \ cancelled) \ Kept) \cup {n}
  BY <1>4, <1>6, <1>7
<1>9. Own' = Strays \cup {n}
  BY <1>1, <1>8 DEF Own, Strays
<1>10. n \notin Strays
  BY <1>1 DEF Strays, Own, Live
<1>11. Kept' = {n}
  BY <1>1, <1>3, <1>9, <1>10 DEF Kept, Strays, Own, Live
<1>12. Strays' = Strays
  BY <1>9, <1>10, <1>11 DEF Strays
<1>13. Survivors' = Survivors
  <2>1. ~(n <= born)
    BY <1>1
  <2> HIDE DEF n
  <2> QED BY <1>4, <2>1 DEF Survivors
<1>14. Dying' = Dying \cup Kept
  <2>1. Live' \cap cancelled' = (Live \cap cancelled) \cup Kept
    <3>1. Live' \cap cancelled' = Live \cap cancelled'
      BY <1>4, <1>6
    <3>2. cancelled \subseteq cancelled' /\ Kept \subseteq Live
      BY DEF CancelCurrent, Kept, Own
    <3> QED BY <1>7, <3>1, <3>2
  <2>2. \A i \in Kept : i > born
    BY DEF Kept, Own
  <2> QED BY <2>1, <2>2 DEF Dying
<1>15. Late \subseteq Late' /\ Late' \subseteq 1 .. MaxLaunch
  BY <1>1, <1>3, <1>4, BoundsAssumption DEF Late, Launches, IInv, TypeOK
<1>16. n \notin Strays \cup Dying \cup Late \cup Survivors
  BY <1>1 DEF Strays, Own, Dying, Late, Survivors, Live
<1> QED BY <1>1, <1>11, <1>12, <1>13, <1>14, <1>15, <1>16 DEF Promise!Load

LEMMA PromiseStart ==
  ASSUME IInv, NEW c \in Callers, Start(c), born' = born
  PROVE  [Promise!Next]_(Promise!vars)
<1>1. CASE StartNoPath(c)
  BY <1>1, PromiseFrame DEF StartNoPath
<1>2. CASE StartNoBinary(c)
  <2>1. CASE isRunning
    BY <1>2, <2>1, PromiseStop DEF StartNoBinary, Promise!Next
  <2>2. CASE ~isRunning
    BY <1>2, <2>2, PromiseFrame DEF StartNoBinary
  <2> QED BY <2>1, <2>2
<1>3. CASE StartLaunch(c)
  BY <1>3, PromiseLaunch DEF StartLaunch, Promise!Next
<1> QED BY <1>1, <1>2, <1>3 DEF Start

\* A child that ends leaves the set it was in; a report takes the flag from the
\* newest launch only when it comes late.
LEMMA PromiseChild ==
  ASSUME IInv, NEW i \in Launches, Child(i)
  PROVE  [Promise!Next]_(Promise!vars)
<1>0. i \in 1 .. MaxLaunch /\ born' = born
  BY BoundsAssumption DEF IInv, TypeOK, Launches, Child
<1>1. CASE RunChild(i) \/ BindPort(i) \/ FinishLoading(i) \/ Die(i)
  <2>1. PICK s \in {"booting", "loading", "ready", "exited"} :
          proc' = [proc EXCEPT ![i] = s]
    BY <1>1, Zenon DEF RunChild, BindPort, FinishLoading, Die
  <2>2. UNCHANGED childVars
    BY <1>1 DEF RunChild, BindPort, FinishLoading, Die
  <2>3. i \in Live
    BY <1>1 DEF RunChild, BindPort, FinishLoading, Die, Live
  <2>4. Launches' = Launches /\ Reaped' = Reaped
    BY <2>1, <2>2, <2>3 DEF IInv, TypeOK, childVars, Launches, Reaped, Live
  <2>5. Late' = Late
    BY <1>0, <2>2, <2>4 DEF Late, childVars
  <2>6. CASE s = "exited"
    <3>1. Live' = Live \ {i}
      BY <2>1, <2>4, <2>6 DEF IInv, TypeOK, Live, Launches
    <3>2. /\ Own' = Own \ {i}
          /\ Dying' = Dying \ {i}
          /\ Survivors' = Survivors \ {i}
      BY <1>0, <2>2, <3>1 DEF Own, Dying, Survivors, childVars
    <3>3. Kept' = Kept \ {i}
      BY <2>2, <3>2 DEF Kept, childVars
    <3>4. Strays' = Strays \ {i}
      BY <3>2, <3>3 DEF Strays
    <3> QED BY <1>0, <2>5, <3>2, <3>3, <3>4 DEF Promise!End, Promise!Next
  <2>7. CASE s # "exited"
    <3>1. Live' = Live
      BY <2>1, <2>3, <2>4, <2>7 DEF IInv, TypeOK, Live, Launches
    <3>2. Own' = Own /\ Dying' = Dying /\ Survivors' = Survivors
      BY <1>0, <2>2, <3>1 DEF Own, Dying, Survivors, childVars
    <3>3. Kept' = Kept
      BY <2>2, <3>2 DEF Kept, childVars
    <3> QED BY <2>5, <3>2, <3>3 DEF Strays, Promise!vars
  <2> QED BY <2>6, <2>7
<1>2. CASE Reap(i)
  <2>1. /\ Launches' = Launches
        /\ Reaped' = Reaped \cup {i}
        /\ Live' = Live
        /\ i \notin Live /\ i \notin Reaped
        /\ i > born
        /\ UNCHANGED <<launched, cancelled>>
    BY <1>2 DEF Reap, IInv, TypeOK, Launches, Reaped, Live
  <2>2. Own' = Own /\ Dying' = Dying /\ Survivors' = Survivors
    BY <1>0, <2>1 DEF Own, Dying, Survivors
  <2>3. Kept' = {}
    BY <1>2 DEF Reap, Kept
  <2>4. Late' = Late \ {i}
    BY <1>0, <2>1 DEF Late
  <2>5. CASE i = launched
    <3>1. Kept = {}
      BY <2>1, <2>5 DEF Kept, Own
    <3>2. Late' = Late
      BY <2>4, <2>5 DEF Late, IInv, TypeOK
    <3> QED BY <2>2, <2>3, <3>1, <3>2 DEF Strays, Promise!vars
  <2>6. CASE i # launched
    <3>1. i \in Late
      BY <2>1, <2>6 DEF Late, IInv, TypeOK, Launches
    <3>2. Strays' = Strays \cup Kept
      BY <2>2, <2>3 DEF Strays, Kept
    <3> QED BY <2>2, <2>3, <2>4, <3>1, <3>2 DEF Promise!LateReport, Promise!Next
  <2> QED BY <2>5, <2>6
<1> QED BY <1>1, <1>2 DEF Child

LEMMA PromiseExit ==
  ASSUME IInv, Exit
  PROVE  Promise!Exit
<1>1. Launches' = Launches /\ \A i \in Launches : i <= born' /\ ~(i > born')
  BY DEF Exit, IInv, TypeOK, Launches
<1>2. Live' \subseteq Live /\ \A i \in Live : i <= born => i \in Live'
  BY <1>1 DEF Exit, Live, IInv, TypeOK, Launches
<1>3. Own' = {} /\ Dying' = {} /\ Late' = {}
  BY <1>1 DEF Own, Dying, Late, Live
<1>4. Kept' = {} /\ Strays' = {}
  BY <1>3 DEF Kept, Strays
<1>5. Survivors' \subseteq Survivors \cup Kept \cup Strays \cup Dying
  <2>1. \A i \in Live : i \in Survivors \/ i \in Own \/ i \in Dying
    BY DEF Survivors, Own, Dying, Live, Launches, IInv, TypeOK
  <2>2. Own \subseteq Kept \cup Strays
    BY DEF Strays
  <2> QED BY <1>2, <2>1, <2>2 DEF Survivors
<1>6. Survivors \subseteq Survivors'
  BY <1>1, <1>2 DEF Survivors, Live
<1> QED BY <1>3, <1>4, <1>5, <1>6 DEF Promise!Exit

LEMMA PromiseNext == IInv /\ [Next]_vars => [Promise!Next]_(Promise!vars)
<1> SUFFICES ASSUME IInv, [Next]_vars PROVE [Promise!Next]_(Promise!vars)
  OBVIOUS
<1>1. CASE Operator
  <2>1. CASE \/ \E p \in Paths \cup {NoPath} : SetModelPath(p)
             \/ \E r \in RpcLists : SetRPCWorkers(r)
    BY <1>1, <2>1, PromiseFrame DEF Operator, SetModelPath, SetRPCWorkers
  <2>2. CASE Stop
    BY <1>1, <2>2, PromiseStop DEF Operator, Stop, Promise!Next
  <2>3. CASE StartNonBlocking
    BY <1>1, <2>3, PromiseLaunch DEF Operator, StartNonBlocking, Promise!Next
  <2> QED BY <1>1, <2>1, <2>2, <2>3 DEF Operator
<1>2. ASSUME NEW c \in Callers, Call(c) PROVE [Promise!Next]_(Promise!vars)
  <2>1. CASE Start(c)
    BY <1>2, <2>1, PromiseStart DEF Call
  <2>2. CASE RestartCheck(c)
    BY <1>2, <2>2, PromiseFrame DEF Call, RestartCheck
  <2> QED BY <1>2, <2>1, <2>2 DEF Call, RestartStart
<1>3. ASSUME NEW c \in Callers, Poll(c) PROVE [Promise!Next]_(Promise!vars)
  BY <1>3, PromiseFrame DEF Poll, PollHealthy, PollUnhealthy
<1>4. ASSUME NEW i \in Launches, Child(i) PROVE [Promise!Next]_(Promise!vars)
  BY <1>4, PromiseChild
<1>5. CASE Exit
  BY <1>5, PromiseExit DEF Promise!Next
<1>6. CASE UNCHANGED vars
  BY <1>6, PromiseFrame DEF vars
<1> QED BY <1>1, <1>2, <1>3, <1>4, <1>5, <1>6 DEF Next

\* A running controller loses its server to a late report and to nothing else,
\* and what survives a controller's exit no later one stops.
THEOREM ImplementsOneServer == Spec => OneServerKept
  BY SpecIInv, PromiseInit, PromiseNext, PTL DEF Spec, OneServerKept, Promise!Spec
=============================================================================
