------------------------------- MODULE RWMutex -------------------------------
(* Go's sync.RWMutex, as the controller uses it for api.Server.mu.  A writer *)
(* first announces itself; from then on new readers wait, even those that    *)
(* hold the lock already, and the writer enters once the readers it found    *)
(* are gone.  Unlock admits every reader that waited.  Lock and RLock are    *)
(* not reentrant.                                                            *)
EXTENDS Naturals

CONSTANTS Goroutines,
          Nobody       \* not a goroutine

VARIABLES writer,    \* the writer that has announced itself, or Nobody
          readers,   \* how often each goroutine holds the lock for reading
          waiting    \* goroutines whose RLock waits for the writer to leave

lockVars == <<writer, readers, waiting>>

LockTypeOK ==
  /\ writer \in Goroutines \cup {Nobody}
  /\ readers \in [Goroutines -> Nat]
  /\ waiting \subseteq Goroutines

LockInit ==
  /\ writer = Nobody
  /\ readers = [g \in Goroutines |-> 0]
  /\ waiting = {}

\* The first half of Lock.
Announce(g) ==
  /\ writer = Nobody
  /\ writer' = g
  /\ UNCHANGED <<readers, waiting>>

\* Lock has returned to g.
Exclusive(g) == writer = g /\ \A r \in Goroutines : readers[r] = 0

Unlock(g) ==
  /\ Exclusive(g)
  /\ writer' = Nobody
  /\ readers' = [r \in Goroutines |-> IF r \in waiting THEN 1 ELSE 0]
  /\ waiting' = {}

RLock(g) ==
  IF writer = Nobody
    THEN readers' = [readers EXCEPT ![g] = @ + 1] /\ UNCHANGED <<writer, waiting>>
    ELSE waiting' = waiting \cup {g} /\ UNCHANGED <<writer, readers>>

\* RLock has returned to g.
Shared(g) == readers[g] > 0 /\ g \notin waiting

RUnlock(g, n) ==
  /\ Shared(g)
  /\ readers' = [readers EXCEPT ![g] = @ - n]
  /\ UNCHANGED <<writer, waiting>>

\* What may happen to the mutex: a goroutine whose RLock is pending takes no
\* step, and nobody gives back a read lock that it does not hold.
LockNext ==
  \E g \in Goroutines \ waiting :
    \/ Announce(g)
    \/ Unlock(g)
    \/ RLock(g)
    \/ \E n \in 1 .. readers[g] : RUnlock(g, n)

LockSpec == LockInit /\ [][LockNext]_lockVars

\* A goroutine that waits for itself: its RLock waits for a writer that is the
\* goroutine itself or that waits for the goroutine to give its lock back.
Wedged == \E g \in waiting : writer = g \/ readers[g] > 0
=============================================================================
