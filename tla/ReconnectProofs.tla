--------------------------- MODULE ReconnectProofs ---------------------------
(* The dashboard's reconnects, for any limit on the attempts.               *)
EXTENDS Reconnect, TLAPS

IInv == TypeOK /\ GivesUpOnlyAfterMax /\ ShownIsOpen /\ BoundedByOpens

\* Arithmetic the steps need, about numbers rather than primed variables.
LEMMA SumIsZero ==
  ASSUME NEW w \in Nat, NEW x \in Nat, NEW y \in Nat, NEW z \in Nat, w + x + y + z = 0
  PROVE  z = 0
OBVIOUS

LEMMA SumIsPositive == ASSUME NEW x \in Nat, NEW y \in Nat PROVE x + (y + 1) > 0
OBVIOUS

LEMMA BothOneMore ==
  ASSUME NEW a \in Nat, NEW t \in Nat, NEW a1 \in Nat, NEW t1 \in Nat,
         NEW n \in Nat, NEW m \in Nat,
         a1 - t1 = a - t, n + t <= 1 + a + m
  PROVE  n + t1 <= 1 + a1 + m
OBVIOUS

LEMMA InitIInv == Init => IInv
<1> SUFFICES ASSUME Init PROVE IInv
  OBVIOUS
<1>1. TypeOK
  <2>1. 0 \in 0 .. MaxAttempts /\ 1 \in 1 .. MaxSockets
    BY BoundsAssumption
  <2>2. opened \in 0 .. created /\ connecting + open + failed <= created
        /\ connecting + opened <= created
    BY DEF Init
  <2> QED BY <2>1, <2>2 DEF Init, TypeOK
<1>2. GivesUpOnlyAfterMax /\ ShownIsOpen
  BY DEF Init, GivesUpOnlyAfterMax, ShownIsOpen
<1>3. BoundedByOpens
  <2>1. MaxAttempts * 0 = 0
    BY BoundsAssumption
  <2> QED BY <2>1, BoundsAssumption DEF Init, BoundedByOpens
<1> QED BY <1>1, <1>2, <1>3 DEF IInv

\* A reconnect is scheduled unless the attempts are used up; a failure hides no
\* socket from the count.
LEMMA ScheduleStep ==
  ASSUME TypeOK, scheduleReconnect
  PROVE  /\ attempts' \in 0 .. MaxAttempts /\ timers' \in Nat
         /\ attempts' - timers' = attempts - timers
         /\ timers' = 0 => attempts' = MaxAttempts
BY BoundsAssumption DEF TypeOK, scheduleReconnect

LEMMA NextIInv == IInv /\ [Next]_vars => IInv'
<1> SUFFICES ASSUME IInv, [Next]_vars PROVE IInv'
  OBVIOUS
<1>1. MaxAttempts \in Nat /\ MaxAttempts * opened \in Nat
  BY BoundsAssumption DEF IInv, TypeOK
<1>2. CASE connectWebSocket
  <2>1. TypeOK'
    BY <1>2, BoundsAssumption DEF IInv, TypeOK, connectWebSocket
  <2>2. GivesUpOnlyAfterMax' /\ ShownIsOpen'
    BY <1>2 DEF IInv, TypeOK, GivesUpOnlyAfterMax, ShownIsOpen, connectWebSocket
  <2>3. BoundedByOpens'
    BY <1>1, <1>2 DEF IInv, TypeOK, BoundedByOpens, connectWebSocket
  <2> QED BY <2>1, <2>2, <2>3 DEF IInv
<1>3. CASE onopen
  <2>1. TypeOK'
    BY <1>1, <1>3 DEF IInv, TypeOK, onopen
  <2>2. GivesUpOnlyAfterMax' /\ ShownIsOpen'
    BY <1>3 DEF IInv, TypeOK, GivesUpOnlyAfterMax, ShownIsOpen, onopen
  <2>3. BoundedByOpens'
    <3>1. MaxAttempts * (opened + 1) = MaxAttempts * opened + MaxAttempts
      BY <1>1 DEF IInv, TypeOK
    <3>2. /\ created + timers <= 1 + attempts + MaxAttempts * opened
          /\ attempts \in 0 .. MaxAttempts /\ created \in Nat /\ timers \in Nat
      BY DEF IInv, TypeOK, BoundedByOpens
    <3>3. created' = created /\ timers' = timers /\ attempts' = 0 /\ opened' = opened + 1
      BY <1>3 DEF onopen
    <3>4. created + timers <= 1 + 0 + (MaxAttempts * opened + MaxAttempts)
      BY <1>1, <3>2
    <3> QED BY <3>1, <3>3, <3>4 DEF BoundedByOpens
  <2> QED BY <2>1, <2>2, <2>3 DEF IInv
<1>4. CASE onerror \/ onclose
  <2>1. /\ attempts' \in 0 .. MaxAttempts /\ timers' \in Nat
        /\ attempts' - timers' = attempts - timers
        /\ timers' = 0 => attempts' = MaxAttempts
    BY <1>4, ScheduleStep DEF IInv, onerror, onclose
  <2>2. /\ connecting' \in Nat /\ open' \in Nat /\ failed' \in Nat
        /\ connecting' + open' + failed' <= created
        /\ connecting' + opened <= created
    <3>1. CASE onerror
      BY <3>1 DEF IInv, TypeOK, onerror
    <3>2. CASE onclose
      BY <3>2 DEF IInv, TypeOK, onclose
    <3> QED BY <1>4, <3>1, <3>2
  <2>3. opened' = opened /\ created' = created /\ shown' \in BOOLEAN
    BY <1>4 DEF IInv, TypeOK, onerror, onclose
  <2>4. TypeOK'
    <3>1. connecting' + open' + failed' <= created' /\ connecting' + opened' <= created'
      BY <2>2, <2>3
    <3> QED BY <2>1, <2>2, <2>3, <3>1, Zenon DEF IInv, TypeOK
  <2>5. GivesUpOnlyAfterMax'
    <3>1. connecting' + open' + failed' + timers' = 0 => timers' = 0
      BY <2>1, <2>2, SumIsZero
    <3> QED BY <2>1, <3>1 DEF GivesUpOnlyAfterMax
  <2>6. ShownIsOpen'
    <3>1. CASE onerror
      <4>1. failed' = failed + 1
        BY <3>1 DEF onerror
      <4>2. open' + failed' > 0
        BY <2>2, <4>1, SumIsPositive DEF IInv, TypeOK
      <4> QED BY <4>2 DEF ShownIsOpen
    <3>2. CASE onclose
      BY <3>2 DEF onclose, ShownIsOpen
    <3> QED BY <1>4, <3>1, <3>2
  <2>7. BoundedByOpens'
    <3>1. /\ created + timers <= 1 + attempts + MaxAttempts * opened
          /\ attempts \in Nat /\ created \in Nat /\ timers \in Nat
      BY DEF IInv, TypeOK, BoundedByOpens
    <3>2. created + timers' <= 1 + attempts' + MaxAttempts * opened
      <4>1. attempts' \in Nat
        BY <1>1, <2>1
      <4> QED BY <1>1, <2>1, <3>1, <4>1, BothOneMore
    <3> QED BY <2>3, <3>2 DEF BoundedByOpens
  <2> QED BY <2>4, <2>5, <2>6, <2>7 DEF IInv
<1>5. CASE UNCHANGED vars
  BY <1>5 DEF vars, IInv, TypeOK, GivesUpOnlyAfterMax, ShownIsOpen, BoundedByOpens
<1> QED BY <1>2, <1>3, <1>4, <1>5 DEF Next

\* The counters keep their types.
THEOREM TypeCorrect == Spec => []TypeOK
<1>1. IInv => TypeOK
  BY DEF IInv
<1> QED BY <1>1, InitIInv, NextIInv, PTL DEF Spec

\* The page is never left without a socket, a timer and an exhausted limit.
THEOREM NeverSilent == Spec => []GivesUpOnlyAfterMax
<1>1. IInv => GivesUpOnlyAfterMax
  BY DEF IInv
<1> QED BY <1>1, InitIInv, NextIInv, PTL DEF Spec

\* The status never claims a connection that is gone and reported.
THEOREM StatusHonest == Spec => []ShownIsOpen
<1>1. IInv => ShownIsOpen
  BY DEF IInv
<1> QED BY <1>1, InitIInv, NextIInv, PTL DEF Spec

\* Sockets are limited by the connections that opened, for every limit.
THEOREM SocketsBounded == Spec => []BoundedByOpens
<1>1. IInv => BoundedByOpens
  BY DEF IInv
<1> QED BY <1>1, InitIInv, NextIInv, PTL DEF Spec
=============================================================================
