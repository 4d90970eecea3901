--------------------------- MODULE DiscoveryProofs ---------------------------
(* The list of workers, for any set of workers and any capacity.            *)
EXTENDS Discovery, TLAPS

LEMMA InitOK == Init => TypeOK /\ AddresslessIsFatal
BY CapacityAssumption DEF Init, TypeOK, AddresslessIsFatal, Listed, Waiting

LEMMA NextOK == TypeOK /\ AddresslessIsFatal /\ [Next]_vars => TypeOK' /\ AddresslessIsFatal'
<1> SUFFICES ASSUME TypeOK, AddresslessIsFatal, [Next]_vars
             PROVE  TypeOK' /\ AddresslessIsFatal'
  OBVIOUS
<1> USE DEF TypeOK, AddresslessIsFatal, Listed, Waiting
<1>1. ASSUME NEW k \in Keys, Announce(k) PROVE TypeOK' /\ AddresslessIsFatal'
  BY <1>1 DEF Announce
<1>2. ASSUME NEW k \in Keys, Receive(k) PROVE TypeOK' /\ AddresslessIsFatal'
  BY <1>2 DEF Receive
<1>3. ASSUME NEW k \in Keys, AddManualWorker(k) PROVE TypeOK' /\ AddresslessIsFatal'
  BY <1>3 DEF AddManualWorker, Statuses
<1>4. ASSUME NEW k \in Keys, RemoveWorker(k) PROVE TypeOK' /\ AddresslessIsFatal'
  BY <1>4 DEF RemoveWorker
<1>5. CASE Store
  BY <1>5 DEF Store, Statuses
<1>6. CASE Send
  BY <1>6, CapacityAssumption DEF Send
<1>7. CASE Log
  BY <1>7 DEF Log
<1>8. CASE UNCHANGED vars
  BY <1>8 DEF vars
<1> QED BY <1>1, <1>2, <1>3, <1>4, <1>5, <1>6, <1>7, <1>8 DEF Next

\* The map, the scanner and the channel keep their types; the channel never
\* holds more than its capacity.
THEOREM TypeCorrect == Spec => []TypeOK
BY InitOK, NextOK, PTL DEF Spec

\* No list the controller serves for longer than it takes to panic names a
\* worker without an address.
THEOREM AddresslessKills == Spec => []AddresslessIsFatal
BY InitOK, NextOK, PTL DEF Spec
=============================================================================
