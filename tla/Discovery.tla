------------------------------ MODULE Discovery ------------------------------
(* The controller's list of workers (internal/discovery/discovery.go): a map  *)
(* that the mDNS scanner fills, requests add to and delete from, and nothing  *)
(* expires.  The scanner also offers each record to a channel nobody reads    *)
(* and then logs the entry's first IPv4 address, whether it has one or not.   *)
(* A worker is its key, host and port; the key of an entry without an IPv4    *)
(* address has an empty host.  Capacity stands for the channel's 100 places.  *)
EXTENDS Naturals

CONSTANTS Keys,         \* host:port of every worker
          Addressless,  \* those with the empty host
          Capacity

ASSUME AddresslessAssumption == Addressless \subseteq Keys
ASSUME CapacityAssumption == Capacity \in Nat

VARIABLES workers,    \* the keys in the map, with the status of their records
          entries,    \* entries the resolver has to deliver
          scanner,    \* the step of the scanner's loop and the entry it is at
          ch,         \* records in the channel
          alive       \* the controller process

vars == <<workers, entries, scanner, ch, alive>>

Statuses == {"available", "connected"}
Waiting == [at |-> "range", key |-> "none"]
Listed == {k \in Keys : workers[k] # "absent"}

TypeOK ==
  /\ workers \in [Keys -> Statuses \cup {"absent"}]
  /\ entries \subseteq Keys
  /\ \/ scanner = Waiting
     \/ scanner \in [at : {"store", "send", "log"}, key : Keys]
  /\ ch \in 0 .. Capacity
  /\ alive \in BOOLEAN

\* NewDiscovery, and StartScanner's goroutine at its range loop.
Init ==
  /\ workers = [k \in Keys |-> "absent"]
  /\ entries = {}
  /\ scanner = Waiting
  /\ ch = 0
  /\ alive = TRUE
-----------------------------------------------------------------------------
(* A worker announces itself whenever it is started (StartWorkerBroadcast).   *)

Announce(k) ==
  /\ entries' = entries \cup {k}
  /\ UNCHANGED <<workers, scanner, ch, alive>>
-----------------------------------------------------------------------------
(* The loop of StartScanner.                                                *)

Receive(k) ==
  /\ alive
  /\ scanner = Waiting
  /\ k \in entries
  /\ entries' = entries \ {k}
  /\ scanner' = [at |-> "store", key |-> k]
  /\ UNCHANGED <<workers, ch, alive>>

StoreWithoutStatus ==                \* parseEntry leaves Status empty
  /\ alive
  /\ scanner.at = "store"
  /\ workers' = [workers EXCEPT ![scanner.key] = ""]
  /\ scanner' = [scanner EXCEPT !.at = "send"]
  /\ UNCHANGED <<entries, ch, alive>>

\* A new record replaces the old one, a manual entry included.
Store ==
  /\ alive
  /\ scanner.at = "store"
  /\ workers' = [workers EXCEPT ![scanner.key] = "available"]
  /\ scanner' = [scanner EXCEPT !.at = "send"]
  /\ UNCHANGED <<entries, ch, alive>>

SendBlocks ==                        \* drops the select's default
  /\ alive
  /\ scanner.at = "send"
  /\ ch < Capacity
  /\ ch' = ch + 1
  /\ scanner' = [scanner EXCEPT !.at = "log"]
  /\ UNCHANGED <<workers, entries, alive>>

Send ==
  /\ alive
  /\ scanner.at = "send"
  /\ ch' = IF ch < Capacity THEN ch + 1 ELSE ch
  /\ scanner' = [scanner EXCEPT !.at = "log"]
  /\ UNCHANGED <<workers, entries, alive>>

LogRecovers ==                       \* the panic ends the loop only
  /\ alive
  /\ scanner.at = "log"
  /\ scanner' = Waiting
  /\ UNCHANGED <<workers, entries, ch, alive>>

\* entry.AddrIPv4[0] of an entry that has none: the panic of a goroutine ends
\* the process.
Log ==
  /\ alive
  /\ scanner.at = "log"
  /\ alive' = (scanner.key \notin Addressless)
  /\ scanner' = Waiting
  /\ UNCHANGED <<workers, entries, ch>>
-----------------------------------------------------------------------------
(* Requests, under the same mutex.                                          *)

\* handleAddWorker refuses an empty host.
AddManualWorker(k) ==
  /\ alive
  /\ k \in Keys \ Addressless
  /\ workers' = [workers EXCEPT ![k] = "connected"]
  /\ UNCHANGED <<entries, scanner, ch, alive>>

RemoveWorker(k) ==
  /\ alive
  /\ workers' = [workers EXCEPT ![k] = "absent"]
  /\ UNCHANGED <<entries, scanner, ch, alive>>

Next ==
  \/ \E k \in Keys : \/ Announce(k)
                     \/ Receive(k)
                     \/ AddManualWorker(k)
                     \/ RemoveWorker(k)
  \/ Store
  \/ Send
  \/ Log

Spec == Init /\ [][Next]_vars

\* The scanner is scheduled; each entry's turn comes, since the resolver hands
\* its entries over in the order it found them.
Fairness ==
  /\ WF_vars(Store)
  /\ WF_vars(Send)
  /\ WF_vars(Log)
  /\ \A k \in Keys : SF_vars(Receive(k))

FairSpec == Spec /\ Fairness
-----------------------------------------------------------------------------
\* A worker that cannot be reached at any address is listed only in the moments
\* before the scanner's panic takes the controller down.
AddresslessIsFatal ==
  alive => \A k \in Listed \cap Addressless :
             scanner.at \in {"send", "log"} /\ scanner.key = k

\* Every worker that announces itself gets listed while the controller lives,
\* however many records wait in the channel.
AnnouncedIsListed == \A k \in Keys : k \in entries ~> (k \in Listed \/ ~alive)
=============================================================================
