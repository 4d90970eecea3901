------------------------------ MODULE OneServer ------------------------------
(* What internal/llmserver promises its caller: a server at a time, which    *)
(* the next load or unload replaces or stops, as long as no report of a       *)
(* replaced one comes late.  A late report may lose the server, and it is the *)
(* only step of a running controller that does; what the controller leaves    *)
(* behind when it exits, told to stop or not, no later one stops.             *)
CONSTANT Servers        \* names of the launches

VARIABLES server,       \* the launch that answers to Stop, as a set
          strays,       \* launches that run and that isRunning does not stand for
          dying,        \* launches that were told to stop and still run
          late,         \* replaced launches whose report is still to come
          survivors     \* launches of earlier controllers that run

vars == <<server, strays, dying, late, survivors>>

Init ==
  /\ server = {} /\ strays = {} /\ dying = {}
  /\ late = {} /\ survivors = {}

\* A load replaces the server it knows of, and that one only.
Load ==
  /\ \E n \in Servers \ (strays \cup dying \cup late \cup survivors) : server' = {n}
  /\ dying' = dying \cup server
  /\ late \subseteq late' /\ late' \subseteq Servers
  /\ UNCHANGED <<strays, survivors>>

\* An unload, or a load that fails after it stopped the server.  Of the strays
\* it reaches the newest launch at most.
Unload ==
  /\ server' = {}
  /\ strays' = strays \/ \E n \in strays : strays' = strays \ {n}
  /\ dying' = dying \cup server \cup (strays \ strays')
  /\ UNCHANGED <<late, survivors>>

\* A late report makes the controller forget the server it has.
LateReport ==
  /\ \E n \in late : late' = late \ {n}
  /\ server' = {}
  /\ strays' = strays \cup server
  /\ UNCHANGED <<dying, survivors>>

\* A child ends, killed or by itself.
End ==
  /\ \E n \in Servers : /\ server' = server \ {n}
                        /\ strays' = strays \ {n}
                        /\ dying' = dying \ {n}
                        /\ survivors' = survivors \ {n}
  /\ UNCHANGED late

\* The controller exits.  Whatever runs may go on, even a child that was told
\* to stop: the kill is a goroutine's, and that may be gone first.
Exit ==
  /\ server' = {} /\ strays' = {} /\ dying' = {} /\ late' = {}
  /\ survivors \subseteq survivors'
  /\ survivors' \subseteq survivors \cup server \cup strays \cup dying

Next == Load \/ Unload \/ LateReport \/ End \/ Exit
Spec == Init /\ [][Next]_vars
=============================================================================
