--------------------------- MODULE DashboardProofs ---------------------------
(* The page, for any workers, names and states of the server, any number of   *)
(* requests and refreshes at once, and any limits.                            *)
EXTENDS Dashboard, ReconnectProofs, FiniteSetTheorems, SequenceTheorems

-----------------------------------------------------------------------------
(* The socket.                                                              *)

\* Whatever else the page does, its socket and timers take steps of Reconnect
\* only, so all that is proved there holds of the page.
LEMMA SocketIsReconnect == PageSpec => Spec
<1>1. PageInit => Init
  BY DEF PageInit
<1>2. [PageNext]_pageVars => [Next]_vars
  <2> SUFFICES ASSUME [PageNext]_pageVars PROVE [Next]_vars
    OBVIOUS
  <2>1. CASE Socket
    BY <2>1 DEF Socket, Next
  <2>2. CASE UNCHANGED vars
    BY <2>2
  <2>3. Socket \/ UNCHANGED vars
    BY DEF PageNext, pageVars, onmessage, Refreshing, AnswerWorkers,
           AnswerModel, ShowWorkers, ShowModel, ShowMetrics, RefreshFails, ServePost, ServeAdd,
           PostAnswered, PostFails, User, loadModel, unloadModel, addWorker, Send,
           switchTab, OpenDevice, Frame, ServerChanges, Broadcast
  <2> QED BY <2>1, <2>2, <2>3
<1> QED BY <1>1, <1>2, PTL DEF PageSpec, Spec
-----------------------------------------------------------------------------
(* The graph.                                                               *)

\* A finite set of numbers has a last one: the elements up to a given one are
\* counted without gaps.
LEMMA HasLast ==
  ASSUME NEW n \in Nat, NEW S \in SUBSET (1 .. n), S # {}
  PROVE  \E i \in S : \A j \in S : j <= i
<1> DEFINE UpTo(i) == {j \in S : j <= i}
           c == [i \in S |-> Cardinality(UpTo(i))]
           m == Cardinality(S)
<1>1. IsFiniteSet(S) /\ m \in Nat /\ m # 0
  <2>1. IsFiniteSet(1 .. n)
    BY FS_Interval
  <2>2. IsFiniteSet(S)
    BY <2>1, FS_Subset
  <2> QED BY <2>2, FS_EmptySet, FS_CardinalityType
<1>2. ASSUME NEW i \in S
      PROVE  /\ IsFiniteSet(UpTo(i)) /\ Cardinality(UpTo(i)) \in Nat
             /\ Cardinality(UpTo(i)) <= m /\ Cardinality(UpTo(i)) # 0
             /\ Cardinality(UpTo(i)) = m => UpTo(i) = S
  <2>1. UpTo(i) \in SUBSET S /\ i \in UpTo(i)
    OBVIOUS
  <2>2. UpTo(i) # {}
    BY <2>1
  <2> HIDE DEF UpTo
  <2> QED BY <1>1, <2>1, <2>2, FS_Subset, FS_EmptySet, FS_CardinalityType
<1>3. ASSUME NEW i \in S, NEW j \in S, i < j PROVE c[i] # c[j]
  <2>1. UpTo(i) \in SUBSET UpTo(j)
    <3> SUFFICES ASSUME NEW x \in S, x <= i PROVE x <= j
      OBVIOUS
    <3>1. x \in Nat /\ i \in Nat /\ j \in Nat
      OBVIOUS
    <3> QED BY <1>3, <3>1
  <2>2. j \in UpTo(j) /\ j \notin UpTo(i)
    BY <1>3
  <2>3. IsFiniteSet(UpTo(j))
    BY <1>2
  <2> HIDE DEF UpTo
  <2>4. Cardinality(UpTo(i)) # Cardinality(UpTo(j))
    BY <2>1, <2>2, <2>3, FS_Subset
  <2> QED BY <2>4
<1>4. ASSUME \A i \in S : Cardinality(UpTo(i)) # m PROVE FALSE
  <2>1. c \in [S -> 1 .. m - 1]
    <3>1. \A i \in S : Cardinality(UpTo(i)) \in 1 .. m - 1
      <4> HIDE DEF UpTo, m
      <4> QED BY <1>1, <1>2, <1>4
    <3> HIDE DEF UpTo, m
    <3> QED BY <3>1
  <2>2. IsFiniteSet(1 .. m - 1) /\ Cardinality(1 .. m - 1) < m
    <3> HIDE DEF m
    <3>1. m - 1 \in Int
      BY <1>1
    <3> QED BY <1>1, <3>1, FS_Interval
  <2>3. \E x, y \in S : x # y /\ c[x] = c[y]
    <3> HIDE DEF c
    <3> QED BY <1>1, <2>1, <2>2, FS_PigeonHole
  <2>4. \A x, y \in S : x < y \/ y < x \/ x = y
    OBVIOUS
  <2> HIDE DEF c
  <2> QED BY <1>3, <2>3, <2>4
<1>5. PICK i \in S : Cardinality(UpTo(i)) = m
  BY <1>4
<1>6. UpTo(i) = S
  <2> HIDE DEF UpTo, m
  <2> QED BY <1>2, <1>5
<1> QED BY <1>6

LEMMA Join ==
  ASSUME NEW T, NEW s \in Seq(T), NEW t \in Seq(T)
  PROVE  /\ s \o t \in Seq(T) /\ Len(s \o t) = Len(s) + Len(t)
         /\ \A i \in 1 .. Len(s) + Len(t) :
              (s \o t)[i] = IF i <= Len(s) THEN s[i] ELSE t[i - Len(s)]
BY ConcatProperties, Zenon

\* What update makes of a list.
LEMMA NodesOfList ==
  ASSUME NEW list \in Seq(Workers)
  PROVE  /\ Nodes(list) \in Seq([id : {Controller} \cup {NodeId[w] : w \in Workers},
                                 device : {Controller} \cup Workers])
         /\ Len(list) \in Nat /\ Len(Nodes(list)) = Len(list) + 1
         /\ Nodes(list)[1] = [id |-> Controller, device |-> Controller]
         /\ \A i \in 2 .. Len(list) + 1 :
              Nodes(list)[i] = [id |-> NodeId[list[i - 1]], device |-> list[i - 1]]
<1> DEFINE T == [id : {Controller} \cup {NodeId[w] : w \in Workers},
                 device : {Controller} \cup Workers]
           head == <<[id |-> Controller, device |-> Controller]>>
           tail == [i \in 1 .. Len(list) |-> [id |-> NodeId[list[i]], device |-> list[i]]]
<1>1. head \in Seq(T) /\ Len(head) = 1 /\ head[1] = [id |-> Controller, device |-> Controller]
  OBVIOUS
<1>2. tail \in Seq(T) /\ Len(tail) = Len(list)
  <2>1. \A i \in 1 .. Len(list) : list[i] \in Workers
    OBVIOUS
  <2>2. \A i \in 1 .. Len(list) : [id |-> NodeId[list[i]], device |-> list[i]] \in T
    BY <2>1
  <2>3. Len(list) \in Nat
    OBVIOUS
  <2> QED BY <2>2, <2>3
<1>3. \A i \in 1 .. Len(list) : tail[i] = [id |-> NodeId[list[i]], device |-> list[i]]
  OBVIOUS
<1>4. Nodes(list) = head \o tail
  BY DEF Nodes
<1>5. Len(list) \in Nat
  OBVIOUS
<1> HIDE DEF T, head, tail
<1>6. /\ head \o tail \in Seq(T) /\ Len(head \o tail) = Len(head) + Len(tail)
      /\ \A i \in 1 .. Len(head) + Len(tail) :
           (head \o tail)[i] = IF i <= Len(head) THEN head[i] ELSE tail[i - Len(head)]
  <2>1. head \in Seq(T) /\ tail \in Seq(T)
    BY <1>1, <1>2
  <2> QED BY <2>1, Join, Zenon
<1>7. /\ Len(Nodes(list)) = Len(list) + 1
      /\ \A i \in 1 .. Len(list) + 1 :
           Nodes(list)[i] = IF i <= 1 THEN head[i] ELSE tail[i - 1]
  <2>1. Len(head) = 1 /\ Len(head) + Len(tail) = Len(list) + 1
    BY <1>1, <1>2, <1>5
  <2>2. Len(Nodes(list)) = Len(list) + 1
    BY <1>4, <1>6, <2>1
  <2>3. ASSUME NEW i \in 1 .. Len(list) + 1
        PROVE  Nodes(list)[i] = IF i <= 1 THEN head[i] ELSE tail[i - 1]
    <3>1. (head \o tail)[i] = IF i <= Len(head) THEN head[i] ELSE tail[i - Len(head)]
      BY <1>6, <2>1
    <3> QED BY <1>4, <2>1, <3>1
  <2> QED BY <2>2, <2>3
<1>8. Nodes(list)[1] = head[1] /\ \A i \in 2 .. Len(list) + 1 : Nodes(list)[i] = tail[i - 1]
  BY <1>5, <1>7
<1>9. \A i \in 2 .. Len(list) + 1 : i - 1 \in 1 .. Len(list)
  BY <1>5
<1> QED BY <1>1, <1>3, <1>4, <1>5, <1>6, <1>7, <1>8, <1>9 DEF T

LEMMA PlacesOfNodes ==
  ASSUME NEW ns \in Seq([id : {Controller} \cup {NodeId[w] : w \in Workers},
                         device : {Controller} \cup Workers]),
         Len(ns) >= 1
  PROVE  /\ Placed(ns) \subseteq 1 .. Len(ns)
         /\ DOMAIN Places(ns) = Placed(ns)
         /\ \A i \in Placed(ns) : Places(ns)[i] \in Nat
         /\ \A i, j \in Placed(ns) : Places(ns)[i] = Places(ns)[j] => i = j
<1> DEFINE P == Placed(ns)
           Before(i) == {j \in P : j < i}
<1>1. P \subseteq 1 .. Len(ns) /\ 1 \in P
  BY DEF Placed
<1>2. Len(ns) \in Nat
  OBVIOUS
<1>3. ASSUME NEW i \in P
      PROVE  /\ IsFiniteSet(Before(i)) /\ Cardinality(Before(i)) \in Nat
             /\ i # 1 => Cardinality(Before(i)) # 0
  <2>1. Before(i) \in SUBSET (1 .. Len(ns)) /\ (i # 1 => Before(i) # {})
    BY <1>1, <1>2
  <2> HIDE DEF Before
  <2>2. IsFiniteSet(1 .. Len(ns))
    BY <1>2, FS_Interval
  <2>3. IsFiniteSet(Before(i))
    BY <2>1, <2>2, FS_Subset
  <2> QED BY <2>1, <2>3, FS_EmptySet, FS_CardinalityType
<1>4. ASSUME NEW i \in P, NEW j \in P, i < j
      PROVE  Cardinality(Before(i)) # Cardinality(Before(j))
  <2>1. Before(i) \in SUBSET Before(j)
    <3> SUFFICES ASSUME NEW x \in P, x < i PROVE x < j
      OBVIOUS
    <3>1. x \in Nat /\ i \in Nat /\ j \in Nat
      BY <1>1, <1>2
    <3> QED BY <1>4, <3>1
  <2>2. i \in Before(j) /\ i \notin Before(i)
    BY <1>1, <1>2, <1>4
  <2>3. IsFiniteSet(Before(j))
    BY <1>3
  <2> HIDE DEF Before
  <2>4. Cardinality(Before(i)) # Cardinality(Before(j))
    BY <2>1, <2>2, <2>3, FS_Subset
  <2> QED BY <2>4
<1>5. \A i \in P : Places(ns)[i] = IF i = 1 THEN 0 ELSE Cardinality(Before(i))
  BY DEF Places
<1>6. \A i, j \in P : i < j \/ j < i \/ i = j
  BY <1>1, <1>2
<1>7. DOMAIN Places(ns) = P
  BY DEF Places
<1> HIDE DEF P, Before
<1>8. \A i \in P : Places(ns)[i] \in Nat
  BY <1>3, <1>5
<1>9. \A i, j \in P : Places(ns)[i] = Places(ns)[j] => i = j
  BY <1>3, <1>4, <1>5, <1>6
<1> QED BY <1>1, <1>7, <1>8, <1>9 DEF P

LEMMA PositionsOfNodes ==
  ASSUME NEW ns \in Seq([id : {Controller} \cup {NodeId[w] : w \in Workers},
                         device : {Controller} \cup Workers]),
         Len(ns) >= 1
  PROVE  /\ DOMAIN Positions(ns) = {ns[i].id : i \in Placed(ns)}
         /\ \A d \in DOMAIN Positions(ns) :
              Positions(ns)[d] \in Placed(ns) /\ ns[Positions(ns)[d]].id = d
<1> DEFINE D == {ns[i].id : i \in Placed(ns)}
           Last(d, i) == /\ ns[i].id = d
                         /\ \A j \in Placed(ns) : ns[j].id = d => j <= i
<1>1. DOMAIN Positions(ns) = D
  BY DEF Positions
<1>2. \A d \in D : Positions(ns)[d] = CHOOSE i \in Placed(ns) : Last(d, i)
  BY DEF Positions
<1>3. ASSUME NEW d \in D PROVE \E i \in Placed(ns) : Last(d, i)
  <2> DEFINE S == {i \in Placed(ns) : ns[i].id = d}
  <2>1. S \in SUBSET (1 .. Len(ns)) /\ S # {}
    BY PlacesOfNodes
  <2>2. Len(ns) \in Nat
    OBVIOUS
  <2>3. \E i \in S : \A j \in S : j <= i
    <3> HIDE DEF S
    <3> QED BY <2>1, <2>2, HasLast
  <2> QED BY <2>3
<1>4. ASSUME NEW d \in D PROVE Positions(ns)[d] \in Placed(ns) /\ Last(d, Positions(ns)[d])
  <2> HIDE DEF Last, D
  <2> QED BY <1>2, <1>3
<1> QED BY <1>1, <1>4
-----------------------------------------------------------------------------
(* Types.                                                                   *)

ServerTypes ==
  /\ history \in Seq(ServerStates)
  /\ Now \in 1 .. MaxStates
  /\ message \in 0 .. Now
  /\ wedged \in BOOLEAN

RequestTypes ==
  /\ post \in [Slots -> [kind : {"none", "load", "unload", "add"},
                         stage : {"idle", "sent", "served", "hung"}, at : 0 .. Now]]
  /\ refresh \in [Slots -> [stage : {"idle", "asked", "workers shown", "model shown"},
                            workers : 0 .. Now, model : 0 .. Now]]
  /\ disabled \in BOOLEAN /\ lost \in BOOLEAN
  /\ acted \in 0 .. Now

CardTypes == workers \in Seq(Workers) /\ count \in Nat /\ misnamed \in BOOLEAN

StatusTypes ==
  /\ model \in [is : {"none", "Not loaded", "Loaded", "Running"}, at : 0 .. Now]
  /\ dialog \in [named : Workers \cup {Controller},
                 numbers : Workers \cup {Controller, "none"}]
  /\ seen \in 0 .. Now
  /\ localMetrics \in BOOLEAN

Types == TopologyTypeOK /\ ServerTypes /\ RequestTypes /\ CardTypes /\ StatusTypes

LEMMA TypesSuffice == TypeOK /\ Types => PageTypeOK
<1> SUFFICES ASSUME TypeOK, Types PROVE PageTypeOK
  OBVIOUS
<1>1. \A i \in 1 .. Now : history[i] \in ServerStates
  BY DEF Types, ServerTypes, Now
<1> QED BY <1>1 DEF Types, ServerTypes, RequestTypes, CardTypes, StatusTypes, PageTypeOK

\* A snapshot is of a state that lists workers of the instance.
LEMMA ListOfState ==
  ASSUME ServerTypes, NEW n \in 0 .. Now, n # 0
  PROVE  history[n].list \in Seq(Workers)
<1>1. n \in 1 .. Len(history)
  BY DEF ServerTypes, Now
<1>2. history[n] \in ServerStates
  BY <1>1 DEF ServerTypes
<1> QED BY <1>2, ServerStatesAssumption

LEMMA UpdateTypes ==
  ASSUME Types, NEW list \in Seq(Workers), updateWorkers(list)
  PROVE  TopologyTypeOK' /\ CardTypes'
<1>1. /\ nodes' = Nodes(list) /\ places' = Places(nodes') /\ nodePositions' = Positions(nodes')
      /\ startAnimation(nodes', places')
  BY DEF updateWorkers, update
<1>2. Len(list) \in Nat /\ Len(nodes') = Len(list) + 1
  <2>1. Len(Nodes(list)) = Len(list) + 1
    BY NodesOfList
  <2> QED BY <1>1, <2>1
<1>3. nodes' \in Seq([id : {Controller} \cup {NodeId[w] : w \in Workers},
                     device : {Controller} \cup Workers])
  BY <1>1, NodesOfList
<1>4. Len(nodes') >= 1
  BY <1>2
<1>5. /\ Placed(nodes') \subseteq 1 .. Len(nodes')
      /\ DOMAIN places' = Placed(nodes')
      /\ \A i \in DOMAIN places' : places'[i] \in Nat
  BY <1>1, <1>3, <1>4, PlacesOfNodes
<1>6. \A d \in DOMAIN nodePositions' : nodePositions'[d] \in 1 .. Len(nodes')
  BY <1>1, <1>3, <1>4, <1>5, PositionsOfNodes
<1>7. animation' \in {"none", "running", "frozen"}
  BY <1>1 DEF startAnimation, Types, TopologyTypeOK
<1>8. TopologyTypeOK'
  BY <1>3, <1>5, <1>6, <1>7 DEF TopologyTypeOK
<1>9. CardTypes'
  BY <1>2 DEF updateWorkers, Types, CardTypes
<1> QED BY <1>8, <1>9

LEMMA StatusShown ==
  ASSUME Types, NEW n \in 0 .. Now, NEW running, updateModelStatus(n, running),
         UNCHANGED <<localMetrics, dialog, history>>
  PROVE  StatusTypes'
BY DEF updateModelStatus, Types, StatusTypes, Now

LEMMA InitTypes == PageInit => Types
<1> SUFFICES ASSUME PageInit PROVE Types
  OBVIOUS
<1>1. TopologyTypeOK
  BY DEF PageInit, TopologyInit, TopologyTypeOK
<1>2. ServerTypes /\ Now = 1
  <2>1. history \in Seq(ServerStates) /\ Now = 1
    BY DEF PageInit, Now
  <2>2. message = 0 /\ wedged = FALSE
    BY DEF PageInit
  <2>3. Now \in 1 .. MaxStates /\ message \in 0 .. Now
    BY <2>1, <2>2, MaxStatesAssumption
  <2> QED BY <2>1, <2>2, <2>3 DEF ServerTypes
<1>3. RequestTypes
  <2>1. PICK s \in Slots : refresh = [r \in Slots |-> IF r = s THEN NewRefresh ELSE NoRefresh]
    BY Zenon DEF PageInit
  <2>2. refresh \in [Slots -> [stage : {"idle", "asked", "workers shown", "model shown"},
                             workers : 0 .. Now, model : 0 .. Now]]
    BY <1>2, <2>1 DEF NoRefresh, NewRefresh
  <2>3. post \in [Slots -> [kind : {"none", "load", "unload", "add"},
                          stage : {"idle", "sent", "served", "hung"}, at : 0 .. Now]]
    BY <1>2 DEF PageInit, NoPost
  <2>4. disabled = FALSE /\ lost = FALSE /\ acted = 0
    BY DEF PageInit
  <2>5. acted \in 0 .. Now
    BY <1>2, <2>4
  <2> QED BY <2>2, <2>3, <2>4, <2>5, Zenon DEF RequestTypes
<1>4. CardTypes /\ StatusTypes
  <2>1. workers = <<>> /\ count = 0 /\ misnamed = FALSE
    BY DEF PageInit
  <2>2. model \in [is : {"none", "Not loaded", "Loaded", "Running"}, at : 0 .. Now]
    BY <1>2 DEF PageInit
  <2>3. dialog \in [named : Workers \cup {Controller},
                   numbers : Workers \cup {Controller, "none"}]
    BY DEF PageInit
  <2>4. CardTypes
    BY <2>1, EmptySeq DEF CardTypes
  <2> QED BY <1>2, <2>2, <2>3, <2>4 DEF PageInit, StatusTypes
<1> QED BY <1>1, <1>2, <1>3, <1>4 DEF Types

LEMMA NowTypes == ASSUME Types PROVE Now \in Nat /\ Now \in 0 .. Now /\ 0 \in 0 .. Now
<1>1. Now \in Nat
  BY DEF Types, ServerTypes
<1> QED BY <1>1

\* What a step leaves alone keeps its type.
LEMMA Untouched ==
  ASSUME Types
  PROVE  /\ UNCHANGED topologyVars => TopologyTypeOK'
         /\ UNCHANGED serverVars => ServerTypes'
         /\ UNCHANGED <<requestVars, history>> => RequestTypes'
         /\ UNCHANGED cardVars => CardTypes'
         /\ UNCHANGED <<statusVars, history>> => StatusTypes'
<1>1. UNCHANGED topologyVars => TopologyTypeOK'
  BY DEF Types, TopologyTypeOK, topologyVars
<1>2. UNCHANGED serverVars => ServerTypes'
  BY DEF Types, ServerTypes, serverVars, Now
<1>3. UNCHANGED <<requestVars, history>> => RequestTypes'
  BY DEF Types, RequestTypes, requestVars, Now
<1>4. UNCHANGED cardVars => CardTypes'
  BY DEF Types, CardTypes, cardVars
<1>5. UNCHANGED <<statusVars, history>> => StatusTypes'
  BY DEF Types, StatusTypes, statusVars, Now
<1> QED BY <1>1, <1>2, <1>3, <1>4, <1>5

\* A longer history widens what snapshots may be.
LEMMA LongerHistory ==
  ASSUME Types, Now < MaxStates, NEW t \in ServerStates, history' = Append(history, t),
         wedged' \in BOOLEAN, UNCHANGED message
  PROVE  /\ ServerTypes' /\ Now' = Now + 1
         /\ UNCHANGED requestVars => RequestTypes'
         /\ UNCHANGED statusVars => StatusTypes'
<1>1. Now \in Nat /\ Now' = Now + 1
  BY DEF Types, ServerTypes, Now
<1>2. Now' \in 1 .. MaxStates /\ message' \in 0 .. Now'
  BY <1>1, MaxStatesAssumption DEF Types, ServerTypes
<1>3. history' \in Seq(ServerStates)
  BY DEF Types, ServerTypes
<1>4. \A n \in 0 .. Now : n \in 0 .. Now'
  BY <1>1
<1>5. ASSUME UNCHANGED requestVars PROVE RequestTypes'
  <2> HIDE DEF Now
  <2> QED BY <1>4, <1>5 DEF Types, RequestTypes, requestVars
<1>6. ASSUME UNCHANGED statusVars PROVE StatusTypes'
  <2> HIDE DEF Now
  <2> QED BY <1>4, <1>6 DEF Types, StatusTypes, statusVars
<1> QED BY <1>1, <1>2, <1>3, <1>5, <1>6 DEF ServerTypes

LEMMA SocketTypes == Types /\ Socket => Types'
<1> SUFFICES ASSUME Types, Socket PROVE Types'
  OBVIOUS
<1>1. /\ UNCHANGED <<topologyVars, history, wedged, requestVars, cardVars, statusVars>>
      /\ message' \in {message, 0}
  BY DEF Socket
<1>2. ServerTypes'
  BY <1>1 DEF Types, ServerTypes, Now
<1> QED BY <1>1, <1>2, Untouched DEF Types

LEMMA MessageTypes == Types /\ onmessage => Types'
<1> SUFFICES ASSUME Types, onmessage PROVE Types'
  OBVIOUS
<1>1. message \in 0 .. Now /\ message # 0
  BY DEF onmessage, Types, ServerTypes
<1>2. history[message].list \in Seq(Workers)
  BY <1>1, ListOfState DEF Types
<1>3. TopologyTypeOK' /\ CardTypes'
  BY <1>2, UpdateTypes DEF onmessage
<1>4. /\ UNCHANGED <<history, wedged, requestVars, localMetrics, dialog>>
      /\ message' \in {message, 0}
  BY DEF onmessage
<1>5. ServerTypes' /\ RequestTypes'
  <2>1. ServerTypes'
    BY <1>4 DEF Types, ServerTypes, Now
  <2> QED BY <1>4, <2>1, Untouched
<1>6. CASE UNCHANGED <<model, seen>>
  <2>1. UNCHANGED <<statusVars, history>>
    BY <1>4, <1>6 DEF statusVars
  <2> QED BY <1>3, <1>5, <2>1, Untouched DEF Types
<1>7. CASE updateModelStatus(message, FALSE)
  BY <1>1, <1>3, <1>4, <1>5, <1>7, StatusShown DEF Types
<1> QED BY <1>6, <1>7 DEF onmessage

\* A refresh whose slot goes on or ends.
LEMMA RefreshTypes ==
  ASSUME Types, NEW r \in Slots, UNCHANGED <<history, post, disabled, acted>>,
         NEW v, v \in [stage : {"idle", "asked", "workers shown", "model shown"},
                       workers : 0 .. Now, model : 0 .. Now],
         refresh' = [refresh EXCEPT ![r] = v], lost' \in BOOLEAN
  PROVE  RequestTypes'
<1>1. Now' = Now
  BY DEF Now
<1> QED BY <1>1 DEF Types, RequestTypes

LEMMA RefreshingTypes ==
  ASSUME Types, NEW r \in Slots, Refreshing(r) \/ RefreshFails(r)
  PROVE  Types'
<1> DEFINE R == [stage : {"idle", "asked", "workers shown", "model shown"},
                 workers : 0 .. Now, model : 0 .. Now]
<1>1. refresh \in [Slots -> R] /\ refresh[r] \in R /\ Now \in 0 .. Now /\ 0 \in 0 .. Now
      /\ lost \in BOOLEAN
  <2>1. refresh \in [Slots -> R] /\ lost \in BOOLEAN
    BY DEF Types, RequestTypes
  <2>2. Now \in Nat
    BY DEF Types, ServerTypes
  <2>3. Now \in 0 .. Now /\ 0 \in 0 .. Now
    BY <2>2
  <2> QED BY <2>1, <2>3
<1>2. CASE AnswerWorkers(r)
  <2>1. refresh' = [refresh EXCEPT ![r] = [refresh[r] EXCEPT !.workers = Now]]
    BY <1>2 DEF AnswerWorkers
  <2>2. [refresh[r] EXCEPT !.workers = Now] \in R
    BY <1>1
  <2>3. UNCHANGED <<topologyVars, serverVars, history, post, disabled, acted, lost, cardVars, statusVars>>
    BY <1>2 DEF AnswerWorkers, serverVars
  <2>4. RequestTypes'
    BY <1>1, <2>1, <2>2, <2>3, RefreshTypes
  <2> QED BY <2>3, <2>4, Untouched DEF Types
<1>3. CASE AnswerModel(r)
  <2>1. refresh' = [refresh EXCEPT ![r] = [refresh[r] EXCEPT !.model = Now]]
    BY <1>3 DEF AnswerModel
  <2>2. [refresh[r] EXCEPT !.model = Now] \in R
    BY <1>1
  <2>3. UNCHANGED <<topologyVars, serverVars, history, post, disabled, acted, lost, cardVars, statusVars>>
    BY <1>3 DEF AnswerModel, serverVars
  <2>4. RequestTypes'
    BY <1>1, <2>1, <2>2, <2>3, RefreshTypes
  <2> QED BY <2>3, <2>4, Untouched DEF Types
<1>4. CASE ShowWorkers(r)
  <2>1. history[refresh[r].workers].list \in Seq(Workers)
    BY <1>1, <1>4, ListOfState DEF ShowWorkers, Types
  <2>2. TopologyTypeOK' /\ CardTypes'
    BY <1>4, <2>1, UpdateTypes DEF ShowWorkers
  <2>3. UNCHANGED <<serverVars, history, post, disabled, acted, lost, statusVars>>
    BY <1>4 DEF ShowWorkers, serverVars
  <2>4. PICK v \in {NoRefresh, [refresh[r] EXCEPT !.stage = "workers shown", !.workers = 0]} :
          refresh' = [refresh EXCEPT ![r] = v]
    BY <1>1, <1>4 DEF ShowWorkers
  <2>5. v \in R
    <3>1. NoRefresh \in R
      BY <1>1 DEF NoRefresh
    <3>2. [refresh[r] EXCEPT !.stage = "workers shown", !.workers = 0] \in R
      BY <1>1
    <3> HIDE DEF R
    <3> QED BY <2>4, <3>1, <3>2
  <2>6. RequestTypes'
    BY <1>1, <2>3, <2>4, <2>5, RefreshTypes
  <2> QED BY <2>2, <2>3, <2>6, Untouched DEF Types
<1>5. CASE ShowModel(r)
  <2>1. UNCHANGED <<topologyVars, serverVars, history, post, disabled, acted, lost, cardVars,
                    localMetrics, dialog>>
    BY <1>5 DEF ShowModel, serverVars
  <2>2. refresh' = [refresh EXCEPT ![r] = [refresh[r] EXCEPT !.stage = "model shown", !.model = 0]]
    BY <1>5 DEF ShowModel
  <2>3. [refresh[r] EXCEPT !.stage = "model shown", !.model = 0] \in R
    BY <1>1
  <2>4. RequestTypes'
    BY <1>1, <2>1, <2>2, <2>3, RefreshTypes
  <2>5. StatusTypes'
    BY <1>1, <1>5, <2>1, StatusShown DEF ShowModel
  <2> QED BY <2>1, <2>4, <2>5, Untouched DEF Types
<1>6. CASE ShowMetrics(r) \/ RefreshFails(r)
  <2>1. UNCHANGED <<topologyVars, serverVars, history, post, disabled, acted, cardVars,
                    model, seen, dialog>>
    BY <1>6 DEF ShowMetrics, RefreshFails, serverVars, statusVars
  <2>2. /\ refresh' = [refresh EXCEPT ![r] = NoRefresh]
        /\ lost' \in BOOLEAN /\ localMetrics' \in BOOLEAN
    BY <1>1, <1>6 DEF ShowMetrics, RefreshFails, statusVars, Types, StatusTypes
  <2>3. NoRefresh \in R
    BY <1>1 DEF NoRefresh
  <2>4. RequestTypes'
    BY <2>1, <2>2, <2>3, RefreshTypes
  <2>5. StatusTypes'
    BY <2>1, <2>2 DEF Types, StatusTypes, Now
  <2> QED BY <2>1, <2>4, <2>5, Untouched DEF Types
<1> QED BY <1>2, <1>3, <1>4, <1>5, <1>6 DEF Refreshing

\* A request that is sent, served or ended.
LEMMA PostTypes ==
  ASSUME Types, NEW s \in Slots, NEW v, UNCHANGED <<history, lost>>,
         v \in [kind : {"none", "load", "unload", "add"},
               stage : {"idle", "sent", "served", "hung"}, at : 0 .. Now],
         post' = [post EXCEPT ![s] = v],
         refresh' = refresh \/ refresh' = [refresh EXCEPT ![s] = NewRefresh],
         disabled' \in BOOLEAN, acted' \in 0 .. Now
  PROVE  RequestTypes'
<1>1. Now' = Now /\ 0 \in 0 .. Now
  BY NowTypes DEF Now
<1>2. refresh' \in [Slots -> [stage : {"idle", "asked", "workers shown", "model shown"},
                             workers : 0 .. Now, model : 0 .. Now]]
  <2> DEFINE R == [stage : {"idle", "asked", "workers shown", "model shown"},
                   workers : 0 .. Now, model : 0 .. Now]
  <2>1. refresh \in [Slots -> R]
    BY DEF Types, RequestTypes
  <2>2. NewRefresh \in R
    BY <1>1 DEF NewRefresh
  <2> HIDE DEF R
  <2>3. refresh' \in [Slots -> R]
    BY <2>1, <2>2
  <2> QED BY <2>3 DEF R
<1>3. post' \in [Slots -> [kind : {"none", "load", "unload", "add"},
                          stage : {"idle", "sent", "served", "hung"}, at : 0 .. Now]]
  BY DEF Types, RequestTypes
<1>4. lost' \in BOOLEAN
  BY DEF Types, RequestTypes
<1> QED BY <1>1, <1>2, <1>3, <1>4, Zenon DEF RequestTypes

LEMMA SendTypes ==
  ASSUME Types, NEW kind \in {"load", "unload", "add"}, Send(kind), disabled' \in BOOLEAN
  PROVE  Types'
<1>1. PICK s \in Slots \ PageBusy :
        post' = [post EXCEPT ![s] = [kind |-> kind, stage |-> "sent", at |-> 0]]
  BY DEF Send
<1>2. UNCHANGED <<topologyVars, serverVars, history, refresh, acted, lost, cardVars, statusVars>>
  BY DEF Send, serverVars
<1>3. 0 \in 0 .. Now /\ acted' \in 0 .. Now
  BY <1>2, NowTypes DEF Types, RequestTypes
<1>4. [kind |-> kind, stage |-> "sent", at |-> 0]
        \in [kind : {"none", "load", "unload", "add"},
             stage : {"idle", "sent", "served", "hung"}, at : 0 .. Now]
  BY <1>3
<1>5. RequestTypes'
  BY <1>1, <1>2, <1>3, <1>4, PostTypes
<1> QED BY <1>2, <1>5, Untouched DEF Types

LEMMA EndTypes ==
  ASSUME Types, NEW s \in Slots, PostAnswered(s) \/ PostFails(s)
  PROVE  Types'
<1>1. /\ post' = [post EXCEPT ![s] = NoPost]
      /\ refresh' = refresh \/ refresh' = [refresh EXCEPT ![s] = NewRefresh]
      /\ disabled' = (disabled /\ post[s].kind # "load")
      /\ acted' = acted \/ acted' = post[s].at
  BY DEF PostAnswered, PostFails
<1>2. UNCHANGED <<topologyVars, serverVars, history, lost, cardVars, statusVars>>
  BY DEF PostAnswered, PostFails, serverVars
<1>3. NoPost \in [kind : {"none", "load", "unload", "add"},
                 stage : {"idle", "sent", "served", "hung"}, at : 0 .. Now]
  BY NowTypes DEF NoPost
<1>4. disabled' \in BOOLEAN
  BY <1>1
<1>5. acted' \in 0 .. Now
  <2>1. post[s].at \in 0 .. Now
    BY DEF Types, RequestTypes
  <2>2. acted \in 0 .. Now
    BY DEF Types, RequestTypes
  <2> QED BY <1>1, <2>1, <2>2
<1>6. RequestTypes'
  BY <1>1, <1>2, <1>3, <1>4, <1>5, PostTypes
<1> QED BY <1>2, <1>6, Untouched DEF Types

LEMMA DialogTypes == ASSUME Types, NEW p, OpenDevice(p) PROVE Types'
<1>1. PICK i \in getNodeAtPosition(p) :
        dialog' = [named |-> nodes[i].device,
                   numbers |-> IF nodes[i].device # Controller \/ localMetrics
                                 THEN nodes[i].device ELSE dialog.numbers]
  BY DEF OpenDevice
<1>2. i \in 1 .. Len(nodes)
  BY DEF getNodeAtPosition, Types, TopologyTypeOK
<1>3. nodes[i].device \in Workers \cup {Controller}
  <2> DEFINE N == [id : {Controller} \cup {NodeId[w] : w \in Workers},
                   device : {Controller} \cup Workers]
  <2>1. nodes \in Seq(N)
    BY DEF Types, TopologyTypeOK
  <2>2. nodes[i] \in N
    <3> HIDE DEF N
    <3> QED BY <1>2, <2>1
  <2> QED BY <2>2
<1>4. UNCHANGED <<topologyVars, serverVars, history, requestVars, cardVars,
                  model, seen, localMetrics>>
  BY DEF OpenDevice, serverVars
<1>5. dialog' \in [named : Workers \cup {Controller},
                  numbers : Workers \cup {Controller, "none"}]
  BY <1>1, <1>3 DEF Types, StatusTypes
<1>6. StatusTypes'
  BY <1>4, <1>5 DEF Types, StatusTypes, Now
<1> QED BY <1>4, <1>6, Untouched DEF Types

LEMMA DrawingTypes == Types /\ (switchTab \/ Frame) => Types'
<1> SUFFICES ASSUME Types, switchTab \/ Frame PROVE Types'
  OBVIOUS
<1>1. /\ UNCHANGED <<nodes, places, nodePositions, serverVars, history, requestVars,
                     cardVars, statusVars>>
      /\ animation' \in {"none", "running", "frozen"}
  BY DEF switchTab, Frame, animate, startAnimation, serverVars, Types, TopologyTypeOK
<1>2. TopologyTypeOK'
  BY <1>1 DEF Types, TopologyTypeOK
<1> QED BY <1>1, <1>2, Untouched DEF Types

\* A request that is served, or hangs.
LEMMA ServedTypes ==
  ASSUME Types, Now < MaxStates, NEW s \in Slots, NEW t \in ServerStates, NEW v,
         history' = Append(history, t), wedged' \in BOOLEAN,
         UNCHANGED <<topologyVars, message, refresh, disabled, acted, lost, cardVars, statusVars>>,
         post' = [post EXCEPT ![s] = v],
         v \in [kind : {"none", "load", "unload", "add"},
                stage : {"idle", "sent", "served", "hung"}, at : 0 .. Now + 1]
  PROVE  Types'
<1>1. ServerTypes' /\ StatusTypes' /\ Now' = Now + 1
  BY LongerHistory
<1>2. Now \in Nat /\ Now' \in 0 .. Now' /\ \A n \in 0 .. Now : n \in 0 .. Now'
  BY <1>1 DEF Types, ServerTypes
<1>3. \A u \in [kind : {"none", "load", "unload", "add"},
                stage : {"idle", "sent", "served", "hung"}, at : 0 .. Now] :
        u \in [kind : {"none", "load", "unload", "add"},
              stage : {"idle", "sent", "served", "hung"}, at : 0 .. Now']
  BY <1>2
<1>4. RequestTypes'
  <2> HIDE DEF Now
  <2>1. post' \in [Slots -> [kind : {"none", "load", "unload", "add"},
                            stage : {"idle", "sent", "served", "hung"}, at : 0 .. Now']]
    BY <1>1, <1>3 DEF Types, RequestTypes
  <2>2. refresh' \in [Slots -> [stage : {"idle", "asked", "workers shown", "model shown"},
                               workers : 0 .. Now', model : 0 .. Now']]
    BY <1>2 DEF Types, RequestTypes
  <2>3. disabled' \in BOOLEAN /\ lost' \in BOOLEAN /\ acted' \in 0 .. Now'
    BY <1>2 DEF Types, RequestTypes
  <2> QED BY <2>1, <2>2, <2>3, Zenon DEF RequestTypes
<1> QED BY <1>1, <1>4, Untouched DEF Types

LEMMA ServerStepTypes ==
  Types /\ (ServerChanges \/ Broadcast \/ \E s \in Slots : ServePost(s) \/ ServeAdd(s)) => Types'
<1> SUFFICES ASSUME Types,
                    ServerChanges \/ Broadcast \/ \E s \in Slots : ServePost(s) \/ ServeAdd(s)
             PROVE  Types'
  OBVIOUS
<1>1. CASE ServerChanges
  <2>1. PICK t \in ServerStates : history' = Append(history, t)
    BY <1>1 DEF ServerChanges, Becomes
  <2>2. /\ Now < MaxStates /\ wedged' \in {wedged, TRUE}
        /\ UNCHANGED <<topologyVars, message, requestVars, cardVars, statusVars>>
    BY <1>1 DEF ServerChanges
  <2>3. wedged' \in BOOLEAN
    BY <2>2 DEF Types, ServerTypes
  <2> QED BY <2>1, <2>2, <2>3, LongerHistory, Untouched DEF Types
<1>2. CASE Broadcast
  <2>1. /\ UNCHANGED <<topologyVars, history, wedged, requestVars, cardVars, statusVars>>
        /\ message' = Now
    BY <1>2 DEF Broadcast
  <2>2. ServerTypes'
    BY <2>1 DEF Types, ServerTypes, Now
  <2> QED BY <2>1, <2>2, Untouched DEF Types
<1>3. ASSUME NEW s \in Slots, ServePost(s) PROVE Types'
  <2>1. PICK t \in ServerStates : history' = Append(history, t)
    BY <1>3 DEF ServePost
  <2>2. /\ Now < MaxStates
        /\ UNCHANGED <<topologyVars, message, wedged, refresh, disabled, acted, lost,
                       cardVars, statusVars>>
        /\ post' = [post EXCEPT ![s] = [post[s] EXCEPT !.stage = "served", !.at = Now + 1]]
    BY <1>3 DEF ServePost
  <2>3. [post[s] EXCEPT !.stage = "served", !.at = Now + 1]
          \in [kind : {"none", "load", "unload", "add"},
               stage : {"idle", "sent", "served", "hung"}, at : 0 .. Now + 1]
    <3>1. Now + 1 \in 0 .. Now + 1
      BY NowTypes
    <3>2. post[s] \in [kind : {"none", "load", "unload", "add"},
                       stage : {"idle", "sent", "served", "hung"}, at : 0 .. Now]
      BY DEF Types, RequestTypes
    <3> HIDE DEF Now
    <3> QED BY <3>1, <3>2
  <2>4. wedged' \in BOOLEAN
    BY <2>2 DEF Types, ServerTypes
  <2> QED BY <2>1, <2>2, <2>3, <2>4, ServedTypes
<1>4. ASSUME NEW s \in Slots, ServeAdd(s) PROVE Types'
  <2>1. PICK t \in ServerStates : history' = Append(history, t)
    BY <1>4 DEF ServeAdd, Becomes
  <2>2. /\ Now < MaxStates /\ wedged' = TRUE
        /\ UNCHANGED <<topologyVars, message, refresh, disabled, acted, lost,
                       cardVars, statusVars>>
        /\ post' = [post EXCEPT ![s] = [post[s] EXCEPT !.stage = "hung"]]
    BY <1>4 DEF ServeAdd
  <2>3. [post[s] EXCEPT !.stage = "hung"]
          \in [kind : {"none", "load", "unload", "add"},
               stage : {"idle", "sent", "served", "hung"}, at : 0 .. Now + 1]
    <3>1. \A n \in 0 .. Now : n \in 0 .. Now + 1
      BY NowTypes
    <3>2. post[s] \in [kind : {"none", "load", "unload", "add"},
                       stage : {"idle", "sent", "served", "hung"}, at : 0 .. Now]
      BY DEF Types, RequestTypes
    <3> HIDE DEF Now
    <3> QED BY <3>1, <3>2
  <2> QED BY <2>1, <2>2, <2>3, ServedTypes
<1> QED BY <1>1, <1>2, <1>3, <1>4

LEMMA NextTypes == Types /\ [PageNext]_pageVars => Types'
<1> SUFFICES ASSUME Types, [PageNext]_pageVars PROVE Types'
  OBVIOUS
<1>1. CASE UNCHANGED pageVars
  <2>1. UNCHANGED <<topologyVars, serverVars, history, requestVars, cardVars, statusVars>>
    BY <1>1 DEF pageVars, serverVars
  <2> QED BY <2>1, Untouched DEF Types
<1>2. CASE Socket
  BY <1>2, SocketTypes
<1>3. CASE onmessage
  BY <1>3, MessageTypes
<1>4. ASSUME NEW s \in Slots, Refreshing(s) \/ RefreshFails(s) PROVE Types'
  BY <1>4, RefreshingTypes
<1>5. ASSUME NEW s \in Slots, PostAnswered(s) \/ PostFails(s) PROVE Types'
  BY <1>5, EndTypes
<1>6. CASE loadModel \/ unloadModel \/ addWorker
  <2>1. disabled' \in BOOLEAN
    BY <1>6 DEF loadModel, unloadModel, addWorker, Types, RequestTypes
  <2> QED BY <1>6, <2>1, SendTypes DEF loadModel, unloadModel, addWorker
<1>7. ASSUME NEW p, OpenDevice(p) PROVE Types'
  BY <1>7, DialogTypes
<1>8. CASE switchTab \/ Frame
  BY <1>8, DrawingTypes
<1>9. CASE ServerChanges \/ Broadcast \/ \E s \in Slots : ServePost(s) \/ ServeAdd(s)
  BY <1>9, ServerStepTypes
<1> QED BY <1>1, <1>2, <1>3, <1>4, <1>5, <1>6, <1>7, <1>8, <1>9 DEF PageNext, User

LEMMA PageTypes == PageSpec => []Types
BY InitTypes, NextTypes, PTL DEF PageSpec

\* Every variable of the page keeps its type.
THEOREM PageTypeCorrect == PageSpec => []PageTypeOK
BY PageTypes, SocketIsReconnect, TypeCorrect, TypesSuffice, PTL
-----------------------------------------------------------------------------
(* The load button.                                                         *)

Loads == {s \in Slots : post[s].kind = "load"}

LoadInv == (\A s, t \in Loads : s = t) /\ (disabled <=> Loads # {})

LEMMA InitLoadInv == PageInit => LoadInv
<1> SUFFICES ASSUME PageInit PROVE LoadInv
  OBVIOUS
<1>1. post = [s \in Slots |-> NoPost] /\ disabled = FALSE
  BY DEF PageInit
<1>2. Loads = {}
  BY <1>1 DEF Loads, NoPost
<1> QED BY <1>1, <1>2 DEF LoadInv

LEMMA SendLoadInv ==
  ASSUME Types, LoadInv, NEW kind \in {"load", "unload", "add"}, Send(kind),
         kind = "load" => ~disabled /\ disabled' = TRUE,
         kind # "load" => UNCHANGED disabled
  PROVE  LoadInv'
<1>1. PICK s \in Slots \ PageBusy :
        post' = [post EXCEPT ![s] = [kind |-> kind, stage |-> "sent", at |-> 0]]
  BY DEF Send
<1>2. post[s].kind = "none" /\ DOMAIN post = Slots
  <2>1. post[s] = NoPost
    BY <1>1 DEF PageBusy
  <2>2. DOMAIN post = Slots
    BY DEF Types, RequestTypes
  <2> QED BY <2>1, <2>2 DEF NoPost
<1>3. Loads' = IF kind = "load" THEN Loads \cup {s} ELSE Loads
  BY <1>1, <1>2 DEF Loads
<1>4. CASE kind = "load"
  <2>1. Loads = {} /\ disabled' = TRUE
    BY <1>4 DEF LoadInv
  <2>2. Loads' = {s}
    BY <1>3, <1>4, <2>1
  <2> QED BY <2>1, <2>2 DEF LoadInv
<1>5. CASE kind # "load"
  BY <1>3, <1>5 DEF LoadInv
<1> QED BY <1>4, <1>5

\* The end of a request frees the button if it was a load.
LEMMA EndLoadInv ==
  ASSUME Types, LoadInv, NEW s \in Slots, PostAnswered(s) \/ PostFails(s)
  PROVE  LoadInv'
<1>1. /\ post' = [post EXCEPT ![s] = NoPost]
      /\ disabled' = (disabled /\ post[s].kind # "load")
  BY DEF PostAnswered, PostFails
<1>2. DOMAIN post = Slots
  BY DEF Types, RequestTypes
<1>3. Loads' = Loads \ {s}
  BY <1>1, <1>2 DEF Loads, NoPost
<1>4. disabled' <=> disabled /\ s \notin Loads
  BY <1>1 DEF Loads
<1> QED BY <1>3, <1>4 DEF LoadInv

LEMMA NextLoadInv == Types /\ LoadInv /\ [PageNext]_pageVars => LoadInv'
<1> SUFFICES ASSUME Types, LoadInv, [PageNext]_pageVars PROVE LoadInv'
  OBVIOUS
<1>1. CASE UNCHANGED <<post, disabled>>
  BY <1>1 DEF LoadInv, Loads
<1>2. CASE loadModel \/ unloadModel \/ addWorker
  <2>1. CASE loadModel
    BY <2>1, SendLoadInv DEF loadModel
  <2>2. CASE unloadModel
    BY <2>2, SendLoadInv DEF unloadModel
  <2>3. CASE addWorker
    BY <2>3, SendLoadInv DEF addWorker
  <2> QED BY <1>2, <2>1, <2>2, <2>3
<1>3. ASSUME NEW s \in Slots, PostAnswered(s) \/ PostFails(s) PROVE LoadInv'
  BY <1>3, EndLoadInv
<1>4. ASSUME NEW s \in Slots, ServePost(s) \/ ServeAdd(s) PROVE LoadInv'
  <2>1. /\ \/ post' = [post EXCEPT ![s].stage = "served", ![s].at = Now + 1]
           \/ post' = [post EXCEPT ![s].stage = "hung"]
        /\ UNCHANGED disabled
    BY <1>4 DEF ServePost, ServeAdd
  <2>2. \A t \in Slots : post'[t].kind = post[t].kind
    <3>1. CASE post' = [post EXCEPT ![s].stage = "served", ![s].at = Now + 1]
      BY <3>1 DEF Types, RequestTypes
    <3>2. CASE post' = [post EXCEPT ![s].stage = "hung"]
      BY <3>2 DEF Types, RequestTypes
    <3> QED BY <2>1, <3>1, <3>2
  <2>3. Loads' = Loads
    BY <2>2 DEF Loads
  <2> QED BY <2>1, <2>3 DEF LoadInv
<1>5. \/ UNCHANGED <<post, disabled>> \/ loadModel \/ unloadModel \/ addWorker
      \/ \E s \in Slots : PostAnswered(s) \/ PostFails(s) \/ ServePost(s) \/ ServeAdd(s)
  <2>1. CASE UNCHANGED pageVars
    BY <2>1 DEF pageVars, requestVars
  <2>2. CASE Socket \/ onmessage \/ switchTab \/ Frame \/ ServerChanges \/ Broadcast
    BY <2>2 DEF Socket, onmessage, switchTab, Frame, ServerChanges, Broadcast, requestVars
  <2>3. ASSUME NEW s \in Slots, Refreshing(s) \/ RefreshFails(s)
        PROVE  UNCHANGED <<post, disabled>>
    BY <2>3 DEF Refreshing, AnswerWorkers, AnswerModel, ShowWorkers, ShowModel,
                ShowMetrics, RefreshFails
  <2>4. ASSUME NEW p, OpenDevice(p) PROVE UNCHANGED <<post, disabled>>
    BY <2>4 DEF OpenDevice, requestVars
  <2> QED BY <2>1, <2>2, <2>3, <2>4 DEF PageNext, User
<1> QED BY <1>1, <1>2, <1>3, <1>4, <1>5

\* The load button is disabled exactly while a load is under way, so a page
\* never has two.
THEOREM LoadsOneByOne == PageSpec => []OneLoadAtATime
<1>1. Types /\ LoadInv => OneLoadAtATime
  <2> SUFFICES ASSUME Types, LoadInv PROVE OneLoadAtATime
    OBVIOUS
  <2>1. Cardinality(Loads) <= 1
    <3>1. CASE Loads = {}
      BY <3>1, FS_EmptySet
    <3>2. CASE Loads # {}
      <4>1. PICK s \in Loads : TRUE
        BY <3>2
      <4>2. Loads = {s}
        BY <4>1 DEF LoadInv
      <4> QED BY <4>2, FS_Singleton
    <3> QED BY <3>1, <3>2
  <2>2. disabled = (Loads # {})
    <3>1. disabled \in BOOLEAN
      BY DEF Types, RequestTypes
    <3> QED BY <3>1 DEF LoadInv
  <2> QED BY <2>1, <2>2, Zenon DEF Loads, OneLoadAtATime
<1> QED BY <1>1, InitLoadInv, NextLoadInv, PageTypes, PTL DEF PageSpec
-----------------------------------------------------------------------------
(* The graph.                                                               *)

Misnames(list) == \E i \in 1 .. Len(list) : NodeId[list[i]] = Controller

LaidOut ==
  /\ nodes = Nodes(workers)
  /\ places = Places(nodes)
  /\ nodePositions = Positions(nodes)

GraphInv ==
  /\ LaidOut \/ (nodes = <<>> /\ DOMAIN places = {})
  /\ misnamed \/ (~Misnames(workers) /\ animation # "frozen")
  /\ LaidOut => misnamed \/ (count = Len(workers) /\ animation = "running")

LEMMA ListIsDrawable ==
  ASSUME NEW list \in Seq(Workers), ~Misnames(list)
  PROVE  Drawable(Nodes(list), Places(Nodes(list)))
<1> DEFINE ns == Nodes(list)
<1>1. Len(list) \in Nat /\ Len(ns) = Len(list) + 1
  BY NodesOfList
<1>2. \A i \in 2 .. Len(ns) : ns[i].id # Controller
  <2> SUFFICES ASSUME NEW i \in 2 .. Len(ns) PROVE ns[i].id # Controller
    OBVIOUS
  <2>1. i - 1 \in 1 .. Len(list) /\ i \in 2 .. Len(list) + 1
    BY <1>1
  <2>2. ns[i] = [id |-> NodeId[list[i - 1]], device |-> list[i - 1]]
    BY <2>1, NodesOfList
  <2> QED BY <2>1, <2>2 DEF Misnames
<1>3. DOMAIN Places(ns) = {1} \cup {i \in 2 .. Len(ns) : ns[i].id # Controller}
  BY DEF Places, Placed
<1> HIDE DEF ns
<1>4. \A i \in 1 .. Len(ns) : i = 1 \/ i \in 2 .. Len(ns)
  BY <1>1
<1>5. Drawable(ns, Places(ns))
  BY <1>2, <1>3, <1>4 DEF Drawable
<1> QED BY <1>5 DEF ns

LEMMA InitGraphInv == PageInit => GraphInv
<1> SUFFICES ASSUME PageInit PROVE GraphInv
  OBVIOUS
<1>1. workers = <<>> /\ count = 0
  BY DEF PageInit
<1>2. nodes = <<>> /\ DOMAIN places = {} /\ animation = "none"
  BY DEF PageInit, TopologyInit
<1>3. ~LaidOut
  <2>1. Len(Nodes(<<>>)) = Len(<<>>) + 1
    BY EmptySeq, NodesOfList
  <2> QED BY <1>1, <1>2, <2>1 DEF LaidOut
<1>4. ~Misnames(workers)
  BY <1>1 DEF Misnames
<1> QED BY <1>2, <1>3, <1>4 DEF GraphInv

LEMMA UpdateGraphInv ==
  ASSUME Types, GraphInv, NEW list \in Seq(Workers), updateWorkers(list)
  PROVE  GraphInv'
<1>1. /\ workers' = list /\ nodes' = Nodes(list) /\ places' = Places(nodes')
      /\ nodePositions' = Positions(nodes') /\ startAnimation(nodes', places')
      /\ count' = IF Throws(list) THEN count ELSE Len(list)
      /\ misnamed' = (misnamed \/ Misnames(list))
  BY DEF updateWorkers, update, Misnames
<1>2. LaidOut'
  BY <1>1 DEF LaidOut
<1>3. CASE misnamed'
  BY <1>2, <1>3 DEF GraphInv
<1>4. CASE ~misnamed'
  <2>1. ~misnamed /\ ~Misnames(list)
    BY <1>1, <1>4
  <2>2. Drawable(nodes', places')
    BY <1>1, <2>1, ListIsDrawable
  <2>3. animation # "frozen" /\ animation \in {"none", "running", "frozen"}
    BY <2>1 DEF GraphInv, Types, TopologyTypeOK
  <2>4. animation' = "running"
    BY <1>1, <2>2, <2>3 DEF startAnimation
  <2>5. ~Throws(list)
    BY <1>1, <2>2 DEF Throws, StartThrows
  <2>6. ~Misnames(workers')
    BY <1>1, <2>1
  <2> QED BY <1>1, <1>2, <2>4, <2>5, <2>6 DEF GraphInv
<1> QED BY <1>3, <1>4

\* The loop of frames stops on what cannot be drawn only.
LEMMA FrameGraphInv ==
  ASSUME Types, GraphInv, Frame \/ switchTab
  PROVE  GraphInv'
<1>1. UNCHANGED <<nodes, places, nodePositions, workers, count, misnamed>>
  BY DEF Frame, animate, switchTab, cardVars
<1>2. LaidOut' = LaidOut /\ Misnames(workers') = Misnames(workers)
  BY <1>1 DEF LaidOut
<1>3. CASE misnamed
  BY <1>1, <1>2, <1>3 DEF GraphInv
<1>4. CASE ~misnamed
  <2>1. Drawable(nodes, places)
    <3>1. CASE LaidOut
      BY <1>4, <3>1, ListIsDrawable DEF GraphInv, LaidOut, Types, CardTypes
    <3>2. CASE nodes = <<>>
      BY <3>2 DEF Drawable
    <3> QED BY <3>1, <3>2 DEF GraphInv
  <2>2. animation' = animation \/ animation' = "running"
    BY <2>1 DEF Frame, animate, switchTab, startAnimation
  <2>3. ~Misnames(workers) /\ animation # "frozen"
    BY <1>4 DEF GraphInv
  <2>4. LaidOut => count = Len(workers) /\ animation = "running"
    BY <1>4 DEF GraphInv
  <2> QED BY <1>1, <1>2, <2>2, <2>3, <2>4 DEF GraphInv
<1> QED BY <1>3, <1>4

LEMMA NextGraphInv == Types /\ GraphInv /\ [PageNext]_pageVars => GraphInv'
<1> SUFFICES ASSUME Types, GraphInv, [PageNext]_pageVars PROVE GraphInv'
  OBVIOUS
<1>1. CASE UNCHANGED <<topologyVars, cardVars>>
  BY <1>1 DEF topologyVars, cardVars, GraphInv, LaidOut, Misnames
<1>2. CASE onmessage
  <2>1. history[message].list \in Seq(Workers)
    BY <1>2, ListOfState DEF onmessage, Types, ServerTypes
  <2> QED BY <1>2, <2>1, UpdateGraphInv DEF onmessage
<1>3. ASSUME NEW r \in Slots, ShowWorkers(r) PROVE GraphInv'
  <2>1. refresh[r].workers \in 0 .. Now /\ refresh[r].workers # 0
    BY <1>3 DEF ShowWorkers, Types, RequestTypes
  <2>2. history[refresh[r].workers].list \in Seq(Workers)
    BY <2>1, ListOfState DEF Types
  <2> QED BY <1>3, <2>2, UpdateGraphInv DEF ShowWorkers
<1>4. CASE Frame \/ switchTab
  BY <1>4, FrameGraphInv
<1>5. \/ UNCHANGED <<topologyVars, cardVars>> \/ onmessage \/ Frame \/ switchTab
      \/ \E r \in Slots : ShowWorkers(r)
  <2>1. CASE UNCHANGED pageVars
    BY <2>1 DEF pageVars
  <2>2. CASE Socket \/ ServerChanges \/ Broadcast \/ loadModel \/ unloadModel \/ addWorker
    BY <2>2 DEF Socket, ServerChanges, Broadcast, loadModel, unloadModel, addWorker, Send
  <2>3. ASSUME NEW s \in Slots, ~ShowWorkers(s),
               \/ Refreshing(s) \/ RefreshFails(s)
               \/ ServePost(s) \/ ServeAdd(s) \/ PostAnswered(s) \/ PostFails(s)
        PROVE  UNCHANGED <<topologyVars, cardVars>>
    BY <2>3 DEF Refreshing, AnswerWorkers, AnswerModel, ShowModel, ShowMetrics,
                RefreshFails, ServePost, ServeAdd, PostAnswered, PostFails
  <2>4. ASSUME NEW p, OpenDevice(p) PROVE UNCHANGED <<topologyVars, cardVars>>
    BY <2>4 DEF OpenDevice
  <2> QED BY <2>1, <2>2, <2>3, <2>4 DEF PageNext, User
<1> QED BY <1>1, <1>2, <1>3, <1>4, <1>5

LEMMA PageGraph == PageSpec => []GraphInv
BY PageTypes, InitGraphInv, NextGraphInv, PTL DEF PageSpec

\* Cards, graph and count show one list, frame after frame, until a worker has
\* the controller's name.
THEOREM ViewsAgree == PageSpec => []ViewsAgreeUnlessMisnamed
<1>1. GraphInv => ViewsAgreeUnlessMisnamed
  BY DEF GraphInv, LaidOut, ViewsAgreeUnlessMisnamed
<1> QED BY <1>1, PageGraph, PTL

-----------------------------------------------------------------------------
(* What was asked for is shown.                                             *)

\* A refresh that will show the newest state an answered request led to: the
\* model is yet to be asked for, or its answer is that new.
Brings(r) ==
  \/ refresh[r].stage = "asked" /\ (refresh[r].model = 0 \/ acted <= refresh[r].model)
  \/ refresh[r].stage = "workers shown" /\ acted <= refresh[r].model

EffectOnItsWay == acted <= seen \/ lost \/ misnamed \/ \E r \in Slots : Brings(r)

\* Only an ill-named worker makes the first drawing throw.
LEMMA ThrowsAtMisnamed ==
  ASSUME NEW list \in Seq(Workers), Throws(list)
  PROVE  Misnames(list)
BY ListIsDrawable DEF Throws, StartThrows

\* Snapshots are numbers of states that have been.
LEMMA SnapshotTypes ==
  ASSUME Types
  PROVE  /\ acted \in Nat /\ seen \in Nat /\ message \in Nat /\ Now \in Nat
         /\ acted <= Now
         /\ \A r \in Slots : refresh[r].model \in Nat /\ refresh[r].workers \in 0 .. Now
<1>1. Now \in Nat
  BY NowTypes
<1>2. acted \in 0 .. Now /\ seen \in 0 .. Now /\ message \in 0 .. Now
  BY DEF Types, RequestTypes, StatusTypes, ServerTypes
<1>3. \A r \in Slots : refresh[r].model \in 0 .. Now /\ refresh[r].workers \in 0 .. Now
  BY DEF Types, RequestTypes
<1> HIDE DEF Now
<1> QED BY <1>1, <1>2, <1>3

LEMMA EffectKept ==
  ASSUME Types, EffectOnItsWay, UNCHANGED <<acted, refresh>>,
         seen' \in Nat, seen <= seen', lost => lost', misnamed => misnamed'
  PROVE  EffectOnItsWay'
<1>1. acted \in Nat /\ seen \in Nat
  BY SnapshotTypes
<1>2. \A r \in Slots : Brings(r)' = Brings(r)
  BY DEF Brings
<1> QED BY <1>1, <1>2 DEF EffectOnItsWay

\* The newest state of the model that was shown only grows.
LEMMA SeenGrows ==
  ASSUME Types, NEW n, n \in Nat, NEW running, updateModelStatus(n, running)
  PROVE  seen' \in Nat /\ seen <= seen' /\ n <= seen'
<1>1. seen' = IF n > seen THEN n ELSE seen
  BY Zenon DEF updateModelStatus
<1> QED BY <1>1, SnapshotTypes

\* A refresh goes on: what it brings is at least as new as when it was asked
\* for, and in the end it is shown.
LEMMA RefreshingEffect ==
  ASSUME Types, EffectOnItsWay, NEW r \in Slots, Refreshing(r)
  PROVE  EffectOnItsWay'
<1>1. /\ acted \in Nat /\ seen \in Nat /\ Now \in Nat /\ acted <= Now
      /\ \A k \in Slots : refresh[k].model \in Nat /\ refresh[k].workers \in 0 .. Now
  BY SnapshotTypes
<1>2. /\ \A v : /\ [refresh EXCEPT ![r] = v][r] = v
                /\ \A k \in Slots \ {r} : [refresh EXCEPT ![r] = v][k] = refresh[k]
      /\ DOMAIN refresh[r] = {"stage", "workers", "model"}
  BY DEF Types, RequestTypes
<1>3. acted' = acted /\ (misnamed => misnamed') /\ (lost => lost')
  <2>1. CASE ShowWorkers(r)
    BY <2>1 DEF ShowWorkers, updateWorkers
  <2>2. CASE ~ShowWorkers(r)
    <3>1. UNCHANGED <<acted, lost, misnamed>>
      BY <2>2 DEF Refreshing, AnswerWorkers, AnswerModel, ShowModel, ShowMetrics, cardVars
    <3> QED BY <3>1
  <2> QED BY <2>1, <2>2
<1>4. seen' \in Nat /\ seen <= seen'
  <2>1. CASE ShowModel(r)
    BY <1>1, <2>1, SeenGrows DEF ShowModel
  <2>2. CASE ~ShowModel(r)
    <3>1. seen' = seen
      BY <2>2 DEF Refreshing, AnswerWorkers, AnswerModel, ShowWorkers,
                  ShowMetrics, statusVars
    <3> QED BY <1>1, <3>1
  <2> QED BY <2>1, <2>2
<1>5. CASE acted <= seen
  BY <1>1, <1>3, <1>4, <1>5 DEF EffectOnItsWay
<1>6. CASE lost \/ misnamed
  BY <1>3, <1>6 DEF EffectOnItsWay
<1>7. ASSUME NEW k \in Slots \ {r}, Brings(k) PROVE EffectOnItsWay'
  <2>1. refresh'[k] = refresh[k]
    <3>1. PICK v : refresh' = [refresh EXCEPT ![r] = v]
      BY DEF Refreshing, AnswerWorkers, AnswerModel, ShowWorkers, ShowModel, ShowMetrics
    <3> QED BY <1>2, <3>1
  <2> QED BY <1>3, <1>7, <2>1 DEF EffectOnItsWay, Brings
<1>8. CASE Brings(r)
  <2>1. CASE AnswerWorkers(r)
    <3>1. refresh' = [refresh EXCEPT ![r] = [refresh[r] EXCEPT !.workers = Now]]
      BY <2>1 DEF AnswerWorkers
    <3>2. refresh'[r].stage = refresh[r].stage /\ refresh'[r].model = refresh[r].model
      BY <1>2, <3>1
    <3> QED BY <1>3, <1>8, <3>2 DEF Brings, EffectOnItsWay
  <2>2. CASE AnswerModel(r)
    <3>1. /\ refresh' = [refresh EXCEPT ![r] = [refresh[r] EXCEPT !.model = Now]]
          /\ refresh[r].stage = "asked"
      BY <2>2 DEF AnswerModel
    <3>2. refresh'[r].stage = "asked" /\ refresh'[r].model = Now
      BY <1>2, <3>1
    <3> QED BY <1>1, <1>3, <3>2 DEF Brings, EffectOnItsWay
  <2>3. CASE ShowWorkers(r)
    <3> DEFINE list == history[refresh[r].workers].list
    <3>1. list \in Seq(Workers)
      BY <1>1, <2>3, ListOfState DEF ShowWorkers, Types
    <3>2. CASE Throws(list)
      <4>1. Misnames(list)
        BY <3>1, <3>2, ThrowsAtMisnamed
      <4>2. misnamed'
        BY <2>3, <4>1 DEF ShowWorkers, updateWorkers, Misnames
      <4> QED BY <4>2 DEF EffectOnItsWay
    <3>3. CASE ~Throws(list)
      <4>1. refresh' = [refresh EXCEPT
                          ![r] = [refresh[r] EXCEPT !.stage = "workers shown", !.workers = 0]]
        BY <2>3, <3>3 DEF ShowWorkers, Types, RequestTypes
      <4>2. refresh'[r].stage = "workers shown" /\ refresh'[r].model = refresh[r].model
        BY <1>2, <4>1
      <4>3. refresh[r].stage = "asked" /\ refresh[r].model # 0
        BY <2>3 DEF ShowWorkers
      <4> QED BY <1>3, <1>8, <4>2, <4>3 DEF Brings, EffectOnItsWay
    <3> QED BY <3>2, <3>3
  <2>4. CASE ShowModel(r)
    <3>1. acted <= refresh[r].model
      BY <1>8, <2>4 DEF Brings, ShowModel
    <3>2. refresh[r].model <= seen'
      BY <1>1, <2>4, SeenGrows DEF ShowModel
    <3>3. acted' <= seen'
      BY <1>1, <1>3, <1>4, <3>1, <3>2
    <3> QED BY <3>3 DEF EffectOnItsWay
  <2>5. ~ShowMetrics(r)
    BY <1>8 DEF Brings, ShowMetrics
  <2> QED BY <2>1, <2>2, <2>3, <2>4, <2>5 DEF Refreshing
<1> QED BY <1>5, <1>6, <1>7, <1>8 DEF EffectOnItsWay

LEMMA NextEffect == Types /\ EffectOnItsWay /\ [PageNext]_pageVars => EffectOnItsWay'
<1> SUFFICES ASSUME Types, EffectOnItsWay, [PageNext]_pageVars PROVE EffectOnItsWay'
  OBVIOUS
<1>0. seen \in Nat /\ message \in Nat
  BY SnapshotTypes
<1>1. CASE onmessage
  <2>1. updateModelStatus(message, FALSE) => seen' \in Nat /\ seen <= seen'
    BY <1>0, SeenGrows
  <2>2. misnamed => misnamed'
    BY <1>1 DEF onmessage, updateWorkers
  <2>3. UNCHANGED requestVars
    BY <1>1 DEF onmessage
  <2>4. seen' \in Nat /\ seen <= seen'
    <3>1. seen' = seen \/ updateModelStatus(message, FALSE)
      BY <1>1 DEF onmessage
    <3>2. seen' = seen => seen' \in Nat /\ seen <= seen'
      BY <1>0
    <3> QED BY <2>1, <3>1, <3>2
  <2> QED BY <2>2, <2>3, <2>4, EffectKept DEF requestVars
<1>2. ASSUME NEW r \in Slots, Refreshing(r) PROVE EffectOnItsWay'
  BY <1>2, RefreshingEffect
<1>3. ASSUME NEW r \in Slots, RefreshFails(r) PROVE EffectOnItsWay'
  BY <1>3 DEF RefreshFails, EffectOnItsWay
<1>4. ASSUME NEW s \in Slots, PostAnswered(s) PROVE EffectOnItsWay'
  <2>1. refresh'[s] = NewRefresh
    BY <1>4 DEF PostAnswered, Types, RequestTypes
  <2>2. Brings(s)'
    BY <2>1 DEF NewRefresh, Brings
  <2> QED BY <2>2 DEF EffectOnItsWay
<1>5. CASE UNCHANGED <<acted, refresh, seen, lost, misnamed>>
  BY <1>0, <1>5, EffectKept
<1>6. \/ onmessage \/ UNCHANGED <<acted, refresh, seen, lost, misnamed>>
      \/ \E r \in Slots : Refreshing(r) \/ RefreshFails(r) \/ PostAnswered(r)
  <2>1. CASE UNCHANGED pageVars
    BY <2>1 DEF pageVars, requestVars, cardVars, statusVars
  <2>2. CASE Socket \/ switchTab \/ Frame \/ ServerChanges \/ Broadcast
             \/ loadModel \/ unloadModel \/ addWorker
    BY <2>2 DEF Socket, switchTab, Frame, ServerChanges, Broadcast, loadModel,
                unloadModel, addWorker, Send, requestVars, cardVars, statusVars
  <2>3. ASSUME NEW s \in Slots, ServePost(s) \/ ServeAdd(s) \/ PostFails(s)
        PROVE  UNCHANGED <<acted, refresh, seen, lost, misnamed>>
    BY <2>3 DEF ServePost, ServeAdd, PostFails, cardVars, statusVars
  <2>4. ASSUME NEW p, OpenDevice(p)
        PROVE  UNCHANGED <<acted, refresh, seen, lost, misnamed>>
    BY <2>4 DEF OpenDevice, requestVars, cardVars
  <2> QED BY <2>1, <2>2, <2>3, <2>4 DEF PageNext, User
<1> QED BY <1>1, <1>2, <1>3, <1>4, <1>5, <1>6

\* Once no refresh is under way the page has shown what every answered request
\* led to, unless a refresh failed or broke off at an ill-named worker.
THEOREM EffectsShown == PageSpec => []ShownAtRest
<1>1. PageInit => EffectOnItsWay
  BY DEF PageInit, EffectOnItsWay
<1>2. PageSpec => []EffectOnItsWay
  BY <1>1, NextEffect, PageTypes, PTL DEF PageSpec
<1>3. EffectOnItsWay => ShownAtRest
  <2>1. \A r \in Slots : refresh[r] = NoRefresh => ~Brings(r)
    BY DEF Brings, NoRefresh
  <2> QED BY <2>1 DEF EffectOnItsWay, ShownAtRest
<1> QED BY <1>2, <1>3, PTL
-----------------------------------------------------------------------------
(* The device dialog and the edges.                                         *)

\* Two nodes at one place are one node.
LEMMA PlacesApart ==
  ASSUME Types, GraphInv, NEW i \in DOMAIN places, NEW j \in DOMAIN places,
         places[i] = places[j]
  PROVE  i = j
<1>1. LaidOut /\ workers \in Seq(Workers)
  BY DEF GraphInv, Types, CardTypes
<1>2. Len(nodes) >= 1 /\ nodes \in Seq([id : {Controller} \cup {NodeId[w] : w \in Workers},
                                      device : {Controller} \cup Workers])
  <2>1. Len(Nodes(workers)) = Len(workers) + 1 /\ Len(workers) \in Nat
    BY <1>1, NodesOfList
  <2>2. Len(nodes) >= 1
    BY <1>1, <2>1 DEF LaidOut
  <2> QED BY <2>2 DEF Types, TopologyTypeOK
<1> QED BY <1>1, <1>2, PlacesOfNodes DEF LaidOut

\* A worker with a name of its own has its own edge, and no node hides another.
THEOREM EdgesJoin == PageSpec => []NamedApartIsJoined
<1>1. Types /\ GraphInv => NamedApartIsJoined
  <2> SUFFICES ASSUME Types, GraphInv PROVE NamedApartIsJoined
    OBVIOUS
  <2>1. ASSUME NEW i \in 2 .. Len(nodes), \A j \in 1 .. Len(nodes) : nodes[j].id = nodes[i].id => j = i
        PROVE  EdgeEnd(i) = i
    <3>1. LaidOut /\ workers \in Seq(Workers)
      <4>1. nodes # <<>>
        BY <2>1
      <4> QED BY <4>1 DEF GraphInv, Types, CardTypes
    <3>2. /\ Len(workers) \in Nat /\ Len(nodes) = Len(workers) + 1
          /\ nodes[1].id = Controller
      <4>1. Len(Nodes(workers)) = Len(workers) + 1
            /\ Nodes(workers)[1] = [id |-> Controller, device |-> Controller]
        BY <3>1, NodesOfList
      <4> QED BY <3>1, <4>1 DEF LaidOut
    <3>3. 1 \in 1 .. Len(nodes) /\ i \in 1 .. Len(nodes) /\ i # 1
      BY <3>2
    <3>4. nodes[i].id # Controller
      BY <2>1, <3>2, <3>3
    <3>5. 1 \in Placed(nodes) /\ i \in Placed(nodes)
      BY <3>4 DEF Placed
    <3>6. nodes \in Seq([id : {Controller} \cup {NodeId[w] : w \in Workers},
                        device : {Controller} \cup Workers]) /\ Len(nodes) >= 1
      BY <3>2 DEF Types, TopologyTypeOK
    <3>7. {Controller, nodes[i].id} \subseteq DOMAIN nodePositions
      <4>1. DOMAIN nodePositions = {nodes[j].id : j \in Placed(nodes)}
        BY <3>1, <3>6, PositionsOfNodes DEF LaidOut
      <4> QED BY <3>2, <3>5, <4>1
    <3>8. nodePositions[nodes[i].id] \in Placed(nodes)
          /\ nodes[nodePositions[nodes[i].id]].id = nodes[i].id
      BY <3>1, <3>6, <3>7, PositionsOfNodes DEF LaidOut
    <3>9. nodePositions[nodes[i].id] = i
      BY <2>1, <3>6, <3>8, PlacesOfNodes
    <3> QED BY <3>7, <3>9 DEF EdgeEnd
  <2>2. \A i, j \in DOMAIN places : places[i] = places[j] => i = j
    BY PlacesApart
  <2> QED BY <2>1, <2>2 DEF NamedApartIsJoined
<1> QED BY <1>1, PageTypes, PageGraph, PTL

\* The dialog shows the numbers of the device that was clicked.
THEOREM DialogHonest == PageSpec => DialogIsOfDevice
<1> DEFINE Honest ==
      \A i \in DOMAIN places :
        OpenDevice(places[i]) => \/ dialog'.numbers = nodes[i].device
                                 \/ i = 1 /\ ~localMetrics
<1>1. Types /\ GraphInv /\ [PageNext]_pageVars => [Honest]_pageVars
  <2> SUFFICES ASSUME Types, GraphInv, NEW i \in DOMAIN places, OpenDevice(places[i])
               PROVE  \/ dialog'.numbers = nodes[i].device
                      \/ i = 1 /\ ~localMetrics
    OBVIOUS
  <2>1. PICK k \in getNodeAtPosition(places[i]) :
          dialog' = [named |-> nodes[k].device,
                     numbers |-> IF nodes[k].device # Controller \/ localMetrics
                                   THEN nodes[k].device ELSE dialog.numbers]
    BY DEF OpenDevice
  <2>2. k = i
    BY PlacesApart DEF getNodeAtPosition
  <2>3. i # 1 => nodes[i].device # Controller
    <3> SUFFICES ASSUME i # 1 PROVE nodes[i].device # Controller
      OBVIOUS
    <3>1. LaidOut /\ workers \in Seq(Workers)
      BY DEF GraphInv, Types, CardTypes
    <3>2. Len(workers) \in Nat /\ Len(nodes) = Len(workers) + 1
      <4>1. Len(Nodes(workers)) = Len(workers) + 1
        BY <3>1, NodesOfList
      <4> QED BY <3>1, <4>1 DEF LaidOut
    <3>3. i \in 1 .. Len(nodes)
      BY DEF Types, TopologyTypeOK
    <3>4. i \in 2 .. Len(workers) + 1 /\ i - 1 \in 1 .. Len(workers)
      BY <3>2, <3>3
    <3>5. nodes[i].device = workers[i - 1]
      <4>1. Nodes(workers)[i] = [id |-> NodeId[workers[i - 1]], device |-> workers[i - 1]]
        BY <3>1, <3>4, NodesOfList
      <4> QED BY <3>1, <4>1 DEF LaidOut
    <3>6. workers[i - 1] \in Workers
      BY <3>1, <3>4
    <3> QED BY <3>5, <3>6, WorkersAssumption
  <2> QED BY <2>1, <2>2, <2>3
<1>2. PageSpec => [][Honest]_pageVars
  BY <1>1, PageTypes, PageGraph, PTL DEF PageSpec
<1> QED BY <1>2 DEF DialogIsOfDevice
=============================================================================
