------------------------------ MODULE Dashboard ------------------------------
(* The page (webfs/web/ui/js/app.js) around its socket and its graph: what it *)
(* shows of workers and model comes from refreshes (fetchInitialData), asked  *)
(* for when it loads and after each request of the user, and from broadcasts. *)
(* A refresh is three requests, answered in any order and applied one after   *)
(* another once all are there; nothing compares the age of what they bring.   *)
(* The server is a history of states: a snapshot is the number of the state   *)
(* it was taken of.  A slot holds a request of the user until it is answered, *)
(* or a refresh until it has ended.  Adding a worker hangs, and with it every *)
(* request that needs the API mutex (ApiServer).                              *)
(* MaxStates bounds the history, Slots what is under way at once.             *)
EXTENDS Reconnect, Topology

CONSTANTS ServerStates,  \* what the server may report
          Slots, MaxStates

ASSUME ServerStatesAssumption ==
  ServerStates \subseteq [list : Seq(Workers), path : BOOLEAN,
                          loaded : BOOLEAN, running : BOOLEAN]
ASSUME MaxStatesAssumption == MaxStates \in Nat \ {0}

VARIABLES history,       \* the states the server has been in
          message,       \* the broadcast under way to the open sockets, or 0
          wedged,        \* the API mutex is lost, for ever
          post,          \* slots of requests: kind, stage, the state they led to
          refresh,       \* slots of refreshes: stage and snapshots
          disabled,      \* the load button
          workers,       \* this.workers, which are the cards
          count,         \* the number of workers shown
          model,         \* the model's state shown, and its snapshot
          localMetrics,  \* the controller's metrics have been shown
          dialog,        \* the device named, and the one whose numbers are shown
          misnamed,      \* history: a worker with the controller's name was listed
          acted,         \* history: newest state an answered request led to
          seen,          \* history: newest state of the model ever shown
          lost           \* history: a refresh has failed

serverVars == <<history, message, wedged>>
requestVars == <<post, refresh, disabled, acted, lost>>
cardVars == <<workers, count, misnamed>>
statusVars == <<model, seen, localMetrics, dialog>>
pageVars == <<vars, topologyVars, serverVars, requestVars, cardVars, statusVars>>

NoPost == [kind |-> "none", stage |-> "idle", at |-> 0]
NoRefresh == [stage |-> "idle", workers |-> 0, model |-> 0]
NewRefresh == [stage |-> "asked", workers |-> 0, model |-> 0]

Now == Len(history)
PageBusy == {s \in Slots : post[s] # NoPost \/ refresh[s] # NoRefresh}

\* init: the graph, the socket and the first refresh.
PageInit ==
  /\ Init
  /\ TopologyInit
  /\ \E s \in ServerStates : history = <<s>>
  /\ message = 0
  /\ wedged = FALSE
  /\ post = [s \in Slots |-> NoPost]
  /\ \E s \in Slots : refresh = [r \in Slots |-> IF r = s THEN NewRefresh ELSE NoRefresh]
  /\ disabled = FALSE
  /\ workers = <<>>
  /\ count = 0
  /\ model = [is |-> "none", at |-> 0]
  /\ localMetrics = FALSE
  /\ dialog = [named |-> Controller, numbers |-> "none"]
  /\ misnamed = FALSE
  /\ acted = 0
  /\ seen = 0
  /\ lost = FALSE
-----------------------------------------------------------------------------
(* What is shown.                                                           *)

Throws(list) == StartThrows(Nodes(list), Places(Nodes(list)))

\* The cards and the graph change before the first drawing may throw, the
\* number of workers only after it.
updateWorkers(list) ==
  /\ workers' = list
  /\ update(list)
  /\ startAnimation(nodes', places')
  /\ count' = IF Throws(list) THEN count ELSE Len(list)
  /\ misnamed' = (misnamed \/ \E i \in 1 .. Len(list) : NodeId[list[i]] = Controller)

\* Of a broadcast the page reads "path" and "loaded"; GET /api/model has
\* "running" as well.
updateModelStatus(n, running) ==
  LET up == history[n].loaded \/ running
  IN  /\ model' = [is |-> CASE up -> "Running"
                            [] ~up /\ history[n].path -> "Loaded"
                            [] OTHER -> "Not loaded",
                   at |-> n]
      /\ seen' = IF n > seen THEN n ELSE seen

\* An exception of updateWorkers leaves the model's state as it was.
onmessage ==
  /\ message # 0
  /\ open > 0
  /\ updateWorkers(history[message].list)
  /\ IF Throws(history[message].list)
       THEN UNCHANGED <<model, seen>>
       ELSE updateModelStatus(message, FALSE)
  /\ message' \in {0} \cup (IF open > 1 THEN {message} ELSE {})
  /\ UNCHANGED <<vars, history, wedged, requestVars, localMetrics, dialog>>
-----------------------------------------------------------------------------
(* fetchInitialData.                                                        *)

AnswerWorkers(r) ==
  /\ refresh[r].stage = "asked"
  /\ refresh[r].workers = 0
  /\ refresh' = [refresh EXCEPT ![r].workers = Now]
  /\ UNCHANGED <<vars, topologyVars, serverVars, post, disabled, acted, lost,
                 cardVars, statusVars>>

\* GET /api/model needs the API mutex; the other two do not.
AnswerModel(r) ==
  /\ ~wedged
  /\ refresh[r].stage = "asked"
  /\ refresh[r].model = 0
  /\ refresh' = [refresh EXCEPT ![r].model = Now]
  /\ UNCHANGED <<vars, topologyVars, serverVars, post, disabled, acted, lost,
                 cardVars, statusVars>>

\* /api/metrics may take its time after the other two are answered.
ShowWorkers(r) ==
  /\ refresh[r].stage = "asked"
  /\ refresh[r].workers # 0 /\ refresh[r].model # 0
  /\ updateWorkers(history[refresh[r].workers].list)
  /\ IF Throws(history[refresh[r].workers].list)
       THEN refresh' = [refresh EXCEPT ![r] = NoRefresh]
       ELSE refresh' = [refresh EXCEPT ![r].stage = "workers shown", ![r].workers = 0]
  /\ UNCHANGED <<vars, serverVars, post, disabled, acted, lost, statusVars>>

ShowModel(r) ==
  /\ refresh[r].stage = "workers shown"
  /\ updateModelStatus(refresh[r].model, history[refresh[r].model].running)
  /\ refresh' = [refresh EXCEPT ![r].stage = "model shown", ![r].model = 0]
  /\ UNCHANGED <<vars, topologyVars, serverVars, post, disabled, acted, lost,
                 cardVars, localMetrics, dialog>>

ShowMetrics(r) ==
  /\ refresh[r].stage = "model shown"
  /\ localMetrics' = TRUE
  /\ refresh' = [refresh EXCEPT ![r] = NoRefresh]
  /\ UNCHANGED <<vars, topologyVars, serverVars, post, disabled, acted, lost,
                 cardVars, model, seen, dialog>>

\* A request is refused or a body breaks off: the catch drops what is left.
RefreshFails(r) ==
  /\ refresh[r] # NoRefresh
  /\ refresh' = [refresh EXCEPT ![r] = NoRefresh]
  /\ lost' = TRUE
  /\ UNCHANGED <<vars, topologyVars, serverVars, post, disabled, acted,
                 cardVars, statusVars>>
-----------------------------------------------------------------------------
(* Requests of the user.                                                    *)

Send(kind) ==
  /\ \E s \in Slots \ PageBusy :
       post' = [post EXCEPT ![s] = [kind |-> kind, stage |-> "sent", at |-> 0]]
  /\ UNCHANGED <<vars, topologyVars, serverVars, refresh, acted, lost,
                 cardVars, statusVars>>

LoadModelAgain ==                    \* drops btn.disabled = true
  /\ model.is # "Running"
  /\ ~disabled
  /\ Send("load")
  /\ UNCHANGED disabled

\* The button is there unless the model is shown as running; without a path
\* nothing is sent.
loadModel ==
  /\ model.is # "Running"
  /\ ~disabled
  /\ disabled' = TRUE
  /\ Send("load")

unloadModel ==
  /\ model.is = "Running"
  /\ Send("unload")
  /\ UNCHANGED disabled

addWorker == Send("add") /\ UNCHANGED disabled

\* The refresh takes over the slot of its request.
AnsweredWithoutRefresh(s) ==         \* drops this.fetchInitialData()
  /\ post[s].stage = "served"
  /\ post' = [post EXCEPT ![s] = NoPost]
  /\ acted' = IF post[s].at > acted THEN post[s].at ELSE acted
  /\ disabled' = (disabled /\ post[s].kind # "load")
  /\ UNCHANGED <<vars, topologyVars, serverVars, refresh, lost, cardVars, statusVars>>

PostAnswered(s) ==
  /\ post[s].stage = "served"
  /\ post' = [post EXCEPT ![s] = NoPost]
  /\ refresh' = [refresh EXCEPT ![s] = NewRefresh]
  /\ acted' = IF post[s].at > acted THEN post[s].at ELSE acted
  /\ disabled' = (disabled /\ post[s].kind # "load")
  /\ UNCHANGED <<vars, topologyVars, serverVars, lost, cardVars, statusVars>>

\* An error status or a broken connection: an alert, and the finally.
PostFails(s) ==
  /\ post[s] # NoPost
  /\ post' = [post EXCEPT ![s] = NoPost]
  /\ disabled' = (disabled /\ post[s].kind # "load")
  /\ UNCHANGED <<vars, topologyVars, serverVars, refresh, acted, lost,
                 cardVars, statusVars>>
-----------------------------------------------------------------------------
(* showDeviceDetail.  The controller's branch writes its numbers only when    *)
(* there are local metrics; the worker's branch always writes its own.        *)

OpenDevice(p) ==
  /\ \E i \in getNodeAtPosition(p) :
       LET device == nodes[i].device
       IN  dialog' = [named |-> device,
                      numbers |-> IF device # Controller \/ localMetrics
                                    THEN device ELSE dialog.numbers]
  /\ UNCHANGED <<vars, topologyVars, serverVars, requestVars, cardVars,
                 model, seen, localMetrics>>

\* The topology tab starts the animation too; its exception ends a timer.
switchTab ==
  /\ startAnimation(nodes, places)
  /\ UNCHANGED <<vars, nodes, places, nodePositions, serverVars, requestVars,
                 cardVars, statusVars>>

Frame ==
  /\ animate
  /\ UNCHANGED <<vars, serverVars, requestVars, cardVars, statusVars>>
-----------------------------------------------------------------------------
(* The server: it handles requests, changes for reasons of its own, and may   *)
(* broadcast the state it is in.  What it can report is ApiServer's subject.  *)

\* A load or an unload, of handleModel.
ServePost(s) ==
  /\ ~wedged
  /\ post[s].stage = "sent" /\ post[s].kind # "add"
  /\ Now < MaxStates
  /\ \E t \in ServerStates :
       /\ post[s].kind = "load" => t.path
       /\ post[s].kind = "unload" => ~t.loaded
       /\ history' = Append(history, t)
  /\ post' = [post EXCEPT ![s].stage = "served", ![s].at = Now + 1]
  /\ UNCHANGED <<vars, topologyVars, message, wedged, refresh, disabled, acted, lost,
                 cardVars, statusVars>>

\* With the API mutex lost only what discovery finds and the child does changes.
Becomes(t) ==
  /\ wedged => t.path = history[Now].path /\ t.loaded = history[Now].loaded
  /\ history' = Append(history, t)

\* handleAddWorker lists the worker, and hangs with the API mutex: no answer.
ServeAdd(s) ==
  /\ post[s].stage = "sent" /\ post[s].kind = "add"
  /\ Now < MaxStates
  /\ \E t \in ServerStates :
       /\ [t EXCEPT !.list = <<>>] = [history[Now] EXCEPT !.list = <<>>]
       /\ Becomes(t)
  /\ wedged' = TRUE
  /\ post' = [post EXCEPT ![s].stage = "hung"]
  /\ UNCHANGED <<vars, topologyVars, message, refresh, disabled, acted, lost,
                 cardVars, statusVars>>

\* Requests of other clients among the reasons: they may lose the mutex as well.
ServerChanges ==
  /\ Now < MaxStates
  /\ \E t \in ServerStates : Becomes(t)
  /\ wedged' \in {wedged, TRUE}
  /\ UNCHANGED <<vars, topologyVars, message, requestVars, cardVars, statusVars>>

Broadcast ==
  /\ ~wedged
  /\ message = 0
  /\ open > 0
  /\ message' = Now
  /\ UNCHANGED <<vars, topologyVars, history, wedged, requestVars, cardVars, statusVars>>

\* A broadcast on its way is lost with its connection.  It is dropped whenever
\* the open sockets change: the callbacks of a socket and those of a refresh do
\* not meet, so a change can be taken before the broadcast or after its delivery.
Socket ==
  /\ connectWebSocket \/ onopen \/ onerror \/ onclose
  /\ message' = IF open' = open THEN message ELSE 0
  /\ UNCHANGED <<topologyVars, history, wedged, requestVars, cardVars, statusVars>>

Refreshing(r) ==
  \/ AnswerWorkers(r)
  \/ AnswerModel(r)
  \/ ShowWorkers(r)
  \/ ShowModel(r)
  \/ ShowMetrics(r)

User ==
  \/ loadModel
  \/ unloadModel
  \/ addWorker
  \/ switchTab
  \/ \E p \in 0 .. Len(nodes) : OpenDevice(p)

PageNext ==
  \/ Socket
  \/ onmessage
  \/ \E s \in Slots : \/ Refreshing(s)
                      \/ RefreshFails(s)
                      \/ ServePost(s)
                      \/ ServeAdd(s)
                      \/ PostAnswered(s)
                      \/ PostFails(s)
  \/ User
  \/ Frame
  \/ ServerChanges
  \/ Broadcast

PageSpec == PageInit /\ [][PageNext]_pageVars

\* A refresh goes on: what still can be answered is, and what was answered is
\* applied.  A wedge leaves it where it is, since fetch has no timeout.
FairPageSpec ==
  PageSpec /\ \A r \in Slots : WF_pageVars(Refreshing(r))
-----------------------------------------------------------------------------
PageTypeOK ==
  /\ TypeOK
  /\ TopologyTypeOK
  /\ Now \in 1 .. MaxStates
  /\ \A i \in 1 .. Now : history[i] \in ServerStates
  /\ message \in 0 .. Now
  /\ post \in [Slots -> [kind : {"none", "load", "unload", "add"},
                         stage : {"idle", "sent", "served", "hung"}, at : 0 .. Now]]
  /\ refresh \in [Slots -> [stage : {"idle", "asked", "workers shown", "model shown"},
                            workers : 0 .. Now, model : 0 .. Now]]
  /\ workers \in Seq(Workers)
  /\ count \in Nat
  /\ model \in [is : {"none", "Not loaded", "Loaded", "Running"}, at : 0 .. Now]
  /\ dialog \in [named : Workers \cup {Controller},
                 numbers : Workers \cup {Controller, "none"}]
  /\ {acted, seen} \subseteq 0 .. Now
  /\ {wedged, disabled, localMetrics, misnamed, lost} \subseteq BOOLEAN

\* The load button is disabled exactly while a load is under way, however other
\* requests and refreshes interleave, so no second one is sent meanwhile
\* (loadModel and its finally).
OneLoadAtATime ==
  LET loads == {s \in Slots : post[s].kind = "load"}
  IN  Cardinality(loads) <= 1 /\ disabled = (loads # {})

\* The three views of the worker list agree and the graph is drawn frame after
\* frame, from the first list on, as long as no worker has had the controller's
\* name; after that the number may lag and the graph may stand still for ever
\* (updateWorkers, startAnimation, animate, drawNode).
ViewsAgreeUnlessMisnamed ==
  nodes # <<>> =>
    /\ nodes = Nodes(workers)
    /\ misnamed \/ (count = Len(workers) /\ animation = "running")

\* The numbers in the device dialog are those of the device that was clicked,
\* unless it was the controller's before its metrics had come.
DialogIsOfDevice ==
  [][\A i \in DOMAIN places :
       OpenDevice(places[i]) => \/ dialog'.numbers = nodes[i].device
                                \/ i = 1 /\ ~localMetrics]_pageVars

\* While no refresh is under way, the page has shown a state of the model no
\* older than what any answered request led to, whatever overtook what, unless a
\* refresh failed or an ill-named worker made one break off (fetchInitialData at
\* the end of loadModel and unloadModel).
ShownAtRest ==
  (\A r \in Slots : refresh[r] = NoRefresh) => acted <= seen \/ lost \/ misnamed

\* The effect of a load or an unload that was answered is shown in the end,
\* however refreshes and broadcasts overtake one another, unless a refresh
\* failed, an ill-named worker made one break off, or adding a worker cost the
\* server the mutex the refresh waits for (loadModel, unloadModel, addWorker).
AnsweredIsShown ==
  \A n \in 1 .. MaxStates : acted >= n ~> (seen >= n \/ lost \/ misnamed \/ wedged)
=============================================================================
