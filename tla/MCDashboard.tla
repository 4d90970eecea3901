---------------------------- MODULE MCDashboard ------------------------------
(* Four workers: two share a name, one has the controller's.  The page is     *)
(* explored in parts: the socket alone, with room for seven sockets; the      *)
(* user's requests, with a socket that stays open; the device dialog and the  *)
(* graph, with sockets that come and go and no requests; and two pages that   *)
(* load one model with settings of their own.                                 *)
EXTENDS Dashboard, ModelSettings

CONSTANTS w1, w2, w3, w4, p1, p2, m1
MCWorkers == {w1, w2, w3, w4}
MCNodeId == [w \in MCWorkers |-> CASE w = w3 -> Controller
                                   [] w = w2 -> "cpu"
                                   [] w \in {w1, w4} -> "gpu"]
MCSlots == {1, 2}
MCPages == {p1, p2}
MCFiles == {m1}
Row(c, g, t, n) == [ctxSize |-> c, nGpuLayers |-> g, threads |-> t, nPredict |-> n]
MCTyped == {Row(2048, 20, 8, 512), Row(-1, NaN, NaN, -1)}
MCConfigured == {4}

State(l, p, u, r) == [list |-> l, path |-> p, loaded |-> u, running |-> r]
MCServerStates ==
  {State(<<w1>>, TRUE, TRUE, TRUE), State(<<w2, w1, w4>>, TRUE, FALSE, FALSE),
   State(<<w1, w3>>, FALSE, FALSE, FALSE)}

VARIABLE part
mcVars == <<pageVars, settingsVars, part>>

MCInit ==
  /\ PageInit
  /\ SettingsInit
  /\ part \in {"socket", "requests", "device", "settings"}
  /\ part # "settings" => api.path = NoFile
  /\ part = "settings" => history = <<State(<<w1>>, TRUE, TRUE, TRUE)>> /\ refresh[1] = NewRefresh

PageStep ==
  /\ PageNext
  /\ CASE part = "socket" -> UNCHANGED <<topologyVars, serverVars, requestVars,
                                         cardVars, statusVars>>
       [] part = "requests" -> attempts' = 0 /\ created' = 1 /\ UNCHANGED dialog
       [] part = "device" -> created' <= 2 /\ attempts' <= 1 /\ UNCHANGED <<post, wedged>>
       [] OTHER -> FALSE
  /\ UNCHANGED settingsVars

MCNext ==
  /\ PageStep \/ (part = "settings" /\ SettingsNext /\ UNCHANGED pageVars)
  /\ UNCHANGED part

MCSpec ==
  /\ MCInit
  /\ [][MCNext]_mcVars
  /\ \A r \in Slots : WF_mcVars(/\ part = "requests" /\ Refreshing(r)
                                /\ UNCHANGED <<settingsVars, part>>)
=============================================================================
