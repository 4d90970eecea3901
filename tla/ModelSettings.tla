---------------------------- MODULE ModelSettings ----------------------------
(* What the settings dialog asks of llama-server and what the server is       *)
(* started with: the dialog parses its fields (webfs/web/ui/js/app.js), the   *)
(* body of a load carries them as JSON, handleModel hands them one by one to  *)
(* llmserver's setters, each under a mutex of its own, and Start makes        *)
(* arguments of what the setters left (internal/llmserver/server.go).         *)
(* Several pages may do so at once; a page is named with the handler that     *)
(* serves it, and has one request under way at a time, its Start included.    *)
(* The temperature and its like go with each chat message, not with a load,   *)
(* and are left out.                                                          *)
EXTENDS Integers, Sequences

CONSTANTS Pages,
          Files,       \* model and projector files
          NoFile,      \* the empty path
          NaN,         \* what parseInt makes of a field it cannot read
          Typed,       \* what may stand in each field of the dialog
          Configured   \* values of contextSize and threads in the configuration

Fields == {"ctxSize", "nGpuLayers", "threads", "nPredict"}

ASSUME FilesAssumption == NoFile \notin Files
ASSUME NaNAssumption == NaN \notin Int
ASSUME TypedAssumption == Typed \subseteq [Fields -> Int \cup {NaN}]
ASSUME ConfiguredAssumption == Configured \subseteq Nat

VARIABLES asked,      \* the request of each page, with the settings it was made of
          step,       \* the handler's next step, 0 without a request
          starting,   \* pages whose load has a Start to come
          api,        \* modelPath and mmprojPath of api.Server
          kept,       \* the fields of llmserver.Server
          alone,      \* history: the page whose request no other handler has met
          found,      \* history: the numbers that request found kept
          unsettled   \* history: handlers have met, or a DELETE came, since a
                      \* request began by itself

settingsVars == <<asked, step, starting, api, kept, alone, found, unsettled>>

InitialSettings == [ctxSize |-> 4096, nGpuLayers |-> -1, threads |-> 0, nPredict |-> 512]
NoRequest == [path |-> NoFile, mmproj |-> NoFile, with |-> [f \in Fields |-> 0]]
Handling == {p \in Pages : step[p] > 1}

\* New with the configuration's values, before any request.
SettingsInit ==
  /\ asked = [p \in Pages |-> NoRequest]
  /\ step = [p \in Pages |-> 0]
  /\ starting = {}
  /\ \E path \in Files \cup {NoFile}, c, t \in Configured :
       /\ api = [path |-> path, mmproj |-> NoFile]
       /\ kept = [path |-> path, mmproj |-> NoFile,
                  ctxSize |-> IF c # 0 THEN c ELSE 4096, nGpuLayers |-> -1,
                  threads |-> t, nPredict |-> -1]
  /\ alone = {}
  /\ found = [f \in Fields |-> kept[f]]
  /\ unsettled = FALSE
-----------------------------------------------------------------------------
(* The page.                                                                *)

\* JavaScript's || replaces 0 and NaN, its ?? neither.
Parsed(f, x) ==
  CASE f = "ctxSize" /\ x \in {0, NaN} -> 4096
    [] f = "threads" /\ x = NaN -> 0
    [] f = "nPredict" /\ x \in {0, NaN} -> 512
    [] OTHER -> x

\* The settings a page may hold: the initial ones, or those the dialog was
\* last saved with; Cancel changes nothing.
saveModelSettings(typed) == [f \in Fields |-> Parsed(f, typed[f])]
Settings == {InitialSettings} \cup {saveModelSettings(t) : t \in Typed}

Ask(p, request) ==
  /\ step[p] = 0
  /\ p \notin starting
  /\ asked' = [asked EXCEPT ![p] = request]
  /\ step' = [step EXCEPT ![p] = 1]
  /\ UNCHANGED <<starting, api, kept, alone, found, unsettled>>

\* The projector was picked from a file dialog or came with a refresh.
Load(p) ==
  \E path \in Files, mmproj \in Files \cup {NoFile}, s \in Settings :
    Ask(p, [path |-> path, mmproj |-> mmproj, with |-> s])

\* The body has the action alone; the handler reads the rest as zero.
Unload(p) == Ask(p, NoRequest)
-----------------------------------------------------------------------------
(* handleModel.                                                             *)

Order == <<"api", "path", "mmproj", "ctxSize", "nGpuLayers", "threads", "nPredict">>

\* JSON has no NaN: null leaves the integer at zero.
Decoded(p, f) == IF asked[p].with[f] = NaN THEN 0 ELSE asked[p].with[f]

\* A value the handler passes on.  A zero cannot be told from a value left out.
Given(f, v) == IF f = "nGpuLayers" THEN v # 0 ELSE v > 0

\* Reads the body, and takes both paths; an empty projector leaves the API's.
HandleRequest(p) ==
  /\ step[p] = 1
  /\ step' = [step EXCEPT ![p] = 2]
  /\ api' = [path |-> asked[p].path,
             mmproj |-> IF asked[p].mmproj # NoFile THEN asked[p].mmproj ELSE api.mmproj]
  /\ alone' = IF Handling = {} THEN {p} ELSE {}
  /\ found' = [f \in Fields |-> kept[f]]
  /\ unsettled' = (Handling # {})
  /\ UNCHANGED <<asked, starting, kept>>

SetKeepsPath(p, f) ==                \* an empty path or projector sets nothing
  LET v == IF f \in Fields THEN Decoded(p, f) ELSE asked[p][f]
  IN  kept' = IF (f \in Fields /\ Given(f, v)) \/ (f \notin Fields /\ v # NoFile)
                THEN [kept EXCEPT ![f] = v] ELSE kept

SetIfPositive(p, f) ==               \* "> 0" for the GPU layers, too
  LET v == Decoded(p, f)
  IN  kept' = IF f \in Fields THEN [kept EXCEPT ![f] = IF v > 0 THEN v ELSE @]
                              ELSE [kept EXCEPT ![f] = asked[p][f]]

\* llmserver takes both paths as they are.
Set(p, f) ==
  LET v == Decoded(p, f)
  IN  kept' = IF f \in Fields THEN [kept EXCEPT ![f] = IF Given(f, v) THEN v ELSE @]
                              ELSE [kept EXCEPT ![f] = asked[p][f]]

\* The next setter.  After the last one the request is answered; a load leaves
\* its goroutine behind.
HandleSetting(p) ==
  /\ step[p] \in 2 .. Len(Order)
  /\ Set(p, Order[step[p]])
  /\ IF step[p] < Len(Order)
       THEN step' = [step EXCEPT ![p] = @ + 1] /\ UNCHANGED starting
       ELSE /\ step' = [step EXCEPT ![p] = 0]
            /\ starting' = IF asked[p] # NoRequest THEN starting \cup {p} ELSE starting
  /\ alone' = alone \cap {p}
  /\ UNCHANGED <<asked, api, found, unsettled>>

\* DELETE /api/model leaves llmserver's path, and any handler to its own.
DeleteModel ==
  /\ api' = [path |-> NoFile, mmproj |-> NoFile]
  /\ unsettled' = TRUE
  /\ UNCHANGED <<asked, step, starting, kept, alone, found>>
-----------------------------------------------------------------------------
(* llmserver.Start.                                                         *)

\* The argument made of a field, NaN when none is.
Argument(f, v) ==
  CASE f = "nGpuLayers" /\ v < 0 -> NaN
    [] f \in {"threads", "nPredict"} /\ v <= 0 -> NaN
    [] OTHER -> v

Arguments == [f \in Fields |-> Argument(f, kept[f])]

\* Start reads the fields in one critical section; without a path it fails.
StartServer(p) ==
  /\ p \in starting
  /\ starting' = starting \ {p}
  /\ asked' = [asked EXCEPT ![p] = NoRequest]
  /\ alone' = alone \ {p}
  /\ UNCHANGED <<step, api, kept, found, unsettled>>

SettingsNext ==
  \/ \E p \in Pages : \/ Load(p)
                      \/ Unload(p)
                      \/ HandleRequest(p)
                      \/ HandleSetting(p)
                      \/ StartServer(p)
  \/ DeleteModel

SettingsSpec == SettingsInit /\ [][SettingsNext]_settingsVars
-----------------------------------------------------------------------------
\* What a page shows for a field goes with its load: a positive number, or one
\* of GPU layers that is not zero.
GoesWithLoad(f, shown) ==
  /\ shown # NaN
  /\ IF f = "nGpuLayers" THEN shown # 0 ELSE shown > 0

\* A load that no other request meets before its server is launched starts it
\* with every number its page showed that goes with a load (a negative number
\* of GPU layers is no argument).  For the others, zero, negative or unreadable,
\* the server is started with what was kept before the request, whoever left it.
LoadUsesDialog ==
  [][\A p \in Pages \cap alone :
       StartServer(p) /\ kept.path # NoFile =>
         \A f \in Fields :
           LET shown == asked[p].with[f]
           IN  Arguments[f] = Argument(f, IF GoesWithLoad(f, shown) THEN shown
                                                                    ELSE found[f])]_settingsVars

\* Between requests GET /api/model reports the path llama-server would be
\* started with, and any projector it would be given, unless two handlers met
\* between their setters or a DELETE cleared the API's side alone.
ApiKnowsServer ==
  Handling = {} /\ ~unsettled =>
    /\ api.path = kept.path
    /\ kept.mmproj \in {NoFile, api.mmproj}
=============================================================================
