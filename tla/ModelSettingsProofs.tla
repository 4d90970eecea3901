------------------------- MODULE ModelSettingsProofs -------------------------
(* What becomes of the settings, for any pages, files, entries and            *)
(* configurations.                                                            *)
EXTENDS ModelSettings, TLAPS

Types ==
  /\ asked \in [Pages -> [path : Files \cup {NoFile}, mmproj : Files \cup {NoFile},
                          with : [Fields -> Int \cup {NaN}]]]
  /\ step \in [Pages -> 0 .. 7]
  /\ starting \subseteq Pages
  /\ \A p \in starting : step[p] = 0
  /\ api \in [path : Files \cup {NoFile}, mmproj : Files \cup {NoFile}]
  /\ kept \in [path : Files \cup {NoFile}, mmproj : Files \cup {NoFile},
               ctxSize : Int, nGpuLayers : Int, threads : Int, nPredict : Int]
  /\ alone \subseteq Pages
  /\ found \in [Fields -> Int]
  /\ unsettled \in BOOLEAN

LEMMA OrderIs ==
  /\ Len(Order) = 7
  /\ Order[2] = "path" /\ Order[3] = "mmproj" /\ Order[4] = "ctxSize"
  /\ Order[5] = "nGpuLayers" /\ Order[6] = "threads" /\ Order[7] = "nPredict"
BY DEF Order

LEMMA InitTypes == SettingsInit => Types
<1> SUFFICES ASSUME SettingsInit PROVE Types
  OBVIOUS
<1>1. /\ step = [p \in Pages |-> 0] /\ starting = {} /\ alone = {} /\ unsettled = FALSE
      /\ asked = [p \in Pages |-> NoRequest]
  BY DEF SettingsInit
<1>2. asked \in [Pages -> [path : Files \cup {NoFile}, mmproj : Files \cup {NoFile},
                           with : [Fields -> Int \cup {NaN}]]]
  BY <1>1 DEF NoRequest
<1>3. PICK path \in Files \cup {NoFile}, c \in Configured, t \in Configured :
        /\ api = [path |-> path, mmproj |-> NoFile]
        /\ kept = [path |-> path, mmproj |-> NoFile,
                   ctxSize |-> IF c # 0 THEN c ELSE 4096, nGpuLayers |-> -1,
                   threads |-> t, nPredict |-> -1]
  BY DEF SettingsInit
<1>4. c \in Int /\ t \in Int
  BY ConfiguredAssumption
<1>5. /\ api \in [path : Files \cup {NoFile}, mmproj : Files \cup {NoFile}]
      /\ kept \in [path : Files \cup {NoFile}, mmproj : Files \cup {NoFile},
                   ctxSize : Int, nGpuLayers : Int, threads : Int, nPredict : Int]
  BY <1>3, <1>4
<1>6. step \in [Pages -> 0 .. 7]
  BY <1>1
<1>7. found \in [Fields -> Int]
  <2>1. found = [f \in Fields |-> kept[f]]
    BY DEF SettingsInit
  <2> QED BY <1>5, <2>1 DEF Fields
<1> QED BY <1>1, <1>2, <1>5, <1>6, <1>7 DEF Types

\* The dialog's settings are numbers, but for fields it cannot read.
LEMMA SettingsAreNumbers == Settings \subseteq [Fields -> Int \cup {NaN}]
<1>1. InitialSettings \in [Fields -> Int \cup {NaN}]
  BY DEF InitialSettings, Fields
<1>2. ASSUME NEW typed \in Typed PROVE saveModelSettings(typed) \in [Fields -> Int \cup {NaN}]
  <2>1. ASSUME NEW f \in Fields PROVE Parsed(f, typed[f]) \in Int \cup {NaN}
    <3>1. typed[f] \in Int \cup {NaN}
      BY TypedAssumption
    <3> QED BY <3>1 DEF Parsed
  <2> QED BY <2>1 DEF saveModelSettings
<1> QED BY <1>1, <1>2 DEF Settings

\* A setter leaves every field but its own.
LEMMA SetOne ==
  ASSUME Types, NEW p \in Pages, NEW f \in Fields \cup {"path", "mmproj"}, Set(p, f)
  PROVE  /\ kept' \in [path : Files \cup {NoFile}, mmproj : Files \cup {NoFile},
                       ctxSize : Int, nGpuLayers : Int, threads : Int, nPredict : Int]
         /\ f \notin Fields => kept'[f] = asked[p][f]
         /\ f \in Fields =>
              kept'[f] = IF Given(f, Decoded(p, f)) THEN Decoded(p, f) ELSE kept[f]
         /\ \A g \in Fields \cup {"path", "mmproj"} : g # f => kept'[g] = kept[g]
<1>1. f \in Fields => Decoded(p, f) \in Int
  <2> SUFFICES ASSUME f \in Fields PROVE Decoded(p, f) \in Int
    OBVIOUS
  <2>1. asked[p].with[f] \in Int \cup {NaN}
    BY DEF Types
  <2> QED BY <2>1 DEF Decoded
<1>2. asked[p].path \in Files \cup {NoFile} /\ asked[p].mmproj \in Files \cup {NoFile}
  BY DEF Types
<1>3. CASE f \in Fields
  <2>1. kept' = [kept EXCEPT ![f] = IF Given(f, Decoded(p, f)) THEN Decoded(p, f) ELSE @]
    BY <1>3 DEF Set
  <2> QED BY <1>1, <1>3, <2>1 DEF Types, Fields
<1>4. CASE f \notin Fields
  <2>1. kept' = [kept EXCEPT ![f] = asked[p][f]]
    BY <1>4 DEF Set
  <2>2. f = "path" \/ f = "mmproj"
    BY <1>4
  <2> QED BY <1>2, <1>4, <2>1, <2>2 DEF Types, Fields
<1> QED BY <1>3, <1>4
-----------------------------------------------------------------------------
(* Types.                                                                   *)

LEMMA AskTypes ==
  ASSUME Types, NEW p \in Pages,
         NEW request \in [path : Files \cup {NoFile}, mmproj : Files \cup {NoFile},
                         with : [Fields -> Int \cup {NaN}]],
         Ask(p, request)
  PROVE  Types'
<1>1. /\ asked' = [asked EXCEPT ![p] = request] /\ step' = [step EXCEPT ![p] = 1]
      /\ p \notin starting /\ UNCHANGED <<starting, api, kept, alone, found, unsettled>>
  BY DEF Ask
<1>2. /\ asked' \in [Pages -> [path : Files \cup {NoFile}, mmproj : Files \cup {NoFile},
                               with : [Fields -> Int \cup {NaN}]]]
      /\ step' \in [Pages -> 0 .. 7]
  BY <1>1 DEF Types
<1>3. \A q \in starting' : step'[q] = 0
  BY <1>1 DEF Types
<1> QED BY <1>1, <1>2, <1>3 DEF Types

\* Every request that is made: of a load, or the bare one of an unload.
LEMMA RequestIs ==
  ASSUME NEW p \in Pages, Load(p) \/ Unload(p)
  PROVE  \E request \in [path : Files \cup {NoFile}, mmproj : Files \cup {NoFile},
                         with : [Fields -> Int \cup {NaN}]] : Ask(p, request)
<1>1. CASE Load(p)
  BY <1>1, SettingsAreNumbers DEF Load
<1>2. CASE Unload(p)
  <2>1. NoRequest \in [path : Files \cup {NoFile}, mmproj : Files \cup {NoFile},
                      with : [Fields -> Int \cup {NaN}]]
    BY DEF NoRequest
  <2> QED BY <1>2, <2>1 DEF Unload
<1> QED BY <1>1, <1>2

\* The handler's next setter, and where it leaves the request.
LEMMA SettingIs ==
  ASSUME Types, NEW p \in Pages, HandleSetting(p)
  PROVE  /\ step[p] \in 2 .. 7 /\ Order[step[p]] \in Fields \cup {"path", "mmproj"}
         /\ Set(p, Order[step[p]])
         /\ \/ /\ step[p] < 7 /\ step' = [step EXCEPT ![p] = step[p] + 1]
               /\ UNCHANGED starting
            \/ /\ step[p] = 7 /\ step' = [step EXCEPT ![p] = 0]
               /\ starting' = starting \/ starting' = starting \cup {p}
         /\ alone' = alone \cap {p}
         /\ UNCHANGED <<asked, api, found, unsettled>>
<1>1. step[p] \in 2 .. 7 /\ Set(p, Order[step[p]])
  BY OrderIs DEF HandleSetting
<1>2. step[p] \in {2, 3, 4, 5, 6, 7}
  BY <1>1
<1>3. Order[step[p]] \in Fields \cup {"path", "mmproj"}
  BY <1>2, OrderIs DEF Fields
<1>4. \/ /\ step[p] < 7 /\ step' = [step EXCEPT ![p] = step[p] + 1]
         /\ UNCHANGED starting
      \/ /\ step[p] = 7 /\ step' = [step EXCEPT ![p] = 0]
         /\ starting' = starting \/ starting' = starting \cup {p}
  BY <1>1, OrderIs DEF HandleSetting
<1> QED BY <1>1, <1>3, <1>4 DEF HandleSetting

LEMMA NextTypes == Types /\ [SettingsNext]_settingsVars => Types'
<1> SUFFICES ASSUME Types, [SettingsNext]_settingsVars PROVE Types'
  OBVIOUS
<1>1. CASE UNCHANGED settingsVars
  BY <1>1 DEF settingsVars, Types
<1>2. ASSUME NEW p \in Pages, Load(p) \/ Unload(p) PROVE Types'
  BY <1>2, RequestIs, AskTypes
<1>3. ASSUME NEW p \in Pages, HandleRequest(p) PROVE Types'
  <2>1. /\ step' = [step EXCEPT ![p] = 2] /\ step[p] = 1
        /\ api' = [path |-> asked[p].path,
                   mmproj |-> IF asked[p].mmproj # NoFile THEN asked[p].mmproj ELSE api.mmproj]
        /\ alone' \subseteq {p} /\ unsettled' \in BOOLEAN
        /\ found' = [f \in Fields |-> kept[f]]
        /\ UNCHANGED <<asked, starting, kept>>
    BY <1>3 DEF HandleRequest
  <2>2. step' \in [Pages -> 0 .. 7] /\ \A q \in starting' : step'[q] = 0
    BY <2>1 DEF Types
  <2>3. api' \in [path : Files \cup {NoFile}, mmproj : Files \cup {NoFile}]
    BY <2>1 DEF Types
  <2>4. found' \in [Fields -> Int]
    BY <2>1 DEF Types, Fields
  <2> QED BY <2>1, <2>2, <2>3, <2>4 DEF Types
<1>4. ASSUME NEW p \in Pages, HandleSetting(p) PROVE Types'
  <2>1. kept' \in [path : Files \cup {NoFile}, mmproj : Files \cup {NoFile},
                  ctxSize : Int, nGpuLayers : Int, threads : Int, nPredict : Int]
    BY <1>4, SettingIs, SetOne
  <2>2. step' \in [Pages -> 0 .. 7]
    BY <1>4, SettingIs DEF Types
  <2>3. starting' \subseteq Pages /\ \A q \in starting' : step'[q] = 0
    BY <1>4, SettingIs DEF Types
  <2> QED BY <1>4, <2>1, <2>2, <2>3, SettingIs DEF Types
<1>5. ASSUME NEW p \in Pages, StartServer(p) PROVE Types'
  <2>1. /\ asked' = [asked EXCEPT ![p] = NoRequest] /\ starting' = starting \ {p}
        /\ alone' = alone \ {p} /\ UNCHANGED <<step, api, kept, found, unsettled>>
    BY <1>5 DEF StartServer
  <2>2. asked' \in [Pages -> [path : Files \cup {NoFile}, mmproj : Files \cup {NoFile},
                             with : [Fields -> Int \cup {NaN}]]]
    BY <2>1 DEF Types, NoRequest
  <2> QED BY <2>1, <2>2 DEF Types
<1>6. CASE DeleteModel
  BY <1>6 DEF DeleteModel, Types
<1> QED BY <1>1, <1>2, <1>3, <1>4, <1>5, <1>6 DEF SettingsNext

LEMMA SettingsTypes == SettingsSpec => []Types
BY InitTypes, NextTypes, PTL DEF SettingsSpec
-----------------------------------------------------------------------------
(* The two paths.                                                           *)

\* What a handler that meets no other has done so far.
PathsSet(p) ==
  /\ api.path = asked[p].path
  /\ asked[p].mmproj \in {NoFile, api.mmproj}
  /\ step[p] > 2 => kept.path = asked[p].path
  /\ step[p] > 3 => kept.mmproj = asked[p].mmproj

PathsInv ==
  ~unsettled =>
    /\ \A p, q \in Handling : p = q
    /\ \A p \in Handling : PathsSet(p)
    /\ Handling = {} => api.path = kept.path /\ kept.mmproj \in {NoFile, api.mmproj}

LEMMA InitPathsInv == SettingsInit => PathsInv
<1> SUFFICES ASSUME SettingsInit PROVE PathsInv
  OBVIOUS
<1>1. step = [p \in Pages |-> 0]
  BY DEF SettingsInit
<1>2. Handling = {}
  BY <1>1 DEF Handling
<1>3. api.path = kept.path /\ kept.mmproj = NoFile
  BY DEF SettingsInit
<1> QED BY <1>2, <1>3 DEF PathsInv

\* A page outside its handler may ask and start.
LEMMA OutsidePathsInv ==
  ASSUME Types, PathsInv, NEW p \in Pages, NEW v, UNCHANGED <<api, kept, unsettled>>,
         asked' = [asked EXCEPT ![p] = v], step[p] = 0,
         step' = step \/ step' = [step EXCEPT ![p] = 1]
  PROVE  PathsInv'
<1>1. step'[p] \in {0, 1} /\ \A q \in Pages : q # p => step'[q] = step[q]
  BY DEF Types
<1>2. Handling' = Handling /\ p \notin Handling
  BY <1>1 DEF Handling
<1>3. \A q \in Handling : asked'[q] = asked[q] /\ step'[q] = step[q]
  BY <1>1, <1>2 DEF Handling, Types
<1>4. \A q \in Handling : PathsSet(q) => PathsSet(q)'
  BY <1>3 DEF PathsSet
<1> QED BY <1>2, <1>4 DEF PathsInv

LEMMA RequestPathsInv ==
  ASSUME Types, PathsInv, NEW p \in Pages, HandleRequest(p)
  PROVE  PathsInv'
<1>1. /\ step' = [step EXCEPT ![p] = 2] /\ unsettled' = (Handling # {})
      /\ api' = [path |-> asked[p].path,
                 mmproj |-> IF asked[p].mmproj # NoFile THEN asked[p].mmproj ELSE api.mmproj]
      /\ UNCHANGED asked
  BY DEF HandleRequest
<1>2. CASE Handling # {}
  BY <1>1, <1>2 DEF PathsInv
<1>3. CASE Handling = {}
  <2>1. step'[p] = 2 /\ \A q \in Pages : q # p => step'[q] = step[q]
    BY <1>1 DEF Types
  <2>2. Handling' = {p}
    BY <1>3, <2>1 DEF Handling
  <2>3. PathsSet(p)'
    BY <1>1, <2>1 DEF PathsSet
  <2> QED BY <2>2, <2>3 DEF PathsInv
<1> QED BY <1>2, <1>3

LEMMA SettingPathsInv ==
  ASSUME Types, PathsInv, NEW p \in Pages, HandleSetting(p)
  PROVE  PathsInv'
<1> SUFFICES ASSUME ~unsettled
             PROVE  /\ \A q, r \in Handling' : q = r
                    /\ \A q \in Handling' : PathsSet(q)'
                    /\ Handling' = {} => /\ api'.path = kept'.path
                                         /\ kept'.mmproj \in {NoFile, api'.mmproj}
  BY SettingIs DEF PathsInv
<1>1. /\ step[p] \in {2, 3, 4, 5, 6, 7}
      /\ UNCHANGED <<asked, api>>
      /\ \A q \in Pages : q # p => step'[q] = step[q]
      /\ step[p] < 7 => step'[p] = step[p] + 1
      /\ step[p] = 7 => step'[p] = 0
  BY SettingIs DEF Types
<1>2. p \in Handling
  BY <1>1 DEF Handling
<1>3. \A q \in Handling : q = p
  BY <1>2 DEF PathsInv
<1>4. PathsSet(p)
  BY <1>2 DEF PathsInv
<1>5. step[p] = 2 => kept'.path = asked[p].path
  BY OrderIs, SettingIs, SetOne DEF Fields
<1>6. step[p] = 3 => kept'.mmproj = asked[p].mmproj /\ kept'.path = kept.path
  BY OrderIs, SettingIs, SetOne DEF Fields
<1>7. step[p] \in {4, 5, 6, 7} => kept'.path = kept.path /\ kept'.mmproj = kept.mmproj
  BY OrderIs, SettingIs, SetOne DEF Fields
<1>8. /\ step[p] > 2 => kept'.path = asked[p].path
      /\ step[p] > 3 => kept'.mmproj = asked[p].mmproj
      /\ step[p] = 3 => kept'.mmproj = asked[p].mmproj
      /\ step[p] = 2 => kept'.path = asked[p].path
  BY <1>1, <1>4, <1>5, <1>6, <1>7 DEF PathsSet
<1>9. CASE step[p] < 7
  <2>1. Handling' = {p}
    BY <1>1, <1>3, <1>9 DEF Handling
  <2>2. PathsSet(p)'
    BY <1>1, <1>4, <1>8, <1>9 DEF PathsSet
  <2> QED BY <2>1, <2>2
<1>10. CASE step[p] = 7
  <2>1. Handling' = {}
    BY <1>1, <1>3, <1>10 DEF Handling
  <2>2. api'.path = kept'.path /\ kept'.mmproj \in {NoFile, api'.mmproj}
    BY <1>1, <1>4, <1>8, <1>10 DEF PathsSet
  <2> QED BY <2>1, <2>2
<1> QED BY <1>1, <1>9, <1>10

LEMMA NextPathsInv == Types /\ PathsInv /\ [SettingsNext]_settingsVars => PathsInv'
<1> SUFFICES ASSUME Types, PathsInv, [SettingsNext]_settingsVars PROVE PathsInv'
  OBVIOUS
<1>1. CASE UNCHANGED settingsVars
  BY <1>1 DEF settingsVars, PathsInv, PathsSet, Handling
<1>2. ASSUME NEW p \in Pages, Load(p) \/ Unload(p) PROVE PathsInv'
  <2>1. PICK request : Ask(p, request)
    BY <1>2, RequestIs
  <2> QED BY <2>1, OutsidePathsInv DEF Ask
<1>3. ASSUME NEW p \in Pages, HandleRequest(p) PROVE PathsInv'
  BY <1>3, RequestPathsInv
<1>4. ASSUME NEW p \in Pages, HandleSetting(p) PROVE PathsInv'
  BY <1>4, SettingPathsInv
<1>5. ASSUME NEW p \in Pages, StartServer(p) PROVE PathsInv'
  <2>1. step[p] = 0
    BY <1>5 DEF StartServer, Types
  <2> QED BY <1>5, <2>1, OutsidePathsInv DEF StartServer
<1>6. CASE DeleteModel
  BY <1>6 DEF DeleteModel, PathsInv
<1> QED BY <1>1, <1>2, <1>3, <1>4, <1>5, <1>6 DEF SettingsNext

\* What GET /api/model reports is what llama-server would be given, unless
\* handlers met or a DELETE came between.
THEOREM ReportHonest == SettingsSpec => []ApiKnowsServer
<1>1. PathsInv => ApiKnowsServer
  BY DEF PathsInv, ApiKnowsServer
<1> QED BY <1>1, SettingsTypes, InitPathsInv, NextPathsInv, PTL DEF SettingsSpec
-----------------------------------------------------------------------------
(* The numbers.                                                             *)

Applied(p, f) ==
  kept[f] = IF Given(f, Decoded(p, f)) THEN Decoded(p, f) ELSE found[f]
Untouched(f) == kept[f] = found[f]

\* A request that met no other has applied the setters its handler has passed,
\* and found what the others are yet to set.
Number(p, f, k) ==
  /\ p \in starting \/ step[p] > k => Applied(p, f)
  /\ step[p] \in 2 .. k => Untouched(f)

NumbersInv ==
  \A p \in alone :
    /\ Number(p, "ctxSize", 4)
    /\ Number(p, "nGpuLayers", 5)
    /\ Number(p, "threads", 6)
    /\ Number(p, "nPredict", 7)

\* What a setter does to the number of one field.
LEMMA SettingNumber ==
  ASSUME Types, NEW p \in Pages, HandleSetting(p), NEW f \in Fields, NEW k \in 4 .. 7,
         Order[k] = f, \A j \in 2 .. 7 : Order[j] = f => j = k, Number(p, f, k)
  PROVE  Number(p, f, k)'
<1>1. /\ step[p] \in 2 .. 7 /\ p \notin starting
      /\ UNCHANGED <<asked, found>>
      /\ step[p] < 7 => step'[p] = step[p] + 1 /\ p \notin starting'
      /\ step[p] = 7 => step'[p] = 0
      /\ Order[step[p]] \in Fields \cup {"path", "mmproj"} /\ Set(p, Order[step[p]])
  BY SettingIs DEF Types
<1>2. Decoded(p, f)' = Decoded(p, f)
  BY <1>1 DEF Decoded
<1>3. CASE step[p] = k
  <2>1. kept'[f] = IF Given(f, Decoded(p, f)) THEN Decoded(p, f) ELSE kept[f]
    BY <1>1, <1>3, SetOne
  <2>2. kept[f] = found[f]
    BY <1>1, <1>3 DEF Number, Untouched
  <2>3. Applied(p, f)'
    BY <1>1, <1>2, <2>1, <2>2 DEF Applied
  <2>4. ~(step'[p] \in 2 .. k)
    BY <1>1, <1>3
  <2> QED BY <2>3, <2>4 DEF Number
<1>4. CASE step[p] # k
  <2>1. kept'[f] = kept[f]
    BY <1>1, <1>4, SetOne
  <2>2. Applied(p, f) => Applied(p, f)'
    BY <1>1, <1>2, <2>1 DEF Applied
  <2>3. Untouched(f) => Untouched(f)'
    BY <1>1, <2>1 DEF Untouched
  <2>4. CASE step[p] < k
    <3>1. p \notin starting' /\ step'[p] \in 2 .. k /\ step[p] \in 2 .. k
      BY <1>1, <2>4
    <3>2. ~(step'[p] > k)
      BY <3>1
    <3> QED BY <2>3, <3>1, <3>2 DEF Number
  <2>5. CASE step[p] > k
    <3>1. ~(step'[p] \in 2 .. k)
      BY <1>1, <2>5
    <3> QED BY <2>2, <2>5, <3>1 DEF Number
  <2> QED BY <1>1, <1>4, <2>4, <2>5
<1> QED BY <1>3, <1>4

LEMMA SettingNumbersInv ==
  ASSUME Types, NumbersInv, NEW p \in Pages, HandleSetting(p)
  PROVE  NumbersInv'
<1>1. alone' \subseteq {p} /\ alone' \subseteq alone
  BY SettingIs
<1>2. ASSUME p \in alone PROVE Number(p, "ctxSize", 4)'
  BY <1>2, OrderIs, SettingNumber DEF NumbersInv, Order, Fields
<1>3. ASSUME p \in alone PROVE Number(p, "nGpuLayers", 5)'
  BY <1>3, OrderIs, SettingNumber DEF NumbersInv, Order, Fields
<1>4. ASSUME p \in alone PROVE Number(p, "threads", 6)'
  BY <1>4, OrderIs, SettingNumber DEF NumbersInv, Order, Fields
<1>5. ASSUME p \in alone PROVE Number(p, "nPredict", 7)'
  BY <1>5, OrderIs, SettingNumber DEF NumbersInv, Order, Fields
<1> QED BY <1>1, <1>2, <1>3, <1>4, <1>5 DEF NumbersInv

\* A step that leaves a page's request and the numbers alone.
LEMMA SameNumber ==
  ASSUME NEW p, NEW f, NEW k, UNCHANGED <<kept, found>>,
         asked'[p] = asked[p], step'[p] = step[p], p \in starting' => p \in starting,
         Number(p, f, k)
  PROVE  Number(p, f, k)'
<1>1. /\ Applied(p, f) => Applied(p, f)'
      /\ Untouched(f) => Untouched(f)'
  BY DEF Applied, Untouched, Decoded
<1> QED BY <1>1 DEF Number

LEMMA NextNumbersInv == Types /\ NumbersInv /\ [SettingsNext]_settingsVars => NumbersInv'
<1> SUFFICES ASSUME Types, NumbersInv, [SettingsNext]_settingsVars PROVE NumbersInv'
  OBVIOUS
<1>1. CASE UNCHANGED settingsVars
  BY <1>1, SameNumber DEF settingsVars, NumbersInv
<1>2. ASSUME NEW p \in Pages, Load(p) \/ Unload(p) PROVE NumbersInv'
  <2>1. PICK request : Ask(p, request)
    BY <1>2, RequestIs
  <2>2. /\ asked' = [asked EXCEPT ![p] = request] /\ step' = [step EXCEPT ![p] = 1]
        /\ p \notin starting /\ UNCHANGED <<starting, kept, alone, found>>
    BY <2>1 DEF Ask
  <2>3. \A k \in 4 .. 7 : ~(p \in starting' \/ step'[p] > k) /\ ~(step'[p] \in 2 .. k)
    BY <2>2 DEF Types
  <2>4. ASSUME NEW q \in alone, q # p
        PROVE  asked'[q] = asked[q] /\ step'[q] = step[q]
    BY <2>2, <2>4 DEF Types
  <2>5. ASSUME NEW q \in alone, q # p, NEW f, NEW k, Number(q, f, k) PROVE Number(q, f, k)'
    BY <2>2, <2>4, <2>5, SameNumber
  <2>6. ASSUME NEW f, NEW k \in 4 .. 7 PROVE Number(p, f, k)'
    BY <2>3 DEF Number
  <2> QED BY <2>2, <2>5, <2>6 DEF NumbersInv
<1>3. ASSUME NEW p \in Pages, HandleRequest(p) PROVE NumbersInv'
  <2>1. /\ alone' \subseteq {p} /\ step'[p] = 2 /\ p \notin starting'
        /\ found' = [f \in Fields |-> kept[f]] /\ kept' = kept
    BY <1>3 DEF HandleRequest, Types
  <2>2. ASSUME NEW f \in Fields, NEW k \in 4 .. 7 PROVE Number(p, f, k)'
    BY <2>1 DEF Number, Untouched
  <2> QED BY <2>1, <2>2 DEF NumbersInv, Fields
<1>4. ASSUME NEW p \in Pages, HandleSetting(p) PROVE NumbersInv'
  BY <1>4, SettingNumbersInv
<1>5. ASSUME NEW p \in Pages, StartServer(p) PROVE NumbersInv'
  <2>1. /\ asked' = [asked EXCEPT ![p] = NoRequest] /\ starting' = starting \ {p}
        /\ alone' = alone \ {p} /\ UNCHANGED <<step, kept, found>>
    BY <1>5 DEF StartServer
  <2>2. ASSUME NEW q \in alone', NEW f, NEW k, Number(q, f, k) PROVE Number(q, f, k)'
    <3>1. asked'[q] = asked[q]
      BY <2>1 DEF Types
    <3> QED BY <2>1, <2>2, <3>1, SameNumber
  <2> QED BY <2>1, <2>2 DEF NumbersInv
<1>6. CASE DeleteModel
  BY <1>6, SameNumber DEF DeleteModel, NumbersInv
<1> QED BY <1>1, <1>2, <1>3, <1>4, <1>5, <1>6 DEF SettingsNext

\* A load that meets no other request starts its server with the numbers its
\* page showed that go with a load, and for the others with those it found.
THEOREM DialogReachesServer == SettingsSpec => LoadUsesDialog
<1> DEFINE Used ==
      \A p \in Pages \cap alone :
        StartServer(p) /\ kept.path # NoFile =>
          \A f \in Fields :
            LET shown == asked[p].with[f]
            IN  Arguments[f] = Argument(f, IF GoesWithLoad(f, shown) THEN shown
                                                                     ELSE found[f])
<1>1. SettingsInit => NumbersInv
  BY DEF SettingsInit, NumbersInv
<1>2. Types /\ NumbersInv => Used
  <2> SUFFICES ASSUME Types, NumbersInv, NEW p \in Pages \cap alone, StartServer(p),
                      NEW f \in Fields
               PROVE  LET shown == asked[p].with[f]
                      IN  Arguments[f] = Argument(f, IF GoesWithLoad(f, shown) THEN shown
                                                                               ELSE found[f])
    OBVIOUS
  <2> DEFINE shown == asked[p].with[f]
  <2>1. Applied(p, f)
    BY DEF NumbersInv, Number, StartServer, Fields
  <2>2. shown \in Int \cup {NaN}
    BY DEF Types
  <2>3. Decoded(p, f) = IF shown = NaN THEN 0 ELSE shown
    BY DEF Decoded
  <2>4. Given(f, Decoded(p, f)) <=> GoesWithLoad(f, shown)
    BY <2>2, <2>3 DEF Given, GoesWithLoad
  <2>5. kept[f] = IF GoesWithLoad(f, shown) THEN shown ELSE found[f]
    BY <2>1, <2>3, <2>4 DEF Applied, GoesWithLoad
  <2>6. Arguments[f] = Argument(f, kept[f])
    BY DEF Arguments
  <2> QED BY <2>5, <2>6
<1>3. SettingsSpec => [][Used]_settingsVars
  BY <1>1, <1>2, NextNumbersInv, SettingsTypes, PTL DEF SettingsSpec
<1> QED BY <1>3 DEF LoadUsesDialog
=============================================================================
