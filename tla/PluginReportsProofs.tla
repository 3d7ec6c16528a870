------------------------- MODULE PluginReportsProofs -------------------------
(***************************************************************************)
(* Theorems about what the plugin commands report, plan and show           *)
(* (PluginInventories, FramedViewer, PluginReports), for any plugins and   *)
(* tables, any histories of the instances and any order of the commands.   *)
(***************************************************************************)
EXTENDS PluginReports, WellFoundedInduction, SequenceTheorems, FiniteSetTheorems, TLAPS

-----------------------------------------------------------------------------
(* Types.                                                                  *)

(* What an instance holds is absent or has a version. *)
LEMMA HeldFacts ==
  ASSUME NEW holds \in Holdings, NEW x \in Plugins, holds[x] # Absent
  PROVE  /\ holds[x].version \in 1 .. MaxVersion
         /\ holds[x].active \in BOOLEAN /\ holds[x].used \in BOOLEAN
         /\ holds[x].version # None
         /\ holds[x] = [version |-> holds[x].version, active |-> holds[x].active, used |-> holds[x].used]
<1>1. holds[x] \in [version : 1 .. MaxVersion, active : BOOLEAN, used : BOOLEAN]
  BY DEF Holdings, Held
<1>2. QED
  BY <1>1, CatalogAssumption DEF None

(* An inventory maps some of the plugins to what it says of them. *)
LEMMA InventoryFacts ==
  /\ \A f \in Inventories : DOMAIN f \subseteq Plugins /\ f \in [DOMAIN f -> Info]
  /\ \A S \in SUBSET Plugins : [S -> Info] \subseteq Inventories
  BY DEF Inventories

(* The rows of a table are an inventory. *)
LEMMA RowsType ==
  ASSUME NEW t \in Tables, NEW holds \in Holdings
  PROVE  Rows(t, holds) \in Inventories
<1>1. ASSUME NEW x \in Plugins, holds[x] # Absent
      PROVE  RowOf(t, x, holds[x]) \in Info
  <2>1. holds[x].version \in 1 .. MaxVersion /\ holds[x].active \in BOOLEAN
    BY <1>1, HeldFacts
  <2>2. (t = "appmanager" \/ holds[x].active) \in BOOLEAN
    BY <2>1
  <2>3. {None, MaxVersion} \subseteq Versions
    BY CatalogAssumption DEF Versions, None
  <2>4. DependsOn[x] \in SUBSET Plugins
    BY CatalogAssumption
  <2>5. QED
    BY <2>1, <2>2, <2>3, <2>4 DEF RowOf, Info
<1> DEFINE S == {y \in Plugins : ListedBy(t, y, holds[y])}
<1>2. Rows(t, holds) \in [S -> Info]
  BY <1>1 DEF Rows, ListedBy
<1>3. QED
  BY <1>2, InventoryFacts

(* One inventory over another is an inventory. *)
LEMMA OverType ==
  ASSUME NEW first \in Inventories, NEW second \in Inventories
  PROVE  Over(first, second) \in Inventories
<1> DEFINE S == DOMAIN first \cup DOMAIN second
<1>1. S \in SUBSET Plugins
  BY InventoryFacts
<1>2. Over(first, second) \in [S -> Info]
  BY InventoryFacts DEF Over
<1>3. QED
  BY <1>1, <1>2, InventoryFacts

(* What an answer stands for is an inventory. *)
LEMMA AnswerType ==
  ASSUME NEW rows, NEW t, rows[t] \in {Refused} \cup Inventories
  PROVE  Answer(rows, t) \in Inventories
<1>1. NoRows \in Inventories
  BY DEF NoRows, Inventories
<1>2. QED
  BY <1>1 DEF Answer

(* So is what the scan makes of the three answers. *)
LEMMA MergeType ==
  ASSUME NEW rows, \A t \in Tables : rows[t] \in {Refused} \cup Inventories
  PROVE  Merge(rows) \in Inventories
<1> DEFINE core == Over(Answer(rows, "sys_store_app"), Answer(rows, "v_plugin"))
           apps == Answer(rows, "appmanager")
           Filled(x) == IF x \in DOMAIN apps /\ core[x].latest = None
                          THEN [core[x] EXCEPT !.latest = apps[x].latest] ELSE core[x]
           filled == [x \in DOMAIN core |-> Filled(x)]
<1>1. core \in Inventories /\ apps \in Inventories
  BY AnswerType, OverType DEF Tables
<1>2. Merge(rows) = Over(filled, apps)
  BY DEF Merge
<1> HIDE DEF core, apps
<1>3. ASSUME NEW x \in DOMAIN core
      PROVE  Filled(x) \in Info
  <2>1. core[x] \in Info
    BY <1>1, <1>3 DEF Inventories
  <2>2. x \in DOMAIN apps => apps[x].latest \in Versions
    BY <1>1 DEF Inventories, Info
  <2>3. x \in DOMAIN apps => [core[x] EXCEPT !.latest = apps[x].latest] \in Info
    BY <2>1, <2>2 DEF Info
  <2>4. QED
    BY <2>1, <2>3
<1>4. filled \in Inventories
  BY <1>1, <1>3 DEF Inventories
<1>5. QED
  BY <1>1, <1>2, <1>4, OverType

(* Counting changes nothing else. *)
LEMMA CountedType ==
  ASSUME NEW found \in Inventories, NEW uncounted, NEW holds
  PROVE  Counted(found, uncounted, holds) \in Inventories
<1>1. ASSUME NEW x \in DOMAIN found
      PROVE  [found[x] EXCEPT !.record_counts = CountIn(holds[x])] \in Info /\ found[x] \in Info
  BY DEF Inventories, Info, CountIn
<1>2. QED
  BY <1>1 DEF Counted, Inventories

(* A row of an inventory names a version of the plugin. *)
LEMMA InfoFacts ==
  ASSUME NEW inventory \in Inventories, NEW x \in DOMAIN inventory
  PROVE  /\ x \in Plugins
         /\ inventory[x].version \in 1 .. MaxVersion
         /\ inventory[x].latest \in Versions
         /\ inventory[x].latest # None => inventory[x].latest \in 1 .. MaxVersion
<1>1. x \in Plugins /\ inventory[x] \in Info
  BY InventoryFacts
<1>2. QED
  BY <1>1, CatalogAssumption DEF Info, Versions, None

(* What is done to a plugin leaves it with a version. *)
LEMMA HeldAfter ==
  ASSUME NEW held \in Held
  PROVE  /\ \A v \in 1 .. MaxVersion : AtVersion(held, v) \in Held
         /\ held # Absent => Activated(held) \in Held
<1>1. held = Absent \/ held \in [version : 1 .. MaxVersion, active : BOOLEAN, used : BOOLEAN]
  BY DEF Held
<1>2. ASSUME NEW v \in 1 .. MaxVersion
      PROVE  AtVersion(held, v) \in [version : 1 .. MaxVersion, active : BOOLEAN, used : BOOLEAN]
  <2>1. CASE held = Absent
    <3>1. held \in [version : {None}, active : BOOLEAN, used : BOOLEAN]
      BY <2>1 DEF Absent
    <3>2. QED
      BY <3>1 DEF AtVersion
  <2>2. CASE held # Absent
    BY <1>1, <2>2 DEF AtVersion
  <2>3. QED
    BY <2>1, <2>2
<1>3. held # Absent => Activated(held) \in [version : 1 .. MaxVersion, active : BOOLEAN, used : BOOLEAN]
  BY <1>1 DEF Activated
<1>4. QED
  BY <1>2, <1>3 DEF Held

(* Nobody else is a profile, so nothing under way is mistaken for no scan. *)
LEMMA ScanFacts ==
  ASSUME TypeOK
  PROVE  /\ scan # Idle => /\ scan \in ScanState
                           /\ scan.profile \in Profiles
                           /\ scan.counts \in BOOLEAN /\ scan.whole \in BOOLEAN
                           /\ DOMAIN scan.rows \subseteq Tables
                           /\ \A t \in DOMAIN scan.rows : scan.rows[t] \in {Refused} \cup Inventories
                           /\ scan.rows = [t \in DOMAIN scan.rows |-> scan.rows[t]]
         /\ apply # Idle => /\ apply \in ApplyState
                            /\ apply.todo \in SUBSET Action /\ apply.before \in Holdings
  BY DEF TypeOK, ScanState, ApplyState

(* A scan that starts. *)
LEMMA NewScanTyped ==
  ASSUME NEW p \in Profiles, NEW counts \in BOOLEAN
  PROVE  NewScan(p, counts) \in ScanState
<1>1. NoRows \in [{} -> {Refused} \cup Inventories]
  BY DEF NoRows
<1>2. QED
  BY <1>1 DEF NewScan, ScanState

(* A scan that read another table. *)
LEMMA ReadTyped ==
  ASSUME TypeOK, scan # Idle, NEW t \in Tables, NEW answer \in {Refused} \cup Inventories
  PROVE  /\ [scan EXCEPT !.rows = With(scan.rows, t, answer)] \in ScanState
         /\ [scan EXCEPT !.rows = With(scan.rows, t, answer), !.whole = FALSE] \in ScanState
<1> DEFINE S == DOMAIN scan.rows \cup {t}
           rows == With(scan.rows, t, answer)
<1>1. S \in SUBSET Tables
  BY ScanFacts
<1>2. rows \in [S -> {Refused} \cup Inventories]
  BY ScanFacts DEF With
<1>3. rows \in UNION {[R -> {Refused} \cup Inventories] : R \in SUBSET Tables}
  BY <1>1, <1>2
<1> HIDE DEF rows
<1>4. scan \in ScanState
  BY ScanFacts
<1>5. /\ [scan EXCEPT !.rows = rows] \in ScanState
      /\ [scan EXCEPT !.rows = rows, !.whole = FALSE] \in ScanState
  BY <1>3, <1>4 DEF ScanState
<1>6. QED
  BY <1>5 DEF rows

(* A deferral names a finding by a plugin and a kind. *)
LEMMA FindingsType ==
  ASSUME NEW inventory \in Inventories
  PROVE  FindingsOf(inventory) \in SUBSET FindingKeys
<1>1. ASSUME NEW f \in ComputeAdvisories(inventory)
      PROVE  <<f.plugin, f.kind>> \in FindingKeys
  <2>1. PICK x \in DOMAIN inventory :
          f \in CheckEol(x) \cup CheckCves(x, inventory[x].version) \cup CheckLicense(x, inventory[x].vendor)
    BY <1>1 DEF ComputeAdvisories
  <2>2. x \in Plugins
    BY InventoryFacts
  <2>3. f.plugin = x /\ (f.kind \in {"eol", "license"} \/ \E e \in Cves[x] : f.kind = e.id)
    BY <2>1 DEF CheckEol, CheckCves, CheckLicense, Finding
  <2>4. f.kind \in Kinds
    BY <2>2, <2>3 DEF Kinds
  <2>5. QED
    BY <2>2, <2>3, <2>4 DEF FindingKeys
<1>2. QED
  BY <1>1 DEF FindingsOf

(* A promotion plan names plugins of the source at the versions found there. *)
LEMMA PlanType ==
  ASSUME NEW a \in Inventories, NEW b \in Inventories
  PROVE  PlanOf(a, b) \in SUBSET Action
<1>1. ASSUME NEW x \in DOMAIN a, ActionFor(a, b, x) # "skip"
      PROVE  [action |-> ActionFor(a, b, x), plugin |-> x, target |-> a[x].version] \in Action
  <2>1. ActionFor(a, b, x) \in {"install", "activate", "upgrade"}
    BY <1>1 DEF ActionFor
  <2>2. QED
    BY <2>1, InfoFacts DEF Action
<1>2. QED
  BY <1>1 DEF PlanOf

(* What each command does to the files, the instances and the commands under   *)
(* way keeps them what they are named for.                                     *)
LEMMA ScanningTyped ==
  ASSUME TypeOK, Scanning
  PROVE  TypeOK'
<1>1. ASSUME NEW p \in Profiles, NEW counts \in BOOLEAN, StartScan(p, counts)
      PROVE  TypeOK'
  BY <1>1, NewScanTyped DEF StartScan, TypeOK, files, ghosts
<1>2. ASSUME NEW t \in Tables, ReadTable(t)
      PROVE  TypeOK'
  <2>1. scan # Idle /\ scan.profile \in Profiles
    BY <1>2, ScanFacts DEF ReadTable
  <2>2. Rows(t, live[scan.profile]) \in Inventories
    BY <2>1, RowsType DEF TypeOK
  <2>3. scan' \in ScanState
    <3>1. PICK answer \in {Refused} \cup Inventories :
            \/ scan' = [scan EXCEPT !.rows = With(scan.rows, t, answer)]
            \/ scan' = [scan EXCEPT !.rows = With(scan.rows, t, answer), !.whole = FALSE]
      BY <1>2, <2>2 DEF ReadTable
    <3>2. QED
      BY <2>1, <3>1, ReadTyped
  <2>4. QED
    BY <1>2, <2>3 DEF ReadTable, TypeOK, files, ghosts
<1>3. ASSUME NEW uncounted, SaveScan(uncounted)
      PROVE  TypeOK'
  <2>1. scan # Idle /\ scan.profile \in Profiles /\ Merge(scan.rows) \in Inventories
    BY <1>3, ScanFacts, MergeType DEF SaveScan, Read
  <2>2. PICK inventory \in Inventories : stored' = [stored EXCEPT ![scan.profile] = inventory]
    BY <1>3, <2>1, CountedType DEF SaveScan
  <2>3. PICK was \in {Unsure} \cup Holdings : known' = [known EXCEPT ![scan.profile] = was]
    BY <1>3, <2>1 DEF SaveScan, TypeOK
  <2>4. rounds' \in 0 .. 2 /\ round' \in {"none", "planned", "applied"}
    BY <1>3 DEF SaveScan, Undisturbed, TypeOK
  <2>5. /\ scan' = Idle
        /\ UNCHANGED <<session, live, apply, clerk, baselines, plan, overrides, acked, granted, clash>>
    BY <1>3 DEF SaveScan
  <2>6. QED
    BY <2>1, <2>2, <2>3, <2>4, <2>5 DEF TypeOK
<1>4. CASE ScanFails
  BY <1>4 DEF ScanFails, TypeOK, files, ghosts
<1>5. QED
  BY <1>1, <1>2, <1>3, <1>4 DEF Scanning

(* The same of promotions, deferrals, and everything else. *)
LEMMA PromotingTyped ==
  ASSUME TypeOK, Promoting
  PROVE  TypeOK'
<1>1. CASE Promote
  <2>1. plan' \in SUBSET Action
    BY <1>1, PlanType DEF Promote, Profiles, TypeOK
  <2>2. rounds' \in 0 .. 2 /\ round' \in {"none", "planned", "applied"}
    BY <1>1 DEF Promote, TypeOK
  <2>3. QED
    BY <1>1, <2>1, <2>2 DEF Promote, TypeOK
<1>2. CASE StartApply
  <2>1. apply' \in ApplyState
    BY <1>2 DEF StartApply, TypeOK, ApplyState, Profiles
  <2>2. QED
    BY <1>2, <2>1 DEF StartApply, TypeOK, files, ghosts
<1>3. ASSUME NEW a \in apply.todo, apply # Idle, ApplyStep(a)
      PROVE  TypeOK'
  <2>1. /\ apply \in ApplyState /\ a \in Action /\ a.plugin \in Plugins /\ a.target \in 1 .. MaxVersion
    BY <1>3, ScanFacts DEF Action
  <2>2. live[Target] \in Holdings /\ live[Target][a.plugin] \in Held
    BY <2>1 DEF TypeOK, Profiles, Holdings
  <2>3. Result(a) \in Held
    BY <1>3, <2>1, <2>2, HeldAfter DEF Result, ApplyStep, Succeeds
  <2>4. Put(live[Target], a.plugin, Result(a)) \in Holdings
    BY <2>2, <2>3 DEF Put, Holdings
  <2>5. live' \in [Profiles -> Holdings]
    BY <1>3, <2>4 DEF ApplyStep, TypeOK
  <2>6. apply' \in ApplyState
    BY <1>3, <2>1 DEF ApplyStep, ApplyState
  <2>7. QED
    BY <1>3, <2>5, <2>6 DEF ApplyStep, TypeOK, files, ghosts
<1>4. ASSUME NEW a \in apply.todo, apply # Idle, ApplyFails(a)
      PROVE  TypeOK'
  <2>1. apply.before \in Holdings /\ live[Target] \in Holdings
    BY <1>4, ScanFacts DEF TypeOK, Profiles
  <2>2. ASSUME NEW undone
        PROVE  [x \in Plugins |-> IF x \in undone THEN apply.before[x] ELSE live[Target][x]] \in Holdings
    BY <2>1 DEF Holdings
  <2>3. PICK holds \in Holdings : live' = [live EXCEPT ![Target] = holds]
    BY <1>4, <2>2 DEF ApplyFails
  <2>4. live' \in [Profiles -> Holdings]
    BY <2>3 DEF TypeOK
  <2>5. QED
    BY <1>4, <2>4 DEF ApplyFails, TypeOK, files
<1>5. CASE ApplyDone
  <2>1. scan' \in ScanState
    BY <1>5, NewScanTyped DEF ApplyDone, Profiles
  <2>2. QED
    BY <1>5, <2>1 DEF ApplyDone, TypeOK, files
<1>6. QED
  BY <1>1, <1>2, <1>3, <1>4, <1>5 DEF Promoting

(* So do deferrals. *)
LEMMA DeferringTyped ==
  ASSUME TypeOK, Deferring
  PROVE  TypeOK'
<1>1. Loaded \in SUBSET FindingKeys
  BY DEF Loaded, TypeOK
<1>2. ASSUME NEW c \in Clerks, NEW f \in FindingKeys, NEW verb \in {"defer", "undo"}
      PROVE  [verb |-> verb, finding |-> f, existing |-> Loaded] \in Errand
  BY <1>1 DEF Errand
<1>3. ASSUME NEW c \in Clerks, NEW f, StartDefer(c, f)
      PROVE  TypeOK'
  <2>1. stored[Target] \in Inventories
    BY <1>3 DEF StartDefer, TypeOK, Profiles
  <2>2. f \in FindingKeys
    BY <1>3, <2>1, FindingsType DEF StartDefer
  <2>3. QED
    BY <1>2, <1>3, <2>2 DEF StartDefer, TypeOK, files, ghosts
<1>4. ASSUME NEW c \in Clerks, NEW f, StartUndo(c, f)
      PROVE  TypeOK'
  <2>1. f \in FindingKeys
    BY <1>1, <1>4 DEF StartUndo
  <2>2. QED
    BY <1>2, <1>4, <2>1 DEF StartUndo, TypeOK, files, ghosts
<1>5. ASSUME NEW c \in Clerks, SaveOverrides(c)
      PROVE  TypeOK'
  <2>1. clerk[c] \in Errand
    BY <1>5 DEF SaveOverrides, TypeOK
  <2>2. overrides' \in SUBSET FindingKeys /\ granted' \in SUBSET FindingKeys
    BY <1>5, <2>1 DEF SaveOverrides, TypeOK, Errand
  <2>3. clash' \in BOOLEAN
    BY <1>5 DEF SaveOverrides, TypeOK
  <2>4. clerk' \in [Clerks -> {NoErrand} \cup Errand]
    BY <1>5 DEF SaveOverrides, TypeOK
  <2>5. QED
    BY <1>5, <2>2, <2>3, <2>4 DEF SaveOverrides, TypeOK
<1>6. CASE DamageOverrides
  BY <1>6 DEF DamageOverrides, TypeOK
<1>7. QED
  BY <1>3, <1>4, <1>5, <1>6 DEF Deferring

(* And the changes of an instance, upgrades and baselines. *)
LEMMA ChangingTyped ==
  ASSUME TypeOK
  PROVE  /\ \A p \in Profiles, x \in Plugins : ChangePlugin(p, x) => TypeOK'
         /\ \A done : UpgradePending(done) => TypeOK'
         /\ \A p \in Profiles, n \in Names : Ack(p, n) \/ DeleteBaseline(p, n) => TypeOK'
<1>1. ASSUME NEW p \in Profiles, NEW x \in Plugins, ChangePlugin(p, x)
      PROVE  TypeOK'
  <2>1. PICK held \in Held : live' = [live EXCEPT ![p] = Put(live[p], x, held)]
    BY <1>1 DEF ChangePlugin
  <2>2. Put(live[p], x, held) \in Holdings
    BY DEF TypeOK, Holdings, Put
  <2>3. live' \in [Profiles -> Holdings]
    BY <2>1, <2>2 DEF TypeOK
  <2>4. scan' = Idle \/ scan' \in ScanState
    <3>1. scan \in ScanState => [scan EXCEPT !.whole = FALSE] \in ScanState
      BY DEF ScanState
    <3>2. scan' = scan \/ (scan.profile = p /\ scan' = [scan EXCEPT !.whole = FALSE])
      BY <1>1 DEF ChangePlugin
    <3>3. p # "nobody"
      BY DistinctAssumption
    <3>4. scan.profile = p => scan # Idle
      BY <3>3 DEF Idle
    <3>5. QED
      BY <3>1, <3>2, <3>4, ScanFacts
  <2>5. QED
    BY <1>1, <2>3, <2>4 DEF ChangePlugin, TypeOK, files
<1>2. ASSUME NEW done, UpgradePending(done)
      PROVE  TypeOK'
  <2>1. stored[Target] \in Inventories /\ live[Target] \in Holdings
    BY <1>2 DEF UpgradePending, TypeOK, Profiles
  <2>2. ASSUME NEW x \in Plugins
        PROVE  (IF x \in done THEN AtVersion(live[Target][x], stored[Target][x].latest)
                              ELSE live[Target][x]) \in Held
    <3>1. live[Target][x] \in Held
      BY <2>1 DEF Holdings
    <3>2. x \in done => stored[Target][x].latest \in 1 .. MaxVersion
      BY <1>2, <2>1, InfoFacts DEF UpgradePending, Pending
    <3>3. QED
      BY <3>1, <3>2, HeldAfter
  <2>3. live' \in [Profiles -> Holdings]
    <3>1. [x \in Plugins |-> IF x \in done THEN AtVersion(live[Target][x], stored[Target][x].latest)
                                          ELSE live[Target][x]] \in Holdings
      BY <2>2 DEF Holdings
    <3>2. QED
      BY <1>2, <3>1 DEF UpgradePending, TypeOK
  <2>4. scan' \in ScanState
    BY <1>2, NewScanTyped DEF UpgradePending, Profiles
  <2>5. /\ UNCHANGED <<session, apply, clerk, stored, baselines, plan, overrides>>
        /\ UNCHANGED <<known, acked, granted, clash>>
        /\ rounds' = 0 /\ round' = "none"
    BY <1>2 DEF UpgradePending, files
  <2>6. QED
    BY <2>3, <2>4, <2>5 DEF TypeOK
<1>3. ASSUME NEW p \in Profiles, NEW n \in Names, Ack(p, n)
      PROVE  TypeOK'
  <2>1. Put(baselines[p], n, stored[p]) \in [Names -> {NoBaseline} \cup Inventories]
    BY <1>3 DEF Ack, TypeOK, Put
  <2>2. Put(acked[p], n, known[p]) \in [Names -> {Unsure} \cup Holdings]
    BY DEF TypeOK, Put
  <2>3. QED
    BY <1>3, <2>1, <2>2 DEF Ack, TypeOK
<1>4. ASSUME NEW p \in Profiles, NEW n \in Names, DeleteBaseline(p, n)
      PROVE  TypeOK'
  <2>1. Put(baselines[p], n, NoBaseline) \in [Names -> {NoBaseline} \cup Inventories]
    BY DEF TypeOK, Put
  <2>2. Put(acked[p], n, Unsure) \in [Names -> {Unsure} \cup Holdings]
    BY DEF TypeOK, Put
  <2>3. QED
    BY <1>4, <2>1, <2>2 DEF DeleteBaseline, TypeOK
<1>5. QED
  BY <1>1, <1>2, <1>3, <1>4

(* Who only reads leaves the instances and the files alone.                    *)
LEMMA ReadersStep == ReportsNext => Next \/ UNCHANGED unread
  BY DEF ReportsNext, Viewing, Analysing, StartImpact, Walk, Walked, TargetTables, InboundRefs,
         RefsDone, RefsFail, CountRef, CountScope, CountFails, CountPending

(* A step that changes nothing changes nothing they read. *)
LEMMA Stutter == UNCHANGED reportVars => UNCHANGED unread
  BY DEF reportVars, vars, unread

(* So does every step of theirs. *)
LEMMA StepTyped ==
  ASSUME TypeOK, Next
  PROVE  TypeOK'
  BY ScanningTyped, PromotingTyped, DeferringTyped, ChangingTyped DEF Next

(* The types hold at first and are kept.                                       *)
LEMMA Typed ==
  /\ ReportsInit => TypeOK
  /\ TypeOK /\ [ReportsNext]_reportVars => TypeOK'
<1>1. ASSUME ReportsInit
      PROVE  TypeOK
  <2>1. session \in Sessions /\ live \in [Profiles -> Holdings]
    BY <1>1, SessionsAssumption DEF ReportsInit, Init
  <2>2. /\ scan = Idle /\ apply = Idle /\ plan = NoPlan /\ overrides = {}
        /\ clerk \in [Clerks -> {NoErrand} \cup Errand]
        /\ stored \in [Profiles -> {NoInventory} \cup Inventories]
        /\ baselines \in [Profiles -> [Names -> {NoBaseline} \cup Inventories]]
        /\ known \in [Profiles -> {Unsure} \cup Holdings]
        /\ acked \in [Profiles -> [Names -> {Unsure} \cup Holdings]]
    BY <1>1 DEF ReportsInit, Init
  <2>3. overrides \in SUBSET FindingKeys /\ granted \in SUBSET FindingKeys /\ clash \in BOOLEAN
    BY <1>1 DEF ReportsInit, Init
  <2>4. round = "none" /\ rounds = 0
    BY <1>1 DEF ReportsInit, Init
  <2>5. round \in {"none", "planned", "applied"} /\ rounds \in 0 .. 2
    BY <2>4
  <2>6. QED
    BY <2>1, <2>2, <2>3, <2>5 DEF TypeOK
<1>2. TypeOK /\ Next => TypeOK'
  BY StepTyped
<1>3. ASSUME TypeOK, UNCHANGED unread
      PROVE  TypeOK'
  BY <1>3 DEF TypeOK, unread, files, ghosts
<1>4. QED
  BY <1>1, <1>2, <1>3, ReadersStep, Stutter

(* Whatever was read and whoever changed an instance meanwhile, the files and  *)
(* the commands under way keep their types (PluginInventory, PromotionPlan,    *)
(* AdvisoryOverrideSet).                                                       *)
THEOREM TypeCorrect == ReportsSpec => []TypeOK
  BY Typed, PTL DEF ReportsSpec

-----------------------------------------------------------------------------
(* What a scan reads, if nothing changed meanwhile and every table answered.   *)
Listable(x, held) ==
  held # Absent /\ (Tabled(x) \/ ("appmanager" \in ListedIn[x] /\ held.version < MaxVersion))

Says(info, x, held) ==
  /\ info.version = held.version
  /\ Tabled(x) => info.active = held.active /\ info.depends_on = DependsOn[x]
  /\ info.depends_on \subseteq DependsOn[x]
  /\ info.latest = IF ListedIn[x] \cap {"sys_store_app", "appmanager"} # {} /\ held.version # MaxVersion
                     THEN MaxVersion ELSE None
  /\ info.vendor = IF "v_plugin" \in ListedIn[x] /\ "sys_store_app" \notin ListedIn[x]
                     THEN NoVendor ELSE Vendor[x]
  /\ info.record_counts \in {"unknown", CountIn(held)}

Reads(inventory, holds) ==
  /\ DOMAIN inventory = {x \in Plugins : Listable(x, holds[x])}
  /\ \A x \in DOMAIN inventory : Says(inventory[x], x, holds[x])

(* The three answers of an instance that did not change, merged, say of each   *)
(* plugin what the instance holds.                                             *)
LEMMA MergeReads ==
  ASSUME NEW holds \in Holdings, NEW rows, \A t \in Tables : rows[t] = Rows(t, holds)
  PROVE  Reads(Merge(rows), holds)
<1> DEFINE store == Rows("sys_store_app", holds)
           core == Over(store, Rows("v_plugin", holds))
           apps == Rows("appmanager", holds)
           Filled(x) == IF x \in DOMAIN apps /\ core[x].latest = None
                          THEN [core[x] EXCEPT !.latest = apps[x].latest] ELSE core[x]
           filled == [x \in DOMAIN core |-> Filled(x)]
<1>1. \A t \in Tables : Answer(rows, t) = Rows(t, holds)
  <2>1. Refused \notin Inventories
    BY DistinctAssumption DEF Inventories
  <2>2. QED
    BY <2>1, RowsType DEF Answer
<1>2. Merge(rows) = Over(filled, apps)
  BY <1>1 DEF Merge, Tables
<1>3. \A t \in Tables : /\ DOMAIN Rows(t, holds) = {x \in Plugins : ListedBy(t, x, holds[x])}
                        /\ \A x \in DOMAIN Rows(t, holds) : Rows(t, holds)[x] = RowOf(t, x, holds[x])
  BY DEF Rows
<1>4. /\ DOMAIN core = {x \in Plugins : holds[x] # Absent /\ Tabled(x)}
      /\ DOMAIN apps = {x \in Plugins : /\ "appmanager" \in ListedIn[x] /\ holds[x] # Absent
                                        /\ holds[x].version < MaxVersion}
  BY <1>3 DEF Over, ListedBy, Tabled, Tables
<1>5. \A x \in DOMAIN core :
        core[x] = IF "sys_store_app" \in ListedIn[x] THEN RowOf("sys_store_app", x, holds[x])
                                                     ELSE RowOf("v_plugin", x, holds[x])
  BY <1>3, <1>4 DEF Over, ListedBy, Tables
<1>6. \A x \in DOMAIN apps : apps[x] = RowOf("appmanager", x, holds[x])
  BY <1>3 DEF Tables
<1> HIDE DEF core, apps, store
<1>7. \A x \in Plugins : /\ holds[x] # Absent => holds[x].version \in 1 .. MaxVersion
                         /\ DependsOn[x] \in SUBSET Plugins
                         /\ MaxVersion # None /\ MaxVersion \in Nat
  BY HeldFacts, CatalogAssumption DEF None
<1>13. ASSUME NEW x \in DOMAIN apps
       PROVE  /\ x \in Plugins /\ holds[x] # Absent /\ "appmanager" \in ListedIn[x]
              /\ holds[x].version # MaxVersion /\ holds[x].version # None
  <2>1. x \in Plugins /\ holds[x] # Absent /\ holds[x].version < MaxVersion /\ "appmanager" \in ListedIn[x]
    BY <1>4
  <2>2. holds[x].version \in 1 .. MaxVersion /\ MaxVersion \in Nat
    BY <2>1, <1>7
  <2>3. holds[x].version # MaxVersion /\ holds[x].version # 0
    BY <2>1, <2>2
  <2>4. QED
    BY <2>1, <2>3 DEF None
<1>8. ASSUME NEW x \in DOMAIN core
      PROVE  Says(Filled(x), x, holds[x])
  <2> DEFINE t == IF "sys_store_app" \in ListedIn[x] THEN "sys_store_app" ELSE "v_plugin"
             row == RowOf(t, x, holds[x])
  <2>1. x \in Plugins /\ holds[x] # Absent /\ Tabled(x) /\ holds[x].version \in 1 .. MaxVersion
    BY <1>4, <1>7
  <2>2. core[x] = row /\ t \in ListedIn[x] /\ t # "appmanager"
    BY <1>5, <2>1 DEF Tabled
  <2>3. /\ row.version = holds[x].version /\ row.active = holds[x].active
        /\ row.depends_on = DependsOn[x] /\ row.record_counts = "unknown"
        /\ row.vendor = IF t = "v_plugin" THEN NoVendor ELSE Vendor[x]
        /\ row.latest = IF t = "v_plugin" \/ holds[x].version = MaxVersion THEN None ELSE MaxVersion
    <3> HIDE DEF t
    <3>1. (t = "appmanager" \/ holds[x].active) = holds[x].active
      BY <2>2, <2>1, HeldFacts
    <3>2. QED
      BY <2>2, <3>1 DEF RowOf
  <2>4. \A v : LET changed == [row EXCEPT !.latest = v]
              IN /\ changed.version = row.version /\ changed.active = row.active
                 /\ changed.depends_on = row.depends_on /\ changed.vendor = row.vendor
                 /\ changed.record_counts = row.record_counts /\ changed.latest = v
    <3> HIDE DEF t
    <3>1. QED
      BY DEF RowOf
  <2> HIDE DEF row
  <2>5. PICK v : Filled(x) = row \/ Filled(x) = [row EXCEPT !.latest = v]
    BY <2>2
  <2>6. /\ Filled(x).version = row.version /\ Filled(x).active = row.active
        /\ Filled(x).depends_on = row.depends_on /\ Filled(x).vendor = row.vendor
        /\ Filled(x).record_counts = row.record_counts
    BY <2>4, <2>5
  <2>7. Filled(x).latest = IF ListedIn[x] \cap {"sys_store_app", "appmanager"} # {} /\ holds[x].version # MaxVersion
                             THEN MaxVersion ELSE None
    <3>1. x \in DOMAIN apps => /\ apps[x].latest = MaxVersion
                              /\ "appmanager" \in ListedIn[x] /\ holds[x].version # MaxVersion
      BY <1>13, <1>6 DEF RowOf
    <3>2. x \notin DOMAIN apps => "appmanager" \notin ListedIn[x] \/ holds[x].version = MaxVersion
      BY <1>4, <2>1, <1>7
    <3>3. Filled(x).latest = IF x \in DOMAIN apps /\ row.latest = None THEN apps[x].latest ELSE row.latest
      BY <2>2, <2>4
    <3>4. t = "v_plugin" <=> "sys_store_app" \notin ListedIn[x]
      OBVIOUS
    <3>5. CASE x \in DOMAIN apps
      BY <2>3, <3>1, <3>3, <3>4, <3>5, <1>7
    <3>6. CASE x \notin DOMAIN apps
      BY <2>3, <3>2, <3>3, <3>4, <3>6, <1>7
    <3>7. QED
      BY <3>5, <3>6
  <2>8. QED
    BY <2>1, <2>2, <2>3, <2>6, <2>7 DEF Says
<1>9. ASSUME NEW x \in DOMAIN apps, x \notin DOMAIN core
      PROVE  Says(apps[x], x, holds[x])
  <2>1. /\ x \in Plugins /\ ~Tabled(x) /\ "appmanager" \in ListedIn[x]
        /\ holds[x].version # MaxVersion /\ holds[x].version # None
    BY <1>4, <1>13, <1>9
  <2>2. "v_plugin" \notin ListedIn[x] /\ "sys_store_app" \notin ListedIn[x]
    BY <2>1 DEF Tabled
  <2>3. /\ apps[x].version = holds[x].version /\ apps[x].depends_on = {}
        /\ apps[x].latest = MaxVersion
        /\ apps[x].vendor = Vendor[x] /\ apps[x].record_counts = "unknown"
    BY <1>6, <1>9, <2>1 DEF RowOf
  <2>4. QED
    BY <2>1, <2>2, <2>3 DEF Says
<1>10. DOMAIN Over(filled, apps) = {x \in Plugins : Listable(x, holds[x])}
  BY <1>4 DEF Over, Listable
<1>11. ASSUME NEW x \in DOMAIN Over(filled, apps)
       PROVE  Says(Over(filled, apps)[x], x, holds[x])
  BY <1>8, <1>9 DEF Over
<1>12. QED
  BY <1>2, <1>10, <1>11 DEF Reads

(* Counting the records keeps that. *)
LEMMA CountedReads ==
  ASSUME NEW holds \in Holdings, NEW found \in Inventories, Reads(found, holds), NEW uncounted
  PROVE  Reads(Counted(found, uncounted, holds), holds)
<1>1. ASSUME NEW x \in DOMAIN found
      PROVE  Says([found[x] EXCEPT !.record_counts = CountIn(holds[x])], x, holds[x])
  <2>1. found[x] \in Info /\ Says(found[x], x, holds[x])
    BY InventoryFacts DEF Reads
  <2>2. QED
    BY <2>1 DEF Says, Info
<1>2. QED
  BY <1>1 DEF Counted, Reads

(* No scan runs while a plan is executed, and what a scan under way has read   *)
(* is what the instance still holds, unless it changed or a table was refused. *)
ScanInv ==
  /\ apply # Idle => scan = Idle
  /\ scan # Idle /\ scan.whole => \A t \in DOMAIN scan.rows : scan.rows[t] = Rows(t, live[scan.profile])

(* So the stored inventories and the baselines say what the instance held.     *)
FilesInv ==
  /\ \A p \in Profiles : known[p] # Unsure => Reads(stored[p], known[p])
  /\ \A p \in Profiles, n \in Names : acked[p][n] # Unsure => Reads(baselines[p][n], acked[p][n])

ReadInv == TypeOK /\ ScanInv /\ FilesInv

(* The invariant holds at first, and survives what leaves the files alone.     *)
LEMMA ReadingStarts == ReportsInit => ScanInv /\ FilesInv
  BY DEF ReportsInit, Init, ScanInv, FilesInv

(* A table is read as the instance holds it; a scan that saves merges them. *)
LEMMA ScanningReads ==
  ASSUME ReadInv, Scanning
  PROVE  ScanInv' /\ FilesInv'
<1>1. ASSUME NEW p \in Profiles, NEW counts \in BOOLEAN, StartScan(p, counts)
      PROVE  ScanInv' /\ FilesInv'
  BY <1>1 DEF StartScan, NewScan, NoRows, ReadInv, ScanInv, FilesInv, files, ghosts
<1>2. ASSUME NEW t \in Tables, ReadTable(t)
      PROVE  ScanInv' /\ FilesInv'
  <2>1. scan # Idle /\ scan \in ScanState
    BY <1>2, ScanFacts DEF ReadTable, ReadInv
  <2>2. scan'.whole => /\ scan.whole
                       /\ scan' = [scan EXCEPT !.rows = With(scan.rows, t, Rows(t, live[scan.profile]))]
    BY <1>2, <2>1 DEF ReadTable, ScanState
  <2>3. scan'.profile = scan.profile
    BY <1>2, <2>1 DEF ReadTable, ScanState
  <2>4. scan'.whole => \A u \in DOMAIN scan'.rows : scan'.rows[u] = Rows(u, live[scan.profile])
    BY <2>1, <2>2 DEF ScanState, With, ReadInv, ScanInv
  <2>5. apply = Idle /\ apply' = apply /\ live' = live
    BY <1>2, <2>1 DEF ReadTable, ReadInv, ScanInv
  <2>6. UNCHANGED <<stored, baselines, known, acked>>
    BY <1>2 DEF ReadTable, files, ghosts
  <2>7. ScanInv'
    BY <2>3, <2>4, <2>5 DEF ScanInv
  <2>8. QED
    BY <2>6, <2>7 DEF ReadInv, FilesInv
<1>3. ASSUME NEW uncounted, SaveScan(uncounted)
      PROVE  ScanInv' /\ FilesInv'
  <2> DEFINE p == scan.profile
             uncountable == IF scan.counts THEN uncounted ELSE Plugins
             saved == Counted(Merge(scan.rows), uncountable, live[p])
  <2>1. scan # Idle /\ p \in Profiles /\ live[p] \in Holdings /\ DOMAIN scan.rows = Tables
    BY <1>3, ScanFacts DEF SaveScan, Read, ReadInv, TypeOK
  <2>2. /\ stored' = [stored EXCEPT ![p] = saved]
        /\ known' = [known EXCEPT ![p] = IF scan.whole THEN live[p] ELSE Unsure]
    BY <1>3 DEF SaveScan
  <2>3. scan' = Idle /\ UNCHANGED <<apply, baselines, acked>>
    BY <1>3 DEF SaveScan
  <2>4. ASSUME scan.whole
        PROVE  Reads(saved, live[p])
    <3>1. \A t \in Tables : scan.rows[t] = Rows(t, live[p])
      BY <2>1, <2>4 DEF ReadInv, ScanInv
    <3>2. Reads(Merge(scan.rows), live[p])
      BY <2>1, <3>1, MergeReads
    <3>3. Merge(scan.rows) \in Inventories
      BY <2>1, <3>1, RowsType, MergeType
    <3>4. QED
      BY <2>1, <3>2, <3>3, CountedReads
  <2> HIDE DEF p, saved
  <2>5. stored'[p] = saved /\ known'[p] = (IF scan.whole THEN live[p] ELSE Unsure)
    BY <2>1, <2>2 DEF ReadInv, TypeOK
  <2>6. \A q \in Profiles : q # p => stored'[q] = stored[q] /\ known'[q] = known[q]
    BY <2>2 DEF ReadInv, TypeOK
  <2>7. \A q \in Profiles : known'[q] # Unsure => Reads(stored'[q], known'[q])
    BY <2>4, <2>5, <2>6 DEF ReadInv, FilesInv
  <2>8. FilesInv'
    BY <2>3, <2>7 DEF ReadInv, FilesInv
  <2>9. QED
    BY <2>3, <2>8 DEF ScanInv
<1>4. CASE ScanFails
  BY <1>4 DEF ScanFails, ReadInv, ScanInv, FilesInv, files, ghosts
<1>5. QED
  BY <1>1, <1>2, <1>3, <1>4 DEF Scanning

(* A plan is executed while no scan runs. *)
LEMMA PromotingReads ==
  ASSUME ReadInv, Promoting
  PROVE  ScanInv' /\ FilesInv'
<1>1. CASE Promote
  BY <1>1 DEF Promote, ReadInv, ScanInv, FilesInv
<1>2. CASE StartApply
  BY <1>2 DEF StartApply, ReadInv, ScanInv, FilesInv, files, ghosts
<1>3. ASSUME NEW a \in apply.todo, apply # Idle, ApplyStep(a)
      PROVE  ScanInv' /\ FilesInv'
  BY <1>3 DEF ApplyStep, ReadInv, ScanInv, FilesInv, files, ghosts
<1>4. ASSUME NEW a \in apply.todo, apply # Idle, ApplyFails(a)
      PROVE  ScanInv' /\ FilesInv'
  BY <1>4 DEF ApplyFails, ReadInv, ScanInv, FilesInv, files
<1>5. CASE ApplyDone
  BY <1>5 DEF ApplyDone, NewScan, NoRows, ReadInv, ScanInv, FilesInv, files
<1>6. QED
  BY <1>1, <1>2, <1>3, <1>4, <1>5 DEF Promoting

(* Deferrals read no table. *)
LEMMA DeferringReads ==
  ASSUME ReadInv, Deferring
  PROVE  ScanInv' /\ FilesInv'
<1>1. UNCHANGED <<live, scan, apply, stored, baselines, known, acked>>
  BY DEF Deferring, StartDefer, StartUndo, SaveOverrides, DamageOverrides, files, ghosts
<1>2. QED
  BY <1>1 DEF ReadInv, ScanInv, FilesInv

(* A change ends what a scan under way may claim; a baseline is a copy. *)
LEMMA ChangingReads ==
  ASSUME ReadInv
  PROVE  /\ \A p \in Profiles, x \in Plugins : ChangePlugin(p, x) => ScanInv' /\ FilesInv'
         /\ \A done : UpgradePending(done) => ScanInv' /\ FilesInv'
         /\ \A p \in Profiles, n \in Names : Ack(p, n) \/ DeleteBaseline(p, n) => ScanInv' /\ FilesInv'
<1>1. ASSUME NEW p \in Profiles, NEW x \in Plugins, ChangePlugin(p, x)
      PROVE  ScanInv' /\ FilesInv'
  <2>1. UNCHANGED <<apply, stored, baselines, known, acked>>
    BY <1>1 DEF ChangePlugin, files
  <2>2. scan' = IF scan.profile = p THEN [scan EXCEPT !.whole = FALSE] ELSE scan
    BY <1>1 DEF ChangePlugin
  <2>3. CASE scan = Idle
    <3>1. scan' = Idle
      BY <2>2, <2>3, DistinctAssumption DEF Idle
    <3>2. QED
      BY <2>1, <3>1 DEF ReadInv, ScanInv, FilesInv
  <2>4. CASE scan # Idle /\ scan.profile = p
    <3>1. ~scan'.whole /\ apply = Idle
      BY <2>2, <2>4, ScanFacts DEF ReadInv, ScanInv, ScanState
    <3>2. QED
      BY <2>1, <3>1 DEF ReadInv, ScanInv, FilesInv
  <2>5. CASE scan # Idle /\ scan.profile # p
    <3>1. scan' = scan /\ live'[scan.profile] = live[scan.profile]
      BY <1>1, <2>2, <2>5, ScanFacts DEF ChangePlugin, ReadInv, TypeOK
    <3>2. QED
      BY <2>1, <3>1 DEF ReadInv, ScanInv, FilesInv
  <2>6. QED
    BY <2>3, <2>4, <2>5
<1>2. ASSUME NEW done, UpgradePending(done)
      PROVE  ScanInv' /\ FilesInv'
  BY <1>2 DEF UpgradePending, NewScan, NoRows, ReadInv, ScanInv, FilesInv, files
<1>3. ASSUME NEW p \in Profiles, NEW n \in Names, Ack(p, n)
      PROVE  ScanInv' /\ FilesInv'
  <2>1. UNCHANGED <<live, scan, apply, stored, known>>
    BY <1>3 DEF Ack
  <2>2. /\ baselines'[p][n] = stored[p] /\ acked'[p][n] = known[p]
        /\ \A q \in Profiles, m \in Names : <<q, m>> # <<p, n>> =>
             baselines'[q][m] = baselines[q][m] /\ acked'[q][m] = acked[q][m]
    BY <1>3 DEF Ack, Put, ReadInv, TypeOK
  <2>3. QED
    BY <2>1, <2>2 DEF ReadInv, ScanInv, FilesInv
<1>4. ASSUME NEW p \in Profiles, NEW n \in Names, DeleteBaseline(p, n)
      PROVE  ScanInv' /\ FilesInv'
  <2>1. UNCHANGED <<live, scan, apply, stored, known>>
    BY <1>4 DEF DeleteBaseline
  <2>2. /\ acked'[p][n] = Unsure
        /\ \A q \in Profiles, m \in Names : <<q, m>> # <<p, n>> =>
             baselines'[q][m] = baselines[q][m] /\ acked'[q][m] = acked[q][m]
    BY <1>4 DEF DeleteBaseline, Put, ReadInv, TypeOK
  <2>3. QED
    BY <2>1, <2>2 DEF ReadInv, ScanInv, FilesInv
<1>5. QED
  BY <1>1, <1>2, <1>3, <1>4

(* So every step keeps it. *)
LEMMA ReadingInductive ==
  /\ ReportsInit => ReadInv
  /\ ReadInv /\ [ReportsNext]_reportVars => ReadInv'
<1>1. ReportsInit => ReadInv
  BY Typed, ReadingStarts DEF ReadInv
<1>2. ASSUME ReadInv, Next
      PROVE  ScanInv' /\ FilesInv'
  BY <1>2, ScanningReads, PromotingReads, DeferringReads, ChangingReads DEF Next
<1>3. ASSUME ReadInv, UNCHANGED unread
      PROVE  ScanInv' /\ FilesInv'
  BY <1>3 DEF ReadInv, ScanInv, FilesInv, unread, files, ghosts
<1>4. ReportsNext => Next \/ UNCHANGED unread
  BY ReadersStep
<1>5. ReadInv /\ [ReportsNext]_reportVars => TypeOK'
  BY Typed DEF ReadInv
<1>6. QED
  BY <1>1, <1>2, <1>3, <1>4, <1>5, Stutter DEF ReadInv

(* What is stored, and what was acknowledged, says of each plugin what the     *)
(* instance held, if the scan it comes from was undisturbed and whole: two     *)
(* commands, an upgrade or an administrator may come in between at any moment  *)
(* (PluginScanner.scan, save_plugin_inventory, `drift --ack`).                 *)
THEOREM FilesAreRead == ReportsSpec => []ReadInv
  BY ReadingInductive, PTL DEF ReportsSpec

-----------------------------------------------------------------------------
(* What is reported.                                                       *)

(* The deferrals in force are those the user made and did not take back,       *)
(* unless two edits of the file overlapped.                                    *)
OverridesInv == ~clash => Loaded = granted

(* Every step keeps it: what a clerk writes is what it read, edited. *)
LEMMA OverridesInductive ==
  /\ ReportsInit => OverridesInv
  /\ TypeOK /\ OverridesInv /\ [ReportsNext]_reportVars => OverridesInv'
<1>1. ReportsInit => OverridesInv
  BY DEF ReportsInit, Init, OverridesInv, Loaded
<1>2. ASSUME OverridesInv, UNCHANGED <<overrides, granted, clash>>
      PROVE  OverridesInv'
  BY <1>2 DEF OverridesInv, Loaded
<1>3. ASSUME TypeOK, OverridesInv, NEW c \in Clerks, SaveOverrides(c)
      PROVE  OverridesInv'
  <2>1. clerk[c] \in Errand
    BY <1>3 DEF SaveOverrides, TypeOK
  <2>2. overrides' \in SUBSET FindingKeys
    BY <1>3, <2>1 DEF SaveOverrides, Errand
  <2>3. Loaded' = overrides'
    BY <2>2, DistinctAssumption DEF Loaded
  <2>4. ~clash' => ~clash /\ Loaded = clerk[c].existing
    BY <1>3 DEF SaveOverrides
  <2>5. clerk[c].existing = granted => overrides' = granted'
    BY <1>3 DEF SaveOverrides
  <2>6. QED
    BY <1>3, <2>3, <2>4, <2>5 DEF OverridesInv
<1>4. ASSUME DamageOverrides
      PROVE  OverridesInv'
  BY <1>4 DEF DamageOverrides, OverridesInv, Loaded
<1>5. Next => \/ UNCHANGED <<overrides, granted, clash>>
              \/ \E c \in Clerks : SaveOverrides(c)
              \/ DamageOverrides
  BY DEF Next, Scanning, StartScan, ReadTable, SaveScan, ScanFails, Promoting, Promote, StartApply,
         ApplyStep, ApplyFails, ApplyDone, Deferring, StartDefer, StartUndo, ChangePlugin,
         UpgradePending, Ack, DeleteBaseline, files, ghosts
<1>6. UNCHANGED unread => UNCHANGED <<overrides, granted, clash>>
  BY DEF unread, files, ghosts
<1>7. QED
  BY <1>1, <1>2, <1>3, <1>4, <1>5, <1>6, ReadersStep, Stutter

(* The findings about a plugin, one kind at a time. *)
LEMMA FindingsAre ==
  ASSUME NEW inventory, NEW x, NEW k
  PROVE  <<x, k>> \in FindingsOf(inventory) <=>
           /\ x \in DOMAIN inventory
           /\ \/ k = "eol" /\ x \in DOMAIN Eol
              \/ \E e \in Cves[x] : e.id = k /\ inventory[x].version \in e.affected \ Unparseable
              \/ /\ k = "license" /\ inventory[x].vendor # NoVendor
                 /\ \/ inventory[x].vendor \in Forbidden
                    \/ inventory[x].vendor \notin Allowed /\ Allowed # {}
<1> DEFINE Of(y) == CheckEol(y) \cup CheckCves(y, inventory[y].version) \cup CheckLicense(y, inventory[y].vendor)
<1>1. \A y, f : f \in Of(y) => f.plugin = y
  BY DEF CheckEol, CheckCves, CheckLicense, Finding
<1>2. <<x, k>> \in FindingsOf(inventory) <=> \E f \in ComputeAdvisories(inventory) : f.plugin = x /\ f.kind = k
  BY DEF FindingsOf
<1>3. \A f : f \in ComputeAdvisories(inventory) <=> \E y \in DOMAIN inventory : f \in Of(y)
  BY DEF ComputeAdvisories
<1>4. <<x, k>> \in FindingsOf(inventory) <=> x \in DOMAIN inventory /\ \E f \in Of(x) : f.kind = k
  <2> HIDE DEF Of
  <2>1. QED
    BY <1>1, <1>2, <1>3
<1>9. \A kind, severity : Finding(x, kind, severity).kind = kind
  BY DEF Finding
<1>5. (\E f \in CheckEol(x) : f.kind = k) <=> k = "eol" /\ x \in DOMAIN Eol
  BY <1>9 DEF CheckEol
<1>6. (\E f \in CheckCves(x, inventory[x].version) : f.kind = k)
        <=> \E e \in Cves[x] : e.id = k /\ inventory[x].version \in e.affected \ Unparseable
  <2> DEFINE S == {e \in Cves[x] : inventory[x].version \in e.affected \ Unparseable}
  <2>1. CheckCves(x, inventory[x].version) = {Finding(x, e.id, e.severity) : e \in S}
    BY DEF CheckCves
  <2> HIDE DEF S
  <2>2. (\E f \in CheckCves(x, inventory[x].version) : f.kind = k) <=> \E e \in S : e.id = k
    BY <1>9, <2>1
  <2>3. QED
    BY <2>2 DEF S
<1>7. (\E f \in CheckLicense(x, inventory[x].vendor) : f.kind = k) <=>
        /\ k = "license" /\ inventory[x].vendor # NoVendor
        /\ \/ inventory[x].vendor \in Forbidden
           \/ inventory[x].vendor \notin Allowed /\ Allowed # {}
  BY <1>9 DEF CheckLicense
<1>8. QED
  BY <1>4, <1>5, <1>6, <1>7

(* A plugin in a table that lists whatever is installed is in the inventory if *)
(* and only if it is installed.                                                *)
LEMMA TabledRead ==
  ASSUME NEW inventory, NEW holds \in Holdings, Reads(inventory, holds), NEW x \in Plugins, Tabled(x)
  PROVE  x \in DOMAIN inventory <=> holds[x] # Absent
  BY DEF Reads, Listable

(* No drift: nothing differs from what was acknowledged. *)
LEMMA DriftEarned ==
  ASSUME NEW base, NEW was \in Holdings, Reads(base, was),
         NEW current, NEW now \in Holdings, Reads(current, now),
         Drift(base, current) = {}, NEW x \in Plugins, Tabled(x)
  PROVE  Same(now[x], was[x])
<1>1. /\ x \in DOMAIN base <=> was[x] # Absent
      /\ x \in DOMAIN current <=> now[x] # Absent
  BY TabledRead
<1>2. x \in DOMAIN base \cup DOMAIN current => DriftStatus(base, current, x) = "same"
  BY DEF Drift
<1>3. CASE x \in DOMAIN base /\ x \in DOMAIN current
  <2>1. base[x].version = current[x].version /\ base[x].active = current[x].active
    BY <1>2, <1>3 DEF DriftStatus
  <2>2. /\ base[x].version = was[x].version /\ base[x].active = was[x].active
        /\ current[x].version = now[x].version /\ current[x].active = now[x].active
    BY <1>3 DEF Reads, Says
  <2>3. QED
    BY <2>1, <2>2 DEF Same
<1>4. CASE x \notin DOMAIN base /\ x \notin DOMAIN current
  BY <1>1, <1>4 DEF Same
<1>5. CASE x \in DOMAIN base /\ x \notin DOMAIN current
  BY <1>2, <1>5 DEF DriftStatus
<1>6. CASE x \notin DOMAIN base /\ x \in DOMAIN current
  BY <1>2, <1>6 DEF DriftStatus
<1>7. QED
  BY <1>3, <1>4, <1>5, <1>6

(* No pending update: none was released. *)
LEMMA UpToDateEarned ==
  ASSUME NEW inventory, NEW holds \in Holdings, Reads(inventory, holds),
         OutdatedNotice(inventory) # "updates",
         NEW x \in Plugins, ListedIn[x] \cap {"sys_store_app", "appmanager"} # {}
  PROVE  holds[x].version \in {None, MaxVersion}
<1>1. Pending(inventory) = {}
  BY DEF OutdatedNotice
<1>2. CASE holds[x] = Absent
  BY <1>2 DEF Absent
<1>3. CASE holds[x] # Absent
  <2>1. holds[x].version \in 1 .. MaxVersion /\ MaxVersion \in Nat /\ MaxVersion # None
    BY <1>3, HeldFacts, CatalogAssumption DEF None
  <2>2. CASE x \in DOMAIN inventory
    <3>1. inventory[x].latest \in {None, inventory[x].version}
      BY <1>1, <2>2 DEF Pending
    <3>2. /\ inventory[x].version = holds[x].version
          /\ holds[x].version # MaxVersion => inventory[x].latest = MaxVersion
      BY <2>2 DEF Reads, Says
    <3>3. QED
      BY <2>1, <3>1, <3>2
  <2>3. CASE x \notin DOMAIN inventory
    <3>1. "appmanager" \in ListedIn[x] /\ ~(holds[x].version < MaxVersion)
      BY <1>3, <2>3 DEF Reads, Listable, Tabled
    <3>2. QED
      BY <2>1, <3>1
  <2>4. QED
    BY <2>2, <2>3
<1>4. QED
  BY <1>2, <1>3

(* An orphan has neither records nor, in a table that lists whatever is        *)
(* installed, dependents.                                                      *)
LEMMA OrphansEarned ==
  ASSUME NEW inventory, NEW holds \in Holdings, Reads(inventory, holds), NEW x \in Orphans(inventory)
  PROVE  /\ ~holds[x].used
         /\ \A y \in Plugins : Tabled(y) /\ x \in DependsOn[y] => holds[y] = Absent
<1>1. x \in DOMAIN inventory /\ inventory[x].record_counts = "none"
  BY DEF Orphans
<1>2. "none" \in {"unknown", CountIn(holds[x])}
  BY <1>1 DEF Reads, Says
<1>3. ~holds[x].used
  BY <1>2 DEF CountIn
<1>4. ASSUME NEW y \in Plugins, Tabled(y), x \in DependsOn[y], holds[y] # Absent
      PROVE  FALSE
  <2>1. y \in DOMAIN inventory /\ inventory[y].depends_on = DependsOn[y]
    BY <1>4, TabledRead DEF Reads, Says
  <2>2. QED
    BY <1>4, <2>1 DEF Orphans
<1>5. QED
  BY <1>3, <1>4

(* No advisory is missed or made up. *)
LEMMA AdvisoriesEarned ==
  ASSUME NEW inventory, NEW holds \in Holdings, Reads(inventory, holds),
         NEW x \in Plugins, Tabled(x), holds[x] # Absent
  PROVE  /\ \A id \in {e.id : e \in Cves[x]} :
              <<x, id>> \in FindingsOf(inventory)
                <=> \E e \in Cves[x] : e.id = id /\ holds[x].version \in e.affected \ Unparseable
         /\ "sys_store_app" \in ListedIn[x] /\ Vendor[x] \in Forbidden \ {NoVendor} =>
              <<x, "license">> \in FindingsOf(inventory)
         /\ Vendor[x] \in Allowed \ Forbidden => <<x, "license">> \notin FindingsOf(inventory)
<1>1. /\ x \in DOMAIN inventory
      /\ inventory[x].version = holds[x].version
      /\ inventory[x].vendor = IF "v_plugin" \in ListedIn[x] /\ "sys_store_app" \notin ListedIn[x]
                                 THEN NoVendor ELSE Vendor[x]
  BY TabledRead DEF Reads, Says
<1>2. \A e \in Cves[x] : e.id # "eol" /\ e.id # "license"
  BY CatalogAssumption
<1>3. ASSUME NEW id \in {e.id : e \in Cves[x]}
      PROVE  <<x, id>> \in FindingsOf(inventory)
                <=> \E e \in Cves[x] : e.id = id /\ holds[x].version \in e.affected \ Unparseable
  BY <1>1, <1>2, FindingsAre
<1>4. "sys_store_app" \in ListedIn[x] /\ Vendor[x] \in Forbidden \ {NoVendor} =>
        <<x, "license">> \in FindingsOf(inventory)
  BY <1>1, FindingsAre
<1>5. Vendor[x] \in Allowed \ Forbidden => <<x, "license">> \notin FindingsOf(inventory)
  BY <1>1, <1>2, FindingsAre
<1>6. QED
  BY <1>3, <1>4, <1>5

(* What was known when a file was read is what an instance holds. *)
LEMMA KnownFacts ==
  ASSUME ReadInv, NEW p \in Profiles
  PROVE  /\ known[p] # Unsure => known[p] \in Holdings /\ Reads(stored[p], known[p])
         /\ \A n \in Names : acked[p][n] # Unsure =>
              acked[p][n] \in Holdings /\ Reads(baselines[p][n], acked[p][n])
  BY DEF ReadInv, FilesInv, TypeOK

(* The four reports follow from the files, the deferrals from the overrides. *)
LEMMA EarnedReports ==
  ASSUME ReadInv, OverridesInv
  PROVE  ReportsAreEarned
<1>1. ASSUME NEW p \in Profiles, known[p] # Unsure
      PROVE  /\ \A n \in Names : NoDriftIsEarned(p, n)
             /\ UpToDateIsEarned(p) /\ OrphansAreEarned(p) /\ AdvisoriesAreEarned(p)
  <2>1. known[p] \in Holdings /\ Reads(stored[p], known[p])
    BY <1>1, KnownFacts
  <2>2. ASSUME NEW n \in Names
        PROVE  NoDriftIsEarned(p, n)
    BY <2>1, KnownFacts, DriftEarned DEF NoDriftIsEarned
  <2>3. UpToDateIsEarned(p)
    BY <2>1, UpToDateEarned DEF UpToDateIsEarned
  <2>4. OrphansAreEarned(p)
    BY <2>1, OrphansEarned DEF OrphansAreEarned
  <2>5. AdvisoriesAreEarned(p)
    BY <2>1, AdvisoriesEarned DEF AdvisoriesAreEarned
  <2>6. QED
    BY <2>2, <2>3, <2>4, <2>5
<1>2. ~clash => Shown(stored[Target]) = FindingsOf(stored[Target]) \ granted
  BY DEF OverridesInv, Shown, Deferred
<1>3. QED
  BY <1>1, <1>2 DEF ReportsAreEarned

(* The advice follows too. *)
LEMMA EarnedAdvice ==
  ASSUME ReadInv, OverridesInv
  PROVE  AdviceIsEarned
<1> DEFINE inventory == stored[Target]
           holds == known[Target]
<1> SUFFICES ASSUME inventory # NoInventory, holds # Unsure
             PROVE  /\ NothingToRecommend(inventory) =>
                         \A x \in DOMAIN inventory : Tabled(x) =>
                           /\ \A e \in Cves[x] : holds[x].version \notin e.affected \ Unparseable
                           /\ holds[x].used
                                \/ inventory[x].record_counts = "unknown"
                                \/ \E y \in Plugins : holds[y] # Absent /\ x \in DependsOn[y]
                    /\ NothingToRemediate(inventory) /\ ~clash => granted = {}
                    /\ \A x \in Plugins : Tabled(x) /\ holds[x] # Absent =>
                         \A e \in Cves[x] :
                           holds[x].version \in e.affected \ Unparseable /\ e.severity = "critical"
                             => Finding(x, e.id, "critical") \in DeactivationContext(inventory).severe
  BY DEF AdviceIsEarned
<1>1. holds \in Holdings /\ Reads(inventory, holds)
  BY KnownFacts DEF Profiles
<1> HIDE DEF inventory, holds
<1>2. ASSUME NothingToRecommend(inventory), NEW x \in DOMAIN inventory, Tabled(x)
      PROVE  /\ \A e \in Cves[x] : holds[x].version \notin e.affected \ Unparseable
             /\ holds[x].used
                  \/ inventory[x].record_counts = "unknown"
                  \/ \E y \in Plugins : holds[y] # Absent /\ x \in DependsOn[y]
  <2>1. x \in Plugins /\ Says(inventory[x], x, holds[x])
    BY <1>1 DEF Reads
  <2>2. ASSUME NEW e \in Cves[x], holds[x].version \in e.affected \ Unparseable
        PROVE  FALSE
    <3>1. <<x, e.id>> \in FindingsOf(inventory)
      BY <2>1, <2>2, FindingsAre DEF Says
    <3>2. QED
      BY <1>2, <3>1 DEF NothingToRecommend, FindingsOf
  <2>3. x \notin Orphans(inventory)
    BY <1>2 DEF NothingToRecommend
  <2>4. CASE inventory[x].record_counts # "none"
    BY <2>1, <2>2, <2>4 DEF Says, CountIn
  <2>5. CASE inventory[x].record_counts = "none"
    <3>1. PICK y \in DOMAIN inventory : x \in inventory[y].depends_on
      BY <2>3, <2>5 DEF Orphans
    <3>2. y \in Plugins /\ holds[y] # Absent /\ x \in DependsOn[y]
      BY <1>1, <3>1 DEF Reads, Says, Listable
    <3>3. QED
      BY <2>2, <3>2
  <2>6. QED
    BY <2>2, <2>4, <2>5
<1>3. NothingToRemediate(inventory) /\ ~clash => granted = {}
  BY DEF NothingToRemediate, RoadmapContext, OverridesInv
<1>4. ASSUME NEW x \in Plugins, Tabled(x), holds[x] # Absent,
             NEW e \in Cves[x], holds[x].version \in e.affected \ Unparseable, e.severity = "critical"
      PROVE  Finding(x, e.id, "critical") \in DeactivationContext(inventory).severe
  <2>1. x \in DOMAIN inventory /\ inventory[x].version = holds[x].version
    BY <1>1, <1>4, TabledRead DEF Reads, Says
  <2>2. Finding(x, e.id, e.severity) \in CheckCves(x, inventory[x].version)
    BY <1>4, <2>1 DEF CheckCves
  <2>3. Finding(x, e.id, e.severity) \in ComputeAdvisories(inventory)
    BY <2>1, <2>2 DEF ComputeAdvisories
  <2>4. Finding(x, e.id, "critical").severity = "critical"
    BY DEF Finding
  <2>5. QED
    BY <1>4, <2>3, <2>4 DEF DeactivationContext, Severe
<1>5. QED
  BY <1>2, <1>3, <1>4

-----------------------------------------------------------------------------
(* Promotion.                                                              *)

(* What a promotion does about a plugin, said of what the two instances hold.  *)
NeedOf(s, t) ==
  CASE s = Absent                  -> "skip"
    [] s # Absent /\ t = Absent    -> "install"
    [] s # Absent /\ t # Absent /\ s.version # t.version ->
         IF Newer(s.version, t.version) THEN "upgrade" ELSE "skip"
    [] s # Absent /\ t # Absent /\ s.version = t.version ->
         IF s.active # t.active /\ s.active THEN "activate" ELSE "skip"

Need(x) == NeedOf(live[Source][x], live[Target][x])

Done(a) ==
  /\ live[Target][a.plugin] # Absent
  /\ live[Target][a.plugin].version = a.target
  /\ a.action = "activate" => live[Target][a.plugin].active

Tracked == round # "none" \/ rounds # 0
TabledPlan == {a \in plan : Tabled(a.plugin)}
Todo == IF apply = Idle THEN plan ELSE apply.todo

(* The plan of a round names each plugin once, at the source's version.        *)
PlanInv ==
  /\ apply # Idle => apply.todo \subseteq plan
  /\ Tracked => /\ plan \in SUBSET Action
                /\ \A a, b \in plan : a.plugin = b.plugin => a = b
                /\ \A a \in TabledPlan : /\ live[Source][a.plugin] # Absent
                                         /\ a.target = live[Source][a.plugin].version

(* Before its plan was executed, and after.                                    *)
PlannedInv ==
  round = "planned" =>
    /\ \A a \in TabledPlan : IF a \in Todo THEN Need(a.plugin) = a.action ELSE Done(a)
    /\ \A x \in Plugins : Tabled(x) /\ (\A a \in plan : a.plugin # x) => Need(x) = "skip"
    /\ rounds # 0 => \A a \in TabledPlan : a.action = "activate"
    /\ rounds = 2 => TabledPlan = {}
AppliedInv == Tracked /\ round # "planned" => \A a \in TabledPlan : Done(a)

(* One round leaves activations at most, another one nothing.                  *)
NeedInv ==
  \A x \in Plugins : Tabled(x) =>
    /\ rounds # 0 \/ round = "applied" => Need(x) \in {"activate", "skip"}
    /\ rounds = 2 \/ (rounds # 0 /\ round = "applied") => Need(x) = "skip"

(* What is known of both instances.                                            *)
RoundKnownInv ==
  /\ round # "none" => known[Source] = live[Source]
  /\ rounds = 2 => \A p \in Profiles : /\ known[p] # Unsure
                                       /\ \A x \in Plugins : Tabled(x) => known[p][x] = live[p][x]

RoundInv == PlanInv /\ PlannedInv /\ AppliedInv /\ NeedInv /\ RoundKnownInv

(* The plan of two inventories does what the instances they were read from     *)
(* need.                                                                       *)
LEMMA PlanReads ==
  ASSUME NEW a, NEW s \in Holdings, Reads(a, s), NEW b, NEW t \in Holdings, Reads(b, t),
         NEW x \in Plugins, Tabled(x)
  PROVE  /\ x \in DOMAIN a => /\ s[x] # Absent /\ a[x].version = s[x].version
                              /\ ActionFor(a, b, x) = NeedOf(s[x], t[x])
         /\ x \notin DOMAIN a => NeedOf(s[x], t[x]) = "skip"
<1>1. /\ x \in DOMAIN a <=> s[x] # Absent
      /\ x \in DOMAIN b <=> t[x] # Absent
  BY TabledRead
<1>2. /\ x \in DOMAIN a => a[x].version = s[x].version /\ a[x].active = s[x].active
      /\ x \in DOMAIN b => b[x].version = t[x].version /\ b[x].active = t[x].active
  BY DEF Reads, Says
<1>3. x \notin DOMAIN a => NeedOf(s[x], t[x]) = "skip"
  BY <1>1 DEF NeedOf
<1>4. ASSUME x \in DOMAIN a
      PROVE  ActionFor(a, b, x) = NeedOf(s[x], t[x])
  <2>1. CASE x \notin DOMAIN b
    BY <1>1, <1>4, <2>1 DEF ActionFor, DiffStatus, NeedOf
  <2>2. CASE x \in DOMAIN b /\ s[x].version # t[x].version
    <3>1. DiffStatus(a, b, x) = "version_mismatch"
      BY <1>2, <1>4, <2>2 DEF DiffStatus
    <3>2. QED
      BY <1>1, <1>2, <1>4, <2>2, <3>1 DEF ActionFor, NeedOf
  <2>3. CASE x \in DOMAIN b /\ s[x].version = t[x].version
    <3>1. DiffStatus(a, b, x) = IF s[x].active # t[x].active THEN "state_mismatch" ELSE "same"
      BY <1>2, <1>4, <2>3 DEF DiffStatus
    <3>2. QED
      BY <1>1, <1>2, <1>4, <2>3, <3>1 DEF ActionFor, NeedOf
  <2>4. QED
    BY <2>1, <2>2, <2>3
<1>5. QED
  BY <1>1, <1>2, <1>3, <1>4

(* A plugin at the source's version needs an activation at most. *)
LEMMA AtSourceVersion ==
  ASSUME NEW s \in Held, NEW t \in Held, s # Absent, t # Absent, t.version = s.version
  PROVE  NeedOf(s, t) \in {"activate", "skip"} /\ (t.active => NeedOf(s, t) = "skip")
<1>1. s.active \in BOOLEAN /\ t.active \in BOOLEAN
  BY DEF Held
<1>2. QED
  BY <1>1 DEF NeedOf

(* What an action makes of the plugin it was planned for. *)
LEMMA ActionLands ==
  ASSUME NEW s \in Held, NEW t \in Held, s # Absent, NEW action, NeedOf(s, t) = action, action # "skip",
         NEW v, v = s.version,
         NEW after, after = IF action = "activate" THEN Activated(t) ELSE AtVersion(t, v)
  PROVE  after # Absent /\ after.version = v /\ (action = "activate" => after.active)
<1>1. s \in [version : 1 .. MaxVersion, active : BOOLEAN, used : BOOLEAN]
  BY DEF Held
<1>2. v \in 1 .. MaxVersion /\ v # None
  BY <1>1, CatalogAssumption DEF None
<1>3. t \in [version : Nat, active : BOOLEAN, used : BOOLEAN]
  <2>1. Absent \in [version : Nat, active : BOOLEAN, used : BOOLEAN]
    BY DEF Absent, None
  <2>2. 1 .. MaxVersion \subseteq Nat
    BY CatalogAssumption
  <2>3. QED
    BY <2>1, <2>2 DEF Held
<1>4. CASE action = "activate"
  <2>1. t # Absent /\ t.version = s.version
    BY <1>4 DEF NeedOf
  <2>2. after.version = t.version /\ after.active
    BY <1>3, <1>4 DEF Activated
  <2>3. QED
    BY <1>2, <2>1, <2>2 DEF Absent
<1>5. CASE action # "activate"
  <2>1. after.version = v
    BY <1>3, <1>5 DEF AtVersion
  <2>2. QED
    BY <1>2, <1>5, <2>1 DEF Absent
<1>6. QED
  BY <1>4, <1>5

(* What was done already changes nothing when it is done again. *)
LEMMA ActionIdle ==
  ASSUME NEW t \in Held, t # Absent, NEW a, t.version = a.target, a.action = "activate" => t.active
  PROVE  (IF a.action = "activate" THEN Activated(t) ELSE AtVersion(t, a.target)) = t
<1>1. t \in [version : 1 .. MaxVersion, active : BOOLEAN, used : BOOLEAN]
  BY DEF Held
<1>2. a.action = "activate" => [t EXCEPT !.active = TRUE] = t
  BY <1>1
<1>3. [t EXCEPT !.version = a.target] = t
  BY <1>1
<1>4. QED
  BY <1>2, <1>3 DEF Activated, AtVersion

(* What each instance holds of a plugin. *)
LEMMA LiveFacts ==
  ASSUME TypeOK
  PROVE  /\ Source \in Profiles /\ Target \in Profiles /\ Source # Target
         /\ live[Source] \in Holdings /\ live[Target] \in Holdings
         /\ \A x \in Plugins : live[Source][x] \in Held /\ live[Target][x] \in Held
  BY CatalogAssumption DEF TypeOK, Profiles, Holdings

(* Nothing of a round is left when something else has happened. *)
LEMMA RoundReset ==
  ASSUME RoundInv, rounds' = 0, round' = "none", plan' = plan,
         apply' = apply \/ apply' = Idle
  PROVE  RoundInv'
  BY DEF RoundInv, PlanInv, PlannedInv, AppliedInv, NeedInv, RoundKnownInv, Tracked

(* A round goes on when nothing it depends on changes. *)
LEMMA RoundKept ==
  ASSUME TypeOK, RoundInv, UNCHANGED <<live, known, plan, round, rounds>>,
         apply' = apply \/ (apply = Idle /\ apply'.todo = plan)
  PROVE  RoundInv'
<1>1. PlanInv'
  BY DEF RoundInv, PlanInv, Tracked, TabledPlan
<1>2. PlannedInv'
  <2>1. Todo' = Todo
    BY DEF Todo
  <2>2. QED
    BY <2>1 DEF RoundInv, PlannedInv, Need, Done, TabledPlan
<1>3. AppliedInv' /\ NeedInv' /\ RoundKnownInv'
  BY DEF RoundInv, AppliedInv, NeedInv, RoundKnownInv, Need, Done, TabledPlan, Tracked
<1>4. QED
  BY <1>1, <1>2, <1>3 DEF RoundInv

(* A plan made of what both instances hold starts a round. *)
LEMMA PromoteStep ==
  ASSUME ReadInv, RoundInv, Promote
  PROVE  RoundInv'
<1>1. CASE known # live
  BY <1>1 DEF Promote, RoundInv, PlanInv, PlannedInv, AppliedInv, NeedInv, RoundKnownInv, Tracked
<1>2. CASE known = live
  <2> DEFINE a == stored[Source]
             b == stored[Target]
  <2>1. TypeOK
    BY DEF ReadInv
  <2>2. /\ live[Source] \in Holdings /\ live[Target] \in Holdings
        /\ known[Source] # Unsure /\ known[Target] # Unsure
    BY <1>2, <2>1, LiveFacts, DistinctAssumption
  <2>3. Reads(a, live[Source]) /\ Reads(b, live[Target])
    BY <1>2, <2>1, <2>2, LiveFacts, KnownFacts
  <2>4. /\ plan' = PlanOf(a, b) /\ round' = "planned" /\ rounds' = rounds
        /\ apply = Idle /\ UNCHANGED <<live, apply, known>>
    BY <1>2 DEF Promote
  <2>5. plan' \in SUBSET Action
    <3>1. a \in Inventories /\ b \in Inventories
      BY <2>1, LiveFacts DEF Promote, TypeOK
    <3>2. QED
      BY <2>4, <3>1, PlanType
  <2> HIDE DEF a, b
  <2>6. \A x \in Plugins : Tabled(x) =>
          /\ x \in DOMAIN a => /\ live[Source][x] # Absent /\ a[x].version = live[Source][x].version
                               /\ ActionFor(a, b, x) = Need(x)
          /\ x \notin DOMAIN a => Need(x) = "skip"
    BY <2>2, <2>3, PlanReads DEF Need
  <2>7. /\ \A c \in plan' : /\ c.plugin \in DOMAIN a /\ c.action = ActionFor(a, b, c.plugin)
                            /\ c.action # "skip" /\ c.target = a[c.plugin].version
        /\ \A x \in DOMAIN a : ActionFor(a, b, x) # "skip" => \E c \in plan' : c.plugin = x
        /\ \A c, d \in plan' : c.plugin = d.plugin => c = d
    <3> DEFINE Step(x) == [action |-> ActionFor(a, b, x), plugin |-> x, target |-> a[x].version]
    <3>1. plan' = {Step(x) : x \in {y \in DOMAIN a : ActionFor(a, b, y) # "skip"}}
      BY <2>4 DEF PlanOf
    <3>2. \A x : Step(x).action = ActionFor(a, b, x) /\ Step(x).plugin = x /\ Step(x).target = a[x].version
      OBVIOUS
    <3> HIDE DEF Step
    <3>3. \A c \in plan' : \E x \in DOMAIN a : c = Step(x) /\ ActionFor(a, b, x) # "skip"
      BY <3>1
    <3>4. \A x \in DOMAIN a : ActionFor(a, b, x) # "skip" => Step(x) \in plan'
      BY <3>1
    <3>5. QED
      BY <3>2, <3>3, <3>4
  <2>8. \A c \in plan' : c.plugin \in Plugins
    BY <2>5 DEF Action
  <2>9. ASSUME NEW c \in plan', Tabled(c.plugin)
        PROVE  /\ live[Source][c.plugin] # Absent /\ c.target = live[Source][c.plugin].version
               /\ Need(c.plugin) = c.action /\ c.action # "skip"
    BY <2>6, <2>7, <2>8, <2>9
  <2>10. ASSUME NEW x \in Plugins, Tabled(x), \A c \in plan' : c.plugin # x
         PROVE  Need(x) = "skip"
    BY <2>6, <2>7, <2>10
  <2>11. PlanInv'
    BY <2>4, <2>5, <2>7, <2>9 DEF PlanInv, TabledPlan
  <2>12. Todo' = plan'
    BY <2>4 DEF Todo
  <2>13. \A x \in Plugins : Need(x)' = Need(x)
    BY <2>4 DEF Need
  <2>14. PlannedInv'
    <3>1. \A c \in plan' : Tabled(c.plugin) => c \in Todo' /\ Need(c.plugin)' = c.action
      BY <2>8, <2>9, <2>12, <2>13
    <3>2. \A x \in Plugins : Tabled(x) /\ (\A c \in plan' : c.plugin # x) => Need(x)' = "skip"
      BY <2>10, <2>13
    <3>3. rounds # 0 => \A c \in plan' : Tabled(c.plugin) => c.action = "activate"
      BY <2>8, <2>9 DEF RoundInv, NeedInv
    <3>4. rounds = 2 => \A c \in plan' : ~Tabled(c.plugin)
      BY <2>8, <2>9 DEF RoundInv, NeedInv
    <3>5. QED
      BY <2>4, <3>1, <3>2, <3>3, <3>4 DEF PlannedInv, TabledPlan
  <2>15. NeedInv'
    BY <2>4, <2>13 DEF RoundInv, NeedInv
  <2>16. AppliedInv'
    BY <2>4 DEF AppliedInv
  <2>17. RoundKnownInv'
    BY <1>2, <2>4 DEF RoundInv, RoundKnownInv
  <2>18. QED
    BY <2>11, <2>14, <2>15, <2>16, <2>17 DEF RoundInv
<1>3. QED
  BY <1>1, <1>2

(* Each step of the plan does what it was planned for, or nothing if it was    *)
(* done before.                                                                *)
LEMMA ApplyStepKeeps ==
  ASSUME TypeOK, RoundInv, apply # Idle, NEW a \in apply.todo, ApplyStep(a)
  PROVE  RoundInv'
<1> DEFINE x == a.plugin
<1>1. /\ apply \in ApplyState /\ a \in Action /\ x \in Plugins /\ a \in plan
      /\ UNCHANGED <<plan, round, rounds, known>>
  BY ScanFacts DEF Action, ApplyStep, RoundInv, PlanInv, files, ghosts
<1>2. /\ live'[Source] = live[Source]
      /\ live'[Target][x] = Result(a)
      /\ \A y \in Plugins : y # x => live'[Target][y] = live[Target][y]
  BY <1>1, LiveFacts DEF ApplyStep, TypeOK, Put, Holdings
<1>3. apply' = [apply EXCEPT !.todo = apply.todo \ {a}] /\ apply'.todo = apply.todo \ {a}
  BY <1>1 DEF ApplyStep, ApplyState
<1>4. /\ apply' \in ApplyState /\ apply'.profile \in Profiles /\ apply' # Idle
  <2>1. apply' \in ApplyState
    BY <1>1, <1>3 DEF ApplyState
  <2>2. apply'.profile \in Profiles
    BY <2>1 DEF ApplyState, Profiles
  <2>3. QED
    BY <2>1, <2>2, DistinctAssumption DEF Idle
<1>5. PlanInv'
  BY <1>1, <1>2, <1>3 DEF RoundInv, PlanInv, Tracked, TabledPlan
<1>6. Todo = apply.todo /\ Todo' = apply.todo \ {a}
  BY <1>3, <1>4 DEF Todo
<1>7. live[Source][x] \in Held /\ live[Target][x] \in Held
  BY <1>1, LiveFacts
<1>8. \A y \in Plugins : y # x => Need(y)' = Need(y)
  BY <1>2 DEF Need
<1>9. \A b \in plan : Tracked /\ b # a => b.plugin # x /\ (Done(b)' <=> Done(b))
  BY <1>1, <1>2 DEF Done, RoundInv, PlanInv, Action
<1>10. CASE ~Tracked
  BY <1>1, <1>5, <1>10 DEF RoundInv, PlannedInv, AppliedInv, NeedInv, RoundKnownInv, Tracked
<1>11. CASE Tracked /\ ~Tabled(x)
  <2>1. \A y \in Plugins : Tabled(y) => Need(y)' = Need(y) /\ live'[Target][y] = live[Target][y]
    BY <1>2, <1>8, <1>11
  <2>2. \A b \in TabledPlan : b # a /\ b \in plan /\ b.plugin \in Plugins /\ (Done(b)' <=> Done(b))
    BY <1>1, <1>9, <1>11 DEF TabledPlan, RoundInv, PlanInv, Action
  <2>3. TabledPlan' = TabledPlan
    BY <1>1 DEF TabledPlan
  <2>4. PlannedInv'
    BY <1>1, <1>6, <2>1, <2>2, <2>3 DEF RoundInv, PlannedInv, TabledPlan
  <2>5. AppliedInv'
    BY <1>1, <2>2, <2>3 DEF RoundInv, AppliedInv, Tracked
  <2>6. NeedInv'
    BY <1>1, <2>1 DEF RoundInv, NeedInv
  <2>7. RoundKnownInv'
    BY <1>1, <1>2, <2>1 DEF RoundInv, RoundKnownInv, Profiles
  <2>8. QED
    BY <1>5, <2>4, <2>5, <2>6, <2>7 DEF RoundInv
<1>12. CASE Tracked /\ Tabled(x) /\ round = "planned"
  <2>1. a \in TabledPlan /\ TabledPlan' = TabledPlan
    BY <1>1, <1>12 DEF TabledPlan
  <2>2. /\ live[Source][x] # Absent /\ a.target = live[Source][x].version
        /\ Need(x) = a.action /\ a.action # "skip"
    BY <1>1, <1>6, <1>12, <2>1 DEF RoundInv, PlanInv, PlannedInv, Action
  <2>3. Done(a)'
    <3>1. /\ live'[Target][x] # Absent /\ live'[Target][x].version = a.target
          /\ a.action = "activate" => live'[Target][x].active
      BY <1>2, <1>7, <2>2, ActionLands DEF Result, Need
    <3>2. QED
      BY <3>1 DEF Done
  <2>4. live'[Target][x] \in Held
    <3>1. TypeOK'
      BY StepTyped DEF Next, Promoting
    <3>2. live'[Target] \in Holdings
      BY <3>1, CatalogAssumption DEF TypeOK, Profiles
    <3>3. QED
      BY <1>1, <3>2 DEF Holdings
  <2>5. /\ Need(x)' \in {"activate", "skip"}
        /\ a.action = "activate" => Need(x)' = "skip"
    BY <1>2, <1>7, <2>2, <2>3, <2>4, AtSourceVersion DEF Need, Done
  <2>6. PlannedInv'
    <3>1. \A b \in TabledPlan : IF b \in Todo' THEN Need(b.plugin)' = b.action ELSE Done(b)'
      <4>1. ASSUME NEW b \in TabledPlan, b # a
            PROVE  /\ b.plugin \in Plugins
                   /\ b \in Todo' <=> b \in Todo
                   /\ Need(b.plugin)' = Need(b.plugin) /\ (Done(b)' <=> Done(b))
        BY <1>1, <1>6, <1>8, <1>9, <1>12, <4>1 DEF TabledPlan, RoundInv, PlanInv, Action
      <4>2. a \notin Todo'
        BY <1>6
      <4>3. \A b \in TabledPlan : IF b \in Todo THEN Need(b.plugin) = b.action ELSE Done(b)
        BY <1>12 DEF RoundInv, PlannedInv
      <4>4. QED
        BY <2>3, <4>1, <4>2, <4>3
    <3>2. \A y \in Plugins : Tabled(y) /\ (\A b \in plan : b.plugin # y) => Need(y)' = "skip"
      BY <1>1, <1>8, <1>12 DEF RoundInv, PlannedInv
    <3>3. QED
      BY <1>1, <1>12, <2>1, <3>1, <3>2 DEF RoundInv, PlannedInv
  <2>7. AppliedInv'
    BY <1>1, <1>12 DEF AppliedInv
  <2>8. rounds # 0 => a.action = "activate"
    BY <1>12, <2>1 DEF RoundInv, PlannedInv
  <2>9. rounds # 2
    BY <1>12, <2>1 DEF RoundInv, PlannedInv
  <2>10. NeedInv'
    BY <1>1, <1>8, <1>12, <2>5, <2>8, <2>9 DEF RoundInv, NeedInv
  <2>11. RoundKnownInv'
    BY <1>1, <1>2, <2>9 DEF RoundInv, RoundKnownInv
  <2>12. QED
    BY <1>5, <2>6, <2>7, <2>10, <2>11 DEF RoundInv
<1>13. CASE Tracked /\ Tabled(x) /\ round # "planned"
  <2>1. Done(a)
    BY <1>1, <1>13 DEF RoundInv, AppliedInv, TabledPlan
  <2>2. Result(a) = live[Target][x]
    BY <1>7, <2>1, ActionIdle DEF Done, Result
  <2>3. live' = live
    BY <1>1, <2>2 DEF ApplyStep, Put, TypeOK, Holdings
  <2>4. QED
    BY <1>1, <1>5, <1>13, <2>3
       DEF RoundInv, PlannedInv, AppliedInv, NeedInv, RoundKnownInv, Need, Done, TabledPlan, Tracked
<1>14. QED
  BY <1>10, <1>11, <1>12, <1>13

(* A scan that was disturbed ends the round; one of the target completes it.   *)
LEMMA SaveScanKeeps ==
  ASSUME ReadInv, RoundInv, NEW uncounted, SaveScan(uncounted)
  PROVE  RoundInv'
<1> DEFINE p == scan.profile
<1>1. /\ p \in Profiles /\ live[p] \in Holdings /\ scan.whole \in BOOLEAN
      /\ known \in [Profiles -> {Unsure} \cup Holdings] /\ TypeOK
  BY ScanFacts DEF SaveScan, ReadInv, TypeOK
<1>2. /\ known' = [known EXCEPT ![p] = IF scan.whole THEN live[p] ELSE Unsure]
      /\ UNCHANGED <<live, plan, apply>>
      /\ Undisturbed(p, scan.whole)
  BY DEF SaveScan
<1> HIDE DEF p
<1>3. CASE ~scan.whole
  BY <1>2, <1>3, RoundReset DEF Undisturbed
<1>4. CASE scan.whole
  <2>1. /\ known'[p] = live[p] /\ live[p] # Unsure
        /\ \A q \in Profiles : q # p => known'[q] = known[q]
    BY <1>1, <1>2, <1>4, DistinctAssumption
  <2>2. /\ \A x : Need(x)' = Need(x)
        /\ \A a : Done(a)' <=> Done(a)
        /\ TabledPlan' = TabledPlan /\ Todo' = Todo
    BY <1>2 DEF Need, Done, TabledPlan, Todo
  <2>3. PlanInv' /\ AppliedInv'
    <3>1. Tracked' => Tracked /\ (round' # "planned" => round # "planned")
      BY <1>2, <1>4 DEF Undisturbed, Tracked
    <3>2. QED
      BY <1>2, <2>2, <3>1 DEF RoundInv, PlanInv, AppliedInv
  <2>4. CASE p = Target /\ round = "applied"
    <3>1. /\ round' = "none"
          /\ rounds' = 2 => rounds # 0
      BY <1>1, <1>2, <1>4, <2>4 DEF Undisturbed, TypeOK
    <3>2. NeedInv'
      BY <2>2, <2>4, <3>1 DEF RoundInv, NeedInv
    <3>3. PlannedInv'
      BY <3>1 DEF PlannedInv
    <3>4. known'[Source] = live[Source] /\ known'[Target] = live[Target]
      BY <1>1, <2>1, <2>4, LiveFacts DEF RoundInv, RoundKnownInv
    <3>5. RoundKnownInv'
      BY <1>1, <1>2, <3>4, LiveFacts, DistinctAssumption DEF RoundKnownInv, Profiles
    <3>6. QED
      BY <2>3, <3>2, <3>3, <3>5 DEF RoundInv
  <2>5. CASE ~(p = Target /\ round = "applied")
    <3>1. round' = round /\ rounds' = rounds
      BY <1>2, <1>4, <2>5 DEF Undisturbed
    <3>2. NeedInv'
      BY <2>2, <3>1 DEF RoundInv, NeedInv
    <3>3. PlannedInv'
      BY <1>2, <2>2, <3>1 DEF RoundInv, PlannedInv
    <3>4. RoundKnownInv'
      BY <1>1, <1>2, <2>1, <3>1, LiveFacts DEF RoundInv, RoundKnownInv
    <3>5. QED
      BY <2>3, <3>2, <3>3, <3>4 DEF RoundInv
  <2>6. QED
    BY <2>4, <2>5
<1>5. QED
  BY <1>1, <1>3, <1>4

(* A plan that was carried out leaves an activation at most, and none if       *)
(* activations were all it held.                                               *)
LEMMA ApplyDoneKeeps ==
  ASSUME TypeOK, RoundInv, ApplyDone
  PROVE  RoundInv'
<1>1. /\ apply # Idle /\ apply.todo = {} /\ apply' = Idle
      /\ UNCHANGED <<live, known, plan, rounds>>
      /\ round' = IF round = "planned" THEN "applied" ELSE round
  BY DEF ApplyDone, files
<1>2. /\ \A x : Need(x)' = Need(x)
      /\ \A a : Done(a)' <=> Done(a)
      /\ TabledPlan' = TabledPlan /\ Todo = {}
  BY <1>1 DEF Need, Done, TabledPlan, Todo
<1>3. PlanInv'
  BY <1>1, <1>2 DEF RoundInv, PlanInv, Tracked
<1>4. RoundKnownInv'
  BY <1>1 DEF RoundInv, RoundKnownInv
<1>5. CASE round = "planned"
  <2>1. \A a \in TabledPlan : Done(a)
    BY <1>2, <1>5 DEF RoundInv, PlannedInv
  <2>2. ASSUME NEW x \in Plugins, Tabled(x)
        PROVE  /\ Need(x) \in {"activate", "skip"}
               /\ rounds # 0 => Need(x) = "skip"
    <3>1. CASE \A a \in plan : a.plugin # x
      BY <1>5, <2>2, <3>1 DEF RoundInv, PlannedInv
    <3>2. CASE \E a \in plan : a.plugin = x
      <4>1. PICK a \in plan : a.plugin = x
        BY <3>2
      <4>2. a \in TabledPlan
        BY <2>2, <4>1 DEF TabledPlan
      <4>3. live[Source][x] # Absent /\ a.target = live[Source][x].version
        BY <1>5, <4>1, <4>2 DEF RoundInv, PlanInv, Tracked
      <4>4. /\ live[Target][x] # Absent /\ live[Target][x].version = a.target
            /\ a.action = "activate" => live[Target][x].active
        BY <2>1, <4>1, <4>2 DEF Done
      <4>5. live[Source][x] \in Held /\ live[Target][x] \in Held
        BY LiveFacts
      <4>6. rounds # 0 => a.action = "activate"
        BY <1>5, <4>2 DEF RoundInv, PlannedInv
      <4>7. QED
        BY <4>3, <4>4, <4>5, <4>6, AtSourceVersion DEF Need
    <3>3. QED
      BY <3>1, <3>2
  <2>3. NeedInv'
    <3>1. ASSUME NEW x \in Plugins, Tabled(x)
          PROVE  /\ Need(x)' \in {"activate", "skip"}
                 /\ rounds' = 2 \/ rounds' # 0 => Need(x)' = "skip"
      BY <1>1, <1>2, <2>2, <3>1
    <3>2. QED
      BY <3>1 DEF NeedInv
  <2>4. AppliedInv'
    BY <1>2, <2>1 DEF AppliedInv
  <2>5. PlannedInv'
    BY <1>1, <1>5 DEF PlannedInv
  <2>6. QED
    BY <1>3, <1>4, <2>3, <2>4, <2>5 DEF RoundInv
<1>6. CASE round # "planned"
  <2>1. NeedInv' /\ AppliedInv' /\ PlannedInv'
    BY <1>1, <1>2, <1>6 DEF RoundInv, NeedInv, AppliedInv, PlannedInv, Tracked
  <2>2. QED
    BY <1>3, <1>4, <2>1 DEF RoundInv
<1>7. QED
  BY <1>5, <1>6

(* Every step keeps what is known of the round. *)
LEMMA RoundInductive ==
  /\ ReportsInit => RoundInv
  /\ ReadInv /\ RoundInv /\ [ReportsNext]_reportVars => RoundInv'
<1>1. ReportsInit => RoundInv
  <2>1. ASSUME ReportsInit
        PROVE  apply = Idle /\ round = "none" /\ rounds = 0
    BY <2>1 DEF ReportsInit, Init
  <2>2. QED
    BY <2>1 DEF RoundInv, PlanInv, PlannedInv, AppliedInv, NeedInv, RoundKnownInv, Tracked
<1>2. ASSUME ReadInv, RoundInv, Next
      PROVE  RoundInv'
  <2>1. TypeOK
    BY <1>2 DEF ReadInv
  <2>2. CASE Scanning
    <3>1. ASSUME NEW uncounted, SaveScan(uncounted)
          PROVE  RoundInv'
      BY <1>2, <3>1, SaveScanKeeps
    <3>2. (\E p \in Profiles, counts \in BOOLEAN : StartScan(p, counts))
            \/ (\E t \in Tables : ReadTable(t)) \/ ScanFails
            => UNCHANGED <<live, known, plan, round, rounds, apply>>
      BY DEF StartScan, ReadTable, ScanFails, files, ghosts
    <3>3. QED
      BY <1>2, <2>1, <2>2, <3>1, <3>2, RoundKept DEF Scanning
  <2>3. CASE Promoting
    <3>1. CASE Promote
      BY <1>2, <3>1, PromoteStep
    <3>2. CASE StartApply
      <4>1. UNCHANGED <<live, known, plan, round, rounds>> /\ apply = Idle /\ apply'.todo = plan
        BY <3>2 DEF StartApply, files, ghosts
      <4>2. QED
        BY <1>2, <2>1, <4>1, RoundKept
    <3>3. ASSUME NEW a \in apply.todo, apply # Idle, ApplyStep(a)
          PROVE  RoundInv'
      BY <1>2, <2>1, <3>3, ApplyStepKeeps
    <3>4. ASSUME NEW a, ApplyFails(a)
          PROVE  RoundInv'
      BY <1>2, <3>4, RoundReset DEF ApplyFails, files
    <3>5. CASE ApplyDone
      BY <1>2, <2>1, <3>5, ApplyDoneKeeps
    <3>6. QED
      BY <2>3, <3>1, <3>2, <3>3, <3>4, <3>5 DEF Promoting
  <2>4. CASE Deferring
    <3>1. UNCHANGED <<live, known, plan, round, rounds, apply>>
      BY <2>4 DEF Deferring, StartDefer, StartUndo, SaveOverrides, DamageOverrides, files, ghosts
    <3>2. QED
      BY <1>2, <2>1, <3>1, RoundKept
  <2>5. ASSUME NEW p, NEW x, ChangePlugin(p, x)
        PROVE  RoundInv'
    BY <1>2, <2>5, RoundReset DEF ChangePlugin, files
  <2>6. ASSUME NEW done, UpgradePending(done)
        PROVE  RoundInv'
    BY <1>2, <2>6, RoundReset DEF UpgradePending, files
  <2>7. ASSUME NEW p, NEW n, Ack(p, n) \/ DeleteBaseline(p, n)
        PROVE  RoundInv'
    <3>1. UNCHANGED <<live, known, plan, round, rounds, apply>>
      BY <2>7 DEF Ack, DeleteBaseline
    <3>2. QED
      BY <1>2, <2>1, <3>1, RoundKept
  <2>8. QED
    BY <1>2, <2>2, <2>3, <2>4, <2>5, <2>6, <2>7 DEF Next
<1>3. ASSUME ReadInv, RoundInv, UNCHANGED unread
      PROVE  RoundInv'
  <2>1. UNCHANGED <<live, known, plan, round, rounds, apply>>
    BY <1>3 DEF unread, files, ghosts
  <2>2. QED
    BY <1>3, <2>1, RoundKept DEF ReadInv
<1>4. QED
  BY <1>1, <1>2, <1>3, ReadersStep, Stutter

(* After two complete rounds there is nothing left to plan. *)
LEMMA Converged ==
  ASSUME ReadInv, RoundInv
  PROVE  PromotionConverges
<1>1. SUFFICES ASSUME rounds = 2, NEW c \in PlanOf(stored[Source], stored[Target]), Tabled(c.plugin)
               PROVE  FALSE
  BY DEF PromotionConverges
<1> DEFINE a == stored[Source]
           b == stored[Target]
           x == c.plugin
           Step(y) == [action |-> ActionFor(a, b, y), plugin |-> y, target |-> a[y].version]
<1>2. TypeOK
  BY DEF ReadInv
<1>3. /\ known[Source] # Unsure /\ known[Target] # Unsure
      /\ \A y \in Plugins : Tabled(y) => known[Source][y] = live[Source][y] /\ known[Target][y] = live[Target][y]
  BY <1>1, <1>2, LiveFacts DEF RoundInv, RoundKnownInv
<1>4. /\ known[Source] \in Holdings /\ known[Target] \in Holdings
      /\ Reads(a, known[Source]) /\ Reads(b, known[Target])
  BY <1>2, <1>3, LiveFacts, KnownFacts
<1>5. PICK y \in DOMAIN a : ActionFor(a, b, y) # "skip" /\ c = Step(y)
  BY DEF PlanOf
<1>6. x = y
  BY <1>5
<1> HIDE DEF a, b, Step, x
<1>7. x \in Plugins /\ Tabled(x) /\ x \in DOMAIN a /\ ActionFor(a, b, x) # "skip"
  BY <1>1, <1>4, <1>5, <1>6 DEF Reads, x
<1>8. ActionFor(a, b, x) = NeedOf(known[Source][x], known[Target][x])
  BY <1>4, <1>7, PlanReads
<1>9. Need(x) = "skip"
  BY <1>1, <1>7 DEF RoundInv, NeedInv
<1>10. QED
  BY <1>3, <1>7, <1>8, <1>9 DEF Need

(* Promote, apply and rescan, twice with nothing else in between, and no       *)
(* install, activation or upgrade of a plugin in either core table is left to  *)
(* be promoted (project_to_promote_plan, apply_plan).                          *)
THEOREM PromotionsConverge == ReportsSpec => []PromotionConverges
<1>1. ReportsInit => ReadInv /\ RoundInv
  BY ReadingInductive, RoundInductive
<1>2. ReadInv /\ RoundInv /\ [ReportsNext]_reportVars => (ReadInv /\ RoundInv)'
  BY ReadingInductive, RoundInductive
<1>3. ReadInv /\ RoundInv => PromotionConverges
  BY Converged
<1>4. QED
  BY <1>1, <1>2, <1>3, PTL DEF ReportsSpec

-----------------------------------------------------------------------------
(* The list in the viewer.                                                 *)

RowType == [plugin : Plugins, version : 1 .. MaxVersion, active : BOOLEAN]
DetailType == [plugin : Plugins, info : Info]
QueryType == Queries \cup {NoQuery}

ViewState ==
  [open : {TRUE}, dataset : Seq(RowType), dataDetails : Seq(DetailType),
   rows : Seq(RowType), details : Seq(DetailType), lastQuery : QueryType,
   sortState : [Columns -> BOOLEAN], nextSort : Columns, value : QueryType,
   shown : BOOLEAN, focus : {"table", "filter"}, pending : Seq(QueryType),
   modal : {<<>>} \cup (RowType \X DetailType), reloaded : BOOLEAN]

(* What one reading of an inventory lists: each plugin once, with its detail.  *)
ReadingOf(dataset, dataDetails) ==
  /\ dataset \in Seq(RowType) /\ dataDetails \in Seq(DetailType)
  /\ Len(dataDetails) = Len(dataset)
  /\ \A i \in DOMAIN dataset : DetailTells(dataset[i], dataDetails[i])
  /\ \A i, j \in DOMAIN dataset : dataset[i] = dataset[j] => i = j

(* The hits of a query in some order, and their details in the same order.     *)
Showing(rows, details, dataset, dataDetails, q) ==
  \E index \in SetToSeqs(Hits(dataset, q)) :
    rows = Picked(dataset, index) /\ details = Picked(dataDetails, index)

(* The message of the last change of the filter's text is still to come, or    *)
(* the text is the query applied.                                              *)
Heard(lastQuery, pending, value) ==
  IF pending = <<>> THEN lastQuery = value ELSE pending[Len(pending)] = value

ViewInv ==
  \/ view = Closed
  \/ /\ view \in ViewState
     /\ ReadingOf(view.dataset, view.dataDetails)
     /\ Showing(view.rows, view.details, view.dataset, view.dataDetails, view.lastQuery)
     /\ view.modal # <<>> => DetailTells(view.modal[1], view.modal[2])
     /\ ~view.reloaded => Heard(view.lastQuery, view.pending, view.value)

(* The members of a finite set in an order: each once.                         *)
LEMMA Arranged ==
  ASSUME NEW S, IsFiniteSet(S), NEW s \in SetToSeqs(S)
  PROVE  /\ s \in Seq(S) /\ Len(s) = Cardinality(S) /\ Len(s) \in Nat
         /\ DOMAIN s = 1 .. Len(s) /\ \A i \in DOMAIN s : s[i] \in S
         /\ \A i, j \in DOMAIN s : s[i] = s[j] => i = j
         /\ \A x \in S : \E i \in DOMAIN s : s[i] = x
<1> DEFINE n == Cardinality(S)
<1>1. n \in Nat
  BY FS_CardinalityType
<1>2. s \in [1 .. n -> S] /\ \A i, j \in 1 .. n : i # j => s[i] # s[j]
  BY DEF SetToSeqs
<1> HIDE DEF n
<1>3. s \in Seq(S) /\ Len(s) = n
  BY <1>1, <1>2
<1>4. s \in Injection(1 .. n, S)
  BY <1>2 DEF Injection, IsInjective
<1>5. IsFiniteSet(1 .. n) /\ Cardinality(1 .. n) = n
  <2>1. IsFiniteSet(1 .. n) /\ Cardinality(1 .. n) = IF 1 > n THEN 0 ELSE n - 1 + 1
    BY <1>1, FS_Interval
  <2>2. QED
    BY <1>1, <2>1
<1>6. s \in Surjection(1 .. n, S)
  BY <1>4, <1>5, FS_Injection DEF n
<1>7. \A x \in S : \E i \in 1 .. n : s[i] = x
  BY <1>6 DEF Surjection
<1>8. QED
  BY <1>1, <1>2, <1>3, <1>7 DEF n

(* An order of an order is an order. *)
LEMMA Rearranged ==
  ASSUME NEW S, IsFiniteSet(S), NEW s \in SetToSeqs(S), NEW order \in SetToSeqs(DOMAIN s)
  PROVE  Picked(s, order) \in SetToSeqs(S) /\ DOMAIN order = DOMAIN s
<1> DEFINE n == Cardinality(S)
<1>1. n \in Nat /\ DOMAIN s = 1 .. n /\ s \in [1 .. n -> S]
      /\ \A i, j \in 1 .. n : i # j => s[i] # s[j]
  BY FS_CardinalityType DEF SetToSeqs
<1> HIDE DEF n
<1>2. IsFiniteSet(1 .. n) /\ Cardinality(1 .. n) = n
  <2>1. IsFiniteSet(1 .. n) /\ Cardinality(1 .. n) = IF 1 > n THEN 0 ELSE n - 1 + 1
    BY <1>1, FS_Interval
  <2>2. QED
    BY <1>1, <2>1
<1>3. order \in [1 .. n -> 1 .. n] /\ \A i, j \in 1 .. n : i # j => order[i] # order[j]
  BY <1>1, <1>2 DEF SetToSeqs
<1>4. DOMAIN order = 1 .. n
  BY <1>3
<1>5. Picked(s, order) \in [1 .. n -> S]
      /\ \A i, j \in 1 .. n : i # j => Picked(s, order)[i] # Picked(s, order)[j]
  BY <1>1, <1>3, <1>4 DEF Picked
<1>6. QED
  BY <1>1, <1>4, <1>5 DEF SetToSeqs, n

(* The rows of a reading are finitely many. *)
LEMMA HitsFinite ==
  ASSUME NEW dataset, NEW T, dataset \in Seq(T), NEW q
  PROVE  IsFiniteSet(Hits(dataset, q)) /\ Hits(dataset, q) \subseteq DOMAIN dataset
         /\ DOMAIN dataset = 1 .. Len(dataset) /\ IsFiniteSet(DOMAIN dataset)
<1>1. DOMAIN dataset = 1 .. Len(dataset) /\ Len(dataset) \in Nat
  OBVIOUS
<1>2. IsFiniteSet(DOMAIN dataset)
  BY <1>1, FS_Interval
<1>3. Hits(dataset, q) \subseteq DOMAIN dataset
  BY DEF Hits
<1>4. QED
  BY <1>1, <1>2, <1>3, FS_Subset

(* A list that was just read is shown whole. *)
LEMMA WholeShowing ==
  ASSUME NEW dataset, NEW dataDetails, ReadingOf(dataset, dataDetails)
  PROVE  Showing(dataset, dataDetails, dataset, dataDetails, NoQuery)
<1> DEFINE n == Len(dataset)
           index == [i \in 1 .. n |-> i]
<1>1. /\ n \in Nat /\ DOMAIN dataset = 1 .. n /\ dataset = [i \in 1 .. n |-> dataset[i]]
      /\ DOMAIN dataDetails = 1 .. n /\ dataDetails = [i \in 1 .. n |-> dataDetails[i]]
  BY DEF ReadingOf
<1>2. Hits(dataset, NoQuery) = 1 .. n
  BY <1>1 DEF Hits
<1> HIDE DEF n
<1>3. Cardinality(1 .. n) = n
  <2> n \in Nat
    BY <1>1
  <2>1. Cardinality(1 .. n) = IF 1 > n THEN 0 ELSE n - 1 + 1
    BY FS_Interval
  <2>2. QED
    BY <1>1, <2>1
<1>4. index \in SetToSeqs(1 .. n)
  BY <1>3 DEF SetToSeqs
<1>5. dataset = Picked(dataset, index) /\ dataDetails = Picked(dataDetails, index)
  BY <1>1 DEF Picked
<1>6. QED
  BY <1>2, <1>4, <1>5 DEF Showing

(* What is shown, row by row. *)
LEMMA ShowingFacts ==
  ASSUME NEW dataset, NEW dataDetails, ReadingOf(dataset, dataDetails), NEW q,
         NEW rows, NEW details, Showing(rows, details, dataset, dataDetails, q)
  PROVE  /\ rows \in Seq(RowType) /\ details \in Seq(DetailType)
         /\ Len(details) = Len(rows)
         /\ \A i \in DOMAIN rows : \E j \in Hits(dataset, q) :
              rows[i] = dataset[j] /\ details[i] = dataDetails[j]
         /\ \A i, j \in DOMAIN rows : rows[i] = rows[j] => i = j
         /\ \A j \in Hits(dataset, q) : \E i \in DOMAIN rows : rows[i] = dataset[j]
<1>1. PICK index \in SetToSeqs(Hits(dataset, q)) :
        rows = Picked(dataset, index) /\ details = Picked(dataDetails, index)
  BY DEF Showing
<1>2. /\ dataset \in Seq(RowType) /\ dataDetails \in Seq(DetailType)
      /\ DOMAIN dataDetails = DOMAIN dataset
      /\ \A i, j \in DOMAIN dataset : dataset[i] = dataset[j] => i = j
  BY DEF ReadingOf
<1>3. IsFiniteSet(Hits(dataset, q)) /\ Hits(dataset, q) \subseteq DOMAIN dataset
  BY <1>2, HitsFinite
<1> DEFINE H == Hits(dataset, q)
           n == Len(index)
<1> HIDE DEF H
<1>4. /\ n \in Nat /\ DOMAIN index = 1 .. n /\ \A i \in 1 .. n : index[i] \in H
      /\ \A i, j \in 1 .. n : index[i] = index[j] => i = j
      /\ \A x \in H : \E i \in 1 .. n : index[i] = x
  BY <1>1, <1>3, Arranged DEF H
<1> HIDE DEF n
<1>5. /\ rows = [k \in 1 .. n |-> dataset[index[k]]]
      /\ details = [k \in 1 .. n |-> dataDetails[index[k]]]
  BY <1>1, <1>4 DEF Picked
<1>6. \A i \in 1 .. n : index[i] \in DOMAIN dataset
  BY <1>3, <1>4 DEF H
<1>7. rows \in [1 .. n -> RowType] /\ details \in [1 .. n -> DetailType]
  BY <1>2, <1>5, <1>6
<1>8. rows \in Seq(RowType) /\ Len(rows) = n /\ details \in Seq(DetailType) /\ Len(details) = n
  BY <1>4, <1>7
<1>9. \A i \in 1 .. n : rows[i] = dataset[index[i]] /\ details[i] = dataDetails[index[i]]
  BY <1>5
<1>10. DOMAIN rows = 1 .. n
  BY <1>5
<1>11. \A i, j \in 1 .. n : rows[i] = rows[j] => i = j
  BY <1>2, <1>4, <1>6, <1>9
<1>12. \A j \in H : \E i \in 1 .. n : rows[i] = dataset[j]
  BY <1>4, <1>9
<1>13. \A i \in 1 .. n : \E j \in H : rows[i] = dataset[j] /\ details[i] = dataDetails[j]
  BY <1>4, <1>9
<1>14. QED
  BY <1>8, <1>10, <1>11, <1>12, <1>13 DEF H

(* Sorting moves the rows and their details alike. *)
LEMMA SortedShowing ==
  ASSUME NEW dataset, NEW dataDetails, ReadingOf(dataset, dataDetails), NEW q,
         NEW rows, NEW details, Showing(rows, details, dataset, dataDetails, q),
         NEW order \in SetToSeqs(DOMAIN rows)
  PROVE  Showing(Picked(rows, order), Picked(details, order), dataset, dataDetails, q)
<1>1. PICK index \in SetToSeqs(Hits(dataset, q)) :
        rows = Picked(dataset, index) /\ details = Picked(dataDetails, index)
  BY DEF Showing
<1>2. IsFiniteSet(Hits(dataset, q))
  BY HitsFinite DEF ReadingOf
<1>3. DOMAIN rows = DOMAIN index /\ DOMAIN details = DOMAIN index
  BY <1>1 DEF Picked
<1>4. Picked(index, order) \in SetToSeqs(Hits(dataset, q)) /\ DOMAIN order = DOMAIN index
  BY <1>2, <1>3, Rearranged
<1>5. \A k \in DOMAIN order : order[k] \in DOMAIN index
  <2>1. IsFiniteSet(DOMAIN index)
    BY <1>2, Arranged, FS_Interval
  <2>2. QED
    BY <1>3, <2>1, Arranged
<1>6. /\ Picked(rows, order) = Picked(dataset, Picked(index, order))
      /\ Picked(details, order) = Picked(dataDetails, Picked(index, order))
  BY <1>1, <1>3, <1>4, <1>5 DEF Picked
<1>7. QED
  BY <1>4, <1>6 DEF Showing

(* The listing of an inventory is one reading of it. *)
LEMMA ListReading ==
  ASSUME TypeOK, NEW listed \in Listed(Latest)
  PROVE  ReadingOf(RowsFor(Latest, listed), DetailsFor(Latest, listed))
<1> DEFINE inventory == Latest
           S == {i \in DOMAIN Listing : /\ Listing[i] \in DOMAIN inventory
                                        /\ inventory[Listing[i]].active \in session.states}
<1>1. inventory \in Inventories
  <2>1. NoRows \in Inventories
    BY DEF NoRows, Inventories
  <2>2. QED
    BY <2>1, LiveFacts DEF Latest, TypeOK
<1>2. /\ Listing \in Seq(Plugins) /\ \A i, j \in DOMAIN Listing : Listing[i] = Listing[j] => i = j
      /\ DOMAIN Listing = 1 .. Len(Listing) /\ Len(Listing) \in Nat
  BY ListingAssumption
<1>3. IsFiniteSet(S)
  <2>1. IsFiniteSet(DOMAIN Listing)
    BY <1>2, FS_Interval
  <2>2. QED
    BY <2>1, FS_Subset
<1>4. listed \in SetToSeqs(S)
  BY DEF Listed, Ascending
<1> HIDE DEF inventory, S
<1>5. /\ listed \in Seq(S) /\ Len(listed) \in Nat /\ DOMAIN listed = 1 .. Len(listed)
      /\ \A i \in DOMAIN listed : listed[i] \in S
      /\ \A i, j \in DOMAIN listed : listed[i] = listed[j] => i = j
  BY <1>3, <1>4, Arranged
<1> DEFINE n == Len(listed)
           rows == [i \in 1 .. n |-> Row(Listing[listed[i]], inventory[Listing[listed[i]]])]
           details == [i \in 1 .. n |-> Detail(Listing[listed[i]], inventory[Listing[listed[i]]])]
<1>6. RowsFor(inventory, listed) = rows /\ DetailsFor(inventory, listed) = details
  BY <1>5 DEF RowsFor, DetailsFor
<1>7. ASSUME NEW i \in 1 .. n
      PROVE  /\ listed[i] \in DOMAIN Listing
             /\ Listing[listed[i]] \in Plugins /\ inventory[Listing[listed[i]]] \in Info
  <2>1. listed[i] \in DOMAIN Listing /\ Listing[listed[i]] \in DOMAIN inventory
    BY <1>5 DEF S
  <2>2. QED
    BY <1>1, <2>1, InventoryFacts
<1>8. \A i \in 1 .. n : rows[i] \in RowType /\ details[i] \in DetailType
                       /\ DetailTells(rows[i], details[i])
  BY <1>7 DEF Row, Detail, RowType, DetailType, Info, DetailTells
<1>9. \A i, j \in 1 .. n : rows[i] = rows[j] => i = j
  <2>1. \A x, info : Row(x, info).plugin = x
    BY DEF Row
  <2>2. \A i, j \in 1 .. n : rows[i] = rows[j] => Listing[listed[i]] = Listing[listed[j]]
    BY <2>1
  <2>3. QED
    BY <1>2, <1>5, <1>7, <2>2
<1>10. DOMAIN rows = 1 .. n /\ DOMAIN details = 1 .. n
  OBVIOUS
<1> HIDE DEF rows, details
<1>11. rows \in Seq(RowType) /\ Len(rows) = n /\ details \in Seq(DetailType) /\ Len(details) = n
  <2>1. rows \in [1 .. n -> RowType] /\ details \in [1 .. n -> DetailType]
    BY <1>8, <1>10 DEF rows, details
  <2>2. QED
    BY <1>5, <2>1
<1>12. ReadingOf(rows, details)
  BY <1>8, <1>9, <1>10, <1>11 DEF ReadingOf
<1>13. QED
  BY <1>6, <1>12 DEF inventory

(* What a field of the view is made of. *)
LEMMA ViewFacts ==
  ASSUME view \in ViewState
  PROVE  /\ view.open = TRUE /\ view # Closed
         /\ view.dataset \in Seq(RowType) /\ view.dataDetails \in Seq(DetailType)
         /\ view.rows \in Seq(RowType) /\ view.details \in Seq(DetailType)
         /\ view.lastQuery \in QueryType /\ view.value \in QueryType
         /\ view.pending \in Seq(QueryType) /\ view.nextSort \in Columns
<1>1. view.open = TRUE
  BY DEF ViewState
<1>2. QED
  BY <1>1 DEF ViewState, Closed

(* Typing, or clearing, what stands in the filter bar. *)
LEMMA ValueKept ==
  ASSUME view \in ViewState, ViewInv, NEW q \in QueryType, NEW after, after = WithValue(view, q)
  PROVE  /\ after \in ViewState
         /\ \A f \in {"dataset", "dataDetails", "rows", "details", "lastQuery", "modal"} : after[f] = view[f]
         /\ ~after.reloaded => Heard(after.lastQuery, after.pending, after.value)
<1>1. CASE view.value = q
  BY <1>1, ViewFacts DEF WithValue, ViewInv
<1>2. CASE view.value # q
  <2>1. after = [view EXCEPT !.value = q, !.pending = Append(view.pending, q), !.reloaded = FALSE]
    BY <1>2 DEF WithValue
  <2>2. Append(view.pending, q) \in Seq(QueryType)
    BY ViewFacts
  <2>3. after \in ViewState
    BY <2>1, <2>2 DEF ViewState
  <2>4. /\ \A f \in {"dataset", "dataDetails", "rows", "details", "lastQuery", "modal"} : after[f] = view[f]
        /\ after.pending = Append(view.pending, q) /\ after.value = q
    BY <2>1 DEF ViewState
  <2>5. after.pending # <<>> /\ after.pending[Len(after.pending)] = q
    BY <2>4, ViewFacts
  <2>6. QED
    BY <2>3, <2>4, <2>5 DEF Heard
<1>3. QED
  BY <1>1, <1>2

(* A change of the fields around the rows. *)
LEMMA ViewKept ==
  ASSUME ViewInv, view \in ViewState, view' \in ViewState,
         \A f \in {"dataset", "dataDetails", "rows", "details", "lastQuery"} : view'[f] = view[f],
         view'.modal # <<>> => DetailTells(view'.modal[1], view'.modal[2]),
         ~view'.reloaded => Heard(view'.lastQuery, view'.pending, view'.value)
  PROVE  ViewInv'
<1>1. /\ view'.dataset = view.dataset /\ view'.dataDetails = view.dataDetails
      /\ view'.rows = view.rows /\ view'.details = view.details /\ view'.lastQuery = view.lastQuery
  OBVIOUS
<1>2. /\ ReadingOf(view.dataset, view.dataDetails)
      /\ Showing(view.rows, view.details, view.dataset, view.dataDetails, view.lastQuery)
  BY ViewFacts DEF ViewInv
<1>3. /\ ReadingOf(view'.dataset, view'.dataDetails)
      /\ Showing(view'.rows, view'.details, view'.dataset, view'.dataDetails, view'.lastQuery)
  BY <1>1, <1>2
<1>4. QED
  BY <1>3 DEF ViewInv

(* Opening the list, and reloading it. *)
LEMMA OpenListKeeps ==
  ASSUME TypeOK, OpenList
  PROVE  ViewInv'
<1>1. PICK listed \in Listed(Latest) :
        view' = Opened(RowsFor(Latest, listed), DetailsFor(Latest, listed))
  BY DEF OpenList
<1> DEFINE rows == RowsFor(Latest, listed)
           details == DetailsFor(Latest, listed)
<1>2. ReadingOf(rows, details)
  BY ListReading
<1>3. Showing(rows, details, rows, details, NoQuery)
  BY <1>2, WholeShowing
<1> HIDE DEF rows, details
<1>4. view' = Opened(rows, details)
  BY <1>1 DEF rows, details
<1>5. rows \in Seq(RowType) /\ details \in Seq(DetailType)
  BY <1>2 DEF ReadingOf
<1>6. 1 \in Columns
  BY ColumnsAssumption, FS_CardinalityType, FS_EmptySet
<1>7. view' \in ViewState
  BY <1>4, <1>5, <1>6 DEF Opened, ViewState, QueryType
<1>8. /\ view'.dataset = rows /\ view'.dataDetails = details /\ view'.rows = rows
      /\ view'.details = details /\ view'.lastQuery = NoQuery /\ view'.value = NoQuery
      /\ view'.pending = <<>> /\ view'.modal = <<>>
  BY <1>4 DEF Opened
<1>9. QED
  BY <1>2, <1>3, <1>7, <1>8 DEF ViewInv, Heard

(* A reload replaces both lists, unsorted and whole. *)
LEMMA ReloadKeeps ==
  ASSUME TypeOK, ViewInv, Reload
  PROVE  ViewInv'
<1>1. view.open /\ OnTop
  BY DEF Reload, RefreshView
<1>2. view \in ViewState
  BY <1>1 DEF ViewInv, Closed
<1>3. PICK listed \in Listed(Latest) : RefreshView(RowsFor(Latest, listed), DetailsFor(Latest, listed))
  BY DEF Reload
<1> DEFINE rows == RowsFor(Latest, listed)
           details == DetailsFor(Latest, listed)
<1>4. ReadingOf(rows, details)
  BY ListReading
<1>5. Showing(rows, details, rows, details, NoQuery)
  BY <1>4, WholeShowing
<1> HIDE DEF rows, details
<1>6. view' = [view EXCEPT !.dataset = rows, !.dataDetails = details, !.rows = rows,
                           !.details = details, !.lastQuery = NoQuery, !.reloaded = TRUE]
  BY <1>3 DEF RefreshView, rows, details
<1>7. rows \in Seq(RowType) /\ details \in Seq(DetailType) /\ NoQuery \in QueryType
  BY <1>4 DEF ReadingOf, QueryType
<1>8. view' \in ViewState
  BY <1>2, <1>6, <1>7 DEF ViewState
<1>9. /\ view'.dataset = rows /\ view'.dataDetails = details /\ view'.rows = rows
      /\ view'.details = details /\ view'.lastQuery = NoQuery /\ view'.reloaded = TRUE
      /\ view'.modal = view.modal
  BY <1>2, <1>6 DEF ViewState
<1>10. view'.modal = <<>>
  BY <1>1, <1>9 DEF OnTop
<1>11. QED
  BY <1>4, <1>5, <1>8, <1>9, <1>10 DEF ViewInv

(* Applying a query. *)
LEMMA FilterChangedKeeps ==
  ASSUME ViewInv, FilterChanged
  PROVE  ViewInv'
<1>1. view \in ViewState /\ view.pending # <<>>
  <2>1. view.open /\ view.pending # <<>>
    BY DEF FilterChanged
  <2>2. QED
    BY <2>1 DEF ViewInv, Closed
<1> DEFINE q == Head(view.pending)
           rest == Tail(view.pending)
<1>2. /\ q \in QueryType /\ rest \in Seq(QueryType)
      /\ rest = <<>> => q = view.pending[Len(view.pending)]
      /\ rest # <<>> => rest[Len(rest)] = view.pending[Len(view.pending)]
  <2> DEFINE pending == view.pending
  <2>1. pending \in Seq(QueryType) /\ pending # <<>>
    BY <1>1, ViewFacts
  <2> HIDE DEF pending, q, rest
  <2>2. /\ q \in QueryType /\ q = pending[1]
        /\ rest \in Seq(QueryType)
        /\ Len(rest) = Len(pending) - 1
        /\ \A i \in 1 .. Len(rest) : rest[i] = pending[i + 1]
    BY <2>1, HeadTailProperties DEF q, rest, pending
  <2>3. Len(pending) \in Nat /\ Len(pending) > 0
    BY <2>1
  <2>4. rest = <<>> => Len(pending) = 1
    BY <2>2, <2>3
  <2>5. rest # <<>> => Len(rest) \in 1 .. Len(rest)
    BY <2>2, <2>3
  <2>6. QED
    BY <2>2, <2>3, <2>4, <2>5 DEF pending
<1> HIDE DEF q, rest
<1>3. ~view.reloaded => Heard(q, rest, view.value)
  <2>1. ~view.reloaded => view.pending[Len(view.pending)] = view.value
    BY <1>1, ViewFacts DEF ViewInv, Heard
  <2>2. QED
    BY <1>2, <2>1 DEF Heard
<1>4. view.modal # <<>> => DetailTells(view.modal[1], view.modal[2])
  BY <1>1, ViewFacts DEF ViewInv
<1>5. CASE q = view.lastQuery /\ view' = [view EXCEPT !.pending = rest]
  <2>1. view' \in ViewState
    BY <1>1, <1>2, <1>5 DEF ViewState
  <2>2. /\ \A f \in {"dataset", "dataDetails", "rows", "details", "lastQuery", "modal", "value", "reloaded"} :
             view'[f] = view[f]
        /\ view'.pending = rest
    BY <1>1, <1>5 DEF ViewState
  <2>3. QED
    BY <1>1, <1>3, <1>4, <1>5, <2>1, <2>2, ViewKept
<1>6. ASSUME NEW hits \in Ascending(Hits(view.dataset, q)),
             view' = [view EXCEPT !.pending = rest, !.lastQuery = q,
                                  !.rows = Picked(view.dataset, hits),
                                  !.details = Picked(view.dataDetails, hits)]
      PROVE  ViewInv'
  <2> DEFINE rows == Picked(view.dataset, hits)
             details == Picked(view.dataDetails, hits)
  <2>1. ReadingOf(view.dataset, view.dataDetails)
    BY <1>1, ViewFacts DEF ViewInv
  <2>2. Showing(rows, details, view.dataset, view.dataDetails, q)
    BY DEF Ascending, Showing
  <2> HIDE DEF rows, details
  <2>3. rows \in Seq(RowType) /\ details \in Seq(DetailType)
    BY <2>1, <2>2, ShowingFacts
  <2>4. view' = [view EXCEPT !.pending = rest, !.lastQuery = q, !.rows = rows, !.details = details]
    BY <1>6 DEF rows, details
  <2>5. view' \in ViewState
    BY <1>1, <1>2, <2>3, <2>4 DEF ViewState
  <2>6. /\ view'.dataset = view.dataset /\ view'.dataDetails = view.dataDetails
        /\ view'.rows = rows /\ view'.details = details /\ view'.lastQuery = q /\ view'.pending = rest
        /\ view'.modal = view.modal /\ view'.value = view.value /\ view'.reloaded = view.reloaded
    BY <1>1, <2>4 DEF ViewState
  <2>7. QED
    BY <1>3, <1>4, <2>1, <2>2, <2>5, <2>6 DEF ViewInv
<1>7. QED
  BY <1>5, <1>6 DEF FilterChanged, q, rest

(* Sorting by a column. *)
LEMMA SortKeeps ==
  ASSUME ViewInv, view \in ViewState, NEW c, NEW order \in SetToSeqs(DOMAIN view.rows),
         NEW next \in Columns, view' = [Sorted(view, c, order) EXCEPT !.nextSort = next]
  PROVE  ViewInv'
<1> DEFINE rows == Picked(view.rows, order)
           details == Picked(view.details, order)
           state == Toggled(view.sortState, c)
<1>1. /\ ReadingOf(view.dataset, view.dataDetails)
      /\ view.modal # <<>> => DetailTells(view.modal[1], view.modal[2])
      /\ ~view.reloaded => Heard(view.lastQuery, view.pending, view.value)
  BY ViewFacts DEF ViewInv
<1>2. Showing(rows, details, view.dataset, view.dataDetails, view.lastQuery)
  BY ViewFacts, SortedShowing DEF ViewInv
<1>3. view.sortState \in [Columns -> BOOLEAN]
  BY DEF ViewState
<1>4. state \in [Columns -> BOOLEAN]
  BY <1>3 DEF Toggled
<1> HIDE DEF rows, details, state
<1>5. rows \in Seq(RowType) /\ details \in Seq(DetailType)
  BY <1>1, <1>2, ShowingFacts
<1>6. view' = [view EXCEPT !.rows = rows, !.details = details, !.sortState = state, !.nextSort = next]
  BY DEF Sorted, rows, details, state, ViewState
<1>7. view' \in ViewState
  BY <1>4, <1>5, <1>6 DEF ViewState
<1>8. /\ view'.dataset = view.dataset /\ view'.dataDetails = view.dataDetails
      /\ view'.rows = rows /\ view'.details = details /\ view'.lastQuery = view.lastQuery
      /\ view'.pending = view.pending
      /\ view'.modal = view.modal /\ view'.value = view.value /\ view'.reloaded = view.reloaded
  BY <1>6 DEF ViewState
<1>9. QED
  BY <1>1, <1>2, <1>7, <1>8 DEF ViewInv

(* A change of what stands around the rows and above them. *)
LEMMA AroundKept ==
  ASSUME ViewInv, view \in ViewState, view' \in ViewState,
         \A f \in {"dataset", "dataDetails", "rows", "details", "lastQuery", "value", "reloaded", "pending"} :
           view'[f] = view[f],
         view'.modal # <<>> => DetailTells(view'.modal[1], view'.modal[2])
  PROVE  ViewInv'
<1>1. ~view.reloaded => Heard(view.lastQuery, view.pending, view.value)
  BY ViewFacts DEF ViewInv
<1>2. QED
  BY <1>1, ViewKept

(* Each key and each message. *)
LEMMA KeystrokeKeeps ==
  ASSUME TypeOK, ViewInv, Keystroke
  PROVE  ViewInv'
<1>1. view.open => view \in ViewState
  BY DEF ViewInv, Closed
<1>2. ASSUME OnTop
      PROVE  view \in ViewState /\ view.modal = <<>>
  BY <1>1, <1>2 DEF OnTop
<1>3. CASE OpenList
  BY <1>3, OpenListKeeps
<1>4. CASE FocusFilter
  <2>1. view \in ViewState /\ view.modal = <<>>
    BY <1>2, <1>4 DEF FocusFilter
  <2>2. view' = [view EXCEPT !.shown = TRUE, !.focus = "filter"]
    BY <1>4 DEF FocusFilter
  <2>3. QED
    BY <2>1, <2>2, AroundKept DEF ViewState
<1>5. ASSUME NEW q \in Queries, TypeQuery(q)
      PROVE  ViewInv'
  <2>1. view \in ViewState /\ view.modal = <<>> /\ view' = WithValue(view, q) /\ q \in QueryType
    BY <1>2, <1>5 DEF TypeQuery, QueryType
  <2>2. /\ view' \in ViewState
        /\ \A f \in {"dataset", "dataDetails", "rows", "details", "lastQuery", "modal"} : view'[f] = view[f]
        /\ ~view'.reloaded => Heard(view'.lastQuery, view'.pending, view'.value)
    BY <2>1, ValueKept
  <2>3. view'.modal = <<>>
    BY <2>1, <2>2
  <2>4. QED
    BY <2>1, <2>2, <2>3, ViewKept
<1>6. CASE SubmitFilter
  <2>1. view \in ViewState /\ view.modal = <<>>
    BY <1>2, <1>6 DEF SubmitFilter
  <2>2. view' = [view EXCEPT !.shown = FALSE, !.focus = "table"]
    BY <1>6 DEF SubmitFilter
  <2>3. QED
    BY <2>1, <2>2, AroundKept DEF ViewState
<1>7. CASE BlurFilter
  <2>1. view \in ViewState /\ view.modal = <<>> /\ NoQuery \in QueryType
    BY <1>2, <1>7 DEF BlurFilter, QueryType
  <2>2. CASE view' = Closed
    BY <2>2 DEF ViewInv
  <2>3. CASE view' # Closed
    <3> DEFINE cleared == WithValue(view, NoQuery)
    <3>1. view' = [cleared EXCEPT !.shown = FALSE, !.focus = "table"]
      BY <1>7, <2>3 DEF BlurFilter
    <3> HIDE DEF cleared
    <3>2. /\ cleared \in ViewState
          /\ \A f \in {"dataset", "dataDetails", "rows", "details", "lastQuery", "modal"} : cleared[f] = view[f]
          /\ ~cleared.reloaded => Heard(cleared.lastQuery, cleared.pending, cleared.value)
      BY <2>1, ValueKept DEF cleared
    <3>3. view' \in ViewState
      BY <3>1, <3>2 DEF ViewState
    <3>4. \A f \in {"dataset", "dataDetails", "rows", "details", "lastQuery", "modal", "value", "reloaded", "pending"} :
            view'[f] = cleared[f]
      BY <3>1, <3>2 DEF ViewState
    <3>5. /\ \A f \in {"dataset", "dataDetails", "rows", "details", "lastQuery", "modal"} : view'[f] = view[f]
          /\ ~view'.reloaded => Heard(view'.lastQuery, view'.pending, view'.value)
      BY <3>2, <3>4
    <3>6. QED
      BY <2>1, <3>3, <3>5, ViewKept
  <2>4. QED
    BY <2>2, <2>3
<1>8. CASE SortNextColumn
  <2> DEFINE c == view.nextSort
             next == 1 + (c % Cardinality(Columns))
  <2>1. view \in ViewState /\ c \in Columns
    BY <1>2, <1>8, ViewFacts DEF SortNextColumn
  <2>2. next \in Columns
    <3> DEFINE n == Cardinality(Columns)
    <3>1. n \in Nat \ {0} /\ Columns = 1 .. n
      BY ColumnsAssumption, FS_CardinalityType, FS_EmptySet
    <3> HIDE DEF n, c
    <3>2. c \in Int
      BY <2>1, <3>1
    <3>3. c % n \in 0 .. n - 1
      BY <3>1, <3>2
    <3>4. 1 + (c % n) \in 1 .. n
      BY <3>1, <3>3
    <3>5. QED
      BY <3>1, <3>4 DEF n
  <2>3. PICK order \in Orders(view.rows, c, view.sortState[c]) :
          view' = [Sorted(view, c, order) EXCEPT !.nextSort = next]
    BY <1>8 DEF SortNextColumn
  <2>4. order \in SetToSeqs(DOMAIN view.rows)
    BY DEF Orders
  <2> HIDE DEF c, next
  <2>5. QED
    BY <2>1, <2>2, <2>3, <2>4, SortKeeps
<1>9. ASSUME NEW c \in Columns, SortColumn(c)
      PROVE  ViewInv'
  <2>1. view \in ViewState
    BY <1>2, <1>9 DEF SortColumn
  <2>2. PICK order \in Orders(view.rows, c, view.sortState[c]) : view' = Sorted(view, c, order)
    BY <1>9 DEF SortColumn
  <2>3. order \in SetToSeqs(DOMAIN view.rows)
    BY DEF Orders
  <2>4. view.nextSort \in Columns /\ Sorted(view, c, order) = [Sorted(view, c, order) EXCEPT !.nextSort = view.nextSort]
    BY <2>1, ViewFacts DEF Sorted, ViewState
  <2>5. QED
    BY <2>1, <2>2, <2>3, <2>4, SortKeeps
<1>10. CASE Reload
  BY <1>10, ReloadKeeps
<1>11. ASSUME NEW i, ShowRowDetail(i)
       PROVE  ViewInv'
  <2>1. /\ view \in ViewState /\ i \in DOMAIN view.rows /\ i \in DOMAIN view.details
        /\ view' = [view EXCEPT !.modal = <<view.rows[i], view.details[i]>>]
    BY <1>2, <1>11 DEF ShowRowDetail
  <2>2. DetailTells(view.rows[i], view.details[i])
    <3>1. /\ ReadingOf(view.dataset, view.dataDetails)
          /\ Showing(view.rows, view.details, view.dataset, view.dataDetails, view.lastQuery)
      BY <2>1, ViewFacts DEF ViewInv
    <3>2. \A k \in DOMAIN view.rows : \E j \in Hits(view.dataset, view.lastQuery) :
            view.rows[k] = view.dataset[j] /\ view.details[k] = view.dataDetails[j]
      BY <3>1, ShowingFacts
    <3>3. PICK j \in Hits(view.dataset, view.lastQuery) :
            view.rows[i] = view.dataset[j] /\ view.details[i] = view.dataDetails[j]
      BY <2>1, <3>2
    <3>4. QED
      BY <3>1, <3>3 DEF ReadingOf, Hits
  <2>3. view.rows[i] \in RowType /\ view.details[i] \in DetailType
    BY <2>1, ViewFacts
  <2>4. view' \in ViewState
    BY <2>1, <2>3 DEF ViewState
  <2>5. view'.modal = <<view.rows[i], view.details[i]>>
    BY <2>1 DEF ViewState
  <2>6. \A f \in {"dataset", "dataDetails", "rows", "details", "lastQuery", "value", "reloaded", "pending"} :
          view'[f] = view[f]
    BY <2>1 DEF ViewState
  <2>7. DetailTells(view'.modal[1], view'.modal[2])
    BY <2>2, <2>5
  <2>8. QED
    BY <2>1, <2>4, <2>6, <2>7, AroundKept
<1>12. CASE CloseDetail
  <2>1. view \in ViewState /\ view' = [view EXCEPT !.modal = <<>>]
    BY <1>1, <1>12 DEF CloseDetail
  <2>2. QED
    BY <2>1, AroundKept DEF ViewState
<1>13. QED
  BY <1>3, <1>4, <1>5, <1>6, <1>7, <1>8, <1>9, <1>10, <1>11, <1>12 DEF Keystroke

(* So every step keeps the invariant of the viewer. *)
LEMMA ViewInductive ==
  /\ ReportsInit => ViewInv
  /\ TypeOK /\ ViewInv /\ [ReportsNext]_reportVars => ViewInv'
<1>1. ReportsInit => ViewInv
  BY DEF ReportsInit, ViewInv
<1>2. ASSUME TypeOK, ViewInv, Viewing
      PROVE  ViewInv'
  <2>1. QuitView => ViewInv'
    BY DEF QuitView, ViewInv
  <2>2. QED
    BY <1>2, <2>1, KeystrokeKeeps, FilterChangedKeeps DEF Viewing
<1>3. ViewInv /\ UNCHANGED view => ViewInv'
  BY DEF ViewInv
<1>4. Analysing => UNCHANGED view
  BY DEF Analysing, StartImpact, Walk, Walked, TargetTables, InboundRefs, RefsDone, RefsFail, CountRef,
         CountScope, CountFails, CountPending
<1>5. QED
  BY <1>1, <1>2, <1>3, <1>4 DEF ReportsNext, reportVars

(* What the invariant says of what is on the screen. *)
LEMMA ViewTrue ==
  ASSUME ViewInv
  PROVE  ViewIsTrue
<1>1. SUFFICES ASSUME view.open
               PROVE  ViewIsTrue
  BY DEF ViewIsTrue, RowsAreTrue
<1>2. view \in ViewState
  BY <1>1 DEF ViewInv, Closed
<1>3. /\ ReadingOf(view.dataset, view.dataDetails)
      /\ Showing(view.rows, view.details, view.dataset, view.dataDetails, view.lastQuery)
      /\ view.modal # <<>> => DetailTells(view.modal[1], view.modal[2])
      /\ ~view.reloaded => Heard(view.lastQuery, view.pending, view.value)
  BY <1>2, ViewFacts DEF ViewInv
<1> DEFINE H == Hits(view.dataset, view.lastQuery)
           n == Len(view.rows)
<1>4. /\ view.rows \in Seq(RowType) /\ view.details \in Seq(DetailType) /\ Len(view.details) = n
      /\ \A i \in DOMAIN view.rows : \E j \in H :
           view.rows[i] = view.dataset[j] /\ view.details[i] = view.dataDetails[j]
      /\ \A i, j \in DOMAIN view.rows : view.rows[i] = view.rows[j] => i = j
      /\ \A j \in H : \E i \in DOMAIN view.rows : view.rows[i] = view.dataset[j]
  BY <1>3, ShowingFacts
<1>5. H \subseteq DOMAIN view.dataset
  BY DEF Hits
<1> HIDE DEF H
<1>6. n \in Nat /\ DOMAIN view.rows = 1 .. n /\ DOMAIN view.details = 1 .. n
  BY <1>4
<1>7. \A i \in DOMAIN view.rows :
        /\ DetailTells(view.rows[i], view.details[i])
        /\ \E j \in DOMAIN view.dataset : view.rows[i] = view.dataset[j] /\ view.details[i] = view.dataDetails[j]
  BY <1>3, <1>4, <1>5 DEF ReadingOf
<1>8. Visible = {view.dataset[i] : i \in H}
  BY <1>4 DEF Visible
<1>9. Cardinality(Visible) = n
  <2> HIDE DEF n
  <2> DEFINE rows == view.rows
  <2>1. /\ rows \in [1 .. n -> Visible] /\ DOMAIN rows = 1 .. n
        /\ \A i, j \in 1 .. n : rows[i] = rows[j] => i = j
        /\ \A y \in Visible : \E i \in 1 .. n : rows[i] = y
    BY <1>4, <1>6 DEF Visible
  <2> HIDE DEF rows
  <2>2. rows \in Bijection(1 .. n, Visible)
    BY <2>1 DEF Bijection, Injection, Surjection, IsInjective
  <2>3. ExistsBijection(1 .. n, Visible)
    BY <2>2 DEF ExistsBijection
  <2>4. QED
    BY <1>6, <2>3, FS_CountingElements
<1>10. view.pending = <<>> /\ ~view.reloaded => view.lastQuery = view.value
  BY <1>3 DEF Heard
<1>11. QED
  BY <1>3, <1>6, <1>7, <1>8, <1>9, <1>10 DEF ViewIsTrue, RowsAreTrue, H

(* Whatever the order of keys, clicks, messages, reloads and rescans, the list *)
(* shows each plugin that matches the query applied once, beside what the      *)
(* inventory of one reading said of it (FramedViewer, _build_rows).            *)
THEOREM ViewsAreTrue == ReportsSpec => []ViewIsTrue
<1>1. ReportsInit => TypeOK /\ ViewInv
  BY Typed, ViewInductive
<1>2. TypeOK /\ ViewInv /\ [ReportsNext]_reportVars => (TypeOK /\ ViewInv)'
  BY Typed, ViewInductive
<1>3. TypeOK /\ ViewInv => ViewIsTrue
  BY ViewTrue
<1>4. QED
  BY <1>1, <1>2, <1>3, PTL DEF ReportsSpec

-----------------------------------------------------------------------------
(* The impact of a plugin.                                                 *)

(* The plugins that depend on one of a set. *)
DependentsOf(inventory, S) == {y \in DOMAIN inventory : inventory[y].depends_on \cap S # {}}

(* A set of numbers that is not empty has a least one. *)
LEMMA Least ==
  ASSUME NEW S, S \subseteq Nat, S # {}
  PROVE  \E n \in S : \A m \in S : n <= m
<1>1. PICK R : R = OpToRel(<, Nat)
  OBVIOUS
<1>2. IsWellFoundedOn(R, Nat)
  BY <1>1, NatLessThanWellFounded
<1>3. \A x, y \in Nat : x < y => <<x, y>> \in R
  BY <1>1 DEF OpToRel
<1>4. \E x \in S : \A y \in S : ~ (<<y, x>> \in R)
  BY <1>2, WFMin
<1>5. \A x, y \in Nat : ~ (x < y) => y <= x
  OBVIOUS
<1>6. PICK x \in S : \A y \in S : ~ (<<y, x>> \in R)
  BY <1>4
<1>7. \A y \in S : ~ (y < x)
  BY <1>3, <1>6
<1>8. \A y \in S : x <= y
  BY <1>5, <1>6, <1>7
<1>9. QED
  BY <1>6, <1>8

(* So what holds of zero, and of a number after that before it, holds of each. *)
LEMMA Induct ==
  ASSUME NEW S, 0 \in S, \A n \in Nat : n \in S => n + 1 \in S
  PROVE  Nat \subseteq S
<1>1. SUFFICES ASSUME Nat \ S # {} PROVE FALSE
  OBVIOUS
<1>2. PICK n \in Nat \ S : \A m \in Nat \ S : n <= m
  BY <1>1, Least
<1>3. n # 0 /\ n - 1 \in Nat
  BY <1>2
<1>4. n - 1 \in S
  BY <1>2, <1>3
<1>5. QED
  BY <1>2, <1>3, <1>4

(* The function that WithinSteps defines, depth by depth. *)
Layers(inventory, x, n, f) ==
  f = [k \in 0 .. n |-> IF k = 0 THEN {x} ELSE f[k - 1] \cup DependentsOf(inventory, f[k - 1])]

(* There is such a function for every depth. *)
LEMMA LayersExist ==
  ASSUME NEW inventory, NEW x
  PROVE  \A n \in Nat : \E f : Layers(inventory, x, n, f)
<1> DEFINE S == {n \in Nat : \E f : Layers(inventory, x, n, f)}
<1>1. 0 \in S
  <2>1. Layers(inventory, x, 0, [k \in 0 .. 0 |-> {x}])
    BY DEF Layers
  <2>2. QED
    BY <2>1
<1>2. ASSUME NEW n \in Nat, n \in S
      PROVE  n + 1 \in S
  <2>1. PICK f : Layers(inventory, x, n, f)
    BY <1>2
  <2> DEFINE g == [k \in 0 .. n + 1 |-> IF k = n + 1 THEN f[n] \cup DependentsOf(inventory, f[n]) ELSE f[k]]
  <2>2. \A k \in 0 .. n : f[k] = IF k = 0 THEN {x} ELSE f[k - 1] \cup DependentsOf(inventory, f[k - 1])
    BY <2>1 DEF Layers
  <2>3. \A k \in 0 .. n + 1 : g[k] = IF k = 0 THEN {x} ELSE g[k - 1] \cup DependentsOf(inventory, g[k - 1])
    <3>1. \A k \in 0 .. n : g[k] = f[k]
      OBVIOUS
    <3>2. g[n + 1] = f[n] \cup DependentsOf(inventory, f[n]) /\ n + 1 # 0 /\ (n + 1) - 1 = n
      OBVIOUS
    <3> HIDE DEF g
    <3>3. \A k \in 0 .. n + 1 : k \in 0 .. n \/ k = n + 1
      OBVIOUS
    <3>4. \A k \in 0 .. n : k # 0 => k - 1 \in 0 .. n
      OBVIOUS
    <3>5. \A k \in 0 .. n : g[k] = IF k = 0 THEN {x} ELSE g[k - 1] \cup DependentsOf(inventory, g[k - 1])
      BY <2>2, <3>1, <3>4
    <3>6. g[n] = f[n]
      BY <3>1
    <3>7. g[n + 1] = g[(n + 1) - 1] \cup DependentsOf(inventory, g[(n + 1) - 1])
      BY <3>2, <3>6
    <3>8. QED
      BY <3>2, <3>3, <3>5, <3>7
  <2>4. DOMAIN g = 0 .. n + 1 /\ g = [k \in 0 .. n + 1 |-> g[k]]
    OBVIOUS
  <2> HIDE DEF g
  <2>5. Layers(inventory, x, n + 1, g)
    BY <2>3, <2>4 DEF Layers
  <2>6. QED
    BY <2>5
<1> HIDE DEF S
<1>3. Nat \subseteq S
  BY <1>1, <1>2, Induct
<1>4. QED
  BY <1>3 DEF S

(* Two of them agree as far as both go. *)
LEMMA LayersAgree ==
  ASSUME NEW inventory, NEW x, NEW m \in Nat, NEW n \in Nat, NEW f, NEW g,
         Layers(inventory, x, m, f), Layers(inventory, x, n, g)
  PROVE  \A k \in Nat : k <= m /\ k <= n => f[k] = g[k]
<1> DEFINE S == {k \in Nat : k <= m /\ k <= n => f[k] = g[k]}
<1>1. /\ \A k \in 0 .. m : f[k] = IF k = 0 THEN {x} ELSE f[k - 1] \cup DependentsOf(inventory, f[k - 1])
      /\ \A k \in 0 .. n : g[k] = IF k = 0 THEN {x} ELSE g[k - 1] \cup DependentsOf(inventory, g[k - 1])
  BY DEF Layers
<1>2. 0 \in S
  <2>1. 0 \in 0 .. m /\ 0 \in 0 .. n
    OBVIOUS
  <2>2. f[0] = {x} /\ g[0] = {x}
    BY <1>1, <2>1
  <2>3. QED
    BY <2>2
<1>3. ASSUME NEW k \in Nat, k \in S
      PROVE  k + 1 \in S
  <2>1. SUFFICES ASSUME k + 1 <= m, k + 1 <= n
                 PROVE  f[k + 1] = g[k + 1]
    OBVIOUS
  <2>2. k + 1 \in 0 .. m /\ k + 1 \in 0 .. n /\ k + 1 # 0 /\ (k + 1) - 1 = k /\ k <= m /\ k <= n
    BY <2>1
  <2>3. f[k] = g[k]
    BY <1>3, <2>2
  <2>4. QED
    BY <1>1, <2>2, <2>3
<1> HIDE DEF S
<1>4. Nat \subseteq S
  BY <1>2, <1>3, Induct
<1>5. QED
  BY <1>4 DEF S

(* The plugins within so many steps are the last layer of one. *)
LEMMA WithinLayers ==
  ASSUME NEW inventory, NEW x, NEW n \in Nat
  PROVE  \E f : Layers(inventory, x, n, f) /\ WithinSteps(inventory, x, n) = f[n]
<1> DEFINE reach == CHOOSE f : Layers(inventory, x, n, f)
<1>1. Layers(inventory, x, n, reach)
  BY LayersExist
<1>2. WithinSteps(inventory, x, n) = reach[n]
  BY DEF WithinSteps, Layers, DependentsOf
<1>3. QED
  BY <1>1, <1>2

(* None is within no step but the target itself; one step more adds the         *)
(* dependents of those within.                                                 *)
LEMMA WithinNext ==
  ASSUME NEW inventory, NEW x
  PROVE  /\ WithinSteps(inventory, x, 0) = {x}
         /\ \A n \in Nat : LET W == WithinSteps(inventory, x, n)
                           IN  WithinSteps(inventory, x, n + 1) = W \cup DependentsOf(inventory, W)
<1>1. WithinSteps(inventory, x, 0) = {x}
  <2>1. PICK f : Layers(inventory, x, 0, f) /\ WithinSteps(inventory, x, 0) = f[0]
    BY WithinLayers
  <2>2. QED
    BY <2>1 DEF Layers
<1>2. ASSUME NEW n \in Nat
      PROVE  WithinSteps(inventory, x, n + 1)
               = WithinSteps(inventory, x, n) \cup DependentsOf(inventory, WithinSteps(inventory, x, n))
  <2>1. PICK f : Layers(inventory, x, n, f) /\ WithinSteps(inventory, x, n) = f[n]
    BY WithinLayers
  <2>2. n + 1 \in Nat
    OBVIOUS
  <2>3. PICK g : Layers(inventory, x, n + 1, g) /\ WithinSteps(inventory, x, n + 1) = g[n + 1]
    BY <2>2, WithinLayers
  <2>4. f[n] = g[n]
    BY <2>1, <2>2, <2>3, LayersAgree
  <2>5. \A k \in 0 .. n + 1 : g[k] = IF k = 0 THEN {x} ELSE g[k - 1] \cup DependentsOf(inventory, g[k - 1])
    BY <2>3 DEF Layers
  <2>6. n + 1 \in 0 .. n + 1 /\ n + 1 # 0 /\ (n + 1) - 1 = n
    OBVIOUS
  <2>7. g[n + 1] = g[n] \cup DependentsOf(inventory, g[n])
    BY <2>5, <2>6
  <2>8. QED
    BY <2>1, <2>3, <2>4, <2>7
<1>3. QED
  BY <1>1, <1>2

(* The more steps, the more plugins are within them. *)
LEMMA WithinGrows ==
  ASSUME NEW inventory, NEW x, NEW m \in Nat
  PROVE  \A n \in Nat : m <= n => WithinSteps(inventory, x, m) \subseteq WithinSteps(inventory, x, n)
<1> DEFINE W(n) == WithinSteps(inventory, x, n)
           S == {i \in Nat : W(m) \subseteq W(m + i)}
<1>1. \A n \in Nat : W(n) \subseteq W(n + 1)
  BY WithinNext
<1> HIDE DEF W
<1>2. 0 \in S
  <2>1. m + 0 = m
    OBVIOUS
  <2>2. QED
    BY <2>1
<1>3. ASSUME NEW i \in Nat, i \in S
      PROVE  i + 1 \in S
  <2>1. m + i \in Nat /\ m + (i + 1) = (m + i) + 1
    OBVIOUS
  <2>2. W(m) \subseteq W(m + i)
    BY <1>3
  <2>3. W(m) \subseteq W(m + (i + 1))
    BY <1>1, <2>1, <2>2
  <2>4. QED
    BY <2>3
<1>4. Nat \subseteq S
  <2> HIDE DEF S
  <2>1. QED
    BY <1>2, <1>3, Induct
<1>5. ASSUME NEW n \in Nat, m <= n
      PROVE  W(m) \subseteq W(n)
  <2>1. n - m \in Nat /\ m + (n - m) = n
    BY <1>5
  <2>2. n - m \in S
    BY <1>4, <2>1
  <2>3. QED
    BY <2>1, <2>2
<1>6. QED
  BY <1>5 DEF W

-----------------------------------------------------------------------------
(* A chain of dependencies, from a dependent to the target. *)
Chain(inventory, target, chain) ==
  /\ chain \in Seq(Plugins) /\ Len(chain) >= 1
  /\ chain[Len(chain)] = target
  /\ \A i \in 1 .. Len(chain) - 1 : /\ chain[i] \in DOMAIN inventory
                                    /\ chain[i + 1] \in inventory[chain[i]].depends_on

(* The plugins they start at. *)
Heads(all) == {all[k][1] : k \in DOMAIN all}

(* How far the walk is: `all` are the chains found, that of the target first,  *)
(* of which the first m were followed.                                         *)
Found(inventory, target, all) ==
  /\ all \in Seq(Seq(Plugins)) /\ Len(all) >= 1 /\ all[1] = <<target>>
  /\ \A k \in DOMAIN all : Chain(inventory, target, all[k])
  /\ \A j, k \in DOMAIN all : all[j][1] = all[k][1] => j = k
  /\ \A j, k \in DOMAIN all : j < k => Len(all[j]) <= Len(all[k])
  /\ \A k \in DOMAIN all : Len(all[k]) <= k /\ (k > 1 => Len(all[k]) >= 2)
  /\ \A k \in DOMAIN all : \A d \in Nat :
       d < Len(all[k]) - 1 => all[k][1] \notin WithinSteps(inventory, target, d)

Followed(inventory, target, all, m) ==
  /\ m \in 0 .. Len(all)
  /\ \A k \in 1 .. m : DependentsOf(inventory, {all[k][1]}) \subseteq Heads(all)
  /\ m < Len(all) =>
       /\ \A k \in DOMAIN all : Len(all[k]) <= Len(all[m + 1]) + 1
       /\ WithinSteps(inventory, target, Len(all[m + 1]) - 1) \subseteq Heads(all)

(* What the chains found amount to when one more was followed. *)
LEMMA FollowedOne ==
  ASSUME NEW inventory \in Inventories, NEW target \in Plugins, NEW all, NEW m,
         Found(inventory, target, all), Followed(inventory, target, all, m), m < Len(all),
         NEW order \in SetToSeqs(DependentsOf(inventory, {all[m + 1][1]}) \ Heads(all))
  PROVE  LET chains == [k \in DOMAIN order |-> <<order[k]>> \o all[m + 1]]
         IN  /\ chains \in Seq(Seq(Plugins))
             /\ Found(inventory, target, all \o chains)
             /\ Followed(inventory, target, all \o chains, m + 1)
<1> DEFINE found == DependentsOf(inventory, {all[m + 1][1]}) \ Heads(all)
           via == all[m + 1]
           chains == [k \in DOMAIN order |-> <<order[k]>> \o via]
           n == Len(all)
           c == Len(order)
           new == all \o chains
           W(d) == WithinSteps(inventory, target, d)
<1>1. /\ n \in Nat /\ n >= 1 /\ DOMAIN all = 1 .. n /\ m \in Nat /\ m + 1 \in 1 .. n
      /\ \A k \in 1 .. n : Chain(inventory, target, all[k])
  BY DEF Found, Followed
<1>2. IsFiniteSet(found) /\ found \subseteq DOMAIN inventory /\ found \subseteq Plugins
  <2>1. found \subseteq DOMAIN inventory /\ DOMAIN inventory \subseteq Plugins
    BY InventoryFacts DEF DependentsOf
  <2> HIDE DEF found
  <2>2. QED
    BY <2>1, CatalogAssumption, FS_Subset
<1>3. /\ c \in Nat /\ DOMAIN order = 1 .. c /\ \A i \in 1 .. c : order[i] \in found
      /\ \A i, j \in 1 .. c : order[i] = order[j] => i = j
      /\ \A y \in found : \E i \in 1 .. c : order[i] = y
  <2>1. /\ Len(order) \in Nat /\ DOMAIN order = 1 .. Len(order)
        /\ \A i \in DOMAIN order : order[i] \in found
        /\ \A i, j \in DOMAIN order : order[i] = order[j] => i = j
        /\ \A y \in found : \E i \in DOMAIN order : order[i] = y
    <3>1. order \in SetToSeqs(found)
      OBVIOUS
    <3> HIDE DEF found
    <3>2. QED
      BY <1>2, <3>1, Arranged
  <2>2. QED
    BY <2>1
<1>4. via \in Seq(Plugins) /\ Len(via) \in Nat /\ Len(via) >= 1 /\ via = all[m + 1]
      /\ DOMAIN via = 1 .. Len(via)
  BY <1>1 DEF Chain
<1> HIDE DEF c, via, found
<1>5. ASSUME NEW i \in 1 .. c
      PROVE  /\ chains[i] \in Seq(Plugins)
             /\ Len(chains[i]) = Len(via) + 1
             /\ chains[i][1] = order[i]
             /\ \A j \in 1 .. Len(via) : chains[i][j + 1] = via[j]
  <2>1. order[i] \in Plugins
    BY <1>2, <1>3
  <2>2. <<order[i]>> \in Seq(Plugins) /\ Len(<<order[i]>>) = 1 /\ <<order[i]>>[1] = order[i]
    BY <2>1
  <2>3. chains[i] = <<order[i]>> \o via
    BY <1>3, <1>4
  <2> DEFINE first == <<order[i]>>
  <2> HIDE DEF first
  <2>4. /\ first \o via \in Seq(Plugins) /\ Len(first \o via) = Len(via) + 1
        /\ (first \o via)[1] = first[1]
        /\ \A j \in 1 .. Len(via) : (first \o via)[j + 1] = via[j]
    BY <1>4, <2>2, ConcatProperties DEF first
  <2>5. QED
    BY <2>2, <2>3, <2>4 DEF first
<1>6. chains \in Seq(Seq(Plugins)) /\ Len(chains) = c
  <2>1. DOMAIN chains = 1 .. c /\ chains = [k \in 1 .. c |-> chains[k]]
    BY <1>3
  <2> HIDE DEF chains
  <2>2. chains \in [1 .. c -> Seq(Plugins)]
    BY <1>5, <2>1
  <2>3. QED
    BY <1>3, <2>2
<1> DEFINE l == Len(via)
<1> HIDE DEF new, n, chains, l
<1>7. n \in Nat /\ n >= 1 /\ m \in Nat /\ m + 1 <= n /\ c \in Nat /\ l \in Nat /\ l >= 1
  BY <1>1, <1>3, <1>4 DEF n, l
<1>8. /\ new \in Seq(Seq(Plugins)) /\ Len(new) = n + c /\ DOMAIN new = 1 .. n + c
      /\ \A k \in 1 .. n : new[k] = all[k]
      /\ \A i \in 1 .. c : n + i \in 1 .. n + c /\ new[n + i] = chains[i]
  <2>1. all \in Seq(Seq(Plugins)) /\ Len(all) = n
    BY DEF Found, n
  <2>2. /\ new \in Seq(Seq(Plugins)) /\ Len(new) = n + c
        /\ \A k \in 1 .. n + c : new[k] = IF k <= n THEN all[k] ELSE chains[k - n]
    BY <1>6, <2>1, ConcatProperties DEF new
  <2>3. \A i \in 1 .. c : n + i \in 1 .. n + c /\ ~(n + i <= n) /\ (n + i) - n = i
    BY <1>7
  <2>4. \A k \in 1 .. n : k \in 1 .. n + c /\ k <= n
    BY <1>7
  <2>5. DOMAIN new = 1 .. n + c
    BY <2>2
  <2>6. \A i \in 1 .. c : new[n + i] = chains[i]
    BY <2>2, <2>3
  <2>7. \A k \in 1 .. n : new[k] = all[k]
    BY <2>2, <2>4
  <2>8. QED
    BY <2>2, <2>3, <2>5, <2>6, <2>7
<1> DEFINE head(k) == new[k][1]
           len(k) == Len(new[k])
<1>9. \A k \in 1 .. n + c : k \in 1 .. n \/ \E i \in 1 .. c : k = n + i
  <2>1. ASSUME NEW k \in 1 .. n + c, k \notin 1 .. n
        PROVE  k - n \in 1 .. c /\ k = n + (k - n)
    BY <1>7, <2>1
  <2>2. QED
    BY <2>1
<1>10. /\ \A k \in 1 .. n : head(k) = all[k][1] /\ len(k) = Len(all[k]) /\ len(k) \in Nat
       /\ \A i \in 1 .. c : /\ n + i \in 1 .. n + c
                            /\ head(n + i) = order[i] /\ len(n + i) = l + 1
                            /\ order[i] \in found /\ order[i] \notin Heads(all)
  <2>1. \A k \in 1 .. n : Len(all[k]) \in Nat
    BY <1>1 DEF Chain, n
  <2>2. \A k \in 1 .. n : head(k) = all[k][1] /\ len(k) = Len(all[k])
    BY <1>8
  <2>3. \A i \in 1 .. c : head(n + i) = order[i] /\ len(n + i) = l + 1
    BY <1>5, <1>8 DEF l
  <2>4. \A i \in 1 .. c : order[i] \in found /\ order[i] \notin Heads(all)
    BY <1>3 DEF found
  <2>5. QED
    BY <1>8, <2>1, <2>2, <2>3, <2>4
<1>11. \A y : y \in Heads(new) <=> \E k \in 1 .. n + c : head(k) = y
  BY <1>8 DEF Heads
<1> HIDE DEF head, len
<1>12. Heads(new) = Heads(all) \cup found
  <2>1. \A y : y \in Heads(all) <=> \E k \in 1 .. n : head(k) = y
    BY <1>1, <1>10 DEF Heads, n
  <2>2. \A k \in 1 .. n : k \in 1 .. n + c
    BY <1>7
  <2>3. Heads(new) \subseteq Heads(all) \cup found
    BY <1>9, <1>10, <1>11, <2>1
  <2>4. Heads(all) \cup found \subseteq Heads(new)
    BY <1>3, <1>10, <1>11, <2>1, <2>2
  <2>5. QED
    BY <2>3, <2>4
<1>13. \A k \in 1 .. n + c : Chain(inventory, target, new[k])
  <2>1. ASSUME NEW i \in 1 .. c
        PROVE  Chain(inventory, target, chains[i])
    <3> DEFINE chain == chains[i]
    <3>1. /\ chain \in Seq(Plugins) /\ Len(chain) = l + 1 /\ chain[1] = order[i]
          /\ \A j \in 1 .. l : chain[j + 1] = via[j]
      BY <1>5 DEF l
    <3> HIDE DEF chain
    <3>2. /\ via[l] = target
          /\ \A j \in 1 .. l - 1 : via[j] \in DOMAIN inventory /\ via[j + 1] \in inventory[via[j]].depends_on
      BY <1>1, <1>4 DEF Chain, l
    <3>3. order[i] \in DOMAIN inventory /\ via[1] \in inventory[order[i]].depends_on
      BY <1>3, <1>4 DEF DependentsOf, via, found
    <3>4. chain[l + 1] = target
      <4>1. l \in 1 .. l
        BY <1>7
      <4>2. QED
        BY <3>1, <3>2, <4>1
    <3>5. ASSUME NEW j \in 1 .. l
          PROVE  chain[j] \in DOMAIN inventory /\ chain[j + 1] \in inventory[chain[j]].depends_on
      <4>1. CASE j = 1
        BY <3>1, <3>3, <4>1
      <4>2. CASE j # 1
        <5>1. j - 1 \in 1 .. l - 1 /\ j - 1 \in 1 .. l /\ (j - 1) + 1 = j
          BY <1>7, <4>2
        <5>2. chain[(j - 1) + 1] = via[j - 1] /\ chain[j + 1] = via[j]
          BY <3>1, <5>1
        <5>3. via[j - 1] \in DOMAIN inventory /\ via[(j - 1) + 1] \in inventory[via[j - 1]].depends_on
          BY <3>2, <5>1
        <5>4. QED
          BY <5>1, <5>2, <5>3
      <4>3. QED
        BY <4>1, <4>2
    <3>6. Len(chain) - 1 = l /\ Len(chain) >= 1
      BY <1>7, <3>1
    <3>7. Chain(inventory, target, chain)
      BY <3>1, <3>4, <3>5, <3>6 DEF Chain
    <3>8. QED
      BY <3>7 DEF chain
  <2>2. \A k \in 1 .. n : Chain(inventory, target, new[k])
    BY <1>1, <1>8 DEF n
  <2>3. \A i \in 1 .. c : Chain(inventory, target, new[n + i])
    BY <1>8, <2>1
  <2>4. QED
    BY <1>9, <2>2, <2>3
<1>14. \A j, k \in 1 .. n + c : head(j) = head(k) => j = k
  <2>1. \A j, k \in 1 .. n : head(j) = head(k) => j = k
    <3>1. \A j, k \in 1 .. n : all[j][1] = all[k][1] => j = k
      BY <1>1 DEF Found, n
    <3>2. QED
      BY <1>10, <3>1
  <2>2. \A j \in 1 .. n : head(j) \in Heads(all)
    BY <1>1, <1>10 DEF Heads, n
  <2>3. \A j \in 1 .. n, i \in 1 .. c : head(j) # head(n + i)
    BY <1>10, <2>2
  <2>4. \A i, j \in 1 .. c : head(n + i) = head(n + j) => i = j
    BY <1>3, <1>10
  <2>5. QED
    BY <1>9, <2>1, <2>3, <2>4
<1>15. \A k \in 1 .. n + c : len(k) \in Nat /\ len(k) <= l + 1
  <2>1. \A k \in 1 .. n : len(k) <= l + 1
    BY <1>1, <1>10 DEF Followed, n, via, l
  <2>2. \A i \in 1 .. c : len(n + i) \in Nat /\ len(n + i) <= l + 1
    <3>1. l + 1 \in Nat /\ l + 1 <= l + 1
      BY <1>7
    <3>2. QED
      BY <1>10, <3>1
  <2>3. QED
    BY <1>9, <1>10, <2>1, <2>2
<1>16. \A j, k \in 1 .. n + c : j < k => len(j) <= len(k)
  <2>1. \A j, k \in 1 .. n : j < k => len(j) <= len(k)
    <3>1. \A j, k \in 1 .. n : j < k => Len(all[j]) <= Len(all[k])
      BY <1>1 DEF Found, n
    <3>2. QED
      BY <1>10, <3>1
  <2>2. \A i \in 1 .. c : \A j \in 1 .. n + c : len(j) <= len(n + i)
    BY <1>10, <1>15
  <2>3. \A i \in 1 .. c : \A j \in 1 .. n : ~(n + i < j)
    BY <1>7
  <2>4. QED
    BY <1>9, <2>1, <2>2, <2>3
<1>17. \A k \in 1 .. n + c : len(k) <= k /\ (k > 1 => len(k) >= 2)
  <2>1. \A k \in 1 .. n : Len(all[k]) <= k /\ (k > 1 => Len(all[k]) >= 2)
    BY <1>1 DEF Found, n
  <2>2. l <= m + 1
    BY <1>7, <2>1 DEF l, via
  <2>3. \A i \in 1 .. c : len(n + i) <= n + i /\ len(n + i) >= 2
    <3>1. \A i \in 1 .. c : l + 1 <= n + i /\ l + 1 >= 2
      BY <1>7, <2>2
    <3>2. QED
      BY <1>10, <3>1
  <2>4. QED
    BY <1>9, <1>10, <2>1, <2>3
<1>18. W(l - 1) \subseteq Heads(all)
  BY DEF Followed, via, l
<1> HIDE DEF W
<1>19. \A k \in 1 .. n + c : \A d \in Nat : d < len(k) - 1 => head(k) \notin W(d)
  <2>1. \A k \in 1 .. n : \A d \in Nat : d < len(k) - 1 => head(k) \notin W(d)
    <3>1. \A k \in 1 .. n : \A d \in Nat : d < Len(all[k]) - 1 => all[k][1] \notin W(d)
      BY <1>1 DEF Found, n, W
    <3>2. QED
      BY <1>10, <3>1
  <2>2. ASSUME NEW i \in 1 .. c, NEW d \in Nat, d < (l + 1) - 1
        PROVE  order[i] \notin W(d)
    <3>1. d <= l - 1 /\ l - 1 \in Nat
      BY <1>7, <2>2
    <3>2. W(d) \subseteq W(l - 1)
      BY <3>1, WithinGrows DEF W
    <3>3. QED
      BY <1>10, <1>18, <3>2
  <2>3. \A i \in 1 .. c : \A d \in Nat : d < len(n + i) - 1 => head(n + i) \notin W(d)
    BY <1>10, <2>2
  <2>4. QED
    BY <1>9, <2>1, <2>3
<1>20. Found(inventory, target, new)
  <2>1. new[1] = <<target>>
    <3>1. 1 \in 1 .. n /\ all[1] = <<target>>
      BY <1>7 DEF Found
    <3>2. QED
      BY <1>8, <3>1
  <2>2. Len(new) >= 1
    BY <1>7, <1>8
  <2>3. QED
    BY <1>8, <1>13, <1>14, <1>16, <1>17, <1>19, <2>1, <2>2 DEF Found, W, head, len
<1>21. \A k \in 1 .. m + 1 : DependentsOf(inventory, {head(k)}) \subseteq Heads(new)
  <2>1. \A k \in 1 .. m : DependentsOf(inventory, {all[k][1]}) \subseteq Heads(all)
    BY DEF Followed
  <2>2. DependentsOf(inventory, {all[m + 1][1]}) \subseteq Heads(all) \cup found
    BY DEF found
  <2>3. \A k \in 1 .. m + 1 : (k \in 1 .. m \/ k = m + 1) /\ k \in 1 .. n
    BY <1>7
  <2>4. QED
    BY <1>10, <1>12, <2>1, <2>2, <2>3
<1>22. ASSUME m + 1 < n + c
       PROVE  /\ \A k \in 1 .. n + c : len(k) <= len((m + 1) + 1) + 1
              /\ W(len((m + 1) + 1) - 1) \subseteq Heads(new)
  <2> DEFINE next == len((m + 1) + 1)
  <2>1. m + 1 \in 1 .. n + c /\ (m + 1) + 1 \in 1 .. n + c /\ m + 1 < (m + 1) + 1
    BY <1>7, <1>22
  <2>2. next \in Nat /\ next <= l + 1
    BY <1>15, <2>1
  <2>3. len(m + 1) = l
    BY <1>7, <1>10 DEF via, l
  <2>4. l <= next
    BY <1>16, <2>1, <2>3
  <2>5. \A k \in 1 .. n + c : len(k) <= next + 1
    <3> HIDE DEF next
    <3>1. QED
      BY <1>7, <1>15, <2>2, <2>4
  <2>6. ASSUME next = l
        PROVE  W(next - 1) \subseteq Heads(new)
    BY <1>12, <1>18, <2>6
  <2>7. ASSUME next = l + 1
        PROVE  W(next - 1) \subseteq Heads(new)
    <3>1. l - 1 \in Nat /\ (l - 1) + 1 = l /\ next - 1 = l
      BY <1>7, <2>7
    <3>2. W((l - 1) + 1) = W(l - 1) \cup DependentsOf(inventory, W(l - 1))
      BY <3>1, WithinNext DEF W
    <3>3. ASSUME NEW z \in W(l - 1)
          PROVE  \E k \in 1 .. m + 1 : z = head(k)
      <4>1. PICK k \in 1 .. n + c : z = head(k)
        BY <1>11, <1>12, <1>18
      <4>2. ASSUME k > m + 1
            PROVE  FALSE
        <5>1. k = (m + 1) + 1 \/ (m + 1) + 1 < k
          BY <1>7, <4>2
        <5>2. len(k) >= l + 1 /\ len(k) \in Nat
          BY <1>15, <1>16, <2>1, <2>2, <2>7, <5>1
        <5>3. l - 1 < len(k) - 1
          BY <1>7, <5>2
        <5>4. z \notin W(l - 1)
          BY <1>19, <3>1, <4>1, <5>3
        <5>5. QED
          BY <3>3, <5>4
      <4>3. k \in 1 .. m + 1
        BY <1>7, <4>2
      <4>4. QED
        BY <4>1, <4>3
    <3>4. ASSUME NEW y \in DependentsOf(inventory, W(l - 1))
          PROVE  y \in Heads(new)
      <4>1. PICK z \in W(l - 1) : y \in DependentsOf(inventory, {z})
        BY DEF DependentsOf
      <4>2. QED
        BY <1>21, <3>3, <4>1
    <3>5. QED
      BY <1>12, <1>18, <3>1, <3>2, <3>4
  <2>8. next = l \/ next = l + 1
    <3> HIDE DEF next
    <3>1. QED
      BY <1>7, <2>2, <2>4
  <2>9. QED
    BY <2>5, <2>6, <2>7, <2>8
<1>23. Followed(inventory, target, new, m + 1)
  <2>1. m + 1 \in 0 .. Len(new)
    BY <1>7, <1>8
  <2>2. QED
    BY <1>8, <1>21, <1>22, <2>1 DEF Followed, W, head, len
<1>24. QED
  BY <1>6, <1>20, <1>23 DEF new, chains, via
(* Where the walk starts: at the target, with nothing followed.                *)
LEMMA FollowedNone ==
  ASSUME NEW inventory \in Inventories, NEW target \in Plugins
  PROVE  /\ Found(inventory, target, <<<<target>>>>)
         /\ Followed(inventory, target, <<<<target>>>>, 0)
<1> DEFINE chain == <<target>>
           all == <<chain>>
<1>1. chain \in Seq(Plugins) /\ Len(chain) = 1 /\ chain[1] = target
  OBVIOUS
<1>2. Chain(inventory, target, chain)
  <2> HIDE DEF chain
  <2>1. QED
    BY <1>1 DEF Chain
<1> HIDE DEF chain
<1>3. all \in Seq(Seq(Plugins)) /\ Len(all) = 1 /\ DOMAIN all = 1 .. 1 /\ all[1] = chain
  BY <1>1
<1> HIDE DEF all
<1>4. \A k \in 1 .. 1 : k = 1
  OBVIOUS
<1>5. \A d \in Nat : ~(d < Len(chain) - 1)
  BY <1>1
<1>6. Found(inventory, target, all)
  <2>1. \A k \in DOMAIN all : all[k] = chain /\ k = 1
    BY <1>3, <1>4
  <2>2. \A k \in DOMAIN all : Len(all[k]) <= k /\ (k > 1 => Len(all[k]) >= 2)
    BY <1>1, <2>1
  <2>3. \A j, k \in DOMAIN all : (all[j][1] = all[k][1] => j = k) /\ (j < k => Len(all[j]) <= Len(all[k]))
    BY <1>1, <2>1
  <2>4. \A k \in DOMAIN all : \A d \in Nat :
          d < Len(all[k]) - 1 => all[k][1] \notin WithinSteps(inventory, target, d)
    BY <1>5, <2>1
  <2>5. all[1] = <<target>>
    BY <1>3 DEF chain
  <2>6. QED
    BY <1>2, <1>3, <2>1, <2>2, <2>3, <2>4, <2>5 DEF Found
<1>7. Followed(inventory, target, all, 0)
  <2>1. all[0 + 1] = chain /\ Len(chain) - 1 = 0 /\ 0 \in 0 .. Len(all)
    BY <1>1, <1>3
  <2>2. WithinSteps(inventory, target, 0) \subseteq Heads(all)
    BY <1>1, <1>3, WithinNext DEF Heads
  <2>3. \A k \in DOMAIN all : Len(all[k]) <= Len(all[0 + 1]) + 1
    <3>1. \A k \in DOMAIN all : all[k] = chain
      BY <1>3, <1>4
    <3>2. 1 <= Len(chain) + 1
      BY <1>1
    <3>3. QED
      BY <1>1, <2>1, <3>1, <3>2
  <2>4. WithinSteps(inventory, target, Len(all[0 + 1]) - 1) \subseteq Heads(all)
    BY <2>1, <2>2
  <2>5. \A k \in 1 .. 0 : FALSE
    OBVIOUS
  <2>6. QED
    BY <2>1, <2>3, <2>4, <2>5 DEF Followed
<1>8. QED
  BY <1>6, <1>7 DEF all, chain

(* A chain leads to the target in as many steps as it has. *)
LEMMA ChainReaches ==
  ASSUME NEW inventory, NEW target, NEW chain, Chain(inventory, target, chain)
  PROVE  chain[1] \in WithinSteps(inventory, target, Len(chain) - 1)
<1> DEFINE l == Len(chain)
           W(d) == WithinSteps(inventory, target, d)
           S == {d \in Nat : d < l => chain[l - d] \in W(d)}
<1>1. /\ l \in Nat /\ l >= 1 /\ chain[l] = target
      /\ \A i \in 1 .. l - 1 : chain[i] \in DOMAIN inventory /\ chain[i + 1] \in inventory[chain[i]].depends_on
  BY DEF Chain
<1>2. /\ W(0) = {target}
      /\ \A d \in Nat : W(d + 1) = W(d) \cup DependentsOf(inventory, W(d))
  BY WithinNext
<1> HIDE DEF l, W
<1>3. 0 \in S
  <2>1. l - 0 = l
    BY <1>1
  <2>2. QED
    BY <1>1, <1>2, <2>1
<1>4. ASSUME NEW d \in Nat, d \in S
      PROVE  d + 1 \in S
  <2>1. SUFFICES ASSUME d + 1 < l
                 PROVE  chain[l - (d + 1)] \in W(d + 1)
    OBVIOUS
  <2> DEFINE i == l - (d + 1)
  <2>2. i \in 1 .. l - 1 /\ i + 1 = l - d /\ d < l
    BY <1>1, <2>1
  <2>3. chain[i + 1] \in W(d)
    BY <1>4, <2>2
  <2> HIDE DEF i
  <2>4. chain[i] \in DependentsOf(inventory, W(d))
    BY <1>1, <2>2, <2>3 DEF DependentsOf
  <2>5. QED
    BY <1>2, <2>4 DEF i
<1>5. Nat \subseteq S
  <2> HIDE DEF S
  <2>1. QED
    BY <1>3, <1>4, Induct
<1>6. l - 1 \in Nat /\ l - 1 < l /\ l - (l - 1) = 1
  BY <1>1
<1>7. chain[l - (l - 1)] \in W(l - 1)
  BY <1>5, <1>6
<1>8. QED
  BY <1>6, <1>7 DEF l, W

(* When every chain was followed, the heads are those that lead to the target. *)
LEMMA HeadsReach ==
  ASSUME NEW inventory \in Inventories, NEW target \in Plugins, NEW all,
         Found(inventory, target, all), Followed(inventory, target, all, Len(all))
  PROVE  Heads(all) = WithinSteps(inventory, target, Cardinality(Plugins))
<1> DEFINE W(d) == WithinSteps(inventory, target, d)
           n == Len(all)
           S == {d \in Nat : W(d) \subseteq Heads(all)}
<1>1. /\ W(0) = {target}
      /\ \A d \in Nat : W(d + 1) = W(d) \cup DependentsOf(inventory, W(d))
  BY WithinNext
<1>2. \A d, e \in Nat : d <= e => W(d) \subseteq W(e)
  BY WithinGrows
<1>3. n \in Nat /\ n >= 1 /\ DOMAIN all = 1 .. n /\ \A k \in 1 .. n : Chain(inventory, target, all[k])
  BY DEF Found
<1> HIDE DEF W, n
<1>4. target \in Heads(all)
  <2>1. 1 \in DOMAIN all /\ all[1][1] = target
    BY <1>3 DEF Found
  <2>2. QED
    BY <2>1 DEF Heads
<1>5. DependentsOf(inventory, Heads(all)) \subseteq Heads(all)
  <2>1. ASSUME NEW y \in DependentsOf(inventory, Heads(all))
        PROVE  y \in Heads(all)
    <3>1. PICK k \in 1 .. n : y \in DependentsOf(inventory, {all[k][1]})
      BY <1>3 DEF DependentsOf, Heads
    <3>2. QED
      BY <3>1 DEF Followed, n
  <2>2. QED
    BY <2>1
<1>6. Nat \subseteq S
  <2>1. 0 \in S
    BY <1>1, <1>4
  <2>2. ASSUME NEW d \in Nat, d \in S
        PROVE  d + 1 \in S
    <3>1. DependentsOf(inventory, W(d)) \subseteq DependentsOf(inventory, Heads(all))
      BY <2>2 DEF DependentsOf
    <3>2. W(d + 1) \subseteq Heads(all)
      BY <1>1, <1>5, <2>2, <3>1
    <3>3. QED
      BY <3>2
  <2> HIDE DEF S
  <2>3. QED
    BY <2>1, <2>2, Induct
<1> DEFINE N == Cardinality(Plugins)
<1>7. N \in Nat
  BY CatalogAssumption, FS_CardinalityType
<1>8. n <= N
  <2> DEFINE f == [k \in 1 .. n |-> all[k][1]]
  <2>1. \A k \in 1 .. n : all[k][1] \in Plugins
    <3>1. \A chain : Chain(inventory, target, chain) => chain[1] \in Plugins
      BY DEF Chain
    <3>2. QED
      BY <1>3, <3>1
  <2>2. f \in [1 .. n -> Plugins] /\ \A j, k \in 1 .. n : f[j] = f[k] => j = k
    BY <1>3, <2>1 DEF Found
  <2> HIDE DEF f
  <2>3. f \in Injection(1 .. n, Plugins)
    BY <2>2 DEF Injection, IsInjective
  <2>4. Cardinality(1 .. n) <= N
    BY <2>3, CatalogAssumption, FS_Injection
  <2>5. Cardinality(1 .. n) = IF 1 > n THEN 0 ELSE n - 1 + 1
    BY <1>3, FS_Interval
  <2>6. QED
    BY <1>3, <2>4, <2>5
<1> HIDE DEF N
<1>9. W(N) \subseteq Heads(all)
  BY <1>6, <1>7
<1>10. Heads(all) \subseteq W(N)
  <2>1. ASSUME NEW k \in 1 .. n
        PROVE  all[k][1] \in W(N)
    <3>1. Len(all[k]) \in Nat /\ Len(all[k]) >= 1 /\ Len(all[k]) <= k
      <4>1. Chain(inventory, target, all[k]) /\ Len(all[k]) <= k
        BY <1>3 DEF Found
      <4>2. QED
        BY <4>1 DEF Chain
    <3>2. Len(all[k]) - 1 \in Nat /\ Len(all[k]) - 1 <= N
      BY <1>3, <1>7, <1>8, <3>1
    <3>3. all[k][1] \in W(Len(all[k]) - 1)
      BY <1>3, ChainReaches DEF W
    <3>4. QED
      BY <1>2, <1>7, <3>2, <3>3
  <2>2. QED
    BY <1>3, <2>1 DEF Heads
<1>11. QED
  BY <1>9, <1>10 DEF W, N

(* Then the report is true. *)
LEMMA FollowedAll ==
  ASSUME NEW i, i.inventory \in Inventories, i.target \in Plugins, i.deps \in Seq(Seq(Plugins)),
         NEW all, all = <<<<i.target>>>> \o i.deps,
         Found(i.inventory, i.target, all), Followed(i.inventory, i.target, all, Len(all))
  PROVE  DependentsAreTrue(i)
<1> DEFINE inventory == i.inventory
           target == i.target
           deps == i.deps
           n == Len(deps)
           W(d) == WithinSteps(inventory, target, d)
           found == {Head(deps[k]) : k \in DOMAIN deps}
<1>1. n \in Nat /\ DOMAIN deps = 1 .. n
  OBVIOUS
<1>2. Len(all) = n + 1 /\ DOMAIN all = 1 .. n + 1 /\ all[1] = <<target>> /\ \A k \in 1 .. n : all[k + 1] = deps[k]
  <2> DEFINE first == <<<<target>>>>
  <2>1. first \in Seq(Seq(Plugins)) /\ Len(first) = 1 /\ first[1] = <<target>>
    OBVIOUS
  <2> HIDE DEF first
  <2>2. all = first \o deps /\ deps \in Seq(Seq(Plugins))
    BY DEF first
  <2> HIDE DEF deps, n
  <2>4. n = Len(deps) /\ n \in Nat
    BY <2>2 DEF n
  <2>3. /\ all \in Seq(Seq(Plugins)) /\ Len(all) = 1 + n
        /\ \A k \in 1 .. 1 + n : all[k] = IF k <= 1 THEN first[k] ELSE deps[k - 1]
    <3>1. LET s == first \o deps
          IN  /\ s \in Seq(Seq(Plugins)) /\ Len(s) = Len(first) + Len(deps)
              /\ \A k \in 1 .. Len(first) + Len(deps) :
                   s[k] = IF k <= Len(first) THEN first[k] ELSE deps[k - Len(first)]
      BY <2>1, <2>2, ConcatProperties
    <3>2. QED
      BY <2>1, <2>2, <2>4, <3>1
  <2>5. \A k \in 1 .. n : k + 1 \in 1 .. 1 + n /\ ~(k + 1 <= 1) /\ (k + 1) - 1 = k
    BY <2>4
  <2>6. \A k \in 1 .. n : all[k + 1] = deps[k]
    BY <2>3, <2>4, <2>5
  <2>7. all[1] = <<target>>
    BY <2>1, <2>3, <2>4
  <2>8. Len(all) = n + 1
    BY <2>3, <2>4
  <2>9. DOMAIN all = 1 .. n + 1
    BY <2>3, <2>8
  <2>10. QED
    BY <2>6, <2>7, <2>8, <2>9
<1>3. \A k \in 1 .. n : k + 1 \in 1 .. n + 1
  BY <1>1
<1>4. Heads(all) = W(Cardinality(Plugins))
  BY HeadsReach
<1>5. /\ \A k \in 1 .. n + 1 : Chain(inventory, target, all[k])
      /\ \A j, k \in 1 .. n + 1 : all[j][1] = all[k][1] => j = k
      /\ \A j, k \in 1 .. n + 1 : j < k => Len(all[j]) <= Len(all[k])
      /\ \A k \in 1 .. n + 1 : k > 1 => Len(all[k]) >= 2
      /\ \A k \in 1 .. n + 1 : \A d \in Nat : d < Len(all[k]) - 1 => all[k][1] \notin W(d)
  BY <1>2 DEF Found
<1> DEFINE head(k) == all[k][1]
           len(k) == Len(all[k])
<1>6. /\ \A j, k \in 1 .. n + 1 : head(j) = head(k) => j = k
      /\ \A j, k \in 1 .. n + 1 : j < k => len(j) <= len(k)
      /\ \A k \in 1 .. n + 1 : len(k) \in Nat /\ (k > 1 => len(k) >= 2)
      /\ \A k \in 1 .. n + 1 : \A d \in Nat : d < len(k) - 1 => head(k) \notin W(d)
      /\ head(1) = target
  <2>1. head(1) = target
    BY <1>2
  <2>2. \A j, k \in 1 .. n + 1 : head(j) = head(k) => j = k
    BY <1>5
  <2>3. \A j, k \in 1 .. n + 1 : j < k => len(j) <= len(k)
    BY <1>5
  <2>4. \A k \in 1 .. n + 1 : len(k) \in Nat
    BY <1>5 DEF Chain
  <2>5. \A k \in 1 .. n + 1 : k > 1 => len(k) >= 2
    BY <1>5
  <2>6. \A k \in 1 .. n + 1 : \A d \in Nat : d < len(k) - 1 => head(k) \notin W(d)
    BY <1>5
  <2> HIDE DEF head, len, W, n, target
  <2>7. QED
    BY <2>1, <2>2, <2>3, <2>4, <2>5, <2>6
<1> HIDE DEF inventory, target, deps, n, W
<1>7. \A k \in 1 .. n : /\ Chain(inventory, target, deps[k])
                        /\ Head(deps[k]) = head(k + 1) /\ Len(deps[k]) = len(k + 1)
  <2>1. \A chain : Head(chain) = chain[1]
    OBVIOUS
  <2>2. \A k \in 1 .. n : Chain(inventory, target, deps[k])
    BY <1>2, <1>3, <1>5
  <2>3. \A k \in 1 .. n : Head(deps[k]) = head(k + 1) /\ Len(deps[k]) = len(k + 1)
    BY <1>2, <2>1
  <2>4. QED
    BY <2>2, <2>3
<1>8. \A y : y \in Heads(all) <=> \E k \in 1 .. n + 1 : head(k) = y
  BY <1>2 DEF Heads
<1> HIDE DEF head, len
<1>9. \A j, k \in 1 .. n : Head(deps[j]) = Head(deps[k]) => j = k
  <2>1. \A j, k \in 1 .. n : j + 1 = k + 1 => j = k
    BY <1>1
  <2>2. QED
    BY <1>3, <1>6, <1>7, <2>1
<1>10. found = Heads(all) \ {target}
  <2>1. 1 \in 1 .. n + 1 /\ \A k \in 1 .. n : k + 1 # 1
    BY <1>1
  <2>2. \A k \in 1 .. n : head(k + 1) # target
    BY <1>3, <1>6, <2>1
  <2>3. \A j \in 1 .. n + 1 : j = 1 \/ \E k \in 1 .. n : j = k + 1
    <3>1. ASSUME NEW j \in 1 .. n + 1, j # 1
          PROVE  j - 1 \in 1 .. n /\ j = (j - 1) + 1
      BY <1>1, <3>1
    <3>2. QED
      BY <3>1
  <2>4. \A y : y \in found <=> \E k \in 1 .. n : head(k + 1) = y
    <3>1. DOMAIN deps = 1 .. n
      BY <1>1
    <3>2. QED
      BY <1>7, <3>1
  <2> HIDE DEF found
  <2>5. found \subseteq Heads(all) \ {target}
    BY <1>3, <1>8, <2>2, <2>4
  <2>6. Heads(all) \ {target} \subseteq found
    BY <1>6, <1>8, <2>3, <2>4
  <2>7. QED
    BY <2>5, <2>6
<1>11. Cardinality(found) = n
  <2> DEFINE f == [k \in 1 .. n |-> Head(deps[k])]
  <2>1. /\ f \in [1 .. n -> found] /\ \A j, k \in 1 .. n : f[j] = f[k] => j = k
        /\ \A y \in found : \E k \in 1 .. n : f[k] = y
    BY <1>1, <1>9
  <2> HIDE DEF f, found
  <2>2. f \in Bijection(1 .. n, found)
    BY <2>1 DEF Bijection, Injection, Surjection, IsInjective
  <2>3. ExistsBijection(1 .. n, found)
    BY <2>2 DEF ExistsBijection
  <2>4. QED
    BY <1>1, <2>3, FS_CountingElements
<1>12. ASSUME NEW k \in 1 .. n
       PROVE  LET d == Len(deps[k]) - 1
              IN  /\ \A m \in 1 .. d : deps[k][m + 1] \in inventory[deps[k][m]].depends_on
                  /\ deps[k][d + 1] = target
                  /\ Head(deps[k]) \notin W(d - 1)
                  /\ k > 1 => Len(deps[k - 1]) - 1 <= d
  <2> DEFINE d == Len(deps[k]) - 1
  <2>1. /\ Chain(inventory, target, deps[k]) /\ Len(deps[k]) = len(k + 1) /\ len(k + 1) \in Nat
        /\ Head(deps[k]) = head(k + 1) /\ k + 1 \in 1 .. n + 1
    BY <1>3, <1>6, <1>7
  <2>2. len(k + 1) >= 2
    <3>1. k + 1 > 1
      OBVIOUS
    <3>2. QED
      BY <1>6, <2>1, <3>1
  <2>3. d \in Nat /\ d + 1 = Len(deps[k]) /\ d - 1 \in Nat /\ d - 1 < len(k + 1) - 1
    BY <2>1, <2>2
  <2> HIDE DEF d
  <2>4. \A m \in 1 .. d : deps[k][m + 1] \in inventory[deps[k][m]].depends_on
    BY <2>1 DEF Chain, d
  <2>5. deps[k][d + 1] = target
    BY <2>1, <2>3 DEF Chain
  <2>6. Head(deps[k]) \notin W(d - 1)
    BY <1>6, <2>1, <2>3
  <2>7. ASSUME k > 1
        PROVE  Len(deps[k - 1]) - 1 <= d
    <3>1. k - 1 \in 1 .. n /\ (k - 1) + 1 = k /\ k \in 1 .. n + 1 /\ k < k + 1
      BY <1>1, <2>7
    <3>2. Len(deps[k - 1]) = len(k) /\ len(k) \in Nat /\ len(k) <= len(k + 1)
      BY <1>6, <1>7, <2>1, <3>1
    <3>3. QED
      BY <2>1, <3>2 DEF d
  <2>8. QED
    BY <2>4, <2>5, <2>6, <2>7 DEF d
<1>13. QED
  BY <1>1, <1>4, <1>10, <1>11, <1>12 DEF DependentsAreTrue, inventory, target, deps, n, W

(* An analysis under way, or shown. *)
ImpactState ==
  [stage : {"walk", "tables", "inbound", "refs", "counts", "shown"},
   target : Plugins, inventory : Inventories, fresh : BOOLEAN, cross : BOOLEAN,
   queue : Seq(Seq(Plugins)), deps : Seq(Seq(Plugins)),
   available : BOOLEAN, refs : UNION {[S -> {"none", "some"}] : S \in SUBSET Plugins},
   inbound : SUBSET Plugins, counts : {"unavailable", "unknown", "none", "some"},
   before : Holdings, whole : BOOLEAN]

(* The chains found, that of the target first; the queue holds the last ones.  *)
Chains(i) == <<<<i.target>>>> \o i.deps

WalkInv(i) ==
  /\ i.target \in DOMAIN i.inventory
  /\ i.stage # "walk" => i.queue = <<>>
  /\ Found(i.inventory, i.target, Chains(i))
  /\ Followed(i.inventory, i.target, Chains(i), Len(Chains(i)) - Len(i.queue))
  /\ \A k \in 1 .. Len(i.queue) : i.queue[k] = Chains(i)[Len(Chains(i)) - Len(i.queue) + k]

(* What the instance answered is what it held, unless it changed since.        *)
AnswersInv(i, holds) ==
  /\ i.whole => i.before = holds
  /\ i.available => i.stage \in {"counts", "shown"} /\ DOMAIN i.refs = i.inbound
  /\ i.whole /\ (i.stage = "refs" \/ i.available) =>
       \/ i.before[i.target] = Absent
       \/ i.inbound = {y \in References[i.target] : i.before[y] # Absent}
  /\ i.whole => \A y \in DOMAIN i.refs : i.refs[y] = CountIn(i.before[y])
  /\ i.stage = "shown" =>
       \/ i.counts = "unavailable"
       \/ ~i.fresh /\ i.counts = i.inventory[i.target].record_counts
       \/ i.whole => i.counts = CountIn(i.before[i.target])

ImpactInv ==
  \/ impact = NoImpact
  \/ impact \in ImpactState /\ WalkInv(impact) /\ AnswersInv(impact, live[Target])

(* What is under way is no analysis, or one with a stage. *)
LEMMA Staged ==
  ASSUME ImpactInv, impact.stage # "none"
  PROVE  impact \in ImpactState /\ WalkInv(impact) /\ AnswersInv(impact, live[Target])
  BY DEF ImpactInv, NoImpact

(* An analysis starts at its target. *)
LEMMA StartImpactKeeps ==
  ASSUME TypeOK, NEW x \in Plugins, NEW fresh \in BOOLEAN, NEW cross \in BOOLEAN, StartImpact(x, fresh, cross)
  PROVE  ImpactInv'
<1> DEFINE inventory == stored[Target]
           i == [stage |-> "walk", target |-> x, inventory |-> inventory, fresh |-> fresh, cross |-> cross,
                 queue |-> <<<<x>>>>, deps |-> <<>>, available |-> FALSE, refs |-> NoRows, inbound |-> {},
                 counts |-> "unavailable", before |-> live[Target], whole |-> TRUE]
<1>1. /\ inventory \in Inventories /\ x \in DOMAIN inventory /\ live[Target] \in Holdings
      /\ impact' = i /\ live' = live
  BY DEF StartImpact, TypeOK, Profiles, unread
<1>2. NoRows \in UNION {[S -> {"none", "some"}] : S \in SUBSET Plugins} /\ DOMAIN NoRows = {}
  <2>1. NoRows \in [{} -> {"none", "some"}]
    BY DEF NoRows
  <2>2. QED
    BY <2>1
<1> DEFINE first == <<x>>
           queue == <<first>>
           deps == <<>>
<1>3. /\ first \in Seq(Plugins) /\ queue \in Seq(Seq(Plugins)) /\ deps \in Seq(Seq(Plugins))
      /\ Len(queue) = 1 /\ queue[1] = first
  OBVIOUS
<1>4. i \in ImpactState
  <2> HIDE DEF queue, deps, inventory
  <2>1. i = [stage |-> "walk", target |-> x, inventory |-> inventory, fresh |-> fresh, cross |-> cross,
             queue |-> queue, deps |-> deps, available |-> FALSE, refs |-> NoRows, inbound |-> {},
             counts |-> "unavailable", before |-> live[Target], whole |-> TRUE]
    BY DEF queue, deps
  <2> HIDE DEF i
  <2>2. QED
    BY <1>1, <1>2, <1>3, <2>1 DEF ImpactState
<1>5. Chains(i) = queue
  <2>1. queue \o deps = queue
    <3> HIDE DEF queue
    <3>1. QED
      BY <1>3, ConcatEmptySeq
  <2>2. QED
    BY <2>1 DEF Chains
<1>6. WalkInv(i)
  <2>1. Found(inventory, x, queue) /\ Followed(inventory, x, queue, 0)
    BY <1>1, FollowedNone
  <2>2. i.queue = queue /\ i.inventory = inventory /\ i.target = x /\ i.stage = "walk"
    OBVIOUS
  <2> HIDE DEF i, queue, first, inventory
  <2>3. Len(queue) - Len(queue) = 0 /\ \A k \in 1 .. Len(queue) : Len(queue) - Len(queue) + k = k
    BY <1>3
  <2>4. QED
    BY <1>1, <1>5, <2>1, <2>2, <2>3 DEF WalkInv
<1>7. AnswersInv(i, live[Target])
  <2>1. /\ i.whole /\ i.before = live[Target] /\ ~i.available /\ i.stage = "walk" /\ DOMAIN i.refs = {}
    BY <1>2
  <2> HIDE DEF i
  <2>2. QED
    BY <2>1 DEF AnswersInv
<1>8. QED
  BY <1>1, <1>4, <1>6, <1>7 DEF ImpactInv

(* A turn of the walk follows the first chain of the queue.                    *)
LEMMA WalkKeeps ==
  ASSUME ImpactInv, Walk
  PROVE  ImpactInv'
<1> DEFINE i == impact
           inventory == i.inventory
           target == i.target
           deps == i.deps
           queue == i.queue
           all == Chains(i)
           q == Len(queue)
           n == Len(all)
           m == n - q
<1>1. i \in ImpactState /\ WalkInv(i) /\ AnswersInv(i, live[Target]) /\ i.stage = "walk" /\ queue # <<>>
  BY Staged DEF Walk
<1>2. /\ inventory \in Inventories /\ target \in Plugins /\ target \in DOMAIN inventory
      /\ deps \in Seq(Seq(Plugins)) /\ queue \in Seq(Seq(Plugins))
  BY <1>1 DEF ImpactState, WalkInv
<1>3. /\ Found(inventory, target, all) /\ Followed(inventory, target, all, m)
      /\ \A k \in 1 .. q : queue[k] = all[m + k]
  BY <1>1 DEF WalkInv
<1>4. q \in Nat /\ q >= 1 /\ n \in Nat /\ all \in Seq(Seq(Plugins)) /\ m \in 0 .. n
  <2>1. q \in Nat /\ q >= 1
    BY <1>1, <1>2, EmptySeq
  <2>2. all \in Seq(Seq(Plugins))
    BY <1>3 DEF Found
  <2>3. m \in 0 .. n
    BY <1>3 DEF Followed
  <2>4. n \in Nat
    BY <2>2
  <2>5. QED
    BY <2>1, <2>2, <2>3, <2>4
<1>5. m < n /\ m + 1 \in 1 .. n /\ 1 \in 1 .. q /\ n - m = q
  <2> HIDE DEF q, n
  <2>1. QED
    BY <1>4
<1>6. Head(queue) = all[m + 1]
  <2>1. Head(queue) = queue[1]
    OBVIOUS
  <2>2. queue[1] = all[m + 1]
    BY <1>3, <1>5
  <2>3. QED
    BY <2>1, <2>2
<1> DEFINE via == all[m + 1]
<1>7. via \in Seq(Plugins) /\ Len(via) >= 1 /\ Head(via) = via[1]
  <2>1. DOMAIN all = 1 .. n
    BY <1>4
  <2>2. \A k \in DOMAIN all : Chain(inventory, target, all[k])
    BY <1>3 DEF Found
  <2>3. Chain(inventory, target, via)
    BY <1>5, <2>1, <2>2
  <2> HIDE DEF via
  <2>4. via \in Seq(Plugins) /\ Len(via) >= 1
    BY <2>3 DEF Chain
  <2>5. Head(via) = via[1]
    OBVIOUS
  <2>6. QED
    BY <2>4, <2>5
<1>8. Visited = Heads(all)
  <2> DEFINE first == <<<<target>>>>
  <2>1. first \in Seq(Seq(Plugins)) /\ Len(first) = 1 /\ first[1][1] = target
    BY <1>2
  <2> HIDE DEF first
  <2>2. all = first \o deps
    BY DEF first, Chains
  <2> HIDE DEF deps, all
  <2> DEFINE l == Len(deps)
  <2>3. l \in Nat /\ DOMAIN deps = 1 .. l
    BY <1>2
  <2>4. /\ Len(all) = 1 + l
        /\ \A k \in 1 .. 1 + l : all[k] = IF k <= 1 THEN first[k] ELSE deps[k - 1]
    <3>1. LET s == first \o deps
          IN  /\ Len(s) = Len(first) + Len(deps)
              /\ \A k \in 1 .. Len(first) + Len(deps) :
                   s[k] = IF k <= Len(first) THEN first[k] ELSE deps[k - Len(first)]
      <4>1. deps \in Seq(Seq(Plugins))
        BY <1>2
      <4>2. QED
        BY <2>1, <4>1, ConcatProperties
    <3>2. QED
      BY <2>1, <2>2, <3>1
  <2>5. DOMAIN all = 1 .. 1 + l
    BY <1>4, <2>3, <2>4
  <2> HIDE DEF l
  <2>6. /\ 1 \in 1 .. 1 + l
        /\ \A k \in 1 .. 1 + l : k <= 1 => k = 1
        /\ \A k \in 1 .. 1 + l : ~(k <= 1) => k - 1 \in 1 .. l
        /\ \A k \in 1 .. l : k + 1 \in 1 .. 1 + l /\ ~(k + 1 <= 1) /\ (k + 1) - 1 = k
    BY <2>3
  <2>7. \A chain : Head(chain) = chain[1]
    OBVIOUS
  <2>8. Visited = {target} \cup {deps[k][1] : k \in 1 .. l}
    BY <2>3, <2>7 DEF Visited, deps
  <2>9. Heads(all) = {all[k][1] : k \in 1 .. 1 + l}
    BY <2>5 DEF Heads
  <2>10. all[1][1] = target /\ \A k \in 1 .. l : all[k + 1][1] = deps[k][1]
    BY <2>1, <2>4, <2>6
  <2>11. \A k \in 1 .. 1 + l : k = 1 \/ all[k] = deps[k - 1]
    BY <2>4, <2>6
  <2>12. Visited \subseteq Heads(all)
    BY <2>6, <2>8, <2>9, <2>10
  <2>13. Heads(all) \subseteq Visited
    BY <2>6, <2>8, <2>9, <2>10, <2>11
  <2>14. QED
    BY <2>12, <2>13
<1> DEFINE found == DependentsOf(inventory, {via[1]}) \ Heads(all)
<1>9. {y \in DOMAIN inventory : Head(Head(queue)) \in inventory[y].depends_on} \ Visited = found
  <2>1. Head(Head(queue)) = via[1]
    BY <1>6, <1>7
  <2> HIDE DEF via, all
  <2>2. QED
    BY <1>8, <2>1 DEF DependentsOf
<1>10. PICK order \in SetToSeqs(found) :
         impact' = [impact EXCEPT !.queue = Tail(queue) \o [k \in DOMAIN order |-> <<order[k]>> \o Head(queue)],
                                  !.deps = deps \o [k \in DOMAIN order |-> <<order[k]>> \o Head(queue)]]
  BY <1>9 DEF Walk
<1> DEFINE chains == [k \in DOMAIN order |-> <<order[k]>> \o via]
<1>11. impact' = [impact EXCEPT !.queue = Tail(queue) \o chains, !.deps = deps \o chains]
  BY <1>6, <1>10
<1>12. /\ chains \in Seq(Seq(Plugins))
       /\ Found(inventory, target, all \o chains)
       /\ Followed(inventory, target, all \o chains, m + 1)
  BY <1>2, <1>3, <1>5, <1>10, FollowedOne
<1> HIDE DEF chains
<1>13. Tail(queue) \in Seq(Seq(Plugins)) /\ Len(Tail(queue)) = q - 1 /\ \A k \in 1 .. q - 1 : Tail(queue)[k] = queue[k + 1]
  BY <1>1, <1>2, HeadTailProperties
<1> DEFINE queue2 == Tail(queue) \o chains
           deps2 == deps \o chains
           all2 == all \o chains
           c == Len(chains)
<1>14. c \in Nat
  BY <1>12
<1>15. /\ queue2 \in Seq(Seq(Plugins)) /\ Len(queue2) = q - 1 + c
       /\ \A k \in 1 .. q - 1 + c : queue2[k] = IF k <= q - 1 THEN Tail(queue)[k] ELSE chains[k - (q - 1)]
  <2> DEFINE rest == Tail(queue)
  <2>1. rest \in Seq(Seq(Plugins)) /\ Len(rest) = q - 1
    BY <1>13
  <2> HIDE DEF rest
  <2>2. /\ rest \o chains \in Seq(Seq(Plugins)) /\ Len(rest \o chains) = Len(rest) + Len(chains)
        /\ \A k \in 1 .. Len(rest) + Len(chains) :
             (rest \o chains)[k] = IF k <= Len(rest) THEN rest[k] ELSE chains[k - Len(rest)]
    BY <1>12, <2>1, ConcatProperties
  <2>3. QED
    BY <2>1, <2>2 DEF rest
<1>16. /\ all2 \in Seq(Seq(Plugins)) /\ Len(all2) = n + c
       /\ \A k \in 1 .. n + c : all2[k] = IF k <= n THEN all[k] ELSE chains[k - n]
  BY <1>4, <1>12, ConcatProperties
<1>17. deps2 \in Seq(Seq(Plugins))
  BY <1>2, <1>12, ConcatProperties
<1> HIDE DEF queue2, deps2
<1>18. /\ i' \in ImpactState /\ i'.queue = queue2 /\ i'.deps = deps2
       /\ \A f \in {"stage", "target", "inventory", "fresh", "available", "refs", "inbound", "counts", "before", "whole"} :
            i'[f] = i[f]
  BY <1>1, <1>11, <1>15, <1>17 DEF ImpactState, queue2, deps2
<1>19. Chains(i') = all2
  <2> DEFINE first == <<<<target>>>>
  <2>1. first \in Seq(Seq(Plugins))
    BY <1>2
  <2>2. Chains(i') = first \o deps2 /\ all = first \o deps
    BY <1>18 DEF Chains
  <2> HIDE DEF first, deps, all
  <2>3. (first \o deps) \o chains = first \o (deps \o chains)
    BY <1>2, <1>12, <2>1, ConcatAssociative
  <2>4. QED
    BY <2>2, <2>3 DEF deps2
<1> HIDE DEF all2
<1>20. Len(all2) - Len(queue2) = m + 1
  <2> HIDE DEF n, q, c
  <2>1. QED
    BY <1>4, <1>14, <1>15, <1>16
<1>21. \A k \in 1 .. Len(queue2) : queue2[k] = all2[m + 1 + k]
  <2> DEFINE p == q - 1
  <2> HIDE DEF n, q, c
  <2>1. \A k \in 1 .. p + c : /\ m + 1 + k \in 1 .. n + c
                              /\ k <= p => m + 1 + k <= n /\ k \in 1 .. p /\ k + 1 \in 1 .. q /\ m + (k + 1) = m + 1 + k
                              /\ ~(k <= p) => ~(m + 1 + k <= n) /\ (m + 1 + k) - n = k - p
    BY <1>4, <1>14
  <2>2. Len(queue2) = p + c /\ \A k \in 1 .. p + c : queue2[k] = IF k <= p THEN Tail(queue)[k] ELSE chains[k - p]
    BY <1>15
  <2> HIDE DEF m, p, all, queue
  <2>3. \A k \in 1 .. p : Tail(queue)[k] = queue[k + 1]
    BY <1>13 DEF p
  <2>4. \A k \in 1 .. p + c : k <= p => queue2[k] = all2[m + 1 + k]
    <3> SUFFICES ASSUME NEW k \in 1 .. p + c, k <= p
                 PROVE  queue2[k] = all2[m + 1 + k]
      OBVIOUS
    <3>1. queue2[k] = queue[k + 1]
      BY <2>1, <2>2, <2>3
    <3>2. queue[k + 1] = all[m + (k + 1)]
      BY <1>3, <2>1
    <3>3. all2[m + 1 + k] = all[m + 1 + k]
      BY <1>16, <2>1
    <3>4. m + (k + 1) = m + 1 + k
      BY <2>1
    <3>5. QED
      BY <3>1, <3>2, <3>3, <3>4
  <2>5. \A k \in 1 .. p + c : ~(k <= p) => queue2[k] = all2[m + 1 + k]
    <3> SUFFICES ASSUME NEW k \in 1 .. p + c, ~(k <= p)
                 PROVE  queue2[k] = all2[m + 1 + k]
      OBVIOUS
    <3>1. queue2[k] = chains[k - p]
      BY <2>2
    <3>2. all2[m + 1 + k] = chains[(m + 1 + k) - n]
      <4> DEFINE j == m + 1 + k
      <4>1. j \in 1 .. n + c /\ ~(j <= n)
        BY <2>1
      <4> HIDE DEF j
      <4>2. all2[j] = chains[j - n]
        BY <1>16, <4>1
      <4>3. QED
        BY <4>2 DEF j
    <3>3. (m + 1 + k) - n = k - p
      BY <2>1
    <3>4. QED
      BY <3>1, <3>2, <3>3
  <2>6. QED
    BY <2>2, <2>4, <2>5
<1>22. WalkInv(i')
  <2>1. i'.stage = "walk" /\ i'.inventory = inventory /\ i'.target = target /\ i'.queue = queue2
    BY <1>1, <1>18
  <2>2. Found(inventory, target, all2) /\ Followed(inventory, target, all2, m + 1)
    BY <1>12 DEF all2
  <2> HIDE DEF inventory, target, m, queue, all
  <2>3. QED
    BY <1>2, <1>19, <1>20, <1>21, <2>1, <2>2 DEF WalkInv
<1>23. AnswersInv(i', live[Target]) /\ live' = live
  <2>1. live' = live
    BY DEF Walk, unread
  <2>2. AnswersInv(i', live[Target])
    BY <1>1, <1>18 DEF AnswersInv
  <2>3. QED
    BY <2>1, <2>2
<1>24. QED
  BY <1>18, <1>22, <1>23 DEF ImpactInv

(* What the other phases leave alone. *)
LEMMA WalkKept ==
  ASSUME NEW i, NEW j, WalkInv(i), j.target = i.target, j.inventory = i.inventory,
         j.queue = i.queue, j.deps = i.deps, j.stage # "walk" => j.stage = i.stage \/ i.queue = <<>>
  PROVE  WalkInv(j)
<1>1. Chains(j) = Chains(i)
  BY DEF Chains
<1>2. j.stage # "walk" => j.queue = <<>>
  BY DEF WalkInv
<1>3. QED
  BY <1>1, <1>2 DEF WalkInv

(* The phases that ask the instance, and those that count. *)
LEMMA AnsweringKeeps ==
  ASSUME TypeOK, ImpactInv,
         \/ Walked \/ TargetTables \/ InboundRefs \/ RefsDone \/ RefsFail
         \/ \E y \in impact.inbound : CountRef(y)
         \/ CountScope \/ CountFails \/ CountPending
  PROVE  ImpactInv'
<1> DEFINE i == impact
<1>1. live' = live
  BY DEF Walked, TargetTables, InboundRefs, RefsDone, RefsFail, CountRef, CountScope, CountFails, CountPending, unread
<1>2. i.stage # "none"
  BY DEF Walked, TargetTables, InboundRefs, RefsDone, RefsFail, CountRef, CountScope, CountFails, CountPending
<1>3. i \in ImpactState /\ WalkInv(i) /\ AnswersInv(i, live[Target])
  BY <1>2, Staged
<1>4. i.stage # "walk" => i.queue = <<>>
  BY <1>3 DEF WalkInv
<1>5. SUFFICES ASSUME i' # NoImpact
               PROVE  i' \in ImpactState /\ WalkInv(i') /\ AnswersInv(i', live[Target])
  BY <1>1 DEF ImpactInv
<1> DEFINE Keeps(j) == /\ j.target = i.target /\ j.inventory = i.inventory /\ j.queue = i.queue /\ j.deps = i.deps
                       /\ j.fresh = i.fresh /\ j.before = i.before /\ j.whole = i.whole
<1>6. NoRows \in UNION {[S -> {"none", "some"}] : S \in SUBSET Plugins} /\ DOMAIN NoRows = {}
  <2>1. NoRows \in [{} -> {"none", "some"}]
    BY DEF NoRows
  <2>2. QED
    BY <2>1
<1>7. CASE Walked
  <2>1. i.stage = "walk" /\ i.queue = <<>> /\ i' = [i EXCEPT !.stage = IF i.cross THEN "tables" ELSE "counts"]
    BY <1>7 DEF Walked
  <2>2. i' \in ImpactState /\ Keeps(i') /\ i'.stage \in {"tables", "counts"} /\ i'.available = i.available /\ i'.refs = i.refs
    BY <1>3, <2>1 DEF ImpactState
  <2>3. WalkInv(i')
    BY <1>3, <2>1, <2>2, WalkKept
  <2>4. AnswersInv(i', live[Target])
    BY <1>3, <2>1, <2>2 DEF AnswersInv
  <2>5. QED
    BY <2>2, <2>3, <2>4
<1>8. CASE TargetTables
  <2>1. /\ i.stage = "tables"
        /\ i' = [i EXCEPT !.stage = IF live[Target][i.target] = Absent THEN "refs" ELSE "inbound"]
    BY <1>8 DEF TargetTables
  <2>2. /\ i' \in ImpactState /\ Keeps(i') /\ i'.available = i.available /\ i'.refs = i.refs
        /\ i'.stage = IF live[Target][i.target] = Absent THEN "refs" ELSE "inbound"
    BY <1>3, <2>1 DEF ImpactState
  <2>3. WalkInv(i')
    BY <1>3, <1>4, <2>1, <2>2, WalkKept
  <2>4. AnswersInv(i', live[Target])
    BY <1>3, <2>1, <2>2 DEF AnswersInv
  <2>5. QED
    BY <2>2, <2>3, <2>4
<1>9. CASE InboundRefs
  <2> DEFINE held == {y \in References[i.target] : live[Target][y] # Absent}
  <2>1. i.stage = "inbound" /\ i' = [i EXCEPT !.stage = "refs", !.inbound = held]
    BY <1>9 DEF InboundRefs
  <2>2. held \in SUBSET Plugins
    BY <1>3, ReferencesAssumption DEF ImpactState
  <2>3. i.whole => held = {y \in References[i.target] : i.before[y] # Absent}
    BY <1>3 DEF AnswersInv
  <2> HIDE DEF held
  <2>4. /\ i' \in ImpactState /\ Keeps(i') /\ i'.available = i.available /\ i'.refs = i.refs
        /\ i'.stage = "refs" /\ i'.inbound = held
    BY <1>3, <2>1, <2>2 DEF ImpactState
  <2>5. WalkInv(i')
    BY <1>3, <1>4, <2>1, <2>4, WalkKept
  <2>6. AnswersInv(i', live[Target])
    BY <1>3, <2>1, <2>3, <2>4 DEF AnswersInv
  <2>7. QED
    BY <2>4, <2>5, <2>6
<1>10. ASSUME NEW y \in i.inbound, CountRef(y)
       PROVE  i' \in ImpactState /\ WalkInv(i') /\ AnswersInv(i', live[Target])
  <2> DEFINE refs == With(i.refs, y, CountOf(y))
  <2>1. i.stage = "refs" /\ i' = [i EXCEPT !.refs = refs]
    BY <1>10 DEF CountRef
  <2>2. /\ DOMAIN refs = DOMAIN i.refs \cup {y} /\ refs[y] = CountIn(live[Target][y])
        /\ \A u \in DOMAIN i.refs : u # y => refs[u] = i.refs[u]
    BY DEF With, CountOf
  <2>3. refs \in UNION {[S -> {"none", "some"}] : S \in SUBSET Plugins}
    <3>1. y \in Plugins /\ i.refs \in UNION {[S -> {"none", "some"}] : S \in SUBSET Plugins}
      BY <1>3, <1>10 DEF ImpactState
    <3>2. CountOf(y) \in {"none", "some"}
      BY DEF CountOf, CountIn
    <3>3. refs \in [DOMAIN i.refs \cup {y} -> {"none", "some"}]
      BY <3>1, <3>2 DEF With
    <3>4. DOMAIN i.refs \cup {y} \in SUBSET Plugins
      BY <3>1
    <3>5. QED
      BY <3>3, <3>4
  <2> HIDE DEF refs
  <2>4. /\ i' \in ImpactState /\ Keeps(i') /\ i'.available = i.available /\ i'.inbound = i.inbound
        /\ i'.stage = "refs" /\ i'.refs = refs
    BY <1>3, <2>1, <2>3 DEF ImpactState
  <2>5. WalkInv(i')
    BY <1>3, <2>1, <2>4, WalkKept
  <2>6. AnswersInv(i', live[Target])
    <3>1. i.whole => \A u \in DOMAIN refs : refs[u] = CountIn(i.before[u])
      BY <1>3, <2>2 DEF AnswersInv
    <3>2. QED
      BY <1>3, <2>1, <2>4, <3>1 DEF AnswersInv
  <2>7. QED
    BY <2>4, <2>5, <2>6
<1>11. CASE RefsDone
  <2>1. i.stage = "refs" /\ DOMAIN i.refs = i.inbound /\ i' = [i EXCEPT !.stage = "counts", !.available = TRUE]
    BY <1>11 DEF RefsDone
  <2>2. /\ i' \in ImpactState /\ Keeps(i') /\ i'.available /\ i'.inbound = i.inbound
        /\ i'.stage = "counts" /\ i'.refs = i.refs
    BY <1>3, <2>1 DEF ImpactState
  <2>3. WalkInv(i')
    BY <1>3, <1>4, <2>1, <2>2, WalkKept
  <2>4. AnswersInv(i', live[Target])
    BY <1>3, <2>1, <2>2 DEF AnswersInv
  <2>5. QED
    BY <2>2, <2>3, <2>4
<1>12. CASE RefsFail
  <2>1. i.stage \in {"tables", "inbound", "refs"} /\ i' = [i EXCEPT !.stage = "counts", !.refs = NoRows]
    BY <1>12 DEF RefsFail
  <2>2. ~i.available
    BY <1>3, <2>1 DEF AnswersInv
  <2>3. /\ i' \in ImpactState /\ Keeps(i') /\ ~i'.available /\ i'.inbound = i.inbound
        /\ i'.stage = "counts" /\ i'.refs = NoRows
    BY <1>3, <1>6, <2>1, <2>2 DEF ImpactState
  <2>4. WalkInv(i')
    BY <1>3, <1>4, <2>1, <2>3, WalkKept
  <2>5. AnswersInv(i', live[Target])
    BY <1>3, <1>6, <2>1, <2>3 DEF AnswersInv
  <2>6. QED
    BY <2>3, <2>4, <2>5
<1>13. ASSUME NEW counts, i.stage = "counts", i' = [i EXCEPT !.stage = "shown", !.counts = counts],
              \/ counts = "unavailable"
              \/ ~i.fresh /\ counts = i.inventory[i.target].record_counts
              \/ counts = CountIn(live[Target][i.target])
       PROVE  i' \in ImpactState /\ WalkInv(i') /\ AnswersInv(i', live[Target])
  <2>1. i.inventory[i.target].record_counts \in {"unknown", "none", "some"}
    BY <1>3, InventoryFacts DEF ImpactState, WalkInv, Info
  <2>2. counts \in {"unavailable", "unknown", "none", "some"}
    BY <1>13, <2>1 DEF CountIn
  <2>3. /\ i' \in ImpactState /\ Keeps(i') /\ i'.available = i.available /\ i'.inbound = i.inbound
        /\ i'.stage = "shown" /\ i'.refs = i.refs /\ i'.counts = counts
    BY <1>3, <1>13, <2>2 DEF ImpactState
  <2>4. WalkInv(i')
    BY <1>3, <1>4, <1>13, <2>3, WalkKept
  <2>5. i.whole => i.before = live[Target]
    BY <1>3 DEF AnswersInv
  <2>6. AnswersInv(i', live[Target])
    BY <1>3, <1>13, <2>3, <2>5 DEF AnswersInv
  <2>7. QED
    BY <2>3, <2>4, <2>6
<1>14. CASE CountScope
  BY <1>13, <1>14 DEF CountScope, Cached, CountOf
<1>15. CASE CountFails
  BY <1>13, <1>15 DEF CountFails
<1>16. CASE CountPending
  BY <1>5, <1>16 DEF CountPending
<1>17. QED
  BY <1>7, <1>8, <1>9, <1>10, <1>11, <1>12, <1>14, <1>15, <1>16

(* A command beside the analysis, and the invariant of every step.             *)
LEMMA ImpactInductive ==
  /\ ReportsInit => ImpactInv
  /\ TypeOK /\ ImpactInv /\ [ReportsNext]_reportVars => ImpactInv'
<1>1. ReportsInit => ImpactInv
  BY DEF ReportsInit, ImpactInv
<1>2. ASSUME ImpactInv, impact' = Disturbed
      PROVE  ImpactInv'
  <2>1. CASE impact.stage # "none" /\ live' # live
    <3>1. impact \in ImpactState /\ WalkInv(impact) /\ AnswersInv(impact, live[Target])
      BY <1>2, <2>1, Staged
    <3>2. impact' = [impact EXCEPT !.whole = FALSE]
      BY <1>2, <2>1 DEF Disturbed
    <3>3. /\ impact' \in ImpactState /\ ~impact'.whole
          /\ \A f \in {"stage", "target", "inventory", "fresh", "queue", "deps", "available", "refs", "inbound", "counts"} :
               impact'[f] = impact[f]
      BY <3>1, <3>2 DEF ImpactState
    <3>4. WalkInv(impact')
      BY <3>1, <3>3, WalkKept
    <3>5. AnswersInv(impact', live'[Target])
      BY <3>1, <3>3 DEF AnswersInv
    <3>6. QED
      BY <3>3, <3>4, <3>5 DEF ImpactInv
  <2>2. CASE impact.stage = "none"
    <3>1. impact' = NoImpact
      BY <1>2, <2>2 DEF Disturbed, ImpactInv, ImpactState
    <3>2. QED
      BY <3>1 DEF ImpactInv
  <2>3. CASE live' = live
    BY <1>2, <2>3 DEF Disturbed, ImpactInv
  <2>4. QED
    BY <2>1, <2>2, <2>3
<1>3. ImpactInv /\ UNCHANGED <<live, impact>> => ImpactInv'
  BY DEF ImpactInv
<1>4. TypeOK /\ ImpactInv /\ Analysing => ImpactInv'
  BY StartImpactKeeps, WalkKeeps, AnsweringKeeps DEF Analysing
<1>5. Viewing => UNCHANGED <<live, impact>>
  BY DEF Viewing, unread
<1>6. UNCHANGED reportVars => UNCHANGED <<live, impact>>
  BY DEF reportVars, vars
<1>7. QED
  BY <1>1, <1>2, <1>3, <1>4, <1>5, <1>6 DEF ReportsNext

(* What the invariant says of a report that is shown. *)
LEMMA ImpactTrue ==
  ASSUME ImpactInv
  PROVE  ImpactIsTrue
<1> DEFINE i == impact
<1> SUFFICES ASSUME i.stage = "shown"
             PROVE  DependentsAreTrue(i) /\ NoticesAreEarned(i)
  BY DEF ImpactIsTrue
<1>1. i \in ImpactState /\ WalkInv(i) /\ AnswersInv(i, live[Target])
  BY Staged
<1>2. DependentsAreTrue(i)
  <2>1. i.inventory \in Inventories /\ i.target \in Plugins /\ i.deps \in Seq(Seq(Plugins)) /\ i.queue = <<>>
    BY <1>1 DEF ImpactState, WalkInv
  <2>2. PICK all : all = Chains(i)
    OBVIOUS
  <2>3. Found(i.inventory, i.target, all) /\ Followed(i.inventory, i.target, all, Len(all) - Len(i.queue))
    BY <1>1, <2>2 DEF WalkInv
  <2>4. Len(all) - Len(i.queue) = Len(all)
    <3>1. Len(all) \in Nat
      BY <2>3 DEF Found
    <3>2. Len(i.queue) = 0
      BY <2>1
    <3>3. QED
      BY <3>1, <3>2
  <2>5. QED
    BY <2>1, <2>2, <2>3, <2>4, FollowedAll DEF Chains
<1>3. NoticesAreEarned(i)
  <2>1. RefsNotice(i) = "No inbound references" => i.available /\ DOMAIN i.refs = {}
    BY DEF RefsNotice
  <2>2. CountsNotice(i) = "No scope-owned records" => i.counts = "none"
    BY DEF CountsNotice
  <2>3. \A held : (CountIn(held) = "some" <=> held.used) /\ (CountIn(held) = "none" <=> ~held.used)
    BY DEF CountIn
  <2>4. References[i.target] \in SUBSET Plugins
    BY <1>1, ReferencesAssumption DEF ImpactState
  <2>5. RefsNotice(i) = "No inbound references" /\ i.whole =>
          \A y \in References[i.target] : i.before[y] = Absent \/ i.before[i.target] = Absent
    BY <1>1, <2>1 DEF AnswersInv
  <2>6. i.whole => \A y \in DOMAIN i.refs : (i.refs[y] = "some") <=> i.before[y].used
    BY <1>1, <2>3 DEF AnswersInv
  <2>7. \/ i.counts = "unavailable"
        \/ ~i.fresh /\ i.counts = i.inventory[i.target].record_counts
        \/ i.whole => i.counts = CountIn(i.before[i.target])
    BY <1>1 DEF AnswersInv
  <2>8. QED
    BY <2>2, <2>3, <2>5, <2>6, <2>7 DEF NoticesAreEarned
<1>4. QED
  BY <1>2, <1>3

(* Drift, updates, orphans, advisories, the advice of the language model and   *)
(* the impact of a plugin follow from what the instance held, or the stored    *)
(* inventory, at any moment of any history (PluginScanner.scan, compute_drift, *)
(* reverse_dependencies, fetch_cross_scope_refs, compute_advisories).          *)
THEOREM ReportsEarned == ReportsSpec => []ReportsAreTrue
<1>1. ReportsInit => ReadInv /\ OverridesInv /\ ImpactInv
  BY ReadingInductive, OverridesInductive, ImpactInductive
<1>2. ReadInv /\ OverridesInv /\ ImpactInv /\ [ReportsNext]_reportVars => (ReadInv /\ OverridesInv /\ ImpactInv)'
  BY ReadingInductive, OverridesInductive, ImpactInductive DEF ReadInv
<1>3. ReadInv /\ OverridesInv /\ ImpactInv => ReportsAreTrue
  BY EarnedReports, EarnedAdvice, ImpactTrue DEF ReportsAreTrue
<1>4. QED
  BY <1>1, <1>2, <1>3, PTL DEF ReportsSpec
=============================================================================
