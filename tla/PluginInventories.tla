------------------------- MODULE PluginInventories -------------------------
(***************************************************************************)
(* What the plugin commands know of an instance: the inventory a scan read *)
(* and the registry stored, the baselines copied from it, the deferred     *)
(* advisories beside it, the promotion plan computed from two of them and  *)
(* its execution.  The commands that only report (outdated, orphans,       *)
(* drift, diff, advisories) are operators on the stored files.  The        *)
(* execution of one operation is PluginExecutor's; here it takes effect or *)
(* fails.                                                                  *)
(***************************************************************************)
EXTENDS Integers, FiniteSets

CONSTANTS
  Plugins,
  Source, Target,  \* the two profiles of a promotion
  MaxVersion,      \* versions are 1..MaxVersion, the last is the newest released
  Unparseable,     \* versions packaging.version cannot parse
  ListedIn,        \* plugin -> the tables that list it
  DependsOn,       \* plugin -> the plugins it depends on
  Vendor,          \* plugin -> its publisher
  NoVendor,        \* a row that names none
  Eol,             \* plugin -> its entry in eol.yaml: [status, past]
  Cves,            \* plugin -> its entries in cves.yaml: [id, severity, affected]
  Allowed,         \* the vendors of licenses.yaml
  Forbidden,
  Names,           \* baseline names
  Clerks,          \* processes that may edit the deferrals
  NoFile,          \* nothing is stored
  Refused,         \* a table's answer other than 200
  Damaged,         \* a file that no longer validates
  Unsure,          \* read while the instance changed, or not from every table
  Sessions         \* what is done to which instances, and how often

Profiles == {Source, Target}
Tables == {"v_plugin", "sys_store_app", "appmanager"}
None == 0
Versions == None .. MaxVersion
Severities == {"critical", "high", "medium", "low"}

(* What an instance holds of a plugin; `used`: there are records in its scope. *)
Absent == [version |-> None, active |-> FALSE, used |-> FALSE]
Held == {Absent} \cup [version : 1 .. MaxVersion, active : BOOLEAN, used : BOOLEAN]
Holdings == [Plugins -> Held]

(* PluginInfo and PluginInventory. *)
Info == [version : 1 .. MaxVersion, active : BOOLEAN, latest : Versions,
         depends_on : SUBSET Plugins, vendor : {NoVendor} \cup {Vendor[x] : x \in Plugins},
         record_counts : {"unknown", "none", "some"}]
Inventories == UNION {[S -> Info] : S \in SUBSET Plugins}

(* What a deferral names a finding by: see FindingsOf.                         *)
Kinds == {"eol", "license"} \cup UNION {{e.id : e \in Cves[x]} : x \in Plugins}
FindingKeys == Plugins \X Kinds

ASSUME CatalogAssumption ==
  /\ IsFiniteSet(Plugins)
  /\ MaxVersion \in Nat \ {0}
  /\ Source # Target
  /\ DependsOn \in [Plugins -> SUBSET Plugins]
  /\ ListedIn \in [Plugins -> SUBSET Tables]
  /\ Cves \in [Plugins -> SUBSET [id : STRING, severity : Severities, affected : SUBSET (1 .. MaxVersion)]]
  \* the type of a finding keeps it apart from those of another type
  /\ \A x \in Plugins : \A e \in Cves[x] : e.id \notin {"eol", "license"}

(* The values that stand for an answer or a file that is none.                 *)
ASSUME DistinctAssumption ==
  /\ \A S \in SUBSET Plugins : Refused \notin [S -> Info]
  /\ Unsure \notin Holdings
  /\ \A S \in SUBSET FindingKeys : Damaged # S
  /\ "nobody" \notin Profiles

ASSUME SessionsAssumption == \A s \in Sessions : s.live \in [Profiles -> Holdings]

VARIABLES
  session,    \* the commands of this run
  left,       \* how many scans, changes, faults and edits it may still contain
  live,       \* profile -> plugin -> what the instance holds
  scan,       \* the scan in progress
  stored,     \* profile -> plugins.yaml
  baselines,  \* profile -> name -> the acknowledged inventory
  plan,       \* the promotion plan file
  apply,      \* the execution of a plan in progress
  overrides,  \* the target's advisory-overrides.yaml
  clerk,      \* process -> its deferral in progress
  \* what the files should amount to
  known,      \* profile -> what the instance held when `stored` was read
  acked,      \* profile -> name -> what it held when the baseline's was
  granted,    \* the findings deferred and not taken back
  clash,      \* a deferral was stored over one it had not read
  round,      \* how far the current promotion round is
  rounds      \* complete rounds since something else happened

files == <<stored, baselines, plan, overrides>>
ghosts == <<known, acked, granted, clash, round, rounds>>
vars == <<session, left, live, scan, apply, clerk, files, ghosts>>

Idle == [profile |-> "nobody"]
NoInventory == NoFile
NoBaseline == NoFile
NoPlan == NoFile

Put(map, key, value) == [map EXCEPT ![key] = value]

Does(command) == command \in session.commands
Spend(what) == left[what] > 0 /\ left' = [left EXCEPT ![what] = @ - 1]

-----------------------------------------------------------------------------
(* PluginScanner.scan *)

(* A row as _from_v_plugin, _from_store and _from_appmanager read it.          *)
RowOf(t, x, held) ==
  [version |-> held.version,
   active |-> t = "appmanager" \/ held.active,
   latest |-> IF t = "v_plugin" \/ held.version = MaxVersion THEN None ELSE MaxVersion,
   depends_on |-> IF t = "appmanager" THEN {} ELSE DependsOn[x],
   vendor |-> IF t = "v_plugin" THEN NoVendor ELSE Vendor[x],
   record_counts |-> "unknown"]

(* What a table lists; the app manager lists only what has an update.          *)
ListedBy(t, x, held) ==
  t \in ListedIn[x] /\ held # Absent /\ (t = "appmanager" => held.version < MaxVersion)

(* What a table answers of what an instance holds.                             *)
Rows(t, holds) == [x \in {y \in Plugins : ListedBy(t, y, holds[y])} |-> RowOf(t, x, holds[x])]

NoRows == [x \in {} |-> Absent]
With(rows, t, answer) == [u \in DOMAIN rows \cup {t} |-> IF u = t THEN answer ELSE rows[u]]
Over(first, second) ==
  [x \in DOMAIN first \cup DOMAIN second |-> IF x \in DOMAIN first THEN first[x] ELSE second[x]]

Answer(rows, t) == IF rows[t] = Refused THEN NoRows ELSE rows[t]

(* sys_store_app wins over v_plugin; the app manager adds unknown apps, and a  *)
(* newer version where the others named none.                                  *)
Merge(rows) ==
  LET core == Over(Answer(rows, "sys_store_app"), Answer(rows, "v_plugin"))
      apps == Answer(rows, "appmanager")
      Filled(x) == IF x \in DOMAIN apps /\ core[x].latest = None
                     THEN [core[x] EXCEPT !.latest = apps[x].latest] ELSE core[x]
  IN Over([x \in DOMAIN core |-> Filled(x)], apps)

Unreadable(rows) ==
  /\ rows["v_plugin"] = Refused /\ rows["sys_store_app"] = Refused
  /\ DOMAIN Answer(rows, "appmanager") = {}

NewScan(p, counts) == [profile |-> p, counts |-> counts, rows |-> NoRows, whole |-> TRUE]

(* instance refresh, and the rescans of outdated, which do not count records.  *)
StartScan(p, counts) ==
  /\ scan = Idle /\ apply = Idle
  /\ p \in session.profiles
  /\ counts => Does("orphans")
  /\ Spend("scans")
  /\ scan' = NewScan(p, counts)
  /\ UNCHANGED <<session, live, apply, clerk, files, ghosts>>

(* The three tables are read concurrently, each at its own moment.             *)
ReadTable(t) ==
  /\ scan # Idle /\ t \notin DOMAIN scan.rows
  /\ \/ /\ scan' = [scan EXCEPT !.rows = With(scan.rows, t, Rows(t, live[scan.profile]))]
        /\ UNCHANGED left
     \/ /\ Spend("faults")
        /\ scan' = [scan EXCEPT !.rows = With(scan.rows, t, Refused), !.whole = FALSE]
  /\ UNCHANGED <<session, live, apply, clerk, files, ghosts>>

Read == DOMAIN scan.rows = Tables

Undisturbed(p, whole) ==
  /\ rounds' = CASE ~whole -> 0
                 [] whole /\ p = Target /\ round = "applied" -> IF rounds < 2 THEN rounds + 1 ELSE 2
                 [] OTHER -> rounds
  /\ round' = IF ~whole \/ (p = Target /\ round = "applied") THEN "none" ELSE round

(* The counts of the records, but for the plugins whose counts failed or were  *)
(* not asked for.                                                              *)
CountIn(held) == IF held.used THEN "some" ELSE "none"
Counted(found, uncounted, holds) ==
  [x \in DOMAIN found |->
     IF x \in uncounted THEN found[x] ELSE [found[x] EXCEPT !.record_counts = CountIn(holds[x])]]

(* The counts of `uncounted` failed; then save_plugin_inventory.               *)
SaveScan(uncounted) ==
  /\ scan # Idle /\ Read /\ ~Unreadable(scan.rows)
  /\ uncounted \subseteq DOMAIN Merge(scan.rows)
  /\ uncounted = {} \/ (scan.counts /\ uncounted \subseteq session.plugins)
  /\ IF uncounted = {} THEN UNCHANGED left ELSE Spend("faults")
  /\ LET p == scan.profile
         uncountable == IF scan.counts THEN uncounted ELSE Plugins
     IN /\ stored' = [stored EXCEPT ![p] = Counted(Merge(scan.rows), uncountable, live[p])]
        /\ known' = [known EXCEPT ![p] = IF scan.whole THEN live[p] ELSE Unsure]
        /\ Undisturbed(p, scan.whole)
  /\ scan' = Idle
  /\ UNCHANGED <<session, live, apply, clerk, baselines, plan, overrides, acked, granted, clash>>

(* PluginScanError, or a lost connection: the stored inventory stays.          *)
ScanFails ==
  /\ scan # Idle
  /\ \/ Read /\ Unreadable(scan.rows) /\ UNCHANGED left
     \/ ~Read /\ Spend("faults")
  /\ scan' = Idle
  /\ UNCHANGED <<session, live, apply, clerk, files, ghosts>>

-----------------------------------------------------------------------------
AtVersion(held, v) == [held EXCEPT !.version = v]
Activated(held) == [held EXCEPT !.active = TRUE]

(* Somebody changes an instance: an administrator, or a plugin command that    *)
(* does not rescan (install, activate, deactivate, uninstall).                 *)
ChangePlugin(p, x) ==
  /\ Does("change") /\ p \in session.profiles /\ x \in session.plugins
  /\ Spend("changes")
  /\ \E held \in Held \ {live[p][x]} : live' = [live EXCEPT ![p] = Put(live[p], x, held)]
  /\ scan' = IF scan.profile = p THEN [scan EXCEPT !.whole = FALSE] ELSE scan
  /\ rounds' = 0 /\ round' = "none"
  /\ UNCHANGED <<session, apply, clerk, files, known, acked, granted, clash>>

(* plugins_with_updates *)
Pending(inventory) == {x \in DOMAIN inventory : inventory[x].latest \notin {None, inventory[x].version}}

(* outdated: what it says of an inventory.                                     *)
OutdatedNotice(inventory) ==
  CASE Pending(inventory) # {} -> "updates"
    [] Pending(inventory) = {} /\ \A x \in DOMAIN inventory : inventory[x].latest = None -> "no data"
    [] OTHER -> "up to date"

(* `plugins upgrade`: those of the pending ones that succeeded; then a rescan. *)
UpgradePending(done) ==
  /\ Does("upgrade") /\ scan = Idle /\ apply = Idle
  /\ stored[Target] # NoInventory
  /\ done # {} /\ done \subseteq Pending(stored[Target])
  /\ Spend("changes")
  /\ live' = [live EXCEPT ![Target] =
       [x \in Plugins |-> IF x \in done THEN AtVersion(live[Target][x], stored[Target][x].latest)
                                        ELSE live[Target][x]]]
  /\ scan' = NewScan(Target, FALSE)
  /\ rounds' = 0 /\ round' = "none"
  /\ UNCHANGED <<session, apply, clerk, files, known, acked, granted, clash>>

-----------------------------------------------------------------------------
(* diff, promote and apply *)

Newer(candidate, baseline) ==
  candidate > baseline /\ candidate \notin Unparseable /\ baseline \notin Unparseable

(* _diff_entry *)
DiffStatus(a, b, x) ==
  CASE x \notin DOMAIN a                       -> "only_in_b"
    [] x \notin DOMAIN b                       -> "only_in_a"
    [] OTHER -> CASE a[x].version # b[x].version -> "version_mismatch"
                  [] a[x].version = b[x].version /\ a[x].active # b[x].active -> "state_mismatch"
                  [] OTHER -> "same"

(* Variant: every difference of state is an activation. *)
ActionFor_AnyState(a, b, x) ==
  CASE DiffStatus(a, b, x) = "only_in_a"      -> "install"
    [] DiffStatus(a, b, x) = "state_mismatch" -> "activate"
    [] DiffStatus(a, b, x) = "version_mismatch" /\ Newer(a[x].version, b[x].version) -> "upgrade"
    [] OTHER                                  -> "skip"

(* _project_entry: what brings b closer to a, never a removal or a downgrade.  *)
ActionFor(a, b, x) ==
  CASE DiffStatus(a, b, x) = "only_in_a"                        -> "install"
    [] DiffStatus(a, b, x) = "state_mismatch" /\ a[x].active    -> "activate"
    [] DiffStatus(a, b, x) = "version_mismatch" /\ Newer(a[x].version, b[x].version) -> "upgrade"
    [] OTHER                                                    -> "skip"

PlanOf(a, b) ==
  {[action |-> ActionFor(a, b, x), plugin |-> x, target |-> a[x].version] :
     x \in {y \in DOMAIN a : ActionFor(a, b, y) # "skip"}}

(* Without an action no file is written ("already matches").                   *)
Promote ==
  /\ Does("promote") /\ scan = Idle /\ apply = Idle
  /\ \A p \in Profiles : stored[p] # NoInventory
  /\ PlanOf(stored[Source], stored[Target]) # {}
  /\ plan' = PlanOf(stored[Source], stored[Target])
  /\ round' = IF known = live THEN "planned" ELSE "none"
  /\ rounds' = IF known = live THEN rounds ELSE 0
  /\ UNCHANGED <<session, left, live, scan, apply, clerk, stored, baselines, overrides,
                 known, acked, granted, clash>>

Rank(action) == CASE action = "install" -> 0 [] action = "activate" -> 1 [] action = "upgrade" -> 2

(* apply_plan validates against the stored inventory; an unknown id rejects.   *)
StartApply ==
  /\ Does("promote") /\ scan = Idle /\ apply = Idle
  /\ plan # NoPlan /\ stored[Target] # NoInventory
  /\ Spend("scans")
  /\ \A a \in plan : a.action = "install" \/ a.plugin \in DOMAIN stored[Target]
  /\ apply' = [todo |-> plan, before |-> live[Target], profile |-> Target]
  /\ UNCHANGED <<session, live, scan, clerk, files, ghosts>>

FirstOf(todo) == {a \in todo : \A b \in todo : Rank(a.action) <= Rank(b.action)}

Succeeds(a) == a.action # "activate" \/ live[Target][a.plugin] # Absent

Result(a) == IF a.action = "activate" THEN Activated(live[Target][a.plugin])
                                      ELSE AtVersion(live[Target][a.plugin], a.target)

ApplyStep(a) ==
  /\ apply # Idle /\ a \in FirstOf(apply.todo)
  /\ Succeeds(a)
  /\ live' = [live EXCEPT ![Target] = Put(live[Target], a.plugin, Result(a))]
  /\ apply' = [apply EXCEPT !.todo = @ \ {a}]
  /\ UNCHANGED <<session, left, scan, clerk, files, ghosts>>

(* An operation fails; the completed ones are rolled back as far as that goes, *)
(* and the command exits before the rescan.                                    *)
ApplyFails(a) ==
  /\ apply # Idle /\ a \in FirstOf(apply.todo)
  /\ IF Succeeds(a) THEN Spend("faults") ELSE UNCHANGED left
  /\ \E undone \in SUBSET {b.plugin : b \in plan \ apply.todo} :
       live' = [live EXCEPT ![Target] =
                  [x \in Plugins |-> IF x \in undone THEN apply.before[x] ELSE live[Target][x]]]
  /\ apply' = Idle
  /\ rounds' = 0 /\ round' = "none"
  /\ UNCHANGED <<session, scan, clerk, files, known, acked, granted, clash>>

ApplyDone ==
  /\ apply # Idle /\ apply.todo = {}
  /\ apply' = Idle
  /\ scan' = NewScan(Target, FALSE)
  /\ round' = IF round = "planned" THEN "applied" ELSE round
  /\ UNCHANGED <<session, left, live, clerk, files, known, acked, granted, clash, rounds>>

-----------------------------------------------------------------------------
(* drift --ack, drift, baselines delete *)

Ack(p, n) ==
  /\ Does("drift") /\ p \in session.profiles
  /\ stored[p] # NoInventory
  /\ Spend("edits")
  /\ baselines' = [baselines EXCEPT ![p] = Put(baselines[p], n, stored[p])]
  /\ acked' = [acked EXCEPT ![p] = Put(acked[p], n, known[p])]
  /\ UNCHANGED <<session, live, scan, apply, clerk, stored, plan, overrides,
                 known, granted, clash, round, rounds>>

DeleteBaseline(p, n) ==
  /\ Does("drift") /\ baselines[p][n] # NoBaseline
  /\ Spend("edits")
  /\ baselines' = [baselines EXCEPT ![p] = Put(baselines[p], n, NoBaseline)]
  /\ acked' = [acked EXCEPT ![p] = Put(acked[p], n, Unsure)]
  /\ UNCHANGED <<session, live, scan, apply, clerk, stored, plan, overrides,
                 known, granted, clash, round, rounds>>

(* _drift_entry *)
DriftStatus(base, current, x) ==
  CASE x \notin DOMAIN base    -> "added"
    [] x \notin DOMAIN current -> "removed"
    [] OTHER -> CASE base[x].version # current[x].version -> "version_changed"
                  [] base[x].version = current[x].version
                       /\ base[x].active # current[x].active -> "state_changed"
                  [] OTHER -> "same"

Drift(base, current) ==
  {x \in DOMAIN base \cup DOMAIN current : DriftStatus(base, current, x) # "same"}

(* Variant: no captured counts read as no records. *)
Orphans_Uncounted(inventory) ==
  {x \in DOMAIN inventory : /\ \A y \in DOMAIN inventory : x \notin inventory[y].depends_on
                            /\ inventory[x].record_counts # "some"}

(* orphan_candidates *)
Orphans(inventory) ==
  {x \in DOMAIN inventory : /\ \A y \in DOMAIN inventory : x \notin inventory[y].depends_on
                            /\ inventory[x].record_counts = "none"}

-----------------------------------------------------------------------------
(* advisories, defer, undo-defer: on the target's files *)

Finding(x, kind, severity) == [plugin |-> x, kind |-> kind, severity |-> severity]

(* _check_eol *)
CheckEol(x) ==
  IF x \notin DOMAIN Eol THEN {}
  ELSE {Finding(x, "eol", IF Eol[x].status = "end_of_life" /\ Eol[x].past THEN "high" ELSE "medium")}

(* _check_cves: nothing is said of a version that cannot be parsed.            *)
CheckCves(x, version) ==
  {Finding(x, e.id, e.severity) : e \in {f \in Cves[x] : version \in f.affected \ Unparseable}}

(* _check_license: a forbidden vendor, or one that an allow-list leaves out.   *)
CheckLicense(x, vendor) ==
  IF vendor = NoVendor THEN {}
  ELSE IF vendor \in Forbidden THEN {Finding(x, "license", "high")}
  ELSE IF vendor \in Allowed \/ Allowed = {} THEN {}
  ELSE {Finding(x, "license", "medium")}

ComputeAdvisories(inventory) ==
  UNION {CheckEol(x) \cup CheckCves(x, inventory[x].version) \cup CheckLicense(x, inventory[x].vendor) :
           x \in DOMAIN inventory}

(* A deferral names a finding by its plugin, its type and its details, which   *)
(* hold neither the plugin's version nor the severity.                         *)
FindingsOf(inventory) == {<<f.plugin, f.kind>> : f \in ComputeAdvisories(inventory)}

(* load_advisory_overrides: an invalid file counts as an empty one.            *)
Loaded == IF overrides = Damaged THEN {} ELSE overrides

(* apply_overrides, and what `advisories` shows without --include-deferred.    *)
Deferred(inventory) == FindingsOf(inventory) \cap Loaded
Shown(inventory) == FindingsOf(inventory) \ Deferred(inventory)

NoErrand == [verb |-> "none"]

StartDefer(c, f) ==
  /\ Does("defer") /\ clerk[c] = NoErrand
  /\ stored[Target] # NoInventory
  /\ f \in FindingsOf(stored[Target]) \ Loaded
  /\ Spend("edits")
  /\ clerk' = [clerk EXCEPT ![c] = [verb |-> "defer", finding |-> f, existing |-> Loaded]]
  /\ UNCHANGED <<session, live, scan, apply, files, ghosts>>

StartUndo(c, f) ==
  /\ Does("defer") /\ clerk[c] = NoErrand
  /\ stored[Target] # NoInventory
  /\ f \in Loaded
  /\ Spend("edits")
  /\ clerk' = [clerk EXCEPT ![c] = [verb |-> "undo", finding |-> f, existing |-> Loaded]]
  /\ UNCHANGED <<session, live, scan, apply, files, ghosts>>

(* Rewrites the whole file from what was read. *)
SaveOverrides(c) ==
  /\ clerk[c] # NoErrand
  /\ LET f == clerk[c].finding
         Edited(set) == IF clerk[c].verb = "defer" THEN set \cup {f} ELSE set \ {f}
     IN /\ overrides' = Edited(clerk[c].existing)
        /\ granted' = Edited(granted)
  /\ clash' = (clash \/ Loaded # clerk[c].existing)
  /\ clerk' = [clerk EXCEPT ![c] = NoErrand]
  /\ UNCHANGED <<session, left, live, scan, apply, stored, baselines, plan,
                 known, acked, round, rounds>>

(* The file is edited by hand and no longer validates: nothing is deferred.    *)
DamageOverrides ==
  /\ Does("defer") /\ overrides # Damaged
  /\ Spend("faults")
  /\ overrides' = Damaged
  /\ granted' = {}
  /\ UNCHANGED <<session, live, scan, apply, clerk, stored, baselines, plan,
                 known, acked, clash, round, rounds>>

-----------------------------------------------------------------------------
Init ==
  /\ session \in Sessions
  /\ left = session.left
  /\ live = session.live
  /\ scan = Idle /\ apply = Idle
  /\ clerk = [c \in Clerks |-> NoErrand]
  /\ stored = [p \in Profiles |-> NoInventory]
  /\ baselines = [p \in Profiles |-> [n \in Names |-> NoBaseline]]
  /\ plan = NoPlan
  /\ overrides = {}
  /\ known = [p \in Profiles |-> Unsure]
  /\ acked = [p \in Profiles |-> [n \in Names |-> Unsure]]
  /\ granted = {} /\ clash = FALSE
  /\ round = "none" /\ rounds = 0

Scanning ==
  \/ \E p \in Profiles, counts \in BOOLEAN : StartScan(p, counts)
  \/ \E t \in Tables : ReadTable(t)
  \/ scan # Idle /\ Read /\ \E uncounted \in SUBSET DOMAIN Merge(scan.rows) : SaveScan(uncounted)
  \/ ScanFails

Promoting ==
  \/ Promote
  \/ StartApply
  \/ apply # Idle /\ \E a \in apply.todo : ApplyStep(a) \/ ApplyFails(a)
  \/ ApplyDone

Deferring ==
  \/ \E c \in Clerks :
       \/ Does("defer") /\ stored[Target] # NoInventory
            /\ \E f \in FindingsOf(stored[Target]) : StartDefer(c, f)
       \/ \E f \in Loaded : StartUndo(c, f)
  \/ \E c \in Clerks : SaveOverrides(c)
  \/ DamageOverrides

Next ==
  \/ Scanning
  \/ Promoting
  \/ Deferring
  \/ \E p \in Profiles, x \in Plugins : ChangePlugin(p, x)
  \/ /\ Does("upgrade") /\ stored[Target] # NoInventory
     /\ \E done \in SUBSET Pending(stored[Target]) : UpgradePending(done)
  \/ \E p \in Profiles, n \in Names : Ack(p, n) \/ DeleteBaseline(p, n)

Spec == Init /\ [][Next]_vars

-----------------------------------------------------------------------------
(* The files, the instances and the commands under way are what they are named *)
(* for, whatever a scan read and whoever changed an instance meanwhile.        *)
ScanState ==
  [profile : Profiles, counts : BOOLEAN, whole : BOOLEAN,
   rows : UNION {[S -> {Refused} \cup Inventories] : S \in SUBSET Tables}]
Action == [action : {"install", "activate", "upgrade"}, plugin : Plugins, target : 1 .. MaxVersion]
ApplyState == [todo : SUBSET Action, before : Holdings, profile : {Target}]
Errand == [verb : {"defer", "undo"}, finding : FindingKeys, existing : SUBSET FindingKeys]
TypeOK ==
  /\ session \in Sessions
  /\ live \in [Profiles -> Holdings]
  /\ scan = Idle \/ scan \in ScanState
  /\ stored \in [Profiles -> {NoInventory} \cup Inventories]
  /\ baselines \in [Profiles -> [Names -> {NoBaseline} \cup Inventories]]
  /\ plan = NoPlan \/ plan \in SUBSET Action
  /\ apply = Idle \/ apply \in ApplyState
  /\ overrides = Damaged \/ overrides \in SUBSET FindingKeys
  /\ clerk \in [Clerks -> {NoErrand} \cup Errand]
  /\ known \in [Profiles -> {Unsure} \cup Holdings]
  /\ acked \in [Profiles -> [Names -> {Unsure} \cup Holdings]]
  /\ granted \in SUBSET FindingKeys /\ clash \in BOOLEAN
  /\ round \in {"none", "planned", "applied"} /\ rounds \in 0 .. 2

(* Listed in a table that shows it whatever its state; an app that only the    *)
(* app manager lists is invisible without an update and always "active".       *)
Tabled(x) == ListedIn[x] \cap {"v_plugin", "sys_store_app"} # {}

(* Promote, apply and rescan, twice with nothing else in between, and nothing  *)
(* that can be promoted is left: one round may hide an activation behind an    *)
(* install or an upgrade, a second never does (project_to_promote_plan).       *)
PromotionConverges ==
  rounds = 2 => ~\E a \in PlanOf(stored[Source], stored[Target]) : Tabled(a.plugin)

Same(held, other) == held.version = other.version /\ held.active = other.active

NoDriftIsEarned(p, n) ==
  baselines[p][n] # NoBaseline /\ acked[p][n] # Unsure /\ Drift(baselines[p][n], stored[p]) = {} =>
    \A x \in Plugins : Tabled(x) => Same(known[p][x], acked[p][n][x])

UpToDateIsEarned(p) ==
  OutdatedNotice(stored[p]) # "updates" =>
    \A x \in Plugins : ListedIn[x] \cap {"sys_store_app", "appmanager"} # {} =>
                         known[p][x].version \in {None, MaxVersion}

OrphansAreEarned(p) ==
  \A x \in Orphans(stored[p]) :
    /\ ~known[p][x].used
    /\ \A y \in Plugins : Tabled(y) /\ x \in DependsOn[y] => known[p][y] = Absent

(* Every vulnerable version and every unwanted vendor of what was installed;   *)
(* a plugin that only v_plugin lists has no vendor to judge.                   *)
AdvisoriesAreEarned(p) ==
  \A x \in Plugins : Tabled(x) /\ known[p][x] # Absent =>
    /\ \A id \in {e.id : e \in Cves[x]} :
         <<x, id>> \in FindingsOf(stored[p])
           <=> \E e \in Cves[x] : e.id = id /\ known[p][x].version \in e.affected \ Unparseable
    /\ "sys_store_app" \in ListedIn[x] /\ Vendor[x] \in Forbidden \ {NoVendor} =>
         <<x, "license">> \in FindingsOf(stored[p])
    /\ Vendor[x] \in Allowed \ Forbidden => <<x, "license">> \notin FindingsOf(stored[p])

(* What the user reads follows from what the instance held, provided the scans *)
(* were whole: no drift means nothing differs from what was acknowledged; no   *)
(* pending update means none was released; an orphan has neither records nor   *)
(* dependents; no advisory is missed or made up; and exactly the findings the  *)
(* user deferred are not shown, unless two edits of the file overlapped.       *)
ReportsAreEarned ==
  /\ \A p \in Profiles : known[p] # Unsure =>
       /\ \A n \in Names : NoDriftIsEarned(p, n)
       /\ UpToDateIsEarned(p)
       /\ OrphansAreEarned(p)
       /\ AdvisoriesAreEarned(p)
  /\ stored[Target] # NoInventory /\ ~clash =>
       Shown(stored[Target]) = FindingsOf(stored[Target]) \ granted
=============================================================================
