---------------------------- MODULE PluginReports ----------------------------
(***************************************************************************)
(* What is read off an inventory while it may be replaced: `plugins list`  *)
(* in the framed viewer, with a reload that reads the stored file again;   *)
(* the impact of a plugin, which joins the stored inventory with requests  *)
(* to the instance; and the evidence handed to the language model by       *)
(* `explain`, `roadmap` and `recommend deactivate`.                        *)
(*                                                                         *)
(* A plugin's scope holds one table.                                       *)
(***************************************************************************)
EXTENDS PluginInventories, FramedViewer

CONSTANTS
  Listing,     \* the plugins by family and id
  References   \* plugin -> the plugins whose table has a field into its table

ASSUME ReferencesAssumption == References \in [Plugins -> SUBSET Plugins]

ASSUME ListingAssumption ==
  Listing \in Seq(Plugins) /\ \A i, j \in DOMAIN Listing : Listing[i] = Listing[j] => i = j

VARIABLE impact

reportVars == <<vars, view, impact>>
unread == <<session, live, scan, apply, clerk, files, ghosts>>

-----------------------------------------------------------------------------
(* plugins list *)

(* The places in the listing of the plugins that pass the filter on the state. *)
Listed(inventory) ==
  Ascending({i \in DOMAIN Listing : /\ Listing[i] \in DOMAIN inventory
                                    /\ inventory[Listing[i]].active \in session.states})

(* _build_rows: a row and its detail. *)
Row(x, info) == [plugin |-> x, version |-> info.version, active |-> info.active]
Detail(x, info) == [plugin |-> x, info |-> info]
RowsFor(inventory, listed) ==
  [i \in DOMAIN listed |-> Row(Listing[listed[i]], inventory[Listing[listed[i]]])]
DetailsFor(inventory, listed) ==
  [i \in DOMAIN listed |-> Detail(Listing[listed[i]], inventory[Listing[listed[i]]])]

(* _plugins_for, in the command and in its _refresh.                           *)
Latest == IF stored[Target] = NoInventory THEN NoRows ELSE stored[Target]

(* Without a row to show nothing is opened. *)
OpenList ==
  /\ Does("view") /\ ~view.open
  /\ \E listed \in Listed(Latest) :
       listed # <<>> /\ view' = Opened(RowsFor(Latest, listed), DetailsFor(Latest, listed))

Reload ==
  view.open /\ \E listed \in Listed(Latest) :
                 RefreshView(RowsFor(Latest, listed), DetailsFor(Latest, listed))

Keystroke ==
  \/ OpenList
  \/ FocusFilter
  \/ \E q \in Queries : TypeQuery(q)
  \/ SubmitFilter
  \/ BlurFilter
  \/ SortNextColumn
  \/ \E c \in Columns : SortColumn(c)
  \/ Reload
  \/ view.open /\ \E i \in DOMAIN view.rows : ShowRowDetail(i)
  \/ CloseDetail

Viewing ==
  /\ \/ Spend("keys") /\ Keystroke
     \/ UNCHANGED left /\ (FilterChanged \/ QuitView)
  /\ UNCHANGED <<unread, impact>>

-----------------------------------------------------------------------------
(* plugins impact *)

NoImpact == [stage |-> "none"]

(* An unknown plugin ends the command.  The instance's part starts afterwards. *)
StartImpact(x, fresh, cross) ==
  /\ Does("impact") /\ impact.stage \in {"none", "shown"}
  /\ stored[Target] # NoInventory /\ x \in DOMAIN stored[Target]
  /\ Spend("keys")
  /\ impact' = [stage |-> "walk", target |-> x, inventory |-> stored[Target],
                fresh |-> fresh, cross |-> cross,
                queue |-> << <<x>> >>,    \* chains back to the target
                deps |-> <<>>,            \* those found, in order
                available |-> FALSE, refs |-> NoRows, inbound |-> {},
                counts |-> "unavailable",
                before |-> live[Target], whole |-> TRUE]
  /\ UNCHANGED <<unread, view>>

Visited == {impact.target} \cup {Head(impact.deps[i]) : i \in DOMAIN impact.deps}

(* One turn of reverse_dependencies' loop.  The dependents of a plugin are a   *)
(* Python set: their order is not determined.                                  *)
Walk ==
  /\ impact.stage = "walk" /\ impact.queue # <<>>
  /\ LET via == Head(impact.queue)
         found == {y \in DOMAIN impact.inventory : Head(via) \in impact.inventory[y].depends_on} \ Visited
     IN \E order \in SetToSeqs(found) :
          LET chains == [k \in DOMAIN order |-> <<order[k]>> \o via]
          IN impact' = [impact EXCEPT !.queue = Tail(@) \o chains, !.deps = @ \o chains]
  /\ UNCHANGED <<unread, left, view>>

Walked ==
  /\ impact.stage = "walk" /\ impact.queue = <<>>
  /\ impact' = [impact EXCEPT !.stage = IF impact.cross THEN "tables" ELSE "counts"]
  /\ UNCHANGED <<unread, left, view>>

(* The three phases of fetch_cross_scope_refs. *)
TargetTables ==
  /\ impact.stage = "tables"
  /\ impact' = [impact EXCEPT !.stage = IF live[Target][impact.target] = Absent THEN "refs" ELSE "inbound"]
  /\ UNCHANGED <<unread, left, view>>

InboundRefs ==
  /\ impact.stage = "inbound"
  /\ impact' = [impact EXCEPT !.stage = "refs",
       !.inbound = {y \in References[impact.target] : live[Target][y] # Absent}]
  /\ UNCHANGED <<unread, left, view>>

CountOf(x) == CountIn(live[Target][x])

CountRef(y) ==
  /\ impact.stage = "refs" /\ y \in impact.inbound \ DOMAIN impact.refs
  /\ live[Target][y] # Absent
  /\ impact' = [impact EXCEPT !.refs = With(@, y, CountOf(y))]
  /\ UNCHANGED <<unread, left, view>>

RefsDone ==
  /\ impact.stage = "refs" /\ DOMAIN impact.refs = impact.inbound
  /\ impact' = [impact EXCEPT !.stage = "counts", !.available = TRUE]
  /\ UNCHANGED <<unread, left, view>>

(* Any failure of any of the requests, that of a table that is gone included.  *)
RefsFail ==
  /\ impact.stage \in {"tables", "inbound", "refs"}
  /\ \/ Spend("faults")
     \/ /\ UNCHANGED left
        /\ impact.stage = "refs" /\ \E y \in impact.inbound \ DOMAIN impact.refs : live[Target][y] = Absent
  /\ impact' = [impact EXCEPT !.stage = "counts", !.refs = NoRows]
  /\ UNCHANGED <<unread, view>>

Cached == ~impact.fresh /\ impact.inventory[impact.target].record_counts # "unknown"

CountScope ==
  /\ impact.stage = "counts"
  /\ impact' = [impact EXCEPT !.stage = "shown",
       !.counts = IF Cached THEN impact.inventory[impact.target].record_counts ELSE CountOf(impact.target)]
  /\ UNCHANGED <<unread, left, view>>

CountFails ==
  /\ impact.stage = "counts" /\ ~Cached
  /\ Spend("faults")
  /\ impact' = [impact EXCEPT !.stage = "shown", !.counts = "unavailable"]
  /\ UNCHANGED <<unread, view>>

(* HTTP 202 raises ScopeRecordCountPending, which compute_impact does not catch. *)
CountPending ==
  /\ impact.stage = "counts" /\ ~Cached
  /\ Spend("faults")
  /\ impact' = NoImpact
  /\ UNCHANGED <<unread, view>>

Analysing ==
  \/ Does("impact") /\ \E x \in Plugins, fresh, cross \in BOOLEAN : StartImpact(x, fresh, cross)
  \/ Walk \/ Walked
  \/ TargetTables \/ InboundRefs \/ RefsDone \/ RefsFail
  \/ impact.stage = "refs" /\ \E y \in impact.inbound : CountRef(y)
  \/ CountScope \/ CountFails \/ CountPending

(* What _render_impact says of the two questions put to the instance.          *)
CountsNotice(i) ==
  CASE i.counts = "unavailable" -> "could not reach instance"
    [] i.counts = "none"        -> "No scope-owned records"
    [] OTHER                    -> "table of records"
RefsNotice(i) ==
  CASE ~i.cross                                     -> "skipped"
    [] i.cross /\ ~i.available                      -> "unavailable"
    [] i.cross /\ i.available /\ DOMAIN i.refs = {} -> "No inbound references"
    [] OTHER                                        -> "table of references"

-----------------------------------------------------------------------------
(* roadmap, recommend deactivate: the evidence in the prompt. *)

Severe(inventory) == {f \in ComputeAdvisories(inventory) : f.severity \in {"critical", "high"}}

RoadmapContext(inventory) ==
  [findings |-> ComputeAdvisories(inventory), orphans |-> Orphans(inventory), deferred |-> Loaded]
NothingToRemediate(inventory) ==
  LET c == RoadmapContext(inventory) IN c.findings = {} /\ c.orphans = {} /\ c.deferred = {}

DeactivationContext(inventory) == [orphans |-> Orphans(inventory), severe |-> Severe(inventory)]
NothingToRecommend(inventory) == Orphans(inventory) = {} /\ ComputeAdvisories(inventory) = {}

-----------------------------------------------------------------------------
(* Changing the instance disturbs an impact analysis that is under way.        *)
Disturbed == IF impact.stage # "none" /\ live' # live THEN [impact EXCEPT !.whole = FALSE] ELSE impact

ReportsInit == Init /\ view = Closed /\ impact = NoImpact

ReportsNext ==
  \/ Next /\ impact' = Disturbed /\ UNCHANGED view
  \/ Viewing
  \/ Analysing

ReportsSpec == ReportsInit /\ [][ReportsNext]_reportVars

-----------------------------------------------------------------------------
DetailTells(row, detail) ==
  /\ detail.plugin = row.plugin
  /\ detail.info.version = row.version
  /\ detail.info.active = row.active

(* Whoever reads the list, in whatever order, sees beside each plugin what the *)
(* inventory of one reading said of it.                                        *)
ViewIsTrue == RowsAreTrue(DetailTells)

(* The plugins from which a chain of at most n dependencies leads to x.        *)
WithinSteps(inventory, x, n) ==
  LET reach[k \in 0 .. n] ==
        IF k = 0 THEN {x}
        ELSE reach[k - 1] \cup {y \in DOMAIN inventory : inventory[y].depends_on \cap reach[k - 1] # {}}
  IN reach[n]

(* The dependents found are those that lead to the target, each once, nearest  *)
(* first, by a chain of dependencies as short as any.                          *)
DependentsAreTrue(i) ==
  LET found == {Head(i.deps[k]) : k \in DOMAIN i.deps}
      Depth(k) == Len(i.deps[k]) - 1
  IN /\ found = WithinSteps(i.inventory, i.target, Cardinality(Plugins)) \ {i.target}
     /\ Cardinality(found) = Len(i.deps)
     /\ \A k \in DOMAIN i.deps :
          /\ \A m \in 1 .. Depth(k) : i.deps[k][m + 1] \in i.inventory[i.deps[k][m]].depends_on
          /\ i.deps[k][Depth(k) + 1] = i.target
          /\ Head(i.deps[k]) \notin WithinSteps(i.inventory, i.target, Depth(k) - 1)
          /\ k > 1 => Depth(k - 1) <= Depth(k)

(* "No inbound references" and "No scope-owned records" are said only of a     *)
(* scope that has none, unless the instance changed or the counts were stored. *)
NoticesAreEarned(i) ==
  /\ RefsNotice(i) = "No inbound references" /\ i.whole =>
       \A y \in References[i.target] : i.before[y] = Absent \/ i.before[i.target] = Absent
  /\ RefsNotice(i) = "table of references" /\ i.whole =>
       \A y \in DOMAIN i.refs : (i.refs[y] = "some") <=> i.before[y].used
  /\ CountsNotice(i) = "No scope-owned records" =>
       \/ i.whole /\ ~i.before[i.target].used
       \/ ~i.whole
       \/ ~i.fresh /\ i.inventory[i.target].record_counts = "none"
  /\ i.fresh /\ i.whole /\ i.counts # "unavailable" => ((i.counts = "some") <=> i.before[i.target].used)

ImpactIsTrue == impact.stage = "shown" => DependentsAreTrue(impact) /\ NoticesAreEarned(impact)

(* "Nothing to remediate" and "nothing to recommend" follow from what the      *)
(* instance held, as far as its records were counted: `orphans` refuses an     *)
(* inventory without counts, these two commands do not.                        *)
AdviceIsEarned ==
  stored[Target] # NoInventory /\ known[Target] # Unsure =>
    /\ NothingToRecommend(stored[Target]) =>
         \A x \in DOMAIN stored[Target] : Tabled(x) =>
           /\ \A e \in Cves[x] : known[Target][x].version \notin e.affected \ Unparseable
           /\ known[Target][x].used
                \/ stored[Target][x].record_counts = "unknown"
                \/ \E y \in Plugins : known[Target][y] # Absent /\ x \in DependsOn[y]
    /\ NothingToRemediate(stored[Target]) /\ ~clash => granted = {}
    /\ \A x \in Plugins : Tabled(x) /\ known[Target][x] # Absent =>
         \A e \in Cves[x] :
           known[Target][x].version \in e.affected \ Unparseable /\ e.severity = "critical"
             => Finding(x, e.id, "critical") \in DeactivationContext(stored[Target]).severe

(* Every report holds what the instance, or the stored inventory it was made   *)
(* from, bears out: drift, updates, orphans and advisories (ReportsAreEarned), *)
(* the impact of a plugin, and what the language model is told.                *)
ReportsAreTrue == ReportsAreEarned /\ ImpactIsTrue /\ AdviceIsEarned
=============================================================================
