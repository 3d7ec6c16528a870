-------------------------- MODULE MigrationPlanning --------------------------
(***************************************************************************)
(* The selective migration of one instance to another, from the checklist  *)
(* to the recheck of the plan: `nexus assess migration`, `nexus migrate    *)
(* select`, `migrate plan` and `migrate plan --recheck`                    *)
(* (cli/commands_assess_replatform.py, cli/commands_migrate.py,            *)
(* cli/migrate_wiring.py, migrate/, replatform/).                          *)
(*                                                                         *)
(* One consultant runs one command at a time on one set of files and edits *)
(* the selection and the plan by hand, while others change both instances. *)
(* Each read of an instance is one step, each write of a file another, and *)
(* a command may fail or be killed between any two of them.                *)
(*                                                                         *)
(* The closure and the waves have modules of their own (DependencyClosure, *)
(* WavePlanner); here a plan holds the least closed set and the findings   *)
(* that block an approval.                                                 *)
(***************************************************************************)
EXTENDS ConfigTables, FiniteSetsExt

CONSTANTS
    References,     \* <<key, key>>: what the captured reference fields resolve to
    NoFile,
    Worlds,         \* the instances, the selection and the counters at the start
    MaxEdits,       \* bound on the changes of the instances
    MaxFailures,    \* bound on the counts that fail
    MaxPlans,       \* bound on the plans written
    MaxMarks        \* bound on the marks a human makes in plan files

Side == {"source", "target"}
Disposition == {"include", "exclude", "undecided"}
\* What a human writes into a plan file; a waiver whose approver is its
\* author makes the file invalid.
Mark == {"waiver", "self_waiver", "approval"}

IsSelection(chosen) ==
    DOMAIN chosen \subseteq Keys /\ chosen \in [DOMAIN chosen -> Disposition]

\* What a listing reads, and the file run_plan writes from two of them.
Stamped == UNION {[ids -> 0 .. MaxEdits] : ids \in SUBSET Ids}
PlanFile == [n : Nat, items : SUBSET Keys, stranded : SUBSET References,
             baseline : [Side -> Stamped], truth : [Side -> Stamped \cup {NoFile}],
             marks : SUBSET Mark]

ASSUME ReferencesAssumption == References \subseteq Keys \X Keys
ASSUME NoFileAssumption == NoFile \notin PlanFile
\* The edits there were so far have the stamps up to their number.
ASSUME WorldsAssumption ==
    \A world \in Worlds :
        /\ world.edits \in 0 .. MaxEdits /\ world.failures \in 0 .. MaxFailures
        /\ world.written \in 0 .. MaxPlans /\ world.marked \in 0 .. MaxMarks
        /\ DOMAIN world.tables = Side
        /\ \A s \in Side :
              /\ IsTables(world.tables[s])
              /\ \A id \in DOMAIN world.tables[s] : world.tables[s][id].stamp <= world.edits
        /\ world.selection # NoFile => IsSelection(world.selection)
ASSUME BoundsAssumption == {MaxEdits, MaxFailures, MaxPlans, MaxMarks} \subseteq Nat

VARIABLES
    tables,     \* what each instance holds
    checklist,  \* the --out-json file: the natural keys and their counts
    selection,  \* the Selection YAML: a disposition for each key
    plan,       \* the plan YAML
    runbook,    \* the runbook markdown beside it
    cmd,        \* the running command and what it has read
    vouched,    \* what the last recheck vouched for, if it saw no drift
    edits, failures, written, marked,   \* counters: changes, failed counts, plans, marks
    given       \* history: <<plan, mark>> for each mark a human has made

files == <<checklist, selection, plan, runbook>>
counters == <<edits, failures, written, marked>>
vars == <<tables, files, cmd, vouched, counters, given>>

NoRead == [s \in Side |-> <<>>]
Idle == [pc |-> "idle", selection |-> NoFile, plan |-> NoFile,
         first |-> NoRead, second |-> NoRead, truth |-> NoRead]

(***************************************************************************)
(* Reading an instance                                                     *)
(***************************************************************************)
\* The counts that fail in a discovery.
Failing(failed) ==
    /\ failed \subseteq Tables
    /\ failures + Cardinality(failed) <= MaxFailures
    /\ failures' = failures + Cardinality(failed)

\* The reads of a command, with the one of s.
With(reads, s, read) == [reads EXCEPT ![s] = read]

Listing(s, failed) == Stamps(tables[s], Listed(tables[s], failed))

\* Every customer-updated row that is not a vendor's: what a listing is
\* meant to cover.  Only the properties look at it.
Truth(s) ==
    Stamps(tables[s], {id \in DOMAIN tables[s] :
        tables[s][id].custom /\ ScopeOfRow(id) \in CustomScopes \cup {GlobalScope}})

(***************************************************************************)
(* assess migration, migrate select                                        *)
(***************************************************************************)
Count(listing, key) == Cardinality({id \in DOMAIN listing : KeyOf[id] = key})
ListedKeys(listing) == {KeyOf[id] : id \in DOMAIN listing}

\* build_checklist: keys are matched as a multiset.
Checklist(source, target) ==
    [key \in ListedKeys(source) \cup ListedKeys(target) |->
        LET built == Min({Count(source, key), Count(target, key)})
        IN  [done |-> built, todo |-> Count(source, key) - built,
             extra |-> Count(target, key) - built]]

AssessSource ==
    /\ cmd = Idle
    /\ \E failed \in SUBSET Tables :
          /\ Failing(failed)
          /\ cmd' = [cmd EXCEPT !.pc = "assess_target",
                                !.first = With(cmd.first, "source", Listing("source", failed))]
    /\ UNCHANGED <<tables, files, vouched, edits, written, marked, given>>

AssessTarget ==
    /\ cmd.pc = "assess_target"
    /\ \E failed \in SUBSET Tables :
          /\ Failing(failed)
          /\ checklist' = Checklist(cmd.first.source, Listing("target", failed))
    /\ cmd' = Idle
    /\ UNCHANGED <<tables, selection, plan, runbook, vouched, edits, written, marked, given>>

\* run_select: every key undecided, over whatever the file held.
Select ==
    /\ cmd = Idle /\ checklist # NoFile
    /\ selection' = [key \in DOMAIN checklist |-> "undecided"]
    /\ UNCHANGED <<tables, checklist, plan, runbook, cmd, vouched, counters, given>>

\* A decision is made once.
Curate(key, disposition) ==
    /\ selection # NoFile /\ key \in DOMAIN selection /\ selection[key] = "undecided"
    /\ selection' = [selection EXCEPT ![key] = disposition]
    /\ UNCHANGED <<tables, checklist, plan, runbook, cmd, vouched, counters, given>>

(***************************************************************************)
(* migrate plan                                                            *)
(***************************************************************************)
ReadSelection ==
    /\ cmd = Idle /\ selection # NoFile
    /\ cmd' = [cmd EXCEPT !.pc = "capture_source", !.selection = selection]
    /\ UNCHANGED <<tables, files, vouched, counters, given>>

CaptureOf(s, failed) ==
    LET keys == DOMAIN cmd.selection
    IN  [scopes |-> ResolvedScopes(tables[s], keys, failed),
         rows |-> Stamps(tables[s], Captured(tables[s], keys, failed))]

\* _build_live_captures, one instance after the other; the reference fields
\* that are read next change nothing here.
Capture(s, from, to) ==
    /\ cmd.pc = from
    /\ \E failed \in SUBSET Tables :
          /\ Failing(failed)
          /\ cmd' = [cmd EXCEPT !.pc = to, !.first = With(cmd.first, s, CaptureOf(s, failed))]
    /\ UNCHANGED <<tables, files, vouched, edits, written, marked, given>>

CaptureSource == Capture("source", "capture_source", "capture_target")
CaptureTarget == Capture("target", "capture_target", "baseline_source")

\* _live_baselines: a listing of each instance, after the captures.
Baseline(s, from, to) ==
    /\ cmd.pc = from
    /\ \E failed \in SUBSET Tables :
          /\ Failing(failed)
          /\ cmd' = [cmd EXCEPT
                      !.pc = to,
                      !.second = With(cmd.second, s, Listing(s, failed)),
                      !.truth = With(cmd.truth, s, IF failed = {} THEN Truth(s) ELSE NoFile)]
    /\ UNCHANGED <<tables, files, vouched, edits, written, marked, given>>

BaselineSource == Baseline("source", "baseline_source", "baseline_target")
BaselineTarget == Baseline("target", "baseline_target", "assemble")

\* The closure of the selection over the captured source rows.
IsSelected(key, disposition) ==
    key \in DOMAIN cmd.selection /\ cmd.selection[key] = disposition
CapturedKeys == ListedKeys(cmd.first.source.rows)
Reaches(key, target) == <<key, target>> \in References /\ {key, target} \subseteq CapturedKeys
Items ==
    LET seeds == {key \in DOMAIN cmd.selection : IsSelected(key, "include")}
        IsClosed(S) == \A key \in S, target \in Keys :
                          Reaches(key, target) /\ IsSelected(target, "undecided") => target \in S
    IN  {key \in Keys : \A S \in SUBSET Keys : seeds \subseteq S /\ IsClosed(S) => key \in S}
Stranded ==
    {r \in References : r[1] \in Items /\ Reaches(r[1], r[2]) /\ IsSelected(r[2], "exclude")}

\* run_plan, once everything is read: without a capture of either instance
\* there is no plan.  The file is written anew, with no mark of a human.
WritePlan ==
    /\ cmd.pc = "assemble" /\ written < MaxPlans
    /\ \A s \in Side : cmd.first[s].scopes # {}
    /\ plan' = [n |-> written + 1, items |-> Items, stranded |-> Stranded,
                baseline |-> cmd.second, truth |-> cmd.truth, marks |-> {}]
    /\ written' = written + 1
    /\ cmd' = [Idle EXCEPT !.pc = "write_runbook", !.plan = plan']
    /\ UNCHANGED <<tables, checklist, selection, runbook, vouched, edits, failures, marked, given>>

RefusePlan ==
    /\ cmd.pc = "assemble" /\ \E s \in Side : cmd.first[s].scopes = {}
    /\ cmd' = Idle
    /\ UNCHANGED <<tables, files, vouched, counters, given>>

\* Variant: an approval does as well as a waiver.
Blocked_Approved(p) == p.stranded # {} /\ {"waiver", "approval"} \cap p.marks = {}

\* validate_approval
Blocked(p) == p.stranded # {} /\ "waiver" \notin p.marks

\* render_runbook
Rendered(p, stale) == [n |-> p.n, marks |-> p.marks, blocked |-> Blocked(p), stale |-> stale]

WriteRunbook ==
    /\ cmd.pc = "write_runbook"
    /\ runbook' = Rendered(cmd.plan, FALSE)
    /\ cmd' = Idle
    /\ UNCHANGED <<tables, checklist, selection, plan, vouched, counters, given>>

(***************************************************************************)
(* A human on the plan file                                                *)
(***************************************************************************)
MarkPlan(mark) ==
    /\ plan # NoFile /\ mark \notin plan.marks
    /\ marked < MaxMarks /\ marked' = marked + 1
    /\ plan' = [plan EXCEPT !.marks = @ \cup {mark}]
    /\ given' = given \cup {<<plan.n, mark>>}
    /\ UNCHANGED <<tables, checklist, selection, runbook, cmd, vouched, edits, failures, written>>

(***************************************************************************)
(* migrate plan --recheck                                                  *)
(***************************************************************************)
\* A file that fails validation, and one without a baseline, end the command.
Loads(p) == p # NoFile /\ "self_waiver" \notin p.marks
HasBaseline(p) == \E s \in Side : p.baseline[s] # <<>>

ReadPlan ==
    /\ cmd = Idle /\ Loads(plan) /\ HasBaseline(plan)
    /\ cmd' = [cmd EXCEPT !.pc = "list_source", !.plan = plan]
    /\ vouched' = NoFile
    /\ UNCHANGED <<tables, files, counters, given>>

List(s, from, to) ==
    /\ cmd.pc = from
    /\ \E failed \in SUBSET Tables :
          /\ Failing(failed)
          /\ cmd' = [cmd EXCEPT
                      !.pc = to,
                      !.second = With(cmd.second, s, Listing(s, failed)),
                      !.truth = With(cmd.truth, s, IF failed = {} THEN Truth(s) ELSE NoFile)]
    /\ UNCHANGED <<tables, files, vouched, edits, written, marked, given>>

ListSource == List("source", "list_source", "list_target")
ListTarget == List("target", "list_target", "compare")

\* Variant: only the keys are compared.
Drifted_KeysOnly(baseline, fresh) == ListedKeys(baseline) # ListedKeys(fresh)

\* compute_drift: a key added, removed, or with another multiset of
\* fingerprints.
Held(listing, key) ==
    LET rows == {id \in DOMAIN listing : KeyOf[id] = key}
    IN  [f \in {listing[id] : id \in rows} |-> Cardinality({id \in rows : listing[id] = f})]

Drifted(baseline, fresh) ==
    \E key \in ListedKeys(baseline) \cup ListedKeys(fresh) : Held(baseline, key) # Held(fresh, key)

Compared == \A s \in Side : ~ Drifted(cmd.plan.baseline[s], cmd.second[s])

ReportNoDrift ==
    /\ cmd.pc = "compare" /\ Compared
    /\ vouched' = [baseline |-> cmd.plan.truth, now |-> cmd.truth]
    /\ cmd' = Idle
    /\ UNCHANGED <<tables, files, counters, given>>

\* Drift: the runbook is rewritten from the plan that was read, if there is
\* one at the path derived from the plan's.
ReportDrift ==
    /\ cmd.pc = "compare" /\ ~ Compared
    /\ vouched' = NoFile
    /\ runbook' = IF runbook = NoFile THEN NoFile ELSE Rendered(cmd.plan, TRUE)
    /\ cmd' = Idle
    /\ UNCHANGED <<tables, checklist, selection, plan, counters, given>>

(***************************************************************************)
(* Failures, and the others who work on the instances                      *)
(***************************************************************************)
\* A request fails, or the process is killed.
Abort ==
    /\ cmd # Idle
    /\ cmd' = Idle
    /\ UNCHANGED <<tables, files, vouched, counters, given>>

Changes(s, rows) ==
    /\ edits < MaxEdits /\ edits' = edits + 1
    /\ tables' = [tables EXCEPT ![s] = rows]
    /\ UNCHANGED <<files, cmd, vouched, failures, written, marked, given>>

\* An update sets sys_updated_on and makes the row a customer's.
Store(s, id) ==
    Changes(s, [i \in DOMAIN tables[s] \cup {id} |->
                   IF i = id THEN [stamp |-> edits + 1, custom |-> TRUE] ELSE tables[s][i]])
Remove(s, id) ==
    /\ id \in DOMAIN tables[s]
    /\ Changes(s, [i \in DOMAIN tables[s] \ {id} |-> tables[s][i]])

-----------------------------------------------------------------------------
InitFrom(world) ==
    /\ tables = world.tables /\ selection = world.selection
    /\ edits = world.edits /\ failures = world.failures /\ written = world.written
    /\ marked = world.marked
    /\ checklist = NoFile /\ plan = NoFile /\ runbook = NoFile
    /\ cmd = Idle /\ vouched = NoFile /\ given = {}

Init == \E world \in Worlds : InitFrom(world)

Next ==
    \/ AssessSource \/ AssessTarget \/ Select
    \/ \E key \in Keys, disposition \in {"include", "exclude"} : Curate(key, disposition)
    \/ ReadSelection \/ CaptureSource \/ CaptureTarget \/ BaselineSource \/ BaselineTarget
    \/ WritePlan \/ RefusePlan \/ WriteRunbook
    \/ \E mark \in Mark : MarkPlan(mark)
    \/ ReadPlan \/ ListSource \/ ListTarget \/ ReportNoDrift \/ ReportDrift
    \/ Abort
    \/ \E s \in Side, id \in Ids : Store(s, id) \/ Remove(s, id)

Spec == Init /\ [][Next]_vars

-----------------------------------------------------------------------------
(***************************************************************************)
(* Properties                                                              *)
(***************************************************************************)
\* Shape of the state.
TypeOK ==
    /\ DOMAIN tables = Side /\ \A s \in Side : IsTables(tables[s])
    /\ checklist # NoFile =>
          /\ DOMAIN checklist \subseteq Keys
          /\ \A key \in DOMAIN checklist :
                checklist[key] \in [{"done", "todo", "extra"} -> 0 .. Cardinality(Ids)]
    /\ selection # NoFile => IsSelection(selection)
    /\ plan # NoFile => plan \in PlanFile /\ plan.n = written
    /\ runbook # NoFile => runbook.n \in Nat /\ runbook.marks \subseteq Mark
    /\ vouched # NoFile =>
          {vouched.baseline, vouched.now} \subseteq [Side -> Stamped \cup {NoFile}]
    /\ edits \in 0 .. MaxEdits /\ failures \in 0 .. MaxFailures
    /\ written \in 0 .. MaxPlans /\ marked \in 0 .. MaxMarks

\* A recheck that reports no drift is right about every customer-updated
\* artifact outside the vendors' scopes: since the baseline of the plan was
\* listed none was added, removed or updated, on either instance.  Reads in
\* which a count failed are another matter: they cover less, silently.
NoDriftMeansUnchanged ==
    vouched # NoFile =>
        \A s \in Side : NoFile \notin {vouched.baseline[s], vouched.now[s]} =>
            vouched.now[s] = vouched.baseline[s]

\* Whatever fails in between, the runbook beside a plan is of that plan or of
\* one before it, shows only marks that a human made for its plan and no
\* waiver that its author approved; when it shows nothing that blocks the
\* plan, each stranded reference of that plan has been waived.
RunbookIsHonest ==
    runbook # NoFile =>
        /\ plan # NoFile /\ runbook.n <= plan.n
        /\ \A mark \in runbook.marks : <<runbook.n, mark>> \in given
        /\ "self_waiver" \notin runbook.marks
        /\ runbook.n = plan.n /\ ~ runbook.blocked =>
              plan.stranded = {} \/ <<plan.n, "waiver">> \in given
=============================================================================
