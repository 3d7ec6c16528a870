--------------------------- MODULE ConfigTransport ---------------------------
(***************************************************************************)
(* Configuration on its way from one instance to another: `nexus capture   *)
(* pull` reads it page by page into an archive of YAML files, `nexus       *)
(* capture push` puts an archive into an update set, and the template      *)
(* engine (templates/apply.py) puts rendered records into one of its own   *)
(* and logs what it did (capture/fetcher.py, archive.py, update_set.py).   *)
(*                                                                         *)
(* Several processes run, each a program of commands; other users change   *)
(* the source and complete update sets; a request may fail, its answer may *)
(* be lost, and a process may die between any two of its effects.          *)
(*                                                                         *)
(* A row is its sys_id: the records of a push are told apart by nothing    *)
(* else.  An instance is taken to answer sys_id as a string even when it   *)
(* is asked for display values, as _row_to_record expects.  Rows of a root *)
(* table have no parent; the rows of a related table are read by one query *)
(* for all the parents that were read before.                              *)
(***************************************************************************)
EXTENDS Naturals, Sequences, FiniteSets, FiniteSetsExt

CONSTANTS
    Procs,
    Rows,           \* sys_ids of the source, in the order a query returns them
    NoParent,       \* of a root row
    ParentOf,       \* the parent of a row, or NoParent
    Steps,          \* how many <<scope, table>> pairs a pull goes through
    StepOf,         \* the pair a row belongs to, for a related row its parent's
    TableOf,        \* the table it is in
    PageSize,       \* records per request
    TemplateRows,   \* the records a template renders to, the same every time
    Nothing,
    Worlds          \* programs, instances and bounds to start from

ASSUME RowsAssumption == Rows \subseteq Nat /\ IsFiniteSet(Rows) /\ IsFiniteSet(TemplateRows)
ASSUME StepsAssumption == Steps \in Nat \ {0} /\ StepOf \in [Rows -> 1 .. Steps]
ASSUME ParentsAssumption ==
    /\ NoParent \notin Rows /\ ParentOf \in [Rows -> Rows \cup {NoParent}]
    /\ \A row \in Rows : ParentOf[row] # NoParent =>
          ParentOf[ParentOf[row]] = NoParent /\ StepOf[ParentOf[row]] = StepOf[row]
ASSUME PageAssumption == PageSize \in Nat \ {0}

\* The commands that processes run.
Commands == UNION {{w.programs[p][k] : k \in DOMAIN w.programs[p]} : w \in Worlds, p \in Procs}

Bounds == [time : Nat, changes : Nat, completions : Nat, faults : Nat, crashes : Nat]

VARIABLES
    clock,      \* seconds
    present,    \* the rows of the source, all of them customer-updated
    dirs,       \* archive directories, named by the second of the capture
    sets,       \* the update sets of the target, in the order of creation
    logs,       \* apply.jsonl: one record for each apply that was logged
    procs,
    left,       \* what may still happen: seconds, row changes, completions, crashes
    history     \* for the properties only

vars == <<clock, present, dirs, sets, logs, procs, left, history>>

Seconds == DOMAIN dirs
Items == Rows \cup TemplateRows

IdleProc == [at |-> "idle", todo |-> <<>>, step |-> 1, related |-> FALSE, offset |-> 0,
             page |-> {}, roots |-> {}, rows |-> {}, second |-> 0,
             name |-> Nothing, set |-> 0, own |-> 0, pending |-> {}, failed |-> Nothing,
             owed |-> {}, truth |-> Nothing, capture |-> {}]

NoDir == [whole |-> {}, manifest |-> Nothing, cut |-> FALSE, mtime |-> 0, writers |-> {}, owed |-> {},
          truth |-> Nothing]

\* A pull is told from the others of its process by what the process has left to do.
Pulls == Procs \X Nat

ASSUME NothingAssumption == Nothing \notin Pulls

Captured == (SUBSET Rows) \cup {Nothing}
Dir == [whole : SUBSET Rows, manifest : Captured, cut : BOOLEAN, mtime : Nat, writers : SUBSET (Pulls \cup {Nothing}),
        owed : SUBSET Rows, truth : Captured]

\* An archive that is there at the start was written by none of these processes,
\* and holds nothing that was not on the instance when it was made.
ASSUME WorldsAssumption ==
    \A w \in Worlds :
        /\ w.present \subseteq Rows
        /\ \A row \in w.present : ParentOf[row] \in w.present \cup {NoParent}
        /\ w.archive \in Dir /\ w.archive.owed \subseteq w.archive.whole
        /\ w.archive = NoDir \/ w.archive.writers = {Nothing}
        /\ w.archive.truth # Nothing => w.archive.whole \subseteq w.archive.truth
        /\ w.programs \in [Procs -> Seq(Commands)]
        /\ w.left \in Bounds

(***************************************************************************)
(* Control of one process                                                  *)
(***************************************************************************)
At(p, place) == procs[p].at = place
Busy(p) == procs[p].at # "idle"
Command(p) == Head(procs[p].todo)
Applies(p) == Command(p).do = "apply"
Starts(p, do) == ~ Busy(p) /\ procs[p].todo # <<>> /\ Command(p).do = do

Goes(p, me) == procs' = [procs EXCEPT ![p] = me]
Ended(p) == [IdleProc EXCEPT !.todo = Tail(procs[p].todo)]
End(p) == Goes(p, Ended(p))

Files == <<dirs, logs>>
Elsewhere == <<clock, present, left>>

(***************************************************************************)
(* ConfigFetcher                                                           *)
(***************************************************************************)
\* capture pull: the scopes are resolved, the fetch begins
BeginPull(p) ==
    /\ Starts(p, "pull")
    /\ Goes(p, [procs[p] EXCEPT !.at = "fetch", !.owed = present, !.truth = present])
    /\ UNCHANGED <<Elsewhere, Files, sets, history>>

\* the rows a query asks for: those of a root table in a scope, or the
\* children of the roots that were read
Asked(p) ==
    {row \in Rows :
        IF procs[p].related THEN ParentOf[row] \in procs[p].roots
        ELSE ParentOf[row] = NoParent /\ StepOf[row] = procs[p].step}
Matching(p) == Asked(p) \cap present

Page(rows, offset) ==
    {row \in rows : Cardinality({other \in rows : other < row}) \in offset .. offset + PageSize - 1}

\* The query is over: its related query comes next if it found roots, else
\* the next pair, else the archive.  The capture is dated when all is read.
Advanced(p, page) ==
    LET me == procs[p]
        seen == [me EXCEPT !.rows = @ \cup page, !.page = {}, !.offset = 0]
        roots == me.page \cup page
    IN  IF ~ me.related /\ roots # {}
        THEN [seen EXCEPT !.related = TRUE, !.roots = roots]
        ELSE IF me.step < Steps
             THEN [seen EXCEPT !.related = FALSE, !.roots = {}, !.step = @ + 1]
             ELSE [seen EXCEPT !.at = "write", !.second = clock, !.pending = me.rows \cup page]

\* Variant: a full page may be the last one.
IsLast_Full(page) == Cardinality(page) <= PageSize

IsLast(page) == Cardinality(page) < PageSize

\* _fetch_all_pages: one request
FetchPage(p) ==
    /\ At(p, "fetch")
    /\ LET me == procs[p]
           page == Page(Matching(p), me.offset)
       IN  Goes(p, IF IsLast(page) THEN Advanced(p, page)
                   ELSE [me EXCEPT !.page = @ \cup page, !.rows = @ \cup page,
                                   !.offset = @ + PageSize])
    /\ UNCHANGED <<Elsewhere, Files, sets, history>>

\* What the query has not read so far, with the children nobody will ask for.
Unread(p) ==
    LET rest == Asked(p) \ procs[p].page
    IN  rest \cup {row \in Rows : ParentOf[row] \in rest}

\* HTTP 400 or 404, on the first page or on a later one: what there is is
\* taken for the whole table
TableUnavailable(p) ==
    /\ At(p, "fetch") /\ left.faults > 0
    /\ left' = [left EXCEPT !.faults = @ - 1]
    /\ Goes(p, [Advanced(p, {}) EXCEPT !.owed = @ \ Unread(p)])
    /\ UNCHANGED <<clock, present, Files, sets, history>>

(***************************************************************************)
(* ArchiveWriter and ArchiveReader                                         *)
(***************************************************************************)
\* manifest.yaml is there; it can be read.
HasManifest(second) == dirs[second].manifest # Nothing \/ dirs[second].cut
Readable(second) == dirs[second].manifest # Nothing /\ ~ dirs[second].cut

\* One pull at most has written into the directory.
WrittenOnce(second) == \A a, b \in dirs[second].writers : a = b

ThisPull(p) == <<p, Len(procs[p].todo)>>

WithFiles(d, p, rows) == [d EXCEPT !.whole = rows, !.writers = @ \cup {ThisPull(p)}]

Touched(d, p) ==
    [d EXCEPT !.writers = @ \cup {ThisPull(p)}, !.mtime = 1 + Max({dirs[s].mtime : s \in Seconds})]

\* The record files that may be written next: the roots come first.
Writable(p) ==
    LET roots == {row \in procs[p].pending : ParentOf[row] = NoParent}
    IN  IF roots # {} THEN roots ELSE procs[p].pending

WriteRecord(p) ==
    /\ At(p, "write")
    /\ \E row \in Writable(p) :
          /\ dirs' = [dirs EXCEPT ![procs[p].second] =
                         WithFiles(@, p, @.whole \cup {row})]
          /\ Goes(p, [procs[p] EXCEPT !.pending = @ \ {row}])
    /\ UNCHANGED <<Elsewhere, sets, logs, history>>

\* The manifest comes last; no other record of the pull is kept.
WriteManifest(p) ==
    /\ At(p, "write") /\ procs[p].pending = {}
    /\ dirs' = [dirs EXCEPT ![procs[p].second] =
                   [Touched(@, p) EXCEPT !.manifest = procs[p].rows, !.cut = FALSE,
                                         !.owed = procs[p].owed, !.truth = procs[p].truth]]
    /\ End(p)
    /\ UNCHANGED <<Elsewhere, sets, logs, history>>

\* The process dies, perhaps inside write_text: the file is cut off.
Crash(p) ==
    /\ Busy(p) /\ left.crashes > 0
    /\ left' = [left EXCEPT !.crashes = @ - 1]
    /\ \/ UNCHANGED dirs
       \/ /\ At(p, "write")
          /\ \E row \in Writable(p) :
                dirs' = [dirs EXCEPT ![procs[p].second] =
                            WithFiles(@, p, @.whole \ {row})]
       \/ /\ At(p, "write") /\ procs[p].pending = {}
          /\ dirs' = [dirs EXCEPT ![procs[p].second] = [Touched(@, p) EXCEPT !.cut = TRUE]]
    /\ End(p)
    /\ UNCHANGED <<clock, present, sets, logs, history>>

\* capture push: without a whole manifest there is no archive; a record file that
\* cannot be parsed is skipped, and the count in the manifest is not looked at.
\* The name that the user gives is none that the template engine makes.
LoadArchive(p) ==
    /\ Starts(p, "push")
    /\ \E second \in Seconds :
          IF ~ Readable(second) THEN End(p)
          ELSE Goes(p, [procs[p] EXCEPT !.at = "look up", !.name = <<Command(p).name>>,
                            !.rows = dirs[second].whole, !.pending = dirs[second].whole])
    /\ UNCHANGED <<Elsewhere, Files, sets, history>>

(***************************************************************************)
(* UpdateSetWriter                                                         *)
(***************************************************************************)
Open(name) == {n \in DOMAIN sets : sets[n].name = name /\ sets[n].state = "in progress"}

\* Another process has looked the name up in vain and will create it.
Contended(p) == \E q \in Procs \ {p} : At(q, "create") /\ procs[q].name = procs[p].name

\* Variant: an update set that is there is not looked for.
LookUp_Never(p) ==
    /\ At(p, "look up")
    /\ Goes(p, [procs[p] EXCEPT !.at = "create"])
    /\ history' = [history EXCEPT !.clash = @ \cup (IF Contended(p) THEN {procs[p].name} ELSE {})]
    /\ UNCHANGED <<Elsewhere, Files, sets>>

\* _get_or_create_update_set: any one in progress of that name will do
LookUp(p) ==
    /\ At(p, "look up")
    /\ IF Open(procs[p].name) = {} THEN Goes(p, [procs[p] EXCEPT !.at = "create"])
       ELSE \E n \in Open(procs[p].name) : Goes(p, [procs[p] EXCEPT !.at = "inject", !.set = n])
    /\ history' = [history EXCEPT !.clash = @ \cup (IF Contended(p) THEN {procs[p].name} ELSE {})]
    /\ UNCHANGED <<Elsewhere, Files, sets>>

NewSet(name) ==
    Append(sets, [name |-> name, state |-> "in progress", entries |-> [item \in Items |-> 0]])

\* The POST of an update set; two processes may both be here for one name.
CreateSet(p) ==
    /\ At(p, "create")
    /\ sets' = NewSet(procs[p].name)
    /\ Goes(p, [procs[p] EXCEPT !.at = "inject", !.set = Len(sets) + 1])
    /\ UNCHANGED <<Elsewhere, Files, history>>

OneMore(entries, item) == [entries EXCEPT ![item] = @ + 1]

Added(n, item) == [sets EXCEPT ![n] = [@ EXCEPT !.entries = OneMore(sets[n].entries, item)]]

\* gather: the POSTs of all records are under way together, at most 20 at a
\* time, and any of them may be answered next
Inject(p) ==
    /\ At(p, "inject")
    /\ \E item \in procs[p].pending :
          /\ sets' = Added(procs[p].set, item)
          /\ Goes(p, [procs[p] EXCEPT !.pending = @ \ {item}])
    /\ UNCHANGED <<Elsewhere, Files, history>>

\* Variant: gather(..., return_exceptions=True).
InjectFails_Ignored(p) ==
    /\ At(p, "inject") /\ left.faults > 0
    /\ left' = [left EXCEPT !.faults = @ - 1]
    /\ \E item \in procs[p].pending :
          /\ sets' \in {sets, Added(procs[p].set, item)}
          /\ Goes(p, [procs[p] EXCEPT !.pending = @ \ {item}])
    /\ UNCHANGED <<clock, present, Files, history>>

\* The first failure, whether or not the record was stored, is raised as an
\* UpdateSetError: a push is over, an apply goes on to its log.
InjectFails(p) ==
    /\ At(p, "inject") /\ left.faults > 0
    /\ left' = [left EXCEPT !.faults = @ - 1]
    /\ \E item \in procs[p].pending :
          /\ sets' \in {sets, Added(procs[p].set, item)}
          /\ Goes(p, [procs[p] EXCEPT !.at = "unwind", !.failed = item,
                                      !.pending = @ \ {item}])
    /\ UNCHANGED <<clock, present, Files, history>>

\* The others are not cancelled before the client is closed.
Straggle(p) ==
    /\ At(p, "unwind")
    /\ \E item \in procs[p].pending :
          /\ sets' = Added(procs[p].set, item)
          /\ Goes(p, [procs[p] EXCEPT !.pending = @ \ {item}])
    /\ UNCHANGED <<Elsewhere, Files, history>>

\* Any other request fails, with or without an effect on the target.
RequestFails(p) ==
    /\ procs[p].at \in {"fetch", "look up", "create", "create own"} /\ left.faults > 0
    /\ left' = [left EXCEPT !.faults = @ - 1]
    /\ \/ UNCHANGED sets
       \/ procs[p].at \in {"create", "create own"} /\ sets' = NewSet(procs[p].name)
    /\ End(p)
    /\ UNCHANGED <<clock, present, Files, history>>

\* push_to_update_set returns the set and how many records it was sent
ReportPush(p) ==
    /\ procs[p].at \in {"inject", "unwind"} /\ ~ Applies(p)
    /\ At(p, "inject") => procs[p].pending = {}
    /\ history' = IF At(p, "unwind") THEN history
                  ELSE [history EXCEPT !.reports = @ \cup
                           {[set |-> procs[p].set, rows |-> procs[p].rows]}]
    /\ End(p)
    /\ UNCHANGED <<Elsewhere, Files, sets>>

(***************************************************************************)
(* ApplyEngine                                                             *)
(***************************************************************************)
\* apply: the template is loaded, its scope resolved, its records rendered;
\* the set is named after the template and the second.  Called by itself, or
\* by `nexus apply` between its gates (Assessment).
BeginApply(p) ==
    /\ (Starts(p, "apply") /\ ~ Command(p).gated) \/ At(p, "go")
    /\ LET name == <<Command(p).name, clock>>
       IN  /\ Goes(p, [procs[p] EXCEPT !.at = "create own", !.name = name,
                           !.rows = TemplateRows, !.pending = TemplateRows])
           /\ history' = [history EXCEPT
                 !.begun = @ \cup {name},
                 !.clash = @ \cup (IF name \in history.begun THEN {name} ELSE {})]
    /\ UNCHANGED <<Elsewhere, Files, sets>>

\* _create_update_set, then _push_records, which looks the set up by its name
CreateOwnSet(p) ==
    /\ At(p, "create own")
    /\ sets' = NewSet(procs[p].name)
    /\ Goes(p, [procs[p] EXCEPT !.at = "look up", !.own = Len(sets) + 1])
    /\ UNCHANGED <<Elsewhere, Files, history>>

\* _classify_failure: every other record is taken for requested
Outcome(p) ==
    [item \in procs[p].rows |-> IF item = procs[p].failed THEN "FAILED" ELSE "REQUESTED"]

\* _write_apply_log names the set that was created first
WriteLog(p) ==
    /\ procs[p].at \in {"inject", "unwind"} /\ Applies(p)
    /\ At(p, "inject") => procs[p].pending = {}
    /\ logs' = logs \cup {[set |-> procs[p].own, outcome |-> Outcome(p)]}
    /\ IF Command(p).gated THEN Goes(p, [procs[p] EXCEPT !.at = "gate 2"]) ELSE End(p)
    /\ UNCHANGED <<Elsewhere, dirs, sets, history>>

(***************************************************************************)
(* The others                                                              *)
(***************************************************************************)
\* A pull under way no longer reads what was there when it began.
Disturbed(p) == IF At(p, "fetch") THEN [procs[p] EXCEPT !.truth = Nothing] ELSE procs[p]

\* A row appears; its parent must be there.
Insert(row) ==
    /\ row \notin present /\ ParentOf[row] \in present \cup {NoParent} /\ left.changes > 0
    /\ left' = [left EXCEPT !.changes = @ - 1]
    /\ present' = present \cup {row}
    /\ procs' = [p \in Procs |-> Disturbed(p)]
    /\ UNCHANGED <<clock, Files, sets, history>>

\* A row goes, and its children with it; later rows move to earlier pages.
Delete(row) ==
    /\ row \in present /\ left.changes > 0
    /\ left' = [left EXCEPT !.changes = @ - 1]
    /\ present' = {other \in present : other # row /\ ParentOf[other] # row}
    /\ procs' = [p \in Procs |-> [Disturbed(p) EXCEPT
                    !.owed = {other \in @ : StepOf[other] # StepOf[row]}]]
    /\ UNCHANGED <<clock, Files, sets, history>>

\* Somebody completes an update set on the target.
Complete(n) ==
    /\ sets[n].state = "in progress" /\ left.completions > 0
    /\ left' = [left EXCEPT !.completions = @ - 1]
    /\ sets' = [sets EXCEPT ![n] = [@ EXCEPT !.state = "complete"]]
    /\ history' = [history EXCEPT !.closed = @ \cup {sets[n].name}]
    /\ UNCHANGED <<clock, present, Files, procs>>

Tick ==
    /\ left.time > 0
    /\ left' = [left EXCEPT !.time = @ - 1]
    /\ clock' = clock + 1
    /\ UNCHANGED <<present, Files, sets, procs, history>>

-----------------------------------------------------------------------------
Init ==
    \E world \in Worlds :
        /\ clock = IF world.archive = NoDir THEN 0 ELSE 1
        /\ present = world.present
        /\ dirs = [second \in 0 .. clock + world.left.time |->
                      IF second = 0 THEN world.archive ELSE NoDir]
        /\ sets = <<>> /\ logs = {}
        /\ procs = [p \in Procs |-> [IdleProc EXCEPT !.todo = world.programs[p]]]
        /\ left = world.left
        /\ history = [begun |-> {}, clash |-> {}, closed |-> {}, reports |-> {}]

Pull(p) == BeginPull(p) \/ FetchPage(p) \/ TableUnavailable(p) \/ WriteRecord(p) \/ WriteManifest(p)
Push(p) == \/ LoadArchive(p) \/ LookUp(p) \/ CreateSet(p) \/ Inject(p) \/ InjectFails(p)
           \/ Straggle(p) \/ ReportPush(p)
Apply(p) == BeginApply(p) \/ CreateOwnSet(p) \/ WriteLog(p)

Next ==
    \/ \E p \in Procs : Pull(p) \/ Push(p) \/ Apply(p) \/ RequestFails(p) \/ Crash(p)
    \/ \E row \in Rows : Insert(row) \/ Delete(row)
    \/ \E n \in DOMAIN sets : Complete(n)
    \/ Tick

Spec == Init /\ [][Next]_vars

-----------------------------------------------------------------------------
(***************************************************************************)
(* Properties                                                              *)
(***************************************************************************)
\* Shape of the state.
Places == {"idle", "fetch", "write", "look up", "create", "inject", "unwind", "go", "create own", "gate 2"}

\* What update sets are called: as the user says, or after a template and a second.
Names == {<<c.name>> : c \in {d \in Commands : d.do = "push"}}
         \cup ({c.name : c \in {d \in Commands : d.do = "apply"}} \X Nat)

Process == [at : Places, todo : Seq(Commands), step : 1 .. Steps, related : BOOLEAN, offset : Nat,
            page : SUBSET Rows, roots : SUBSET Rows, rows : SUBSET Items, second : Nat,
            name : Names \cup {Nothing}, set : Nat, own : Nat, pending : SUBSET Items,
            failed : Items \cup {Nothing}, owed : SUBSET Rows, truth : Captured, capture : SUBSET Rows]

UpdateSet == [name : Names, state : {"in progress", "complete"}, entries : [Items -> Nat]]

TypeOK ==
    /\ clock \in Nat /\ present \subseteq Rows /\ left \in Bounds
    /\ dirs \in [0 .. clock + left.time -> Dir]
    /\ sets \in Seq(UpdateSet)
    /\ logs \subseteq [set : Nat, outcome : UNION {[rows -> {"FAILED", "REQUESTED"}] : rows \in SUBSET Items}]
    /\ procs \in [Procs -> Process]
    /\ history \in [begun : SUBSET Names, clash : SUBSET Names, closed : SUBSET Names,
                     reports : SUBSET [set : Nat, rows : SUBSET Items]]

\* An archive that `capture push` accepts holds every row that was there from
\* the beginning of the pull to its end, although the rows were read page by
\* page while others were added, and although the pull may have died while it
\* wrote. It promises nothing of a table from which a row was removed meanwhile,
\* nor of the rows that a query had not reached when it was answered 400 or
\* 404, and nothing when two pulls wrote into the directory of one second.
ArchiveIsWhole ==
    \A second \in Seconds :
        Readable(second) /\ WrittenOnce(second) => dirs[second].owed \subseteq dirs[second].whole

\* Two update sets of one name are in progress at once only when two commands
\* went for that name at the same time: a push that failed or died at any
\* point, its own POST included, is taken up in the same set by the next.
OneSetPerName ==
    \A m, n \in DOMAIN sets :
        /\ m # n /\ sets[m].name = sets[n].name
        /\ sets[m].state = "in progress" /\ sets[n].state = "in progress"
        => sets[m].name \in history.clash

\* The update set that a successful push returns holds all its records, and so
\* does the one an apply log names when it lists no failure, unless two applies
\* of a template began in one second or somebody completed the set in between:
\* the engine drops the sys_id of the set it has created and has the writer
\* look it up again by name.
ReportedSetHoldsAll ==
    /\ \A report \in history.reports, item \in Items :
          item \in report.rows => sets[report.set].entries[item] > 0
    /\ \A log \in logs :
          \/ \E item \in DOMAIN log.outcome : log.outcome[item] = "FAILED"
          \/ sets[log.set].name \in history.clash \cup history.closed
          \/ \A item \in DOMAIN log.outcome : sets[log.set].entries[item] > 0
=============================================================================
