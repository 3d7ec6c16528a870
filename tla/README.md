# Verification of nexus-sn

NEXUS is a command line program that administers ServiceNow instances: it reads
what an instance holds, plans changes, and executes some of them through the
instance's REST interface. It is a client of a large remote system that accepts
requests, works on its own time, and answers or does not; most of what can go
wrong lies between the two. This directory holds TLA+ models of the parts where
that matters, TLC runs on small instances, and proofs checked by TLAPS.

Paths below are relative to `src/src/nexus/` unless they start with `src/`.

## The system

| part | state it keeps | operations | what makes it correct |
|---|---|---|---|
| **plugin execution** (`plugins/executor*.py`, `progress.py`, `connectors/servicenow/client.py`) | the snapshot `_by_id`, the result log, one operation in flight | install, activate, upgrade, deactivate, uninstall, apply_plan, batch_upgrade, rollback | results in the promised order; rollback undoes what was completed and nothing else; base and needed plugins are spared; every run ends |
| **plugin commands** (`cli/commands_plugins_exec.py`) | none of its own | choose the program, build client and executor, rescan | the stored inventory follows what was done |
| **plugin planning** (`plugins/diff.py`, `impact.py`, `drift.py`, `advisories.py`) | none: functions of inventories | diff, promotion plan, reverse dependencies | the plan transforms one inventory into the other; the walk finds every dependent once |
| **token lifecycle** (`instances/oauth.py`, `cli/auth.py`, `auth/keychain.py`) | three keychain entries, the expiry in `meta.json`, the client's header | acquire, refresh, reconnect, proactive and reactive refresh | the stored token and expiry belong together; a usable refresh token is never lost |
| **instance registry** (`instances/registry.py`) | a directory per profile: `meta.json`, snapshot, plugins, baselines, overrides | register, load, save, delete, list | no update of another command is lost; readers never see half a file |
| **plugin inventories** (`plugins/scanner.py`, `plugins/overrides.py`, `cli/commands_plugins_*.py`) | inventory, baselines and deferrals of each profile | scan, drift, outdated, orphans, defer, promote | what is reported follows from what the instance held |
| **caching** (`cache/`) | a backend per function, per instance or on disk | call, clear_cache | a call after a clear does not see what was cleared |
| **auto-updater** (`updater/`) | the check marker, a file lock, the installed version | check, download, install, re-exec | at most one process installs; the daily limit holds |
| **capture** (`capture/`) | an archive directory | paginated fetch, write, read | a complete manifest means a complete archive |
| **update set push, template apply** (`capture/update_set.py`, `templates/apply.py`) | an update set on the instance, an apply log | find or create, inject concurrently, log | what the result reports is what the instance got |
| **migration planner** (`migrate/`) | a plan file | closure, waves, approval, recheck | the closure is closed; waves respect dependencies; nothing blocking is approved |
| **assessment, replatform** (`assessment/`, `replatform/`) | none | evaluate rules, compare inventories | a verdict is earned by the instance, not only by the files that were read |
| **catalog sync** (`templates/sync.py`, `schema/sync.py`) | two cached catalogs | fetch, validate, replace | a failed or killed sync leaves the old cache, and its exit code says so |
| **schema cartography** (`schema/`) | a snapshot of a graph, a document | read the dictionary, narrow, save, draw | the map is what the instance has |
| **interactive list** (`ui/components/framed_viewer.py`) | rows and their details, filter, sort order | filter, sort, refresh, open | a row opens its own detail, and what matches is there |
| **configuration, capabilities, other rendering, external services** | one YAML file; nothing | load, save, detect, draw | |

Many modules of `agents/`, `execution/`, `knowledge/` are stubs in this commit.

How the parts interact: a plugin command acquires a token (token lifecycle,
registry), builds a `ServiceNowClient` around it, reads the stored inventory,
and runs a program on a `PluginExecutor`; the client may call back into the
token lifecycle in the middle of an operation; afterwards the command rescans
and stores the inventory. Planning functions read stored inventories and
captures. There is no server process: concurrency comes from `asyncio` tasks
inside one command, from several commands of one user at once (shared files,
keychain), and above all from the instance, which runs jobs on its own.

`PROJECT.json` lists the parts with their status, and under `hazards` what is
hard to test in each, at the line where it bites.

## The models

| module | what it is |
|---|---|
| `AppManager` | the ServiceNow side of a plugin operation (external; from how the client, the executor and the tests use it) |
| `PluginExecutor` | the executor, its rollback, its poller and the client's request path |
| `Saga` | what `apply_plan` promises, without any of that |
| `MCPluginExecutor` | the small instances |
| `PluginExecutorProofs` | the theorems about the executor |
| `NaturalKeys` | the keys the next two share |
| `DependencyClosure` | `migrate/closure.py`: which items a migration plan needs, in which order |
| `WavePlanner` | `migrate/planner.py`: cycles and waves of those items |
| `MCDependencyClosure`, `MCWavePlanner` | the small instances |
| `PlannerProofs` | the theorems about both |
| `ConfigTransportProofs`, `InstanceCommandsProofs`, `UpdaterProofs` | the theorems about the transport with its assessments, about the commands of a profile, and about the updater |
| `ConfigTables` | the configuration of an instance and the three ways NEXUS reads it |
| `MigrationPlanning` | the commands of a migration, from the checklist to the recheck; extends `ConfigTables` |
| `Preflight` | `migrate preflight`, one more of those commands; extends `MigrationPlanning` |
| `MigrationProofs` | the theorems about both |
| `ConfigTransport` | capture pull, the archive, capture push, template apply |
| `Assessment` | rules, gates, `assess` over the archives, `apply` between its gates; extends `ConfigTransport` |
| `InstanceServer` | the OAuth applications and tokens of an instance (external) |
| `InstanceCommands` | the commands about one profile: registry, keychain, default; extends `InstanceServer` |
| `PluginInventories` | scans, stored inventories, baselines, promotion plans, advisories, deferrals |
| `FramedViewer` | the interactive list in the terminal |
| `PluginReports` | that list over an inventory that may be replaced, the impact of a removal, the evidence for the advice; extends both |
| `PluginReportsProofs` | the theorems about the three |
| `SchemaMaps` | the sync of two catalogs and the maps drawn with one of them |
| `SchemaMapsProofs` | the theorems about both |
| `Updater` | the auto-updater of several processes |
| `MCMigrationPlanning`, `MCConfigTransport`, `MCInstanceCommands`, `MCPluginInventories`, `MCSchemaMaps`, `MCUpdater` | the small instances |

### PluginExecutor

One caller runs one *program* on one executor: `apply_plan`, `batch_upgrade` or
a series of direct calls. The variables:

- `driver`, `plan`: the program. A plan is a sequence of requests (action,
  plugin, version, force).
- `phase`: before, in or after the forward part, in rollback, or ended in one of
  four ways (`returned`, `rejected` by pre-validation, `raised`, `interrupted`).
- `log`: the `OperationResult`s, forward ones and then rollback ones, as
  `OperationLog` has them. A result keeps its action, plugin, tracker and
  rollback version; `success` and `message` are one field, `why`.
- `undo`: how many completed operations `run_rollback` has still to undo.
- `call`: the operation in flight: at which await it stands, how many sends and
  polls it has made, its tracker.
- `byId`: the snapshot `_by_id`, reduced to which plugins it knows, which of
  them have source `servicenow`, and what they depend on.
- `sn`, `jobs` (from `AppManager`): what the instance holds and every job it
  accepted.
- `origin`: what instance and snapshot were at the start, for the properties.

An action is what the code does between two awaits. `LookupFails`, `RefuseBase`,
`GateBlocks` and `StartSubmit` are the early returns and the way past them;
`Accepted`, `RequestLost`, `ResponseLost`, `Unauthorized`, `Refused` are the
outcomes of `_request` and `_send_with_retry`; the `Poll...` actions are one
iteration of `ProgressPoller.poll`; the `Refresh...` actions are `_refresh_one`.
Every action that ends an operation goes through `Record`, which is the loop of
`apply_plan` (stop and turn around at the first failure), of `batch_upgrade` (go
on) and of `run_rollback` (go on to the operation before), or through `Raise`,
an exception no handler catches. `ServiceNow` steps finish jobs at any moment:
during the poll, after the poller gave up, or never.

What is abstracted: versions are numbers and "latest" is the largest; a message
is the reason it was written for; progress percentages, update set ids and
durations are left out; an "offering plugin" error is one of the refusals.
`fetch_dependencies`, the live half of the impact gate, may always report a
dependent; the local half is exact.

### Saga

Operations are completed in order, the first failure turns the run around, the
completed ones are undone last first, and the run is committed with everything
or compensated with nothing left, unless it is abandoned. `PluginExecutor` maps
`phase`, `undo` and the length of the log to its `mode` and `stack`.

### DependencyClosure

`build_closure` starts from the curated keys marked *include* and walks the
captured records of the source instance. A record is reduced to its natural key,
its scope, the sys_ids in its reference fields, whether a field refers to a
stop-listed table, and the record its co-capture link names. `queue`,
`processed`, `ordering_edges` and `findings` are the function's variables of
those names, `closure` its `items`; one action is one turn of its loop:

- `WalkRecord` takes a key, finds its record (the smallest sys_id when several
  share the key), adds the *undecided* targets and all co-captured detail rows,
  queues those that are new, and adds edges and findings;
- `WalkUncaptured` is the turn for a key that no record has;
- `Finish` compares the access postures and returns.

The code's queue is a deque; here it is a set and any member may come next. The
order of the deque comes from the order of the instance's answers and of the
schema's edges, so the properties hold for every such order. A finding keeps its
kind, its subject and what it is about; fields and wording are left out. sys_ids
are unique, as ServiceNow makes them.

### WavePlanner

`_compute_layout` runs Tarjan's search and a Kahn peeling; both are modelled step
by step. `NextRoot`, `TreeEdge`, `SeenEdge` and `Return` are the branches of
`_tarjan_sccs`; a frame of its explicit stack keeps the neighbours not yet
looked at, which the code keeps as a position in a sorted tuple. `Condense`
builds the dependencies between components, `Peel` is a round of
`_layer_condensation`, `Layout` assigns the waves and the cycle findings. It
requires that no component is left: with one left the lookup `layer[scc_id]`
raises `KeyError`, and the model stops short of `done`, which
`PlannerTerminates` would show.

The reference definitions know nothing of stacks and rounds: `Reaches` says that
a key is in every edge-closed set that holds the other, and `ClassOf` is mutual
reachability.

The two meet where `run_plan` (`cli/commands_migrate.py`) hands the closure's items and edges to
`build_waves`: the planner silently skips an edge to a key that is not an item,
and `EdgesWithinPlan` says the closure never makes one (`Handover` in `PlannerProofs`:
what the closure returns is an argument the waves are proved for).

### ConfigTables and MigrationPlanning

An instance is a function from sys_ids to rows with a fingerprint
(`sys_updated_on`) and whether a customer updated it. `Discovered`, `Listed` and
`Captured` are the three readers: scope discovery, the lightweight listing behind
the checklist and the recheck, and the capture of what a selection names. They
differ in what they cover, and a count that fails makes the first, and with it
the others, cover less: `ScopeDiscoverer.discover` logs and skips it.

`MigrationPlanning` runs one command at a time (`cmd`, with its program counter
and what it has read) on four files: `checklist`, `selection`, `plan`, `runbook`.
Each read of one instance is an action, each written file another, and `Abort`
ends a command between any two. `run_plan` is `ReadSelection`, `CaptureSource`,
`CaptureTarget`, `BaselineSource`, `BaselineTarget`, `WritePlan` or `RefusePlan`,
`WriteRunbook`, in that order; `run_recheck` is `ReadPlan`, `ListSource`,
`ListTarget`, `ReportNoDrift` or `ReportDrift`. A human edits the selection
(`Curate`) and marks the plan (`MarkPlan`: a waiver, a waiver the author approved
himself, an approval). The closure appears as the least closed set, which is what
`DependencyClosure` proves it to be; the only blocking finding is a reference
to an excluded item, which stands for data prerequisites too, since
`validate_approval` treats both alike. Waves do not appear: a runbook shows them and
nothing decides by them.

### Preflight

`run_preflight` asks the old instance and then the new one, three requests each
(`Probe`, in the order of `Requests`); the fourth row of each side, the authentication
mode, comes from the registry before. `Status` is the mapping of an answer, which
differs by row: a 403 fails the plugin and the App Repository but says nothing of
the role. No answer, a 401, a 404 and a malformed body are alike. Between two
requests an administrator may change what the account reads (`Regrant`). The
command shares `cmd` with the others, so `Abort` kills it as well; it writes nothing.

### ConfigTransport

Processes run programs of pulls, pushes and applies. A pull goes through its
scope/table pairs, page by page (`FetchPage`), each table followed by one query for
the related rows of the roots it found; `TableUnavailable` is the HTTP 400 or 404
that ends a table quietly, on any page. Then it writes one file per row, roots
first, and the manifest last, into the directory of the second. A push loads an
archive (`LoadArchive`), looks an update set up by name, creates it if there is
none, and injects all records at once; `InjectFails` is the first failure that
`gather` raises, `Straggle` the others that go on. An apply creates a set of its
own, hands only its *name* to the writer, and logs the set it created.
`RequestFails` is any other failed request, whose effect on the target may have
happened; a request whose answer is lost has taken effect by then or never will.
`Crash` ends a process, inside a file or between two.

Pages of sets and rows stand for what they contain; the payload is left out, and
two rows the pagination returns twice are one file. `record_count` in the manifest
is never compared with anything, in the code or here. A pull is known by its process
and what that has left to do (`ThisPull`), for the history `writers` only; the name of a set is
what the user typed, or the template and the second, and the two never meet
(`Names`).

### Assessment

A rule has a phase, a severity, a scope (one table, or all), required tables and
constraints that all or one of which must pass. `Evaluate`, `Verdict` and the three
gates (`Gate`) are those of `assessment/`; what a rule is about that was not captured
is an ERROR. `Assess` is `nexus assess`: it takes the archive that was named or the
one whose manifest is newest (`Resolved`), which another process may be writing,
and ends with the exit code of `AssessCode`. `Gate1`, the engine's steps of
`ConfigTransport` and `Gate2` are `nexus apply`. In production the live capture,
the loader of job logs and the engine are stubs that raise `NotImplementedError`
(`wired`, `live`); the tests inject them, and so does the model. An update set in
progress changes no table: what the gates see change, others have changed.
`verdicts` keeps what each command said, with the rows that were there when the
judged archive was begun (`truth`, lost when a row came or went during the pull) and
the tables of which it has some rows and not all (`torn`).

### InstanceServer and InstanceCommands

One profile as two shells see it. The state is `meta` (absent, a directory without
the file, torn, or whole with application and expiry), `inventory`, the three
keychain entries `keys`, the `default`, the instance `sn`, a `clock`, and where
each process stands with the copy of `meta` it once loaded. Each action ends at
the next effect that others can see: `Truncate` and `WriteText` are the two halves
of `write_text`; `StoreSecret`, `StoreAccess`, `StoreRefresh` the three entries of
`_store_tokens`; `DeleteSecret`, ... `RemoveFiles`, `RemoveDir`, `ReadDefault`,
`WriteDefault` the steps of a delete. `provision_oauth` is `FindApp`, `Rotate`,
`PickApp`, `PostApp`, `ByHand`. Time is in ticks; a command may take `Skew` ticks
from reading the clock to its last write, except while it waits for the user.
Access tokens are the application and the moment they run out; the server may
refuse any grant. Tokens the server revokes before they run out are not here: see
`Unauthorized` in `PluginExecutor` for the 401 and what follows it.

### PluginInventories

`live` is what two instances hold; `stored`, `baselines`, `plan`, `overrides` are
the files. A scan reads `v_plugin`, `sys_store_app` and the app manager in any
order (`ReadTable`), each at its own moment and each possibly refused; `Merge` is
the order of precedence of `PluginScanner.scan`, `RowOf` what each table says of a
plugin (an app that only the app manager lists is always "active", and not listed
at all without an update). `PlanOf`, `Drift`, `Pending`, `Orphans`,
`Deferred` are the functions behind `promote`, `drift`, `outdated`, `orphans`,
`advisories`. `StartApply`, `ApplyStep`, `ApplyFails`, `ApplyDone` execute a plan
as `PluginExecutor` does it in detail; only a success is followed by a rescan.
`known`, `acked`, `granted`, `clash`, `round` record what the files should amount to.
`CheckEol`, `CheckCves` and `CheckLicense` are the three advisory checks.

### FramedViewer and PluginReports

`view` is the widget: the rows and details it was given, the visible ones, the query
applied last, the filter's text, the sort order, the focus, a modal. Keys and clicks
act at once; that the filter's text changed arrives later, as Textual's message, in
order (`pending`, `FilterChanged`), even behind a modal. `RefreshView` reads the stored
inventory again, which a scan of the same user may have replaced since.

`impact` is one run of `compute_impact`: the breadth-first walk over the stored
inventory (`Walk`), then the tables of the target's scope (`TargetTables`), the fields
that lead into them (`InboundRefs`), a count for each (`CountRef`), and the counts of
the scope (`CountScope`, or the stored ones). Each request is a step; it may fail,
which makes that half unavailable, or be answered 202, which ends the command.
`RoadmapContext` and `DeactivationContext` are the evidence the language model gets.

### SchemaMaps

Two processes run `nexus sync`: `BeginSync` checks the repository's name,
`FetchManifest`, `SaveManifest`, `FetchCatalog`, `SaveCatalog` are its steps; a save is
a temporary file (`WriteTemp`, `DiskRefuses`) and a rename (`Renamed`), and a process
may be killed in between. A file is the version that was published. The manifest is
fetched under the repository's canonical name, the catalog under the configured one: a name
with white space around it that no URL may hold (`tabbed`) ends the second fetch with
`httpx.InvalidURL`, which is caught nowhere.

`erd` is one `nexus schema erd` after another: `BeginErd` takes an area from the cached
or the bundled catalog (several products are combined), then come the requests for
scopes, tables, their parents, fields in batches, relationships, each of an instance
that may have changed. `BuildGraph` assembles tables, columns, references and inheritance,
`Bridge` narrows them to the targets and what is next to them. `SaveArchive`,
`OpenArchive`, `WriteErd`, `RenderImage` are the files.

The document is its diagrams, bridges and list of fields. `EntityBlocks` is the rule "no
attributes, no block" (`schema/erd.py:63-76`): columns named `sys_*` other than `sys_id` are
hidden (`Attributes`), references among them too, and a table with no other column has no
box. It appears under its name where an edge leads from it or to it; without an edge it is
not drawn (`tests/schema/test_schema_erd.py:220-223`, `256-278`), but `Fields` lists it.
A column is therefore of one of three `Kinds`, and a reference may be an audit column. Names
stand for sys_ids; the text of a diagram is left out, the boxes and edges it has are not.

### Updater

Processes start with `check_and_maybe_update`: `Begin` reads the installed
version, `ShouldCheck` the marker, then lock, fetch, marker, download, pip, exec.
pip is a process of its own that outlives its parent (`PipRemoves`, `PipSucceeds`,
`PipFails`); `installed` is 0 in between. `execv` closes the lock file, so `ReExec` frees
the lock; the new program begins again. `update` runs the same function a second
time. The environment publishes and withdraws releases, whose wheel may be of
another version than the tag, fills the disk once, kills a process, lets a day pass.

## The runs

| run | asks | result |
|---|---|---|
| `apply_plan` | four plans (a full install-activate-upgrade, two that do not fit the instance, one that upgrades twice) on two snapshots and two instances | all properties hold, 298 497 states |
| `direct_calls` | five series of direct calls, a batch and a plan on one executor, with one retry per request | all properties hold, about 500 000 states |
| `duplicate_write` | can one operation start two jobs? | yes: finding |
| `rollback_aborts` | can an exception leave a rollback half done? | yes: finding |
| `closure` | every selection over every capture of a small family, walked in every order | all properties hold, 146 272 states |
| `waves` | every graph on four keys, and small ones with self loops and unknown keys | all properties hold, 74 136 states |
| `migration` | from the checklist to the recheck, with a changing instance, failed counts, aborts, marks; preflights | all properties hold, 1 558 559 states |
| `transport` | pulls, pushes, applies and assessments of two processes, with faults and crashes | all properties hold, 283 025 states |
| `profiles` | two shells on one profile, with a clock and crashes | all properties hold, 871 499 states |
| `inventory` | scans, what is computed from them and how it is shown | all properties hold, 460 212 states |
| `schema` | syncs by two shells, maps of a changing instance | all properties hold, 67 182 states |
| `updater` | two or three processes on the day of a release | all properties hold, 65 599 states |

A type invariant is a property of the runs only where the proofs need it. The
`TypeOK` of `InstanceCommands`, `Updater`, `ConfigTransport` and `MigrationPlanning` holds in the
same configurations, and is there for the proofs; so does that of `PluginInventories`, checked
with its unions of function sets spelt out, which TLC would have to enumerate.

### Plugin execution

- `ResultsInOrder`: each result answers the request that was due at its place.
- `JobsAreWanted`: ServiceNow is never asked for anything the program does not
  want at that place, whatever was lost and sent again.
- `ResultsMatchJobs`: a result that names a tracker tells the truth about that
  tracker's job.
- `ValidatedIdsStayKnown`: validating the ids once, at the start, is enough.
- `InformedRollbackRestores`: a failed plan leaves the instance as it found it
  *provided* the plan fitted the instance and the run was told everything. The
  premises are the point: without any one of them (a timeout, a lost response,
  an upgrade that reports no version, a no-op counted as success) the instance
  can end up different, and TLC shows how.
- `BaseNeverUninstalled`, `UnforcedRemovalSparesDependents`: over series of
  calls, forced and not, with installs in between. The second has an exception
  the code makes necessary: a plugin the same executor has reinstalled loses its
  dependencies in `_refresh_one`, and the gate no longer sees them.
- `BatchNeverRaises`: nothing the network or the instance does ends a batch.
  (The disk can: the progress driver writes the ETA store outside every handler.
  That driver is not in this model; the hazard is listed.)
- `Termination`, `ImplementsSaga`.

**Bounds.** Two plugins, one a base plugin the other depends on, and two
versions are enough for every gate to open and to close and for an upgrade to
differ from its inverse. Plans have up to three actions, so that a failure has
zero, one or two predecessors to undo. `MaxPolls = 1` lets a job finish before,
during and after the poll. `MaxAttempts` (`_MAX_RETRIES`, 3 in the code) is 1 in
`apply_plan` and 2 in `direct_calls`: a retry is a retry from the second attempt
on, and each attempt may leave a job behind, which multiplies the states.
`RefreshCallback` is TRUE in one run and FALSE in the other, as the commands
differ. `JobsAreWanted` and `ResultsMatchJobs` are checked in `apply_plan`; the
other run asks what only series of calls can break. Deadlock is not checked: the program ends.

**Fairness.** Weak fairness of `Progress`: the event loop runs a coroutine that
is due, an HTTP request returns or times out after 30 seconds, a poll sleeps
three seconds. Nothing is assumed of the instance (`ServiceNow` has no
fairness: a job may stay pending for ever) and no fault is required to happen.
`Termination` therefore rests on the poller's limit and on the counted retries.

### Migration planner

- `ClosureIsLeast`: whatever the order of the walk, the plan is the least closed
  set of keys that holds the included ones: nothing missing, nothing extra.
- `EdgesWithinPlan`: every ordering edge joins two items of the plan.
- `ReferencesAreAccounted`: a reference of an item of the plan is an ordering
  edge to another item, or there is a finding on it, or its target is not
  curated. A record that lost a key collision is never walked; its collision
  finding is all there is of it.
- `ExcludedOnlyAsDetail`: an excluded key in the plan is a detail row that
  co-capture brought in, and is ordered after its parent. The tests state that
  co-capture overrides the disposition; the property says nothing else does.
- `SccsAreClasses`: each component is right when it is emitted, not only at the
  end.
- `WavesRespectEdges`, `WavesAreEarliest`: an item comes after what it depends
  on, in the first wave that allows it; a cycle shares a wave.
- `CyclesAreReported`: one finding per cycle and per self reference, no others.
- `ClosureTerminates`, `PlannerTerminates`.

**Bounds.** `waves` lays out all 4096 graphs on four keys without self loops
(two cycles that touch, a cycle with a tail, a diamond all need at most four),
all 512 graphs on three keys with self loops, and two-item plans whose edges name
a third key. `closure` has four keys and four records: two records that share a
key, a record in a second scope that may be a detail row of any other, a
sys_id nobody captured, a use-case key without record; each reference set, link,
disposition and grant varies. A chain of two added items, a circle, and a key
reached both by reference and by co-capture all occur.

**Fairness.** Weak fairness of the next-state relation: both are pure functions,
called synchronously, that run to their return. Deadlock is not checked because
they do return.

### The life of a plan

- `ChecksAreTrue` is two statements. `NoDriftMeansUnchanged`: when a recheck reports no drift, no customer-updated
  artifact outside the vendors' scopes was added, removed or updated on either
  instance since the plan's *baseline*, provided no count failed in either
  listing. Without the proviso it is false: a table that could not be counted is
  missing from a listing as if it were empty.
- `RunbookIsHonest`: aborts between the two files, a plan made anew, and rechecks
  that rewrite the runbook never leave one that shows a mark nobody made for its
  plan, a waiver its author approved, or no obstacle where one remains. A runbook
  of an *earlier* plan beside a newer plan file is possible and allowed for.
- The other half of `ChecksAreTrue`, `PreflightIsTrue`: a row that passes was met by its
  own instance at some moment of the preflight, a row that fails was not met
  all that while, and no row fails on evidence about something else. Nothing makes
  the rows of one report true of one moment.

**Bounds.** Two rows that share a natural key (as access controls do), one row of
the global scope they refer to, two tables. One change of an instance at any
moment, one failed count, two plans, three marks: each at a time of its own, in
five worlds, because their product says nothing more. Preflights run in four worlds of
their own, twice, with one change of the rights between any two requests.

### Configuration transport

- `ArchiveIsWhole`: an archive with a manifest, written by one pull, holds every row
  that was there during the whole pull. Insertions are harmless; a deletion is not,
  and is an exception: it moves a later row to a page already read. So are two pulls in
  one second, and the rows a query had not reached when it was answered 400 or 404.
- `OneSetPerName`: two sets in progress of one name mean that two commands looked
  that name up at the same time. A push that died after its POST is continued.
- `ReportedSetHoldsAll`: a reported success is true of the set it names.
- `VerdictIsEarned`: exit 0 of `assess` means that every rule whose failure counts holds of
  the *rows that were there when the pull began*, although the archive was read while
  another process wrote it, or was left by one that died, or lacks a table that was
  refused. Excepted are a pull during which rows came or went and a directory two pulls
  wrote; and rules that look at a table they do not require, or at one that broke off
  between two pages or in one of several scopes (see the findings). Exit 0 of `apply` means that both gates
  held, before and after, except where `--force` or `--skip-gate2` says otherwise. A
  pull that was cut off never satisfies a rule: the manifest comes last, and a rule
  about a table that is missing is an ERROR.

**Bounds.** Six rules in three rulesets use every constraint, both logics and both kinds
of scope; each gate gives every verdict it can give. Pages of two: three rows of one table make a full page and a short one,
and after an insertion or a deletion two full ones or exactly one. Two pushes or applies at once,
one or two lost answers, one crash, one second to pass. One table is read in two scopes.

### Profiles

- `HandedTokenIsLive`: the early return of `get_bearer_token` hands out a live
  token although the expiry it looks at was loaded from a file before, and the token is
  read from the keychain after. It rests on the buffer: two commands may
  write each other's token and expiry, which differ by at most the time a command
  takes on either side, so the buffer must be twice that. With `Buffer = 1` and
  `Skew = 1` TLC finds the violation; the code has five minutes, the
  requests time out after thirty seconds.
- `SecretIsCurrent`: no register, setup or delete, whatever it died in the middle of,
  leaves a secret the instance no longer takes, unless two of them overlapped or
  another machine registered the same name.
- `DeletedIsGone`: the last of several deletes leaves nothing.

**Bounds.** Two processes with up to three commands in all, one crash, one foreign
registration, tokens of three ticks, a clock up to four: a token can run out before,
during and after a command of the other shell.

### Inventories

- `PromotionConverges`: plan, apply and rescan, twice without a change in between,
  and nothing that can be promoted is left. One round is not enough: an inactive
  plugin of an older version is upgraded by the first and activated by the second.
  An app that only the app manager lists is excepted; it never converges.
- `ReportsAreTrue`: "no drift", "up to date", "orphan" and "deferred" follow from
  what the instance held, provided the scans were whole and the instance did
  not change while they read (`ReportsAreEarned`); a scan that a table refused is stored
  like any other. The impact of a plugin lists each dependent once, nearest first, by a
  shortest chain, and shows "no references" or "no records" only where that was
  asked and answered (`ImpactIsTrue`). "Nothing to remediate" and "nothing to
  recommend" are true as far as records were counted (`AdviceIsEarned`).
- `ViewIsTrue`: in no order of keys, messages, sorts and reloads does a row open the
  detail of another, or the list lack a row that matches the query applied last.

**Bounds.** One plugin in every state on either side beside one that depends on
it; one that the app manager alone lists; four scans, one fault, one change, four edits.

### Schema maps

- `SyncsAreHonest`: a kill, a full disk or a refused request never leaves a cached
  catalog torn or unpublished, and only overlapping syncs replace one by an older; exit 0 means that
  the manifest was replaced, exit 1 that nothing was, but for a `tabbed` name.
- `MapsAreTrue`: a map holds exactly the tables, columns and references of its area, narrowed
  to the targets, if the instance did not change while it was read; whatever changed, no
  reference leads nowhere. Its document lists every table, and its diagrams together draw
  each edge once and one box for each table listed with a column other than audit columns,
  and for no other.

**Bounds.** Four tables in two scopes of the application and the global one, six states
of the dictionary between which it may change once, batches of two; three versions
of the catalog, two of which know or lack a product; two syncs, one kill, one full disk.

### Updates

- `InstallsExclusive`: one pip at a time, unless a process that waits for its pip
  was killed: the kernel gives its lock away and its pip goes on. The lock is held
  exactly between taking and releasing it, by the process that is there.
- `VersionNeverFalls`: nobody installs over a newer version on the strength of a
  comparison made before the lock was taken, because the release is fetched under
  the lock and only grows, unless it is withdrawn.
- `EveryCommandEnds`: the marker is touched before anything can go wrong, so a
  wheel of the wrong version is installed at most once a day and not for ever.

**Fairness.** Weak fairness of each process's step and of pip: the scheduler
runs both, requests to GitHub time out. `subprocess.run` waits for pip without a
limit, so that pip ends is an assumption. Kills, full disks, releases and the
clock have no fairness.

### Findings

Two comments or texts promise more than the code does; they are in
`PROJECT.json` with the lines quoted: a lost response of a job-starting GET is
sent again (`duplicate_write`), and a rollback can be aborted (`rollback_aborts`).

Other differences met while modelling, which no run shows:

- The validity notice of a runbook (`migrate/runbook.py:59-64`) says to run `--recheck`
  "to confirm neither instance has drifted since these captures were taken". The
  baseline a recheck compares with is listed *after* the captures
  (`cli/commands_migrate.py:250-252`): a row that changes in between is old in
  the plan, new in the baseline, and no drift is reported.
- A passing `sn-cicd-role` row means that `sys_user_role` can be read; no role is looked
  for. An unreadable `v_plugin` fails, though it tells as little of the plugin as an
  unreadable role table tells of the role, which is why that one does not.
- The placeholder rule of `apply` is there "so an empty ruleset still evaluates to PASS"
  (`cli/commands_apply.py:224`), but requires records of `sys_scope`, which a capture of
  the AI tables has none of. `assess --for` with no rule of its phase does pass.
- A table that answers 404 to a later page keeps the rows read so far
  (`capture/fetcher.py:200-209`, whose docstring says that it returns none), and nothing in
  the archive tells. A rule that the table hold at most some number of records passes, and it
  requires the table, which "prevents silent false-PASS verdicts when capture is incomplete"
  (`assessment/schemas/rule.py:6-9`). `VerdictIsEarned` excepts such tables (`torn`).
- A table that was captured and is empty counts as not captured: a rule that a table
  hold *at most* some number is an ERROR when it holds none.
- `assess` takes the newest manifest of any instance; a manifest cut off by a crash is the
  newest and makes it fail until it is removed. The reader skips record files
  that do not parse, and never looks at `record_count`. Gate 2 does not look at
  the records the engine reports FAILED. The table of a constraint is ignored under a
  cross-table scope.
- `compute_impact` announces `counts_available=False` on failure; an HTTP 202 while the
  counts are computed raises `ScopeRecordCountPending`, which is no
  `ScopeRecordCountError` (`plugins/impact.py:436-444`) and ends the command. The
  references from "other scopes" may include the target's own. `orphans` refuses
  an inventory without counts; `roadmap` and `recommend` say that there is nothing
  to do, and take deferred findings for open ones.
- In the list, clearing the filter loses the sort order, and a refresh shows all rows
  while the filter's text stays.
- `SchemaSync.run` says that its repository was "already validated by caller";
  `_sync_schema_catalog` hands it the configured text unchanged. That one "never raises",
  and a failed catalog "never causes a non-zero exit" (`cli/commands_sync.py:101-102`, `139`), but
  `httpx.InvalidURL` is no `httpx.HTTPError` (`schema/sync.py:104`): a name followed by a tab is
  stripped for the manifest, which is replaced, and then ends the command. `ReportsAreTrue`
  excepts this case. The relationships of a graph are read and saved but never drawn.
- `nexus update` is described as a forced check (`cli/commands_top.py:101-107`,
  `src/README.md:160`). The callback runs first and touches the marker, and the
  command calls the same function, which then finds nothing due.
- `check_and_maybe_update` "logs and continues on any failure"; an `OSError` of
  the marker, the lock file or the wheel's file is not caught.
- `PluginScanner.scan` raises "when both source tables return non-200", but only
  if the app manager lists nothing either.
- The replatform listing must raise "so a partial listing is never shown as
  complete"; the discovery before it swallows failed counts (`capture/scope.py:97`).
- A recheck without drift leaves an earlier STALE banner in the runbook. A plan is
  refused when the target holds none of the selected artifacts. `migrate select`
  overwrites a curated selection.
- An apply log calls every record REQUESTED except the one that failed, sent or
  not; an error other than `UpdateSetError` leaves a set without a log.
- `provision_oauth` "never accumulates duplicate records on retry"; it does when
  the lookup or the rotation fails. `register` says "delete it first" of a profile
  whose `meta.json` is torn, which `delete` cannot load.
- `_row_to_record` takes a `sys_id` only as a string while the fetcher asks for
  value and display value of every field; the model assumes the string.
- Two `defer` at once lose one. Rescans without counts drop the stored counts.

## The proofs

Eight modules hold the theorems: the executor, the planner, the migration commands, the
transport, the commands of a profile, the plugin inventories with what is read off them,
catalogs and maps, and the updater. Every invariant of a passing run is a theorem; the
inductive invariants behind them were checked by TLC on the instances of the runs before
they were proved. What is model-checked only is liveness, named below where it arises.

### Plugin execution

`PluginExecutorProofs` proves, for every set of programs, snapshots and
instances and every bound (assumptions `ProgramsAssumption`,
`SnapshotsAssumption`, `InstancesAssumption`, `BoundsAssumption`,
`MaxVersionAssumption`, which TLC evaluates in every run):

- `TypeCorrect`: `Spec => []TypeOK`;
- `InOrder`: `Spec => []ResultsInOrder`;
- `BatchSafe`: `Spec => []BatchNeverRaises`;
- `OnlyWantedJobs`, `TrackedTruth`, `ValidationSuffices`, `BaseStays`, `GateHolds`:
  `JobsAreWanted`, `ResultsMatchJobs`, `ValidatedIdsStayKnown`, `BaseNeverUninstalled` and
  `UnforcedRemovalSparesDependents`;
- `RollbackRestores`: `Spec => []InformedRollbackRestores`;
- `PlanIsSaga`: `Spec => ImplementsSaga`.

`ResultsInOrder` is not inductive: it does not say that `undo` and the length of
the log move together, nor that everything before the failure succeeded. The
invariant `IInv` says a run has one of two shapes. It is *ahead*: nothing to
undo, each result answers the plan at its place, and an applied plan has only
successes. Or it has *turned* at some action f: the results up to f answer the
plan, exactly the f-th failed, `Len(log) + undo = 2f - 1`, and the k-th result
after that undoes the (2f-k)-th. `GotoInv`, `EndInv` and `RecordInv` prove the
step for the three ways an action can end; `NextInv` has one case per action
that cites one of them. `BatchGoesOn` adds that a batch never waits for a
refreshed row, because it only upgrades.

`SafeInv` adds what the requests rest on:

- `Known`: the snapshot knows the plugin of the operation under way and of every result
  but those refused as unknown, and while an applied plan runs, every plugin the
  validation looked for. A rollback step therefore finds its plugin: the result it
  undoes was a success.
- `Told`: the tracker at hand is that of a job for the operation under way, and a
  row is only re-read after an install whose job succeeded. What a finished job
  said never changes (`JobsFinish`), so a result stays true.
- `JobsAreWanted` itself: the operation under way is the one wanted next (`OpWanted`), and
  a new result does not change what was wanted before it (`WantedStays`), a failure included.
- `Cleared`: an operation that is being sent has passed the gates on the snapshot as it
  still is, because `byId` changes only when an operation ends; the snapshot never
  loses a plugin or a base mark, and the dependencies only of plugins installed since.

`NextWays` shows once that every action is one of four kinds of step (a result, a
step of the operation under way, the program's own, the instance's), and each
part is proved per kind. The refinement uses the same four kinds: only results
and the program's steps are seen by the saga, and the two shapes say which of its
actions each one is.

`RollbackRestores` follows the instance through every operation and its inverse.
`InformedSoFar` is `Informed` before the end: a job is the one its result tracked or the
one the call tracks now. It can only be lost (`InformedBefore`: a job the call no longer
tracks is never tracked again), so what follows from it may assume it held all along. It
leaves one job that can still finish, that of the operation in progress (`Settled`,
`OnlyOwnJob`). `Recovering` then says that beyond the actions that have had their effect
(`Landed` counts the one in progress) the instance is as it was found: the version of a
plugin none of them installs or upgrades, and whether one none of them activates is active
(`KeptBeyond`); and that the first upgrade of a plugin nothing installs before it remembers
the version found (`Remembers`). Claims about a plugin that several actions touch are given
up at the first and come back at its inverse, so a plan may return to a plugin as often as it
likes. `PlanFits` is used exactly at the inverses: `uninstall` restores what was absent,
`deactivate` what was inactive (`BackwardLands`). With nothing left to undo, `KeptBeyond(0)`
is the whole instance.

Model-checked only: `Termination` (liveness).

### Migration planner

`PlannerProofs` proves of the closure, for every set of keys, every selection, every
capture and every order of the walk (`SysIdsAssumption`, `TablesAssumption`,
`ArgumentsAssumption`): `ClosureTypeCorrect`, `Closure` (`ClosureIsLeast`), `EdgesWithin`
(`EdgesWithinPlan`), `Accounted` (`ReferencesAreAccounted`) and `ExcludesHold`
(`ExcludedOnlyAsDetail`). The invariant adds that what a walked
key brings in is in the plan (`Walked`), and that every closed set with the
included keys holds the plan so far (`Least`); when the queue is empty every item
is walked and the plan is closed itself. A key has one winner (`OneWinner`), so
walking it once is enough. `Recorded` keeps the edges and findings of every walked
winner and all the collisions: a record of an item that is not the winner is one of
a collision, and any other has each of its references in an edge or a finding.

Of the waves it proves, for every set of keys and every graph
(`KeysAssumption`, `InputsAssumption`): `TypeCorrect` and all four safety properties,
`RespectEdges` (`WavesRespectEdges`), `ComponentsAreClasses` (`SccsAreClasses`: the
correctness of Tarjan's search), `EarliestWaves` (`WavesAreEarliest`) and
`ReportedCycles` (`CyclesAreReported`). There are three invariants, each on top of the
one before. `IInv` says how the search and the peeling are laid out:

- `StackInv`: the stack is in order of discovery, and no low link of a key on it
  is below the index of the bottom key;
- `WorkInv`: the frames are keys of the stack in the same order, from the bottom
  on;
- `PartitionInv`: a discovered key is on the stack or in exactly one component;
- `LayerInv`: a component with a layer is above all those it depends on, and one
  without waits for exactly those that have none either.

When the search is over no frame is left, hence no key on the stack (the bottom
frame is the bottom of the stack and its low link can only be its own index), and
the components partition the items. `WavesRespectEdges` needs no more than that: it
does not matter to it whether the components are the right ones.

`SearchInv` says why they are:

- `EdgesInv`: an edge of a discovered key is still pending in a frame or leads to a
  discovered key, and no edge leaves the emitted components;
- `PathsInv`: the key of a frame reaches all that lies above it on the stack, and each
  key of the stack reaches the key of a frame at or below it;
- `LowInv`: the low link of a frame is the index of a key of the stack that its key
  reaches, and no followed edge from the frame's segment of the stack into the stack
  leads below it;
- `ClassInv`: the emitted components are classes.

When a root is popped, what lies above it reaches the root over a frame and is reached
by it (`PathsInv`), and together with the emitted components it is closed under the
edges (`PoppedClosed`, from the second half of `LowInv`), so what it reaches is popped
or emitted, and the emitted reach nothing that is not (`PoppedIsClass`). When a frame
returns without being a root its low link names a key in a caller's segment, which is
what joins its segment to the caller's (`KeepSearch`). `Reaches` is defined by closed
sets, so none of this needs an induction along paths.

`LayoutInv` adds that components are finite, that a layered component depends on one
in the layer just before it, and that one that could go into the next layer depends on
one in the last: nobody waits a round for nothing.

Model-checked only: both terminations (liveness).

### The life of a plan

`MigrationProofs` proves, for any tables, keys, scopes, references, starting worlds and
bounds (`KeysAssumption`, `ScopesAssumption`, `FiniteAssumption`, `WorldsAssumption`,
and that `NoFile` is none of the files): `TypeCorrect`, `ChecksTell` (`ChecksAreTrue`) and
`RunbooksAreHonest` (`RunbookIsHonest`), of the specification with the preflight.

- *Listings.* A fingerprint is the number of the edit that made it
  (`StampsArePast`), so what an instance holds later was there before or is younger
  (`Became`). A listing in which no count failed is of one moment of the past
  (`ListedAt`), and stays so while others edit. `SameListings` does the rest: if no
  key has another multiset of fingerprints, then every row of the second listing is
  one of the first, unchanged; it was listed then, because the row that made its scope a
  customer's was there as well; and as the multisets are equally large, the
  listings are equal (`FS_Subset`). `Tells` carries that to the end of the recheck. The
  proof needs fingerprints that grow: `sys_updated_on` of two updates of a row within one
  second would be equal, which the model leaves out and the recheck cannot see.
- *Marks.* A command holds a copy of the plan of the file, with fewer marks at most
  (`CmdOK`, `MarksAreGiven`); a runbook is rendered from such a copy.
- *Preflight.* `Probed`: what is met at the moment is in `ever`, what was met throughout
  is met at the moment, and each row was true of the moment of its request.

### Configuration transport

`ConfigTransportProofs` proves, for every number of processes, every source, page size,
program, template and every archive to start with (`RowsAssumption`, `StepsAssumption`,
`ParentsAssumption`, `WorldsAssumption` and the bounds' assumptions), of the specification that
has the assessments too: `TypeCorrect`, `AcceptedArchivesAreWhole`
(`ArchiveIsWhole`), `SetsAreShared` (`OneSetPerName`) and `ReportsHold`
(`ReportedSetHoldsAll`). The invariant has three parts beside the types.

- *Placed* (`Fits`): what a process has at each place of its command.
- *Update sets* (`SetsInv`): a process about to create a set for a name nobody else went
  for is alone (`Alone`) and finds no open one; an apply has its name, which
  carries the second, for itself (`Unshared`), and no set of that name before it
  makes one (`Fresh`); what was taken from the records pending is in the set (`Sent`).
- *Archives* (`ArchiveInv`): a pull under way owes rows that are still there, with
  their parents. Those of earlier queries are read (`Behind`); a row the query
  asks for is on a page already read, or its rank among the rows that match *now* is
  at or after the offset (`Reading`). An insertion only raises ranks; a deletion lowers those of its
  step, which are no longer owed. A page that is not full reaches the
  end (`LastPage`: the ranks of a finite set are all numbers below its
  cardinality, proved by `RankOnto` from `RankGrows`). Then everything owed is read, and what
  is read and not pending is in the directory (`Written`), if no other pull wrote
  there. `Over` says that a manifest's pull is finished: the pull's
  number is the length of what its process has left to do, which only falls.

`VerdictsAreEarned` (`VerdictIsEarned`) needs two more invariants. A verdict compares the
archive with the instance at the time of the pull through every constraint of every rule,
so it needs the rows that are *not* there as well as those that are.

- `TruthInv`: while a pull's `truth` is not lost, the instance is as it was at its
  beginning, and what it has read, owes and writes is part of that (`Known`); an archive has
  as its truth that of its writer (`WritersKnown`) and holds nothing else (`ArchivesTrue`).
  With `ArchiveInv`, such an archive lacks exactly rows that are not owed, which are those a
  query had not reached.
- `VerdictInv`: an apply on its way through its engine was let through by Gate 1 on the
  capture it carries (`Cleared`), and one at Gate 2 has its log (`GatesTrue`).

`AssessEarns` then goes from a verdict to the rule: a PASS leaves no failing rule that counts
(`PassExits`, `GateHolds`), a table the rule requires and the archive names is either torn
or as it was (`SameRecords`), and rules of one scope see only the records of that scope.
A table may be torn without having broken off between two pages: it is read once in each
scope, and one of the scopes may refuse.

It is assumed of `Worlds` that an archive which is there at the start was written by none
of these processes and holds nothing that its truth did not.

### Profiles

`InstanceCommandsProofs` proves, for any number of processes and applications, every
set of programs, lifetimes and bounds: `TypeCorrect`, `SecretStaysCurrent`
(`SecretIsCurrent`), `DeleteIsComplete` (`DeletedIsGone`) and `HandedTokensLive`
(`HandedTokenIsLive`). It assumes that a registered profile starts with the secret
of its application and an expiry within a lifetime (`WorldsAssumption`), and
`2 * Skew <= Buffer` (`BufferAssumption`): `_REFRESH_BUFFER` is five minutes, a grant
times out after thirty seconds. The invariant `IInv` says, beside the types:

- `Fits`: a place belongs to certain commands and grants; `Known`: the application a
  process holds exists, since nobody deletes one.
- `Timely`, `MetaTimely`: a token expires a lifetime after its grant. Whoever counts it
  from before the request, or from after its storage, is off by at most `Skew`; two
  commands may store the token of one and the expiry of the other, so any expiry somebody
  goes by, in a file or in memory, is at most `2 * Skew` past the stored token's. Hence
  the buffer (`BufferCovers`).
- `Apart`: if no command that founds or ends the profile overlapped with another, such a
  command is alone. It is why the steps of a delete find what the earlier steps left
  (`Clears`), so that a completed one leaves nothing (`Gone`); and why a registration that
  looks for an application still finds no directory (`Founds`).
- `Shares`, `OneApp`: all processes that use the profile use the application in
  `meta.json`, and the stored secret, if there is one, opens it (`Opens`). A rotation is
  harmless because it happens only while there is no directory: the secret that no longer
  fits belongs to no profile. With `Founds` this gives `MetaOpens`, the secret's half of the
  invariant; it holds until another machine registers the same name.

`QuietKeeps` covers the steps that only move one process, `StepKeeps` the others:
what is to be shown is the part of the globals, of the process and of every other process.

### Inventories, reports and the list

`PluginReportsProofs` proves, for any plugins, tables, vendors, advisories, versions, histories of
the instances and numbers of scans, faults, changes and edits, of the specification that has the
list and the impact analysis too: `TypeCorrect`, `FilesAreRead`, `PromotionsConverge`
(`PromotionConverges`), `ViewsAreTrue` (`ViewIsTrue`) and `ReportsEarned` (`ReportsAreTrue`). It
assumes that there are finitely many plugins, that the two profiles are two, that no CVE is
called "eol" or "license" (`CatalogAssumption`: a finding's key is its plugin, its type and
its details), that instances start with versions they may have (`SessionsAssumption`), that the
listing names no plugin twice (`ListingAssumption`), that references are of plugins
(`ReferencesAssumption`), that columns are numbered (`ColumnsAssumption`), and that the values for a refused
table and a damaged file are nothing else (`DistinctAssumption`).

- *Files.* `ScanInv`: what a scan under way has read is what the instance still holds, unless a table
  was refused or the instance changed, and no scan runs beside an apply. `MergeReads` shows that
  the merge of three such answers says of each plugin what the instance holds (`Reads`): its
  version wherever it is listed, its state and dependencies if a table other than the app manager
  lists it, whether an update is known. `FilesInv` says it of each stored inventory and each baseline,
  which is a copy. The four reports and the advice are then functions of two inventories about
  which this is known (`EarnedReports`, `EarnedAdvice`); deferrals need `OverridesInv` besides.
- *Promotion.* `NeedOf` is the action a plan has for a plugin, said of what the two instances
  hold; with `Reads` it is what `PlanOf` computes of the files. `RoundInv` follows it
  through two rounds: a plan of the round names each plugin once, each action not yet executed is still the
  one needed, each executed one landed (`ActionLands`), and a landed install or upgrade leaves
  at most an activation to do, a landed activation nothing. So after one round only activations
  are needed, the second plan consists of them, and after the second nothing is.
- *List.* `ViewInv`: the visible rows are the hits of the query applied last in some order,
  and the details are theirs in the *same* order (`Showing`): one permutation, which a sort
  composes with another (`Rearranged`). The text in the filter is the query applied, or that of
  the last message still to come (`Heard`).
- *Impact.* `Found` and `Followed` are the invariant of the breadth-first walk: the chains found are chains,
  of different plugins, in order of their length; no plugin can be reached in fewer steps than its chain has;
  those followed have all their dependents among the found; and whatever is nearer than the
  chain to be followed next has been found. A turn of the loop keeps it (`FollowedOne`, where
  the order in which Python's set yields the dependents does not matter); once all are followed
  the heads are what leads to the target (`HeadsReach`). `WithinSteps`, the reference the
  walk is measured by, is a recursive function: that it exists, and what it is one step
  further, is an induction over its depth. No theorem of the library can be cited for that;
  `Induct` derives the principle, for sets of numbers, from the well-foundedness of `<`.
  `AnswersInv` says what each request of the walk's second half was answered.

The upgrade of several pending plugins and a rescan without counts are among the steps. What a
list shows of an inventory whose scan was *not* whole is true to the file, not to the instance.

### Updates

`UpdaterProofs` proves, for any number of processes, every interval, release and bound
(`IntervalAssumption`, `NobodyAssumption`, `WorldsAssumption`): `TypeCorrect`, `Exclusive`
(`InstallsExclusive`) and `NeverFalls` (`VersionNeverFalls`).

- `Held`: a process is between taking and releasing the lock exactly when it holds it.
- `Sole`: unless a process that waited for its pip was killed, a pip that runs is
  the only one and its process waits for it, hence holds the lock.
- `Rising`: with neither such a kill nor a withdrawal, what is installed is not above the
  latest release, and what the holder has fetched is not below what is installed.

The last part shows what protects the version: the release is fetched by the holder of the
lock. Neither the comparison with the version read before the lock nor the tag
is needed for `VersionNeverFalls`; they only spare needless installations.

Model-checked only: `EveryCommandEnds` (liveness).

### Schema maps

`SchemaMapsProofs` proves, for every set of tables and syncs, all dictionaries, catalogs,
requests and bounds: `SyncsHonest` (`SyncsAreHonest`) and `MapsTrue` (`MapsAreTrue`). It
assumes of ServiceNow that a dictionary's references are columns and lead to tables and that a
parent is there (`InstancesAssumption`, `WorldsAssumption`), and of the catalogs that their targets
are tables and every published version says something (`CatalogsAssumption`). Syncs and
maps share only the cached catalog, so there are two invariants.

`SyncsInv`: a sync carries a published version, and, while no two overlapped, nothing newer
was saved since it fetched (`Carries`), because it is then the only active one; a temporary
file belongs to a sync before its rename or to one that was killed; whoever has not renamed
the manifest has written nothing. A step that replaces no file is an instance of
`SyncTurns`, a rename is `RenamedKeeps`.

`MapsInv` says what a discovery has read, twice. `ReadWhole` holds whatever changed: the
references read start at tables that were read, which is all `Closed` needs. `ReadSo`
holds while the instance is as it was at the start: after the batches read so far,
`meta` is exactly the tables of the scopes that are no longer `unread`, then every parent
of the area is in it, read, or still to be read, then the references and the columns are exactly
those of the tables that were read, then so are the relationships. When nothing is unread all are
those of the area (`WholeIs`). `BridgeTrue` adds that what `bridge_subgraph` keeps of a true graph is
what is near the targets (`KeepIsNear`), and `DiagramsPart` that an edge drawn where it
starts is drawn exactly once, since it starts at a table of the area, and that the boxes are
those of the tables listed with a visible column (`BlocksAreListed`). `MapsInv` needs `SyncsInv`: the
area's targets are tables because the cached catalog is one that was published.

`Tables` is every name a catalog or a dictionary may use; a table the instance lacks has
the scope `NoScope`, so the assumption on targets only says that `NoTable`, the parent of
a table without one, is not a name.

## Plan

All parts whose state or order matters are modelled, and every safety property of a passing run is
proved. What is left is liveness, which stays with TLC.

## Not modelled

- The cache. Every cached function of this commit is synchronous and called by one
  thread, so its interleavings cannot happen; expiry is never used, and what is
  left (backends keyed by object identity) is about Python's allocator.
- The Windows branches of the updater (`subprocess.run` instead of `execv`, which
  keeps the lock while the child runs).
- `assessment/readiness.py`, `scanner.py`, `validator.py`, `rules.py`: stubs in this commit; the
  use-case rollups and the domain map of the replatform checklist; what an agent
  writes from the evidence it is handed.
- Capability detection and the settings other than the default profile.
- Batch progress and ETA: counters of a display. Its one way to reach the program,
  an `OSError` while it appends to its store, is listed as a hazard.
- Rendering, help text and prompts; parsing and formatting; the wording of
  messages except where the program decides by it (`error_classification.py`,
  which tells "already installed" from other failures); template rendering and the
  XML payload of an update set; the OS keychain and the file system beyond single
  entries and files; ServiceNow beyond the endpoints the program calls.
- `agents/`, `execution/`, `knowledge/`: stubs in this commit.
