--------------------------- MODULE PluginExecutor ---------------------------
(***************************************************************************)
(* src/nexus/plugins/executor.py and executor_rollback.py: one executor,   *)
(* one caller, one ServiceNow instance.                                    *)
(*                                                                         *)
(* The caller runs one program: apply_plan (stop at the first failure and  *)
(* undo what was completed), batch_upgrade (skip failures, never undo), or *)
(* a series of direct install / activate / upgrade / deactivate /          *)
(* uninstall calls.  Every operation takes the same road: look the plugin  *)
(* up in the snapshot, pass the gates, send the request (the HTTP client   *)
(* retries transport errors), poll the tracker, and after an install       *)
(* re-read the plugin's row.  An await is a step boundary, and ServiceNow  *)
(* finishes jobs at any of them.                                           *)
(***************************************************************************)
EXTENDS AppManager, FiniteSets

CONSTANTS
  Programs,        \* what the caller may run: [driver, plan] records
  Snapshots,       \* inventories the executor may be built from
  Instances,       \* what the instance may hold at the start
  MaxAttempts,     \* client.py _MAX_RETRIES: sends of one GET request
  MaxPolls,        \* most polls that fit in ProgressPoller's timeout_s
  RefreshCallback  \* is the client built with refresh_token_callback?

Drivers == {"apply", "batch", "calls"}
PlanActions == {"install", "activate", "upgrade"}
RemovalActions == {"deactivate", "uninstall"}
RollbackActions == {"rollback_install", "rollback_activate", "rollback_upgrade"}
ForwardActions == PlanActions \union RemovalActions
Actions == ForwardActions \union RollbackActions

Request == [action : Actions, plugin : Plugins, target : Versions, force : BOOLEAN]

(* OperationResult.  `why` stands for success and message; tracker None is "". *)
Whys == {"done", "noop", "not_found", "base", "blocked", "refused", "network",
         "failed", "timeout"}
OperationResult == [action : Actions, plugin : Plugins, why : Whys,
                    tracker : Nat, rollback_version : Versions]
Success(r) == r.why \in {"done", "noop"}

(* The inventory snapshot: ids present, ids whose source is "servicenow",    *)
(* and depends_on.                                                           *)
Snapshot == [known : SUBSET Plugins, base : SUBSET Plugins,
             deps : [Plugins -> SUBSET Plugins]]

Phases == {"validate", "forward", "rollback", "returned", "rejected", "raised",
           "interrupted"}
Stages == {"idle", "submit", "poll", "refresh"}
Call == [stage : Stages, attempt : 1 .. MaxAttempts, reauthed : BOOLEAN,
         tracker : Nat, polls : 0 .. MaxPolls, rollback_version : Versions]
Idle == [stage |-> "idle", attempt |-> 1, reauthed |-> FALSE, tracker |-> None,
         polls |-> 0, rollback_version |-> None]

ASSUME ProgramsAssumption ==
  \A g \in Programs : /\ g.driver \in Drivers
                      /\ g.plan \in Seq(Request)
                      /\ \A k \in DOMAIN g.plan : g.plan[k].action \in ForwardActions
                      /\ g.driver = "apply" =>
                           \A k \in DOMAIN g.plan : g.plan[k].action \in PlanActions
                      /\ g.driver = "batch" =>
                           \A k \in DOMAIN g.plan : g.plan[k].action = "upgrade"
ASSUME SnapshotsAssumption == Snapshots \subseteq Snapshot
ASSUME InstancesAssumption == Instances \subseteq [Plugins -> Installation]
ASSUME BoundsAssumption ==
  /\ MaxAttempts \in Nat \ {0}
  /\ MaxPolls \in Nat \ {0}
  /\ RefreshCallback \in BOOLEAN

VARIABLES
  driver, plan,  \* the program
  phase,         \* where the program is
  log,           \* results so far: forward ones, then rollback ones
  undo,          \* how many completed operations are still to be undone
  call,          \* the operation in progress
  byId,          \* _by_id, as a Snapshot
  origin         \* history: what the instance and the snapshot were at the start

exec == <<phase, log, undo, call, byId>>
fixed == <<driver, plan, origin>>
vars == <<exec, fixed, remote>>

Init ==
  /\ \E g \in Programs : /\ driver = g.driver
                         /\ plan = g.plan
                         /\ phase = IF g.driver = "apply" THEN "validate" ELSE "forward"
  /\ log = <<>>
  /\ undo = 0
  /\ call = Idle
  /\ byId \in Snapshots
  /\ sn \in Instances
  /\ jobs = <<>>
  /\ origin = [sn |-> sn, snapshot |-> byId]

-----------------------------------------------------------------------------
(* The request the program is at. *)

RollbackLabel(action) ==
  CASE action = "install"  -> "rollback_install"
    [] action = "activate" -> "rollback_activate"
    [] action = "upgrade"  -> "rollback_upgrade"

(* Variant: rollback_version is not handed on to the rollback. *)
RollbackOf_ForgetsVersion(r) ==
  [action |-> RollbackLabel(r.action), plugin |-> r.plugin, target |-> None, force |-> FALSE]

(* run_rollback's inverse of a completed operation. *)
RollbackOf(r) == [action |-> RollbackLabel(r.action), plugin |-> r.plugin,
               target |-> r.rollback_version, force |-> FALSE]

Endpoint(action) ==
  CASE action \in {"install", "upgrade", "rollback_upgrade"} -> "install"
    [] action = "activate"                                   -> "activate"
    [] action \in {"deactivate", "rollback_activate"}        -> "deactivate"
    [] action \in {"uninstall", "rollback_install"}          -> "uninstall"

(* Only the install endpoint takes a version. *)
Target(op) == IF Endpoint(op.action) = "install" THEN op.target ELSE None

(* Variant: rollback stops before the first completed operation. *)
HasOp_SparesFirst == \/ phase = "forward" /\ Len(log) < Len(plan)
                     \/ phase = "rollback" /\ undo > 1

HasOp == \/ phase = "forward" /\ Len(log) < Len(plan)
         \/ phase = "rollback" /\ undo > 0

Op == IF phase = "forward" THEN plan[Len(log) + 1] ELSE RollbackOf(log[undo])

At(stage) == HasOp /\ call.stage = stage

-----------------------------------------------------------------------------
(* How one operation ends: a result, or an exception nobody catches. *)

Result(why) == [action |-> Op.action, plugin |-> Op.plugin, why |-> why,
                tracker |-> call.tracker, rollback_version |-> None]

(* apply_plan turns to rollback at the first failure; every other program,   *)
(* and rollback itself, goes on to the next operation.                       *)
StopsAt(r) == phase = "forward" /\ driver = "apply" /\ ~Success(r)

(* Variant: rolls back results instead of results[:-1]. *)
Record_UndoesFailed(r) ==
  /\ log' = Append(log, r)
  /\ call' = Idle
  /\ \/ StopsAt(r) /\ phase' = "rollback" /\ undo' = Len(log) + 1
     \/ ~StopsAt(r) /\ phase = "rollback" /\ undo' = undo - 1 /\ UNCHANGED phase
     \/ ~StopsAt(r) /\ phase = "forward" /\ UNCHANGED <<phase, undo>>

Record(r) ==
  /\ log' = Append(log, r)
  /\ call' = Idle
  /\ \/ StopsAt(r) /\ phase' = "rollback" /\ undo' = Len(log)
     \/ ~StopsAt(r) /\ phase = "rollback" /\ undo' = undo - 1 /\ UNCHANGED phase
     \/ ~StopsAt(r) /\ phase = "forward" /\ UNCHANGED <<phase, undo>>

Raise == phase' = "raised" /\ call' = Idle /\ UNCHANGED <<log, undo>>

Goto(c) == call' = c /\ UNCHANGED <<phase, log, undo>>

(* _classify_known_sn_error: only install and upgrade read "currently        *)
(* installed" as success.                                                    *)
AlreadyInstalled == IF Op.action \in {"install", "upgrade"} THEN "noop" ELSE "failed"

-----------------------------------------------------------------------------
(* The program around the operations. *)

(* Variant: upgrades are not validated. *)
Unknown_ActivateOnly == {k \in DOMAIN plan : plan[k].action = "activate"
                                               /\ plan[k].plugin \notin byId.known}

(* apply_plan's pre-validation; only install may name an unknown plugin. *)
Unknown == {k \in DOMAIN plan : plan[k].action \in {"activate", "upgrade"}
                                  /\ plan[k].plugin \notin byId.known}

Validate ==
  /\ phase = "validate"
  /\ phase' = IF Unknown = {} THEN "forward" ELSE "rejected"
  /\ UNCHANGED <<log, undo, call, byId, fixed, remote>>

Return ==
  /\ phase \in {"forward", "rollback"}
  /\ ~HasOp
  /\ phase' = "returned"
  /\ UNCHANGED <<log, undo, call, byId, fixed, remote>>

(* Ctrl-C or a killed process: no except clause runs, nothing is persisted. *)
Interrupted ==
  /\ phase \in {"forward", "rollback"}
  /\ phase' = "interrupted"
  /\ call' = Idle
  /\ UNCHANGED <<log, undo, byId, fixed, remote>>

-----------------------------------------------------------------------------
(* Before the request: lookup, base-plugin refusal, impact gate. *)

LookupFails ==
  /\ At("idle")
  /\ Op.plugin \notin byId.known
  /\ Record(Result("not_found"))
  /\ UNCHANGED <<byId, fixed, remote>>

RefuseBase ==
  /\ At("idle")
  /\ Op.plugin \in byId.known
  /\ Op.action = "uninstall" /\ Op.plugin \in byId.base
  /\ Record(Result("base"))
  /\ UNCHANGED <<byId, fixed, remote>>

Gated == /\ Op.plugin \in byId.known
         /\ Op.action \in RemovalActions
         /\ ~(Op.action = "uninstall" /\ Op.plugin \in byId.base)
         /\ ~Op.force

(* reverse_dependencies is empty exactly when nothing depends directly on p. *)
LocalDependents(p) == {q \in byId.known \ {p} : p \in byId.deps[q]}

Submit == Goto([Idle EXCEPT !.stage = "submit"])

(* Variant: only ServiceNow's live answer counts. *)
GatePasses_LiveOnly ==
  /\ At("idle") /\ Gated
  /\ Submit
  /\ UNCHANGED <<byId, fixed, remote>>

GatePasses ==
  /\ At("idle") /\ Gated
  /\ LocalDependents(Op.plugin) = {}
  /\ Submit
  /\ UNCHANGED <<byId, fixed, remote>>

(* ServiceNow's live answer is its own business: it may report dependents    *)
(* the snapshot does not show.                                               *)
GateBlocks ==
  /\ At("idle") /\ Gated
  /\ Record(Result("blocked"))
  /\ UNCHANGED <<byId, fixed, remote>>

(* fetch_dependencies failed; only PluginImpactBlockError is caught. *)
GateRaises ==
  /\ At("idle") /\ Gated
  /\ Raise
  /\ UNCHANGED <<byId, fixed, remote>>

(* Variant: --force also bypasses the base-plugin refusal. *)
StartSubmit_ForceBase ==
  /\ At("idle")
  /\ Op.plugin \in byId.known
  /\ Op.action = "uninstall" => Op.plugin \notin byId.base \/ Op.force
  /\ ~Gated
  /\ Submit
  /\ UNCHANGED <<byId, fixed, remote>>

StartSubmit ==
  /\ At("idle")
  /\ Op.plugin \in byId.known
  /\ Op.action = "uninstall" => Op.plugin \notin byId.base
  /\ ~Gated
  /\ Submit
  /\ UNCHANGED <<byId, fixed, remote>>
-----------------------------------------------------------------------------
(* The request: ServiceNowClient._request and _send_with_retry. *)

(* Variant: the version parameter is left out. *)
Deliver_Unpinned == Accept(Endpoint(Op.action), Op.plugin, None, Len(log) + 1)

Deliver == Accept(Endpoint(Op.action), Op.plugin, Target(Op), Len(log) + 1)

(* Variant: the tracker of the job before. *)
Accepted_StaleTracker ==
  /\ At("submit")
  /\ Deliver
  /\ Goto([call EXCEPT !.stage = "poll", !.tracker = Len(jobs)])
  /\ UNCHANGED <<byId, fixed>>

Accepted ==
  /\ At("submit")
  /\ Deliver
  /\ Goto([call EXCEPT !.stage = "poll", !.tracker = Len(jobs) + 1])
  /\ UNCHANGED <<byId, fixed>>

(* A 202 with an empty body: the job runs, and trackerId is "". *)
AcceptedUntracked ==
  /\ At("submit")
  /\ Deliver
  /\ Goto([call EXCEPT !.stage = "poll"])
  /\ UNCHANGED <<byId, fixed>>

(* Variant: one attempt too many. *)
Resend_Extra ==
  \/ call.attempt <= MaxAttempts /\ Goto([call EXCEPT !.attempt = @ + 1])
  \/ call.attempt > MaxAttempts /\ Record(Result("network"))

(* A transport error.  The appmanager endpoints are called with GET, one of  *)
(* _IDEMPOTENT_METHODS, so the request is sent again.                        *)
Resend ==
  \/ call.attempt < MaxAttempts /\ Goto([call EXCEPT !.attempt = @ + 1])
  \/ call.attempt = MaxAttempts /\ Record(Result("network"))

RequestLost ==
  /\ At("submit")
  /\ Resend
  /\ UNCHANGED <<byId, fixed, remote>>

ResponseLost ==
  /\ At("submit")
  /\ Deliver
  /\ Resend
  /\ UNCHANGED <<byId, fixed>>

(* A 401, once: refresh the token and send again, with fresh attempts. *)
Unauthorized ==
  /\ At("submit")
  /\ RefreshCallback /\ ~call.reauthed
  /\ Goto([call EXCEPT !.attempt = 1, !.reauthed = TRUE])
  /\ UNCHANGED <<byId, fixed, remote>>

(* Any other answer that is an error. *)
Refused ==
  /\ At("submit")
  /\ Record(Result("refused"))
  /\ UNCHANGED <<byId, fixed, remote>>

RefusedAsInstalled ==
  /\ At("submit")
  /\ Endpoint(Op.action) = "install"
  /\ AtTarget(Op.plugin, Target(Op))
  /\ Record(Result(AlreadyInstalled))
  /\ UNCHANGED <<byId, fixed, remote>>

-----------------------------------------------------------------------------
(* ProgressPoller.poll. *)

Tracked == call.tracker # None
TrackedStatus == jobs[call.tracker].status

(* Every poll is preceded by the check of the elapsed time. *)
Polling == At("poll") /\ call.polls < MaxPolls

(* An unknown status, like an untracked job's empty answer, is not terminal. *)
PollPending ==
  /\ Polling
  /\ Tracked => TrackedStatus = "pending"
  /\ Goto([call EXCEPT !.polls = @ + 1])
  /\ UNCHANGED <<byId, fixed, remote>>

Done(version) == [Result("done") EXCEPT !.rollback_version = version]

(* The tracker may or may not report the version it replaced. *)
ReportedVersions == {None, jobs[call.tracker].was}

(* Variant: "in progress" is taken for success. *)
PollSuccess_AnyStatus ==
  /\ Polling
  /\ Tracked /\ TrackedStatus \in {"pending", "success"}
  /\ \E version \in ReportedVersions :
       IF Op.action = "install"
         THEN Goto([call EXCEPT !.stage = "refresh", !.rollback_version = version])
         ELSE Record(Done(version))
  /\ UNCHANGED <<byId, fixed, remote>>

PollSuccess ==
  /\ Polling
  /\ Tracked /\ TrackedStatus = "success"
  /\ \E version \in ReportedVersions :
       IF Op.action = "install"
         THEN Goto([call EXCEPT !.stage = "refresh", !.rollback_version = version])
         ELSE Record(Done(version))
  /\ UNCHANGED <<byId, fixed, remote>>

PollFailed ==
  /\ Polling
  /\ Tracked /\ TrackedStatus \in {"failed", "already"}
  /\ Record(Result(IF TrackedStatus = "already" THEN AlreadyInstalled ELSE "failed"))
  /\ UNCHANGED <<byId, fixed, remote>>

(* Variant: the elapsed time is never over the limit. *)
PollTimeout_Never ==
  /\ At("poll")
  /\ call.polls > MaxPolls
  /\ Record(Result("timeout"))
  /\ UNCHANGED <<byId, fixed, remote>>

(* The first check of the elapsed time passes; slow answers may use up the   *)
(* limit after any poll.                                                     *)
PollTimeout ==
  /\ At("poll")
  /\ call.polls > 0
  /\ Record(Result("timeout"))
  /\ UNCHANGED <<byId, fixed, remote>>

(* Variant: upgrade catches no more than the other operations do. *)
PollRaises_Narrow ==
  /\ Polling
  /\ Raise
  /\ UNCHANGED <<byId, fixed, remote>>

(* fetch_progress failed.  upgrade catches every exception, the other        *)
(* operations and run_rollback only the poller's own.                        *)
PollRaises ==
  /\ Polling
  /\ IF Op.action = "upgrade" THEN Record(Result("network")) ELSE Raise
  /\ UNCHANGED <<byId, fixed, remote>>

-----------------------------------------------------------------------------
(* install's _refresh_one. *)

Installed == Record(Done(call.rollback_version))

(* The row is there: the entry is rebuilt with source "servicenow" and no    *)
(* dependencies.                                                             *)
RefreshSeen ==
  /\ At("refresh")
  /\ byId' = [known |-> byId.known \union {Op.plugin},
              base  |-> byId.base \union {Op.plugin},
              deps  |-> [byId.deps EXCEPT ![Op.plugin] = {}]]
  /\ Installed
  /\ UNCHANGED <<fixed, remote>>

RefreshUnseen ==
  /\ At("refresh")
  /\ Installed
  /\ UNCHANGED <<byId, fixed, remote>>

RefreshRaises ==
  /\ At("refresh")
  /\ Raise
  /\ UNCHANGED <<byId, fixed, remote>>

-----------------------------------------------------------------------------
(* Steps of the executor that need nobody to misbehave; the event loop runs  *)
(* them when they are due.                                                   *)
Progress ==
  \/ Validate \/ Return
  \/ LookupFails \/ RefuseBase \/ GatePasses \/ GateBlocks \/ StartSubmit
  \/ Accepted
  \/ PollPending \/ PollSuccess \/ PollFailed \/ PollTimeout
  \/ RefreshSeen \/ RefreshUnseen

(* Steps that network trouble, an unwilling instance or the user causes. *)
Fault ==
  \/ GateRaises
  \/ AcceptedUntracked \/ RequestLost \/ ResponseLost \/ Unauthorized
  \/ Refused \/ RefusedAsInstalled
  \/ PollRaises \/ RefreshRaises
  \/ Interrupted

ServiceNow == Instance /\ UNCHANGED <<exec, fixed>>

Next == Progress \/ Fault \/ ServiceNow

Spec == Init /\ [][Next]_vars /\ WF_vars(Progress)

-----------------------------------------------------------------------------
(* Properties. *)

(* Every variable has its type; the snapshot only ever names plugins. *)
TypeOK ==
  /\ driver \in Drivers
  /\ plan \in Seq(Request)
  /\ phase \in Phases
  /\ log \in Seq(OperationResult)
  /\ undo \in Nat
  /\ call \in Call
  /\ byId \in Snapshot
  /\ origin \in [sn : [Plugins -> Installation], snapshot : Snapshot]
  /\ AppManagerTypeOK

Failures == {k \in DOMAIN log : ~Success(log[k])}
FirstFailure == CHOOSE f \in Failures : \A k \in Failures : f <= k

(* The request that the k-th result answers: the plan's k-th up to the first *)
(* failure, then the inverses of the completed ones, last first.             *)
Wanted(k) ==
  IF driver # "apply" \/ \A f \in Failures : k <= f
    THEN plan[k]
    ELSE RollbackOf(log[2 * FirstFailure - k])

(* Results come in the promised order: each answers the request wanted at    *)
(* its place; a failed plan never has more rollback entries than completed   *)
(* operations, and exactly as many when it returns; a plan without a failure *)
(* then has one result per action (OperationLog, run_rollback's "LIFO").     *)
ResultsInOrder ==
  /\ driver = "apply" /\ Failures # {} => Len(log) <= 2 * FirstFailure - 1
  /\ \A k \in DOMAIN log : /\ log[k].action = Wanted(k).action
                            /\ log[k].plugin = Wanted(k).plugin
  /\ phase = "returned" =>
       Len(log) = IF driver # "apply" \/ Failures = {}
                    THEN Len(plan)
                    ELSE 2 * FirstFailure - 1

(* Nothing is ever asked of ServiceNow but what the program wants at that    *)
(* place: after a failure only inverses of completed operations, with the    *)
(* version the completed operation reported, whatever was retried.           *)
JobsAreWanted ==
  \A j \in DOMAIN jobs : \E k \in 1 .. Len(log) + 1 :
    /\ jobs[j].op = k
    /\ jobs[j].endpoint = Endpoint(Wanted(k).action)
    /\ jobs[j].plugin = Wanted(k).plugin
    /\ jobs[j].target = Target(Wanted(k))

(* A result that names a tracker tells the truth about that tracker's job:   *)
(* the job was submitted for this very result, "done" means it has           *)
(* succeeded, and "failed" or "already installed" means it has not and       *)
(* never will.                                                               *)
ResultsMatchJobs ==
  \A k \in DOMAIN log :
    LET r == log[k] IN
      /\ r.why = "done" => r.tracker # None
      /\ r.tracker # None =>
           /\ r.tracker \in DOMAIN jobs
           /\ jobs[r.tracker].op = k
           /\ r.why = "done" => jobs[r.tracker].status = "success"
           /\ r.why \in {"failed", "noop"} =>
                jobs[r.tracker].status \in {"failed", "already"}

(* Pre-validation is enough: no activate or upgrade of an applied plan, and  *)
(* no rollback step, ever finds its plugin missing from the snapshot.        *)
ValidatedIdsStayKnown ==
  driver = "apply" =>
    \A k \in DOMAIN log : log[k].why = "not_found" => log[k].action = "install"

(* The plan fits what the instance held: it installs what was absent and     *)
(* activates what was not active.                                            *)
PlanFits ==
  \A k \in DOMAIN plan :
    /\ plan[k].action = "install"  => origin.sn[plan[k].plugin] = Absent
    /\ plan[k].action = "activate" => ~origin.sn[plan[k].plugin].active

(* The run was told everything: each accepted job is the one its result      *)
(* tracked (with retries a lost response leaves one behind), no operation    *)
(* timed out or ended in a network error, every upgrade reported the version *)
(* it replaced, every rollback step succeeded.                               *)
Informed ==
  /\ \A j \in DOMAIN jobs : log[jobs[j].op].tracker = j
  /\ \A k \in DOMAIN log :
       /\ log[k].why \notin {"timeout", "network"}
       /\ log[k].action = "upgrade" /\ Success(log[k]) => log[k].rollback_version # None
       /\ log[k].action \in RollbackActions => Success(log[k])

(* All or nothing: a failed plan that fits the instance and whose rollback   *)
(* was told everything leaves the instance exactly as it was found.          *)
InformedRollbackRestores ==
  driver = "apply" /\ phase = "returned" /\ Failures # {} /\ PlanFits /\ Informed
    => sn = origin.sn

(* batch_upgrade never raises: whatever the instance or the network does,    *)
(* the batch goes on to its last target and makes a report.                  *)
BatchNeverRaises == driver = "batch" => phase # "raised"

(* A base plugin is never uninstalled by a direct call, force or not.        *)
BaseNeverUninstalled ==
  driver = "calls" =>
    \A j \in DOMAIN jobs :
      jobs[j].endpoint = "uninstall" => jobs[j].plugin \notin origin.snapshot.base

(* The impact gate: no unforced deactivate or uninstall reaches ServiceNow   *)
(* while a plugin of the inventory depends on the target, unless the same    *)
(* executor has (re)installed that dependent, which forgets its              *)
(* dependencies.                                                             *)
UnforcedRemovalSparesDependents ==
  driver = "calls" =>
    \A j \in DOMAIN jobs :
      LET op == plan[jobs[j].op]
          dependents == {q \in origin.snapshot.known \ {op.plugin} :
                           op.plugin \in origin.snapshot.deps[q]}
      IN  op.action \in RemovalActions /\ ~op.force =>
            \A q \in dependents :
              \E k \in 1 .. jobs[j].op - 1 :
                log[k].action = "install" /\ log[k].plugin = q /\ log[k].why = "done"

(* The call ends, even when the instance never finishes a job: the poller    *)
(* gives up and retries are counted.                                         *)
Termination == <>(phase \in {"returned", "rejected", "raised", "interrupted"})

(* apply_plan implements the saga. *)
SagaMode ==
  CASE driver # "apply" \/ phase = "validate"     -> "open"
    [] driver = "apply" /\ phase = "forward"      -> "forward"
    [] driver = "apply" /\ phase = "rollback"     -> "backward"
    [] driver = "apply" /\ phase = "rejected"     -> "refused"
    [] driver = "apply" /\ phase \in {"raised", "interrupted"} -> "abandoned"
    [] driver = "apply" /\ phase = "returned"     ->
         IF Failures = {} THEN "committed" ELSE "compensated"

SagaStack ==
  IF driver # "apply" THEN <<>>
  ELSE SubSeq(plan, 1, IF Failures = {} THEN Len(log) ELSE undo)

AbstractPlan == INSTANCE Saga WITH mode <- SagaMode, stack <- SagaStack
ImplementsSaga == AbstractPlan!Spec

(* client.py:34-36 and :510: "a lost response cannot duplicate a write". *)
WriteNotDuplicated ==
  \A i, j \in DOMAIN jobs : jobs[i].op = jobs[j].op => i = j

(* executor_rollback.py:38: "Best-effort, never aborts". *)
RollbackNeverAborts == [][phase = "rollback" => phase' # "raised"]_vars
=============================================================================
