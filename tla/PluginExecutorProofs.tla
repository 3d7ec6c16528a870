------------------------ MODULE PluginExecutorProofs ------------------------
(***************************************************************************)
(* Theorems about PluginExecutor, for every program, snapshot, instance    *)
(* and bound.                                                              *)
(***************************************************************************)
EXTENDS PluginExecutor, SequenceTheorems, TLAPS

(***************************************************************************)
(* The inductive invariant.  Ahead: every result so far answers the plan's *)
(* action at its place, and an applied plan has not failed yet.  Turned(f): *)
(* an applied plan failed at its f-th action, everything before succeeded,  *)
(* and the results after f undo f-1, f-2, ... down to undo + 1.             *)
(***************************************************************************)
Ahead ==
  /\ undo = 0
  /\ Len(log) <= Len(plan)
  /\ \A k \in DOMAIN log : /\ log[k].action = plan[k].action
                           /\ log[k].plugin = plan[k].plugin
                           /\ driver = "apply" => Success(log[k])

Turned(f) ==
  /\ driver = "apply"
  /\ f \in 1 .. Len(plan)
  /\ undo < f
  /\ Len(log) + undo = 2 * f - 1
  /\ \A k \in 1 .. f : /\ log[k].action = plan[k].action
                       /\ log[k].plugin = plan[k].plugin
                       /\ Success(log[k]) <=> k < f
  /\ \A k \in f + 1 .. Len(log) :
       /\ log[k].action = RollbackLabel(log[2 * f - k].action)
       /\ log[k].plugin = log[2 * f - k].plugin

PlanWellFormed ==
  \A k \in DOMAIN plan : /\ plan[k].action \in ForwardActions
                         /\ driver = "apply" => plan[k].action \in PlanActions
                         /\ driver = "batch" => plan[k].action = "upgrade"

Shape ==
  /\ phase \in {"validate", "rejected", "forward"} => Ahead
  /\ phase = "rollback" => \E f \in Nat : Turned(f)
  /\ phase = "returned" => \/ Ahead /\ Len(log) = Len(plan)
                           \/ undo = 0 /\ \E f \in Nat : Turned(f)
  /\ Ahead \/ \E f \in Nat : Turned(f)

IInv ==
  /\ TypeOK
  /\ PlanWellFormed
  /\ Shape
  /\ call.tracker <= Len(jobs)

-----------------------------------------------------------------------------
(* The request in progress is a request, and the kind the phase calls for. *)
LEMMA OpType ==
  ASSUME IInv, HasOp
  PROVE  /\ Op \in Request
         /\ phase = "forward" => Op = plan[Len(log) + 1] /\ Len(log) + 1 \in DOMAIN plan
         /\ phase = "rollback" => /\ undo \in DOMAIN log
                                  /\ log[undo].action \in PlanActions
                                  /\ Op.action = RollbackLabel(log[undo].action)
                                  /\ Op.plugin = log[undo].plugin
PROOF
  <1>1. CASE phase = "forward"
    BY <1>1 DEF IInv, TypeOK, HasOp, Op
  <1>2. CASE phase = "rollback"
    <2>1. PICK f \in Nat : Turned(f)
      BY <1>2 DEF IInv, Shape
    <2>2. undo \in DOMAIN log /\ undo \in DOMAIN plan /\ undo \in 1 .. f
      BY <1>2, <2>1 DEF IInv, TypeOK, HasOp, Turned
    <2>3. log[undo] \in OperationResult /\ log[undo].action \in PlanActions
      <3>1. log[undo] \in OperationResult
        BY <2>2 DEF IInv, TypeOK
      <3>2. log[undo].action = plan[undo].action /\ driver = "apply"
        BY <2>1, <2>2 DEF Turned
      <3>. QED
        BY <2>2, <3>1, <3>2 DEF IInv, PlanWellFormed
    <2>4. RollbackLabel(log[undo].action) \in RollbackActions
      BY <2>3 DEF RollbackLabel, PlanActions, RollbackActions
    <2>5. Op = RollbackOf(log[undo])
      BY <1>2 DEF Op
    <2>6. Op \in Request /\ Op.action = RollbackLabel(log[undo].action)
                         /\ Op.plugin = log[undo].plugin
      BY <2>3, <2>4, <2>5 DEF RollbackOf, Request, OperationResult, Actions
    <2>. QED
      BY <1>2, <2>2, <2>3, <2>6
  <1>. QED
    BY <1>1, <1>2 DEF HasOp

(* What the steps that leave the program alone have in common. *)
Steady ==
  /\ UNCHANGED fixed
  /\ byId' \in Snapshot
  /\ AppManagerTypeOK'
  /\ Len(jobs) <= Len(jobs')

(* Going on with the operation in progress preserves the invariant. *)
LEMMA GotoInv ==
  ASSUME IInv, Steady, NEW c \in Call, c.tracker <= Len(jobs'), Goto(c)
  PROVE  IInv'
PROOF
  <1>1. TypeOK'
    BY DEF IInv, TypeOK, Steady, Goto, fixed
  <1>2. PlanWellFormed'
    BY DEF IInv, PlanWellFormed, Steady, fixed
  <1>3. Ahead' = Ahead /\ \A f : Turned(f)' = Turned(f)
    BY DEF Ahead, Turned, Steady, Goto, fixed
  <1>4. Shape'
    BY <1>3 DEF IInv, Shape, Goto, Steady, fixed
  <1>. QED
    BY <1>1, <1>2, <1>4 DEF IInv, Goto

(* Ending the program, by an exception or by the user, preserves it. *)
LEMMA EndInv ==
  ASSUME IInv, Steady, phase' \in {"raised", "interrupted"}, call' = Idle,
         UNCHANGED <<log, undo>>
  PROVE  IInv'
PROOF
  <1>0. Idle \in Call /\ Idle.tracker = 0
    BY BoundsAssumption, MaxVersionAssumption DEF Idle, Call, Stages, None, Versions
  <1>1. TypeOK'
    BY <1>0 DEF IInv, TypeOK, Steady, fixed, Phases
  <1>2. PlanWellFormed'
    BY DEF IInv, PlanWellFormed, Steady, fixed
  <1>3. Ahead' = Ahead /\ \A f : Turned(f)' = Turned(f)
    BY DEF Ahead, Turned, Steady, fixed
  <1>4. Shape'
    BY <1>3 DEF IInv, Shape
  <1>5. Len(jobs') \in Nat
    BY <1>1 DEF TypeOK, AppManagerTypeOK
  <1>. QED
    BY <1>0, <1>1, <1>2, <1>4, <1>5 DEF IInv

(* Recording a result that answers the request in progress preserves it: the *)
(* log grows by the wanted entry, and apply_plan turns around at a failure.  *)
LEMMA RecordInv ==
  ASSUME IInv, Steady, HasOp, NEW r \in OperationResult,
         r.action = Op.action, r.plugin = Op.plugin, Record(r)
  PROVE  IInv'
PROOF
  <1>0. Idle \in Call /\ Idle.tracker = 0
    BY BoundsAssumption, MaxVersionAssumption DEF Idle, Call, Stages, None, Versions
  <1>1. /\ log' = Append(log, r) /\ log' \in Seq(OperationResult)
        /\ Len(log') = Len(log) + 1 /\ Len(log) \in Nat /\ Len(plan) \in Nat
        /\ \A k \in 1 .. Len(log) : log'[k] = log[k]
        /\ log'[Len(log) + 1] = r
        /\ DOMAIN log = 1 .. Len(log) /\ DOMAIN log' = 1 .. Len(log) + 1
        /\ undo \in Nat /\ plan' = plan /\ driver' = driver
    BY DEF Record, IInv, TypeOK, Steady, fixed
  <1>2. /\ TypeOK' /\ PlanWellFormed'
    <2>1. undo' \in Nat /\ phase' \in Phases
      BY <1>1 DEF Record, IInv, TypeOK, HasOp, Phases
    <2>. QED
      BY <1>0, <1>1, <2>1 DEF Record, IInv, TypeOK, PlanWellFormed, Steady, fixed
  <1>3. Len(jobs') \in Nat
    BY <1>2 DEF TypeOK, AppManagerTypeOK
  <1>4. ASSUME phase = "forward", ~StopsAt(r)
        PROVE  Ahead' /\ phase' = "forward"
    <2>1. Ahead /\ phase' = "forward" /\ undo' = undo
      BY <1>4 DEF IInv, Shape, Record
    <2>2. Op = plan[Len(log) + 1] /\ Len(log) + 1 <= Len(plan)
      BY <1>4, OpType DEF HasOp
    <2>. QED
      BY <1>1, <1>4, <2>1, <2>2 DEF Ahead, StopsAt
  <1>5. ASSUME phase = "forward", StopsAt(r)
        PROVE  phase' = "rollback" /\ \E f \in Nat : Turned(f)'
    <2>1. Ahead /\ phase' = "rollback" /\ undo' = Len(log)
      BY <1>5 DEF IInv, Shape, Record
    <2>2. Op = plan[Len(log) + 1] /\ Len(log) + 1 <= Len(plan)
      BY <1>5, OpType DEF HasOp
    <2>3. driver = "apply" /\ ~Success(r)
      BY <1>5 DEF StopsAt
    <2>4. PICK f \in Nat : f = Len(log) + 1
      BY <1>1
    <2>5. \A k \in 1 .. f : /\ log'[k].action = plan[k].action
                            /\ log'[k].plugin = plan[k].plugin
                            /\ Success(log'[k]) <=> k < f
      BY <1>1, <2>1, <2>2, <2>3, <2>4 DEF Ahead
    <2>6. Turned(f)'
      BY <1>1, <2>1, <2>2, <2>3, <2>4, <2>5 DEF Turned
    <2>. QED
      BY <2>1, <2>6
  <1>6. ASSUME phase = "rollback"
        PROVE  phase' = "rollback" /\ \E f \in Nat : Turned(f)'
    <2>1. PICK f \in Nat : Turned(f)
      BY <1>6 DEF IInv, Shape
    <2>2. ~StopsAt(r)
      BY <1>6 DEF StopsAt
    <2>3. phase' = "rollback" /\ undo' = undo - 1 /\ undo > 0
      BY <1>6, <2>2 DEF Record, HasOp
    <2>4. r.action = RollbackLabel(log[undo].action) /\ r.plugin = log[undo].plugin
      BY <1>6, OpType
    <2>5. 2 * f - (Len(log) + 1) = undo /\ f < Len(log) + 1 /\ undo < f
      BY <1>1, <2>1, <2>3 DEF Turned
    <2>6. \A k \in 1 .. f : log'[k] = log[k]
      BY <1>1, <2>5
    <2>7. \A k \in f + 1 .. Len(log) : log'[k] = log[k] /\ log'[2 * f - k] = log[2 * f - k]
      <3>. SUFFICES ASSUME NEW k \in f + 1 .. Len(log)
                    PROVE  k \in 1 .. Len(log) /\ 2 * f - k \in 1 .. Len(log)
        BY <1>1
      <3>. QED
        BY <1>1, <2>1, <2>5 DEF Turned
    <2>8. \A k \in f + 1 .. Len(log) + 1 :
            /\ log'[k].action = RollbackLabel(log'[2 * f - k].action)
            /\ log'[k].plugin = log'[2 * f - k].plugin
      <3>1. ASSUME NEW k \in f + 1 .. Len(log)
            PROVE  /\ log'[k].action = RollbackLabel(log'[2 * f - k].action)
                   /\ log'[k].plugin = log'[2 * f - k].plugin
        BY <2>1, <2>7, <3>1 DEF Turned
      <3>2. log'[undo] = log[undo] /\ log'[Len(log) + 1] = r
        BY <1>1, <2>3, <2>5
      <3>3. \A k \in f + 1 .. Len(log) + 1 : k \in f + 1 .. Len(log) \/ k = Len(log) + 1
        BY <1>1, <2>5
      <3>4. ASSUME NEW k \in f + 1 .. Len(log) + 1, k = Len(log) + 1
            PROVE  /\ log'[k].action = RollbackLabel(log'[2 * f - k].action)
                   /\ log'[k].plugin = log'[2 * f - k].plugin
        BY <2>4, <2>5, <3>2, <3>4
      <3>. QED
        BY <3>1, <3>3, <3>4
    <2>9. Turned(f)'
      <3>1. driver' = "apply" /\ f \in 1 .. Len(plan') /\ undo' < f
        BY <1>1, <2>1, <2>3, <2>5 DEF Turned
      <3>2. Len(log') + undo' = 2 * f - 1
        BY <1>1, <2>1, <2>3 DEF Turned
      <3>3. \A k \in 1 .. f : /\ log'[k].action = plan'[k].action
                              /\ log'[k].plugin = plan'[k].plugin
                              /\ Success(log'[k]) <=> k < f
        BY <1>1, <2>1, <2>6 DEF Turned
      <3>. QED
        BY <1>1, <2>8, <3>1, <3>2, <3>3 DEF Turned
    <2>. QED
      BY <2>3, <2>9
  <1>7. Shape'
    BY <1>1, <1>4, <1>5, <1>6 DEF Shape, HasOp
  <1>. QED
    BY <1>0, <1>2, <1>3, <1>7 DEF IInv, Record

-----------------------------------------------------------------------------
(* Results, deliveries and the instance's own steps have their types. *)
LEMMA ResultType ==
  ASSUME IInv, HasOp, NEW why \in Whys, NEW version \in Versions
  PROVE  /\ Result(why) \in OperationResult
         /\ [Result(why) EXCEPT !.rollback_version = version] \in OperationResult
         /\ Result(why).action = Op.action /\ Result(why).plugin = Op.plugin
PROOF
  <1>1. Op.action \in Actions /\ Op.plugin \in Plugins
    BY OpType DEF Request
  <1>2. call.tracker \in Nat
    BY DEF IInv, TypeOK, Call
  <1>3. None \in Versions
    BY MaxVersionAssumption DEF None, Versions
  <1>. QED
    BY <1>1, <1>2, <1>3 DEF Result, OperationResult

LEMMA DeliverSteady ==
  ASSUME IInv, HasOp, Deliver, UNCHANGED <<byId, fixed>>
  PROVE  Steady /\ Len(jobs') = Len(jobs) + 1
PROOF
  <1>1. Op \in Request
    BY OpType
  <1>2. Endpoint(Op.action) \in Endpoints
    BY <1>1 DEF Request, Actions, ForwardActions, PlanActions, RemovalActions,
                RollbackActions, Endpoint, Endpoints
  <1>3. None \in Versions
    BY MaxVersionAssumption DEF None, Versions
  <1>4. Target(Op) \in Versions
    BY <1>1, <1>3 DEF Target, Request
  <1>5. Len(log) + 1 \in Nat
    BY DEF IInv, TypeOK
  <1>6. [endpoint |-> Endpoint(Op.action), plugin |-> Op.plugin, target |-> Target(Op),
         op |-> Len(log) + 1, status |-> "pending", was |-> None] \in Job
    BY <1>1, <1>2, <1>3, <1>4, <1>5 DEF Job, JobStatus, Request
  <1>7. jobs \in Seq(Job) /\ sn \in [Plugins -> Installation] /\ byId \in Snapshot
    BY DEF IInv, TypeOK, AppManagerTypeOK
  <1>. QED
    BY <1>6, <1>7 DEF Deliver, Accept, Steady, AppManagerTypeOK, fixed

LEMMA StillSteady ==
  ASSUME IInv, UNCHANGED <<byId, fixed, remote>>
  PROVE  Steady
PROOF
  BY DEF IInv, TypeOK, Steady, AppManagerTypeOK, fixed, remote

LEMMA InstanceSteady ==
  ASSUME IInv, Instance, UNCHANGED <<byId, fixed>>
  PROVE  Steady
PROOF
  <1>1. /\ jobs \in Seq(Job) /\ DOMAIN jobs = 1 .. Len(jobs) /\ Len(jobs) \in Nat
        /\ sn \in [Plugins -> Installation] /\ byId \in Snapshot
    BY DEF IInv, TypeOK, AppManagerTypeOK
  <1>2. PICK k \in DOMAIN jobs : JobSucceeds(k) \/ JobFails(k) \/ JobFindsTargetInstalled(k)
    BY DEF Instance
  <1>3. jobs[k] \in Job /\ sn[jobs[k].plugin] \in Installation
    <2>1. jobs[k] \in Job
      BY <1>1, <1>2
    <2>. QED
      BY <1>1, <2>1 DEF Job
  <1>4. ASSUME NEW status \in JobStatus, NEW was \in Versions,
               jobs' = [jobs EXCEPT ![k] = [@ EXCEPT !.status = status, !.was = was]]
        PROVE  jobs' \in Seq(Job) /\ Len(jobs') = Len(jobs)
    <2>1. [jobs[k] EXCEPT !.status = status, !.was = was] \in Job
      BY <1>3 DEF Job
    <2>. QED
      BY <1>1, <1>4, <2>1, ExceptSeq
  <1>5. CASE JobSucceeds(k)
    <2>1. Effect(jobs[k]) \in Installation
      <3>1. Resolved(jobs[k].target) \in Versions /\ None \in Versions
        BY <1>3, MaxVersionAssumption DEF Resolved, Job, Versions, None
      <3>2. jobs[k].endpoint \in Endpoints
        BY <1>3 DEF Job
      <3>. QED
        BY <1>3, <3>1, <3>2 DEF Effect, Endpoints, Installation, Absent
    <2>2. sn' \in [Plugins -> Installation]
      BY <1>1, <1>5, <2>1 DEF JobSucceeds
    <2>3. jobs' = [jobs EXCEPT ![k] = [@ EXCEPT !.status = "success",
                                               !.was = sn[jobs[k].plugin].version]]
      BY <1>5 DEF JobSucceeds
    <2>4. sn[jobs[k].plugin].version \in Versions /\ "success" \in JobStatus
      BY <1>3 DEF Installation, JobStatus
    <2>5. jobs' \in Seq(Job) /\ Len(jobs') = Len(jobs)
      BY <1>4, <2>3, <2>4
    <2>. QED
      BY <1>1, <2>2, <2>5 DEF Steady, AppManagerTypeOK
  <1>6. CASE JobFails(k) \/ JobFindsTargetInstalled(k)
    <2>1. PICK status \in JobStatus : jobs' = [jobs EXCEPT ![k] = [@ EXCEPT !.status = status]]
      BY <1>6 DEF JobFails, JobFindsTargetInstalled, JobStatus
    <2>2. [jobs[k] EXCEPT !.status = status] \in Job
      BY <1>3, <2>1 DEF Job
    <2>3. jobs' \in Seq(Job) /\ Len(jobs') = Len(jobs)
      BY <1>1, <2>1, <2>2, ExceptSeq
    <2>. QED
      BY <1>1, <1>6, <2>3 DEF Steady, AppManagerTypeOK, JobFails, JobFindsTargetInstalled
  <1>. QED
    BY <1>2, <1>5, <1>6

-----------------------------------------------------------------------------
(* The invariant holds initially and every step preserves it. *)
LEMMA InitInv == Init => IInv
PROOF
  <1>. SUFFICES ASSUME Init PROVE IInv
    OBVIOUS
  <1>1. PICK g \in Programs : /\ driver = g.driver /\ plan = g.plan
                              /\ phase = IF g.driver = "apply" THEN "validate" ELSE "forward"
    BY DEF Init
  <1>2. /\ driver \in Drivers /\ plan \in Seq(Request) /\ phase \in Phases
        /\ phase \in {"validate", "forward"}
    BY <1>1, ProgramsAssumption DEF Phases
  <1>3. PlanWellFormed
    BY <1>1, ProgramsAssumption DEF PlanWellFormed
  <1>4. Idle \in Call /\ Idle.tracker = 0
    BY BoundsAssumption, MaxVersionAssumption DEF Idle, Call, Stages, None, Versions
  <1>5. byId \in Snapshot /\ sn \in [Plugins -> Installation]
    BY SnapshotsAssumption, InstancesAssumption DEF Init
  <1>6. log = <<>> /\ jobs = <<>> /\ undo = 0 /\ call = Idle
        /\ origin = [sn |-> sn, snapshot |-> byId]
    BY DEF Init
  <1>7. TypeOK
    BY <1>2, <1>4, <1>5, <1>6 DEF TypeOK, AppManagerTypeOK
  <1>8. Ahead
    BY <1>2, <1>6 DEF Ahead
  <1>. QED
    BY <1>2, <1>3, <1>4, <1>6, <1>7, <1>8 DEF IInv, Shape

LEMMA NextInv == IInv /\ [Next]_vars => IInv'
PROOF
  <1>. SUFFICES ASSUME IInv, [Next]_vars PROVE IInv'
    OBVIOUS
  <1>. USE DEF At
  <1>a. /\ call \in Call /\ Len(jobs) \in Nat /\ call.tracker <= Len(jobs)
        /\ Idle \in Call /\ Idle.tracker = 0
    BY BoundsAssumption, MaxVersionAssumption
       DEF IInv, TypeOK, AppManagerTypeOK, Idle, Call, Stages, None, Versions
  <1>b. ASSUME HasOp, UNCHANGED <<byId, fixed, remote>>,
               NEW why \in Whys, Record(Result(why))
        PROVE  IInv'
    <2>1. None \in Versions
      BY MaxVersionAssumption DEF None, Versions
    <2>. QED
      BY <1>b, <2>1, ResultType, StillSteady, RecordInv
  <1>c. ASSUME HasOp, UNCHANGED <<byId, fixed, remote>>, Raise
        PROVE  IInv'
    BY <1>c, StillSteady, EndInv DEF Raise
  <1>d. ASSUME UNCHANGED <<byId, fixed, remote>>, NEW c \in Call,
               c.tracker = 0 \/ c.tracker = call.tracker, Goto(c)
        PROVE  IInv'
    <2>1. c.tracker <= Len(jobs')
      BY <1>a, <1>d DEF remote
    <2>. QED
      BY <1>d, <2>1, StillSteady, GotoInv
  <1>1. CASE Validate
    <2>1. phase' \in {"forward", "rejected"} /\ phase' \in Phases
      BY <1>1 DEF Validate, Phases
    <2>2. /\ UNCHANGED <<log, undo, call, byId, driver, plan, origin, sn, jobs>>
          /\ phase = "validate"
      BY <1>1 DEF Validate, fixed, remote
    <2>3. TypeOK' /\ PlanWellFormed' /\ Ahead
      BY <2>1, <2>2 DEF IInv, TypeOK, AppManagerTypeOK, PlanWellFormed, Shape
    <2>4. Ahead'
      BY <2>2, <2>3 DEF Ahead
    <2>. QED
      BY <2>1, <2>2, <2>3, <2>4 DEF IInv, Shape
  <1>2. CASE Return
    <2>1. /\ UNCHANGED <<log, undo, call, byId, driver, plan, origin, sn, jobs>>
          /\ phase \in {"forward", "rollback"} /\ ~HasOp /\ phase' = "returned"
      BY <1>2 DEF Return, fixed, remote
    <2>2. TypeOK' /\ PlanWellFormed'
      BY <2>1 DEF IInv, TypeOK, AppManagerTypeOK, PlanWellFormed, Phases
    <2>3. Ahead' = Ahead /\ \A f : Turned(f)' = Turned(f)
      BY <2>1 DEF Ahead, Turned
    <2>4. CASE phase = "forward"
      <3>1. Ahead /\ Len(log) = Len(plan)
        BY <2>1, <2>4 DEF IInv, TypeOK, Shape, HasOp, Ahead
      <3>. QED
        BY <2>1, <2>2, <2>3, <3>1 DEF IInv, Shape
    <2>5. CASE phase = "rollback"
      <3>1. undo = 0 /\ \E f \in Nat : Turned(f)
        BY <2>1, <2>5 DEF IInv, TypeOK, Shape, HasOp
      <3>. QED
        BY <2>1, <2>2, <2>3, <3>1 DEF IInv, Shape
    <2>. QED
      BY <2>1, <2>4, <2>5
  <1>3. CASE LookupFails
    BY <1>3, <1>b DEF LookupFails, Whys
  <1>4. CASE RefuseBase
    BY <1>4, <1>b DEF RefuseBase, Whys
  <1>5. CASE GatePasses \/ StartSubmit
    <2>1. [Idle EXCEPT !.stage = "submit"] \in Call
      BY <1>a DEF Call, Stages
    <2>2. [Idle EXCEPT !.stage = "submit"].tracker = 0
      BY <1>a DEF Idle
    <2>3. UNCHANGED <<byId, fixed, remote>> /\ Goto([Idle EXCEPT !.stage = "submit"])
      BY <1>5 DEF GatePasses, StartSubmit, Submit
    <2>. QED
      BY <1>d, <2>1, <2>2, <2>3
  <1>6. CASE GateBlocks
    BY <1>6, <1>b DEF GateBlocks, Whys
  <1>7. CASE GateRaises \/ RefreshRaises
    BY <1>7, <1>c DEF GateRaises, RefreshRaises
  <1>8. CASE Accepted
    <2>1. PICK c \in Call : Goto(c) /\ c.tracker = Len(jobs) + 1
      <3>1. [call EXCEPT !.stage = "poll", !.tracker = Len(jobs) + 1] \in Call
        <4>1. "poll" \in Stages /\ Len(jobs) + 1 \in Nat /\ call \in Call
          BY <1>a DEF Stages
        <4>. QED
          BY <4>1 DEF Call
      <3>. QED
        BY <1>8, <1>a, <3>1 DEF Accepted, Call
    <2>2. Steady /\ Len(jobs') = Len(jobs) + 1
      BY <1>8, DeliverSteady DEF Accepted
    <2>. QED
      BY <1>a, <2>1, <2>2, GotoInv
  <1>9. CASE AcceptedUntracked
    <2>1. PICK c \in Call : Goto(c) /\ c.tracker = call.tracker
      <3>1. [call EXCEPT !.stage = "poll"] \in Call
        BY <1>a DEF Call, Stages
      <3>. QED
        BY <1>9, <1>a, <3>1 DEF AcceptedUntracked, Call
    <2>2. Steady /\ Len(jobs') = Len(jobs) + 1
      BY <1>9, DeliverSteady DEF AcceptedUntracked
    <2>3. c.tracker <= Len(jobs')
      BY <1>a, <2>1, <2>2 DEF Call
    <2>. QED
      BY <2>1, <2>2, <2>3, GotoInv
  <1>10. CASE RequestLost \/ ResponseLost
    <2>1. HasOp /\ Steady
      BY <1>10, DeliverSteady, StillSteady DEF RequestLost, ResponseLost
    <2>2. CASE call.attempt < MaxAttempts /\ Goto([call EXCEPT !.attempt = @ + 1])
      <3>1. [call EXCEPT !.attempt = @ + 1] \in Call
        BY <1>a, <2>2, BoundsAssumption DEF Call
      <3>2. [call EXCEPT !.attempt = @ + 1].tracker <= Len(jobs')
        BY <1>a, <2>1 DEF Steady, Call, AppManagerTypeOK
      <3>. QED
        BY <2>1, <2>2, <3>1, <3>2, GotoInv
    <2>3. CASE Record(Result("network"))
      <3>1. None \in Versions /\ "network" \in Whys
        BY MaxVersionAssumption DEF None, Versions, Whys
      <3>. QED
        BY <2>1, <2>3, <3>1, ResultType, RecordInv
    <2>. QED
      BY <1>10, <2>2, <2>3 DEF RequestLost, ResponseLost, Resend
  <1>11. CASE Unauthorized
    <2>1. /\ [call EXCEPT !.attempt = 1, !.reauthed = TRUE] \in Call
          /\ [call EXCEPT !.attempt = 1, !.reauthed = TRUE].tracker = call.tracker
      <3>1. 1 \in 1 .. MaxAttempts /\ TRUE \in BOOLEAN /\ call \in Call
        BY <1>a, BoundsAssumption
      <3>. QED
        BY <3>1 DEF Call
    <2>. QED
      BY <1>11, <1>d, <2>1 DEF Unauthorized
  <1>12. CASE Refused
    BY <1>12, <1>b DEF Refused, Whys
  <1>13. CASE RefusedAsInstalled
    BY <1>13, <1>b DEF RefusedAsInstalled, AlreadyInstalled, Whys
  <1>14. CASE PollPending
    <2>1. /\ [call EXCEPT !.polls = @ + 1] \in Call
          /\ [call EXCEPT !.polls = @ + 1].tracker = call.tracker
      BY <1>14, <1>a, BoundsAssumption DEF PollPending, Polling, Call
    <2>. QED
      BY <1>14, <1>d, <2>1 DEF PollPending
  <1>15. CASE PollSuccess
    <2>1. jobs[call.tracker] \in Job
      BY <1>15, <1>a DEF PollSuccess, Tracked, None, Call, IInv, TypeOK, AppManagerTypeOK
    <2>2. PICK version \in Versions :
            \/ Goto([call EXCEPT !.stage = "refresh", !.rollback_version = version])
            \/ Record(Done(version))
      <3>1. ReportedVersions \subseteq Versions
        BY <2>1, MaxVersionAssumption DEF ReportedVersions, Job, None, Versions
      <3>. QED
        BY <1>15, <3>1 DEF PollSuccess
    <2>3. /\ [call EXCEPT !.stage = "refresh", !.rollback_version = version] \in Call
          /\ [call EXCEPT !.stage = "refresh", !.rollback_version = version].tracker
               = call.tracker
      BY <1>a DEF Call, Stages
    <2>4. HasOp /\ UNCHANGED <<byId, fixed, remote>> /\ "done" \in Whys
      BY <1>15 DEF PollSuccess, Polling, Whys
    <2>5. Done(version) \in OperationResult /\ Done(version).action = Op.action
                                           /\ Done(version).plugin = Op.plugin
      BY <2>4, ResultType DEF Done, Result
    <2>. QED
      BY <1>d, <2>2, <2>3, <2>4, <2>5, StillSteady, RecordInv
  <1>16. CASE PollFailed
    BY <1>16, <1>b DEF PollFailed, Polling, AlreadyInstalled, Whys
  <1>17. CASE PollTimeout
    BY <1>17, <1>b DEF PollTimeout, Whys
  <1>18. CASE PollRaises
    BY <1>18, <1>b, <1>c DEF PollRaises, Polling, Whys
  <1>19. CASE RefreshSeen \/ RefreshUnseen
    <2>1. HasOp /\ Record(Done(call.rollback_version)) /\ UNCHANGED <<fixed, remote>>
      BY <1>19 DEF RefreshSeen, RefreshUnseen, Installed
    <2>2. call.rollback_version \in Versions /\ "done" \in Whys
      BY <1>a DEF Call, Whys
    <2>3. /\ Done(call.rollback_version) \in OperationResult
          /\ Done(call.rollback_version).action = Op.action
          /\ Done(call.rollback_version).plugin = Op.plugin
      BY <2>1, <2>2, ResultType DEF Done, Result
    <2>4. byId' \in Snapshot
      <3>1. Op.plugin \in Plugins /\ byId \in Snapshot
        BY <2>1, OpType DEF Request, IInv, TypeOK
      <3>. QED
        BY <1>19, <3>1 DEF RefreshSeen, RefreshUnseen, Snapshot
    <2>5. Steady
      BY <2>1, <2>4 DEF Steady, IInv, TypeOK, AppManagerTypeOK, fixed, remote
    <2>. QED
      BY <2>1, <2>3, <2>5, RecordInv
  <1>20. CASE Interrupted
    BY <1>20, StillSteady, EndInv DEF Interrupted
  <1>21. CASE ServiceNow
    <2>1. Steady
      BY <1>21, InstanceSteady DEF ServiceNow, exec
    <2>2. Goto(call)
      BY <1>21 DEF ServiceNow, exec, Goto
    <2>3. call.tracker <= Len(jobs')
      BY <1>a, <2>1 DEF Steady, Call, AppManagerTypeOK
    <2>. QED
      BY <1>a, <2>1, <2>2, <2>3, GotoInv
  <1>22. CASE UNCHANGED vars
    <2>1. Goto(call) /\ UNCHANGED <<byId, fixed, remote>>
      BY <1>22 DEF vars, exec, Goto
    <2>. QED
      BY <1>a, <1>d, <2>1
  <1>. QED
    BY <1>1, <1>2, <1>3, <1>4, <1>5, <1>6, <1>7, <1>8, <1>9, <1>10, <1>11, <1>12, <1>13,
       <1>14, <1>15, <1>16, <1>17, <1>18, <1>19, <1>20, <1>21, <1>22
       DEF Next, Progress, Fault

(* A run is ahead or has turned, whatever has happened to it.               *)
THEOREM Inductive == Spec => []IInv
PROOF
  BY InitInv, NextInv, PTL DEF Spec

(* Everything the executor and the instance hold keeps its type: the log     *)
(* only ever holds OperationResults, the snapshot only names plugins, and    *)
(* attempts and polls stay within the limits the client and the poller are   *)
(* given.                                                                    *)
THEOREM TypeCorrect == Spec => []TypeOK
PROOF
  <1>1. IInv => TypeOK
    BY DEF IInv
  <1>. QED
    BY <1>1, Inductive, PTL

-----------------------------------------------------------------------------
(* The order of the results. *)

(* A turned run's first failure is the action it turned at. *)
LEMMA FirstFailureOfTurned ==
  ASSUME IInv, NEW f \in Nat, Turned(f)
  PROVE  /\ f \in Failures /\ \A k \in Failures : f <= k
         /\ FirstFailure = f
PROOF
  <1>1. /\ DOMAIN log = 1 .. Len(log) /\ Len(log) \in Nat /\ undo \in Nat
        /\ f \in 1 .. Len(log)
    BY DEF IInv, TypeOK, Turned
  <1>2. f \in Failures /\ \A k \in Failures : f <= k
    BY <1>1 DEF Failures, Turned
  <1>3. \A k \in Failures : k \in Nat
    BY <1>1 DEF Failures
  <1>4. \A g \in Failures : (\A k \in Failures : g <= k) => g = f
    BY <1>2, <1>3
  <1>. QED
    BY <1>2, <1>4 DEF FirstFailure

(* Before a failure, the k-th result answers the plan's k-th action. *)
LEMMA AheadInOrder ==
  ASSUME IInv, Ahead
  PROVE  /\ driver # "apply" \/ Failures = {}
         /\ \A k \in DOMAIN log : /\ log[k].action = Wanted(k).action
                                  /\ log[k].plugin = Wanted(k).plugin
PROOF
  <1>1. driver # "apply" \/ Failures = {}
    BY DEF Ahead, Failures
  <1>2. \A k \in DOMAIN log : Wanted(k) = plan[k]
    BY <1>1 DEF Wanted
  <1>. QED
    BY <1>1, <1>2 DEF Ahead

(* After the failure at f, the results answer the inverses of f-1, f-2, ... *)
LEMMA TurnedInOrder ==
  ASSUME IInv, NEW f \in Nat, Turned(f)
  PROVE  \A k \in DOMAIN log : /\ log[k].action = Wanted(k).action
                               /\ log[k].plugin = Wanted(k).plugin
PROOF
  <1>. SUFFICES ASSUME NEW k \in DOMAIN log
                PROVE  log[k].action = Wanted(k).action /\ log[k].plugin = Wanted(k).plugin
    OBVIOUS
  <1>1. DOMAIN log = 1 .. Len(log) /\ Len(log) \in Nat /\ k \in 1 .. Len(log)
    BY DEF IInv, TypeOK
  <1>2. CASE k <= f
    <2>1. \A g \in Failures : k <= g
      BY <1>1, <1>2, FirstFailureOfTurned DEF Failures
    <2>2. Wanted(k) = plan[k]
      BY <2>1 DEF Wanted
    <2>. QED
      BY <1>1, <1>2, <2>2 DEF Turned
  <1>3. CASE ~(k <= f)
    <2>1. driver = "apply" /\ f \in Failures /\ FirstFailure = f
      BY FirstFailureOfTurned DEF Turned
    <2>2. Wanted(k) = RollbackOf(log[2 * f - k])
      BY <1>3, <2>1 DEF Wanted
    <2>3. k \in f + 1 .. Len(log)
      BY <1>1, <1>3
    <2>4. /\ log[k].action = RollbackLabel(log[2 * f - k].action)
          /\ log[k].plugin = log[2 * f - k].plugin
      BY <2>3 DEF Turned
    <2>. QED
      BY <2>2, <2>4 DEF RollbackOf
  <1>. QED
    BY <1>2, <1>3

(* Whatever fails and whenever, the results of a program come in the         *)
(* promised order: the plan's actions up to the first failure, then one      *)
(* rollback entry per completed action, last first; and a program that       *)
(* returns has left none of them out (apply_plan, run_rollback).             *)
THEOREM InOrder == Spec => []ResultsInOrder
PROOF
  <1>1. IInv => ResultsInOrder
    <2>. SUFFICES ASSUME IInv PROVE ResultsInOrder
      OBVIOUS
    <2>1. \A k \in DOMAIN log : /\ log[k].action = Wanted(k).action
                                /\ log[k].plugin = Wanted(k).plugin
      BY AheadInOrder, TurnedInOrder DEF IInv, Shape
    <2>0. ASSUME driver = "apply", Failures # {}
          PROVE  Len(log) <= 2 * FirstFailure - 1
      <3>1. PICK f \in Nat : Turned(f)
        BY <2>0, AheadInOrder DEF IInv, Shape
      <3>2. FirstFailure = f
        BY <3>1, FirstFailureOfTurned
      <3>. QED
        BY <3>1, <3>2 DEF Turned, IInv, TypeOK
    <2>2. ASSUME phase = "returned"
          PROVE  Len(log) = IF driver # "apply" \/ Failures = {}
                              THEN Len(plan) ELSE 2 * FirstFailure - 1
      <3>1. CASE Ahead /\ Len(log) = Len(plan)
        BY <3>1, AheadInOrder
      <3>2. CASE undo = 0 /\ \E f \in Nat : Turned(f)
        <4>1. PICK f \in Nat : Turned(f)
          BY <3>2
        <4>2. driver = "apply" /\ Failures # {} /\ FirstFailure = f
          BY <4>1, FirstFailureOfTurned DEF Turned
        <4>3. Len(log) = 2 * f - 1
          BY <3>2, <4>1 DEF Turned, IInv, TypeOK
        <4>. QED
          BY <4>2, <4>3
      <3>. QED
        BY <2>2, <3>1, <3>2 DEF IInv, Shape
    <2>. QED
      BY <2>0, <2>1, <2>2 DEF ResultsInOrder
  <1>. QED
    BY <1>1, Inductive, PTL

-----------------------------------------------------------------------------
(* A batch goes on to its end. *)

(* A batch only upgrades, and an upgrade is not gated, catches what its      *)
(* polls raise, and has no row to re-read afterwards.                        *)
BatchGoesOn == driver = "batch" => phase # "raised" /\ call.stage # "refresh"

LEMMA BatchOp ==
  ASSUME IInv, driver = "batch", HasOp
  PROVE  Op.action = "upgrade" /\ phase = "forward"
PROOF
  <1>1. phase = "forward"
    BY DEF HasOp, IInv, Shape, Turned
  <1>. QED
    BY <1>1, OpType DEF IInv, PlanWellFormed

LEMMA BatchNext == IInv /\ BatchGoesOn /\ [Next]_vars => BatchGoesOn'
PROOF
  <1>. SUFFICES ASSUME IInv, BatchGoesOn, [Next]_vars, driver' = "batch"
                PROVE  phase' # "raised" /\ call'.stage # "refresh"
    BY DEF BatchGoesOn
  <1>0. driver = "batch" /\ call.stage # "refresh" /\ phase # "raised"
    <2>1. driver' = driver
      BY DEF Next, Progress, Fault, ServiceNow, vars, fixed, Validate, Return, LookupFails,
             RefuseBase, GatePasses, GateBlocks, StartSubmit, Accepted, PollPending,
             PollSuccess, PollFailed, PollTimeout, RefreshSeen, RefreshUnseen, GateRaises,
             AcceptedUntracked, RequestLost, ResponseLost, Unauthorized, Refused,
             RefusedAsInstalled, PollRaises, RefreshRaises, Interrupted
    <2>. QED
      BY <2>1 DEF BatchGoesOn
  <1>a. ASSUME HasOp, NEW r, Record(r)
        PROVE  phase' # "raised" /\ call'.stage # "refresh"
    BY <1>0, <1>a, BatchOp DEF Record, StopsAt, Idle
  <1>b. ASSUME NEW c, Goto(c), c.stage # "refresh"
        PROVE  phase' # "raised" /\ call'.stage # "refresh"
    BY <1>0, <1>b DEF Goto
  <1>c. call \in Call
    BY DEF IInv, TypeOK
  <1>1. CASE Validate \/ Return \/ Interrupted
    BY <1>0, <1>1 DEF Validate, Return, Interrupted, Idle
  <1>2. CASE LookupFails \/ RefuseBase \/ GateBlocks \/ Refused \/ RefusedAsInstalled
             \/ PollFailed \/ PollTimeout
    BY <1>2, <1>a DEF LookupFails, RefuseBase, GateBlocks, Refused, RefusedAsInstalled,
                      PollFailed, PollTimeout, Polling, At
  <1>3. CASE GatePasses \/ StartSubmit
    BY <1>3, <1>b DEF GatePasses, StartSubmit, Submit, Idle
  <1>4. CASE GateRaises
    BY <1>0, <1>4, BatchOp DEF GateRaises, Gated, At, RemovalActions
  <1>5. CASE Accepted \/ AcceptedUntracked \/ Unauthorized \/ PollPending
    BY <1>0, <1>5, <1>b, <1>c DEF Accepted, AcceptedUntracked, Unauthorized, PollPending,
                                 Call
  <1>6. CASE RequestLost \/ ResponseLost
    <2>1. HasOp
      BY <1>6 DEF RequestLost, ResponseLost, At
    <2>2. CASE Goto([call EXCEPT !.attempt = @ + 1])
      BY <1>0, <1>b, <1>c, <2>2 DEF Call
    <2>3. CASE Record(Result("network"))
      BY <1>a, <2>1, <2>3
    <2>. QED
      BY <1>6, <2>2, <2>3 DEF RequestLost, ResponseLost, Resend
  <1>7. CASE PollSuccess
    <2>1. HasOp /\ Op.action = "upgrade"
      BY <1>0, <1>7, BatchOp DEF PollSuccess, Polling, At
    <2>2. \E version \in ReportedVersions : Record(Done(version))
      BY <1>7, <2>1 DEF PollSuccess
    <2>. QED
      BY <1>a, <2>1, <2>2
  <1>8. CASE PollRaises
    <2>1. HasOp /\ Op.action = "upgrade"
      BY <1>0, <1>8, BatchOp DEF PollRaises, Polling, At
    <2>. QED
      BY <1>8, <1>a, <2>1 DEF PollRaises
  <1>9. CASE RefreshSeen \/ RefreshUnseen \/ RefreshRaises
    BY <1>0, <1>9 DEF RefreshSeen, RefreshUnseen, RefreshRaises, At
  <1>10. CASE ServiceNow \/ UNCHANGED vars
    BY <1>0, <1>10 DEF ServiceNow, vars, exec
  <1>. QED
    BY <1>1, <1>2, <1>3, <1>4, <1>5, <1>6, <1>7, <1>8, <1>9, <1>10 DEF Next, Progress, Fault

(* No fault of the network or the instance makes a batch upgrade raise: the  *)
(* remaining targets are still tried and the caller gets its report          *)
(* (batch_upgrade, upgrade's catch-all).                                     *)
THEOREM BatchSafe == Spec => []BatchNeverRaises
PROOF
  <1>1. Init => BatchGoesOn
    BY DEF Init, BatchGoesOn, Idle
  <1>2. IInv /\ BatchGoesOn => BatchNeverRaises
    BY DEF BatchGoesOn, BatchNeverRaises
  <1>. QED
    BY <1>1, <1>2, Inductive, BatchNext, PTL DEF Spec


-----------------------------------------------------------------------------
(* What the operations ask, and what they are told.                         *)

(* The plugin of an operation that was not refused as unknown is known.     *)
Known ==
  /\ \A k \in DOMAIN log : log[k].why # "not_found" => log[k].plugin \in byId.known
  /\ HasOp /\ call.stage # "idle" => Op.plugin \in byId.known
  /\ driver = "apply" /\ phase \in {"forward", "rollback"} => Unknown = {}
  /\ ValidatedIdsStayKnown

(* The tracker at hand is that of a job for the operation in progress.      *)
Told ==
  /\ phase = "validate" => call = Idle
  /\ call.stage \in {"idle", "submit"} => call.tracker = None
  /\ call.tracker # None => call.tracker \in DOMAIN jobs /\ jobs[call.tracker].op = Len(log) + 1
  /\ call.stage = "refresh" =>
       /\ call.tracker # None /\ jobs[call.tracker].status = "success"
       /\ HasOp => Op.action = "install"
  /\ ResultsMatchJobs

(* What is about to be sent has passed the gates; the executor has forgotten *)
(* no plugin, and the dependencies of none but those it installed.           *)
MayBeSent ==
  /\ Op.action = "uninstall" => Op.plugin \notin byId.base
  /\ Op.action \in RemovalActions /\ ~Op.force => LocalDependents(Op.plugin) = {}

Cleared ==
  /\ HasOp /\ call.stage = "submit" => MayBeSent
  /\ origin.snapshot.base \subseteq byId.base /\ origin.snapshot.known \subseteq byId.known
  /\ \A q \in Plugins :
       \/ byId.deps[q] = origin.snapshot.deps[q]
       \/ \E k \in DOMAIN log : log[k].action = "install" /\ log[k].plugin = q /\ log[k].why = "done"
  /\ BaseNeverUninstalled
  /\ UnforcedRemovalSparesDependents

SafeInv == IInv /\ Known /\ Told /\ JobsAreWanted /\ Cleared

-----------------------------------------------------------------------------
(* The kinds of step, as far as these invariants tell them apart.           *)

(* The request is delivered, or ServiceNow sees nothing of the step.        *)
Sends == \/ UNCHANGED remote
         \/ /\ call.stage = "submit"
            /\ Deliver

(* A result that repeats what the tracker said of the operation's job.      *)
Tells(r) ==
  /\ r \in OperationResult
  /\ r.action = Op.action /\ r.plugin = Op.plugin
  /\ r.tracker = call.tracker
  /\ r.why = "done" => call.tracker # None /\ jobs[call.tracker].status = "success"
  /\ r.why \in {"failed", "noop"} /\ call.tracker # None =>
       jobs[call.tracker].status \in {"failed", "already"}
  /\ r.why = "not_found" <=> Op.plugin \notin byId.known
  /\ r.why \in {"not_found", "base", "blocked", "refused"} => r.tracker = None
  /\ r.why = "noop" => r.action \in {"install", "upgrade"}
  /\ r.action = "upgrade" /\ r.rollback_version # None =>
       r.why = "done" /\ r.rollback_version = jobs[call.tracker].was

(* The row of the plugin just installed, as it is re-read.                  *)
Learns(r) ==
  /\ r.action = "install" /\ r.why = "done"
  /\ byId' = [known |-> byId.known \union {Op.plugin},
              base  |-> byId.base \union {Op.plugin},
              deps  |-> [byId.deps EXCEPT ![Op.plugin] = {}]]

Recorded(r) ==
  /\ HasOp
  /\ Tells(r)
  /\ Record(r)
  /\ Sends
  /\ UNCHANGED byId \/ Learns(r)

Continued(c) ==
  /\ HasOp
  /\ Goto(c)
  /\ UNCHANGED byId
  /\ \/ /\ call.stage = "idle" /\ c.stage = "submit" /\ c.tracker = None
        /\ Op.plugin \in byId.known /\ MayBeSent
        /\ UNCHANGED remote
     \/ /\ call.stage = "submit" /\ c.stage = "submit"
        /\ c.tracker = call.tracker
        /\ Sends
     \/ /\ call.stage = "submit" /\ c.stage = "poll"
        /\ c.tracker \in {None, Len(jobs) + 1}
        /\ Deliver
     \/ /\ call.stage = "poll" /\ c.stage = "poll"
        /\ c.tracker = call.tracker
        /\ UNCHANGED remote
     \/ /\ call.stage = "poll" /\ c.stage = "refresh"
        /\ c.tracker = call.tracker /\ c.tracker # None
        /\ jobs[c.tracker].status = "success" /\ Op.action = "install"
        /\ UNCHANGED remote

(* The program ends: rejected, by an exception or the user, or in order.    *)
Ends ==
  \/ phase = "validate" /\ phase' = "rejected" /\ UNCHANGED call
  \/ /\ phase \in {"forward", "rollback"}
     /\ phase' \in {"raised", "interrupted"} /\ call' = Idle
  \/ /\ phase \in {"forward", "rollback"} /\ ~HasOp
     /\ phase' = "returned" /\ UNCHANGED call

(* The program begins, ends, or does nothing.                               *)
Around ==
  /\ UNCHANGED <<log, undo, byId, remote>>
  /\ \/ UNCHANGED <<phase, call>>
     \/ Ends
     \/ phase = "validate" /\ phase' = "forward" /\ Unknown = {} /\ UNCHANGED call

Steps == \/ \E r \in OperationResult : Recorded(r)
         \/ \E c \in Call : Continued(c)
         \/ Around
         \/ Instance /\ UNCHANGED exec

LEMMA NextWays ==
  ASSUME IInv, Known, Told, [Next]_vars
  PROVE  UNCHANGED fixed /\ Steps
PROOF
  <1>. USE DEF At
  <1>a. /\ call \in Call /\ Len(jobs) \in Nat /\ call.tracker \in Nat
        /\ Idle \in Call /\ Idle.tracker = None /\ None = 0 /\ None \in Versions
    BY BoundsAssumption, MaxVersionAssumption
       DEF IInv, TypeOK, AppManagerTypeOK, Idle, Call, Stages, None, Versions
  <1>b. ASSUME HasOp, UNCHANGED <<byId, remote>>, NEW why \in Whys, Record(Result(why)),
               why \notin {"done", "failed", "noop"},
               why = "not_found" <=> Op.plugin \notin byId.known,
               call.stage \in {"idle", "submit"} \/ why \in {"network", "timeout"}
        PROVE  Steps
    <2>1. Result(why) \in OperationResult /\ Result(why).action = Op.action
                                         /\ Result(why).plugin = Op.plugin
      BY <1>a, <1>b, ResultType
    <2>2. /\ Result(why).tracker = call.tracker /\ Result(why).why = why
          /\ Result(why).rollback_version = None
      BY DEF Result
    <2>3. why \in {"not_found", "base", "blocked", "refused"} => call.tracker = None
      BY <1>b DEF Told
    <2>4. Recorded(Result(why))
      BY <1>b, <2>1, <2>2, <2>3 DEF Recorded, Tells, Sends
    <2>. QED
      BY <2>1, <2>4 DEF Steps
  <1>c. ASSUME HasOp, UNCHANGED <<byId, remote>>, Raise
        PROVE  Steps
    BY <1>c DEF Raise, HasOp, Steps, Around, Ends
  <1>d. ASSUME HasOp, call.stage # "idle" PROVE Op.plugin \in byId.known
    BY <1>d DEF Known
  <1>e. ASSUME NEW c \in Call, Continued(c) PROVE Steps
    BY <1>e DEF Steps
  <1>1. CASE Validate
    <2>1. UNCHANGED fixed /\ Around
      BY <1>1 DEF Validate, Around, Ends
    <2>. QED
      BY <2>1 DEF Steps
  <1>2. CASE Return
    BY <1>2 DEF Return, Around, Ends, Steps
  <1>3. CASE LookupFails
    BY <1>3, <1>b DEF LookupFails, Whys
  <1>4. CASE RefuseBase
    BY <1>4, <1>b DEF RefuseBase, Whys
  <1>5. CASE GatePasses \/ StartSubmit
    <2>1. MayBeSent /\ Op.plugin \in byId.known
      BY <1>5 DEF GatePasses, StartSubmit, Gated, MayBeSent
    <2>2. PICK c \in Call : Goto(c) /\ c.stage = "submit" /\ c.tracker = None
      <3>1. [Idle EXCEPT !.stage = "submit"] \in Call
        BY <1>a DEF Call, Stages
      <3>2. [Idle EXCEPT !.stage = "submit"].tracker = None
            /\ [Idle EXCEPT !.stage = "submit"].stage = "submit"
        BY <1>a DEF Idle
      <3>. QED
        BY <1>5, <3>1, <3>2 DEF GatePasses, StartSubmit, Submit
    <2>3. HasOp /\ call.stage = "idle" /\ UNCHANGED <<byId, fixed, remote>>
      BY <1>5 DEF GatePasses, StartSubmit
    <2>4. Continued(c)
      BY <2>1, <2>2, <2>3 DEF Continued
    <2>. QED
      BY <1>e, <2>3, <2>4
  <1>6. CASE GateBlocks
    BY <1>6, <1>b DEF GateBlocks, Gated, Whys
  <1>7. CASE GateRaises \/ RefreshRaises
    BY <1>7, <1>c DEF GateRaises, RefreshRaises
  <1>8. CASE Accepted
    <2>1. PICK c \in Call : Goto(c) /\ c.tracker = Len(jobs) + 1 /\ c.stage = "poll"
      <3>1. [call EXCEPT !.stage = "poll", !.tracker = Len(jobs) + 1] \in Call
        <4>1. "poll" \in Stages /\ Len(jobs) + 1 \in Nat /\ call \in Call
          BY <1>a DEF Stages
        <4>. QED
          BY <4>1 DEF Call
      <3>. QED
        BY <1>8, <1>a, <3>1 DEF Accepted, Call
    <2>2. Continued(c) /\ UNCHANGED fixed
      BY <1>8, <2>1 DEF Accepted, Continued
    <2>. QED
      BY <1>e, <2>2
  <1>9. CASE AcceptedUntracked
    <2>1. PICK c \in Call : Goto(c) /\ c.tracker = call.tracker /\ c.stage = "poll"
      <3>1. [call EXCEPT !.stage = "poll"] \in Call
        BY <1>a DEF Call, Stages
      <3>. QED
        BY <1>9, <1>a, <3>1 DEF AcceptedUntracked, Call
    <2>2. call.tracker = None
      BY <1>9 DEF AcceptedUntracked, Told
    <2>3. Continued(c) /\ UNCHANGED fixed
      BY <1>9, <2>1, <2>2 DEF AcceptedUntracked, Continued
    <2>. QED
      BY <1>e, <2>3
  <1>10. CASE RequestLost \/ ResponseLost
    <2>1. HasOp /\ call.stage = "submit" /\ Sends /\ UNCHANGED <<byId, fixed>>
      BY <1>10 DEF RequestLost, ResponseLost, Sends
    <2>2. CASE call.attempt < MaxAttempts /\ Goto([call EXCEPT !.attempt = @ + 1])
      <3>1. PICK c \in Call : Goto(c) /\ c.tracker = call.tracker /\ c.stage = call.stage
        <4>1. [call EXCEPT !.attempt = @ + 1] \in Call
          BY <1>a, <2>2, BoundsAssumption DEF Call
        <4>2. /\ [call EXCEPT !.attempt = @ + 1].tracker = call.tracker
              /\ [call EXCEPT !.attempt = @ + 1].stage = call.stage
          BY <1>a DEF Call
        <4>. QED
          BY <2>2, <4>1, <4>2
      <3>2. Continued(c)
        BY <2>1, <3>1 DEF Continued
      <3>. QED
        BY <1>e, <2>1, <3>2
    <2>3. CASE Record(Result("network"))
      <3>1. Op.plugin \in byId.known
        BY <1>d, <2>1
      <3>2. /\ Result("network") \in OperationResult
            /\ Result("network").action = Op.action /\ Result("network").plugin = Op.plugin
        BY <1>a, <2>1, ResultType DEF Whys
      <3>3. /\ Result("network").tracker = call.tracker /\ Result("network").why = "network"
            /\ Result("network").rollback_version = None
        BY DEF Result
      <3>4. Recorded(Result("network"))
        BY <2>1, <2>3, <3>1, <3>2, <3>3 DEF Recorded, Tells
      <3>. QED
        BY <2>1, <3>2, <3>4 DEF Steps
    <2>. QED
      BY <1>10, <2>2, <2>3 DEF RequestLost, ResponseLost, Resend
  <1>11. CASE Unauthorized
    <2>1. PICK c \in Call : Goto(c) /\ c.tracker = call.tracker /\ c.stage = call.stage
      <3>1. [call EXCEPT !.attempt = 1, !.reauthed = TRUE] \in Call
        <4>1. 1 \in 1 .. MaxAttempts /\ TRUE \in BOOLEAN /\ call \in Call
          BY <1>a, BoundsAssumption
        <4>. QED
          BY <4>1 DEF Call
      <3>2. /\ [call EXCEPT !.attempt = 1, !.reauthed = TRUE].tracker = call.tracker
            /\ [call EXCEPT !.attempt = 1, !.reauthed = TRUE].stage = call.stage
        BY <1>a DEF Call
      <3>. QED
        BY <1>11, <3>1, <3>2 DEF Unauthorized
    <2>2. Continued(c) /\ UNCHANGED fixed
      BY <1>11, <2>1 DEF Unauthorized, Continued, Sends
    <2>. QED
      BY <1>e, <2>2
  <1>12. CASE Refused
    BY <1>12, <1>b, <1>d DEF Refused, Whys
  <1>f. ASSUME HasOp, call.stage # "idle", UNCHANGED <<byId, remote>>,
               NEW why \in {"failed", "noop"}, Record(Result(why)),
               why = "noop" => Op.action \in {"install", "upgrade"},
               call.tracker # None => jobs[call.tracker].status \in {"failed", "already"}
        PROVE  Steps
    <2>1. Result(why) \in OperationResult /\ Result(why).action = Op.action
                                         /\ Result(why).plugin = Op.plugin
      BY <1>a, <1>f, ResultType DEF Whys
    <2>2. /\ Result(why).tracker = call.tracker /\ Result(why).why = why
          /\ Result(why).rollback_version = None
      BY DEF Result
    <2>3. Recorded(Result(why))
      BY <1>d, <1>f, <2>1, <2>2 DEF Recorded, Tells, Sends
    <2>. QED
      BY <2>1, <2>3 DEF Steps
  <1>13. CASE RefusedAsInstalled
    <2>1. /\ call.tracker = None /\ AlreadyInstalled \in {"failed", "noop"}
          /\ AlreadyInstalled = "noop" => Op.action \in {"install", "upgrade"}
      BY <1>13 DEF RefusedAsInstalled, Told, AlreadyInstalled
    <2>. QED
      BY <1>13, <1>f, <2>1 DEF RefusedAsInstalled
  <1>14. CASE PollPending
    <2>1. PICK c \in Call : Goto(c) /\ c.tracker = call.tracker /\ c.stage = call.stage
      <3>1. [call EXCEPT !.polls = @ + 1] \in Call
        BY <1>14, <1>a, BoundsAssumption DEF PollPending, Polling, Call
      <3>2. /\ [call EXCEPT !.polls = @ + 1].tracker = call.tracker
            /\ [call EXCEPT !.polls = @ + 1].stage = call.stage
        BY <1>a DEF Call
      <3>. QED
        BY <1>14, <3>1, <3>2 DEF PollPending
    <2>2. Continued(c) /\ UNCHANGED fixed
      BY <1>14, <2>1 DEF PollPending, Polling, Continued
    <2>. QED
      BY <1>e, <2>2
  <1>g. ASSUME HasOp, call.stage # "idle", UNCHANGED remote, NEW version \in Versions,
               call.tracker # None, jobs[call.tracker].status = "success",
               Record(Done(version)), UNCHANGED byId \/ Learns(Done(version)),
               Op.action = "install" \/ version \in ReportedVersions
        PROVE  Steps
    <2>0. "done" \in Whys
      BY DEF Whys
    <2>1. /\ Done(version) \in OperationResult /\ Done(version).action = Op.action
          /\ Done(version).plugin = Op.plugin
      BY <1>g, <2>0, ResultType DEF Done, Result
    <2>2. /\ Done(version).tracker = call.tracker /\ Done(version).why = "done"
          /\ Done(version).rollback_version = version
      BY DEF Done, Result
    <2>3. Recorded(Done(version))
      <3>1. Op.action = "upgrade" /\ version # None => version = jobs[call.tracker].was
        BY <1>g DEF ReportedVersions
      <3>. QED
        BY <1>d, <1>g, <2>1, <2>2, <3>1 DEF Recorded, Tells, Sends
    <2>. QED
      BY <2>1, <2>3 DEF Steps
  <1>15. CASE PollSuccess
    <2>1. jobs[call.tracker] \in Job
      BY <1>15, <1>a DEF PollSuccess, Tracked, None, Call, IInv, TypeOK, AppManagerTypeOK
    <2>2. ReportedVersions \subseteq Versions
      BY <2>1, MaxVersionAssumption DEF ReportedVersions, Job, None, Versions
    <2>3. /\ HasOp /\ call.stage = "poll" /\ UNCHANGED <<byId, fixed, remote>>
          /\ call.tracker # None /\ jobs[call.tracker].status = "success"
      BY <1>15 DEF PollSuccess, Polling, Tracked, TrackedStatus
    <2>4. PICK version \in Versions :
            /\ version \in ReportedVersions
            /\ IF Op.action = "install"
                 THEN Goto([call EXCEPT !.stage = "refresh", !.rollback_version = version])
                 ELSE Record(Done(version))
      BY <1>15, <2>2 DEF PollSuccess
    <2>5. CASE Op.action = "install"
      <3>1. PICK c \in Call : Goto(c) /\ c.tracker = call.tracker /\ c.stage = "refresh"
        <4>1. [call EXCEPT !.stage = "refresh", !.rollback_version = version] \in Call
          BY <1>a DEF Call, Stages
        <4>2. /\ [call EXCEPT !.stage = "refresh", !.rollback_version = version].tracker
                   = call.tracker
              /\ [call EXCEPT !.stage = "refresh", !.rollback_version = version].stage
                   = "refresh"
          BY <1>a DEF Call
        <4>. QED
          BY <2>4, <2>5, <4>1, <4>2
      <3>2. Continued(c)
        BY <2>3, <2>5, <3>1 DEF Continued
      <3>. QED
        BY <1>e, <2>3, <3>2
    <2>6. CASE Op.action # "install"
      BY <1>g, <2>3, <2>4, <2>6
    <2>. QED
      BY <2>5, <2>6
  <1>16. CASE PollFailed
    <2>1. PICK why \in {"failed", "noop"} :
            /\ Record(Result(why))
            /\ why = "noop" => Op.action \in {"install", "upgrade"}
      BY <1>16 DEF PollFailed, AlreadyInstalled
    <2>. QED
      BY <1>16, <1>f, <2>1 DEF PollFailed, Polling, TrackedStatus
  <1>17. CASE PollTimeout
    BY <1>17, <1>b, <1>d DEF PollTimeout, Whys
  <1>18. CASE PollRaises
    BY <1>18, <1>b, <1>c, <1>d DEF PollRaises, Polling, Whys
  <1>19. CASE RefreshSeen \/ RefreshUnseen
    <2>1. /\ HasOp /\ call.stage = "refresh" /\ Record(Done(call.rollback_version))
          /\ UNCHANGED <<fixed, remote>>
      BY <1>19 DEF RefreshSeen, RefreshUnseen, Installed
    <2>2. call.rollback_version \in Versions
      BY <1>a DEF Call
    <2>3. /\ call.tracker # None /\ jobs[call.tracker].status = "success"
          /\ Op.action = "install"
      BY <2>1 DEF Told
    <2>4. Done(call.rollback_version).action = "install"
          /\ Done(call.rollback_version).why = "done"
      BY <2>3 DEF Done, Result
    <2>5. UNCHANGED byId \/ Learns(Done(call.rollback_version))
      BY <1>19, <2>4 DEF RefreshSeen, RefreshUnseen, Learns
    <2>. QED
      BY <1>g, <2>1, <2>2, <2>3, <2>5
  <1>20. CASE Interrupted
    <2>1. UNCHANGED fixed /\ Around
      BY <1>20 DEF Interrupted, Around, Ends
    <2>. QED
      BY <2>1 DEF Steps
  <1>21. CASE ServiceNow
    BY <1>21 DEF ServiceNow, Steps
  <1>22. CASE UNCHANGED vars
    BY <1>22 DEF vars, exec, Around, Steps
  <1>. QED
    BY <1>1, <1>2, <1>3, <1>4, <1>5, <1>6, <1>7, <1>8, <1>9, <1>10, <1>11, <1>12, <1>13,
       <1>14, <1>15, <1>16, <1>17, <1>18, <1>19, <1>20, <1>21, <1>22
       DEF Next, Progress, Fault

-----------------------------------------------------------------------------
(* What those kinds of step leave alone.                                    *)

LEMMA LogGrows ==
  ASSUME IInv, NEW r \in OperationResult, Record(r)
  PROVE  /\ Len(log) \in Nat /\ Len(log') = Len(log) + 1
         /\ DOMAIN log = 1 .. Len(log) /\ DOMAIN log' = 1 .. Len(log) + 1
         /\ \A k \in DOMAIN log : log'[k] = log[k]
         /\ log'[Len(log) + 1] = r
         /\ call' = Idle
PROOF
  BY DEF Record, IInv, TypeOK

(* A delivery adds one job, for the operation in progress.                  *)
LEMMA JobsGrow ==
  ASSUME IInv, Deliver
  PROVE  /\ Len(jobs) \in Nat /\ DOMAIN jobs = 1 .. Len(jobs)
         /\ DOMAIN jobs' = 1 .. Len(jobs) + 1
         /\ \A j \in DOMAIN jobs : jobs'[j] = jobs[j]
         /\ jobs'[Len(jobs) + 1].endpoint = Endpoint(Op.action)
         /\ jobs'[Len(jobs) + 1].plugin = Op.plugin
         /\ jobs'[Len(jobs) + 1].target = Target(Op)
         /\ jobs'[Len(jobs) + 1].op = Len(log) + 1
         /\ jobs'[Len(jobs) + 1].status = "pending"
         /\ UNCHANGED sn
PROOF
  <1>1. jobs \in Seq(Job)
    BY DEF IInv, TypeOK, AppManagerTypeOK
  <1>2. /\ jobs' = Append(jobs, [endpoint |-> Endpoint(Op.action), plugin |-> Op.plugin,
                                 target |-> Target(Op), op |-> Len(log) + 1,
                                 status |-> "pending", was |-> None])
        /\ UNCHANGED sn
    BY DEF Deliver, Accept
  <1>. HIDE DEF Deliver
  <1>. QED
    BY <1>1, <1>2

(* The instance only ever finishes pending jobs.                            *)
LEMMA JobsFinish ==
  ASSUME IInv, Instance
  PROVE  /\ DOMAIN jobs' = DOMAIN jobs
         /\ \A j \in DOMAIN jobs : /\ jobs'[j].endpoint = jobs[j].endpoint
                                   /\ jobs'[j].plugin = jobs[j].plugin
                                   /\ jobs'[j].target = jobs[j].target
                                   /\ jobs'[j].op = jobs[j].op
                                   /\ jobs[j].status # "pending" => jobs'[j] = jobs[j]
PROOF
  <1>1. jobs \in Seq(Job) /\ DOMAIN jobs = 1 .. Len(jobs)
    BY DEF IInv, TypeOK, AppManagerTypeOK
  <1>2. PICK k \in DOMAIN jobs : JobSucceeds(k) \/ JobFails(k) \/ JobFindsTargetInstalled(k)
    BY DEF Instance
  <1>3. jobs[k].status = "pending" /\ jobs[k] \in Job
    BY <1>1, <1>2 DEF JobSucceeds, JobFails, JobFindsTargetInstalled
  <1>4. PICK finished : /\ jobs' = [jobs EXCEPT ![k] = finished]
                        /\ finished.endpoint = jobs[k].endpoint
                        /\ finished.plugin = jobs[k].plugin
                        /\ finished.target = jobs[k].target
                        /\ finished.op = jobs[k].op
    <2>1. CASE JobSucceeds(k)
      <3>. DEFINE it == [jobs[k] EXCEPT !.status = "success",
                                         !.was = sn[jobs[k].plugin].version]
      <3>1. jobs' = [jobs EXCEPT ![k] = it]
        BY <2>1 DEF JobSucceeds
      <3>2. /\ it.endpoint = jobs[k].endpoint /\ it.plugin = jobs[k].plugin
            /\ it.target = jobs[k].target /\ it.op = jobs[k].op
        BY <1>3 DEF Job
      <3>. QED
        BY <3>1, <3>2
    <2>2. CASE JobFails(k) \/ JobFindsTargetInstalled(k)
      <3>1. PICK status \in {"failed", "already"} :
              jobs' = [jobs EXCEPT ![k] = [@ EXCEPT !.status = status]]
        BY <2>2 DEF JobFails, JobFindsTargetInstalled
      <3>. DEFINE it == [jobs[k] EXCEPT !.status = status]
      <3>2. jobs' = [jobs EXCEPT ![k] = it]
        BY <3>1
      <3>3. /\ it.endpoint = jobs[k].endpoint /\ it.plugin = jobs[k].plugin
            /\ it.target = jobs[k].target /\ it.op = jobs[k].op
        BY <1>3 DEF Job
      <3>. QED
        BY <3>2, <3>3
    <2>. QED
      BY <1>2, <2>1, <2>2
  <1>. QED
    BY <1>1, <1>3, <1>4

(* Whatever is sent, the jobs there were stay as they are.                  *)
LEMMA SendsKeeps ==
  ASSUME IInv, Sends
  PROVE  /\ DOMAIN jobs \subseteq DOMAIN jobs'
         /\ \A j \in DOMAIN jobs : jobs'[j] = jobs[j]
         /\ \A j \in DOMAIN jobs' : \/ j \in DOMAIN jobs
                                    \/ j = Len(jobs) + 1 /\ Deliver
PROOF
  <1>1. CASE UNCHANGED remote
    BY <1>1 DEF remote
  <1>2. CASE Deliver
    BY <1>2, JobsGrow
  <1>. QED
    BY <1>1, <1>2 DEF Sends

LEMMA OpStays ==
  ASSUME UNCHANGED fixed, UNCHANGED <<phase, log, undo>>
  PROVE  /\ HasOp' <=> HasOp
         /\ Op' = Op
PROOF
  BY DEF HasOp, Op, fixed

(* The operation in progress is the one wanted next.                        *)
LEMMA OpWanted ==
  ASSUME IInv, HasOp
  PROVE  Op = Wanted(Len(log) + 1)
PROOF
  <1>1. Len(log) \in Nat /\ DOMAIN log = 1 .. Len(log) /\ undo \in Nat
    BY DEF IInv, TypeOK
  <1>2. CASE phase = "forward"
    <2>1. driver # "apply" \/ Failures = {}
      BY <1>2, AheadInOrder DEF IInv, Shape
    <2>. QED
      BY <1>2, <2>1 DEF Wanted, Op
  <1>3. CASE phase = "rollback"
    <2>1. PICK f \in Nat : Turned(f)
      BY <1>3 DEF IInv, Shape
    <2>2. driver = "apply" /\ f \in Failures /\ FirstFailure = f
      BY <2>1, FirstFailureOfTurned DEF Turned
    <2>3. undo < f /\ Len(log) + undo = 2 * f - 1
      BY <2>1 DEF Turned
    <2>4. f < Len(log) + 1 /\ 2 * f - (Len(log) + 1) = undo
      BY <1>1, <2>3
    <2>. QED
      BY <1>3, <2>2, <2>4 DEF Wanted, Op
  <1>. QED
    BY <1>2, <1>3 DEF HasOp

(* A new result leaves what was wanted before it as it was.                 *)
LEMMA WantedStays ==
  ASSUME IInv, UNCHANGED fixed, HasOp, NEW r \in OperationResult, Record(r)
  PROVE  \A k \in 1 .. Len(log) + 1 : Wanted(k)' = Wanted(k)
PROOF
  <1>. SUFFICES ASSUME NEW k \in 1 .. Len(log) + 1 PROVE Wanted(k)' = Wanted(k)
    OBVIOUS
  <1>1. /\ Len(log) \in Nat /\ DOMAIN log = 1 .. Len(log) /\ DOMAIN log' = 1 .. Len(log) + 1
        /\ \A i \in DOMAIN log : log'[i] = log[i]
        /\ driver' = driver /\ plan' = plan
    BY LogGrows DEF fixed
  <1>2. /\ \A i \in Failures : i \in Failures' /\ i \in 1 .. Len(log)
        /\ \A i \in Failures' : i \in Failures \/ i = Len(log) + 1
    BY <1>1 DEF Failures
  <1>3. CASE driver # "apply"
    BY <1>1, <1>3 DEF Wanted
  <1>4. CASE driver = "apply" /\ Failures = {}
    <2>1. \A i \in Failures' : k <= i
      BY <1>1, <1>2, <1>4
    <2>2. \A i \in Failures : k <= i
      BY <1>4
    <2>. QED
      BY <1>1, <2>1, <2>2 DEF Wanted
  <1>5. CASE driver = "apply" /\ Failures # {}
    <2>1. PICK f \in Nat : Turned(f)
      BY <1>5, AheadInOrder DEF IInv, Shape
    <2>2. f \in Failures /\ (\A i \in Failures : f <= i) /\ FirstFailure = f
      BY <2>1, FirstFailureOfTurned
    <2>3. f \in Failures' /\ \A i \in Failures' : f <= i
      <3>1. f \in Failures' /\ f \in 1 .. Len(log)
        BY <1>2, <2>2
      <3>2. f <= Len(log) + 1
        BY <1>1, <3>1
      <3>. QED
        BY <1>2, <2>2, <3>1, <3>2
    <2>4. \A g \in Failures' : g \in Nat
      BY <1>1, <1>2
    <2>5. \A g \in Failures' : (\A i \in Failures' : g <= i) => g = f
      BY <2>3, <2>4
    <2>6. FirstFailure' = f
      BY <2>3, <2>5 DEF FirstFailure
    <2>7. CASE \A i \in Failures : k <= i
      <3>1. \A i \in Failures' : k <= i
        BY <1>1, <1>2, <2>7
      <3>. QED
        BY <1>1, <2>7, <3>1 DEF Wanted
    <2>8. CASE ~ \A i \in Failures : k <= i
      <3>1. ~ \A i \in Failures' : k <= i
        BY <1>2, <2>8
      <3>2. f < k /\ undo > 0
        <4>1. ~(k <= f)
          BY <1>2, <2>2, <2>8
        <4>2. phase = "rollback"
          BY <1>5, AheadInOrder DEF HasOp, IInv, Shape
        <4>. QED
          BY <4>1, <4>2 DEF HasOp
      <3>3. 2 * f - k \in DOMAIN log
        <4>1. Len(log) + undo = 2 * f - 1 /\ undo \in Nat
          BY <2>1 DEF Turned, IInv, TypeOK
        <4>. QED
          BY <1>1, <3>2, <4>1
      <3>4. Wanted(k) = RollbackOf(log[2 * f - k])
        BY <1>5, <2>2, <2>8 DEF Wanted
      <3>5. Wanted(k)' = RollbackOf(log'[2 * f - k])
        BY <1>1, <1>5, <2>6, <3>1 DEF Wanted, RollbackOf
      <3>. QED
        BY <1>1, <3>3, <3>4, <3>5
    <2>. QED
      BY <2>7, <2>8
  <1>. QED
    BY <1>3, <1>4, <1>5

-----------------------------------------------------------------------------
(* Every kind of step preserves the invariants.                             *)

LEMMA KnownNext ==
  ASSUME IInv, Known, Told, UNCHANGED fixed, Steps
  PROVE  Known'
PROOF
  <1>1. /\ byId.known \subseteq byId'.known
        /\ driver' = driver /\ plan' = plan
    BY DEF Steps, Recorded, Learns, Continued, Around, exec, fixed
  <1>2. driver = "apply" /\ Unknown = {} => Unknown' = {}
    BY <1>1 DEF Unknown
  <1>3. ASSUME NEW r \in OperationResult, Recorded(r)
        PROVE  Known'
    <2>1. /\ HasOp /\ Record(r) /\ r.plugin = Op.plugin /\ r.action = Op.action
          /\ r.why = "not_found" <=> Op.plugin \notin byId.known
      BY <1>3 DEF Recorded, Tells
    <2>2. /\ Len(log) \in Nat /\ DOMAIN log = 1 .. Len(log)
          /\ DOMAIN log' = 1 .. Len(log) + 1
          /\ (\A k \in DOMAIN log : log'[k] = log[k])
          /\ log'[Len(log) + 1] = r /\ call' = Idle
      BY <2>1, LogGrows
    <2>3. \A k \in DOMAIN log' : k \in DOMAIN log \/ k = Len(log) + 1
      BY <2>2
    <2>4. \A k \in DOMAIN log' : log'[k].why # "not_found" => log'[k].plugin \in byId'.known
      BY <1>1, <2>1, <2>2, <2>3 DEF Known
    <2>5. call'.stage = "idle"
      BY <2>2 DEF Idle
    <2>6. driver' = "apply" /\ phase' \in {"forward", "rollback"} => Unknown' = {}
      BY <1>1, <1>2, <2>1 DEF Known, HasOp
    <2>7. ASSUME driver = "apply", r.why = "not_found"
          PROVE  r.action = "install"
      <3>1. Op.plugin \notin byId.known
        BY <2>1, <2>7
      <3>2. CASE phase = "forward"
        <4>1. Len(log) + 1 \in DOMAIN plan /\ Op = plan[Len(log) + 1]
          BY <2>1, <3>2, OpType
        <4>2. Unknown = {} /\ Op.action \in PlanActions
          BY <2>7, <3>2, <4>1 DEF Known, IInv, PlanWellFormed
        <4>3. Op.action \notin {"activate", "upgrade"}
          BY <3>1, <4>1, <4>2 DEF Unknown
        <4>. QED
          BY <2>1, <4>2, <4>3 DEF PlanActions
      <3>3. CASE phase = "rollback"
        <4>1. undo \in DOMAIN log /\ Op.plugin = log[undo].plugin
          BY <2>1, <3>3, OpType
        <4>2. Success(log[undo])
          <5>1. PICK f \in Nat : Turned(f)
            BY <3>3 DEF IInv, Shape
          <5>2. undo \in 1 .. f /\ undo < f
            BY <2>1, <3>3, <5>1 DEF Turned, HasOp, IInv, TypeOK
          <5>. QED
            BY <5>1, <5>2 DEF Turned
        <4>. QED
          BY <3>1, <4>1, <4>2 DEF Success, Known
      <3>. QED
        BY <2>1, <3>2, <3>3 DEF HasOp
    <2>8. ValidatedIdsStayKnown'
      BY <1>1, <2>2, <2>3, <2>7 DEF ValidatedIdsStayKnown, Known
    <2>. QED
      BY <2>4, <2>5, <2>6, <2>8 DEF Known
  <1>4. ASSUME NEW c \in Call, Continued(c)
        PROVE  Known'
    <2>1. UNCHANGED <<phase, log, undo, byId>> /\ HasOp
      BY <1>4 DEF Continued, Goto
    <2>2. Op' = Op /\ HasOp'
      BY <2>1, OpStays
    <2>3. Op.plugin \in byId.known
      <3>1. Op.plugin \in byId.known \/ call.stage \in {"submit", "poll"}
        BY <1>4 DEF Continued
      <3>. QED
        BY <2>1, <3>1 DEF Known
    <2>. QED
      BY <1>1, <2>1, <2>2, <2>3 DEF Known, ValidatedIdsStayKnown, Unknown
  <1>5. CASE Around
    <2>1. /\ UNCHANGED <<log, undo, byId, driver, plan>>
          /\ ValidatedIdsStayKnown' = ValidatedIdsStayKnown
          /\ Unknown' = Unknown
      BY <1>1, <1>5 DEF Around, ValidatedIdsStayKnown, Unknown
    <2>2. CASE UNCHANGED <<phase, call>>
      BY <2>1, <2>2 DEF Known, HasOp, Op
    <2>3. CASE Ends
      BY <2>1, <2>3 DEF Known, HasOp, Ends
    <2>4. CASE phase = "validate" /\ phase' = "forward" /\ Unknown = {} /\ UNCHANGED call
      BY <2>1, <2>4 DEF Known, Told, Idle
    <2>. QED
      BY <1>5, <2>2, <2>3, <2>4 DEF Around
  <1>6. CASE Instance /\ UNCHANGED exec
    <2>1. UNCHANGED <<phase, log, undo, call, byId, driver, plan>>
      BY <1>1, <1>6 DEF exec
    <2>. QED
      BY <2>1 DEF Known, HasOp, Op, ValidatedIdsStayKnown, Unknown
  <1>. QED
    BY <1>3, <1>4, <1>5, <1>6 DEF Steps

LEMMA ToldNext ==
  ASSUME IInv, Told, UNCHANGED fixed, Steps
  PROVE  Told'
PROOF
  <1>a. None = 0 /\ Idle.tracker = None /\ Idle.stage = "idle"
    BY DEF None, Idle
  <1>1. ASSUME NEW r \in OperationResult, Recorded(r)
        PROVE  Told'
    <2>1. /\ Record(r) /\ Sends /\ r.tracker = call.tracker
          /\ r.why = "done" => call.tracker # None /\ jobs[call.tracker].status = "success"
          /\ r.why \in {"failed", "noop"} /\ call.tracker # None =>
               jobs[call.tracker].status \in {"failed", "already"}
      BY <1>1 DEF Recorded, Tells
    <2>2. /\ Len(log) \in Nat /\ DOMAIN log = 1 .. Len(log)
          /\ DOMAIN log' = 1 .. Len(log) + 1
          /\ (\A k \in DOMAIN log : log'[k] = log[k])
          /\ log'[Len(log) + 1] = r /\ call' = Idle
      BY <2>1, LogGrows
    <2>3. /\ DOMAIN jobs \subseteq DOMAIN jobs'
          /\ \A j \in DOMAIN jobs : jobs'[j] = jobs[j]
      BY <2>1, SendsKeeps
    <2>4. ASSUME NEW k \in DOMAIN log
          PROVE  /\ log'[k].why = "done" => log'[k].tracker # None
                 /\ log'[k].tracker # None =>
                      /\ log'[k].tracker \in DOMAIN jobs'
                      /\ jobs'[log'[k].tracker].op = k
                      /\ log'[k].why = "done" => jobs'[log'[k].tracker].status = "success"
                      /\ log'[k].why \in {"failed", "noop"} =>
                           jobs'[log'[k].tracker].status \in {"failed", "already"}
      BY <2>2, <2>3 DEF Told, ResultsMatchJobs
    <2>5. /\ r.why = "done" => r.tracker # None
          /\ r.tracker # None =>
               /\ r.tracker \in DOMAIN jobs'
               /\ jobs'[r.tracker].op = Len(log) + 1
               /\ r.why = "done" => jobs'[r.tracker].status = "success"
               /\ r.why \in {"failed", "noop"} =>
                    jobs'[r.tracker].status \in {"failed", "already"}
      BY <2>1, <2>3 DEF Told
    <2>6. \A k \in DOMAIN log' : k \in DOMAIN log \/ k = Len(log) + 1
      BY <2>2
    <2>7. ResultsMatchJobs'
      BY <2>2, <2>4, <2>5, <2>6 DEF ResultsMatchJobs
    <2>. QED
      BY <1>a, <2>2, <2>7 DEF Told
  <1>2. ASSUME NEW c \in Call, Continued(c)
        PROVE  Told'
    <2>1. /\ UNCHANGED <<phase, log, undo>> /\ HasOp /\ call' = c /\ Sends
          /\ phase # "validate"
      BY <1>2 DEF Continued, Goto, Sends, HasOp
    <2>2. Op' = Op
      BY <2>1, OpStays
    <2>3. /\ DOMAIN jobs \subseteq DOMAIN jobs'
          /\ \A j \in DOMAIN jobs : jobs'[j] = jobs[j]
      BY <2>1, SendsKeeps
    <2>4. ResultsMatchJobs'
      BY <2>1, <2>3 DEF ResultsMatchJobs, Told
    <2>5. ASSUME c.tracker # None
          PROVE  c.tracker \in DOMAIN jobs' /\ jobs'[c.tracker].op = Len(log) + 1
      <3>1. \/ c.tracker = call.tracker
            \/ c.tracker = Len(jobs) + 1 /\ Deliver
        BY <1>2, <2>5 DEF Continued
      <3>2. CASE c.tracker = call.tracker
        BY <2>3, <2>5, <3>2 DEF Told
      <3>3. CASE c.tracker = Len(jobs) + 1 /\ Deliver
        BY <3>3, JobsGrow
      <3>. QED
        BY <3>1, <3>2, <3>3
    <2>6. c.stage \in {"idle", "submit"} => c.tracker = None
      BY <1>2 DEF Continued, Told
    <2>7. c.stage = "refresh" =>
            /\ c.tracker # None /\ jobs'[c.tracker].status = "success"
            /\ Op.action = "install"
      <3>1. c.stage = "refresh" =>
              /\ c.tracker = call.tracker /\ c.tracker # None
              /\ jobs[c.tracker].status = "success"
              /\ Op.action = "install"
        BY <1>2 DEF Continued
      <3>. QED
        BY <2>3, <3>1 DEF Told
    <2>. QED
      BY <2>1, <2>2, <2>4, <2>5, <2>6, <2>7 DEF Told
  <1>3. CASE Around
    <2>1. UNCHANGED <<log, undo, plan>> /\ UNCHANGED jobs
      BY <1>3 DEF Around, remote, fixed
    <2>2. ResultsMatchJobs'
      BY <2>1 DEF Told, ResultsMatchJobs
    <2>3. CASE UNCHANGED <<phase, call>>
      BY <2>1, <2>2, <2>3 DEF Told, HasOp, Op
    <2>4. CASE Ends
      BY <1>a, <2>1, <2>2, <2>4 DEF Told, HasOp, Ends
    <2>5. CASE phase = "validate" /\ phase' = "forward" /\ UNCHANGED call
      <3>1. call' = Idle
        BY <2>5 DEF Told
      <3>. QED
        BY <1>a, <2>2, <2>5, <3>1 DEF Told
    <2>. QED
      BY <1>3, <2>3, <2>4, <2>5 DEF Around
  <1>4. CASE Instance /\ UNCHANGED exec
    <2>1. UNCHANGED <<phase, log, undo, call, plan>>
      BY <1>4 DEF exec, fixed
    <2>2. Op' = Op /\ HasOp' = HasOp
      BY <2>1 DEF HasOp, Op
    <2>3. /\ DOMAIN jobs' = DOMAIN jobs
          /\ \A j \in DOMAIN jobs : /\ jobs'[j].op = jobs[j].op
                                    /\ jobs[j].status # "pending" => jobs'[j] = jobs[j]
      BY <1>4, JobsFinish
    <2>4. ResultsMatchJobs'
      <3>1. ASSUME NEW k \in DOMAIN log, log[k].tracker # None
            PROVE  /\ log[k].tracker \in DOMAIN jobs'
                   /\ jobs'[log[k].tracker].op = k
                   /\ log[k].why = "done" => jobs'[log[k].tracker].status = "success"
                   /\ log[k].why \in {"failed", "noop"} =>
                        jobs'[log[k].tracker].status \in {"failed", "already"}
        BY <2>3, <3>1 DEF Told, ResultsMatchJobs
      <3>. QED
        BY <2>1, <3>1 DEF Told, ResultsMatchJobs
    <2>5. call.stage = "refresh" => call.tracker \in DOMAIN jobs
      BY DEF Told
    <2>. QED
      BY <2>1, <2>2, <2>3, <2>4, <2>5 DEF Told
  <1>. QED
    BY <1>1, <1>2, <1>3, <1>4 DEF Steps

LEMMA WantedNext ==
  ASSUME IInv, JobsAreWanted, UNCHANGED fixed, Steps
  PROVE  JobsAreWanted'
PROOF
  <1>0. Len(log) \in Nat
    BY DEF IInv, TypeOK
  <1>a. ASSUME Sends, HasOp, Len(log') \in {Len(log), Len(log) + 1},
               \A k \in 1 .. Len(log) + 1 : Wanted(k)' = Wanted(k)
        PROVE  JobsAreWanted'
    <2>. SUFFICES ASSUME NEW j \in DOMAIN jobs'
                  PROVE  \E k \in 1 .. Len(log') + 1 :
                           /\ jobs'[j].op = k
                           /\ jobs'[j].endpoint = Endpoint(Wanted(k)'.action)
                           /\ jobs'[j].plugin = Wanted(k)'.plugin
                           /\ jobs'[j].target = Target(Wanted(k)')
      BY DEF JobsAreWanted, Endpoint, Target
    <2>1. \A k \in 1 .. Len(log) + 1 : k \in 1 .. Len(log') + 1
      BY <1>0, <1>a
    <2>2. \/ j \in DOMAIN jobs /\ jobs'[j] = jobs[j]
          \/ j = Len(jobs) + 1 /\ Deliver
      BY <1>a, SendsKeeps
    <2>3. CASE j \in DOMAIN jobs /\ jobs'[j] = jobs[j]
      <3>1. PICK k \in 1 .. Len(log) + 1 :
              /\ jobs[j].op = k
              /\ jobs[j].endpoint = Endpoint(Wanted(k).action)
              /\ jobs[j].plugin = Wanted(k).plugin
              /\ jobs[j].target = Target(Wanted(k))
        BY <2>3 DEF JobsAreWanted
      <3>. QED
        BY <1>a, <2>1, <2>3, <3>1
    <2>4. CASE j = Len(jobs) + 1 /\ Deliver
      <3>1. PICK k \in 1 .. Len(log) + 1 : k = Len(log) + 1
        BY <1>0
      <3>2. Wanted(k)' = Op
        <4>1. Wanted(k)' = Wanted(k)
          BY <1>a, <3>1
        <4>2. Wanted(k) = Op
          BY <1>a, <3>1, OpWanted
        <4>. QED
          BY <4>1, <4>2
      <3>3. /\ jobs'[j].op = k /\ jobs'[j].endpoint = Endpoint(Op.action)
            /\ jobs'[j].plugin = Op.plugin /\ jobs'[j].target = Target(Op)
        BY <2>4, <3>1, JobsGrow
      <3>. QED
        BY <2>1, <3>1, <3>2, <3>3
    <2>. QED
      BY <2>2, <2>3, <2>4
  <1>b. UNCHANGED log => \A k : Wanted(k)' = Wanted(k)
    BY DEF Wanted, Failures, FirstFailure, RollbackOf, fixed
  <1>c. ASSUME UNCHANGED log, DOMAIN jobs' = DOMAIN jobs,
               \A j \in DOMAIN jobs : /\ jobs'[j].endpoint = jobs[j].endpoint
                                     /\ jobs'[j].plugin = jobs[j].plugin
                                     /\ jobs'[j].target = jobs[j].target
                                     /\ jobs'[j].op = jobs[j].op
        PROVE  JobsAreWanted'
    <2>. SUFFICES ASSUME NEW j \in DOMAIN jobs'
                  PROVE  \E k \in 1 .. Len(log') + 1 :
                           /\ jobs'[j].op = k
                           /\ jobs'[j].endpoint = Endpoint(Wanted(k)'.action)
                           /\ jobs'[j].plugin = Wanted(k)'.plugin
                           /\ jobs'[j].target = Target(Wanted(k)')
      BY DEF JobsAreWanted, Endpoint, Target
    <2>1. PICK k \in 1 .. Len(log) + 1 :
            /\ jobs[j].op = k
            /\ jobs[j].endpoint = Endpoint(Wanted(k).action)
            /\ jobs[j].plugin = Wanted(k).plugin
            /\ jobs[j].target = Target(Wanted(k))
      BY <1>c DEF JobsAreWanted
    <2>2. Wanted(k)' = Wanted(k)
      BY <1>b, <1>c
    <2>. QED
      BY <1>c, <2>1, <2>2
  <1>1. ASSUME NEW r \in OperationResult, Recorded(r)
        PROVE  JobsAreWanted'
    <2>1. HasOp /\ Record(r) /\ Sends
      BY <1>1 DEF Recorded
    <2>2. Len(log') = Len(log) + 1
      BY <2>1, LogGrows
    <2>3. \A k \in 1 .. Len(log) + 1 : Wanted(k)' = Wanted(k)
      BY <2>1, WantedStays
    <2>. QED
      BY <1>a, <2>1, <2>2, <2>3
  <1>2. ASSUME NEW c \in Call, Continued(c)
        PROVE  JobsAreWanted'
    BY <1>2, <1>a, <1>b DEF Continued, Goto, Sends
  <1>3. CASE Around
    BY <1>3, <1>c DEF Around, remote
  <1>4. CASE Instance /\ UNCHANGED exec
    <2>1. UNCHANGED log
      BY <1>4 DEF exec
    <2>2. /\ DOMAIN jobs' = DOMAIN jobs
          /\ \A j \in DOMAIN jobs : /\ jobs'[j].endpoint = jobs[j].endpoint
                                    /\ jobs'[j].plugin = jobs[j].plugin
                                    /\ jobs'[j].target = jobs[j].target
                                    /\ jobs'[j].op = jobs[j].op
      BY <1>4, JobsFinish
    <2>. QED
      BY <1>c, <2>1, <2>2
  <1>. QED
    BY <1>1, <1>2, <1>3, <1>4 DEF Steps

LEMMA ClearedNext ==
  ASSUME IInv, Known, Told, JobsAreWanted, Cleared, UNCHANGED fixed, Steps
  PROVE  Cleared'
PROOF
  <1>a. /\ byId \in Snapshot /\ origin.snapshot \in Snapshot
        /\ Len(log) \in Nat /\ DOMAIN log = 1 .. Len(log)
        /\ driver' = driver /\ plan' = plan /\ origin' = origin
    BY DEF IInv, TypeOK, fixed
  (* What a program of direct calls asks is what it was told to ask. *)
  <1>b. ASSUME HasOp, driver = "calls"
        PROVE  /\ Op = plan[Len(log) + 1]
               /\ Op.action \in ForwardActions
    <2>1. phase = "forward"
      BY <1>b DEF HasOp, IInv, Shape, Turned
    <2>. QED
      BY <1>b, <2>1, OpType DEF IInv, PlanWellFormed
  <1>c. ASSUME HasOp, driver = "calls", call.stage = "submit"
        PROVE  /\ Endpoint(Op.action) = "uninstall" => Op.plugin \notin origin.snapshot.base
               /\ Op.action \in RemovalActions /\ ~Op.force =>
                    \A q \in origin.snapshot.known \ {Op.plugin} :
                      Op.plugin \in origin.snapshot.deps[q] =>
                        \E k \in DOMAIN log : /\ log[k].action = "install"
                                              /\ log[k].plugin = q
                                              /\ log[k].why = "done"
    <2>1. Op.action \in ForwardActions /\ MayBeSent
      BY <1>b, <1>c DEF Cleared
    <2>2. Endpoint(Op.action) = "uninstall" => Op.action = "uninstall"
      BY <2>1 DEF Endpoint, ForwardActions, PlanActions, RemovalActions
    <2>3. Endpoint(Op.action) = "uninstall" => Op.plugin \notin origin.snapshot.base
      BY <2>1, <2>2 DEF MayBeSent, Cleared
    <2>4. ASSUME Op.action \in RemovalActions, ~Op.force,
                 NEW q \in origin.snapshot.known \ {Op.plugin},
                 Op.plugin \in origin.snapshot.deps[q]
          PROVE  \E k \in DOMAIN log : /\ log[k].action = "install"
                                       /\ log[k].plugin = q
                                       /\ log[k].why = "done"
      <3>1. q \in Plugins /\ q \in byId.known \ {Op.plugin}
        BY <1>a, <2>4 DEF Snapshot, Cleared
      <3>2. Op.plugin \notin byId.deps[q]
        BY <2>1, <2>4, <3>1 DEF MayBeSent, LocalDependents
      <3>. QED
        BY <2>4, <3>1, <3>2 DEF Cleared
    <2>. QED
      BY <2>3, <2>4
  <1>d. ASSUME \A j \in DOMAIN jobs' :
                 \/ /\ j \in DOMAIN jobs
                    /\ jobs'[j].endpoint = jobs[j].endpoint
                    /\ jobs'[j].plugin = jobs[j].plugin
                    /\ jobs'[j].op = jobs[j].op
                 \/ /\ j = Len(jobs) + 1
                    /\ HasOp /\ call.stage = "submit" /\ Deliver,
               \A k \in DOMAIN log : k \in DOMAIN log' /\ log'[k] = log[k]
        PROVE  BaseNeverUninstalled' /\ UnforcedRemovalSparesDependents'
    <2>1. ASSUME NEW j \in DOMAIN jobs', driver = "calls",
                 jobs'[j].endpoint = "uninstall"
          PROVE  jobs'[j].plugin \notin origin.snapshot.base
      <3>1. CASE j \in DOMAIN jobs /\ jobs'[j].endpoint = jobs[j].endpoint
                                   /\ jobs'[j].plugin = jobs[j].plugin
        BY <2>1, <3>1 DEF Cleared, BaseNeverUninstalled
      <3>2. CASE j = Len(jobs) + 1 /\ HasOp /\ call.stage = "submit" /\ Deliver
        <4>1. jobs'[j].endpoint = Endpoint(Op.action) /\ jobs'[j].plugin = Op.plugin
          BY <3>2, JobsGrow
        <4>. QED
          BY <1>c, <2>1, <3>2, <4>1
      <3>. QED
        BY <1>d, <3>1, <3>2
    <2>2. ASSUME NEW j \in DOMAIN jobs', driver = "calls",
                 plan[jobs'[j].op].action \in RemovalActions, ~plan[jobs'[j].op].force,
                 NEW q \in origin.snapshot.known \ {plan[jobs'[j].op].plugin},
                 plan[jobs'[j].op].plugin \in origin.snapshot.deps[q]
          PROVE  \E k \in 1 .. jobs'[j].op - 1 : /\ log'[k].action = "install"
                                                 /\ log'[k].plugin = q
                                                 /\ log'[k].why = "done"
      <3>1. CASE j \in DOMAIN jobs /\ jobs'[j].op = jobs[j].op
        <4>1. \E k \in 1 .. jobs[j].op - 1 : /\ log[k].action = "install"
                                             /\ log[k].plugin = q
                                             /\ log[k].why = "done"
          BY <2>2, <3>1 DEF Cleared, UnforcedRemovalSparesDependents
        <4>2. jobs[j].op \in 1 .. Len(log) + 1
          BY <3>1 DEF JobsAreWanted
        <4>3. \A k \in 1 .. jobs[j].op - 1 : k \in DOMAIN log
          BY <1>a, <4>2
        <4>. QED
          BY <1>d, <3>1, <4>1, <4>3
      <3>2. CASE j = Len(jobs) + 1 /\ HasOp /\ call.stage = "submit" /\ Deliver
        <4>1. jobs'[j].op = Len(log) + 1
          BY <3>2, JobsGrow
        <4>2. plan[jobs'[j].op] = Op
          BY <1>b, <2>2, <3>2, <4>1
        <4>3. PICK k \in DOMAIN log : /\ log[k].action = "install"
                                      /\ log[k].plugin = q
                                      /\ log[k].why = "done"
          BY <1>c, <2>2, <3>2, <4>2
        <4>4. k \in 1 .. jobs'[j].op - 1
          BY <1>a, <4>1, <4>3
        <4>. QED
          BY <1>d, <4>3, <4>4
      <3>. QED
        BY <1>d, <3>1, <3>2
    <2>3. BaseNeverUninstalled'
      BY <1>a, <2>1 DEF BaseNeverUninstalled
    <2>4. UnforcedRemovalSparesDependents'
      BY <1>a, <2>2 DEF UnforcedRemovalSparesDependents
    <2>. QED
      BY <2>3, <2>4
  <1>1. ASSUME NEW r \in OperationResult, Recorded(r)
        PROVE  Cleared'
    <2>1. /\ HasOp /\ Record(r) /\ Sends /\ r.plugin = Op.plugin
          /\ UNCHANGED byId \/ Learns(r)
      BY <1>1 DEF Recorded, Tells
    <2>2. /\ DOMAIN log' = 1 .. Len(log) + 1
          /\ (\A k \in DOMAIN log : log'[k] = log[k])
          /\ log'[Len(log) + 1] = r /\ call' = Idle
      BY <2>1, LogGrows
    <2>3. BaseNeverUninstalled' /\ UnforcedRemovalSparesDependents'
      <3>1. \A k \in DOMAIN log : k \in DOMAIN log'
        BY <1>a, <2>2
      <3>2. \A j \in DOMAIN jobs' :
              \/ j \in DOMAIN jobs /\ jobs'[j] = jobs[j]
              \/ j = Len(jobs) + 1 /\ call.stage = "submit" /\ Deliver
        BY <2>1, SendsKeeps DEF Sends, remote
      <3>. QED
        BY <1>d, <2>1, <2>2, <3>1, <3>2
    <2>4. byId.base \subseteq byId'.base /\ byId.known \subseteq byId'.known
      BY <2>1 DEF Learns
    <2>5. ASSUME NEW q \in Plugins
          PROVE  \/ byId'.deps[q] = origin.snapshot.deps[q]
                 \/ \E k \in DOMAIN log' : /\ log'[k].action = "install"
                                           /\ log'[k].plugin = q
                                           /\ log'[k].why = "done"
      <3>1. CASE byId'.deps[q] = byId.deps[q]
        <4>1. \A k \in DOMAIN log : k \in DOMAIN log'
          BY <1>a, <2>2
        <4>. QED
          BY <2>2, <3>1, <4>1 DEF Cleared
      <3>2. CASE Learns(r) /\ q = Op.plugin
        <4>1. Len(log) + 1 \in DOMAIN log'
          BY <1>a, <2>2
        <4>. QED
          BY <2>1, <2>2, <3>2, <4>1 DEF Learns
      <3>. QED
        BY <1>a, <2>1, <3>1, <3>2 DEF Learns, Snapshot
    <2>. QED
      BY <1>a, <2>2, <2>3, <2>4, <2>5 DEF Cleared, Idle
  <1>2. ASSUME NEW c \in Call, Continued(c)
        PROVE  Cleared'
    <2>1. /\ UNCHANGED <<phase, log, undo, byId>> /\ HasOp /\ call' = c /\ Sends
      BY <1>2 DEF Continued, Goto, Sends
    <2>2. Op' = Op
      BY <2>1, OpStays
    <2>3. c.stage = "submit" => MayBeSent
      BY <1>2 DEF Continued, Cleared
    <2>4. BaseNeverUninstalled' /\ UnforcedRemovalSparesDependents'
      <3>1. \A j \in DOMAIN jobs' :
              \/ j \in DOMAIN jobs /\ jobs'[j] = jobs[j]
              \/ j = Len(jobs) + 1 /\ call.stage = "submit" /\ Deliver
        BY <2>1, SendsKeeps DEF Sends, remote
      <3>. QED
        BY <1>d, <2>1, <3>1
    <2>. QED
      BY <1>a, <2>1, <2>2, <2>3, <2>4 DEF Cleared, MayBeSent, LocalDependents
  <1>3. CASE Around
    <2>1. UNCHANGED <<log, undo, byId, jobs>>
      BY <1>3 DEF Around, remote
    <2>2. BaseNeverUninstalled' /\ UnforcedRemovalSparesDependents'
      BY <1>d, <2>1
    <2>3. HasOp' /\ call'.stage = "submit" => MayBeSent'
      <3>1. CASE UNCHANGED <<phase, call>>
        BY <1>a, <2>1, <3>1 DEF Cleared, MayBeSent, LocalDependents, HasOp, Op
      <3>2. CASE Ends
        BY <3>2 DEF HasOp, Ends
      <3>3. CASE phase = "validate" /\ UNCHANGED call
        BY <3>3 DEF Told, Idle
      <3>. QED
        BY <1>3, <3>1, <3>2, <3>3 DEF Around
    <2>. QED
      BY <1>a, <2>1, <2>2, <2>3 DEF Cleared
  <1>4. CASE Instance /\ UNCHANGED exec
    <2>1. UNCHANGED <<phase, log, undo, call, byId>>
      BY <1>4 DEF exec
    <2>2. BaseNeverUninstalled' /\ UnforcedRemovalSparesDependents'
      BY <1>4, <1>d, <2>1, JobsFinish
    <2>3. HasOp' /\ call'.stage = "submit" => MayBeSent'
      BY <1>a, <2>1 DEF Cleared, MayBeSent, LocalDependents, HasOp, Op
    <2>. QED
      BY <1>a, <2>1, <2>2, <2>3 DEF Cleared
  <1>. QED
    BY <1>1, <1>2, <1>3, <1>4 DEF Steps

LEMMA InitSafe == Init => SafeInv
PROOF
  <1>. SUFFICES ASSUME Init PROVE SafeInv
    OBVIOUS
  <1>1. IInv
    BY InitInv
  <1>2. log = <<>> /\ jobs = <<>> /\ call = Idle /\ origin.snapshot = byId
    BY DEF Init
  <1>3. call.stage = "idle" /\ call.tracker = None
    BY <1>2 DEF Idle
  <1>4. driver = "apply" => phase = "validate"
    BY DEF Init
  <1>5. Known
    BY <1>2, <1>3, <1>4 DEF Known, ValidatedIdsStayKnown
  <1>6. Told
    BY <1>2, <1>3 DEF Told, ResultsMatchJobs
  <1>7. JobsAreWanted
    BY <1>2 DEF JobsAreWanted
  <1>8. Cleared
    BY <1>2, <1>3 DEF Cleared, BaseNeverUninstalled, UnforcedRemovalSparesDependents
  <1>. QED
    BY <1>1, <1>5, <1>6, <1>7, <1>8 DEF SafeInv

LEMMA NextSafe == SafeInv /\ [Next]_vars => SafeInv'
PROOF
  <1>. SUFFICES ASSUME SafeInv, [Next]_vars PROVE SafeInv'
    OBVIOUS
  <1>1. IInv /\ Known /\ Told /\ JobsAreWanted /\ Cleared
    BY DEF SafeInv
  <1>2. UNCHANGED fixed /\ Steps
    BY <1>1, NextWays
  <1>3. IInv'
    BY <1>1, NextInv
  <1>. QED
    BY <1>1, <1>2, <1>3, KnownNext, ToldNext, WantedNext, ClearedNext DEF SafeInv

(* What the requests rest on holds in every run.                            *)
THEOREM Safe == Spec => []SafeInv
PROOF
  BY InitSafe, NextSafe, PTL DEF Spec

(* Nothing is ever asked of ServiceNow but what the program wants at that    *)
(* place, whatever is retried and however often: after a failure only the    *)
(* inverses of completed operations (apply_plan, run_rollback,               *)
(* _send_with_retry).                                                        *)
THEOREM OnlyWantedJobs == Spec => []JobsAreWanted
PROOF
  <1>1. SafeInv => JobsAreWanted
    BY DEF SafeInv
  <1>. QED
    BY <1>1, Safe, PTL

(* A result that names a tracker tells the truth about the job submitted     *)
(* for it, for good: "done" only if it succeeded, "failed" or "already       *)
(* installed" only if it did not (ProgressPoller.poll, OperationResult).     *)
THEOREM TrackedTruth == Spec => []ResultsMatchJobs
PROOF
  <1>1. SafeInv => ResultsMatchJobs
    BY DEF SafeInv, Told
  <1>. QED
    BY <1>1, Safe, PTL

(* Pre-validation is enough: no activate or upgrade of an applied plan and   *)
(* no rollback step finds its plugin missing (apply_plan, _validate_ids).    *)
THEOREM ValidationSuffices == Spec => []ValidatedIdsStayKnown
PROOF
  <1>1. SafeInv => ValidatedIdsStayKnown
    BY DEF SafeInv, Known
  <1>. QED
    BY <1>1, Safe, PTL

(* No direct call, forced or not, gets a base plugin uninstalled             *)
(* (uninstall's refusal).                                                    *)
THEOREM BaseStays == Spec => []BaseNeverUninstalled
PROOF
  <1>1. SafeInv => BaseNeverUninstalled
    BY DEF SafeInv, Cleared
  <1>. QED
    BY <1>1, Safe, PTL

(* No unforced deactivate or uninstall is sent while a plugin of the         *)
(* inventory depends on its target, but for those this executor installed    *)
(* itself (the impact gate, _refresh_one).                                   *)
THEOREM GateHolds == Spec => []UnforcedRemovalSparesDependents
PROOF
  <1>1. SafeInv => UnforcedRemovalSparesDependents
    BY DEF SafeInv, Cleared
  <1>. QED
    BY <1>1, Safe, PTL

-----------------------------------------------------------------------------
(* A failed plan that is told everything leaves nothing behind.             *)

(* A call is under way only while the program is at an operation, and the    *)
(* requests of operations that are not under way have their results.        *)
Engaged ==
  phase \notin {"raised", "interrupted"} =>
    /\ call.stage # "idle" => HasOp
    /\ call.stage = "idle" => \A j \in DOMAIN jobs : jobs[j].op <= Len(log)

(* What the results say beyond ResultsMatchJobs: refusals name no tracker,   *)
(* an upgrade's rollback_version is what its job found, and only installs    *)
(* and upgrades take "already installed" for success.                        *)
Answers ==
  \A k \in DOMAIN log :
    /\ log[k].why \in {"not_found", "base", "blocked", "refused"} => log[k].tracker = None
    /\ log[k].action = "upgrade" /\ log[k].rollback_version # None =>
         /\ log[k].why = "done"
         /\ log[k].rollback_version = jobs[log[k].tracker].was
    /\ log[k].why = "noop" => log[k].action \in {"install", "upgrade"}

(* The run has been told everything so far: Informed before the end.        *)
InformedSoFar ==
  /\ \A j \in DOMAIN jobs : IF jobs[j].op <= Len(log) THEN log[jobs[j].op].tracker = j
                                                      ELSE call.tracker = j
  /\ \A k \in DOMAIN log :
       /\ log[k].why \notin {"timeout", "network"}
       /\ log[k].action = "upgrade" /\ Success(log[k]) => log[k].rollback_version # None
       /\ log[k].action \in RollbackActions => Success(log[k])

(* The job of the operation in progress has had its effect.                 *)
Landed == call.tracker # None /\ jobs[call.tracker].status = "success"

(* Beyond the plan's first n actions the instance is as it was found: the    *)
(* version of a plugin they do not install or upgrade, and whether one they  *)
(* do not activate is active.                                                *)
KeptBeyond(n) ==
  \A p \in Plugins :
    /\ (\A i \in 1 .. n : plan[i].plugin = p => plan[i].action = "activate") =>
         sn[p].version = origin.sn[p].version
    /\ (\A i \in 1 .. n : plan[i].plugin = p => plan[i].action # "activate") =>
         sn[p].active = origin.sn[p].active

(* The k-th action is the plan's first to change its plugin's version.       *)
FirstChange(k) ==
  \A i \in 1 .. k - 1 : plan[i].plugin = plan[k].plugin => plan[i].action = "activate"

(* The first n results of upgrades remember the version that was found.     *)
Remembers(n) ==
  \A k \in 1 .. n :
    plan[k].action = "upgrade" /\ FirstChange(k) =>
      log[k].rollback_version = origin.sn[plan[k].plugin].version

Recovering ==
  /\ phase \in {"validate", "forward"} =>
       /\ KeptBeyond(IF Landed THEN Len(log) + 1 ELSE Len(log))
       /\ Remembers(Len(log))
       /\ Landed /\ Op.action = "upgrade" /\ FirstChange(Len(log) + 1) =>
            jobs[call.tracker].was = origin.sn[Op.plugin].version
  /\ phase = "rollback" =>
       /\ KeptBeyond(IF Landed THEN undo - 1 ELSE undo)
       /\ Remembers(undo)
  /\ phase = "returned" /\ Failures # {} => KeptBeyond(0)

RestoreInv ==
  /\ Engaged /\ Answers
  /\ driver = "apply" /\ PlanFits /\ InformedSoFar => Recovering

-----------------------------------------------------------------------------
(* How the run goes on to be told, or not to be told, everything.           *)

(* A call ends with its result, and starts at an operation.                 *)
LEMMA EngagedNext ==
  ASSUME SafeInv, Engaged, UNCHANGED fixed, Steps
  PROVE  Engaged'
PROOF
  <1>0. IInv /\ Told /\ JobsAreWanted
    BY DEF SafeInv
  <1>1. /\ Len(log) \in Nat /\ Idle.stage = "idle"
        /\ \A j \in DOMAIN jobs : jobs[j].op \in Nat /\ jobs[j].op <= Len(log) + 1
    BY <1>0 DEF IInv, TypeOK, Idle, JobsAreWanted
  <1>2. ASSUME NEW r \in OperationResult, Recorded(r)
        PROVE  Engaged'
    <2>1. Record(r) /\ Sends
      BY <1>2 DEF Recorded
    <2>2. call' = Idle /\ Len(log') = Len(log) + 1
      BY <1>0, <2>1, LogGrows
    <2>3. /\ \A j \in DOMAIN jobs : jobs'[j] = jobs[j]
          /\ \A j \in DOMAIN jobs' : j \in DOMAIN jobs \/ (j = Len(jobs) + 1 /\ Deliver)
      BY <1>0, <2>1, SendsKeeps
    <2>4. Deliver => jobs'[Len(jobs) + 1].op = Len(log) + 1
      BY <1>0, JobsGrow
    <2>5. \A j \in DOMAIN jobs' : jobs'[j].op <= Len(log')
      BY <1>1, <2>2, <2>3, <2>4
    <2>. QED
      BY <1>1, <2>2, <2>5 DEF Engaged
  <1>3. ASSUME NEW c \in Call, Continued(c)
        PROVE  Engaged'
    <2>1. /\ UNCHANGED <<phase, log, undo>> /\ HasOp /\ call' = c
          /\ c.stage \in {"submit", "poll", "refresh"}
      BY <1>3 DEF Continued, Goto
    <2>2. HasOp'
      BY <2>1, OpStays
    <2>. QED
      BY <2>1, <2>2 DEF Engaged
  <1>4. CASE Around
    <2>1. UNCHANGED <<log, undo, plan, jobs>>
      BY <1>4 DEF Around, remote, fixed
    <2>2. CASE UNCHANGED <<phase, call>>
      BY <2>1, <2>2 DEF Engaged, HasOp
    <2>3. CASE Ends
      BY <2>1, <2>3 DEF Engaged, HasOp, Ends
    <2>4. CASE phase = "validate" /\ phase' = "forward" /\ UNCHANGED call
      <3>1. call.stage = "idle"
        BY <1>0, <1>1, <2>4 DEF Told
      <3>. QED
        BY <2>1, <2>4, <3>1 DEF Engaged
    <2>. QED
      BY <1>4, <2>2, <2>3, <2>4 DEF Around
  <1>5. CASE Instance /\ UNCHANGED exec
    <2>1. UNCHANGED <<phase, log, undo, call, plan>>
      BY <1>5 DEF exec, fixed
    <2>2. HasOp' = HasOp
      BY <2>1 DEF HasOp
    <2>3. /\ DOMAIN jobs' = DOMAIN jobs
          /\ \A j \in DOMAIN jobs : jobs'[j].op = jobs[j].op
      BY <1>0, <1>5, JobsFinish
    <2>. QED
      BY <2>1, <2>2, <2>3 DEF Engaged
  <1>. QED
    BY <1>2, <1>3, <1>4, <1>5 DEF Steps

(* A result says what the call's job came to, and that never changes.       *)
LEMMA AnswersNext ==
  ASSUME IInv, Told, Answers, UNCHANGED fixed, Steps
  PROVE  Answers'
PROOF
  <1>1. ASSUME NEW r \in OperationResult, Recorded(r)
        PROVE  Answers'
    <2>1. Record(r) /\ Sends /\ Tells(r)
      BY <1>1 DEF Recorded
    <2>2. /\ Len(log) \in Nat /\ DOMAIN log = 1 .. Len(log)
          /\ DOMAIN log' = 1 .. Len(log) + 1
          /\ (\A k \in DOMAIN log : log'[k] = log[k])
          /\ log'[Len(log) + 1] = r
      BY <2>1, LogGrows
    <2>3. \A j \in DOMAIN jobs : jobs'[j] = jobs[j]
      BY <2>1, SendsKeeps
    <2>4. \A k \in DOMAIN log' : k \in DOMAIN log \/ k = Len(log) + 1
      BY <2>2
    <2>5. \A k \in DOMAIN log : log[k].why = "done" => log[k].tracker \in DOMAIN jobs
      BY DEF Told, ResultsMatchJobs
    <2>6. r.why = "done" => call.tracker \in DOMAIN jobs /\ r.tracker = call.tracker
      BY <2>1 DEF Told, Tells
    <2>7. ASSUME NEW k \in DOMAIN log
          PROVE  /\ log'[k].why \in {"not_found", "base", "blocked", "refused"} =>
                      log'[k].tracker = None
                 /\ log'[k].action = "upgrade" /\ log'[k].rollback_version # None =>
                      /\ log'[k].why = "done"
                      /\ log'[k].rollback_version = jobs'[log'[k].tracker].was
                 /\ log'[k].why = "noop" => log'[k].action \in {"install", "upgrade"}
      BY <2>2, <2>3, <2>5 DEF Answers
    <2>8. /\ r.why \in {"not_found", "base", "blocked", "refused"} => r.tracker = None
          /\ r.action = "upgrade" /\ r.rollback_version # None =>
               r.why = "done" /\ r.rollback_version = jobs'[r.tracker].was
          /\ r.why = "noop" => r.action \in {"install", "upgrade"}
      BY <2>1, <2>3, <2>6 DEF Tells
    <2>. QED
      BY <2>2, <2>4, <2>7, <2>8 DEF Answers
  <1>2. ASSUME UNCHANGED log,
               \A k \in DOMAIN log : log[k].why = "done" =>
                 jobs'[log[k].tracker] = jobs[log[k].tracker]
        PROVE  Answers'
    BY <1>2 DEF Answers
  <1>3. \A k \in DOMAIN log : log[k].why = "done" =>
          log[k].tracker \in DOMAIN jobs /\ jobs[log[k].tracker].status = "success"
    BY DEF Told, ResultsMatchJobs
  <1>4. ASSUME NEW c \in Call, Continued(c)
        PROVE  Answers'
    <2>1. UNCHANGED log /\ Sends
      BY <1>4 DEF Continued, Goto, Sends
    <2>2. \A j \in DOMAIN jobs : jobs'[j] = jobs[j]
      BY <2>1, SendsKeeps
    <2>. QED
      BY <1>2, <1>3, <2>1, <2>2
  <1>5. CASE Around
    <2>1. UNCHANGED <<log, jobs>>
      BY <1>5 DEF Around, remote
    <2>. QED
      BY <1>2, <2>1
  <1>6. CASE Instance /\ UNCHANGED exec
    <2>1. UNCHANGED log
      BY <1>6 DEF exec
    <2>2. \A j \in DOMAIN jobs : jobs[j].status # "pending" => jobs'[j] = jobs[j]
      BY <1>6, JobsFinish
    <2>. QED
      BY <1>2, <1>3, <2>1, <2>2
  <1>. QED
    BY <1>1, <1>4, <1>5, <1>6 DEF Steps

(* What the run was not told before a step, it is not told after it: an      *)
(* accepted job that the call no longer tracks is never tracked again.      *)
LEMMA InformedBefore ==
  ASSUME SafeInv, UNCHANGED fixed, Steps, InformedSoFar'
  PROVE  InformedSoFar
PROOF
  <1>0. IInv /\ Told /\ JobsAreWanted
    BY DEF SafeInv
  <1>1. /\ Len(log) \in Nat /\ Idle.tracker = 0 /\ None = 0
        /\ jobs \in Seq(Job) /\ Len(jobs) \in Nat /\ DOMAIN jobs = 1 .. Len(jobs)
        /\ call.tracker \in Nat /\ call.tracker <= Len(jobs)
        /\ DOMAIN log = 1 .. Len(log)
        /\ \A j \in DOMAIN jobs : jobs[j].op \in DOMAIN log \/ jobs[j].op = Len(log) + 1
    <2>1. /\ Len(log) \in Nat /\ jobs \in Seq(Job) /\ call.tracker \in Nat
          /\ DOMAIN log = 1 .. Len(log) /\ call.tracker <= Len(jobs)
          /\ Len(jobs) \in Nat /\ DOMAIN jobs = 1 .. Len(jobs)
      BY <1>0 DEF IInv, TypeOK, AppManagerTypeOK, Call
    <2>2. \A j \in DOMAIN jobs : jobs[j].op \in DOMAIN log \/ jobs[j].op = Len(log) + 1
      <3>1. \A k \in 1 .. Len(log) + 1 : k \in DOMAIN log \/ k = Len(log) + 1
        BY <2>1
      <3>. QED
        BY <1>0, <3>1 DEF JobsAreWanted
    <2>. QED
      BY <2>1, <2>2 DEF Idle, None
  <1>2. ASSUME NEW r \in OperationResult, Recorded(r)
        PROVE  InformedSoFar
    <2>1. Record(r) /\ Sends /\ r.tracker = call.tracker
      BY <1>2 DEF Recorded, Tells
    <2>2. /\ DOMAIN log' = 1 .. Len(log) + 1 /\ Len(log') = Len(log) + 1
          /\ (\A k \in DOMAIN log : log'[k] = log[k])
          /\ log'[Len(log) + 1] = r
      BY <1>0, <2>1, LogGrows
    <2>3. DOMAIN jobs \subseteq DOMAIN jobs' /\ \A j \in DOMAIN jobs : jobs'[j] = jobs[j]
      BY <1>0, <2>1, SendsKeeps
    <2>4. ASSUME NEW j \in DOMAIN jobs
          PROVE  IF jobs[j].op <= Len(log) THEN log[jobs[j].op].tracker = j
                                           ELSE call.tracker = j
      <3>1. IF jobs[j].op <= Len(log) + 1 THEN log'[jobs[j].op].tracker = j
                                          ELSE call'.tracker = j
        BY <2>2, <2>3 DEF InformedSoFar
      <3>2. CASE jobs[j].op \in DOMAIN log
        <4>1. jobs[j].op <= Len(log) /\ jobs[j].op <= Len(log) + 1
          BY <1>1, <3>2
        <4>. QED
          BY <2>2, <3>1, <3>2, <4>1
      <3>3. CASE jobs[j].op = Len(log) + 1
        <4>1. ~(jobs[j].op <= Len(log)) /\ jobs[j].op <= Len(log) + 1
          BY <1>1, <3>3
        <4>. QED
          BY <2>1, <2>2, <3>1, <3>3, <4>1
      <3>. QED
        BY <1>1, <3>2, <3>3
    <2>5. \A k \in DOMAIN log : k \in DOMAIN log'
      BY <1>1, <2>2
    <2>. QED
      BY <2>2, <2>4, <2>5 DEF InformedSoFar
  <1>3. ASSUME UNCHANGED log, DOMAIN jobs \subseteq DOMAIN jobs',
               \A j \in DOMAIN jobs : jobs'[j].op = jobs[j].op,
               \A j \in DOMAIN jobs : jobs[j].op = Len(log) + 1 /\ call'.tracker = j =>
                                        call.tracker = j
        PROVE  InformedSoFar
    <2>1. ASSUME NEW j \in DOMAIN jobs
          PROVE  IF jobs[j].op <= Len(log) THEN log[jobs[j].op].tracker = j
                                           ELSE call.tracker = j
      <3>1. IF jobs[j].op <= Len(log) THEN log[jobs[j].op].tracker = j
                                      ELSE call'.tracker = j
        BY <1>3 DEF InformedSoFar
      <3>2. \A i \in DOMAIN log : i <= Len(log)
        BY <1>1
      <3>. QED
        BY <1>1, <1>3, <3>1, <3>2
    <2>. QED
      BY <1>3, <2>1 DEF InformedSoFar
  <1>4. ASSUME NEW c \in Call, Continued(c)
        PROVE  InformedSoFar
    <2>1. UNCHANGED log /\ Sends /\ call' = c
      BY <1>4 DEF Continued, Goto, Sends
    <2>2. DOMAIN jobs \subseteq DOMAIN jobs' /\ \A j \in DOMAIN jobs : jobs'[j] = jobs[j]
      BY <1>0, <2>1, SendsKeeps
    <2>3. c.tracker \in {call.tracker, None, Len(jobs) + 1}
      BY <1>4 DEF Continued
    <2>4. \A j \in DOMAIN jobs : j # None /\ j # Len(jobs) + 1
      BY <1>1
    <2>. QED
      BY <1>3, <2>1, <2>2, <2>3, <2>4
  <1>5. CASE Around
    <2>1. UNCHANGED <<log, jobs>> /\ call' \in {call, Idle}
      BY <1>5 DEF Around, remote, Ends
    <2>2. \A j \in DOMAIN jobs : j # Idle.tracker
      BY <1>1
    <2>. QED
      BY <1>3, <2>1, <2>2
  <1>6. CASE Instance /\ UNCHANGED exec
    <2>1. UNCHANGED <<log, call>>
      BY <1>6 DEF exec
    <2>2. DOMAIN jobs' = DOMAIN jobs /\ \A j \in DOMAIN jobs : jobs'[j].op = jobs[j].op
      BY <1>0, <1>6, JobsFinish
    <2>. QED
      BY <1>3, <2>1, <2>2
  <1>. QED
    BY <1>2, <1>4, <1>5, <1>6 DEF Steps

-----------------------------------------------------------------------------
(* A run that has been told everything knows how each job with a result      *)
(* ended; such a job changes nothing any more.                              *)
LEMMA Settled ==
  ASSUME SafeInv, Answers, InformedSoFar, NEW j \in DOMAIN jobs, jobs[j].op <= Len(log)
  PROVE  jobs[j].status # "pending"
PROOF
  <1>1. /\ jobs[j].op \in DOMAIN log /\ log[jobs[j].op] \in OperationResult
        /\ j # None
    <2>1. /\ Len(log) \in Nat /\ log \in Seq(OperationResult) /\ DOMAIN log = 1 .. Len(log)
          /\ j \in 1 .. Len(jobs)
      BY DEF SafeInv, IInv, TypeOK, AppManagerTypeOK
    <2>2. PICK k \in 1 .. Len(log) + 1 : jobs[j].op = k
      BY DEF SafeInv, JobsAreWanted
    <2>3. k \in 1 .. Len(log)
      BY <2>1, <2>2
    <2>. QED
      BY <2>1, <2>2, <2>3 DEF None
  <1>2. PICK r \in OperationResult : r = log[jobs[j].op]
    BY <1>1
  <1>3. r.tracker = j /\ r.why \notin {"timeout", "network"}
    BY <1>1, <1>2 DEF InformedSoFar
  <1>4. r.why \notin {"not_found", "base", "blocked", "refused"}
    BY <1>1, <1>2, <1>3 DEF Answers
  <1>5. r.why \in {"done", "noop", "failed"}
    BY <1>3, <1>4 DEF OperationResult, Whys
  <1>. QED
    BY <1>1, <1>2, <1>3, <1>5 DEF SafeInv, Told, ResultsMatchJobs

(* A tracked call is at an operation, and its job asks for just that.       *)
LEMMA TrackedCall ==
  ASSUME SafeInv, Engaged, phase \notin {"raised", "interrupted"}, call.tracker # None
  PROVE  /\ HasOp
         /\ call.tracker \in DOMAIN jobs /\ jobs[call.tracker] \in Job
         /\ jobs[call.tracker].op = Len(log) + 1
         /\ jobs[call.tracker].endpoint = Endpoint(Op.action)
         /\ jobs[call.tracker].plugin = Op.plugin
         /\ jobs[call.tracker].target = Target(Op)
PROOF
  <1>1. IInv /\ Told /\ JobsAreWanted
    BY DEF SafeInv
  <1>2. HasOp
    BY <1>1 DEF Told, Engaged
  <1>3. call.tracker \in DOMAIN jobs /\ jobs[call.tracker].op = Len(log) + 1
    BY <1>1 DEF Told
  <1>4. jobs[call.tracker] \in Job
    BY <1>1, <1>3 DEF IInv, TypeOK, AppManagerTypeOK
  <1>5. Op = Wanted(Len(log) + 1)
    BY <1>1, <1>2, OpWanted
  <1>. QED
    BY <1>1, <1>2, <1>3, <1>4, <1>5 DEF JobsAreWanted

(* The only job of such a run that may still finish is the call's own.      *)
LEMMA OnlyOwnJob ==
  ASSUME SafeInv, Engaged, Answers, InformedSoFar, phase \notin {"raised", "interrupted"},
         NEW j \in DOMAIN jobs, jobs[j].status = "pending"
  PROVE  j = call.tracker /\ call.tracker # None /\ HasOp
PROOF
  <1>1. ~(jobs[j].op <= Len(log))
    BY Settled
  <1>2. j = call.tracker
    BY <1>1 DEF InformedSoFar
  <1>3. j # None
    BY DEF SafeInv, IInv, TypeOK, AppManagerTypeOK, None
  <1>. QED
    BY <1>2, <1>3, TrackedCall

(* What a job leaves of its plugin.                                         *)
LEMMA EffectIs ==
  ASSUME NEW j \in Job, NEW it \in Installation, sn[j.plugin] = it
  PROVE  /\ Effect(j) \in Installation
         /\ j.endpoint = "install" => /\ Effect(j).version = Resolved(j.target)
                                      /\ Effect(j).active = it.active
         /\ j.endpoint = "activate" => /\ Effect(j).version = it.version
                                       /\ Effect(j).active = TRUE
         /\ j.endpoint = "deactivate" => /\ Effect(j).version = it.version
                                         /\ Effect(j).active = FALSE
         /\ j.endpoint = "uninstall" => Effect(j) = Absent
PROOF
  <1>1. Resolved(j.target) \in Versions /\ None \in Versions
    BY MaxVersionAssumption DEF Resolved, Job, Versions, None
  <1>2. j.endpoint \in Endpoints
    BY DEF Job
  <1>3. CASE j.endpoint = "install"
    BY <1>1, <1>3 DEF Effect, Installation
  <1>4. CASE j.endpoint = "activate"
    BY <1>1, <1>4 DEF Effect, Installation
  <1>5. CASE j.endpoint = "deactivate"
    BY <1>1, <1>5 DEF Effect, Installation
  <1>6. CASE j.endpoint = "uninstall"
    BY <1>1, <1>6 DEF Effect, Installation, Absent
  <1>. QED
    BY <1>2, <1>3, <1>4, <1>5, <1>6 DEF Endpoints

(* Fewer plugins are claimed to be as they were when more actions are done.  *)
LEMMA KeptMore ==
  ASSUME NEW n \in Nat, NEW m \in Nat, n <= m, KeptBeyond(n)
  PROVE  KeptBeyond(m)
PROOF
  <1>1. \A i \in 1 .. n : i \in 1 .. m
    OBVIOUS
  <1>. QED
    BY <1>1 DEF KeptBeyond

(* An action of the plan that takes effect leaves everything beyond it.     *)
LEMMA ForwardLands ==
  ASSUME SafeInv, UNCHANGED <<plan, origin>>,
         NEW n \in Nat, n + 1 \in DOMAIN plan, plan[n + 1].action \in PlanActions,
         NEW q \in Plugins, plan[n + 1].plugin = q,
         NEW it \in Installation, sn' = [sn EXCEPT ![q] = it],
         plan[n + 1].action = "activate" => it.version = sn[q].version,
         plan[n + 1].action # "activate" => it.active = sn[q].active,
         KeptBeyond(n)
  PROVE  KeptBeyond(n + 1)'
PROOF
  <1>1. sn \in [Plugins -> Installation]
    BY DEF SafeInv, IInv, TypeOK, AppManagerTypeOK
  <1>. SUFFICES ASSUME NEW p \in Plugins
                PROVE  /\ (\A i \in 1 .. n + 1 : plan[i].plugin = p =>
                                                   plan[i].action = "activate") =>
                            sn'[p].version = origin.sn[p].version
                       /\ (\A i \in 1 .. n + 1 : plan[i].plugin = p =>
                                                   plan[i].action # "activate") =>
                            sn'[p].active = origin.sn[p].active
    BY DEF KeptBeyond
  <1>2. n + 1 \in 1 .. n + 1 /\ \A i \in 1 .. n : i \in 1 .. n + 1
    OBVIOUS
  <1>3. /\ (\A i \in 1 .. n : plan[i].plugin = p => plan[i].action = "activate") =>
             sn[p].version = origin.sn[p].version
        /\ (\A i \in 1 .. n : plan[i].plugin = p => plan[i].action # "activate") =>
             sn[p].active = origin.sn[p].active
    BY DEF KeptBeyond
  <1>4. CASE p # q
    <2>1. sn'[p] = sn[p]
      BY <1>1, <1>4
    <2>. QED
      BY <1>2, <1>3, <2>1
  <1>5. CASE p = q
    <2>1. sn'[p] = it
      BY <1>1, <1>5
    <2>. QED
      BY <1>2, <1>3, <1>5, <2>1
  <1>. QED
    BY <1>4, <1>5

(* An inverse that takes effect restores what only its action had changed.  *)
LEMMA BackwardLands ==
  ASSUME SafeInv, UNCHANGED <<plan, origin>>,
         NEW n \in Nat \ {0}, n \in DOMAIN plan, plan[n].action \in PlanActions,
         NEW q \in Plugins, plan[n].plugin = q,
         NEW it \in Installation, sn' = [sn EXCEPT ![q] = it],
         plan[n].action = "activate" => /\ it.version = sn[q].version
                                        /\ it.active = origin.sn[q].active,
         plan[n].action = "install" => it = origin.sn[q],
         plan[n].action = "upgrade" =>
           /\ it.active = sn[q].active
           /\ FirstChange(n) => it.version = origin.sn[q].version,
         KeptBeyond(n)
  PROVE  KeptBeyond(n - 1)'
PROOF
  <1>1. sn \in [Plugins -> Installation]
    BY DEF SafeInv, IInv, TypeOK, AppManagerTypeOK
  <1>. SUFFICES ASSUME NEW p \in Plugins
                PROVE  /\ (\A i \in 1 .. n - 1 : plan[i].plugin = p =>
                                                   plan[i].action = "activate") =>
                            sn'[p].version = origin.sn[p].version
                       /\ (\A i \in 1 .. n - 1 : plan[i].plugin = p =>
                                                   plan[i].action # "activate") =>
                            sn'[p].active = origin.sn[p].active
    BY DEF KeptBeyond
  <1>2. \A i \in 1 .. n : i \in 1 .. n - 1 \/ i = n
    OBVIOUS
  <1>3. /\ (\A i \in 1 .. n : plan[i].plugin = p => plan[i].action = "activate") =>
             sn[p].version = origin.sn[p].version
        /\ (\A i \in 1 .. n : plan[i].plugin = p => plan[i].action # "activate") =>
             sn[p].active = origin.sn[p].active
    BY DEF KeptBeyond
  <1>4. CASE p # q
    <2>1. sn'[p] = sn[p]
      BY <1>1, <1>4
    <2>. QED
      BY <1>2, <1>3, <1>4, <2>1
  <1>5. CASE p = q
    <2>1. sn'[p] = it
      BY <1>1, <1>5
    <2>2. CASE plan[n].action = "activate"
      BY <1>2, <1>3, <1>5, <2>1, <2>2
    <2>3. CASE plan[n].action = "install"
      BY <1>5, <2>1, <2>3
    <2>4. CASE plan[n].action = "upgrade"
      <3>1. (\A i \in 1 .. n - 1 : plan[i].plugin = p => plan[i].action = "activate") =>
              FirstChange(n)
        BY <1>5 DEF FirstChange
      <3>. QED
        BY <1>2, <1>3, <1>5, <2>1, <2>4, <3>1
    <2>. QED
      BY <2>2, <2>3, <2>4 DEF PlanActions
  <1>. QED
    BY <1>4, <1>5

-----------------------------------------------------------------------------
(* A recorded result: only a success has had an effect, so the plan counts   *)
(* one action more, turns around with what it has completed, or has one less *)
(* to undo.                                                                 *)
LEMMA RestoreRecord ==
  ASSUME SafeInv, Engaged, Answers, driver = "apply", InformedSoFar', Recovering,
         UNCHANGED fixed, NEW r \in OperationResult, Recorded(r)
  PROVE  Recovering'
PROOF
  <1>1. IInv /\ Told /\ HasOp /\ Record(r) /\ Sends /\ Tells(r)
    BY DEF SafeInv, Recorded
  <1>2. /\ Len(log) \in Nat /\ DOMAIN log = 1 .. Len(log)
        /\ Len(log') = Len(log) + 1 /\ DOMAIN log' = 1 .. Len(log) + 1
        /\ (\A k \in DOMAIN log : log'[k] = log[k])
        /\ log'[Len(log) + 1] = r /\ call' = Idle
    BY <1>1, LogGrows
  <1>3. UNCHANGED sn /\ UNCHANGED <<driver, plan, origin>>
    <2>1. UNCHANGED sn
      <3>1. CASE UNCHANGED remote
        BY <3>1 DEF remote
      <3>2. CASE Deliver
        BY <1>1, <3>2, JobsGrow
      <3>. QED
        BY <1>1, <3>1, <3>2 DEF Sends
    <2>. QED
      BY <2>1 DEF fixed
  <1>4. ~Landed'
    BY <1>2 DEF Landed, Idle
  <1>5. /\ r.why \notin {"timeout", "network"}
        /\ r.action = "upgrade" /\ Success(r) => r.rollback_version # None
        /\ r.action \in RollbackActions => Success(r)
    <2>1. Len(log) + 1 \in DOMAIN log'
      BY <1>2
    <2>. QED
      BY <1>2, <2>1 DEF InformedSoFar
  <1>6. /\ r.why = "done" => Landed
        /\ r.why # "done" => ~Landed
    <2>1. r.why = "done" => Landed
      BY <1>1 DEF Tells, Landed
    <2>2. r.why \in {"failed", "noop"} => ~Landed
      BY <1>1 DEF Tells, Landed
    <2>3. r.why \in {"not_found", "base", "blocked", "refused"} => ~Landed
      BY <1>1 DEF Tells, Landed
    <2>. QED
      BY <1>5, <2>1, <2>2, <2>3 DEF OperationResult, Whys
  <1>7. ASSUME NEW n \in Nat, KeptBeyond(n)
        PROVE  KeptBeyond(n)'
    BY <1>3, <1>7 DEF KeptBeyond
  <1>8. ASSUME NEW n \in Nat, n <= Len(log), Remembers(n)
        PROVE  Remembers(n)'
    <2>1. \A k \in 1 .. n : log'[k] = log[k]
      BY <1>2, <1>8
    <2>. QED
      BY <1>3, <1>8, <2>1 DEF Remembers, FirstChange
  <1>9. CASE phase = "forward"
    <2>1. PICK n \in Nat : n = Len(log)
      BY <1>2
    <2>2. /\ Op = plan[n + 1] /\ n + 1 \in DOMAIN plan
      BY <1>1, <1>9, <2>1, OpType
    <2>3. /\ KeptBeyond(IF Landed THEN n + 1 ELSE n)
          /\ Remembers(n)
          /\ Landed /\ Op.action = "upgrade" /\ FirstChange(n + 1) =>
               jobs[call.tracker].was = origin.sn[Op.plugin].version
      BY <1>9, <2>1 DEF Recovering
    <2>4. CASE Success(r)
      <3>1. phase' = "forward" /\ Len(log') = n + 1
        BY <1>1, <1>2, <1>9, <2>1, <2>4 DEF Record, StopsAt
      <3>2. KeptBeyond(n + 1)
        BY <2>3, KeptMore
      <3>3. r.action = "upgrade" /\ FirstChange(n + 1) =>
              r.rollback_version = origin.sn[Op.plugin].version
        BY <1>1, <1>5, <1>6, <2>3, <2>4 DEF Tells
      <3>4. Remembers(n)'
        BY <1>8, <2>1, <2>3
      <3>5. \A k \in 1 .. n + 1 : k \in 1 .. n \/ k = n + 1
        OBVIOUS
      <3>6. r.action = plan[n + 1].action /\ Op.plugin = plan[n + 1].plugin
        BY <1>1, <2>2 DEF Tells
      <3>7. Remembers(n + 1)'
        BY <1>2, <1>3, <2>1, <3>3, <3>4, <3>5, <3>6 DEF Remembers, FirstChange
      <3>8. KeptBeyond(n + 1)'
        BY <1>7, <3>2
      <3>. QED
        BY <1>4, <3>1, <3>7, <3>8 DEF Recovering
    <2>5. CASE ~Success(r)
      <3>1. phase' = "rollback" /\ undo' = n
        BY <1>1, <1>9, <2>1, <2>5 DEF Record, StopsAt
      <3>2. ~Landed
        BY <1>6, <2>5 DEF Success
      <3>3. KeptBeyond(n)' /\ Remembers(n)'
        BY <1>7, <1>8, <2>1, <2>3, <3>2
      <3>. QED
        BY <1>4, <3>1, <3>3 DEF Recovering
    <2>. QED
      BY <2>4, <2>5
  <1>10. CASE phase = "rollback"
    <2>1. PICK n \in Nat : n = undo
      BY <1>1 DEF IInv, TypeOK
    <2>2. /\ n \in DOMAIN log /\ log[n].action \in PlanActions
          /\ Op.action = RollbackLabel(log[n].action)
      BY <1>1, <1>10, <2>1, OpType
    <2>3. r.action \in RollbackActions
      BY <1>1, <2>2 DEF Tells, RollbackLabel, PlanActions, RollbackActions
    <2>4. Landed
      <3>1. r.why # "noop"
        BY <1>1, <2>3 DEF Tells, RollbackActions
      <3>. QED
        BY <1>5, <1>6, <2>3, <3>1 DEF Success
    <2>5. KeptBeyond(n - 1) /\ Remembers(n) /\ n - 1 \in Nat
      BY <1>2, <1>10, <2>1, <2>2, <2>4 DEF Recovering
    <2>6. phase' = "rollback" /\ undo' = n - 1
      BY <1>1, <1>10, <2>1 DEF Record, StopsAt
    <2>7. Remembers(n - 1)
      <3>1. \A k \in 1 .. n - 1 : k \in 1 .. n
        BY <2>5
      <3>. QED
        BY <2>5, <3>1 DEF Remembers
    <2>8. n - 1 <= Len(log)
      BY <1>2, <2>2
    <2>9. KeptBeyond(n - 1)' /\ Remembers(n - 1)'
      BY <1>7, <1>8, <2>5, <2>7, <2>8
    <2>. QED
      BY <1>4, <2>6, <2>9 DEF Recovering
  <1>. QED
    BY <1>1, <1>9, <1>10 DEF HasOp

(* Going on with the call: it has the job it had, or a new, pending one.    *)
LEMMA RestoreContinue ==
  ASSUME SafeInv, driver = "apply", Recovering, UNCHANGED fixed,
         NEW c \in Call, Continued(c)
  PROVE  Recovering'
PROOF
  <1>1. /\ IInv /\ Told /\ HasOp /\ Sends
        /\ UNCHANGED <<phase, log, undo, driver, plan, origin>> /\ call' = c
    BY DEF SafeInv, Continued, Goto, Sends, fixed
  <1>2. UNCHANGED sn /\ \A j \in DOMAIN jobs : jobs'[j] = jobs[j]
    <2>1. UNCHANGED sn
      <3>1. CASE UNCHANGED remote
        BY <3>1 DEF remote
      <3>2. CASE Deliver
        BY <1>1, <3>2, JobsGrow
      <3>. QED
        BY <1>1, <3>1, <3>2 DEF Sends
    <2>. QED
      BY <1>1, <2>1, SendsKeeps
  <1>3. Op' = Op
    BY <1>1, OpStays
  <1>4. Landed' = Landed /\ (Landed => c.tracker = call.tracker
                                       /\ jobs'[c.tracker] = jobs[call.tracker])
    <2>1. CASE c.tracker = call.tracker
      <3>1. call.tracker # None => jobs'[call.tracker] = jobs[call.tracker]
        BY <1>1, <1>2 DEF Told
      <3>. QED
        BY <1>1, <2>1, <3>1 DEF Landed
    <2>2. CASE c.tracker = None /\ call.stage \in {"idle", "submit"}
      BY <1>1, <2>2 DEF Landed, Told
    <2>3. CASE c.tracker = Len(jobs) + 1 /\ Deliver /\ call.stage = "submit"
      <3>1. jobs'[c.tracker].status = "pending"
        BY <1>1, <2>3, JobsGrow
      <3>. QED
        BY <1>1, <2>3, <3>1 DEF Landed, Told
    <2>. QED
      BY <2>1, <2>2, <2>3 DEF Continued
  <1>5. \A n \in Nat : /\ KeptBeyond(n)' = KeptBeyond(n)
                       /\ Remembers(n)' = Remembers(n)
                       /\ FirstChange(n)' = FirstChange(n)
    BY <1>1, <1>2 DEF KeptBeyond, Remembers, FirstChange
  <1>6. Len(log) \in Nat /\ undo \in Nat
    BY <1>1 DEF IInv, TypeOK
  <1>7. CASE phase = "forward"
    BY <1>1, <1>3, <1>4, <1>5, <1>6, <1>7 DEF Recovering
  <1>8. CASE phase = "rollback"
    <2>1. undo - 1 \in Nat
      BY <1>1, <1>6, <1>8 DEF HasOp
    <2>. QED
      BY <1>1, <1>4, <1>5, <1>6, <1>8, <2>1 DEF Recovering
  <1>. QED
    BY <1>1, <1>7, <1>8 DEF HasOp

(* The program begins or ends: a rollback that returns has nothing to undo.  *)
LEMMA RestoreAround ==
  ASSUME SafeInv, Engaged, driver = "apply", Recovering, UNCHANGED fixed, Around
  PROVE  Recovering'
PROOF
  <1>1. /\ IInv /\ Told
        /\ UNCHANGED <<log, undo, sn, jobs, driver, plan, origin>>
    BY DEF SafeInv, Around, remote, fixed
  <1>2. CASE UNCHANGED <<phase, call>>
    BY <1>1, <1>2 DEF Recovering, KeptBeyond, Remembers, FirstChange, Landed, Op, Failures
  <1>3. CASE phase' \in {"rejected", "raised", "interrupted"}
    BY <1>3 DEF Recovering
  <1>4. CASE phase = "validate" /\ phase' = "forward" /\ UNCHANGED call
    <2>1. ~Landed /\ ~Landed'
      BY <1>1, <1>4 DEF Told, Landed, Idle
    <2>2. KeptBeyond(Len(log)) /\ Remembers(Len(log))
      BY <1>4, <2>1 DEF Recovering
    <2>3. KeptBeyond(Len(log))' /\ Remembers(Len(log))'
      BY <1>1, <2>2 DEF KeptBeyond, Remembers, FirstChange
    <2>. QED
      BY <1>4, <2>1, <2>3 DEF Recovering
  <1>5. CASE /\ phase \in {"forward", "rollback"} /\ ~HasOp
             /\ phase' = "returned" /\ UNCHANGED call
    <2>1. ASSUME Failures' # {}
          PROVE  KeptBeyond(0)'
      <3>1. Failures # {}
        BY <1>1, <2>1 DEF Failures
      <3>2. phase = "rollback"
        BY <1>1, <1>5, <3>1, AheadInOrder DEF IInv, Shape
      <3>3. undo = 0
        BY <1>1, <1>5, <3>2 DEF HasOp, IInv, TypeOK
      <3>4. ~Landed
        BY <1>1, <1>5, <3>2 DEF Engaged, Told, Landed
      <3>5. KeptBeyond(0)
        BY <3>2, <3>3, <3>4 DEF Recovering
      <3>. QED
        BY <1>1, <3>5 DEF KeptBeyond
    <2>. QED
      BY <1>5, <2>1 DEF Recovering
  <1>. QED
    BY <1>2, <1>3, <1>4, <1>5 DEF Around, Ends

(* ServiceNow finishes a job: it is the call's own, and if it succeeds the   *)
(* operation in progress has its effect.                                    *)
LEMMA RestoreInstance ==
  ASSUME SafeInv, Engaged, Answers, driver = "apply", PlanFits, InformedSoFar, Recovering,
         UNCHANGED fixed, Instance, UNCHANGED exec,
         phase \notin {"raised", "interrupted"}
  PROVE  Recovering'
PROOF
  <1>1. /\ IInv /\ Told /\ UNCHANGED <<phase, log, undo, call, driver, plan, origin>>
        /\ jobs \in Seq(Job) /\ sn \in [Plugins -> Installation]
        /\ origin.sn \in [Plugins -> Installation]
    BY DEF SafeInv, exec, fixed, IInv, TypeOK, AppManagerTypeOK
  <1>2. PICK j \in DOMAIN jobs : JobSucceeds(j) \/ JobFails(j) \/ JobFindsTargetInstalled(j)
    BY DEF Instance
  <1>3. jobs[j].status = "pending"
    BY <1>2 DEF JobSucceeds, JobFails, JobFindsTargetInstalled
  <1>4. j = call.tracker /\ call.tracker # None /\ HasOp
    BY <1>3, OnlyOwnJob
  <1>5. /\ jobs[j] \in Job
        /\ jobs[j].endpoint = Endpoint(Op.action)
        /\ jobs[j].plugin = Op.plugin
        /\ jobs[j].target = Target(Op)
    BY <1>4, TrackedCall
  <1>6. ~Landed
    BY <1>3, <1>4 DEF Landed
  <1>7. \A n \in Nat : Remembers(n)' = Remembers(n)
    BY <1>1 DEF Remembers, FirstChange
  <1>8. Len(log) \in Nat /\ undo \in Nat
    BY <1>1 DEF IInv, TypeOK
  <1>9. CASE JobFails(j) \/ JobFindsTargetInstalled(j)
    <2>1. UNCHANGED sn /\ jobs'[j].status # "success"
      <3>1. PICK status \in {"failed", "already"} :
              UNCHANGED sn /\ jobs' = [jobs EXCEPT ![j] = [@ EXCEPT !.status = status]]
        BY <1>9 DEF JobFails, JobFindsTargetInstalled
      <3>. DEFINE it == [jobs[j] EXCEPT !.status = status]
      <3>2. jobs' = [jobs EXCEPT ![j] = it]
        BY <3>1
      <3>3. it.status = status
        BY <1>5 DEF Job
      <3>. QED
        BY <3>1, <3>2, <3>3
    <2>2. ~Landed'
      BY <1>1, <1>4, <2>1 DEF Landed
    <2>3. \A n \in Nat : KeptBeyond(n)' = KeptBeyond(n)
      BY <1>1, <2>1 DEF KeptBeyond
    <2>. QED
      BY <1>1, <1>4, <1>6, <1>7, <1>8, <2>2, <2>3 DEF Recovering, HasOp
  <1>10. CASE JobSucceeds(j)
    <2>1. PICK q \in Plugins, old \in Installation, new \in Installation :
            /\ q = Op.plugin /\ old = sn[q] /\ new = Effect(jobs[j])
            /\ sn' = [sn EXCEPT ![q] = new]
      <3>1. Op.plugin \in Plugins
        BY <1>5 DEF Job
      <3>2. sn[Op.plugin] \in Installation
        BY <1>1, <3>1
      <3>3. Effect(jobs[j]) \in Installation
        BY <1>5, <3>2, EffectIs
      <3>. QED
        BY <1>5, <1>10, <3>1, <3>2, <3>3 DEF JobSucceeds
    <2>2. jobs'[j].status = "success" /\ jobs'[j].was = old.version
      <3>. DEFINE it == [jobs[j] EXCEPT !.status = "success",
                                         !.was = sn[jobs[j].plugin].version]
      <3>1. jobs' = [jobs EXCEPT ![j] = it]
        BY <1>10 DEF JobSucceeds
      <3>2. it.status = "success" /\ it.was = old.version
        BY <1>5, <2>1 DEF Job
      <3>. QED
        BY <3>1, <3>2
    <2>3. Landed'
      BY <1>1, <1>4, <2>2 DEF Landed
    <2>4. /\ Endpoint(Op.action) = "install" => /\ new.version = Resolved(Target(Op))
                                                /\ new.active = old.active
          /\ Endpoint(Op.action) = "activate" => new.version = old.version
          /\ Endpoint(Op.action) = "deactivate" => /\ new.version = old.version
                                                   /\ new.active = FALSE
          /\ Endpoint(Op.action) = "uninstall" => new = Absent
      BY <1>5, <2>1, EffectIs
    <2>5. CASE phase = "forward"
      <3>1. PICK n \in Nat : n = Len(log)
        BY <1>8
      <3>2. Op = plan[n + 1] /\ n + 1 \in DOMAIN plan
        BY <1>1, <1>4, <2>5, <3>1, OpType
      <3>3. plan[n + 1].action \in PlanActions
        BY <1>1, <3>2 DEF IInv, PlanWellFormed
      <3>4. KeptBeyond(n) /\ Remembers(n)
        BY <1>6, <2>5, <3>1 DEF Recovering
      <3>5. /\ plan[n + 1].action = "activate" => new.version = sn[q].version
            /\ plan[n + 1].action # "activate" => new.active = sn[q].active
        BY <2>1, <2>4, <3>2, <3>3 DEF Endpoint, PlanActions
      <3>6. KeptBeyond(n + 1)'
        BY <1>1, <2>1, <3>2, <3>3, <3>4, <3>5, ForwardLands
      <3>7. FirstChange(n + 1) => jobs'[j].was = origin.sn[Op.plugin].version
        BY <2>1, <2>2, <3>2, <3>4 DEF FirstChange, KeptBeyond
      <3>8. Op' = Op /\ FirstChange(n + 1)' = FirstChange(n + 1)
        BY <1>1, OpStays DEF FirstChange, fixed
      <3>9. Remembers(n)'
        BY <1>7, <3>4
      <3>. QED
        BY <1>1, <1>4, <2>3, <2>5, <3>1, <3>6, <3>7, <3>8, <3>9 DEF Recovering
    <2>6. CASE phase = "rollback"
      <3>1. PICK n \in Nat \ {0} : n = undo
        BY <1>4, <1>8, <2>6 DEF HasOp
      <3>2. /\ n \in DOMAIN plan /\ n \in DOMAIN log
            /\ log[n].action = plan[n].action /\ log[n].plugin = plan[n].plugin
            /\ Success(log[n]) /\ plan[n].action \in PlanActions
        <4>1. PICK f \in Nat : Turned(f)
          BY <1>1, <2>6 DEF IInv, Shape
        <4>2. n \in 1 .. f /\ n < f /\ n \in DOMAIN plan
          BY <1>1, <3>1, <4>1 DEF Turned, IInv, TypeOK
        <4>3. n \in DOMAIN log
          BY <1>1, <1>4, <2>6, <3>1, OpType
        <4>. QED
          BY <1>1, <4>1, <4>2, <4>3 DEF Turned, IInv, PlanWellFormed
      <3>3. /\ Op.action = RollbackLabel(plan[n].action) /\ Op.plugin = plan[n].plugin
            /\ Op.target = log[n].rollback_version
        BY <2>6, <3>1, <3>2 DEF Op, RollbackOf
      <3>4. KeptBeyond(n) /\ Remembers(n)
        BY <1>6, <2>6, <3>1 DEF Recovering
      <3>5. ASSUME plan[n].action = "activate"
            PROVE  new.version = sn[q].version /\ new.active = origin.sn[q].active
        <4>1. Endpoint(Op.action) = "deactivate"
          BY <3>3, <3>5 DEF RollbackLabel, Endpoint
        <4>2. ~origin.sn[q].active
          BY <2>1, <3>2, <3>3, <3>5 DEF PlanFits
        <4>3. origin.sn[q].active \in BOOLEAN
          BY <1>1 DEF Installation
        <4>4. origin.sn[q].active = FALSE
          BY <4>2, <4>3
        <4>. QED
          BY <2>1, <2>4, <4>1, <4>4
      <3>6. ASSUME plan[n].action = "install"
            PROVE  new = origin.sn[q]
        <4>1. Endpoint(Op.action) = "uninstall"
          BY <3>3, <3>6 DEF RollbackLabel, Endpoint
        <4>2. origin.sn[q] = Absent
          BY <2>1, <3>2, <3>3, <3>6 DEF PlanFits
        <4>. QED
          BY <2>4, <4>1, <4>2
      <3>7. ASSUME plan[n].action = "upgrade"
            PROVE  /\ new.active = sn[q].active
                   /\ FirstChange(n) => new.version = origin.sn[q].version
        <4>1. Endpoint(Op.action) = "install"
          BY <3>3, <3>7 DEF RollbackLabel, Endpoint
        <4>2. log[n].rollback_version # None
          BY <3>2, <3>7 DEF InformedSoFar
        <4>3. Resolved(Target(Op)) = log[n].rollback_version
          BY <3>3, <4>1, <4>2 DEF Resolved, Target
        <4>4. FirstChange(n) => log[n].rollback_version = origin.sn[plan[n].plugin].version
          <5>1. n \in 1 .. n
            OBVIOUS
          <5>. QED
            BY <3>4, <3>7, <5>1 DEF Remembers
        <4>. QED
          BY <2>1, <2>4, <3>3, <4>1, <4>3, <4>4
      <3>8. KeptBeyond(n - 1)'
        BY <1>1, <2>1, <3>2, <3>3, <3>4, <3>5, <3>6, <3>7, BackwardLands
      <3>9. Remembers(n)'
        BY <1>7, <3>4
      <3>. QED
        BY <1>1, <2>3, <2>6, <3>1, <3>8, <3>9 DEF Recovering
    <2>. QED
      BY <1>4, <2>5, <2>6 DEF HasOp
  <1>. QED
    BY <1>2, <1>9, <1>10

-----------------------------------------------------------------------------
(* The invariant of recovery holds at the start and every step preserves it. *)
LEMMA InitRestore == Init => RestoreInv
PROOF
  <1>. SUFFICES ASSUME Init PROVE RestoreInv
    OBVIOUS
  <1>1. /\ log = <<>> /\ jobs = <<>> /\ call = Idle /\ origin.sn = sn
        /\ phase \in {"validate", "forward"}
    BY DEF Init
  <1>2. call.stage = "idle" /\ call.tracker = None
    BY <1>1 DEF Idle
  <1>3. Engaged /\ Answers
    BY <1>1, <1>2 DEF Engaged, Answers
  <1>4. ~Landed
    BY <1>2 DEF Landed
  <1>5. KeptBeyond(Len(log)) /\ Remembers(Len(log))
    BY <1>1 DEF KeptBeyond, Remembers
  <1>. QED
    BY <1>1, <1>3, <1>4, <1>5 DEF RestoreInv, Recovering

LEMMA NextRestore == SafeInv /\ RestoreInv /\ [Next]_vars => RestoreInv'
PROOF
  <1>. SUFFICES ASSUME SafeInv, RestoreInv, [Next]_vars PROVE RestoreInv'
    OBVIOUS
  <1>1. UNCHANGED fixed /\ Steps /\ IInv /\ Told
    BY NextWays DEF SafeInv
  <1>2. Engaged /\ Answers
    BY DEF RestoreInv
  <1>3. Engaged' /\ Answers'
    BY <1>1, <1>2, EngagedNext, AnswersNext
  <1>4. ASSUME driver' = "apply", PlanFits', InformedSoFar'
        PROVE  Recovering'
    <2>1. driver = "apply" /\ PlanFits
      BY <1>1, <1>4 DEF fixed, PlanFits
    <2>2. InformedSoFar
      BY <1>1, <1>4, InformedBefore
    <2>3. Recovering
      BY <2>1, <2>2 DEF RestoreInv
    <2>4. CASE Instance /\ UNCHANGED exec
      <3>1. CASE phase \in {"raised", "interrupted"}
        <4>1. phase' \in {"raised", "interrupted"}
          BY <2>4, <3>1 DEF exec
        <4>. QED
          BY <4>1 DEF Recovering
      <3>2. CASE phase \notin {"raised", "interrupted"}
        BY <1>1, <1>2, <2>1, <2>2, <2>3, <2>4, <3>2, RestoreInstance
      <3>. QED
        BY <3>1, <3>2
    <2>5. ASSUME NEW r \in OperationResult, Recorded(r)
          PROVE  Recovering'
      BY <1>1, <1>2, <1>4, <2>1, <2>3, <2>5, RestoreRecord
    <2>6. ASSUME NEW c \in Call, Continued(c)
          PROVE  Recovering'
      BY <1>1, <2>1, <2>3, <2>6, RestoreContinue
    <2>7. CASE Around
      BY <1>1, <1>2, <2>1, <2>3, <2>7, RestoreAround
    <2>. QED
      BY <1>1, <2>4, <2>5, <2>6, <2>7 DEF Steps
  <1>. QED
    BY <1>3, <1>4 DEF RestoreInv

(* Whenever an applied plan that fits has been told everything, the instance *)
(* is as it was found beyond what is completed and not undone.              *)
THEOREM Restorable == Spec => []RestoreInv
PROOF
  BY InitRestore, NextRestore, Safe, PTL DEF Spec

(* All or nothing: when a plan that fits the instance fails and its rollback *)
(* is told everything, the instance is back exactly as it was found, for any *)
(* plan however often it returns to a plugin (apply_plan, run_rollback).     *)
THEOREM RollbackRestores == Spec => []InformedRollbackRestores
PROOF
  <1>1. SafeInv /\ RestoreInv => InformedRollbackRestores
    <2>. SUFFICES ASSUME SafeInv, RestoreInv, driver = "apply", phase = "returned",
                         Failures # {}, PlanFits, Informed
                  PROVE  sn = origin.sn
      BY DEF InformedRollbackRestores
    <2>1. \A j \in DOMAIN jobs : jobs[j].op <= Len(log)
      BY DEF RestoreInv, Engaged, HasOp
    <2>2. InformedSoFar
      BY <2>1 DEF Informed, InformedSoFar
    <2>3. KeptBeyond(0)
      BY <2>2 DEF RestoreInv, Recovering
    <2>4. /\ sn \in [Plugins -> Installation] /\ origin.sn \in [Plugins -> Installation]
      BY DEF SafeInv, IInv, TypeOK, AppManagerTypeOK
    <2>5. ASSUME NEW p \in Plugins
          PROVE  sn[p] = origin.sn[p]
      <3>1. sn[p].version = origin.sn[p].version /\ sn[p].active = origin.sn[p].active
        BY <2>3 DEF KeptBeyond
      <3>2. sn[p] \in Installation /\ origin.sn[p] \in Installation
        BY <2>4
      <3>. QED
        BY <3>1, <3>2 DEF Installation
    <2>. QED
      BY <2>4, <2>5
  <1>. QED
    BY <1>1, Safe, Restorable, PTL

-----------------------------------------------------------------------------
(* apply_plan implements the saga.                                          *)

(* The stack of completed operations as a beginning of the plan.            *)
LEMMA Beginnings ==
  ASSUME NEW S, NEW s \in Seq(S), NEW n \in 0 .. Len(s)
  PROVE  /\ Len(SubSeq(s, 1, n)) = n
         /\ SubSeq(s, 1, 0) = <<>>
         /\ n > 0 => SubSeq(s, 1, n) # <<>>
         /\ n > 0 => SubSeq(SubSeq(s, 1, n), 1, n - 1) = SubSeq(s, 1, n - 1)
         /\ n < Len(s) => Append(SubSeq(s, 1, n), s[n + 1]) = SubSeq(s, 1, n + 1)
         /\ SubSeq(s, 1, Len(s)) = s
PROOF
  <1>. DEFINE t(m) == SubSeq(s, 1, m)
  <1>1. ASSUME NEW m \in 0 .. Len(s)
        PROVE  /\ t(m) \in Seq(S) /\ Len(t(m)) = m
               /\ \A i \in 1 .. m : t(m)[i] = s[i]
    <2>1. \A i \in 1 .. m : s[i] \in S
      BY ElementOfSeq
    <2>2. /\ SubSeq(s, 1, m) \in Seq(S)
          /\ Len(SubSeq(s, 1, m)) = IF 1 <= m THEN m - 1 + 1 ELSE 0
          /\ \A i \in 1 .. m - 1 + 1 : SubSeq(s, 1, m)[i] = s[1 + i - 1]
      BY <2>1, SubSeqProperties
    <2>. QED
      BY <2>2
  <1>2. t(0) = <<>>
    BY SubSeqEmpty
  <1>3. n > 0 => t(n) # <<>>
    <2>1. Len(t(n)) = n /\ Len(<<>>) = 0
      BY <1>1
    <2>. HIDE DEF t
    <2>. QED
      BY <2>1
  <1>4. t(Len(s)) = s
    BY SubSeqFull
  <1>5. ASSUME n > 0
        PROVE  SubSeq(t(n), 1, n - 1) = t(n - 1)
    <2>1. n - 1 \in 0 .. Len(s) /\ n \in Nat
      BY <1>5
    <2>2. \A i \in 1 .. n - 1 : t(n)[i] = s[i] /\ s[i] \in S
      BY <1>1, <2>1, ElementOfSeq
    <2>3. /\ SubSeq(t(n), 1, n - 1) \in Seq(S)
          /\ Len(SubSeq(t(n), 1, n - 1)) = IF 1 <= n - 1 THEN n - 1 - 1 + 1 ELSE 0
          /\ \A i \in 1 .. n - 1 - 1 + 1 : SubSeq(t(n), 1, n - 1)[i] = t(n)[1 + i - 1]
      BY <2>1, <2>2, SubSeqProperties
    <2>4. /\ t(n - 1) \in Seq(S) /\ Len(t(n - 1)) = n - 1
          /\ \A i \in 1 .. n - 1 : t(n - 1)[i] = s[i]
      BY <1>1, <2>1
    <2>. HIDE DEF t
    <2>5. /\ Len(SubSeq(t(n), 1, n - 1)) = n - 1
          /\ \A i \in 1 .. n - 1 : SubSeq(t(n), 1, n - 1)[i] = t(n - 1)[i]
      BY <2>1, <2>2, <2>3, <2>4
    <2>. QED
      BY <2>3, <2>4, <2>5, SeqEqual
  <1>6. ASSUME n < Len(s)
        PROVE  Append(t(n), s[n + 1]) = t(n + 1)
    <2>1. n + 1 \in 0 .. Len(s) /\ n \in Nat /\ s[n + 1] \in S
      BY <1>6, ElementOfSeq
    <2>2. /\ t(n) \in Seq(S) /\ Len(t(n)) = n
          /\ \A i \in 1 .. n : t(n)[i] = s[i]
      BY <1>1
    <2>3. /\ t(n + 1) \in Seq(S) /\ Len(t(n + 1)) = n + 1
          /\ \A i \in 1 .. n + 1 : t(n + 1)[i] = s[i]
      BY <1>1, <2>1
    <2>. HIDE DEF t
    <2>4. /\ Append(t(n), s[n + 1]) \in Seq(S) /\ Len(Append(t(n), s[n + 1])) = n + 1
          /\ \A i \in 1 .. n + 1 : Append(t(n), s[n + 1])[i] = s[i]
      BY <2>1, <2>2
    <2>. QED
      BY <2>3, <2>4, SeqEqual
  <1>. QED
    BY <1>1, <1>2, <1>3, <1>4, <1>5, <1>6

LEMMA SagaStep ==
  ASSUME IInv, IInv', UNCHANGED fixed, Steps
  PROVE  [AbstractPlan!Next]_(AbstractPlan!sagaVars)
PROOF
  <1>a. /\ plan' = plan /\ driver' = driver /\ plan \in Seq(Request)
        /\ Len(log) \in Nat /\ undo \in Nat /\ DOMAIN log = 1 .. Len(log)
    BY DEF fixed, IInv, TypeOK
  <1>1. CASE driver # "apply"
    <2>1. SagaMode' = SagaMode /\ SagaStack' = SagaStack
      BY <1>a, <1>1 DEF SagaMode, SagaStack
    <2>. QED
      BY <1>a, <2>1 DEF AbstractPlan!sagaVars
  <1>b. ASSUME driver = "apply", UNCHANGED <<log, undo>>
        PROVE  /\ SagaStack' = SagaStack
               /\ Failures' = Failures
               /\ UNCHANGED phase => SagaMode' = SagaMode
    BY <1>a, <1>b DEF SagaStack, SagaMode, Failures
  <1>2. ASSUME driver = "apply", NEW r \in OperationResult, Recorded(r)
        PROVE  AbstractPlan!Next
    <2>1. HasOp /\ Record(r)
      BY <1>2 DEF Recorded
    <2>2. /\ Len(log') = Len(log) + 1 /\ DOMAIN log' = 1 .. Len(log) + 1
          /\ (\A k \in DOMAIN log : log'[k] = log[k])
          /\ log'[Len(log) + 1] = r
      BY <2>1, LogGrows
    <2>3. CASE phase = "forward"
      <3>1. Failures = {} /\ Len(log) < Len(plan)
        BY <1>2, <2>1, <2>3, AheadInOrder DEF HasOp, IInv, Shape
      <3>2. SagaMode = "forward" /\ SagaStack = SubSeq(plan, 1, Len(log))
        BY <1>2, <2>3, <3>1 DEF SagaMode, SagaStack
      <3>3. Len(log) \in 0 .. Len(plan)
        BY <1>a, <3>1
      <3>4. /\ Len(SubSeq(plan, 1, Len(log))) = Len(log)
            /\ Append(SubSeq(plan, 1, Len(log)), plan[Len(log) + 1])
                 = SubSeq(plan, 1, Len(log) + 1)
        BY <1>a, <3>1, <3>3, Beginnings
      <3>5. CASE Success(r)
        <4>1. phase' = "forward"
          BY <2>1, <2>3, <3>5 DEF Record, StopsAt
        <4>2. Failures' = {}
          <5>1. Ahead'
            BY <4>1 DEF IInv, Shape
          <5>. QED
            BY <1>2, <1>a, <5>1 DEF Ahead, Failures
        <4>3. SagaMode' = "forward" /\ SagaStack' = SubSeq(plan, 1, Len(log) + 1)
          BY <1>2, <1>a, <2>2, <4>1, <4>2 DEF SagaMode, SagaStack
        <4>. QED
          BY <1>a, <3>1, <3>2, <3>4, <4>3 DEF AbstractPlan!Next, AbstractPlan!Complete
      <3>6. CASE ~Success(r)
        <4>1. phase' = "rollback" /\ undo' = Len(log)
          BY <1>2, <2>1, <2>3, <3>6 DEF Record, StopsAt
        <4>2. Len(log) + 1 \in Failures'
          BY <1>a, <2>2, <3>6 DEF Failures
        <4>3. SagaMode' = "backward" /\ SagaStack' = SubSeq(plan, 1, Len(log))
          BY <1>2, <1>a, <4>1, <4>2 DEF SagaMode, SagaStack
        <4>. QED
          BY <1>a, <3>1, <3>2, <3>4, <4>3
             DEF AbstractPlan!Next, AbstractPlan!TurnAround, AbstractPlan!Move
      <3>. QED
        BY <3>5, <3>6
    <2>4. CASE phase = "rollback"
      <3>1. PICK f \in Nat : Turned(f)
        BY <2>4 DEF IInv, Shape
      <3>2. f \in Failures /\ undo \in 0 .. Len(plan) /\ undo > 0
        <4>1. f \in Failures
          BY <3>1, FirstFailureOfTurned
        <4>2. f \in 1 .. Len(plan) /\ undo < f /\ Len(plan) \in Nat
          BY <1>a, <3>1 DEF Turned
        <4>3. undo > 0
          BY <2>1, <2>4 DEF HasOp
        <4>. QED
          BY <1>a, <4>1, <4>2, <4>3
      <3>3. phase' = "rollback" /\ undo' = undo - 1
        BY <2>1, <2>4 DEF Record, StopsAt
      <3>4. f \in Failures'
        BY <1>a, <2>2, <3>2 DEF Failures
      <3>5. SagaMode = "backward" /\ SagaStack = SubSeq(plan, 1, undo)
        BY <1>2, <2>4, <3>2 DEF SagaMode, SagaStack
      <3>6. SagaMode' = "backward" /\ SagaStack' = SubSeq(plan, 1, undo - 1)
        BY <1>2, <1>a, <3>3, <3>4 DEF SagaMode, SagaStack
      <3>7. /\ Len(SubSeq(plan, 1, undo)) = undo
            /\ SubSeq(plan, 1, undo) # <<>>
            /\ SubSeq(SubSeq(plan, 1, undo), 1, undo - 1) = SubSeq(plan, 1, undo - 1)
        BY <1>a, <3>2, Beginnings
      <3>. QED
        BY <1>a, <3>5, <3>6, <3>7 DEF AbstractPlan!Next, AbstractPlan!UndoLast
    <2>. QED
      BY <2>1, <2>3, <2>4 DEF HasOp
  <1>3. ASSUME driver = "apply", Around
        PROVE  [AbstractPlan!Next]_(AbstractPlan!sagaVars)
    <2>1. UNCHANGED <<log, undo>>
      BY <1>3 DEF Around
    <2>2. SagaStack' = SagaStack /\ Failures' = Failures
      BY <1>3, <1>b, <2>1
    <2>3. CASE UNCHANGED phase
      BY <1>3, <1>a, <1>b, <2>1, <2>3 DEF AbstractPlan!sagaVars
    <2>4. CASE phase = "validate" /\ phase' \in {"forward", "rejected"}
      <3>1. SagaMode = "open"
        BY <2>4 DEF SagaMode
      <3>2. /\ phase' = "forward" => SagaMode' = "forward"
            /\ phase' = "rejected" => SagaMode' = "refused"
        BY <1>3, <1>a DEF SagaMode
      <3>. QED
        BY <1>a, <2>2, <2>4, <3>1, <3>2
           DEF AbstractPlan!Next, AbstractPlan!Open, AbstractPlan!Refuse, AbstractPlan!Move
    <2>5. CASE phase \in {"forward", "rollback"} /\ phase' \in {"raised", "interrupted"}
      <3>1. SagaMode \in {"forward", "backward"}
        BY <1>3, <2>5 DEF SagaMode
      <3>2. SagaMode' = "abandoned"
        BY <1>3, <1>a, <2>5 DEF SagaMode
      <3>. QED
        BY <1>a, <2>2, <3>1, <3>2 DEF AbstractPlan!Next, AbstractPlan!Abandon
    <2>6. CASE phase = "forward" /\ ~HasOp /\ phase' = "returned"
      <3>1. Ahead /\ Failures = {}
        BY <1>3, <2>6, AheadInOrder DEF IInv, Shape
      <3>2. Len(log) = Len(plan)
        BY <1>a, <2>6, <3>1 DEF Ahead, HasOp
      <3>3. SagaMode = "forward" /\ SagaStack = SubSeq(plan, 1, Len(plan))
        BY <1>3, <2>6, <3>1, <3>2 DEF SagaMode, SagaStack
      <3>4. SagaMode' = "committed"
        BY <1>3, <1>a, <2>2, <2>6, <3>1 DEF SagaMode
      <3>5. SubSeq(plan, 1, Len(plan)) = plan
        BY <1>a, SubSeqFull
      <3>. QED
        BY <1>a, <2>2, <3>3, <3>4, <3>5
           DEF AbstractPlan!Next, AbstractPlan!Commit, AbstractPlan!Move
    <2>7. CASE phase = "rollback" /\ ~HasOp /\ phase' = "returned"
      <3>1. PICK f \in Nat : Turned(f)
        BY <2>7 DEF IInv, Shape
      <3>2. f \in Failures /\ undo = 0
        BY <1>a, <2>7, <3>1, FirstFailureOfTurned DEF HasOp
      <3>3. SagaMode = "backward" /\ SagaStack = SubSeq(plan, 1, 0)
        BY <1>3, <2>7, <3>2 DEF SagaMode, SagaStack
      <3>4. SagaMode' = "compensated"
        BY <1>3, <1>a, <2>2, <2>7, <3>2 DEF SagaMode
      <3>5. SubSeq(plan, 1, 0) = <<>>
        BY SubSeqEmpty
      <3>. QED
        BY <1>a, <2>2, <3>3, <3>4, <3>5
           DEF AbstractPlan!Next, AbstractPlan!Compensate, AbstractPlan!Move
    <2>. QED
      BY <1>3, <2>3, <2>4, <2>5, <2>6, <2>7 DEF Around, Ends
  <1>4. ASSUME driver = "apply", NEW c \in Call, Continued(c)
        PROVE  UNCHANGED AbstractPlan!sagaVars
    BY <1>4, <1>a, <1>b DEF Continued, Goto, AbstractPlan!sagaVars
  <1>5. ASSUME driver = "apply", Instance, UNCHANGED exec
        PROVE  UNCHANGED AbstractPlan!sagaVars
    BY <1>5, <1>a, <1>b DEF exec, AbstractPlan!sagaVars
  <1>. QED
    BY <1>1, <1>2, <1>3, <1>4, <1>5 DEF Steps

(* Whatever the instance, the network and the user do, apply_plan only ever  *)
(* does what the saga allows: complete the plan in order, turn around at     *)
(* the first failure, undo last first, and return only with everything       *)
(* completed or with nothing left to undo.                                   *)
THEOREM PlanIsSaga == Spec => ImplementsSaga
PROOF
  <1>1. Init => AbstractPlan!Init
    <2>. SUFFICES ASSUME Init PROVE AbstractPlan!Init
      OBVIOUS
    <2>1. log = <<>> /\ undo = 0 /\ (driver = "apply" => phase = "validate")
      BY DEF Init
    <2>2. SubSeq(plan, 1, 0) = <<>>
      BY SubSeqEmpty
    <2>3. SagaStack = <<>>
      BY <2>1, <2>2 DEF SagaStack, Failures
    <2>4. SagaMode = "open"
      BY <2>1 DEF SagaMode
    <2>. QED
      BY <2>3, <2>4 DEF AbstractPlan!Init
  <1>2. SafeInv /\ [Next]_vars => [AbstractPlan!Next]_(AbstractPlan!sagaVars)
    BY NextWays, NextInv, SagaStep DEF SafeInv
  <1>. QED
    BY <1>1, <1>2, Safe, PTL DEF Spec, ImplementsSaga, AbstractPlan!Spec
=============================================================================
