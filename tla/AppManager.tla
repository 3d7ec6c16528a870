----------------------------- MODULE AppManager -----------------------------
(***************************************************************************)
(* The ServiceNow side of a plugin operation, as the program uses it: the  *)
(* sn_appclient "appmanager" endpoints accept a job and hand out a         *)
(* progress tracker, and the instance later runs the job.  ServiceNow is   *)
(* not in this repository; the module says what the client, the executor   *)
(* and their tests rely on:                                                *)
(*   - install and upgrade are the same endpoint                           *)
(*     (client.py, submit_upgrade);                                        *)
(*   - a job ends in Success, or in Failed / Cancelled (progress.py), and  *)
(*     a job that does not succeed changes nothing;                        *)
(*   - asking for the installed version fails with "Application version is *)
(*     currently installed" (error_classification.py), either in the       *)
(*     answer to the request or as the error of a failed job;              *)
(*   - a tracker of a finished job may report the version the instance     *)
(*     would roll back to (progress.py, rollback_version).                 *)
(***************************************************************************)
EXTENDS Naturals, Sequences

CONSTANTS
  Plugins,     \* plugin ids
  MaxVersion   \* versions are 1..MaxVersion; the last one is "latest"

ASSUME MaxVersionAssumption == MaxVersion \in Nat \ {0}

None == 0                       \* no version: not installed, not reported, not pinned
Versions == None .. MaxVersion
Endpoints == {"install", "activate", "deactivate", "uninstall"}

(* What the instance holds of one plugin. *)
Installation == [version : Versions, active : BOOLEAN]
Absent == [version |-> None, active |-> FALSE]

(* One accepted request.  `op` is the place in the caller's log of the       *)
(* result the request was sent for (the caller's bookkeeping, not            *)
(* ServiceNow's); `was` is the installed version the job found.              *)
JobStatus == {"pending", "success", "failed", "already"}
Job == [endpoint : Endpoints, plugin : Plugins, target : Versions,
        op : Nat, status : JobStatus, was : Versions]

VARIABLES
  sn,    \* what the instance holds: plugin -> Installation
  jobs   \* every accepted job, in the order ServiceNow accepted them

remote == <<sn, jobs>>

AppManagerTypeOK ==
  /\ sn \in [Plugins -> Installation]
  /\ jobs \in Seq(Job)

(* A request without a version means the latest one. *)
Resolved(target) == IF target = None THEN MaxVersion ELSE target

AtTarget(p, target) == sn[p].version = Resolved(target)

Effect(j) ==
  CASE j.endpoint = "install"    -> [sn[j.plugin] EXCEPT !.version = Resolved(j.target)]
    [] j.endpoint = "activate"   -> [sn[j.plugin] EXCEPT !.active = TRUE]
    [] j.endpoint = "deactivate" -> [sn[j.plugin] EXCEPT !.active = FALSE]
    [] j.endpoint = "uninstall"  -> Absent

(* Only an installed plugin can be activated, deactivated or uninstalled. *)
Applicable(j) == j.endpoint = "install" \/ sn[j.plugin].version # None

(* The request reached the instance and was accepted. *)
Accept(endpoint, p, target, op) ==
  /\ jobs' = Append(jobs, [endpoint |-> endpoint, plugin |-> p, target |-> target,
                           op |-> op, status |-> "pending", was |-> None])
  /\ UNCHANGED sn

-----------------------------------------------------------------------------
(* The instance finishes a job at a time of its own choosing: while the      *)
(* client polls, after the client gave up, or never.                         *)

JobSucceeds(k) ==
  /\ jobs[k].status = "pending"
  /\ Applicable(jobs[k])
  /\ sn' = [sn EXCEPT ![jobs[k].plugin] = Effect(jobs[k])]
  /\ jobs' = [jobs EXCEPT ![k] = [@ EXCEPT !.status = "success",
                                           !.was = sn[jobs[k].plugin].version]]

JobFails(k) ==
  /\ jobs[k].status = "pending"
  /\ jobs' = [jobs EXCEPT ![k] = [@ EXCEPT !.status = "failed"]]
  /\ UNCHANGED sn

JobFindsTargetInstalled(k) ==
  /\ jobs[k].status = "pending"
  /\ jobs[k].endpoint = "install"
  /\ AtTarget(jobs[k].plugin, jobs[k].target)
  /\ jobs' = [jobs EXCEPT ![k] = [@ EXCEPT !.status = "already"]]
  /\ UNCHANGED sn

Instance ==
  \E k \in DOMAIN jobs : JobSucceeds(k) \/ JobFails(k) \/ JobFindsTargetInstalled(k)
=============================================================================
