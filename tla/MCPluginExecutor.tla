-------------------------- MODULE MCPluginExecutor --------------------------
(***************************************************************************)
(* Two plugins and two versions.  `app` is a store app that is absent and  *)
(* may depend on `base`; `base` ships with the instance.                   *)
(***************************************************************************)
EXTENDS PluginExecutor, TLC

CONSTANTS app, base

MCPlugins == {app, base}

Req(action, p, v) == [action |-> action, plugin |-> p, target |-> v, force |-> FALSE]
Forced(r) == [r EXCEPT !.force = TRUE]

At2(v, a) == [version |-> v, active |-> a]

(* Plans that install, activate and upgrade, that succeed or fail late, that *)
(* fit the instance and that do not.                                         *)
ApplyPlans ==
  { << Req("install", app, 1), Req("activate", app, 1), Req("upgrade", base, 2) >>,
    << Req("install", app, 2), Req("upgrade", base, 2) >>,
    << Req("activate", base, 1), Req("upgrade", app, 2) >>,
    << Req("upgrade", base, 2), Req("upgrade", base, 2) >> }

MCApplyPrograms == {[driver |-> "apply", plan |-> p] : p \in ApplyPlans}

MCApplySnapshots ==
  { [known |-> MCPlugins, base |-> {base}, deps |-> [p \in MCPlugins |-> {}]],
    [known |-> {base}, base |-> {base}, deps |-> [p \in MCPlugins |-> {}]] }

MCApplyInstances ==
  { (app :> Absent) @@ (base :> At2(1, FALSE)),
    (app :> At2(1, TRUE)) @@ (base :> At2(1, TRUE)) }

(* Direct calls on one executor, and batches. *)
CallPlans ==
  { << Req("install", app, 1), Req("deactivate", base, None) >>,
    << Req("uninstall", base, None), Req("uninstall", app, None) >>,
    << Forced(Req("uninstall", base, None)), Req("activate", app, None) >>,
    << Req("install", app, 2), Forced(Req("uninstall", app, None)) >>,
    << Req("deactivate", app, None), Forced(Req("deactivate", base, None)) >> }

BatchPlans == { << Req("upgrade", app, None), Req("upgrade", base, 2) >> }

MCCallPrograms ==
  {[driver |-> "calls", plan |-> p] : p \in CallPlans}
    \union {[driver |-> "batch", plan |-> p] : p \in BatchPlans}
    \union {[driver |-> "apply", plan |-> << Req("upgrade", base, 2), Req("upgrade", app, 2) >>]}

MCCallSnapshots ==
  { [known |-> k, base |-> {base}, deps |-> (app :> {base}) @@ (base :> {})] :
      k \in {MCPlugins, {base}} }

MCCallInstances == { (app :> At2(1, TRUE)) @@ (base :> At2(1, TRUE)) }
=============================================================================
