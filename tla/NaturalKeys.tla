----------------------------- MODULE NaturalKeys -----------------------------
(***************************************************************************)
(* What the dependency closure and the wave builder of the migration       *)
(* planner have in common: the natural keys that name the items of a plan. *)
(***************************************************************************)
CONSTANT Keys
=============================================================================
