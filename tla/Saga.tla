-------------------------------- MODULE Saga --------------------------------
(***************************************************************************)
(* What PluginExecutor.apply_plan promises, without trackers, polls or     *)
(* transport: the operations of a plan are completed in order; the first   *)
(* one that fails turns the run around; from then on completed operations  *)
(* are undone, last first, one attempt each; and the call returns only     *)
(* with everything completed or with nothing left to undo.  An exception   *)
(* or the user may abandon the plan half way.                              *)
(***************************************************************************)
EXTENDS Sequences, Naturals

VARIABLES
  plan,   \* the operations, in order
  mode,
  stack   \* operations completed and not yet undone

sagaVars == <<plan, mode, stack>>

Modes == {"open", "forward", "backward", "committed", "compensated", "refused",
          "abandoned"}

Init == mode = "open" /\ stack = <<>>

Move(from, to) == mode = from /\ mode' = to

Open == Move("open", "forward") /\ UNCHANGED <<plan, stack>>

Refuse == Move("open", "refused") /\ UNCHANGED <<plan, stack>>

Complete ==
  /\ mode = "forward"
  /\ Len(stack) < Len(plan)
  /\ stack' = Append(stack, plan[Len(stack) + 1])
  /\ UNCHANGED <<plan, mode>>

TurnAround ==
  /\ Move("forward", "backward")
  /\ Len(stack) < Len(plan)
  /\ UNCHANGED <<plan, stack>>

UndoLast ==
  /\ mode = "backward"
  /\ stack # <<>>
  /\ stack' = SubSeq(stack, 1, Len(stack) - 1)
  /\ UNCHANGED <<plan, mode>>

Commit == Move("forward", "committed") /\ stack = plan /\ UNCHANGED <<plan, stack>>

Compensate == Move("backward", "compensated") /\ stack = <<>> /\ UNCHANGED <<plan, stack>>

Abandon ==
  /\ mode \in {"forward", "backward"}
  /\ mode' = "abandoned"
  /\ UNCHANGED <<plan, stack>>

Next ==
  \/ Open \/ Refuse \/ Complete \/ TurnAround \/ UndoLast
  \/ Commit \/ Compensate \/ Abandon

Spec == Init /\ [][Next]_sagaVars
=============================================================================
