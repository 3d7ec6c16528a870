---------------------------- MODULE PlannerProofs ----------------------------
(***************************************************************************)
(* Theorems about the migration planner's two algorithms: the dependency   *)
(* closure (DependencyClosure), for every selection, every capture and     *)
(* every order of the walk, and the waves (WavePlanner), for every set of  *)
(* keys and every graph.                                                   *)
(***************************************************************************)
EXTENDS DependencyClosure, WavePlanner, SequenceTheorems, FiniteSetTheorems, TLAPS

(***************************************************************************)
(* The closure.                                                            *)
(*                                                                         *)
(* The inductive invariant.  Walked: what a walked key brings in is in the *)
(* plan.  Least: the plan holds nothing that a closed set with the         *)
(* included keys could leave out.                                          *)
(***************************************************************************)
Walked ==
    \A id \in DOMAIN old : IsWinner(id) /\ old[id].key \in processed => Additions(id) \subseteq closure

Least == \A S \in SUBSET Keys : Seeds \subseteq S /\ Closed(S) => closure \subseteq S

ClosureInv ==
    /\ ClosureTypeOK
    /\ Seeds \subseteq closure
    /\ phase = "done" => queue = {}
    /\ Walked
    /\ Least
    /\ EdgesWithinPlan

-----------------------------------------------------------------------------
(* The arguments have the shape the code expects of them. *)
LEMMA InputShape ==
  ASSUME arguments \in Arguments
  PROVE  /\ DOMAIN old \subseteq SysIds /\ old \in [DOMAIN old -> Record]
         /\ DOMAIN selection \subseteq Keys
         /\ selection \in [DOMAIN selection -> Disposition]
  BY ArgumentsAssumption DEF IsInput, old, selection

(* Keys brought in by a record are keys, and edges it records join them. *)
LEMMA WalkShape ==
  ASSUME arguments \in Arguments, NEW id \in DOMAIN old
  PROVE  /\ old[id].key \in Keys
         /\ Additions(id) \subseteq Keys
         /\ TargetsThat(id, "include") \subseteq Seeds
<1>1. /\ DOMAIN old \subseteq SysIds /\ old \in [DOMAIN old -> Record]
      /\ DOMAIN selection \subseteq Keys
  BY InputShape
<1>2. \A t \in DOMAIN old : old[t] \in Record /\ old[t].key \in Keys
  BY <1>1 DEF Record
<1>3. Additions(id) \subseteq Keys
  BY <1>2 DEF Additions, TargetsThat, Targets, Children
<1>4. TargetsThat(id, "include") \subseteq Seeds
  BY DEF TargetsThat, Seeds
<1>5. QED
  BY <1>2, <1>3, <1>4

(* A natural key has one winner at most. *)
LEMMA OneWinner ==
  ASSUME arguments \in Arguments, NEW id \in DOMAIN old, NEW other \in DOMAIN old,
         IsWinner(id), IsWinner(other), old[id].key = old[other].key
  PROVE  id = other
<1>1. id \in Nat /\ other \in Nat
  BY InputShape, SysIdsAssumption
<1>2. id <= other /\ other <= id
  BY DEF IsWinner, RecordsOf
<1>3. QED
  BY <1>1, <1>2

LEMMA ClosureStarts == ClosureInit => ClosureInv
<1> SUFFICES ASSUME ClosureInit PROVE ClosureInv
  OBVIOUS
<1>1. arguments \in Arguments /\ Seeds \subseteq Keys
  BY InputShape DEF ClosureInit, Seeds
<1>2. \A f \in findings : f.subject_key \in Keys \cup Tables
  BY DEF ClosureInit, CollisionFindings, Finding
<1>3. QED
  BY <1>1, <1>2 DEF ClosureInit, ClosureInv, ClosureTypeOK, Walked, Least, EdgesWithinPlan

(* The input does not change, and with it nothing read from it. *)
LEMMA InputUnchanged ==
  ASSUME UNCHANGED arguments
  PROVE  /\ old' = old /\ Seeds' = Seeds
         /\ \A id : IsWinner(id)' = IsWinner(id) /\ Additions(id)' = Additions(id)
         /\ \A S : Closed(S)' = Closed(S)
<1>1. old' = old /\ selection' = selection
  BY DEF old, selection
<1>2. /\ Seeds' = Seeds
      /\ \A id : IsWinner(id)' = IsWinner(id)
      /\ \A id : Additions(id)' = Additions(id)
  BY <1>1 DEF Seeds, IsWinner, RecordsOf, Additions, TargetsThat, Targets, Children
<1>3. \A S : Closed(S)' = Closed(S)
  BY <1>1, <1>2 DEF Closed
<1>4. QED
  BY <1>1, <1>2, <1>3

LEMMA WalkUncapturedIInv ==
  ASSUME ClosureInv, NEW key \in Keys, WalkUncaptured(key)
  PROVE  ClosureInv'
<1>1. /\ UNCHANGED <<arguments, phase, closure, ordering_edges, findings>>
      /\ processed' = processed \cup {key} /\ queue' = queue \ {key}
      /\ key \in queue /\ phase = "walk" /\ RecordsOf(key) = {}
  BY DEF WalkUncaptured, Dequeue
<1>2. ClosureTypeOK'
  BY <1>1 DEF ClosureInv, ClosureTypeOK
<1>3. Walked'
  <2>1. \A id \in DOMAIN old : old[id].key # key
    BY <1>1 DEF RecordsOf
  <2>2. QED
    BY <2>1, <1>1, InputUnchanged DEF ClosureInv, Walked
<1>4. Least' /\ Seeds' \subseteq closure' /\ EdgesWithinPlan'
  BY <1>1, InputUnchanged DEF ClosureInv, Least, EdgesWithinPlan
<1>5. QED
  BY <1>1, <1>2, <1>3, <1>4 DEF ClosureInv

LEMMA WalkRecordIInv ==
  ASSUME ClosureInv, NEW key \in Keys, WalkRecord(key)
  PROVE  ClosureInv'
<1>1. PICK id \in RecordsOf(key) :
         /\ IsWinner(id)
         /\ closure' = closure \cup Additions(id)
         /\ queue' = (queue \ {key}) \cup (Additions(id) \ closure)
         /\ ordering_edges' = ordering_edges \cup WalkEdges(key, id)
         /\ findings' = findings \cup WalkFindings(key, id)
  BY DEF WalkRecord
<1>2. /\ UNCHANGED <<arguments, phase>> /\ processed' = processed \cup {key}
      /\ key \in queue /\ phase = "walk"
  BY DEF WalkRecord, Dequeue
<1>3. id \in DOMAIN old /\ old[id].key = key
  BY DEF RecordsOf
<1>4. arguments \in Arguments /\ closure \subseteq Keys /\ closure = queue \cup processed /\ key \in closure
  BY <1>2 DEF ClosureInv, ClosureTypeOK
<1>5. Additions(id) \subseteq Keys /\ TargetsThat(id, "include") \subseteq closure
  BY <1>3, <1>4, WalkShape DEF ClosureInv
<1>6. WalkEdges(key, id) \subseteq closure' \X closure'
  BY <1>1, <1>4, <1>5 DEF WalkEdges, Additions
<1>7. EdgesWithinPlan'
  BY <1>1, <1>6 DEF ClosureInv, EdgesWithinPlan
<1>8. ClosureTypeOK'
  <2>1. \A f \in WalkFindings(key, id) : f.subject_key = key
    BY DEF WalkFindings, ScopeFindings, Finding
  <2>2. closure' \subseteq Keys /\ ordering_edges' \subseteq Keys \X Keys
    <3>1. closure' \subseteq Keys
      BY <1>1, <1>4, <1>5
    <3>2. QED
      BY <3>1, <1>7 DEF EdgesWithinPlan
  <2>3. closure' = queue' \cup processed' /\ queue' \cap processed' = {}
    BY <1>1, <1>2, <1>4 DEF ClosureInv, ClosureTypeOK
  <2>4. QED
    BY <2>1, <2>2, <2>3, <1>1, <1>2 DEF ClosureInv, ClosureTypeOK
<1>9. Walked'
  <2>1. SUFFICES ASSUME NEW w \in DOMAIN old, IsWinner(w), old[w].key \in processed'
                 PROVE  Additions(w) \subseteq closure'
    BY <1>2, InputUnchanged DEF Walked
  <2>2. CASE old[w].key \in processed
    BY <2>1, <2>2, <1>1 DEF ClosureInv, Walked
  <2>3. CASE old[w].key = key
    BY <2>1, <2>3, <1>1, <1>3, <1>4, OneWinner
  <2>4. QED
    BY <2>1, <2>2, <2>3, <1>2
<1>10. Least'
  <2>1. SUFFICES ASSUME NEW S \in SUBSET Keys, Seeds \subseteq S, Closed(S)
                 PROVE  closure' \subseteq S
    BY <1>2, InputUnchanged DEF Least
  <2>2. closure \subseteq S
    BY <2>1 DEF ClosureInv, Least
  <2>3. Additions(id) \subseteq S
    BY <2>1, <2>2, <1>1, <1>3, <1>4 DEF Closed
  <2>4. QED
    BY <2>2, <2>3, <1>1
<1>11. Seeds' \subseteq closure' /\ (phase' = "done" => queue' = {})
  BY <1>1, <1>2, InputUnchanged DEF ClosureInv
<1>12. QED
  BY <1>7, <1>8, <1>9, <1>10, <1>11 DEF ClosureInv

LEMMA FinishIInv == ASSUME ClosureInv, Finish PROVE ClosureInv'
<1>1. /\ UNCHANGED <<arguments, closure, queue, processed, ordering_edges>>
      /\ phase' = "done" /\ queue = {} /\ findings' = findings \cup PostureFindings
  BY DEF Finish
<1>2. ClosureTypeOK'
  <2>1. \A f \in PostureFindings : f.subject_key \in Tables
    <3>1. arguments.drifted \subseteq Tables
      BY ArgumentsAssumption DEF ClosureInv, ClosureTypeOK, IsInput
    <3>2. QED
      BY <3>1 DEF PostureFindings, Finding
  <2>2. QED
    BY <2>1, <1>1 DEF ClosureInv, ClosureTypeOK
<1>3. Walked' /\ Least' /\ Seeds' \subseteq closure' /\ EdgesWithinPlan'
  BY <1>1, InputUnchanged DEF ClosureInv, Walked, Least, EdgesWithinPlan
<1>4. QED
  BY <1>1, <1>2, <1>3 DEF ClosureInv

-----------------------------------------------------------------------------
LEMMA NextIInv == ClosureInv /\ [ClosureNext]_closureVars => ClosureInv'
<1>1. SUFFICES ASSUME ClosureInv, [ClosureNext]_closureVars PROVE ClosureInv'
  OBVIOUS
<1>2. CASE \E key \in Keys : WalkUncaptured(key) \/ WalkRecord(key)
  BY <1>1, <1>2, WalkUncapturedIInv, WalkRecordIInv
<1>3. CASE Finish
  BY <1>1, <1>3, FinishIInv
<1>4. CASE UNCHANGED closureVars
  <2>1. UNCHANGED <<arguments, phase, closure, queue, processed, ordering_edges, findings>>
    BY <1>4 DEF closureVars
  <2>2. ClosureTypeOK'
    BY <1>1, <2>1 DEF ClosureInv, ClosureTypeOK
  <2>3. Walked' /\ Least' /\ Seeds' \subseteq closure' /\ EdgesWithinPlan'
    BY <1>1, <2>1, InputUnchanged DEF ClosureInv, Walked, Least, EdgesWithinPlan
  <2>4. QED
    BY <1>1, <2>1, <2>2, <2>3 DEF ClosureInv
<1>5. QED
  BY <1>1, <1>2, <1>3, <1>4 DEF ClosureNext

(* The invariant holds in every state of every walk. *)
THEOREM ClosureInductive == ClosureSpec => []ClosureInv
  BY ClosureStarts, NextIInv, PTL DEF ClosureSpec

(* Type correctness, and that no key is walked twice. *)
THEOREM ClosureTypeCorrect == ClosureSpec => []ClosureTypeOK
<1>1. ClosureInv => ClosureTypeOK
  BY DEF ClosureInv
<1>2. QED
  BY <1>1, ClosureInductive, PTL

(* Whatever the order of the walk, the plan that is returned is the least   *)
(* set of keys with the included ones that is closed under the references   *)
(* to undecided keys and under the co-capture rules: the result does not    *)
(* depend on the order of the records (closure.py, "Determinism").          *)
THEOREM Closure == ClosureSpec => []ClosureIsLeast
<1>1. ClosureInv => ClosureIsLeast
  <2>1. SUFFICES ASSUME ClosureInv PROVE ClosureIsLeast
    OBVIOUS
  <2>2. phase = "done" => Closed(closure)
    BY <2>1 DEF ClosureInv, ClosureTypeOK, Walked, Closed
  <2>3. QED
    BY <2>1, <2>2 DEF ClosureInv, Least, ClosureIsLeast
<1>2. QED
  BY <1>1, ClosureInductive, PTL

(* The edges join items of the plan: the planner ignores none of them.      *)
THEOREM EdgesWithin == ClosureSpec => []EdgesWithinPlan
<1>1. ClosureInv => EdgesWithinPlan
  BY DEF ClosureInv
<1>2. QED
  BY <1>1, ClosureInductive, PTL

-----------------------------------------------------------------------------
(* What the walk has recorded: the edges and findings of every key it has    *)
(* walked, and every collision.                                              *)
Recorded ==
    /\ CollisionFindings \subseteq findings
    /\ \A id \in DOMAIN old : IsWinner(id) /\ old[id].key \in processed =>
          /\ WalkEdges(old[id].key, id) \subseteq ordering_edges
          /\ WalkFindings(old[id].key, id) \subseteq findings

SafeInv == ClosureInv /\ Recorded /\ ExcludedOnlyAsDetail

(* Nothing else that is read of the input changes either.                    *)
LEMMA ReadingUnchanged ==
  ASSUME UNCHANGED arguments
  PROVE  /\ selection' = selection /\ CollisionFindings' = CollisionFindings
         /\ \A id : Children(id)' = Children(id)
         /\ \A key, id : /\ WalkEdges(key, id)' = WalkEdges(key, id)
                         /\ WalkFindings(key, id)' = WalkFindings(key, id)
<1>1. old' = old /\ selection' = selection
  BY DEF old, selection
<1>2. CollisionFindings' = CollisionFindings
  BY <1>1 DEF CollisionFindings, Colliding, RecordsOf, Finding
<1>3. \A id : Children(id)' = Children(id)
  BY <1>1 DEF Children
<1>4. \A key, id : WalkEdges(key, id)' = WalkEdges(key, id)
  BY <1>1 DEF WalkEdges, TargetsThat, Targets, Children
<1>5. \A key, id : WalkFindings(key, id)' = WalkFindings(key, id)
  BY <1>1 DEF WalkFindings, ScopeFindings, HasScopeGrant, Finding, TargetsThat, Targets
<1>6. QED
  BY <1>1, <1>2, <1>3, <1>4, <1>5

(* A step that only adds edges, findings and walked keys keeps both parts,   *)
(* provided that it keeps them for the keys it adds.                         *)
LEMMA GrowsSafe ==
  ASSUME SafeInv, UNCHANGED arguments,
         processed \subseteq processed', ordering_edges \subseteq ordering_edges',
         findings \subseteq findings',
         \A id \in DOMAIN old : IsWinner(id) /\ old[id].key \in processed' \ processed =>
            /\ WalkEdges(old[id].key, id) \subseteq ordering_edges'
            /\ WalkFindings(old[id].key, id) \subseteq findings',
         \A key \in closure' \ closure : key \in DOMAIN selection /\ selection[key] = "exclude" =>
            \E id \in DOMAIN old : /\ old[id].key \in processed' /\ key \in Children(id)
                                   /\ <<key, old[id].key>> \in ordering_edges'
  PROVE  Recorded' /\ ExcludedOnlyAsDetail'
<1>1. /\ old' = old /\ selection' = selection /\ CollisionFindings' = CollisionFindings
      /\ \A id : IsWinner(id)' = IsWinner(id) /\ Children(id)' = Children(id)
      /\ \A key, id : /\ WalkEdges(key, id)' = WalkEdges(key, id)
                      /\ WalkFindings(key, id)' = WalkFindings(key, id)
  BY InputUnchanged, ReadingUnchanged
<1>2. ASSUME NEW id \in DOMAIN old, IsWinner(id), NEW key, key = old[id].key, key \in processed'
      PROVE  WalkEdges(key, id) \subseteq ordering_edges' /\ WalkFindings(key, id) \subseteq findings'
  <2>1. CASE key \in processed
    BY <1>2, <2>1 DEF SafeInv, Recorded
  <2>2. CASE key \notin processed
    BY <1>2, <2>2
  <2>3. QED
    BY <2>1, <2>2
<1>3. ASSUME NEW key \in closure', key \in DOMAIN selection, selection[key] = "exclude"
      PROVE  \E id \in DOMAIN old : /\ old[id].key \in processed' /\ key \in Children(id)
                                    /\ <<key, old[id].key>> \in ordering_edges'
  <2>1. CASE key \in closure
    BY <1>3, <2>1 DEF SafeInv, ExcludedOnlyAsDetail
  <2>2. CASE key \notin closure
    BY <1>3, <2>2
  <2>3. QED
    BY <2>1, <2>2
<1>4. Recorded'
  <2>1. ASSUME NEW id \in DOMAIN old, IsWinner(id), old[id].key \in processed'
        PROVE  /\ WalkEdges(old[id].key, id)' \subseteq ordering_edges'
               /\ WalkFindings(old[id].key, id)' \subseteq findings'
    <3>1. \A key : key = old[id].key =>
             /\ WalkEdges(key, id)' \subseteq ordering_edges'
             /\ WalkFindings(key, id)' \subseteq findings'
      BY <1>1, <1>2, <2>1
    <3>2. PICK key : key = old[id].key
      OBVIOUS
    <3>3. WalkEdges(old[id].key, id)' = WalkEdges(key, id)'
      BY <1>1, <3>2 DEF WalkEdges
    <3>4. WalkFindings(old[id].key, id)' = WalkFindings(key, id)'
      BY <1>1, <3>2 DEF WalkFindings, ScopeFindings, Finding
    <3>5. QED
      BY <3>1, <3>2, <3>3, <3>4
  <2>2. CollisionFindings \subseteq findings'
    BY DEF SafeInv, Recorded
  <2>3. QED
    BY <1>1, <2>1, <2>2 DEF Recorded
<1>5. ExcludedOnlyAsDetail'
  BY <1>1, <1>3 DEF ExcludedOnlyAsDetail
<1>6. QED
  BY <1>4, <1>5

LEMMA InitSafe == ClosureInit => SafeInv
<1> SUFFICES ASSUME ClosureInit PROVE SafeInv
  OBVIOUS
<1>1. ClosureInv
  BY ClosureStarts
<1>2. findings = CollisionFindings /\ processed = {} /\ closure = Seeds
  BY DEF ClosureInit
<1>3. Recorded
  BY <1>2 DEF Recorded
<1>4. ExcludedOnlyAsDetail
  BY <1>2 DEF ExcludedOnlyAsDetail, Seeds
<1>5. QED
  BY <1>1, <1>3, <1>4 DEF SafeInv

LEMMA WalkRecordSafe ==
  ASSUME SafeInv, NEW key \in Keys, WalkRecord(key)
  PROVE  Recorded' /\ ExcludedOnlyAsDetail'
<1>1. PICK id \in RecordsOf(key) :
         /\ IsWinner(id)
         /\ closure' = closure \cup Additions(id)
         /\ ordering_edges' = ordering_edges \cup WalkEdges(key, id)
         /\ findings' = findings \cup WalkFindings(key, id)
  BY DEF WalkRecord
<1>2. UNCHANGED arguments /\ processed' = processed \cup {key}
  BY DEF WalkRecord, Dequeue
<1>3. id \in DOMAIN old /\ old[id].key = key /\ arguments \in Arguments
  BY DEF RecordsOf, SafeInv, ClosureInv, ClosureTypeOK
<1>4. \A w \in DOMAIN old : IsWinner(w) /\ old[w].key \in processed' \ processed => w = id
  BY <1>1, <1>2, <1>3, OneWinner
<1>5. ASSUME NEW w \in closure' \ closure, w \in DOMAIN selection, selection[w] = "exclude"
      PROVE  w \in Children(id) /\ <<w, key>> \in ordering_edges'
  <2>1. w \notin TargetsThat(id, "undecided")
    BY <1>5 DEF TargetsThat
  <2>2. w \in Children(id)
    BY <1>1, <1>5, <2>1 DEF Additions
  <2>3. QED
    BY <1>1, <2>2 DEF WalkEdges
<1>6. \A w \in DOMAIN old : IsWinner(w) /\ old[w].key \in processed' \ processed =>
         /\ WalkEdges(old[w].key, w) \subseteq ordering_edges'
         /\ WalkFindings(old[w].key, w) \subseteq findings'
  BY <1>1, <1>3, <1>4
<1>7. QED
  BY <1>1, <1>2, <1>3, <1>5, <1>6, GrowsSafe

LEMMA NextSafe == SafeInv /\ [ClosureNext]_closureVars => SafeInv'
<1> SUFFICES ASSUME SafeInv, [ClosureNext]_closureVars PROVE SafeInv'
  OBVIOUS
<1>1. ClosureInv'
  BY NextIInv DEF SafeInv
<1>2. CASE \E key \in Keys : WalkRecord(key)
  BY <1>1, <1>2, WalkRecordSafe DEF SafeInv
<1>3. ASSUME NEW key \in Keys, WalkUncaptured(key)
      PROVE  SafeInv'
  <2>1. /\ UNCHANGED <<arguments, closure, ordering_edges, findings>> /\ RecordsOf(key) = {}
        /\ processed' = processed \cup {key}
    BY <1>3 DEF WalkUncaptured, Dequeue
  <2>2. \A id \in DOMAIN old : old[id].key # key
    BY <2>1 DEF RecordsOf
  <2>3. QED
    BY <1>1, <2>1, <2>2, GrowsSafe DEF SafeInv
<1>4. CASE Finish \/ UNCHANGED closureVars
  <2>1. UNCHANGED <<arguments, closure, processed, ordering_edges>> /\ findings \subseteq findings'
    BY <1>4 DEF Finish, closureVars
  <2>2. QED
    BY <1>1, <2>1, GrowsSafe DEF SafeInv
<1>5. QED
  BY <1>2, <1>3, <1>4 DEF ClosureNext

(* The record is kept in every state of every walk. *)
THEOREM Safe == ClosureSpec => []SafeInv
  BY InitSafe, NextSafe, PTL DEF ClosureSpec

(* Whatever was captured and in whatever order it is walked, no reference of *)
(* an item is lost: its target comes before it, or a finding says why not    *)
(* (closure.py, _walk_edges). Walking a key once, by its smallest sys_id,    *)
(* is enough, because a second record of the key is a collision.             *)
THEOREM Accounted == ClosureSpec => []ReferencesAreAccounted
<1>1. SafeInv => ReferencesAreAccounted
  <2> SUFFICES ASSUME SafeInv, phase = "done", NEW id \in DOMAIN old, old[id].key \in closure,
                      Finding("KEY_COLLISION", old[id].key, old[id].key) \notin findings,
                      NEW t \in Targets(id), old[t].key \in DOMAIN selection
               PROVE  \/ <<old[id].key, old[t].key>> \in ordering_edges /\ old[t].key \in closure
                      \/ Finding("STRANDED_DEPENDENCY", old[id].key, old[t].key) \in findings
    BY DEF ReferencesAreAccounted
  <2>1. arguments \in Arguments /\ old[id].key \in processed
    BY DEF SafeInv, ClosureInv, ClosureTypeOK
  <2>2. id \in Nat /\ old[id].key \in Keys /\ selection \in [DOMAIN selection -> Disposition]
    BY <2>1, InputShape, WalkShape, SysIdsAssumption
  <2>3. ~ Colliding(old[id].key)
    BY <2>2 DEF SafeInv, Recorded, CollisionFindings
  <2>4. IsWinner(id)
    BY <2>2, <2>3 DEF Colliding, IsWinner, RecordsOf
  <2>5. /\ WalkEdges(old[id].key, id) \subseteq ordering_edges
        /\ WalkFindings(old[id].key, id) \subseteq findings
    BY <2>1, <2>4 DEF SafeInv, Recorded
  <2>6. t \in DOMAIN old /\ selection[old[t].key] \in {"include", "exclude", "undecided"}
    BY <2>2 DEF Targets, Disposition
  <2>7. old[t].key \in TargetsThat(id, selection[old[t].key])
    BY <2>6 DEF TargetsThat
  <2>8. CASE selection[old[t].key] = "exclude"
    BY <2>5, <2>7, <2>8 DEF WalkFindings
  <2>9. CASE selection[old[t].key] \in {"include", "undecided"}
    <3>1. <<old[id].key, old[t].key>> \in ordering_edges
      BY <2>5, <2>7, <2>9 DEF WalkEdges
    <3>2. QED
      BY <3>1 DEF SafeInv, ClosureInv, EdgesWithinPlan
  <2>10. QED
    BY <2>6, <2>8, <2>9
<1>2. QED
  BY <1>1, Safe, PTL

(* An explicit exclude is only ever overridden for a detail row of an item   *)
(* that was walked, and the row is ordered after it (closure.py,             *)
(* _CO_CAPTURE_RULES).                                                       *)
THEOREM ExcludesHold == ClosureSpec => []ExcludedOnlyAsDetail
<1>1. SafeInv => ExcludedOnlyAsDetail
  BY DEF SafeInv
<1>2. QED
  BY <1>1, Safe, PTL

(* What the closure hands to the planner is what the planner expects: its  *)
(* items and edges are one of the arguments InputsAssumption allows, and   *)
(* no edge leads to something that is not an item, so that the planner     *)
(* ignores none (cli/commands_migrate.py passes the one to the other).     *)
THEOREM Handover ==
  ClosureSpec => [](/\ [items |-> closure, edges |-> ordering_edges] \in
                           [items : SUBSET Keys, edges : SUBSET (Keys \X Keys)]
                    /\ ordering_edges \subseteq closure \X closure)
<1>1. ClosureInv => /\ [items |-> closure, edges |-> ordering_edges] \in
                           [items : SUBSET Keys, edges : SUBSET (Keys \X Keys)]
                    /\ ordering_edges \subseteq closure \X closure
  BY DEF ClosureInv, ClosureTypeOK, EdgesWithinPlan
<1>2. QED
  BY <1>1, ClosureInductive, PTL

-----------------------------------------------------------------------------
(***************************************************************************)
(* The waves.                                                              *)
(*                                                                         *)
(* The inductive invariant.                                                *)
(*                                                                         *)
(* StackInv: the keys on tarjan_stack were discovered in the order of the  *)
(* stack, a low link is never above its key's own index, and no low link   *)
(* of a key on the stack is below the index of the bottom key.             *)
(***************************************************************************)
StackInv ==
    /\ \A i \in 1 .. Len(tarjan_stack) : tarjan_stack[i] \in DOMAIN index_of
    /\ \A i, j \in 1 .. Len(tarjan_stack) :
          i < j => index_of[tarjan_stack[i]] < index_of[tarjan_stack[j]]
    /\ \A key \in DOMAIN index_of :
          index_of[key] < counter /\ low_link[key] <= index_of[key]
    /\ \A i \in 1 .. Len(tarjan_stack) :
          index_of[tarjan_stack[1]] <= low_link[tarjan_stack[i]]

\* The frames hold keys of the stack, in the same order, from its bottom on.
WorkInv ==
    /\ \A i \in 1 .. Len(work) :
          \E p \in 1 .. Len(tarjan_stack) : tarjan_stack[p] = work[i].node
    /\ \A i, j \in 1 .. Len(work) :
          i < j => index_of[work[i].node] < index_of[work[j].node]
    /\ Len(work) = 0 => Len(tarjan_stack) = 0
    /\ Len(work) > 0 => work[1].node = tarjan_stack[1]

\* A discovered key is on the stack or in a component, never in both, and
\* never in two components.
PartitionInv ==
    /\ \A key \in DOMAIN index_of :
          \/ \E p \in 1 .. Len(tarjan_stack) : tarjan_stack[p] = key
          \/ \E id \in 1 .. Len(sccs) : key \in sccs[id]
    /\ \A id \in 1 .. Len(sccs) : \A key \in sccs[id] :
          /\ key \in DOMAIN index_of
          /\ \A p \in 1 .. Len(tarjan_stack) : tarjan_stack[p] # key
    /\ \A id, other \in 1 .. Len(sccs) :
          id # other => \A key \in sccs[id] : key \notin sccs[other]

DfsInv == StackInv /\ WorkInv /\ PartitionInv

\* A component is layered after all those it depends on; one that is left
\* waits for exactly those it depends on that are left too.
LayerInv ==
    /\ pc = "dfs" => DOMAIN layer = {}
    /\ pc # "dfs" =>
        /\ Len(work) = 0
        /\ items \subseteq DOMAIN index_of
        /\ DOMAIN layer = DOMAIN sccs \ remaining
        /\ \A id \in DOMAIN sccs : remaining_deps[id] = SccDeps(id) \cap remaining
        /\ \A id \in DOMAIN layer :
              /\ layer[id] < round_num
              /\ \A dep \in SccDeps(id) : dep \in DOMAIN layer /\ layer[dep] < layer[id]

IInv == TypeOK /\ DfsInv /\ LayerInv /\ WavesRespectEdges

-----------------------------------------------------------------------------
(* A sequence that is not empty has a last element. *)
LEMMA LastOfSeq ==
  ASSUME NEW S, NEW seq \in Seq(S), seq # <<>>
  PROVE  Len(seq) \in Nat /\ Len(seq) > 0 /\ seq[Len(seq)] \in S
<1>1. Len(seq) \in Nat \ {0}
  BY EmptySeq
<1>2. QED
  BY <1>1, ElementOfSeq

(* A prefix of a sequence. *)
LEMMA PrefixOfSeq ==
  ASSUME NEW S, NEW seq \in Seq(S), NEW l \in Nat, l <= Len(seq)
  PROVE  /\ SubSeq(seq, 1, l) \in Seq(S)
         /\ Len(SubSeq(seq, 1, l)) = l
         /\ \A i \in 1 .. l : SubSeq(seq, 1, l)[i] = seq[i]
<1>1. \A i \in 1 .. l : seq[i] \in S
  BY ElementOfSeq
<1>2. /\ SubSeq(seq, 1, l) \in Seq(S)
      /\ Len(SubSeq(seq, 1, l)) = IF 1 <= l THEN l - 1 + 1 ELSE 0
      /\ \A i \in 1 .. l - 1 + 1 : SubSeq(seq, 1, l)[i] = seq[1 + i - 1]
  BY <1>1, SubSeqProperties
<1>3. QED
  BY <1>2

LEMMA InitIInv == Init => IInv
<1> SUFFICES ASSUME Init PROVE IInv
  OBVIOUS
<1>1. TypeOK
  BY InputsAssumption DEF Init, TypeOK, EmptyMap, items
<1>2. DfsInv
  BY DEF Init, DfsInv, StackInv, WorkInv, PartitionInv, EmptyMap
<1>3. LayerInv /\ WavesRespectEdges
  BY DEF Init, LayerInv, WavesRespectEdges, EmptyMap
<1>4. QED
  BY <1>1, <1>2, <1>3 DEF IInv

-----------------------------------------------------------------------------
(* What discovering a key changes, and that it keeps the stack's order. *)
Discovered(key) ==
    /\ DOMAIN index_of' = DOMAIN index_of \cup {key}
    /\ index_of' \in [DOMAIN index_of' -> Nat]
    /\ low_link' \in [DOMAIN index_of' -> Nat]
    /\ index_of'[key] = counter
    /\ \A k \in DOMAIN index_of : index_of'[k] = index_of[k]
    /\ counter' \in Nat
    /\ tarjan_stack' \in Seq(items)
    /\ Len(tarjan_stack) \in Nat
    /\ Len(tarjan_stack') = Len(tarjan_stack) + 1
    /\ tarjan_stack'[Len(tarjan_stack) + 1] = key
    /\ \A i \in 1 .. Len(tarjan_stack) : tarjan_stack'[i] = tarjan_stack[i]

LEMMA DiscoverStack ==
  ASSUME TypeOK, StackInv, NEW key \in items, key \notin DOMAIN index_of, Discover(key)
  PROVE  Discovered(key) /\ StackInv'
<1>1. /\ DOMAIN index_of' = DOMAIN index_of \cup {key}
      /\ index_of' \in [DOMAIN index_of' -> Nat]
      /\ low_link' \in [DOMAIN index_of' -> Nat]
      /\ index_of'[key] = counter /\ low_link'[key] = counter
      /\ \A k \in DOMAIN index_of : index_of'[k] = index_of[k] /\ low_link'[k] = low_link[k]
      /\ counter' \in Nat /\ counter' = counter + 1
  BY DEF TypeOK, Discover, Put
<1>2. /\ tarjan_stack' \in Seq(items)
      /\ Len(tarjan_stack') = Len(tarjan_stack) + 1
      /\ tarjan_stack'[Len(tarjan_stack) + 1] = key
      /\ \A i \in 1 .. Len(tarjan_stack) : tarjan_stack'[i] = tarjan_stack[i]
      /\ Len(tarjan_stack) \in Nat
  BY DEF TypeOK, Discover
<1> DEFINE n == Len(tarjan_stack)
<1>3. n \in Nat /\ \A i \in 1 .. n + 1 : i \in 1 .. n \/ i = n + 1
  BY <1>2
<1>4. \A i \in 1 .. n + 1 : tarjan_stack'[i] \in DOMAIN index_of'
  BY <1>1, <1>2, <1>3 DEF StackInv
<1>5. \A k \in DOMAIN index_of' : index_of'[k] < counter' /\ low_link'[k] <= index_of'[k]
  BY <1>1 DEF StackInv, TypeOK
<1>6. ASSUME NEW i \in 1 .. n + 1, NEW j \in 1 .. n + 1, i < j
      PROVE  index_of'[tarjan_stack'[i]] < index_of'[tarjan_stack'[j]]
  <2>1. i \in 1 .. n
    BY <1>3, <1>6
  <2>2. tarjan_stack[i] \in DOMAIN index_of /\ tarjan_stack'[i] = tarjan_stack[i]
    BY <2>1, <1>2 DEF StackInv
  <2>3. CASE j = n + 1
    BY <2>2, <2>3, <1>1, <1>2 DEF StackInv
  <2>4. CASE j \in 1 .. n
    BY ZenonT(60), <2>1, <2>2, <2>4, <1>6, <1>1, <1>2 DEF StackInv
  <2>5. QED
    BY <2>3, <2>4, <1>3
<1>7. ASSUME NEW i \in 1 .. n + 1
      PROVE  index_of'[tarjan_stack'[1]] <= low_link'[tarjan_stack'[i]]
  <2>1. CASE n = 0
    BY <2>1, <1>1, <1>2, <1>7 DEF TypeOK
  <2>2. CASE n > 0
    <3>1. 1 \in 1 .. n /\ tarjan_stack'[1] = tarjan_stack[1] /\ tarjan_stack[1] \in DOMAIN index_of
      BY <2>2, <1>2, <1>3 DEF StackInv
    <3>2. CASE i \in 1 .. n
      BY <3>1, <3>2, <1>1, <1>2 DEF StackInv
    <3>3. CASE i = n + 1
      BY <3>1, <3>3, <1>1, <1>2 DEF StackInv, TypeOK
    <3>4. QED
      BY <3>2, <3>3, <1>3
  <2>3. QED
    BY <2>1, <2>2, <1>3
<1>8. StackInv'
  BY <1>2, <1>4, <1>5, <1>6, <1>7 DEF StackInv
<1>9. QED
  BY <1>1, <1>2, <1>8 DEF Discovered

(* A key just discovered is on the stack and in no component. *)
LEMMA DiscoverPartition ==
  ASSUME PartitionInv, NEW key, key \notin DOMAIN index_of, Discovered(key), UNCHANGED sccs
  PROVE  PartitionInv'
<1> DEFINE m == Len(tarjan_stack)
<1>1. /\ m \in Nat /\ Len(tarjan_stack') = m + 1 /\ tarjan_stack'[m + 1] = key
      /\ \A p \in 1 .. m : tarjan_stack'[p] = tarjan_stack[p]
      /\ DOMAIN index_of' = DOMAIN index_of \cup {key}
  BY DEF Discovered
<1>2. /\ \A p \in 1 .. m + 1 : p \in 1 .. m \/ p = m + 1
      /\ m + 1 \in 1 .. m + 1 /\ \A p \in 1 .. m : p \in 1 .. m + 1
  BY <1>1
<1>3. \A k \in DOMAIN index_of' :
         \/ \E p \in 1 .. m + 1 : tarjan_stack'[p] = k
         \/ \E id \in 1 .. Len(sccs) : k \in sccs[id]
  BY <1>1, <1>2 DEF PartitionInv
<1>4. \A id \in 1 .. Len(sccs) : \A k \in sccs[id] :
         k \in DOMAIN index_of' /\ \A p \in 1 .. m + 1 : tarjan_stack'[p] # k
  BY <1>1, <1>2 DEF PartitionInv
<1>5. QED
  BY <1>1, <1>3, <1>4 DEF PartitionInv

LEMMA NextRootIInv == ASSUME IInv, NextRoot PROVE IInv'
<1> USE DEF inputVars, layerVars, outVars
<1>1. PICK root \in Keys : /\ IsLeast(root, items \ DOMAIN index_of)
                           /\ Discover(root) /\ work' = <<Frame(root)>>
  BY DEF NextRoot
<1>2. root \in items /\ root \notin DOMAIN index_of /\ items' = items
  BY <1>1 DEF IsLeast, NextRoot, items
<1>3. work = <<>> /\ Len(tarjan_stack) = 0 /\ UNCHANGED <<input, pc, sccs>> /\ pc = "dfs"
  BY DEF NextRoot, IInv, DfsInv, WorkInv
<1>4. /\ work' \in Seq([node : items, rest : SUBSET items])
      /\ Len(work') = 1 /\ work'[1].node = root
  BY <1>1, <1>2 DEF Frame, Neighbors
<1>5. Discovered(root) /\ StackInv'
  BY <1>1, <1>2, DiscoverStack DEF IInv, DfsInv
<1>6. TypeOK'
  BY <1>2, <1>3, <1>4, <1>5 DEF IInv, TypeOK, NextRoot, Discovered
<1>7. WorkInv'
  BY <1>3, <1>4, <1>5 DEF WorkInv, Discovered
<1>8. PartitionInv'
  BY <1>2, <1>3, <1>5, DiscoverPartition DEF IInv, DfsInv
<1>9. LayerInv' /\ WavesRespectEdges'
  BY <1>3 DEF IInv, LayerInv, WavesRespectEdges, NextRoot
<1>10. QED
  BY <1>5, <1>6, <1>7, <1>8, <1>9 DEF IInv, DfsInv

LEMMA TreeEdgeIInv == ASSUME IInv, TreeEdge PROVE IInv'
<1> USE DEF inputVars, layerVars, outVars
<1> DEFINE n == Len(work)
<1>1. PICK next \in Keys : /\ IsLeast(next, Top.rest) /\ next \notin DOMAIN index_of
                           /\ Discover(next)
                           /\ work' = Append(Advanced(next), Frame(next))
  BY DEF TreeEdge
<1>2. /\ items' = items /\ UNCHANGED <<input, pc, sccs>> /\ pc = "dfs"
      /\ n \in Nat /\ n > 0 /\ work \in Seq([node : items, rest : SUBSET items])
      /\ work[n] \in [node : items, rest : SUBSET items]
  <2>1. items' = items /\ UNCHANGED <<input, pc, sccs>> /\ pc = "dfs" /\ work # <<>>
    BY DEF TreeEdge, items
  <2>2. work \in Seq([node : items, rest : SUBSET items])
    BY DEF IInv, TypeOK
  <2>3. n \in Nat /\ n > 0 /\ work[n] \in [node : items, rest : SUBSET items]
    BY <2>1, <2>2, LastOfSeq
  <2>4. QED
    BY <2>1, <2>2, <2>3
<1>3. next \in items
  BY <1>1, <1>2 DEF IsLeast, Top
<1>4. /\ Advanced(next) \in Seq([node : items, rest : SUBSET items])
      /\ Len(Advanced(next)) = n
      /\ \A i \in 1 .. n : Advanced(next)[i].node = work[i].node
  BY <1>2 DEF Advanced
<1>5. Frame(next) \in [node : items, rest : SUBSET items] /\ Frame(next).node = next
  BY <1>3 DEF Frame, Neighbors
<1>6. /\ work' \in Seq([node : items, rest : SUBSET items])
      /\ Len(work') = n + 1 /\ work'[n + 1].node = next
      /\ \A i \in 1 .. n : work'[i].node = work[i].node
  BY <1>1, <1>2, <1>4, <1>5
<1>7. Discovered(next) /\ StackInv'
  BY <1>1, <1>3, DiscoverStack DEF IInv, DfsInv
<1>8. TypeOK'
  BY <1>2, <1>3, <1>6, <1>7 DEF IInv, TypeOK, TreeEdge, Discovered
<1>9. WorkInv'
  <2> DEFINE m == Len(tarjan_stack)
  <2>1. m \in Nat /\ m > 0 /\ TypeOK /\ StackInv /\ WorkInv
    <3>1. TypeOK /\ StackInv /\ WorkInv /\ m \in Nat
      BY <1>7 DEF IInv, DfsInv, Discovered
    <3>2. 1 \in 1 .. n
      BY <1>2
    <3>3. QED
      BY <3>1, <3>2 DEF WorkInv
  <2>2. /\ Len(tarjan_stack') = m + 1 /\ tarjan_stack'[m + 1] = next
        /\ \A p \in 1 .. m : tarjan_stack'[p] = tarjan_stack[p]
        /\ \A k \in DOMAIN index_of : index_of'[k] = index_of[k]
        /\ index_of'[next] = counter
    BY <1>7 DEF Discovered
  <2>3. \A i \in 1 .. n + 1 : i \in 1 .. n \/ i = n + 1
    BY <1>2
  <2>4. \A i \in 1 .. n : work[i].node \in DOMAIN index_of
    BY <2>1 DEF WorkInv, StackInv
  <2>5. \A i \in 1 .. n + 1 :
           \E p \in 1 .. m + 1 : tarjan_stack'[p] = work'[i].node
    <3>1. m + 1 \in 1 .. m + 1 /\ \A p \in 1 .. m : p \in 1 .. m + 1
      BY <2>1
    <3>2. QED
      BY <3>1, <1>6, <2>1, <2>2, <2>3 DEF WorkInv
  <2>6. ASSUME NEW i \in 1 .. n + 1, NEW j \in 1 .. n + 1, i < j
        PROVE  index_of'[work'[i].node] < index_of'[work'[j].node]
    <3>1. i \in 1 .. n
      BY <2>6, <2>3, <1>2
    <3>2. work'[i].node = work[i].node /\ work[i].node \in DOMAIN index_of
      BY <3>1, <1>6, <2>4
    <3>3. CASE j = n + 1
      BY <3>2, <3>3, <1>6, <2>1, <2>2 DEF StackInv
    <3>4. CASE j \in 1 .. n
      BY SMTT(60), <3>1, <3>2, <3>4, <2>6, <1>6, <2>1, <2>2, <2>4 DEF WorkInv
    <3>5. QED
      BY <3>3, <3>4, <2>3
  <2>7. work'[1].node = tarjan_stack'[1]
    BY <1>2, <1>6, <2>1, <2>2 DEF WorkInv
  <2>8. QED
    BY <1>2, <1>6, <2>2, <2>5, <2>6, <2>7 DEF WorkInv
<1>10. PartitionInv'
  BY <1>1, <1>2, <1>7, DiscoverPartition DEF IInv, DfsInv
<1>11. LayerInv' /\ WavesRespectEdges'
  BY <1>2 DEF IInv, LayerInv, WavesRespectEdges, TreeEdge
<1>12. QED
  BY <1>7, <1>8, <1>9, <1>10, <1>11 DEF IInv, DfsInv

-----------------------------------------------------------------------------
(* Lowering one low link to a value not below the bottom's index. *)
Lowered ==
    /\ low_link' \in [DOMAIN index_of -> Nat]
    /\ \A key \in DOMAIN index_of : low_link'[key] <= index_of[key]
    /\ \A i \in 1 .. Len(tarjan_stack) :
          index_of[tarjan_stack[1]] <= low_link'[tarjan_stack[i]]

LEMMA LowLinkLowered ==
  ASSUME TypeOK, StackInv, NEW key \in DOMAIN index_of, NEW v \in Nat,
         Len(tarjan_stack) > 0 => index_of[tarjan_stack[1]] <= v,
         low_link' = [low_link EXCEPT ![key] = Lesser(@, v)]
  PROVE  Lowered
<1>1. low_link \in [DOMAIN index_of -> Nat] /\ index_of \in [DOMAIN index_of -> Nat]
  BY DEF TypeOK
<1>2. \A k \in DOMAIN index_of :
         low_link'[k] = IF k = key THEN Lesser(low_link[k], v) ELSE low_link[k]
  BY <1>1
<1>3. \A k \in DOMAIN index_of : /\ low_link'[k] \in Nat /\ low_link'[k] <= low_link[k]
                                 /\ low_link'[k] = low_link[k] \/ low_link'[k] = v
  BY <1>1, <1>2 DEF Lesser
<1>4. low_link' \in [DOMAIN index_of -> Nat]
  BY <1>1, <1>3
<1>5. \A k \in DOMAIN index_of : low_link'[k] <= index_of[k]
  BY <1>1, <1>3 DEF StackInv
<1>6. ASSUME NEW i \in 1 .. Len(tarjan_stack)
      PROVE  index_of[tarjan_stack[1]] <= low_link'[tarjan_stack[i]]
  <2>1. Len(tarjan_stack) \in Nat
    BY DEF TypeOK
  <2>2. Len(tarjan_stack) > 0 /\ tarjan_stack[i] \in DOMAIN index_of
    BY <2>1, <1>6 DEF StackInv
  <2>3. QED
    BY <2>2, <1>3, <1>6 DEF StackInv
<1>7. QED
  BY <1>4, <1>5, <1>6 DEF Lowered

(* The bottom of the stack has the least index on it. *)
LEMMA BottomIsLeast ==
  ASSUME TypeOK, StackInv, NEW i \in 1 .. Len(tarjan_stack)
  PROVE  /\ tarjan_stack[i] \in DOMAIN index_of
         /\ index_of[tarjan_stack[i]] \in Nat
         /\ index_of[tarjan_stack[1]] <= index_of[tarjan_stack[i]]
<1>1. Len(tarjan_stack) \in Nat
  BY DEF TypeOK
<1>2. 1 \in 1 .. Len(tarjan_stack) /\ (i = 1 \/ 1 < i)
  BY <1>1
<1>3. QED
  BY <1>2 DEF TypeOK, StackInv

(* The top frame is a frame, and its key is on the stack. *)
LEMMA TopFrame ==
  ASSUME IInv, work # <<>>
  PROVE  /\ Len(work) \in Nat /\ Len(work) > 0
         /\ Top \in [node : items, rest : SUBSET items]
         /\ Top.node \in DOMAIN index_of
         /\ \E p \in 1 .. Len(tarjan_stack) : tarjan_stack[p] = Top.node
<1>1. /\ Len(work) \in Nat /\ Len(work) > 0
      /\ Top \in [node : items, rest : SUBSET items]
  BY LastOfSeq DEF IInv, TypeOK, Top
<1>2. PICK p \in 1 .. Len(tarjan_stack) : tarjan_stack[p] = Top.node
  BY <1>1 DEF IInv, DfsInv, WorkInv, Top
<1>3. Top.node \in DOMAIN index_of
  BY <1>2 DEF IInv, DfsInv, StackInv
<1>4. QED
  BY <1>1, <1>2, <1>3

(* Moving on to the next neighbour leaves the keys of the frames alone. *)
LEMMA AdvancedFrames ==
  ASSUME IInv, work # <<>>, NEW next
  PROVE  /\ Advanced(next) \in Seq([node : items, rest : SUBSET items])
         /\ Len(Advanced(next)) = Len(work)
         /\ \A i \in 1 .. Len(work) : Advanced(next)[i].node = work[i].node
<1> DEFINE n == Len(work)
           F == [node : items, rest : SUBSET items]
<1>1. n \in Nat /\ n > 0 /\ work[n] \in F /\ work \in Seq(F)
  BY TopFrame DEF Top, IInv, TypeOK
<1>2. n \in 1 .. n /\ [work[n] EXCEPT !.rest = @ \ {next}] \in F
  BY <1>1
<1>3. [work[n] EXCEPT !.rest = @ \ {next}].node = work[n].node
  BY <1>1
<1>4. Advanced(next) = [work EXCEPT ![n] = [work[n] EXCEPT !.rest = @ \ {next}]]
  BY DEF Advanced
<1> HIDE DEF F
<1>5. QED
  BY <1>1, <1>2, <1>3, <1>4, ExceptSeq DEF F

LEMMA SeenEdgeIInv == ASSUME IInv, SeenEdge PROVE IInv'
<1> USE DEF inputVars, layerVars, outVars
<1>1. PICK next \in Keys :
         /\ IsLeast(next, Top.rest) /\ next \in DOMAIN index_of
         /\ work' = Advanced(next)
         /\ low_link' = IF next \in OnStack
                        THEN [low_link EXCEPT ![Top.node] = Lesser(@, index_of[next])]
                        ELSE low_link
  BY DEF SeenEdge
<1>2. /\ UNCHANGED <<input, pc, index_of, counter, tarjan_stack, sccs, layer, round_num,
                    remaining, remaining_deps, wave_index, cycles>>
      /\ items' = items /\ pc = "dfs" /\ work # <<>>
      /\ TypeOK /\ StackInv /\ WorkInv /\ PartitionInv
  BY DEF SeenEdge, items, IInv, DfsInv
<1>3. /\ work' \in Seq([node : items, rest : SUBSET items])
      /\ Len(work') = Len(work)
      /\ \A i \in 1 .. Len(work) : work'[i].node = work[i].node
  BY <1>1, <1>2, AdvancedFrames
<1>4. Lowered
  <2>1. CASE next \in OnStack
    <3> DOMAIN tarjan_stack = 1 .. Len(tarjan_stack)
      BY <1>2, LenProperties DEF TypeOK
    <3>1. PICK i \in 1 .. Len(tarjan_stack) : tarjan_stack[i] = next
      BY <2>1 DEF OnStack
    <3>2. index_of[tarjan_stack[1]] <= index_of[next] /\ index_of[next] \in Nat
      BY <1>2, <3>1, BottomIsLeast
    <3>3. Top.node \in DOMAIN index_of
      BY <1>2, TopFrame
    <3>4. low_link' = [low_link EXCEPT ![Top.node] = Lesser(@, index_of[next])]
      BY <1>1, <2>1
    <3>5. QED
      BY <1>2, <3>2, <3>3, <3>4, LowLinkLowered
  <2>2. CASE next \notin OnStack
    BY <2>2, <1>1, <1>2 DEF Lowered, TypeOK, StackInv
  <2>3. QED
    BY <2>1, <2>2
<1>5. TypeOK'
  BY <1>2, <1>3, <1>4 DEF TypeOK, Lowered
<1>6. StackInv'
  BY <1>2, <1>4 DEF StackInv, Lowered
<1>7. WorkInv'
  <2>1. \A i \in 1 .. Len(work') :
           \E p \in 1 .. Len(tarjan_stack') : tarjan_stack'[p] = work'[i].node
    BY <1>2, <1>3 DEF WorkInv
  <2>2. \A i, j \in 1 .. Len(work') :
           i < j => index_of'[work'[i].node] < index_of'[work'[j].node]
    BY <1>2, <1>3 DEF WorkInv
  <2>3. Len(work') > 0 /\ work'[1].node = tarjan_stack'[1]
    <3>1. Len(work) \in Nat /\ Len(work) > 0
      BY <1>2, TopFrame
    <3>2. 1 \in 1 .. Len(work) /\ work[1].node = tarjan_stack[1]
      BY <3>1, <1>2 DEF WorkInv
    <3>3. QED
      BY <3>1, <3>2, <1>2, <1>3
  <2>4. QED
    BY <2>1, <2>2, <2>3, <1>2 DEF WorkInv
<1>8. PartitionInv'
  BY <1>2 DEF PartitionInv
<1>9. LayerInv' /\ WavesRespectEdges'
  BY <1>2 DEF IInv, LayerInv, WavesRespectEdges
<1>10. QED
  BY <1>5, <1>6, <1>7, <1>8, <1>9 DEF IInv, DfsInv

-----------------------------------------------------------------------------
(* What popping the top frame does to the frames and the low links. *)
LEMMA ReturnFrames ==
  ASSUME IInv, Return
  PROVE  /\ work' \in Seq([node : items, rest : SUBSET items])
         /\ Len(work') = Len(work) - 1
         /\ \A i \in 1 .. Len(work) - 1 : work'[i] = work[i]
         /\ Lowered
         /\ Len(work) = 1 => low_link' = low_link
<1> DEFINE n == Len(work)
           F == [node : items, rest : SUBSET items]
<1>1. /\ work # <<>> /\ work' = SubSeq(work, 1, n - 1) /\ low_link' = PropagateLowLink
      /\ TypeOK /\ StackInv /\ WorkInv
  BY DEF Return, Returned, IInv, DfsInv
<1>2. n \in Nat /\ n > 0 /\ work \in Seq(F) /\ \A i \in 1 .. n : work[i] \in F
  BY <1>1, TopFrame, ElementOfSeq DEF TypeOK
<1>3. work' \in Seq(F) /\ Len(work') = n - 1 /\ \A i \in 1 .. n - 1 : work'[i] = work[i]
  <2> HIDE DEF F
  <2>1. n - 1 \in Nat /\ n - 1 <= n
    BY <1>2
  <2>2. QED
    BY <2>1, <1>1, <1>2, PrefixOfSeq
<1>4. ASSUME n = 1 PROVE Lowered /\ low_link' = low_link
  <2>1. Returned = <<>>
    BY <1>1, <1>2, <1>4, SubSeqEmpty DEF Returned
  <2>2. low_link' = low_link
    BY <2>1, <1>1 DEF PropagateLowLink
  <2>3. Lowered
    BY <2>2, <1>1 DEF Lowered, TypeOK, StackInv
  <2>4. QED
    BY <2>2, <2>3
<1>5. ASSUME n > 1 PROVE Lowered
  <2> DEFINE parent == work[n - 1].node
  <2>1. /\ Returned # <<>> /\ Len(Returned) = n - 1 /\ Returned[n - 1] = work[n - 1]
    <3>1. Returned = work'
      BY <1>1 DEF Returned
    <3>2. n - 1 \in 1 .. n - 1
      BY <1>2, <1>5
    <3>3. QED
      BY <3>1, <3>2, <1>2, <1>3, <1>5
  <2>2. low_link' = [low_link EXCEPT ![parent] = Lesser(@, low_link[Top.node])]
    BY <2>1, <1>1 DEF PropagateLowLink
  <2>3. PICK p \in 1 .. Len(tarjan_stack) : tarjan_stack[p] = Top.node
    BY <1>1, TopFrame
  <2>4. low_link[Top.node] \in Nat /\ index_of[tarjan_stack[1]] <= low_link[Top.node]
    BY <2>3, <1>1, TopFrame DEF StackInv, TypeOK
  <2>5. parent \in DOMAIN index_of
    <3>1. n - 1 \in 1 .. n
      BY <1>2, <1>5
    <3>2. QED
      BY <3>1, <1>1 DEF WorkInv, StackInv
  <2>6. Lowered
    BY <2>2, <2>4, <2>5, <1>1, LowLinkLowered
  <2>7. QED
    BY <2>6
<1>6. n = 1 \/ n > 1
  <2>1. \A k \in Nat : k > 0 => k = 1 \/ k > 1
    OBVIOUS
  <2>2. QED
    BY <2>1, <1>1, TopFrame
<1>7. Lowered
  BY <1>4, <1>5, <1>6
<1>8. n = 1 => low_link' = low_link
  BY <1>4
<1>9. QED
  BY <1>3, <1>7, <1>8

(* The keys of the frames below the top one lie below it on the stack. *)
LEMMA FramesBelow ==
  ASSUME IInv, work # <<>>, NEW p \in 1 .. Len(tarjan_stack), tarjan_stack[p] = Top.node
  PROVE  /\ Len(work) = 1 => p = 1
         /\ Len(work) > 1 => p > 1
         /\ \A i \in 1 .. Len(work) - 1 :
               \E q \in 1 .. p - 1 : tarjan_stack[q] = work[i].node
<1> DEFINE n == Len(work)
           m == Len(tarjan_stack)
<1>1. /\ n \in Nat /\ n > 0 /\ m \in Nat /\ Top = work[n]
      /\ TypeOK /\ StackInv /\ WorkInv
  <2>1. TypeOK /\ StackInv /\ WorkInv /\ n \in Nat /\ n > 0 /\ Top = work[n]
    BY TopFrame DEF IInv, DfsInv, Top
  <2>2. m \in Nat
    BY <2>1 DEF TypeOK
  <2>3. QED
    BY <2>1, <2>2
<1>2. ASSUME NEW q \in 1 .. m, NEW r \in 1 .. m, index_of[tarjan_stack[q]] < index_of[tarjan_stack[r]]
      PROVE  q < r
  <2>1. index_of[tarjan_stack[q]] \in Nat /\ index_of[tarjan_stack[r]] \in Nat
    BY <1>1, BottomIsLeast
  <2>2. r < q => index_of[tarjan_stack[r]] < index_of[tarjan_stack[q]]
    BY <1>1 DEF StackInv
  <2>3. QED
    BY <2>1, <2>2, <1>1, <1>2
<1>3. ASSUME NEW i \in 1 .. n - 1
      PROVE  \E q \in 1 .. p - 1 : tarjan_stack[q] = work[i].node
  <2>1. i \in 1 .. n /\ n \in 1 .. n /\ i < n
    BY <1>1, <1>3
  <2>2. PICK q \in 1 .. m : tarjan_stack[q] = work[i].node
    BY <2>1, <1>1 DEF WorkInv
  <2>3. index_of[tarjan_stack[q]] < index_of[tarjan_stack[p]]
    BY <2>1, <2>2, <1>1 DEF WorkInv
  <2>4. q < p
    BY <2>3, <1>2
  <2>5. QED
    BY <2>2, <2>4, <1>1
<1>4. ASSUME n = 1 PROVE p = 1
  <2>1. tarjan_stack[1] = tarjan_stack[p] /\ 1 \in 1 .. m
    BY <1>4, <1>1 DEF WorkInv
  <2>2. index_of[tarjan_stack[p]] \in Nat /\ (1 < p => index_of[tarjan_stack[1]] < index_of[tarjan_stack[p]])
    BY <2>1, <1>1, BottomIsLeast DEF StackInv
  <2>3. QED
    BY <2>1, <2>2, <1>1
<1>5. ASSUME n > 1 PROVE p > 1
  <2>1. 1 \in 1 .. n - 1
    BY <1>5, <1>1
  <2>2. QED
    BY <2>1, <1>3, <1>1
<1>6. QED
  BY <1>3, <1>4, <1>5

LEMMA ReturnIInv == ASSUME IInv, Return PROVE IInv'
<1> USE DEF inputVars, layerVars, outVars
<1> DEFINE n == Len(work)
           m == Len(tarjan_stack)
<1>1. /\ UNCHANGED <<input, pc, index_of, counter, layer, round_num,
                    remaining, remaining_deps, wave_index, cycles>>
      /\ items' = items /\ pc = "dfs" /\ work # <<>>
      /\ TypeOK /\ StackInv /\ WorkInv /\ PartitionInv
  BY DEF Return, items, IInv, DfsInv
<1>2. n \in Nat /\ n > 0 /\ m \in Nat /\ Len(sccs) \in Nat
  BY <1>1, TopFrame DEF TypeOK
<1>3. /\ work' \in Seq([node : items, rest : SUBSET items])
      /\ Len(work') = n - 1
      /\ \A i \in 1 .. n - 1 : work'[i] = work[i]
      /\ Lowered
      /\ n = 1 => low_link' = low_link
  BY ReturnFrames
<1>4. PICK p \in 1 .. m : tarjan_stack[p] = Top.node
  BY <1>1, TopFrame
<1>5. /\ n = 1 => p = 1
      /\ n > 1 => p > 1
      /\ \A i \in 1 .. n - 1 : \E q \in 1 .. p - 1 : tarjan_stack[q] = work[i].node
  BY <1>1, <1>4, FramesBelow
<1>6. LayerInv' /\ WavesRespectEdges'
  BY <1>1 DEF IInv, LayerInv, WavesRespectEdges
<1>7. CASE low_link'[Top.node] # index_of[Top.node]
  <2>1. UNCHANGED <<sccs, tarjan_stack>>
    BY <1>7 DEF Return
  <2>2. n > 1
    <3>1. SUFFICES ASSUME n = 1 PROVE FALSE
      BY <1>2
    <3>2. p = 1 /\ low_link' = low_link
      BY <3>1, <1>3, <1>5
    <3>3. index_of[Top.node] <= low_link[Top.node] /\ low_link[Top.node] <= index_of[Top.node]
      BY <3>2, <1>1, <1>4, TopFrame DEF StackInv
    <3>4. low_link[Top.node] \in Nat /\ index_of[Top.node] \in Nat
      BY <1>1, TopFrame DEF TypeOK
    <3>5. QED
      BY <3>2, <3>3, <3>4, <1>7
  <2>3. TypeOK'
    BY <2>1, <1>1, <1>3 DEF TypeOK, Lowered
  <2>4. StackInv'
    BY <2>1, <1>1, <1>3 DEF StackInv, Lowered
  <2>5. WorkInv'
    <3>1. \A i \in 1 .. n - 1 : i \in 1 .. n
      BY <1>2
    <3>2. 1 \in 1 .. n - 1
      BY <2>2, <1>2
    <3>3. \A i \in 1 .. n - 1 : \E q \in 1 .. m : tarjan_stack[q] = work'[i].node
      BY <3>1, <1>1, <1>3 DEF WorkInv
    <3>4. \A i, j \in 1 .. n - 1 :
             i < j => index_of[work'[i].node] < index_of[work'[j].node]
      BY <3>1, <1>1, <1>3 DEF WorkInv
    <3>5. work'[1].node = tarjan_stack[1] /\ n - 1 > 0
      BY <3>2, <2>2, <1>1, <1>2, <1>3 DEF WorkInv
    <3>6. /\ Len(work') = n - 1 /\ Len(work') # 0 /\ Len(tarjan_stack') = m
          /\ tarjan_stack' = tarjan_stack /\ index_of' = index_of
      BY <3>5, <2>1, <1>1, <1>2, <1>3
    <3>7. QED
      BY <3>3, <3>4, <3>5, <3>6 DEF WorkInv
  <2>6. PartitionInv'
    BY <2>1, <1>1 DEF PartitionInv
  <2>7. QED
    BY <2>3, <2>4, <2>5, <2>6, <1>6 DEF IInv, DfsInv
<1>8. CASE low_link'[Top.node] = index_of[Top.node]
  <2> DEFINE k == Len(sccs)
  <2>1. PICK top \in DOMAIN tarjan_stack :
           /\ tarjan_stack[top] = Top.node
           /\ sccs' = Append(sccs, {tarjan_stack[i] : i \in top .. m})
           /\ tarjan_stack' = SubSeq(tarjan_stack, 1, top - 1)
    BY <1>8 DEF Return, PopComponent
  <2>2. top = p
    <3>1. top \in 1 .. m
      BY <1>1, <2>1, LenProperties DEF TypeOK
    <3>2. index_of[tarjan_stack[p]] \in Nat
      BY <1>1, BottomIsLeast
    <3>3. QED
      BY <3>1, <3>2, <2>1, <1>1, <1>2, <1>4 DEF StackInv
  <2>3. /\ tarjan_stack' \in Seq(items)
        /\ Len(tarjan_stack') = p - 1
        /\ \A i \in 1 .. p - 1 : tarjan_stack'[i] = tarjan_stack[i]
    <3>1. \A i \in 1 .. p - 1 : tarjan_stack[i] \in items
      BY <1>1, <1>2, ElementOfSeq DEF TypeOK
    <3>2. /\ SubSeq(tarjan_stack, 1, p - 1) \in Seq(items)
          /\ Len(SubSeq(tarjan_stack, 1, p - 1)) = IF 1 <= p - 1 THEN p - 1 - 1 + 1 ELSE 0
          /\ \A i \in 1 .. p - 1 - 1 + 1 :
                SubSeq(tarjan_stack, 1, p - 1)[i] = tarjan_stack[1 + i - 1]
      BY <3>1, <1>2, SubSeqProperties
    <3>3. QED
      BY <3>2, <2>1, <2>2, <1>2
  <2>4. /\ sccs' \in Seq(SUBSET items) /\ Len(sccs') = k + 1
        /\ sccs'[k + 1] = {tarjan_stack[i] : i \in p .. m}
        /\ \A id \in 1 .. k : sccs'[id] = sccs[id]
        /\ DOMAIN sccs \subseteq DOMAIN sccs'
    <3>1. {tarjan_stack[i] : i \in p .. m} \in SUBSET items
      BY <1>1, <1>2, ElementOfSeq DEF TypeOK
    <3>2. sccs \in Seq(SUBSET items)
      BY <1>1 DEF TypeOK
    <3>3. QED
      BY <3>1, <3>2, <2>1, <2>2
  <2>5. \A i \in 1 .. p - 1 : i \in 1 .. m
    BY <1>2
  <2>6. TypeOK'
    <3>1. pc = "dfs"
      BY <1>1
    <3>2. QED
      BY <3>1, <2>3, <2>4, <1>1, <1>3 DEF TypeOK, Lowered
  <2>7. StackInv'
    <3>1. p - 1 > 0 => tarjan_stack'[1] = tarjan_stack[1]
      BY <2>3, <1>2
    <3>2. \A i \in 1 .. p - 1 : tarjan_stack'[i] \in DOMAIN index_of
      BY <2>3, <2>5, <1>1 DEF StackInv
    <3>3. \A i, j \in 1 .. p - 1 :
             i < j => index_of[tarjan_stack'[i]] < index_of[tarjan_stack'[j]]
      BY <2>3, <2>5, <1>1 DEF StackInv
    <3>4. \A key \in DOMAIN index_of :
             index_of[key] < counter /\ low_link'[key] <= index_of[key]
      BY <1>1, <1>3 DEF StackInv, Lowered
    <3>5. \A i \in 1 .. p - 1 : index_of[tarjan_stack'[1]] <= low_link'[tarjan_stack'[i]]
      BY SMTT(60), <3>1, <2>3, <2>5, <1>2, <1>3 DEF Lowered
    <3>6. QED
      BY <3>2, <3>3, <3>4, <3>5, <2>3, <1>1 DEF StackInv
  <2>8. WorkInv'
    <3>1. \A i \in 1 .. n - 1 : i \in 1 .. n
      BY <1>2
    <3>2. \A i \in 1 .. n - 1 : \E q \in 1 .. p - 1 : tarjan_stack'[q] = work'[i].node
      BY <2>3, <1>3, <1>5
    <3>3. ASSUME n - 1 > 0 PROVE work'[1].node = tarjan_stack'[1]
      <4>1. p > 1 /\ 1 \in 1 .. n - 1 /\ 1 \in 1 .. p - 1
        BY <3>3, <1>2, <1>5
      <4>2. work[1].node = tarjan_stack[1]
        BY <1>1, <1>2 DEF WorkInv
      <4>3. QED
        BY <4>1, <4>2, <2>3, <1>3
    <3>4. n - 1 = 0 => p - 1 = 0
      BY <1>2, <1>5
    <3>5. QED
      BY <3>1, <3>2, <3>3, <3>4, <2>3, <1>1, <1>3 DEF WorkInv
  <2>9. PartitionInv'
    <3>1. ASSUME NEW key \in DOMAIN index_of
          PROVE  \/ \E i \in 1 .. p - 1 : tarjan_stack'[i] = key
                 \/ \E id \in 1 .. k + 1 : key \in sccs'[id]
      <4>1. CASE \E i \in 1 .. m : tarjan_stack[i] = key
        <5>1. PICK i \in 1 .. m : tarjan_stack[i] = key
          BY <4>1
        <5>2. i \in 1 .. p - 1 \/ i \in p .. m
          BY <1>2
        <5>3. k + 1 \in 1 .. k + 1
          BY <1>2
        <5>4. QED
          BY <5>1, <5>2, <5>3, <2>3, <2>4
      <4>2. CASE \E id \in 1 .. k : key \in sccs[id]
        <5>1. \A id \in 1 .. k : id \in 1 .. k + 1
          BY <1>2
        <5>2. QED
          BY <5>1, <4>2, <2>4
      <4>3. QED
        BY <4>1, <4>2, <1>1 DEF PartitionInv
    <3>2. \A id \in 1 .. k + 1 : id \in 1 .. k \/ id = k + 1
      BY <1>2
    <3>3. \A i \in p .. m : i \in 1 .. m /\ tarjan_stack[i] \in DOMAIN index_of
      BY <1>1, <1>2 DEF StackInv
    <3>4. \A i \in p .. m : \A q \in 1 .. p - 1 : tarjan_stack[q] # tarjan_stack[i]
      <4>1. SUFFICES ASSUME NEW i \in p .. m, NEW q \in 1 .. p - 1
                     PROVE  tarjan_stack[q] # tarjan_stack[i]
        OBVIOUS
      <4>2. i \in 1 .. m /\ q \in 1 .. m /\ q < i
        BY <1>2
      <4>3. index_of[tarjan_stack[q]] < index_of[tarjan_stack[i]] /\ index_of[tarjan_stack[i]] \in Nat
        BY <4>2, <1>1, BottomIsLeast DEF StackInv
      <4>4. QED
        BY <4>3
    <3>5. ASSUME NEW id \in 1 .. k + 1, NEW key \in sccs'[id]
          PROVE  key \in DOMAIN index_of /\ \A q \in 1 .. p - 1 : tarjan_stack'[q] # key
      <4>1. CASE id = k + 1
        <5>1. PICK i \in p .. m : key = tarjan_stack[i]
          BY <4>1, <3>5, <2>4
        <5>2. QED
          BY <5>1, <3>3, <3>4, <2>3
      <4>2. CASE id \in 1 .. k
        BY <4>2, <3>5, <2>3, <2>4, <2>5, <1>1 DEF PartitionInv
      <4>3. QED
        BY <4>1, <4>2, <3>2
    <3>6. \A id \in 1 .. k : \A key \in sccs[id] : key \notin sccs'[k + 1]
      BY <3>3, <2>4, <1>1 DEF PartitionInv
    <3>7. ASSUME NEW id \in 1 .. k + 1, NEW other \in 1 .. k + 1, id # other,
                 NEW key \in sccs'[id]
          PROVE  key \notin sccs'[other]
      BY <3>2, <3>6, <3>7, <2>4, <1>1 DEF PartitionInv
    <3>8. QED
      BY <3>1, <3>5, <3>7, <2>3, <2>4, <1>1 DEF PartitionInv
  <2>10. QED
    BY <2>6, <2>7, <2>8, <2>9, <1>6 DEF IInv, DfsInv
<1>9. QED
  BY <1>7, <1>8

-----------------------------------------------------------------------------
LEMMA CondenseIInv == ASSUME IInv, Condense PROVE IInv'
<1> USE DEF inputVars, dfsVars, outVars
<1>1. /\ UNCHANGED <<input, index_of, low_link, counter, tarjan_stack, work, sccs,
                    layer, round_num, wave_index, cycles>>
      /\ items' = items /\ pc = "dfs" /\ pc' = "layers" /\ work = <<>>
      /\ items \subseteq DOMAIN index_of
      /\ remaining' = DOMAIN sccs
      /\ remaining_deps' = [id \in DOMAIN sccs |-> SccDeps(id)]
  BY DEF Condense, items
<1>2. \A id : SccDeps(id)' = SccDeps(id) /\ SccDeps(id) \subseteq DOMAIN sccs
  BY <1>1 DEF SccDeps, Adjacent, items
<1>3. TypeOK'
  BY <1>1, <1>2 DEF IInv, TypeOK
<1>4. DfsInv'
  BY <1>1 DEF IInv, DfsInv, StackInv, WorkInv, PartitionInv
<1>5. LayerInv'
  BY <1>1, <1>2 DEF IInv, LayerInv
<1>6. WavesRespectEdges'
  BY <1>1 DEF WavesRespectEdges
<1>7. QED
  BY <1>3, <1>4, <1>5, <1>6 DEF IInv

LEMMA PeelIInv == ASSUME IInv, Peel PROVE IInv'
<1> USE DEF inputVars, dfsVars, outVars
<1>1. /\ UNCHANGED <<input, pc, index_of, low_link, counter, tarjan_stack, work, sccs,
                    wave_index, cycles>>
      /\ items' = items /\ pc = "layers"
      /\ layer' = [id \in DOMAIN layer \cup frontier |->
                     IF id \in frontier THEN round_num ELSE layer[id]]
      /\ remaining' = remaining \ frontier
      /\ remaining_deps' = [id \in DOMAIN sccs |-> remaining_deps[id] \ frontier]
      /\ round_num' = round_num + 1
  BY DEF Peel, items
<1>2. \A id : SccDeps(id)' = SccDeps(id) /\ SccDeps(id) \subseteq DOMAIN sccs
  BY <1>1 DEF SccDeps, Adjacent, items
<1>3. /\ Len(work) = 0 /\ items \subseteq DOMAIN index_of
      /\ DOMAIN layer = DOMAIN sccs \ remaining /\ remaining \subseteq DOMAIN sccs
      /\ \A id \in DOMAIN sccs : remaining_deps[id] = SccDeps(id) \cap remaining
      /\ \A id \in DOMAIN layer : /\ layer[id] \in Nat /\ layer[id] < round_num
                                  /\ \A dep \in SccDeps(id) :
                                        dep \in DOMAIN layer /\ layer[dep] < layer[id]
      /\ round_num \in Nat
  BY <1>1 DEF IInv, TypeOK, LayerInv
<1>4. \A id \in frontier : id \in remaining /\ SccDeps(id) \cap remaining = {}
  BY <1>3 DEF frontier
<1>5. /\ DOMAIN layer' = DOMAIN layer \cup frontier
      /\ \A id \in frontier : layer'[id] = round_num
      /\ \A id \in DOMAIN layer : layer'[id] = layer[id]
  BY <1>1, <1>3, <1>4
<1>6. TypeOK'
  <2>1. layer' \in [DOMAIN layer' -> Nat] /\ DOMAIN layer' \subseteq DOMAIN sccs
    BY <1>1, <1>3, <1>4, <1>5
  <2>2. remaining_deps' \in [DOMAIN sccs -> SUBSET DOMAIN sccs]
    BY <1>1 DEF IInv, TypeOK
  <2>3. QED
    BY <2>1, <2>2, <1>1, <1>3 DEF IInv, TypeOK
<1>7. DfsInv'
  BY <1>1 DEF IInv, DfsInv, StackInv, WorkInv, PartitionInv
<1>8. LayerInv'
  <2>1. DOMAIN layer' = DOMAIN sccs' \ remaining'
    BY <1>1, <1>3, <1>4, <1>5
  <2>2. \A id \in DOMAIN sccs : remaining_deps'[id] = SccDeps(id)' \cap remaining'
    BY <1>1, <1>2, <1>3
  <2>3. ASSUME NEW id \in DOMAIN layer'
        PROVE  /\ layer'[id] < round_num'
               /\ \A dep \in SccDeps(id) : dep \in DOMAIN layer' /\ layer'[dep] < layer'[id]
    <3>1. CASE id \in frontier
      BY <3>1, <1>1, <1>2, <1>3, <1>4, <1>5
    <3>2. CASE id \in DOMAIN layer
      <4>1. layer'[id] = layer[id] /\ layer[id] < round_num + 1
        BY <3>2, <1>3, <1>5
      <4>2. \A dep \in SccDeps(id) :
               dep \in DOMAIN layer' /\ layer'[dep] = layer[dep] /\ layer[dep] < layer[id]
        BY <3>2, <1>3, <1>5
      <4>3. QED
        BY <4>1, <4>2, <1>1
    <3>3. QED
      BY <3>1, <3>2, <2>3, <1>5
  <2>4. QED
    BY <2>1, <2>2, <2>3, <1>1, <1>2, <1>3 DEF LayerInv
<1>9. WavesRespectEdges'
  BY <1>1 DEF WavesRespectEdges
<1>10. QED
  BY <1>6, <1>7, <1>8, <1>9 DEF IInv

(* Every item is in exactly one component when the layers are assigned. *)
LEMMA SccOfItem ==
  ASSUME IInv, pc # "dfs", NEW key \in items
  PROVE  /\ SccOf(key) \in DOMAIN sccs /\ key \in sccs[SccOf(key)]
         /\ \A id \in DOMAIN sccs : key \in sccs[id] => id = SccOf(key)
<1>1. DOMAIN sccs = 1 .. Len(sccs)
  BY LenProperties DEF IInv, TypeOK
<1>2. Len(tarjan_stack) = 0 /\ key \in DOMAIN index_of
  BY DEF IInv, DfsInv, WorkInv, LayerInv
<1>3. \E id \in DOMAIN sccs : key \in sccs[id]
  BY <1>1, <1>2 DEF IInv, DfsInv, PartitionInv
<1>4. SccOf(key) \in DOMAIN sccs /\ key \in sccs[SccOf(key)]
  BY <1>3 DEF SccOf
<1>5. \A id \in DOMAIN sccs : key \in sccs[id] => id = SccOf(key)
  BY <1>1, <1>4 DEF IInv, DfsInv, PartitionInv
<1>6. QED
  BY <1>4, <1>5

LEMMA LayoutIInv == ASSUME IInv, Layout PROVE IInv'
<1> USE DEF inputVars, dfsVars, layerVars
<1>1. /\ UNCHANGED <<input, index_of, low_link, counter, tarjan_stack, work, sccs,
                    layer, round_num, remaining, remaining_deps>>
      /\ items' = items /\ pc = "layers" /\ pc' = "done" /\ remaining = {}
      /\ wave_index' = [key \in items |-> layer[SccOf(key)]]
      /\ cycles' = {sccs[id] : id \in {i \in DOMAIN sccs : IsCycle(sccs[i])}}
  BY DEF Layout, items
<1>2. \A id : SccDeps(id)' = SccDeps(id)
  BY <1>1 DEF SccDeps, Adjacent, items
<1>3. /\ DOMAIN layer = DOMAIN sccs
      /\ \A id \in DOMAIN layer :
            /\ layer[id] \in Nat
            /\ \A dep \in SccDeps(id) : dep \in DOMAIN layer /\ layer[dep] < layer[id]
  BY <1>1 DEF IInv, TypeOK, LayerInv
<1>4. \A key \in items : /\ SccOf(key) \in DOMAIN sccs /\ key \in sccs[SccOf(key)]
                          /\ \A id \in DOMAIN sccs : key \in sccs[id] => id = SccOf(key)
  BY <1>1, SccOfItem
<1>5. \A key \in items : wave_index'[key] = layer[SccOf(key)] /\ layer[SccOf(key)] \in Nat
  BY <1>1, <1>3, <1>4
<1>6. TypeOK'
  <2>1. wave_index' \in [items -> Nat]
    BY <1>1, <1>5
  <2>2. \A id \in DOMAIN sccs : sccs[id] \in SUBSET items
    BY ElementOfSeq, LenProperties DEF IInv, TypeOK
  <2>3. cycles' \subseteq SUBSET items
    BY <2>2, <1>1
  <2>4. QED
    BY <2>1, <2>3, <1>1 DEF IInv, TypeOK
<1>7. DfsInv'
  BY <1>1 DEF IInv, DfsInv, StackInv, WorkInv, PartitionInv
<1>8. LayerInv'
  BY <1>1, <1>2 DEF IInv, LayerInv
<1>9. WavesRespectEdges'
  <2>1. SUFFICES ASSUME NEW a \in items, NEW b \in items, Adjacent(a, b)
                 PROVE  IF SameScc(a, b) THEN wave_index'[a] = wave_index'[b]
                        ELSE wave_index'[b] < wave_index'[a]
    BY <1>1 DEF WavesRespectEdges, Adjacent, SameScc, items
  <2>2. CASE SameScc(a, b)
    <3>1. SccOf(a) = SccOf(b)
      BY <2>2, <1>4 DEF SameScc
    <3>2. QED
      BY <3>1, <2>2, <1>5
  <2>3. CASE ~ SameScc(a, b)
    <3>1. SccOf(a) # SccOf(b)
      BY <2>3, <1>4 DEF SameScc
    <3>2. SccOf(b) \in SccDeps(SccOf(a))
      BY <3>1, <2>1, <1>4 DEF SccDeps
    <3>3. QED
      BY <3>2, <2>3, <1>3, <1>4, <1>5
  <2>4. QED
    BY <2>2, <2>3
<1>10. QED
  BY <1>6, <1>7, <1>8, <1>9 DEF IInv

-----------------------------------------------------------------------------
(* The invariant holds in every state of every layout. *)
THEOREM Inductive == Spec => []IInv
<1>1. IInv /\ [Next]_vars => IInv'
  <2>1. SUFFICES ASSUME IInv, [Next]_vars PROVE IInv'
    OBVIOUS
  <2>2. CASE Next
    BY <2>1, <2>2, NextRootIInv, TreeEdgeIInv, SeenEdgeIInv, ReturnIInv, CondenseIInv,
       PeelIInv, LayoutIInv DEF Next
  <2>3. CASE UNCHANGED vars
    <3>1. UNCHANGED <<input, pc, index_of, low_link, counter, tarjan_stack, work, sccs, layer,
                      round_num, remaining, remaining_deps, wave_index, cycles>>
      BY <2>3 DEF vars, inputVars, dfsVars, layerVars, outVars
    <3>2. TypeOK'
      BY <2>1, <3>1 DEF IInv, TypeOK, items
    <3>3. DfsInv'
      BY <2>1, <3>1 DEF IInv, DfsInv, StackInv, WorkInv, PartitionInv
    <3>4. LayerInv'
      BY <2>1, <3>1 DEF IInv, LayerInv, SccDeps, Adjacent, items
    <3>5. WavesRespectEdges'
      BY <2>1, <3>1 DEF IInv, WavesRespectEdges, Adjacent, SameScc, items
    <3>6. QED
      BY <3>2, <3>3, <3>4, <3>5 DEF IInv
  <2>4. QED
    BY <2>1, <2>2, <2>3
<1>2. QED
  BY InitIInv, <1>1, PTL DEF Spec

(* Type correctness of the layout, for every graph. *)
THEOREM TypeCorrect == Spec => []TypeOK
<1>1. IInv => TypeOK
  BY DEF IInv
<1>2. QED
  BY <1>1, Inductive, PTL

(* Whatever the graph, every item lands in a later wave than the items it   *)
(* depends on, but for the members of its own component, which share its    *)
(* wave (build_waves, AC6 and AC7).                                         *)
THEOREM RespectEdges == Spec => []WavesRespectEdges
<1>1. IInv => WavesRespectEdges
  BY DEF IInv
<1>2. QED
  BY <1>1, Inductive, PTL

-----------------------------------------------------------------------------
(***************************************************************************)
(* The invariant of the search, on top of IInv.  The frames hold the keys  *)
(* being explored; a pair is pending when its edge is still ahead.         *)
(***************************************************************************)
Stacked(key) == \E p \in 1 .. Len(tarjan_stack) : tarjan_stack[p] = key
Emitted(key) == \E id \in 1 .. Len(sccs) : key \in sccs[id]
Pending(a, b) == \E i \in 1 .. Len(work) : work[i].node = a /\ b \in work[i].rest

\* Every edge of a discovered key is pending or leads to a discovered key,
\* and no edge leaves the components emitted.
EdgesInv ==
    /\ \A i \in 1 .. Len(work) : work[i].rest \subseteq Neighbors(work[i].node)
    /\ \A a \in DOMAIN index_of : \A b \in Neighbors(a) :
          b \in DOMAIN index_of \/ Pending(a, b)
    /\ \A a \in items : \A b \in Neighbors(a) : Emitted(a) => Emitted(b)

\* A frame's key reaches all that lies above it on the stack, and each key
\* on the stack reaches the key of a frame at or below it.
PathsInv ==
    /\ \A i \in 1 .. Len(work) : \A b \in items :
          Stacked(b) /\ index_of[work[i].node] <= index_of[b] => Reaches(work[i].node, b)
    /\ \A a \in items :
          Stacked(a) => \E i \in 1 .. Len(work) :
                            index_of[work[i].node] <= index_of[a] /\ Reaches(a, work[i].node)

\* The keys from that of frame i up to, not including, that of the next.
Segment(i, a) ==
    /\ Stacked(a) /\ index_of[work[i].node] <= index_of[a]
    /\ i < Len(work) => index_of[a] < index_of[work[i + 1].node]

\* A frame's low link is the index of a key on the stack that the frame's
\* key reaches, and no followed edge from its segment into the stack leads
\* below it.
LowInv ==
    /\ \A i \in 1 .. Len(work) :
          \E b \in items : /\ Stacked(b) /\ index_of[b] = low_link[work[i].node]
                           /\ Reaches(work[i].node, b)
    /\ \A i \in 1 .. Len(work) : \A a \in items : \A b \in Neighbors(a) :
          Segment(i, a) /\ Stacked(b) /\ ~Pending(a, b) => low_link[work[i].node] <= index_of[b]

\* The components emitted are classes.
ClassInv == \A id \in 1 .. Len(sccs) : \A key \in sccs[id] : sccs[id] = ClassOf(key)

SearchInv == EdgesInv /\ PathsInv /\ LowInv /\ ClassInv

-----------------------------------------------------------------------------
(* A key reaches itself, its neighbours and all that those it reaches reach. *)
LEMMA ReachesSelf == ASSUME NEW a PROVE Reaches(a, a)
  BY DEF Reaches

LEMMA ReachesNeighbor == ASSUME NEW a, NEW b \in Neighbors(a) PROVE Reaches(a, b)
  BY DEF Reaches

LEMMA ReachesOn ==
  ASSUME NEW a, NEW b, NEW c, Reaches(a, b), Reaches(b, c) PROVE Reaches(a, c)
  BY DEF Reaches

(* A key reaches only what lies in each closed set that holds it. *)
LEMMA ReachesWithin ==
  ASSUME NEW S \in SUBSET items, \A x \in S : Neighbors(x) \subseteq S,
         NEW a \in S, NEW b, Reaches(a, b)
  PROVE  b \in S
  BY DEF Reaches

(* The graph is the input's: it does not change. *)
LEMMA SameGraph ==
  ASSUME UNCHANGED input
  PROVE  /\ items' = items
         /\ \A a : Neighbors(a)' = Neighbors(a)
         /\ \A a, b : Reaches(a, b)' <=> Reaches(a, b)
         /\ \A a : ClassOf(a)' = ClassOf(a)
<1>1. items' = items
  BY DEF items
<1>2. \A a : Neighbors(a)' = Neighbors(a)
  BY <1>1 DEF Neighbors, Adjacent
<1>3. \A a, b : Reaches(a, b)' <=> Reaches(a, b)
  BY <1>1, <1>2 DEF Reaches
<1>4. \A a : ClassOf(a)' = ClassOf(a)
  BY <1>1, <1>3 DEF ClassOf
<1>5. QED
  BY <1>1, <1>2, <1>3, <1>4

(* What IInv says of the keys on the stack and of the frames. *)
LEMMA StackKeys ==
  ASSUME IInv
  PROVE  /\ \A a : Stacked(a) => a \in items /\ a \in DOMAIN index_of
         /\ \A a \in DOMAIN index_of : /\ a \in items /\ (Stacked(a) \/ Emitted(a))
                                       /\ index_of[a] \in Nat /\ low_link[a] \in Nat
                                       /\ index_of[a] < counter
                                       /\ low_link[a] <= index_of[a]
         /\ \A a : Emitted(a) => ~Stacked(a) /\ a \in DOMAIN index_of
         /\ counter \in Nat /\ Len(work) \in Nat
<1>1. TypeOK /\ StackInv /\ PartitionInv
  BY DEF IInv, DfsInv
<1>2. \A a \in DOMAIN index_of : /\ a \in items /\ (Stacked(a) \/ Emitted(a))
                                 /\ index_of[a] \in Nat /\ low_link[a] \in Nat
                                 /\ index_of[a] < counter
                                 /\ low_link[a] <= index_of[a]
  BY <1>1 DEF TypeOK, StackInv, PartitionInv, Stacked, Emitted
<1>3. \A a : Stacked(a) => a \in items /\ a \in DOMAIN index_of
  BY <1>1, <1>2 DEF StackInv, Stacked
<1>4. \A a : Emitted(a) => ~Stacked(a) /\ a \in DOMAIN index_of
  BY <1>1 DEF PartitionInv, Stacked, Emitted
<1>5. counter \in Nat /\ Len(work) \in Nat
  BY <1>1, LenProperties DEF TypeOK
<1>6. QED
  BY <1>2, <1>3, <1>4, <1>5

LEMMA FrameKeys ==
  ASSUME IInv
  PROVE  /\ \A i \in 1 .. Len(work) : /\ Stacked(work[i].node)
                                      /\ work[i].node \in items
                                      /\ work[i].node \in DOMAIN index_of
                                      /\ index_of[work[i].node] \in Nat
                                      /\ low_link[work[i].node] \in Nat
                                      /\ low_link[work[i].node] <= index_of[work[i].node]
         /\ \A i, j \in 1 .. Len(work) :
               i < j => index_of[work[i].node] < index_of[work[j].node]
<1>1. \A i \in 1 .. Len(work) : Stacked(work[i].node)
  BY DEF IInv, DfsInv, WorkInv, Stacked
<1>2. \A i, j \in 1 .. Len(work) :
         i < j => index_of[work[i].node] < index_of[work[j].node]
  BY DEF IInv, DfsInv, WorkInv
<1>3. QED
  BY <1>1, <1>2, StackKeys

(* No two keys on the stack have one index. *)
LEMMA OneKeyPerIndex ==
  ASSUME IInv, NEW a, NEW b, Stacked(a), Stacked(b), index_of[a] = index_of[b]
  PROVE  a = b
<1>1. PICK p \in 1 .. Len(tarjan_stack) : tarjan_stack[p] = a
  BY DEF Stacked
<1>2. PICK q \in 1 .. Len(tarjan_stack) : tarjan_stack[q] = b
  BY DEF Stacked
<1>3. StackInv /\ Len(tarjan_stack) \in Nat /\ index_of[a] \in Nat /\ index_of[b] \in Nat
  BY StackKeys, LenProperties DEF IInv, DfsInv, TypeOK
<1>4. ~(p < q) /\ ~(q < p)
  BY <1>1, <1>2, <1>3 DEF StackInv
<1>5. QED
  BY <1>1, <1>2, <1>3, <1>4

(* What discovering a key does to the indices, the low links and the stack. *)
LEMMA DiscoverKeys ==
  ASSUME IInv, NEW key \in items, key \notin DOMAIN index_of, Discover(key)
  PROVE  /\ DOMAIN index_of' = DOMAIN index_of \cup {key}
         /\ index_of'[key] = counter /\ low_link'[key] = counter
         /\ \A a \in DOMAIN index_of : /\ index_of'[a] = index_of[a] /\ a # key
                                       /\ low_link'[a] = low_link[a]
         /\ \A a : Stacked(a)' <=> Stacked(a) \/ a = key
<1>1. TypeOK /\ StackInv
  BY DEF IInv, DfsInv
<1>2. Discovered(key)
  BY <1>1, DiscoverStack
<1>3. low_link'[key] = counter /\ \A a \in DOMAIN index_of : low_link'[a] = low_link[a]
  BY <1>1 DEF TypeOK, Discover, Put
<1> DEFINE m == Len(tarjan_stack)
<1>4. /\ m \in Nat /\ Len(tarjan_stack') = m + 1 /\ tarjan_stack'[m + 1] = key
      /\ \A p \in 1 .. m : tarjan_stack'[p] = tarjan_stack[p]
  BY <1>2 DEF Discovered
<1>5. \A p : p \in 1 .. m + 1 <=> p \in 1 .. m \/ p = m + 1
  BY <1>4
<1>6. \A a : Stacked(a)' <=> Stacked(a) \/ a = key
  <2> HIDE DEF m
  <2>1. \A a : Stacked(a)' <=> \E p \in 1 .. m + 1 : tarjan_stack'[p] = a
    BY <1>4 DEF Stacked
  <2>2. \A a : Stacked(a) <=> \E p \in 1 .. m : tarjan_stack[p] = a
    BY DEF Stacked, m
  <2>3. QED
    BY <2>1, <2>2, <1>4, <1>5
<1>7. QED
  BY <1>2, <1>3, <1>6 DEF Discovered

(* Discovering a key, as a root or along an edge, with a frame of its own. *)
LEMMA DiscoverSearch ==
  ASSUME IInv, SearchInv, NEW key \in items, key \notin DOMAIN index_of, Discover(key),
         UNCHANGED <<input, sccs>>,
         Len(work') = Len(work) + 1, work'[Len(work) + 1] = Frame(key),
         \A i \in 1 .. Len(work) : /\ work'[i].node = work[i].node
                                   /\ work'[i].rest \subseteq work[i].rest
                                   /\ work[i].rest \subseteq work'[i].rest \cup {key},
         Len(work) > 0 => key \in Neighbors(work[Len(work)].node)
  PROVE  SearchInv'
<1> DEFINE n == Len(work)
<1>1. /\ items' = items
      /\ \A a : Neighbors(a)' = Neighbors(a) /\ ClassOf(a)' = ClassOf(a)
      /\ \A a, b : Reaches(a, b)' <=> Reaches(a, b)
  BY SameGraph
<1>2. /\ DOMAIN index_of' = DOMAIN index_of \cup {key}
      /\ index_of'[key] = counter /\ low_link'[key] = counter
      /\ \A a \in DOMAIN index_of : /\ index_of'[a] = index_of[a] /\ a # key
                                    /\ low_link'[a] = low_link[a]
      /\ \A a : Stacked(a)' <=> Stacked(a) \/ a = key
  BY DiscoverKeys
<1>3. /\ \A a : Stacked(a) => a \in items /\ a \in DOMAIN index_of
      /\ \A a \in DOMAIN index_of : /\ index_of[a] \in Nat /\ low_link[a] \in Nat
                                    /\ index_of[a] < counter /\ low_link[a] <= index_of[a]
      /\ counter \in Nat /\ n \in Nat
  BY StackKeys
<1>4. /\ \A i \in 1 .. n : work[i].node \in items /\ work[i].node \in DOMAIN index_of
      /\ \A i \in 1 .. n : Stacked(work[i].node)
      /\ \A i, j \in 1 .. n : i < j => index_of[work[i].node] < index_of[work[j].node]
  BY FrameKeys
<1>5. /\ \A i : i \in 1 .. n + 1 <=> i \in 1 .. n \/ i = n + 1
      /\ Len(work') = n + 1
      /\ work'[n + 1].node = key /\ work'[n + 1].rest = Neighbors(key)
      /\ \A i \in 1 .. n : work'[i].node = work[i].node /\ work'[i].rest \subseteq work[i].rest
  BY <1>3 DEF Frame
<1>6. \A b \in Neighbors(key) : Pending(key, b)'
  BY <1>5 DEF Pending
<1>7. \A a, b : Pending(a, b) /\ b # key => Pending(a, b)'
  <2>1. SUFFICES ASSUME NEW a, NEW b, Pending(a, b), b # key PROVE Pending(a, b)'
    OBVIOUS
  <2>2. PICK i \in 1 .. n : work[i].node = a /\ b \in work[i].rest
    BY <2>1 DEF Pending
  <2>3. i \in 1 .. Len(work') /\ work'[i].node = a /\ b \in work'[i].rest
    BY <2>1, <2>2, <1>5
  <2>4. QED
    BY <2>3 DEF Pending
<1>8. \A a : Emitted(a)' <=> Emitted(a)
  BY DEF Emitted
<1>9. EdgesInv'
  <2>1. \A i \in 1 .. n + 1 : work'[i].rest \subseteq Neighbors(work'[i].node)
    BY <1>5 DEF SearchInv, EdgesInv
  <2>2. \A a \in DOMAIN index_of' : \A b \in Neighbors(a) :
           b \in DOMAIN index_of' \/ Pending(a, b)'
    BY <1>2, <1>6, <1>7 DEF SearchInv, EdgesInv
  <2>3. \A a \in items : \A b \in Neighbors(a) : Emitted(a)' => Emitted(b)'
    BY <1>8 DEF SearchInv, EdgesInv
  <2>4. QED
    BY <2>1, <2>2, <2>3, <1>1, <1>5 DEF EdgesInv
<1>10. PathsInv'
  <2>1. ASSUME NEW i \in 1 .. n + 1, NEW b \in items, Stacked(b)',
               index_of'[work'[i].node] <= index_of'[b]
        PROVE  Reaches(work'[i].node, b)
    <3>1. CASE i = n + 1
      <4>1. Stacked(b) => b \in DOMAIN index_of
        BY <1>3
      <4>2. Stacked(b) => index_of'[b] < counter /\ index_of'[b] \in Nat
        BY <4>1, <1>2, <1>3
      <4>3. b = key
        BY <4>2, <3>1, <2>1, <1>2, <1>3, <1>5
      <4>4. QED
        BY <4>3, <3>1, <1>5, ReachesSelf
    <3>2. CASE i \in 1 .. n /\ b = key
      <4>1. n > 0 /\ n \in 1 .. n
        BY <3>2, <1>3
      <4>2. Reaches(work[n].node, key)
        BY <4>1, ReachesNeighbor
      <4>3. index_of[work[i].node] <= index_of[work[n].node]
        <5>1. i = n \/ i < n
          BY <3>2, <1>3
        <5>2. index_of[work[i].node] \in Nat /\ index_of[work[n].node] \in Nat
          BY <3>2, <4>1, <1>3, <1>4
        <5>3. QED
          BY <5>1, <5>2, <3>2, <4>1, <1>4
      <4>4. Reaches(work[i].node, work[n].node)
        BY <3>2, <4>1, <4>3, <1>4 DEF SearchInv, PathsInv
      <4>5. QED
        BY <4>2, <4>4, <3>2, <1>5, ReachesOn
    <3>3. CASE i \in 1 .. n /\ b # key
      <4>1. Stacked(b) /\ b \in DOMAIN index_of
        BY <3>3, <2>1, <1>2, <1>3
      <4>2. index_of[work[i].node] <= index_of[b]
        BY <4>1, <3>3, <2>1, <1>2, <1>4, <1>5
      <4>3. QED
        BY <4>1, <4>2, <3>3, <1>5 DEF SearchInv, PathsInv
    <3>4. QED
      BY <3>1, <3>2, <3>3, <1>5
  <2>2. ASSUME NEW a \in items, Stacked(a)'
        PROVE  \E i \in 1 .. n + 1 : /\ index_of'[work'[i].node] <= index_of'[a]
                                     /\ Reaches(a, work'[i].node)
    <3>1. CASE a = key
      BY <3>1, <1>2, <1>3, <1>5, ReachesSelf
    <3>2. CASE a # key
      <4>1. Stacked(a) /\ a \in DOMAIN index_of
        BY <3>2, <2>2, <1>2, <1>3
      <4>2. PICK i \in 1 .. n : /\ index_of[work[i].node] <= index_of[a]
                                /\ Reaches(a, work[i].node)
        BY <4>1 DEF SearchInv, PathsInv
      <4>3. QED
        BY <4>1, <4>2, <1>2, <1>4, <1>5
    <3>3. QED
      BY <3>1, <3>2
  <2>3. QED
    BY <2>1, <2>2, <1>1, <1>5 DEF PathsInv
<1>11. LowInv'
  <2>1. ASSUME NEW i \in 1 .. n + 1
        PROVE  \E b \in items : /\ Stacked(b)' /\ index_of'[b] = low_link'[work'[i].node]
                                /\ Reaches(work'[i].node, b)
    <3>1. CASE i = n + 1
      BY <3>1, <1>2, <1>5, ReachesSelf
    <3>2. CASE i \in 1 .. n
      <4>1. PICK b \in items : /\ Stacked(b) /\ index_of[b] = low_link[work[i].node]
                               /\ Reaches(work[i].node, b)
        BY <3>2 DEF SearchInv, LowInv
      <4>2. b \in DOMAIN index_of
        BY <4>1, <1>3
      <4>3. QED
        BY <4>1, <4>2, <3>2, <1>2, <1>4, <1>5
    <3>3. QED
      BY <3>1, <3>2, <1>5
  <2>2. ASSUME NEW i \in 1 .. n + 1, NEW a \in items, NEW b \in Neighbors(a),
               Segment(i, a)', Stacked(b)', ~Pending(a, b)'
        PROVE  low_link'[work'[i].node] <= index_of'[b]
    <3>1. /\ Stacked(a)' /\ index_of'[work'[i].node] <= index_of'[a]
          /\ i < n + 1 => index_of'[a] < index_of'[work'[i + 1].node]
      BY <2>2, <1>5 DEF Segment
    <3>2. a # key
      BY <2>2, <1>6
    <3>3. Stacked(a) /\ a \in DOMAIN index_of /\ index_of'[a] = index_of[a]
      BY <3>1, <3>2, <1>2, <1>3
    <3>4. i \in 1 .. n
      <4>1. i # n + 1
        BY <3>1, <3>3, <1>2, <1>3, <1>5
      <4>2. QED
        BY <4>1, <1>5
    <3>5. work'[i].node = work[i].node /\ work[i].node \in DOMAIN index_of
      BY <3>4, <1>4, <1>5
    <3>6. CASE b = key
      BY <3>5, <3>6, <1>2, <1>3
    <3>7. CASE b # key
      <4>1. Stacked(b) /\ b \in DOMAIN index_of /\ ~Pending(a, b)
        BY <3>7, <2>2, <1>2, <1>3, <1>7
      <4>2. i < n => index_of[a] < index_of[work[i + 1].node]
        <5>1. SUFFICES ASSUME i < n PROVE index_of[a] < index_of[work[i + 1].node]
          OBVIOUS
        <5>2. i + 1 \in 1 .. n /\ i < n + 1
          BY <5>1, <3>4, <1>3
        <5>3. work'[i + 1].node = work[i + 1].node /\ work[i + 1].node \in DOMAIN index_of
          BY <5>2, <1>4, <1>5
        <5>4. QED
          BY <5>2, <5>3, <3>1, <3>3, <1>2
      <4>3. Segment(i, a)
        BY <4>2, <3>1, <3>3, <3>5, <1>2 DEF Segment
      <4>4. low_link[work[i].node] <= index_of[b]
        BY <4>1, <4>3, <3>4 DEF SearchInv, LowInv
      <4>5. QED
        BY <4>1, <4>4, <3>5, <1>2
    <3>8. QED
      BY <3>6, <3>7
  <2>3. QED
    BY <2>1, <2>2, <1>1, <1>5 DEF LowInv
<1>12. ClassInv'
  BY <1>1 DEF SearchInv, ClassInv
<1>13. QED
  BY <1>9, <1>10, <1>11, <1>12 DEF SearchInv

LEMMA NextRootSearch == ASSUME IInv, SearchInv, NextRoot PROVE SearchInv'
<1>1. PICK root \in Keys : /\ IsLeast(root, items \ DOMAIN index_of)
                           /\ Discover(root) /\ work' = <<Frame(root)>>
  BY DEF NextRoot
<1>2. root \in items /\ root \notin DOMAIN index_of /\ UNCHANGED <<input, sccs>> /\ work = <<>>
  BY <1>1 DEF IsLeast, NextRoot, inputVars
<1>3. /\ Len(work) = 0 /\ Len(work') = Len(work) + 1 /\ work'[Len(work) + 1] = Frame(root)
  BY <1>1, <1>2
<1>4. QED
  BY <1>1, <1>2, <1>3, DiscoverSearch

(* Moving on to the next neighbour takes it off the rest of the top frame. *)
LEMMA AdvancedRests ==
  ASSUME IInv, work # <<>>, NEW next
  PROVE  /\ Advanced(next)[Len(work)].rest = Top.rest \ {next}
         /\ \A i \in 1 .. Len(work) :
               i # Len(work) => Advanced(next)[i].rest = work[i].rest
<1>1. Len(work) \in Nat /\ Len(work) > 0 /\ work[Len(work)] \in [node : items, rest : SUBSET items]
  BY TopFrame DEF Top
<1>2. DOMAIN work = 1 .. Len(work)
  BY LenProperties DEF IInv, TypeOK
<1>3. QED
  BY <1>1, <1>2 DEF Advanced, Top

LEMMA TreeEdgeSearch == ASSUME IInv, SearchInv, TreeEdge PROVE SearchInv'
<1> DEFINE n == Len(work)
<1>1. PICK next \in Keys : /\ IsLeast(next, Top.rest) /\ next \notin DOMAIN index_of
                           /\ Discover(next)
                           /\ work' = Append(Advanced(next), Frame(next))
  BY DEF TreeEdge
<1>2. work # <<>> /\ UNCHANGED <<input, sccs>>
  BY DEF TreeEdge, inputVars
<1>3. /\ n \in Nat /\ n > 0 /\ n \in 1 .. n
      /\ Top = work[n] /\ next \in Top.rest /\ Top.rest \subseteq items
  BY <1>1, <1>2, TopFrame DEF Top, IsLeast
<1>4. next \in items /\ next \in Neighbors(work[n].node)
  BY <1>3 DEF SearchInv, EdgesInv
<1>5. /\ Advanced(next) \in Seq([node : items, rest : SUBSET items])
      /\ Len(Advanced(next)) = n
      /\ \A i \in 1 .. n : Advanced(next)[i].node = work[i].node
      /\ Advanced(next)[n].rest = Top.rest \ {next}
      /\ \A i \in 1 .. n : i # n => Advanced(next)[i].rest = work[i].rest
  BY <1>2, AdvancedFrames, AdvancedRests
<1>6. Frame(next) \in [node : items, rest : SUBSET items]
  BY <1>4 DEF Frame, Neighbors
<1>7. /\ Len(work') = n + 1 /\ work'[n + 1] = Frame(next)
      /\ \A i \in 1 .. n : work'[i] = Advanced(next)[i]
  BY <1>1, <1>5, <1>6
<1>8. \A i \in 1 .. n : /\ work'[i].node = work[i].node
                        /\ work'[i].rest \subseteq work[i].rest
                        /\ work[i].rest \subseteq work'[i].rest \cup {next}
  BY <1>3, <1>5, <1>7
<1>9. QED
  BY <1>1, <1>2, <1>4, <1>7, <1>8, DiscoverSearch

-----------------------------------------------------------------------------
(* Lowering the low link of one key. *)
LEMMA LoweredLink ==
  ASSUME TypeOK, NEW key \in DOMAIN index_of, NEW v \in Nat,
         low_link' = [low_link EXCEPT ![key] = Lesser(@, v)]
  PROVE  /\ low_link'[key] = low_link[key] \/ low_link'[key] = v
         /\ low_link'[key] <= low_link[key] /\ low_link'[key] <= v
         /\ \A a \in DOMAIN index_of : a # key => low_link'[a] = low_link[a]
<1>1. low_link \in [DOMAIN index_of -> Nat]
  BY DEF TypeOK
<1>2. low_link'[key] = Lesser(low_link[key], v) /\ low_link[key] \in Nat
  BY <1>1
<1>3. QED
  BY <1>1, <1>2 DEF Lesser

LEMMA SeenEdgeSearch == ASSUME IInv, SearchInv, SeenEdge PROVE SearchInv'
<1> DEFINE n == Len(work)
           v == Top.node
<1>1. PICK next \in Keys :
         /\ IsLeast(next, Top.rest) /\ next \in DOMAIN index_of
         /\ work' = Advanced(next)
         /\ low_link' = IF next \in OnStack
                        THEN [low_link EXCEPT ![Top.node] = Lesser(@, index_of[next])]
                        ELSE low_link
  BY DEF SeenEdge
<1>2. work # <<>> /\ UNCHANGED <<input, index_of, tarjan_stack, sccs>> /\ TypeOK
  BY DEF SeenEdge, inputVars, IInv
<1>3. /\ n \in Nat /\ n > 0 /\ n \in 1 .. n
      /\ Top = work[n] /\ next \in Top.rest
  BY <1>1, <1>2, TopFrame DEF Top, IsLeast
<1>4. next \in Neighbors(v)
  BY <1>3 DEF SearchInv, EdgesInv
<1>5. /\ Len(work') = n
      /\ \A i \in 1 .. n : work'[i].node = work[i].node
      /\ work'[n].rest = Top.rest \ {next}
      /\ \A i \in 1 .. n : i # n => work'[i].rest = work[i].rest
  BY <1>1, <1>2, AdvancedFrames, AdvancedRests
<1>6. /\ \A a : Stacked(a) => a \in items /\ a \in DOMAIN index_of
      /\ \A a \in DOMAIN index_of : index_of[a] \in Nat /\ low_link[a] \in Nat
  BY StackKeys
<1>7. /\ \A i \in 1 .. n : work[i].node \in items /\ work[i].node \in DOMAIN index_of
      /\ \A i, j \in 1 .. n : i < j => index_of[work[i].node] < index_of[work[j].node]
  BY FrameKeys
<1>8. /\ v = work[n].node /\ v \in DOMAIN index_of
      /\ \A i \in 1 .. n : i # n => work[i].node # v
  <2>1. v = work[n].node /\ v \in DOMAIN index_of /\ index_of[v] \in Nat
    BY <1>3, <1>6, <1>7
  <2>2. ASSUME NEW i \in 1 .. n, i # n PROVE work[i].node # v
    <3>1. i < n
      BY <2>2, <1>3
    <3>2. QED
      BY <3>1, <2>1, <1>3, <1>7
  <2>3. QED
    BY <2>1, <2>2
<1>9. /\ \A a : Stacked(a)' <=> Stacked(a)
      /\ \A a : Emitted(a)' <=> Emitted(a)
      /\ \A a : a \in OnStack <=> Stacked(a)
  <2>1. DOMAIN tarjan_stack = 1 .. Len(tarjan_stack)
    BY <1>2, LenProperties DEF TypeOK
  <2>2. QED
    BY <2>1, <1>2 DEF Stacked, Emitted, OnStack
<1>10. \A a, b : Pending(a, b) => Pending(a, b)' \/ (a = v /\ b = next)
  <2>1. SUFFICES ASSUME NEW a, NEW b, Pending(a, b), ~(a = v /\ b = next)
                 PROVE  Pending(a, b)'
    OBVIOUS
  <2>2. PICK i \in 1 .. n : work[i].node = a /\ b \in work[i].rest
    BY <2>1 DEF Pending
  <2>3. i \in 1 .. Len(work') /\ work'[i].node = a /\ b \in work'[i].rest
    BY <2>1, <2>2, <1>3, <1>5, <1>8
  <2>4. QED
    BY <2>3 DEF Pending
<1>11. /\ Stacked(next) => /\ low_link'[v] = low_link[v] \/ low_link'[v] = index_of[next]
                           /\ low_link'[v] <= low_link[v] /\ low_link'[v] <= index_of[next]
                           /\ low_link'[v] \in Nat
       /\ ~Stacked(next) => low_link'[v] = low_link[v]
       /\ \A a \in DOMAIN index_of : a # v => low_link'[a] = low_link[a]
  <2>1. CASE Stacked(next)
    <3>1. low_link' = [low_link EXCEPT ![v] = Lesser(@, index_of[next])]
      BY <2>1, <1>1, <1>9
    <3>2. index_of[next] \in Nat /\ low_link[v] \in Nat
      BY <1>1, <1>6, <1>8
    <3> HIDE DEF v
    <3>3. QED
      BY <3>1, <3>2, <2>1, <1>2, <1>8, LoweredLink
  <2>2. CASE ~Stacked(next)
    BY <2>2, <1>1, <1>9
  <2>3. QED
    BY <2>1, <2>2
<1>12. /\ items' = items
       /\ \A a : Neighbors(a)' = Neighbors(a) /\ ClassOf(a)' = ClassOf(a)
       /\ \A a, b : Reaches(a, b)' <=> Reaches(a, b)
  BY <1>2, SameGraph
<1> HIDE DEF n, v
<1>13. EdgesInv'
  <2>1. \A i \in 1 .. n : work'[i].rest \subseteq Neighbors(work'[i].node)
    BY <1>3, <1>5 DEF SearchInv, EdgesInv, n
  <2>2. \A a \in DOMAIN index_of : \A b \in Neighbors(a) :
           b \in DOMAIN index_of \/ Pending(a, b)'
    BY <1>1, <1>10 DEF SearchInv, EdgesInv
  <2>3. \A a \in items : \A b \in Neighbors(a) : Emitted(a)' => Emitted(b)'
    BY <1>9 DEF SearchInv, EdgesInv
  <2>4. QED
    BY <2>1, <2>2, <2>3, <1>2, <1>5, <1>12 DEF EdgesInv
<1>14. PathsInv'
  <2>1. \A i \in 1 .. n : \A b \in items :
           Stacked(b)' /\ index_of[work'[i].node] <= index_of[b] => Reaches(work'[i].node, b)
    BY <1>5, <1>9 DEF SearchInv, PathsInv, n
  <2>2. \A a \in items : Stacked(a)' =>
           \E i \in 1 .. n : /\ index_of[work'[i].node] <= index_of[a]
                             /\ Reaches(a, work'[i].node)
    BY <1>5, <1>9 DEF SearchInv, PathsInv, n
  <2>3. QED
    BY <2>1, <2>2, <1>2, <1>5, <1>12 DEF PathsInv
<1>15. LowInv'
  <2>1. ASSUME NEW i \in 1 .. n
        PROVE  \E b \in items : /\ Stacked(b) /\ index_of[b] = low_link'[work[i].node]
                                /\ Reaches(work[i].node, b)
    <3>1. CASE low_link'[work[i].node] = low_link[work[i].node]
      BY <3>1 DEF SearchInv, LowInv, n
    <3>2. CASE low_link'[work[i].node] # low_link[work[i].node]
      <4>1. i = n /\ Stacked(next) /\ low_link'[v] = index_of[next]
        BY <3>2, <1>7, <1>8, <1>11
      <4>2. next \in items /\ Reaches(v, next)
        BY <4>1, <1>4, <1>6, ReachesNeighbor
      <4>3. QED
        BY <4>1, <4>2, <1>8
    <3>3. QED
      BY <3>1, <3>2
  <2>2. ASSUME NEW i \in 1 .. n, NEW a \in items, NEW b \in Neighbors(a),
               Segment(i, a)', Stacked(b), ~Pending(a, b)'
        PROVE  low_link'[work[i].node] <= index_of[b]
    <3>1. Segment(i, a)
      <4>1. /\ Stacked(a) /\ index_of[work[i].node] <= index_of[a]
            /\ i < n => index_of[a] < index_of[work'[i + 1].node]
        BY <2>2, <1>2, <1>5, <1>9 DEF Segment
      <4>2. i < n => i + 1 \in 1 .. n
        BY <1>3
      <4>3. i < n => index_of[a] < index_of[work[i + 1].node]
        BY <4>1, <4>2, <1>5
      <4>4. QED
        BY <4>1, <4>3 DEF Segment, n
    <3>2. b \in DOMAIN index_of /\ index_of[b] \in Nat
      BY <2>2, <1>6
    <3>3. low_link[work[i].node] \in Nat
      BY <1>6, <1>7
    <3>4. CASE ~Pending(a, b)
      <4>1. low_link[work[i].node] <= index_of[b]
        BY <3>1, <3>4, <2>2 DEF SearchInv, LowInv, n
      <4>2. CASE i # n
        BY <4>1, <4>2, <1>7, <1>8, <1>11
      <4>3. CASE i = n
        BY <4>1, <4>3, <3>2, <3>3, <1>8, <1>11
      <4>4. QED
        BY <4>2, <4>3
    <3>5. CASE Pending(a, b)
      <4>1. a = v /\ b = next
        BY <3>5, <2>2, <1>10
      <4>2. i = n
        <5>1. SUFFICES ASSUME i < n PROVE FALSE
          BY <1>3
        <5>2. i + 1 \in 1 .. n /\ (i + 1 = n \/ i + 1 < n)
          BY <5>1, <1>3
        <5>3. index_of[v] < index_of[work[i + 1].node]
          BY <3>1, <4>1, <5>1 DEF Segment, n
        <5>4. index_of[v] \in Nat /\ index_of[work[i + 1].node] \in Nat
          BY <5>2, <1>6, <1>7, <1>8
        <5>5. index_of[work[i + 1].node] <= index_of[v]
          BY <5>2, <5>4, <1>3, <1>7, <1>8
        <5>6. QED
          BY <5>3, <5>4, <5>5
      <4>3. QED
        BY <4>1, <4>2, <2>2, <1>8, <1>11
    <3>6. QED
      BY <3>4, <3>5
  <2>3. \A i \in 1 .. n :
           \E b \in items : /\ Stacked(b)' /\ index_of[b] = low_link'[work'[i].node]
                            /\ Reaches(work'[i].node, b)
    BY <2>1, <1>5, <1>9
  <2>4. \A i \in 1 .. n : \A a \in items : \A b \in Neighbors(a) :
           Segment(i, a)' /\ Stacked(b)' /\ ~Pending(a, b)'
           => low_link'[work'[i].node] <= index_of[b]
    BY <2>2, <1>5, <1>9
  <2>5. QED
    BY <2>3, <2>4, <1>2, <1>5, <1>12 DEF LowInv
<1>16. ClassInv'
  BY <1>2, <1>12 DEF SearchInv, ClassInv
<1>17. QED
  BY <1>13, <1>14, <1>15, <1>16 DEF SearchInv

-----------------------------------------------------------------------------
(* Only the caller's low link changes on a return. *)
LEMMA ReturnLinks ==
  ASSUME IInv, Return
  PROVE  /\ low_link'[Top.node] = low_link[Top.node]
         /\ \A i \in 1 .. Len(work) - 1 :
               i # Len(work) - 1 => low_link'[work[i].node] = low_link[work[i].node]
         /\ \A i \in 1 .. Len(work) - 1 :
               i = Len(work) - 1 =>
                  /\ \/ low_link'[work[i].node] = low_link[work[i].node]
                     \/ low_link'[work[i].node] = low_link[Top.node]
                  /\ low_link'[work[i].node] \in Nat
                  /\ low_link'[work[i].node] <= low_link[work[i].node]
                  /\ low_link'[work[i].node] <= low_link[Top.node]
<1> DEFINE n == Len(work)
<1>1. /\ work # <<>> /\ work' = SubSeq(work, 1, n - 1) /\ work' = Returned
      /\ low_link' = PropagateLowLink /\ TypeOK
  BY DEF Return, Returned, IInv
<1>2. n \in Nat /\ n > 0 /\ n \in 1 .. n /\ Top = work[n]
  BY <1>1, TopFrame DEF Top
<1>3. Len(work') = n - 1 /\ \A i \in 1 .. n - 1 : work'[i] = work[i]
  BY ReturnFrames
<1>4. /\ \A i \in 1 .. n : work[i].node \in DOMAIN index_of
      /\ \A i \in 1 .. n : /\ low_link[work[i].node] \in Nat
                           /\ index_of[work[i].node] \in Nat
      /\ \A i, j \in 1 .. n : i < j => index_of[work[i].node] < index_of[work[j].node]
  BY FrameKeys
<1>5. CASE n = 1
  <2>1. low_link' = low_link
    BY <1>5, ReturnFrames
  <2>2. \A i : i \notin 1 .. n - 1
    BY <1>5
  <2>3. QED
    BY <2>1, <2>2
<1>6. CASE n > 1
  <2> DEFINE parent == work[n - 1].node
             callee == Top.node
  <2>1. n - 1 \in 1 .. n - 1 /\ n - 1 \in 1 .. n /\ \A i \in 1 .. n - 1 : i \in 1 .. n
    BY <1>2, <1>6
  <2>2. Returned # <<>> /\ Len(Returned) = n - 1 /\ Returned[n - 1] = work[n - 1]
    BY <2>1, <1>1, <1>3, <1>6
  <2>3. low_link' = [low_link EXCEPT ![parent] = Lesser(@, low_link[callee])]
    BY <2>2, <1>1 DEF PropagateLowLink
  <2>4. low_link[callee] \in Nat /\ low_link[parent] \in Nat /\ parent \in DOMAIN index_of
    BY <2>1, <1>2, <1>4
  <2>5. \A i \in 1 .. n : i # n - 1 => work[i].node # parent /\ work[i].node \in DOMAIN index_of
    <3>1. SUFFICES ASSUME NEW i \in 1 .. n, i # n - 1 PROVE work[i].node # parent
      BY <1>4
    <3>2. i < n - 1 \/ n - 1 < i
      BY <3>1, <1>2
    <3>3. index_of[work[i].node] # index_of[parent]
      BY <3>2, <2>1, <1>4
    <3>4. QED
      BY <3>3
  <2>6. callee = work[n].node /\ n # n - 1
    BY <1>2
  <2> HIDE DEF parent, callee
  <2>7. /\ low_link'[parent] = low_link[parent] \/ low_link'[parent] = low_link[callee]
        /\ low_link'[parent] <= low_link[parent] /\ low_link'[parent] <= low_link[callee]
        /\ \A a \in DOMAIN index_of : a # parent => low_link'[a] = low_link[a]
    BY <2>3, <2>4, <1>1, LoweredLink
  <2>8. low_link'[parent] \in Nat
    BY <2>4, <2>7
  <2>9. low_link'[callee] = low_link[callee]
    BY <2>5, <2>6, <2>7, <1>2
  <2>10. \A i \in 1 .. n - 1 : i # n - 1 => low_link'[work[i].node] = low_link[work[i].node]
    BY <2>1, <2>5, <2>7
  <2>11. QED
    BY <2>7, <2>8, <2>9, <2>10 DEF parent, callee
<1>7. n = 1 \/ n > 1
  <2>1. \A k \in Nat : k > 0 => k = 1 \/ k > 1
    OBVIOUS
  <2>2. QED
    BY <2>1, <1>2
<1>8. QED
  BY ZenonT(60), <1>5, <1>6, <1>7

(* The frame popped had nothing left to do. *)
LEMMA ReturnPending ==
  ASSUME IInv, Return, NEW a, NEW b PROVE Pending(a, b)' <=> Pending(a, b)
<1> DEFINE n == Len(work)
<1>1. n \in Nat /\ n > 0 /\ Top = work[n] /\ Top.rest = {}
  BY TopFrame DEF Return, Top
<1>2. Len(work') = n - 1 /\ \A i \in 1 .. n - 1 : work'[i] = work[i]
  BY ReturnFrames
<1>3. \A i \in 1 .. n : i \in 1 .. n - 1 \/ i = n
  BY <1>1
<1>4. \A i \in 1 .. n - 1 : i \in 1 .. n
  BY <1>1
<1>5. QED
  BY <1>1, <1>2, <1>3, <1>4 DEF Pending

(* Returning without a component: the segment of the callee becomes part of *)
(* the caller's.                                                            *)
LEMMA KeepSearch ==
  ASSUME IInv, SearchInv, Return, low_link'[Top.node] # index_of[Top.node]
  PROVE  SearchInv'
<1> DEFINE n == Len(work)
           v == Top.node
<1>1. UNCHANGED <<input, index_of, tarjan_stack, sccs>> /\ work # <<>>
  BY DEF Return, inputVars
<1>2. /\ n \in Nat /\ n > 0 /\ n \in 1 .. n /\ Top = work[n]
      /\ \A i \in 1 .. n - 1 : i \in 1 .. n /\ i < n
  BY <1>1, TopFrame DEF Top
<1>3. Len(work') = n - 1 /\ \A i \in 1 .. n - 1 : work'[i] = work[i]
  BY ReturnFrames
<1>4. /\ low_link'[v] = low_link[v]
      /\ \A i \in 1 .. n - 1 :
            i # n - 1 => low_link'[work[i].node] = low_link[work[i].node]
      /\ \A i \in 1 .. n - 1 :
            i = n - 1 => /\ \/ low_link'[work[i].node] = low_link[work[i].node]
                            \/ low_link'[work[i].node] = low_link[v]
                         /\ low_link'[work[i].node] \in Nat
                         /\ low_link'[work[i].node] <= low_link[work[i].node]
                         /\ low_link'[work[i].node] <= low_link[v]
  BY ReturnLinks
<1>5. /\ \A i \in 1 .. n : work[i].node \in items /\ work[i].node \in DOMAIN index_of
      /\ \A i \in 1 .. n : /\ Stacked(work[i].node)
                           /\ index_of[work[i].node] \in Nat
                           /\ low_link[work[i].node] \in Nat
                           /\ low_link[work[i].node] <= index_of[work[i].node]
      /\ \A i, j \in 1 .. n : i < j => index_of[work[i].node] < index_of[work[j].node]
  BY FrameKeys
<1>6. /\ \A a : Stacked(a) => a \in items /\ a \in DOMAIN index_of
      /\ \A a : Stacked(a) => index_of[a] \in Nat
  BY StackKeys
<1>7. /\ items' = items
      /\ \A a : Neighbors(a)' = Neighbors(a) /\ ClassOf(a)' = ClassOf(a)
      /\ \A a, b : Reaches(a, b)' <=> Reaches(a, b)
  BY <1>1, SameGraph
<1>8. \A a, b : Pending(a, b)' <=> Pending(a, b)
  BY ReturnPending
<1>9. \A a : (Stacked(a)' <=> Stacked(a)) /\ (Emitted(a)' <=> Emitted(a))
  BY <1>1 DEF Stacked, Emitted
<1>10. v = work[n].node /\ low_link[v] < index_of[v]
  <2>1. v = work[n].node
    BY <1>2
  <2>2. QED
    BY <2>1, <1>2, <1>4, <1>5
\* The key that v's low link names lies below v, in the segment of a caller.
<1>11. PICK x \in items : Stacked(x) /\ index_of[x] = low_link[v] /\ Reaches(v, x)
  BY <1>2, <1>10 DEF SearchInv, LowInv
<1>12. PICK c \in 1 .. n - 1 : index_of[work[c].node] <= index_of[x] /\ Reaches(v, work[c].node)
  <2>1. PICK c \in 1 .. n : index_of[work[c].node] <= index_of[x] /\ Reaches(x, work[c].node)
    BY <1>11 DEF SearchInv, PathsInv
  <2>2. c # n
    BY <2>1, <1>5, <1>6, <1>10, <1>11
  <2>3. c \in 1 .. n - 1
    BY <2>2, <1>2
  <2>4. QED
    BY <2>1, <2>3, <1>11, ReachesOn
<1> HIDE DEF n, v
<1>13. EdgesInv'
  <2>1. \A i \in 1 .. n - 1 : work'[i].rest \subseteq Neighbors(work'[i].node)
    BY <1>2, <1>3 DEF SearchInv, EdgesInv, n
  <2>2. QED
    BY <2>1, <1>1, <1>3, <1>7, <1>8, <1>9 DEF SearchInv, EdgesInv
<1>14. PathsInv'
  <2>1. \A i \in 1 .. n - 1 : \A b \in items :
           Stacked(b) /\ index_of[work[i].node] <= index_of[b] => Reaches(work[i].node, b)
    BY <1>2 DEF SearchInv, PathsInv, n
  <2>2. ASSUME NEW a \in items, Stacked(a)
        PROVE  \E i \in 1 .. n - 1 : /\ index_of[work[i].node] <= index_of[a]
                                     /\ Reaches(a, work[i].node)
    <3>1. PICK i \in 1 .. n : index_of[work[i].node] <= index_of[a] /\ Reaches(a, work[i].node)
      BY <2>2 DEF SearchInv, PathsInv, n
    <3>2. CASE i # n
      <4>1. i \in 1 .. n - 1
        BY <3>2, <1>2
      <4>2. QED
        BY <3>1, <4>1
    <3>3. CASE i = n
      <4>1. index_of[v] <= index_of[a] /\ Reaches(a, v)
        BY <3>1, <3>3, <1>10
      <4>2. Reaches(a, work[c].node)
        BY <4>1, <1>12, ReachesOn
      <4>3. index_of[work[c].node] <= index_of[a]
        BY <4>1, <2>2, <1>2, <1>5, <1>6, <1>10, <1>11, <1>12
      <4>4. QED
        BY <4>2, <4>3
    <3>4. QED
      BY <3>2, <3>3
  <2>3. QED
    BY <2>1, <2>2, <1>1, <1>3, <1>7, <1>9 DEF PathsInv
<1>15. LowInv'
  <2>1. ASSUME NEW i \in 1 .. n - 1
        PROVE  \E b \in items : /\ Stacked(b) /\ index_of[b] = low_link'[work[i].node]
                                /\ Reaches(work[i].node, b)
    <3>1. CASE low_link'[work[i].node] = low_link[work[i].node]
      BY <3>1, <1>2 DEF SearchInv, LowInv, n
    <3>2. CASE low_link'[work[i].node] # low_link[work[i].node]
      <4>1. low_link'[work[i].node] = index_of[x]
        BY <3>2, <1>4, <1>11
      <4>2. index_of[work[i].node] <= index_of[v] /\ Stacked(v) /\ v \in items
        BY <1>2, <1>5, <1>10
      <4>3. Reaches(work[i].node, v)
        BY <4>2, <1>2 DEF SearchInv, PathsInv, n
      <4>4. Reaches(work[i].node, x)
        BY <4>3, <1>11, ReachesOn
      <4>5. QED
        BY <4>1, <4>4, <1>11
    <3>3. QED
      BY <3>1, <3>2
  <2>2. ASSUME NEW i \in 1 .. n - 1, NEW a \in items, NEW b \in Neighbors(a),
               Stacked(a), index_of[work[i].node] <= index_of[a],
               i < n - 1 => index_of[a] < index_of[work[i + 1].node],
               Stacked(b), ~Pending(a, b)
        PROVE  low_link'[work[i].node] <= index_of[b]
    <3>1. index_of[b] \in Nat /\ index_of[a] \in Nat
      BY <2>2, <1>6
    <3>2. CASE Segment(i, a)
      <4>1. low_link[work[i].node] <= index_of[b]
        BY <3>2, <2>2, <1>2 DEF SearchInv, LowInv, n
      <4>2. low_link'[work[i].node] <= low_link[work[i].node] /\ low_link'[work[i].node] \in Nat
        BY <1>2, <1>4, <1>5
      <4>3. low_link[work[i].node] \in Nat
        BY <1>2, <1>5
      <4>4. QED
        BY <4>1, <4>2, <4>3, <3>1
    <3>3. CASE ~Segment(i, a)
      <4>1. i < n /\ ~(index_of[a] < index_of[work[i + 1].node])
        BY <3>3, <2>2, <1>2 DEF Segment, n
      <4>2. i = n - 1 /\ i + 1 = n
        BY <4>1, <2>2, <1>2
      <4>3. index_of[v] <= index_of[a]
        BY <4>1, <4>2, <3>1, <1>2, <1>5, <1>10
      <4>4. Segment(n, a)
        BY <4>3, <2>2, <1>2, <1>10 DEF Segment, n
      <4>5. low_link[v] <= index_of[b]
        BY <4>4, <2>2, <1>2, <1>10 DEF SearchInv, LowInv, n
      <4>6. low_link'[work[i].node] <= low_link[v] /\ low_link'[work[i].node] \in Nat
        BY <4>2, <1>4
      <4>7. low_link[v] \in Nat
        BY <1>2, <1>5, <1>10
      <4>8. QED
        BY <4>5, <4>6, <4>7, <3>1
    <3>4. QED
      BY <3>2, <3>3
  <2>3. ASSUME NEW i \in 1 .. n - 1, NEW a \in items, Segment(i, a)'
        PROVE  /\ Stacked(a) /\ index_of[work[i].node] <= index_of[a]
               /\ i < n - 1 => index_of[a] < index_of[work[i + 1].node]
    <3>1. /\ Stacked(a) /\ index_of[work[i].node] <= index_of[a]
          /\ i < n - 1 => index_of[a] < index_of[work'[i + 1].node]
      BY <2>3, <1>1, <1>3, <1>9 DEF Segment
    <3>2. i < n - 1 => i + 1 \in 1 .. n - 1
      BY <1>2
    <3>3. QED
      BY <3>1, <3>2, <1>3
  <2>4. \A i \in 1 .. n - 1 : \A a \in items : \A b \in Neighbors(a) :
           Segment(i, a)' /\ Stacked(b)' /\ ~Pending(a, b)'
           => low_link'[work'[i].node] <= index_of[b]
    BY <2>2, <2>3, <1>3, <1>8, <1>9
  <2>5. \A i \in 1 .. n - 1 :
           \E b \in items : /\ Stacked(b)' /\ index_of[b] = low_link'[work'[i].node]
                            /\ Reaches(work'[i].node, b)
    BY <2>1, <1>3, <1>9
  <2>6. QED
    BY <2>4, <2>5, <1>1, <1>3, <1>7 DEF LowInv
<1>16. ClassInv'
  BY <1>1, <1>7 DEF SearchInv, ClassInv
<1>17. QED
  BY <1>13, <1>14, <1>15, <1>16 DEF SearchInv

(* What a return pops: the keys of the stack from the root's up. *)
Popped(root) == {a \in items : Stacked(a) /\ index_of[root] <= index_of[a]}

(* All the neighbours of the keys popped are popped or in a component, and *)
(* so are those of the components.                                         *)
LEMMA PoppedClosed ==
  ASSUME IInv, SearchInv, work # <<>>, Top.rest = {},
         low_link[Top.node] = index_of[Top.node]
  PROVE  /\ \A a \in Popped(Top.node) : \A b \in Neighbors(a) :
               b \in Popped(Top.node) \/ Emitted(b)
         /\ \A a : Emitted(a) => \A b \in Neighbors(a) : Emitted(b)
<1> DEFINE n == Len(work)
           v == Top.node
<1>1. /\ n \in Nat /\ n > 0 /\ n \in 1 .. n /\ Top = work[n] /\ v = work[n].node
      /\ \A i \in 1 .. n : i = n \/ i < n
  BY TopFrame DEF Top
<1>2. /\ \A i \in 1 .. n : work[i].node \in DOMAIN index_of /\ index_of[work[i].node] \in Nat
      /\ \A i, j \in 1 .. n : i < j => index_of[work[i].node] < index_of[work[j].node]
  BY FrameKeys
<1>3. /\ \A a : Stacked(a) => a \in items /\ a \in DOMAIN index_of
      /\ \A a \in DOMAIN index_of : index_of[a] \in Nat /\ (Stacked(a) \/ Emitted(a))
      /\ \A a : Emitted(a) => a \in items
  BY StackKeys
<1> HIDE DEF n, v
<1>4. ASSUME NEW a \in Popped(v), NEW b \in Neighbors(a)
      PROVE  b \in Popped(v) \/ Emitted(b)
  <2>1. a \in items /\ Stacked(a) /\ index_of[v] <= index_of[a] /\ a \in DOMAIN index_of
    BY <1>3, <1>4 DEF Popped
  <2>2. ~Pending(a, b)
    <3>1. SUFFICES ASSUME NEW i \in 1 .. n, work[i].node = a, b \in work[i].rest PROVE FALSE
      BY DEF Pending, n
    <3>2. CASE i = n
      BY <3>1, <3>2, <1>1 DEF v
    <3>3. CASE i < n
      BY <3>1, <3>3, <2>1, <1>1, <1>2
    <3>4. QED
      BY <3>2, <3>3, <1>1
  <2>3. b \in DOMAIN index_of
    BY <2>1, <2>2, <1>4 DEF SearchInv, EdgesInv
  <2>4. CASE Stacked(b)
    <3>1. Segment(n, a)
      BY <2>1, <1>1 DEF Segment, n
    <3>2. low_link[work[n].node] <= index_of[b]
      BY <3>1, <2>1, <2>2, <2>4, <1>1, <1>4 DEF SearchInv, LowInv, n
    <3>3. QED
      BY <3>2, <2>4, <1>1, <1>3 DEF Popped, v
  <2>5. QED
    BY <2>3, <2>4, <1>3
<1>5. QED
  BY <1>3, <1>4 DEF SearchInv, EdgesInv, v

(* The keys popped are one class of mutually dependent items. *)
LEMMA PoppedIsClass ==
  ASSUME IInv, SearchInv, work # <<>>, Top.rest = {},
         low_link[Top.node] = index_of[Top.node], NEW key \in Popped(Top.node)
  PROVE  Popped(Top.node) = ClassOf(key)
<1> DEFINE n == Len(work)
           v == Top.node
           E == {a \in items : Emitted(a)}
           S == Popped(v) \cup E
<1>1. /\ n \in Nat /\ n > 0 /\ n \in 1 .. n /\ Top = work[n] /\ v = work[n].node
      /\ \A i \in 1 .. n : i = n \/ i < n
  BY TopFrame DEF Top
<1>2. /\ \A i \in 1 .. n : Stacked(work[i].node) /\ work[i].node \in items
      /\ \A i \in 1 .. n : index_of[work[i].node] \in Nat
      /\ \A i, j \in 1 .. n : i < j => index_of[work[i].node] < index_of[work[j].node]
  BY FrameKeys
<1>3. \A a : Emitted(a) => ~Stacked(a) /\ a \in items
  BY StackKeys
<1> HIDE DEF n, v
\* Every key popped reaches the root, and the root reaches it.
<1>4. ASSUME NEW a \in Popped(v) PROVE Reaches(v, a) /\ Reaches(a, v)
  <2>1. a \in items /\ Stacked(a) /\ index_of[v] <= index_of[a]
    BY <1>4 DEF Popped
  <2>2. Reaches(v, a)
    BY <2>1, <1>1 DEF SearchInv, PathsInv, n
  <2>3. PICK i \in 1 .. n : Reaches(a, work[i].node)
    BY <2>1 DEF SearchInv, PathsInv, n
  <2>4. index_of[work[i].node] <= index_of[v] /\ Stacked(v) /\ v \in items
    BY <2>3, <1>1, <1>2
  <2>5. Reaches(work[i].node, v)
    BY <2>3, <2>4 DEF SearchInv, PathsInv, n
  <2>6. QED
    BY <2>2, <2>3, <2>5, ReachesOn
<1>5. ASSUME NEW a \in Popped(v) PROVE a \in ClassOf(key)
  <2>1. a \in items /\ key \in Popped(v)
    BY <1>5 DEF Popped, v
  <2>2. Reaches(a, key) /\ Reaches(key, a)
    BY <2>1, <1>4, <1>5, ReachesOn
  <2>3. QED
    BY <2>1, <2>2 DEF ClassOf
\* Nothing else: what the key reaches is popped or emitted, and what is
\* emitted does not reach the key.
<1>6. /\ \A a \in Popped(v) : \A b \in Neighbors(a) : b \in Popped(v) \/ Emitted(b)
      /\ \A a : Emitted(a) => \A b \in Neighbors(a) : Emitted(b)
  BY PoppedClosed DEF v
<1>7. /\ S \in SUBSET items /\ \A x \in S : Neighbors(x) \subseteq S
      /\ E \in SUBSET items /\ \A x \in E : Neighbors(x) \subseteq E
  BY <1>6 DEF Popped, Neighbors
<1>8. ASSUME NEW a \in ClassOf(key) PROVE a \in Popped(v)
  <2>1. Reaches(key, a) /\ Reaches(a, key) /\ key \in S /\ Stacked(key)
    BY <1>8 DEF ClassOf, Popped, v
  <2>2. key \notin E
    BY <2>1, <1>3
  <2> HIDE DEF S, E
  <2>3. a \in S
    BY <2>1, <1>7, ReachesWithin
  <2>4. a \notin E
    BY <2>1, <2>2, <1>7, ReachesWithin
  <2>5. QED
    BY <2>3, <2>4 DEF S
<1>9. QED
  BY <1>5, <1>8 DEF v

(* Popping a component leaves on the stack what lies below the root. *)
LEMMA PoppedStack ==
  ASSUME IInv, Return, low_link'[Top.node] = index_of[Top.node]
  PROVE  /\ sccs' = Append(sccs, Popped(Top.node))
         /\ Len(sccs') = Len(sccs) + 1 /\ Len(sccs) \in Nat
         /\ sccs'[Len(sccs) + 1] = Popped(Top.node)
         /\ \A id \in 1 .. Len(sccs) : sccs'[id] = sccs[id]
         /\ \A a : Stacked(a)' <=> Stacked(a) /\ index_of[a] < index_of[Top.node]
<1> DEFINE m == Len(tarjan_stack)
           v == Top.node
<1>1. PICK p \in DOMAIN tarjan_stack :
         /\ tarjan_stack[p] = v
         /\ sccs' = Append(sccs, {tarjan_stack[i] : i \in p .. m})
         /\ tarjan_stack' = SubSeq(tarjan_stack, 1, p - 1)
  BY DEF Return, PopComponent
<1>2. /\ TypeOK /\ StackInv /\ m \in Nat /\ Len(sccs) \in Nat /\ p \in 1 .. m
      /\ tarjan_stack \in Seq(items) /\ sccs \in Seq(SUBSET items)
  BY <1>1, LenProperties DEF IInv, DfsInv, TypeOK
<1>3. \A i \in 1 .. m : /\ tarjan_stack[i] \in items
                        /\ Stacked(tarjan_stack[i])
                        /\ index_of[tarjan_stack[i]] \in Nat
  <2>1. \A i \in 1 .. m : Stacked(tarjan_stack[i])
    BY DEF Stacked
  <2>2. QED
    BY <2>1, StackKeys
<1>4. \A i, j \in 1 .. m : i < j => index_of[tarjan_stack[i]] < index_of[tarjan_stack[j]]
  BY <1>2 DEF StackInv
<1> HIDE DEF v
<1>5. \A i \in 1 .. m : index_of[v] <= index_of[tarjan_stack[i]] <=> i \in p .. m
  <2>1. SUFFICES ASSUME NEW i \in 1 .. m
                 PROVE  index_of[v] <= index_of[tarjan_stack[i]] <=> i \in p .. m
    OBVIOUS
  <2>2. i < p \/ i = p \/ p < i
    BY <1>2
  <2>3. QED
    BY <2>2, <1>1, <1>2, <1>3, <1>4
<1>6. {tarjan_stack[i] : i \in p .. m} = Popped(v)
  <2>1. \A i \in p .. m : i \in 1 .. m
    BY <1>2
  <2>2. ASSUME NEW a \in Popped(v) PROVE \E i \in p .. m : a = tarjan_stack[i]
    BY <2>2, <1>5 DEF Popped, Stacked
  <2>3. \A i \in p .. m : tarjan_stack[i] \in Popped(v)
    BY <2>1, <1>3, <1>5 DEF Popped
  <2>4. QED
    BY <2>2, <2>3
<1>7. Popped(v) \in SUBSET items
  BY DEF Popped
<1>8. sccs' = Append(sccs, Popped(v))
  BY <1>1, <1>6
<1>9. /\ Len(sccs') = Len(sccs) + 1 /\ sccs'[Len(sccs) + 1] = Popped(v)
      /\ \A id \in 1 .. Len(sccs) : sccs'[id] = sccs[id]
  BY <1>2, <1>7, <1>8
<1>10. /\ Len(tarjan_stack') = p - 1
       /\ \A i \in 1 .. p - 1 : tarjan_stack'[i] = tarjan_stack[i]
  <2>1. p - 1 \in Nat /\ p - 1 <= m
    BY <1>2
  <2>2. QED
    BY <2>1, <1>1, <1>2, PrefixOfSeq
<1>11. \A a : Stacked(a)' <=> Stacked(a) /\ index_of[a] < index_of[v]
  <2>1. \A i \in 1 .. p - 1 : i \in 1 .. m /\ i \notin p .. m
    BY <1>2
  <2>2. \A i \in 1 .. m : i \notin p .. m => i \in 1 .. p - 1
    BY <1>2
  <2>3. index_of[v] \in Nat
    BY <1>1, <1>2, <1>3
  <2>4. \A i \in 1 .. m : index_of[tarjan_stack[i]] < index_of[v] <=> i \in 1 .. p - 1
    BY <2>1, <2>2, <2>3, <1>3, <1>5
  <2>5. \A a : Stacked(a)' <=> \E i \in 1 .. p - 1 : tarjan_stack[i] = a
    BY <1>10 DEF Stacked
  <2>6. QED
    BY <2>1, <2>4, <2>5 DEF Stacked
<1>12. QED
  BY <1>2, <1>8, <1>9, <1>11 DEF v

(* Returning with a component. *)
LEMMA PopSearch ==
  ASSUME IInv, SearchInv, Return, low_link'[Top.node] = index_of[Top.node]
  PROVE  SearchInv'
<1> DEFINE n == Len(work)
           v == Top.node
           k == Len(sccs)
<1>1. UNCHANGED <<input, index_of>> /\ work # <<>> /\ Top.rest = {}
  BY DEF Return, inputVars
<1>2. /\ n \in Nat /\ n > 0 /\ n \in 1 .. n /\ v = work[n].node
      /\ \A i \in 1 .. n - 1 : i \in 1 .. n /\ i < n
      /\ \A i \in 1 .. n : i \in 1 .. n - 1 \/ i = n
  BY <1>1, TopFrame DEF Top
<1>3. Len(work') = n - 1 /\ \A i \in 1 .. n - 1 : work'[i] = work[i]
  BY ReturnFrames
<1>4. /\ \A i \in 1 .. n : work[i].node \in items /\ work[i].node \in DOMAIN index_of
      /\ \A i \in 1 .. n : /\ Stacked(work[i].node)
                           /\ index_of[work[i].node] \in Nat
                           /\ low_link[work[i].node] \in Nat
                           /\ low_link[work[i].node] <= index_of[work[i].node]
      /\ \A i, j \in 1 .. n : i < j => index_of[work[i].node] < index_of[work[j].node]
  BY FrameKeys
<1>5. /\ \A a : Stacked(a) => a \in items /\ a \in DOMAIN index_of
      /\ \A a : Stacked(a) => index_of[a] \in Nat
  BY StackKeys
<1>6. /\ items' = items
      /\ \A a : Neighbors(a)' = Neighbors(a) /\ ClassOf(a)' = ClassOf(a)
      /\ \A a, b : Reaches(a, b)' <=> Reaches(a, b)
  BY <1>1, SameGraph
<1>7. \A a, b : Pending(a, b)' <=> Pending(a, b)
  BY ReturnPending
<1>8. low_link[v] = index_of[v]
  BY ReturnLinks
<1>9. /\ Len(sccs') = k + 1 /\ k \in Nat /\ sccs'[k + 1] = Popped(v)
      /\ \A id \in 1 .. k : sccs'[id] = sccs[id]
      /\ \A a : Stacked(a)' <=> Stacked(a) /\ index_of[a] < index_of[v]
  BY PoppedStack
<1>10. \A id : id \in 1 .. k + 1 <=> id \in 1 .. k \/ id = k + 1
  BY <1>9
<1>11. \A a : Emitted(a)' <=> Emitted(a) \/ a \in Popped(v)
  <2> HIDE DEF k
  <2>1. \A a : Emitted(a)' <=> \E id \in 1 .. k + 1 : a \in sccs'[id]
    BY <1>9 DEF Emitted
  <2>2. \A a : Emitted(a) <=> \E id \in 1 .. k : a \in sccs[id]
    BY DEF Emitted, k
  <2>3. QED
    BY <2>1, <2>2, <1>9, <1>10
<1>12. /\ \A a \in Popped(v) : \A b \in Neighbors(a) : b \in Popped(v) \/ Emitted(b)
       /\ \A a : Emitted(a) => \A b \in Neighbors(a) : Emitted(b)
       /\ \A key \in Popped(v) : Popped(v) = ClassOf(key)
  BY <1>1, <1>8, PoppedClosed, PoppedIsClass
\* No low link of a frame that is left changes.
<1>13. \A i \in 1 .. n - 1 : low_link'[work[i].node] = low_link[work[i].node]
  <2>1. SUFFICES ASSUME NEW i \in 1 .. n - 1
                 PROVE  low_link'[work[i].node] = low_link[work[i].node]
    OBVIOUS
  <2>2. /\ i # n - 1 => low_link'[work[i].node] = low_link[work[i].node]
        /\ i = n - 1 => /\ \/ low_link'[work[i].node] = low_link[work[i].node]
                           \/ low_link'[work[i].node] = low_link[v]
                        /\ low_link'[work[i].node] <= low_link[work[i].node]
    BY ReturnLinks
  <2>3. /\ low_link[work[i].node] \in Nat /\ index_of[work[i].node] \in Nat
        /\ low_link[work[i].node] <= index_of[work[i].node]
        /\ index_of[work[i].node] < index_of[v] /\ index_of[v] \in Nat
    BY <1>2, <1>4
  <2> HIDE DEF n, v
  <2>4. QED
    BY <2>2, <2>3, <1>8
<1> HIDE DEF n, v, k
<1>14. EdgesInv'
  <2>1. \A i \in 1 .. n - 1 : work'[i].rest \subseteq Neighbors(work'[i].node)
    BY <1>2, <1>3 DEF SearchInv, EdgesInv, n
  <2>2. \A a \in items : \A b \in Neighbors(a) : Emitted(a)' => Emitted(b)'
    BY <1>11, <1>12
  <2>3. QED
    BY <2>1, <2>2, <1>1, <1>3, <1>6, <1>7 DEF SearchInv, EdgesInv
<1>15. PathsInv'
  <2>1. \A i \in 1 .. n - 1 : \A b \in items :
           Stacked(b)' /\ index_of[work'[i].node] <= index_of[b] => Reaches(work'[i].node, b)
    BY <1>2, <1>3, <1>9 DEF SearchInv, PathsInv, n
  <2>2. ASSUME NEW a \in items, Stacked(a)'
        PROVE  \E i \in 1 .. n - 1 : /\ index_of[work'[i].node] <= index_of[a]
                                     /\ Reaches(a, work'[i].node)
    <3>1. Stacked(a) /\ index_of[a] < index_of[v]
      BY <2>2, <1>9
    <3>2. PICK i \in 1 .. n : index_of[work[i].node] <= index_of[a] /\ Reaches(a, work[i].node)
      BY <3>1 DEF SearchInv, PathsInv, n
    <3>3. i # n
      BY <3>1, <3>2, <1>2, <1>4, <1>5
    <3>4. i \in 1 .. n - 1
      BY <3>3, <1>2
    <3>5. QED
      BY <3>2, <3>4, <1>3
  <2>3. QED
    BY <2>1, <2>2, <1>1, <1>3, <1>6 DEF PathsInv
<1>16. LowInv'
  <2>1. ASSUME NEW i \in 1 .. n - 1
        PROVE  \E b \in items : /\ Stacked(b)' /\ index_of[b] = low_link'[work'[i].node]
                                /\ Reaches(work'[i].node, b)
    <3>1. PICK b \in items : /\ Stacked(b) /\ index_of[b] = low_link[work[i].node]
                             /\ Reaches(work[i].node, b)
      BY <1>2 DEF SearchInv, LowInv, n
    <3>2. /\ low_link[work[i].node] \in Nat /\ index_of[work[i].node] \in Nat
          /\ low_link[work[i].node] <= index_of[work[i].node]
          /\ index_of[work[i].node] < index_of[v] /\ index_of[v] \in Nat
      BY <1>2, <1>4
    <3>3. index_of[b] < index_of[v]
      BY <3>1, <3>2
    <3>4. QED
      BY <3>1, <3>3, <1>3, <1>9, <1>13
  <2>2. ASSUME NEW i \in 1 .. n - 1, NEW a \in items, NEW b \in Neighbors(a),
               Segment(i, a)', Stacked(b)', ~Pending(a, b)
        PROVE  low_link'[work'[i].node] <= index_of[b]
    <3>1. /\ Stacked(a) /\ index_of[a] < index_of[v]
          /\ index_of[work[i].node] <= index_of[a]
          /\ i < n - 1 => index_of[a] < index_of[work'[i + 1].node]
      BY <2>2, <1>1, <1>3, <1>9 DEF Segment
    <3>2. index_of[a] < index_of[work[i + 1].node]
      <4>1. CASE i = n - 1
        <5>1. i + 1 = n
          BY <4>1, <1>2
        <5>2. QED
          BY <5>1, <3>1, <1>2
      <4>2. CASE i # n - 1
        <5>1. i < n - 1 /\ i + 1 \in 1 .. n - 1
          BY <4>2, <1>2
        <5>2. QED
          BY <5>1, <3>1, <1>3
      <4>3. QED
        BY <4>1, <4>2
    <3>3. Segment(i, a)
      BY <3>1, <3>2 DEF Segment
    <3>4. Stacked(b)
      BY <2>2, <1>9
    <3>5. low_link[work[i].node] <= index_of[b]
      BY <3>3, <3>4, <2>2, <1>2 DEF SearchInv, LowInv, n
    <3>6. QED
      BY <3>5, <1>3, <1>13
  <2>3. QED
    BY <2>1, <2>2, <1>1, <1>3, <1>6, <1>7 DEF LowInv
<1>17. ClassInv'
  <2>1. \A id \in 1 .. k + 1 : \A key \in sccs'[id] : sccs'[id] = ClassOf(key)
    BY <1>9, <1>10, <1>12 DEF SearchInv, ClassInv, k
  <2>2. QED
    BY <2>1, <1>6, <1>9 DEF ClassInv
<1>18. QED
  BY <1>14, <1>15, <1>16, <1>17 DEF SearchInv

LEMMA ReturnSearch == ASSUME IInv, SearchInv, Return PROVE SearchInv'
  BY KeepSearch, PopSearch

(* The steps after the search, and stuttering. *)
LEMMA RestSearch ==
  ASSUME SearchInv, UNCHANGED <<input, dfsVars>> PROVE SearchInv'
<1>1. UNCHANGED <<input, index_of, low_link, tarjan_stack, work, sccs>>
  BY DEF dfsVars
<1>2. /\ items' = items
      /\ \A a : Neighbors(a)' = Neighbors(a) /\ ClassOf(a)' = ClassOf(a)
      /\ \A a, b : Reaches(a, b)' <=> Reaches(a, b)
  BY <1>1, SameGraph
<1>3. /\ \A a : (Stacked(a)' <=> Stacked(a)) /\ (Emitted(a)' <=> Emitted(a))
      /\ \A a, b : Pending(a, b)' <=> Pending(a, b)
      /\ \A i, a : Segment(i, a)' <=> Segment(i, a)
  BY <1>1 DEF Stacked, Emitted, Pending, Segment
<1>4. EdgesInv' /\ PathsInv' /\ LowInv' /\ ClassInv'
  BY <1>1, <1>2, <1>3 DEF SearchInv, EdgesInv, PathsInv, LowInv, ClassInv
<1>5. QED
  BY <1>4 DEF SearchInv

LEMMA InitSearch == Init => SearchInv
  BY DEF Init, SearchInv, EdgesInv, PathsInv, LowInv, ClassInv, EmptyMap, Stacked, Emitted

(* The search invariant holds in every state of every layout. *)
THEOREM SearchInductive == Spec => []SearchInv
<1>1. IInv /\ SearchInv /\ [Next]_vars => SearchInv'
  <2>1. SUFFICES ASSUME IInv, SearchInv, [Next]_vars PROVE SearchInv'
    OBVIOUS
  <2>2. CASE NextRoot \/ TreeEdge \/ SeenEdge \/ Return
    BY <2>1, <2>2, NextRootSearch, TreeEdgeSearch, SeenEdgeSearch, ReturnSearch
  <2>3. CASE Condense \/ Peel \/ Layout \/ UNCHANGED vars
    <3>1. UNCHANGED <<input, dfsVars>>
      BY <2>3 DEF Condense, Peel, Layout, vars, inputVars
    <3>2. QED
      BY <3>1, <2>1, RestSearch
  <2>4. QED
    BY <2>1, <2>2, <2>3 DEF Next
<1>2. QED
  BY InitSearch, <1>1, Inductive, PTL DEF Spec

(* Whatever the graph, every component emitted is one class of mutually     *)
(* dependent items, and when the search ends every item is in one.          *)
THEOREM ComponentsAreClasses == Spec => []SccsAreClasses
<1>1. IInv /\ SearchInv => SccsAreClasses
  <2>1. SUFFICES ASSUME IInv, SearchInv PROVE SccsAreClasses
    OBVIOUS
  <2>2. DOMAIN sccs = 1 .. Len(sccs) /\ sccs \in Seq(SUBSET items)
    BY <2>1, LenProperties DEF IInv, TypeOK
  <2>3. \A id \in DOMAIN sccs : \A key \in sccs[id] : sccs[id] = ClassOf(key)
    BY <2>1, <2>2 DEF SearchInv, ClassInv
  <2>4. ASSUME pc # "dfs" PROVE UNION {sccs[id] : id \in DOMAIN sccs} = items
    <3>1. \A key \in items : \E id \in DOMAIN sccs : key \in sccs[id]
      BY <2>1, <2>4, SccOfItem
    <3>2. \A id \in DOMAIN sccs : sccs[id] \subseteq items
      BY <2>2, ElementOfSeq
    <3>3. QED
      BY <3>1, <3>2
  <2>5. QED
    BY <2>3, <2>4 DEF SccsAreClasses
<1>2. QED
  BY <1>1, Inductive, SearchInductive, PTL

-----------------------------------------------------------------------------
(***************************************************************************)
(* The invariant of the layers: a component is layered right after one it  *)
(* depends on, and one that may go into the next layer depends on the      *)
(* last one, unless that next layer is the first.                          *)
(***************************************************************************)
AfterLatest(id) ==
    IF round_num = 0 THEN SccDeps(id) = {}
    ELSE \E dep \in SccDeps(id) : dep \in DOMAIN layer /\ layer[dep] = round_num - 1

LayeredEarliest(id) ==
    IF SccDeps(id) = {} THEN layer[id] = 0
    ELSE \E dep \in SccDeps(id) : dep \in DOMAIN layer /\ layer[dep] = layer[id] - 1

FiniteInv == \A id \in 1 .. Len(sccs) : IsFiniteSet(sccs[id])

EarliestInv ==
    /\ pc = "dfs" => round_num = 0
    /\ pc # "dfs" =>
        /\ \A id \in remaining : SccDeps(id) \cap remaining = {} => AfterLatest(id)
        /\ \A id \in DOMAIN layer : LayeredEarliest(id)

LayoutInv == FiniteInv /\ EarliestInv /\ WavesAreEarliest /\ CyclesAreReported

(* A component popped is finite. *)
LEMMA PoppedIsFinite ==
  ASSUME IInv, NEW root PROVE IsFiniteSet(Popped(root))
<1> DEFINE m == Len(tarjan_stack)
           T == {a \in items : Stacked(a)}
<1>1. m \in Nat /\ tarjan_stack \in [1 .. m -> items]
  BY LenProperties DEF IInv, TypeOK
<1>2. tarjan_stack \in Surjection(1 .. m, T)
  <2>1. \A i \in 1 .. m : tarjan_stack[i] \in T
    BY <1>1 DEF Stacked
  <2>2. \A a \in T : \E i \in 1 .. m : tarjan_stack[i] = a
    BY DEF Stacked
  <2>3. tarjan_stack \in [1 .. m -> T]
    BY <2>1, <1>1
  <2> HIDE DEF m, T
  <2>4. QED
    BY <2>2, <2>3 DEF Surjection
<1>3. IsFiniteSet(1 .. m)
  BY <1>1, FS_Interval
<1> HIDE DEF m, T
<1>4. IsFiniteSet(T)
  BY <1>2, <1>3, FS_Surjection
<1>5. Popped(root) \in SUBSET T
  BY DEF Popped, T
<1>6. QED
  BY <1>4, <1>5, FS_Subset

(* The steps of the search. *)
LEMMA SearchLayout ==
  ASSUME IInv, LayoutInv, NextRoot \/ TreeEdge \/ SeenEdge \/ Return PROVE LayoutInv'
<1>1. pc = "dfs" /\ pc' = "dfs" /\ round_num' = round_num
  BY DEF NextRoot, TreeEdge, SeenEdge, Return, layerVars
<1>2. EarliestInv' /\ WavesAreEarliest' /\ CyclesAreReported'
  BY <1>1 DEF LayoutInv, EarliestInv, WavesAreEarliest, CyclesAreReported
<1>3. CASE UNCHANGED sccs
  BY <1>2, <1>3 DEF LayoutInv, FiniteInv
<1>4. CASE Return /\ low_link'[Top.node] = index_of[Top.node]
  <2>1. /\ Len(sccs') = Len(sccs) + 1 /\ Len(sccs) \in Nat
        /\ IsFiniteSet(sccs'[Len(sccs) + 1])
        /\ \A id \in 1 .. Len(sccs) : sccs'[id] = sccs[id]
    BY <1>4, PoppedStack, PoppedIsFinite
  <2>2. \A id \in 1 .. Len(sccs) + 1 : id \in 1 .. Len(sccs) \/ id = Len(sccs) + 1
    BY <2>1
  <2>3. FiniteInv'
    BY <2>1, <2>2 DEF LayoutInv, FiniteInv
  <2>4. QED
    BY <2>3, <1>2 DEF LayoutInv
<1>5. UNCHANGED sccs \/ (Return /\ low_link'[Top.node] = index_of[Top.node])
  BY DEF NextRoot, TreeEdge, SeenEdge, Return
<1>6. QED
  BY <1>3, <1>4, <1>5

(* The condensation does not change once the search has ended. *)
LEMMA SameCondensation ==
  ASSUME UNCHANGED <<input, sccs>>
  PROVE  /\ items' = items /\ \A a : ClassOf(a)' = ClassOf(a)
         /\ \A a, b : Adjacent(a, b)' <=> Adjacent(a, b)
         /\ \A id : SccDeps(id)' = SccDeps(id)
<1>1. items' = items /\ \A a : ClassOf(a)' = ClassOf(a)
  BY SameGraph
<1>2. \A a, b : Adjacent(a, b)' <=> Adjacent(a, b)
  BY <1>1 DEF Adjacent
<1>3. \A id : SccDeps(id)' = SccDeps(id)
  BY <1>2 DEF SccDeps
<1>4. QED
  BY <1>1, <1>2, <1>3

LEMMA CondenseLayout == ASSUME IInv, LayoutInv, Condense PROVE LayoutInv'
<1>1. /\ pc = "dfs" /\ pc' = "layers" /\ UNCHANGED <<input, sccs, layer, round_num>>
      /\ remaining' = DOMAIN sccs
  BY DEF Condense, inputVars, dfsVars
<1>2. \A id : SccDeps(id)' = SccDeps(id) /\ SccDeps(id) \subseteq DOMAIN sccs
  BY <1>1, SameCondensation DEF SccDeps
<1>3. round_num' = 0 /\ DOMAIN layer' = {}
  BY <1>1 DEF LayoutInv, EarliestInv, IInv, LayerInv
<1>4. \A id \in remaining' : SccDeps(id)' \cap remaining' = {} => AfterLatest(id)'
  BY <1>1, <1>2, <1>3 DEF AfterLatest
<1>5. FiniteInv' /\ EarliestInv'
  BY <1>1, <1>3, <1>4 DEF LayoutInv, FiniteInv, EarliestInv
<1>6. WavesAreEarliest' /\ CyclesAreReported'
  BY <1>1 DEF WavesAreEarliest, CyclesAreReported
<1>7. QED
  BY <1>5, <1>6 DEF LayoutInv

LEMMA PeelLayout == ASSUME IInv, LayoutInv, Peel PROVE LayoutInv'
<1>1. /\ pc = "layers" /\ pc' = "layers" /\ UNCHANGED <<input, sccs>>
      /\ layer' = [id \in DOMAIN layer \cup frontier |->
                     IF id \in frontier THEN round_num ELSE layer[id]]
      /\ remaining' = remaining \ frontier
      /\ round_num' = round_num + 1
  BY DEF Peel, inputVars, dfsVars
<1>2. \A id : SccDeps(id)' = SccDeps(id) /\ SccDeps(id) \subseteq DOMAIN sccs
  BY <1>1, SameCondensation DEF SccDeps
<1>3. /\ round_num \in Nat /\ remaining \subseteq DOMAIN sccs
      /\ DOMAIN layer = DOMAIN sccs \ remaining
      /\ \A id \in DOMAIN sccs : remaining_deps[id] = SccDeps(id) \cap remaining
      /\ \A id \in DOMAIN layer : layer[id] \in Nat
  BY <1>1 DEF IInv, TypeOK, LayerInv
<1>4. /\ frontier \subseteq remaining
      /\ \A id \in remaining : id \in frontier <=> SccDeps(id) \cap remaining = {}
  BY <1>3 DEF frontier
<1>5. /\ DOMAIN layer' = DOMAIN layer \cup frontier
      /\ \A id \in frontier : layer'[id] = round_num
      /\ \A id \in DOMAIN layer : layer'[id] = layer[id]
  BY <1>1, <1>3, <1>4
<1>6. round_num' # 0 /\ round_num' - 1 = round_num
  BY <1>1, <1>3
<1>7. ASSUME NEW id \in remaining', SccDeps(id) \cap remaining' = {}
      PROVE  AfterLatest(id)'
  <2>1. id \in remaining /\ id \notin frontier
    BY <1>1, <1>7
  <2>2. PICK dep \in SccDeps(id) : dep \in remaining
    BY <2>1, <1>4
  <2>3. dep \in frontier
    BY <2>2, <1>1, <1>7
  <2>4. QED
    BY <2>2, <2>3, <1>2, <1>5, <1>6 DEF AfterLatest
<1>8. ASSUME NEW id \in DOMAIN layer' PROVE LayeredEarliest(id)'
  <2>1. CASE id \in frontier
    <3>1. AfterLatest(id) /\ layer'[id] = round_num
      BY <2>1, <1>1, <1>4, <1>5 DEF LayoutInv, EarliestInv
    <3>2. CASE round_num = 0
      BY <3>1, <3>2, <1>2 DEF AfterLatest, LayeredEarliest
    <3>3. CASE round_num # 0
      <4>1. PICK dep \in SccDeps(id) : dep \in DOMAIN layer /\ layer[dep] = round_num - 1
        BY <3>1, <3>3 DEF AfterLatest
      <4>2. QED
        BY <4>1, <3>1, <1>2, <1>5 DEF LayeredEarliest
    <3>4. QED
      BY <3>2, <3>3
  <2>2. CASE id \in DOMAIN layer
    <3>1. LayeredEarliest(id) /\ layer'[id] = layer[id]
      BY <2>2, <1>1, <1>5 DEF LayoutInv, EarliestInv
    <3>2. CASE SccDeps(id) = {}
      BY <3>1, <3>2, <1>2 DEF LayeredEarliest
    <3>3. CASE SccDeps(id) # {}
      <4>1. PICK dep \in SccDeps(id) : dep \in DOMAIN layer /\ layer[dep] = layer[id] - 1
        BY <3>1, <3>3 DEF LayeredEarliest
      <4>2. QED
        BY <4>1, <3>1, <3>3, <1>2, <1>5 DEF LayeredEarliest
    <3>4. QED
      BY <3>2, <3>3
  <2>3. QED
    BY <2>1, <2>2, <1>5, <1>8
<1>9. FiniteInv' /\ EarliestInv'
  BY <1>1, <1>2, <1>7, <1>8 DEF LayoutInv, FiniteInv, EarliestInv
<1>10. WavesAreEarliest' /\ CyclesAreReported'
  BY <1>1 DEF WavesAreEarliest, CyclesAreReported
<1>11. QED
  BY <1>9, <1>10 DEF LayoutInv

(* After the search the component of an item is its class. *)
LEMMA SccIsClass ==
  ASSUME IInv, SearchInv, pc # "dfs", NEW key \in items
  PROVE  /\ SccOf(key) \in DOMAIN sccs /\ key \in ClassOf(key)
         /\ sccs[SccOf(key)] = ClassOf(key)
         /\ \A id \in DOMAIN sccs : key \in sccs[id] => id = SccOf(key)
<1>1. /\ SccOf(key) \in DOMAIN sccs /\ key \in sccs[SccOf(key)]
      /\ \A id \in DOMAIN sccs : key \in sccs[id] => id = SccOf(key)
  BY SccOfItem
<1>2. DOMAIN sccs = 1 .. Len(sccs)
  BY LenProperties DEF IInv, TypeOK
<1>3. QED
  BY <1>1, <1>2 DEF SearchInv, ClassInv

(* A component is a cycle exactly if it has another item or a self loop. *)
LEMMA CycleOfClass ==
  ASSUME NEW S, IsFiniteSet(S), NEW key \in S
  PROVE  /\ S # {key} => IsCycle(S)
         /\ SelfLoop(key) => IsCycle(S)
         /\ IsCycle(S) => S # {key} \/ SelfLoop(key)
<1>1. Cardinality(S) \in Nat /\ Cardinality(S) # 0 /\ Cardinality({key}) = 1
  BY FS_CardinalityType, FS_EmptySet, FS_Singleton
<1>2. S # {key} => Cardinality(S) # 1
  BY FS_Singleton
<1>3. S # {key} => Cardinality(S) > 1
  BY <1>1, <1>2
<1>4. S = {key} => ~(Cardinality(S) > 1)
  BY <1>1
<1>5. QED
  BY <1>3, <1>4 DEF IsCycle

LEMMA LayoutLayout == ASSUME IInv, SearchInv, LayoutInv, Layout PROVE LayoutInv'
<1>1. /\ pc = "layers" /\ pc' = "done" /\ remaining = {}
      /\ UNCHANGED <<input, sccs, layer, round_num, remaining>>
      /\ wave_index' = [key \in items |-> layer[SccOf(key)]]
      /\ cycles' = {sccs[id] : id \in {i \in DOMAIN sccs : IsCycle(sccs[i])}}
  BY DEF Layout, inputVars, dfsVars, layerVars
<1>2. /\ items' = items /\ \A a : ClassOf(a)' = ClassOf(a)
      /\ \A a, b : Adjacent(a, b)' <=> Adjacent(a, b)
      /\ \A id : SccDeps(id)' = SccDeps(id)
      /\ \A a : SelfLoop(a)' <=> SelfLoop(a)
  BY <1>1, SameCondensation DEF SelfLoop
<1>3. \A key \in items : /\ SccOf(key) \in DOMAIN sccs /\ key \in ClassOf(key)
                          /\ sccs[SccOf(key)] = ClassOf(key)
                          /\ \A id \in DOMAIN sccs : key \in sccs[id] => id = SccOf(key)
  BY <1>1, SccIsClass
<1>4. /\ DOMAIN layer = DOMAIN sccs /\ DOMAIN sccs = 1 .. Len(sccs)
      /\ \A id \in DOMAIN sccs : sccs[id] \subseteq items
      /\ \A id \in DOMAIN layer :
            /\ layer[id] \in Nat /\ LayeredEarliest(id)
            /\ \A dep \in SccDeps(id) : dep \in DOMAIN layer /\ layer[dep] < layer[id]
  <2>1. \A id \in DOMAIN sccs : sccs[id] \subseteq items
    BY ElementOfSeq, LenProperties DEF IInv, TypeOK
  <2>2. DOMAIN sccs = 1 .. Len(sccs)
    BY LenProperties DEF IInv, TypeOK
  <2>3. QED
    BY <2>1, <2>2, <1>1 DEF IInv, TypeOK, LayerInv, LayoutInv, EarliestInv
<1>5. \A key \in items : wave_index'[key] = layer[SccOf(key)]
  BY <1>1
<1>6. WavesAreEarliest'
  <2>1. SUFFICES ASSUME NEW key \in items,
                        NEW deps,
                        deps = {b \in items \ ClassOf(key) : \E a \in ClassOf(key) : Adjacent(a, b)}
                 PROVE  IF deps = {} THEN wave_index'[key] = 0
                        ELSE /\ \A b \in deps : wave_index'[b] < wave_index'[key]
                             /\ \E b \in deps : wave_index'[b] = wave_index'[key] - 1
    BY <1>2 DEF WavesAreEarliest
  <2> DEFINE id == SccOf(key)
  <2>2. id \in DOMAIN sccs /\ sccs[id] = ClassOf(key) /\ wave_index'[key] = layer[id]
    BY <1>3, <1>5
  <2>3. ASSUME NEW b \in deps
        PROVE  b \in items /\ SccOf(b) \in SccDeps(id) /\ wave_index'[b] = layer[SccOf(b)]
    <3>1. PICK a \in ClassOf(key) : Adjacent(a, b)
      BY <2>1, <2>3
    <3>2. b \in items /\ b \notin ClassOf(key)
      BY <2>1, <2>3
    <3>3. SccOf(b) \in DOMAIN sccs /\ b \in sccs[SccOf(b)]
      BY <3>2, <1>3
    <3>4. SccOf(b) # id
      BY <3>2, <3>3, <2>2
    <3>5. SccOf(b) \in SccDeps(id)
      BY <3>1, <3>3, <3>4, <2>2 DEF SccDeps
    <3>6. QED
      BY <3>2, <3>5, <1>5
  <2>4. ASSUME NEW dep \in SccDeps(id)
        PROVE  \E b \in deps : SccOf(b) = dep
    <3>1. PICK a \in sccs[id], b \in sccs[dep] : Adjacent(a, b)
      BY <2>4 DEF SccDeps
    <3>2. dep \in DOMAIN sccs /\ dep # id
      BY <2>4 DEF SccDeps
    <3>3. b \in items /\ SccOf(b) = dep
      BY <3>1, <3>2, <1>3, <1>4
    <3>4. b \notin ClassOf(key)
      BY <3>2, <3>3, <2>2, <1>3
    <3>5. b \in deps
      BY <3>1, <3>3, <3>4, <2>1, <2>2
    <3>6. QED
      BY <3>3, <3>5
  <2>5. LayeredEarliest(id) /\ \A dep \in SccDeps(id) : layer[dep] < layer[id]
    BY <2>2, <1>4
  <2> HIDE DEF id
  <2>6. CASE SccDeps(id) = {}
    <3>1. deps = {} /\ layer[id] = 0
      BY <2>3, <2>5, <2>6 DEF LayeredEarliest
    <3>2. QED
      BY <3>1, <2>2
  <2>7. CASE SccDeps(id) # {}
    <3>1. PICK dep \in SccDeps(id) : layer[dep] = layer[id] - 1
      BY <2>5, <2>7 DEF LayeredEarliest
    <3>2. PICK b \in deps : SccOf(b) = dep
      BY <3>1, <2>4
    <3>3. wave_index'[b] = wave_index'[key] - 1
      BY <3>1, <3>2, <2>2, <2>3
    <3>4. \A other \in deps : wave_index'[other] < wave_index'[key]
      BY <2>2, <2>3, <2>5
    <3>5. QED
      BY <3>2, <3>3, <3>4
  <2>8. QED
    BY <2>6, <2>7
<1>7. CyclesAreReported'
  <2>1. \A id \in DOMAIN sccs : IsFiniteSet(sccs[id])
    BY <1>4 DEF LayoutInv, FiniteInv
  <2>2. ASSUME NEW id \in DOMAIN sccs, IsCycle(sccs[id])
        PROVE  \E key \in items : /\ ClassOf(key) # {key} \/ SelfLoop(key)
                                  /\ sccs[id] = ClassOf(key)
    <3>1. PICK key : key \in sccs[id]
      BY <2>2, FS_EmptySet DEF IsCycle
    <3>2. key \in items /\ sccs[id] = ClassOf(key)
      BY <3>1, <1>3, <1>4
    <3>3. ClassOf(key) # {key} \/ SelfLoop(key)
      BY <3>1, <3>2, <2>1, <2>2, CycleOfClass
    <3>4. QED
      BY <3>2, <3>3
  <2>3. ASSUME NEW key \in items, ClassOf(key) # {key} \/ SelfLoop(key)
        PROVE  \E id \in DOMAIN sccs : IsCycle(sccs[id]) /\ sccs[id] = ClassOf(key)
    <3>1. SccOf(key) \in DOMAIN sccs /\ sccs[SccOf(key)] = ClassOf(key) /\ key \in ClassOf(key)
      BY <1>3
    <3>2. IsFiniteSet(ClassOf(key))
      BY <3>1, <2>1
    <3>3. IsCycle(ClassOf(key))
      BY <3>1, <3>2, <2>3, CycleOfClass
    <3>4. QED
      BY <3>1, <3>3
  <2>4. cycles' = {ClassOf(key) : key \in {k \in items : ClassOf(k) # {k} \/ SelfLoop(k)}}
    <3>1. \A c \in cycles' :
             c \in {ClassOf(key) : key \in {k \in items : ClassOf(k) # {k} \/ SelfLoop(k)}}
      BY <2>2, <1>1
    <3>2. \A c \in {ClassOf(key) : key \in {k \in items : ClassOf(k) # {k} \/ SelfLoop(k)}} :
             c \in cycles'
      BY <2>3, <1>1
    <3>3. QED
      BY <3>1, <3>2
  <2>5. QED
    BY <2>4, <1>2 DEF CyclesAreReported
<1>8. FiniteInv' /\ EarliestInv'
  <2>1. \A id : LayeredEarliest(id)' <=> LayeredEarliest(id)
    BY <1>1, <1>2 DEF LayeredEarliest
  <2>2. QED
    BY <2>1, <1>1 DEF LayoutInv, FiniteInv, EarliestInv
<1>9. QED
  BY <1>6, <1>7, <1>8 DEF LayoutInv

LEMMA InitLayout == Init => LayoutInv
  BY DEF Init, LayoutInv, FiniteInv, EarliestInv, WavesAreEarliest, CyclesAreReported

(* The layout invariant holds in every state of every layout. *)
THEOREM LayoutInductive == Spec => []LayoutInv
<1>1. IInv /\ SearchInv /\ LayoutInv /\ [Next]_vars => LayoutInv'
  <2>1. SUFFICES ASSUME IInv, SearchInv, LayoutInv, [Next]_vars PROVE LayoutInv'
    OBVIOUS
  <2>2. CASE Next
    BY <2>1, <2>2, SearchLayout, CondenseLayout, PeelLayout, LayoutLayout DEF Next
  <2>3. CASE UNCHANGED vars
    <3>1. UNCHANGED <<input, pc, sccs, layer, round_num, remaining, wave_index, cycles>>
      BY <2>3 DEF vars, inputVars, dfsVars, layerVars, outVars
    <3>2. /\ items' = items /\ \A a : ClassOf(a)' = ClassOf(a)
          /\ \A a, b : Adjacent(a, b)' <=> Adjacent(a, b)
          /\ \A id : SccDeps(id)' = SccDeps(id)
          /\ \A a : SelfLoop(a)' <=> SelfLoop(a)
      BY <3>1, SameCondensation DEF SelfLoop
    <3>3. \A id : /\ AfterLatest(id)' <=> AfterLatest(id)
                  /\ LayeredEarliest(id)' <=> LayeredEarliest(id)
      BY <3>1, <3>2 DEF AfterLatest, LayeredEarliest
    <3>4. FiniteInv' /\ EarliestInv'
      BY <2>1, <3>1, <3>2, <3>3 DEF LayoutInv, FiniteInv, EarliestInv
    <3>5. WavesAreEarliest' /\ CyclesAreReported'
      BY <2>1, <3>1, <3>2 DEF LayoutInv, WavesAreEarliest, CyclesAreReported
    <3>6. QED
      BY <3>4, <3>5 DEF LayoutInv
  <2>4. QED
    BY <2>1, <2>2, <2>3
<1>2. QED
  BY InitLayout, <1>1, Inductive, SearchInductive, PTL DEF Spec

(* Whatever the graph, no item could go into an earlier wave: it is in wave *)
(* 0, or in the one right after that of an item outside its cycle that a    *)
(* member of its cycle depends on.                                          *)
THEOREM EarliestWaves == Spec => []WavesAreEarliest
<1>1. LayoutInv => WavesAreEarliest
  BY DEF LayoutInv
<1>2. QED
  BY <1>1, LayoutInductive, PTL

(* Whatever the graph, the cycles reported are those it has, self           *)
(* references included (detect_cycles).                                     *)
THEOREM ReportedCycles == Spec => []CyclesAreReported
<1>1. LayoutInv => CyclesAreReported
  BY DEF LayoutInv
<1>2. QED
  BY <1>1, LayoutInductive, PTL
=============================================================================
