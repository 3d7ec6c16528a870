-------------------------- MODULE DependencyClosure --------------------------
(***************************************************************************)
(* The dependency closure of the migration planner: src/src/nexus/migrate/ *)
(* closure.py, build_closure.                                              *)
(*                                                                         *)
(* A captured record of the source instance is abstracted to what the walk *)
(* reads of it:                                                            *)
(*   key     its natural key (two records may share one)                   *)
(*   scope   its application scope                                         *)
(*   refs    the sys_ids in its reference fields, but for the fields that  *)
(*           refer to a stop-listed table                                  *)
(*   prereq  whether a field refers to a stop-listed table                 *)
(*   parent  the record its co-capture link names (_CO_CAPTURE_RULES), when *)
(*           the two tables are those of a rule                            *)
(*                                                                         *)
(* The worklist is a set here and any of its keys may be walked next: the  *)
(* order of the queue comes from the order of the captured records and of  *)
(* the schema's edges, and the result shall not depend on it.              *)
(***************************************************************************)
EXTENDS NaturalKeys, Integers, FiniteSets

CONSTANTS
    SysIds,     \* sys_ids, ordered as the code orders them
    Scopes,
    Tables,
    NoTable,    \* TableOf of a use-case key, which names no table
    TableOf,    \* the table a natural key names
    NoRecord,   \* no sys_id
    Arguments   \* the arguments of build_closure

Record == [key : Keys, scope : Scopes, refs : SUBSET SysIds, prereq : BOOLEAN,
           parent : SysIds \cup {NoRecord}]
Disposition == {"include", "exclude", "undecided"}

\* selection: the disposition of each curated key; old: the source records
\* by sys_id; grants: the (grantee, target) rows of sys_scope_privilege;
\* drifted: the tables whose access posture differs between the instances.
IsInput(arg) ==
    /\ DOMAIN arg = {"selection", "old", "grants", "drifted"}
    /\ DOMAIN arg.selection \subseteq Keys
    /\ arg.selection \in [DOMAIN arg.selection -> Disposition]
    /\ DOMAIN arg.old \subseteq SysIds
    /\ arg.old \in [DOMAIN arg.old -> Record]
    /\ arg.grants \subseteq Scopes \X Scopes
    /\ arg.drifted \subseteq Tables

ASSUME SysIdsAssumption == SysIds \subseteq Nat /\ NoRecord \notin SysIds
ASSUME TablesAssumption == TableOf \in [Keys -> Tables \cup {NoTable}] /\ NoTable \notin Tables
ASSUME ArgumentsAssumption == \A arg \in Arguments : IsInput(arg)

VARIABLES
    arguments,  \* one of Arguments
    phase,      \* "walk" or "done"
    closure,    \* the items of the plan
    queue, processed, ordering_edges, findings

closureVars == <<arguments, phase, closure, queue, processed, ordering_edges, findings>>

(***************************************************************************)
(* The captured graph                                                      *)
(***************************************************************************)
old == arguments.old
selection == arguments.selection

Seeds == {key \in DOMAIN selection : selection[key] = "include"}

RecordsOf(key) == {id \in DOMAIN old : old[id].key = key}

\* _records_by_key: the smallest sys_id wins, the others are never walked.
IsWinner(id) == id \in DOMAIN old /\ \A other \in RecordsOf(old[id].key) : id <= other
Colliding(key) == \E id, other \in RecordsOf(key) : id # other

HasScopeGrant(grantee, target) == <<grantee, target>> \in arguments.grants

\* The records that a record's reference fields resolve to.
Targets(id) == old[id].refs \cap DOMAIN old
TargetsThat(id, disposition) ==
    {old[t].key : t \in {u \in Targets(id) : /\ old[u].key \in DOMAIN selection
                                            /\ selection[old[u].key] = disposition}}

\* The detail rows that are captured along with a record.
Children(id) == {old[row].key : row \in {r \in DOMAIN old : old[r].parent = id}}

(***************************************************************************)
(* Findings                                                                *)
(***************************************************************************)
Finding(kind, subject, about) == [kind |-> kind, subject_key |-> subject, about |-> about]

CollisionFindings ==
    {Finding("KEY_COLLISION", key, key) : key \in {k \in Keys : Colliding(k)}}

ScopeFindings(key, id) ==
    {Finding("STRANDED_DEPENDENCY", key, old[t].scope) :
        t \in {u \in Targets(id) : /\ old[u].scope # old[id].scope
                                  /\ ~ HasScopeGrant(old[id].scope, old[u].scope)}}

\* Variant: an excluded target raises no finding.
WalkFindings_ExcludeIsSilent(key, id) ==
    (IF old[id].prereq THEN {Finding("DATA_PREREQUISITE", key, key)} ELSE {})
    \cup ScopeFindings(key, id)

\* What walking a record reports; fields and tables are left out of the
\* findings, so that one stands for those of its kind on the same key.
WalkFindings(key, id) ==
    (IF old[id].prereq THEN {Finding("DATA_PREREQUISITE", key, key)} ELSE {})
    \cup ScopeFindings(key, id)
    \cup {Finding("STRANDED_DEPENDENCY", key, target) : target \in TargetsThat(id, "exclude")}

PostureFindings ==
    {Finding("ACCESS_POSTURE_DRIFT", table, table) :
        table \in {TableOf[key] : key \in closure} \cap arguments.drifted}

(***************************************************************************)
(* build_closure                                                           *)
(***************************************************************************)
\* Variant: an excluded target is brought in like an undecided one.
Additions_Excluded(id) ==
    TargetsThat(id, "undecided") \cup TargetsThat(id, "exclude") \cup Children(id)

\* The keys that walking a record brings into the plan, and the edges
\* <<dependent, dependency>> it records.
Additions(id) == TargetsThat(id, "undecided") \cup Children(id)

\* Variant: a target is ordered whatever its disposition.
WalkEdges_AnyTarget(key, id) ==
    ({key} \X {old[t].key : t \in Targets(id)}) \cup (Children(id) \X {key})

WalkEdges(key, id) ==
    ({key} \X (TargetsThat(id, "include") \cup TargetsThat(id, "undecided")))
    \cup (Children(id) \X {key})

ClosureInit ==
    /\ arguments \in Arguments
    /\ phase = "walk"
    /\ closure = Seeds /\ queue = Seeds /\ processed = {}
    /\ ordering_edges = {}
    /\ findings = CollisionFindings

Dequeue(key) == phase = "walk" /\ key \in queue /\ processed' = processed \cup {key}

\* A selected key without a captured record: nothing to walk.
WalkUncaptured(key) ==
    /\ Dequeue(key)
    /\ RecordsOf(key) = {}
    /\ queue' = queue \ {key}
    /\ UNCHANGED <<arguments, phase, closure, ordering_edges, findings>>

\* Variant: what is already in the plan is queued again.
WalkRecord_Requeues(key) ==
    /\ Dequeue(key)
    /\ \E id \in RecordsOf(key) :
          /\ IsWinner(id)
          /\ closure' = closure \cup Additions(id)
          /\ queue' = (queue \ {key}) \cup Additions(id)
          /\ ordering_edges' = ordering_edges \cup WalkEdges(key, id)
          /\ findings' = findings \cup WalkFindings(key, id)
    /\ UNCHANGED <<arguments, phase>>

\* Variant: what is brought in is not walked in its turn.
WalkRecord_NotTransitive(key) ==
    /\ Dequeue(key)
    /\ \E id \in RecordsOf(key) :
          /\ IsWinner(id)
          /\ closure' = closure \cup Additions(id)
          /\ queue' = queue \ {key}
          /\ ordering_edges' = ordering_edges \cup WalkEdges(key, id)
          /\ findings' = findings \cup WalkFindings(key, id)
    /\ UNCHANGED <<arguments, phase>>

WalkRecord(key) ==
    /\ Dequeue(key)
    /\ \E id \in RecordsOf(key) :
          /\ IsWinner(id)
          /\ closure' = closure \cup Additions(id)
          /\ queue' = (queue \ {key}) \cup (Additions(id) \ closure)
          /\ ordering_edges' = ordering_edges \cup WalkEdges(key, id)
          /\ findings' = findings \cup WalkFindings(key, id)
    /\ UNCHANGED <<arguments, phase>>

\* The worklist is empty: the access postures are compared and the result
\* is returned.
Finish ==
    /\ phase = "walk" /\ queue = {}
    /\ phase' = "done"
    /\ findings' = findings \cup PostureFindings
    /\ UNCHANGED <<arguments, closure, queue, processed, ordering_edges>>

ClosureNext == (\E key \in Keys : WalkUncaptured(key) \/ WalkRecord(key)) \/ Finish

ClosureSpec == ClosureInit /\ [][ClosureNext]_closureVars

\* The function runs to its return.
FairClosureSpec == ClosureSpec /\ WF_closureVars(ClosureNext)

-----------------------------------------------------------------------------
(***************************************************************************)
(* Properties                                                              *)
(***************************************************************************)
\* A set of keys holds all that the records it holds bring in.
Closed(S) ==
    \A id \in DOMAIN old : IsWinner(id) /\ old[id].key \in S => Additions(id) \subseteq S

\* Shape of the state; a key of the plan is queued or walked, and walked once
\* (which makes the code's check for a second walk unreachable).
ClosureTypeOK ==
    /\ arguments \in Arguments
    /\ phase \in {"walk", "done"}
    /\ closure \subseteq Keys
    /\ closure = queue \cup processed /\ queue \cap processed = {}
    /\ ordering_edges \subseteq Keys \X Keys
    /\ \A f \in findings : f.subject_key \in Keys \cup Tables

\* The plan is the least set of keys that holds every included key and all
\* that its members bring in, whatever the order of the walk.
ClosureIsLeast ==
    /\ \A S \in SUBSET Keys : Seeds \subseteq S /\ Closed(S) => closure \subseteq S
    /\ phase = "done" => Seeds \subseteq closure /\ Closed(closure)

\* Every ordering edge joins two items of the plan, so that the planner
\* drops none of them.
EdgesWithinPlan == ordering_edges \subseteq closure \X closure

\* No reference of a captured item is lost: its target is ordered before it,
\* or a finding on the item says why not, unless the target is not curated.
\* A record whose key collides is covered by its collision finding only.
ReferencesAreAccounted ==
    phase = "done" =>
        \A id \in DOMAIN old : old[id].key \in closure =>
            \/ Finding("KEY_COLLISION", old[id].key, old[id].key) \in findings
            \/ \A t \in Targets(id) :
                  \/ old[t].key \notin DOMAIN selection
                  \/ <<old[id].key, old[t].key>> \in ordering_edges /\ old[t].key \in closure
                  \/ Finding("STRANDED_DEPENDENCY", old[id].key, old[t].key) \in findings

\* Only the co-capture rule overrides an explicit exclude: an excluded key in
\* the plan is a detail row of an item of the plan and ordered after it.
ExcludedOnlyAsDetail ==
    \A key \in closure \cap DOMAIN selection :
        selection[key] = "exclude" =>
            \E id \in DOMAIN old :
                /\ old[id].key \in processed /\ key \in Children(id)
                /\ <<key, old[id].key>> \in ordering_edges

\* References in a circle do not keep the walk from ending.
ClosureTerminates == <>(phase = "done")
=============================================================================
