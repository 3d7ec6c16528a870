----------------------------- MODULE WavePlanner -----------------------------
(***************************************************************************)
(* The wave builder of the migration planner: src/src/nexus/migrate/       *)
(* planner.py, _compute_layout and the two algorithms it runs.             *)
(*                                                                         *)
(*  - "dfs": _tarjan_sccs, the iterative Tarjan search.  A frame of the    *)
(*    explicit stack `work` is [node, rest]: rest is the set of neighbours *)
(*    from position pos on, and the next one is the least of it, because   *)
(*    the code sorts the neighbours.  The set on_stack always holds the    *)
(*    members of tarjan_stack (the two are updated together).              *)
(*  - "layers": _layer_condensation, Kahn peeling of the condensation.     *)
(*  - "done": the layout is returned; build_waves groups the items by      *)
(*    wave_index, detect_cycles returns cycles.                            *)
(*                                                                         *)
(* A key is a number, so that sorted() is <; an edge is the pair           *)
(* <<dependent, dependency>>.                                              *)
(***************************************************************************)
EXTENDS NaturalKeys, Integers, Sequences, FiniteSets

CONSTANT
    Inputs  \* the [items, edges] arguments to lay out

ASSUME KeysAssumption == Keys \subseteq Nat
ASSUME InputsAssumption ==
    Inputs \subseteq [items : SUBSET Keys, edges : SUBSET (Keys \X Keys)]

VARIABLES
    input,          \* the arguments of _compute_layout
    pc,             \* "dfs", "layers" or "done"
    index_of, low_link, counter, tarjan_stack, work, sccs,
    layer, round_num, remaining, remaining_deps,
    wave_index, cycles

inputVars == <<input>>
dfsVars == <<index_of, low_link, counter, tarjan_stack, work, sccs>>
layerVars == <<layer, round_num, remaining, remaining_deps>>
outVars == <<wave_index, cycles>>
vars == <<inputVars, pc, dfsVars, layerVars, outVars>>

(***************************************************************************)
(* The graph                                                               *)
(***************************************************************************)
items == input.items

\* The adjacency map: edges to unknown items and self loops are skipped.
Adjacent(a, b) == a \in items /\ b \in items /\ a # b /\ <<a, b>> \in input.edges

\* Variant: an edge to an unknown item is followed.
Neighbors_Unknown(key) == {b \in Keys : <<key, b>> \in input.edges /\ b # key}

Neighbors(key) == {b \in items : Adjacent(key, b)}

SelfLoop(key) == <<key, key>> \in input.edges

IsLeast(x, S) == x \in S /\ \A y \in S : x <= y

OnStack == {tarjan_stack[i] : i \in DOMAIN tarjan_stack}

(***************************************************************************)
(* _tarjan_sccs                                                            *)
(***************************************************************************)
Frame(key) == [node |-> key, rest |-> Neighbors(key)]
Top == work[Len(work)]

\* A newly discovered key gets the next index and goes onto the stack.
Put(map, key, value) ==
    [k \in DOMAIN map \cup {key} |-> IF k = key THEN value ELSE map[k]]

Discover(key) ==
    /\ index_of' = Put(index_of, key, counter)
    /\ low_link' = Put(low_link, key, counter)
    /\ counter' = counter + 1
    /\ tarjan_stack' = Append(tarjan_stack, key)

\* The outer loop: the next key, in sorted order, that has no index yet.
NextRoot ==
    /\ pc = "dfs" /\ work = <<>>
    /\ \E root \in Keys :
          /\ IsLeast(root, items \ DOMAIN index_of)
          /\ Discover(root)
          /\ work' = <<Frame(root)>>
    /\ UNCHANGED <<inputVars, pc, sccs, layerVars, outVars>>

\* work[-1] = (node, neighbors, pos + 1)
Advanced(next) == [work EXCEPT ![Len(work)].rest = @ \ {next}]

\* The next neighbour has no index: descend into it.
TreeEdge ==
    /\ pc = "dfs" /\ work # <<>>
    /\ \E next \in Keys :
          /\ IsLeast(next, Top.rest)
          /\ next \notin DOMAIN index_of
          /\ Discover(next)
          /\ work' = Append(Advanced(next), Frame(next))
    /\ UNCHANGED <<inputVars, pc, sccs, layerVars, outVars>>

Lesser(x, y) == IF x <= y THEN x ELSE y

\* Variant: a neighbour counts even when its component has been emitted.
SeenEdge_OffStack ==
    /\ pc = "dfs" /\ work # <<>>
    /\ \E next \in Keys :
          /\ IsLeast(next, Top.rest)
          /\ next \in DOMAIN index_of
          /\ work' = Advanced(next)
          /\ low_link' = [low_link EXCEPT ![Top.node] = Lesser(@, index_of[next])]
    /\ UNCHANGED <<inputVars, pc, index_of, counter, tarjan_stack, sccs, layerVars, outVars>>

\* The next neighbour has an index: it counts only while it is on the stack.
SeenEdge ==
    /\ pc = "dfs" /\ work # <<>>
    /\ \E next \in Keys :
          /\ IsLeast(next, Top.rest)
          /\ next \in DOMAIN index_of
          /\ work' = Advanced(next)
          /\ low_link' = IF next \in OnStack
                         THEN [low_link EXCEPT ![Top.node] = Lesser(@, index_of[next])]
                         ELSE low_link
    /\ UNCHANGED <<inputVars, pc, index_of, counter, tarjan_stack, sccs, layerVars, outVars>>

\* The caller's low link takes the callee's into account.
Returned == SubSeq(work, 1, Len(work) - 1)
PropagateLowLink ==
    IF Returned = <<>> THEN low_link
    ELSE [low_link EXCEPT ![Returned[Len(Returned)].node] = Lesser(@, low_link[Top.node])]

\* The part of the stack from the position of key to the top.
PopComponent(key) ==
    \E p \in DOMAIN tarjan_stack :
        /\ tarjan_stack[p] = key
        /\ sccs' = Append(sccs, {tarjan_stack[i] : i \in p .. Len(tarjan_stack)})
        /\ tarjan_stack' = SubSeq(tarjan_stack, 1, p - 1)

\* All the neighbours of the node are done: return to its caller, and pop a
\* component when the node is the root of one.
Return ==
    /\ pc = "dfs" /\ work # <<>> /\ Top.rest = {}
    /\ work' = Returned
    /\ low_link' = PropagateLowLink
    /\ IF low_link'[Top.node] = index_of[Top.node]
       THEN PopComponent(Top.node)
       ELSE UNCHANGED <<sccs, tarjan_stack>>
    /\ UNCHANGED <<inputVars, pc, index_of, counter, layerVars, outVars>>

(***************************************************************************)
(* _layer_condensation                                                     *)
(***************************************************************************)
\* Variant: the dependents of a component are taken for its dependencies.
SccDeps_Reversed(id) ==
    {dep \in DOMAIN sccs \ {id} : \E a \in sccs[id], b \in sccs[dep] : Adjacent(b, a)}

\* Variant: a component depends on itself.
SccDeps_Self(id) ==
    {dep \in DOMAIN sccs : \E a \in sccs[id], b \in sccs[dep] : Adjacent(a, b)}

\* scc_deps: the other components that some member depends on.
SccDeps(id) ==
    {dep \in DOMAIN sccs \ {id} : \E a \in sccs[id], b \in sccs[dep] : Adjacent(a, b)}

Condense ==
    /\ pc = "dfs" /\ work = <<>> /\ items \subseteq DOMAIN index_of
    /\ pc' = "layers"
    /\ remaining' = DOMAIN sccs
    /\ remaining_deps' = [id \in DOMAIN sccs |-> SccDeps(id)]
    /\ UNCHANGED <<inputVars, dfsVars, layer, round_num, outVars>>

\* Variant: one component a round.
frontier_OneByOne ==
    {id \in remaining : /\ remaining_deps[id] = {}
                        /\ \A other \in remaining : remaining_deps[other] = {} => id <= other}

frontier == {id \in remaining : remaining_deps[id] = {}}

\* One round: the frontier gets the layer, and no longer holds anyone back.
Peel ==
    /\ pc = "layers" /\ frontier # {}
    /\ layer' = [id \in DOMAIN layer \cup frontier |->
                    IF id \in frontier THEN round_num ELSE layer[id]]
    /\ remaining' = remaining \ frontier
    /\ remaining_deps' = [id \in DOMAIN sccs |-> remaining_deps[id] \ frontier]
    /\ round_num' = round_num + 1
    /\ UNCHANGED <<inputVars, pc, dfsVars, outVars>>

(***************************************************************************)
(* The layout: a wave per item and a finding per cycle                     *)
(***************************************************************************)
SccOf(key) == CHOOSE id \in DOMAIN sccs : key \in sccs[id]

\* Variant: an item that depends on itself is no cycle.
IsCycle_NoSelfLoop(members) == Cardinality(members) > 1

IsCycle(members) ==
    Cardinality(members) > 1 \/ \E key \in members : members = {key} /\ SelfLoop(key)

\* With a component left over the lookup in layer raises and nothing is
\* returned, hence the second conjunct.
Layout ==
    /\ pc = "layers" /\ frontier = {}
    /\ remaining = {}
    /\ pc' = "done"
    /\ wave_index' = [key \in items |-> layer[SccOf(key)]]
    /\ cycles' = {sccs[id] : id \in {i \in DOMAIN sccs : IsCycle(sccs[i])}}
    /\ UNCHANGED <<inputVars, dfsVars, layerVars>>

-----------------------------------------------------------------------------
EmptyMap == [k \in {} |-> 0]

Init ==
    /\ input \in Inputs
    /\ pc = "dfs"
    /\ index_of = EmptyMap /\ low_link = EmptyMap /\ counter = 0
    /\ tarjan_stack = <<>> /\ work = <<>> /\ sccs = <<>>
    /\ layer = EmptyMap /\ round_num = 0
    /\ remaining = {} /\ remaining_deps = EmptyMap
    /\ wave_index = EmptyMap /\ cycles = {}

Next == NextRoot \/ TreeEdge \/ SeenEdge \/ Return \/ Condense \/ Peel \/ Layout

Spec == Init /\ [][Next]_vars

\* The function runs to its return: nothing else is scheduled meanwhile.
FairSpec == Spec /\ WF_vars(Next)

-----------------------------------------------------------------------------
(***************************************************************************)
(* Reference definitions                                                   *)
(***************************************************************************)
\* b can be reached from a: it is in every set that holds a and is closed
\* under the edges.
Reaches(a, b) ==
    \A S \in SUBSET items :
        a \in S /\ (\A x \in S : Neighbors(x) \subseteq S) => b \in S

ClassOf(key) == {other \in items : Reaches(key, other) /\ Reaches(other, key)}

SameScc(a, b) == \E id \in DOMAIN sccs : {a, b} \subseteq sccs[id]

(***************************************************************************)
(* Properties                                                              *)
(***************************************************************************)
\* Shape of the state.
TypeOK ==
    /\ input \in Inputs
    /\ pc \in {"dfs", "layers", "done"}
    /\ counter \in Nat
    /\ DOMAIN index_of \subseteq items
    /\ index_of \in [DOMAIN index_of -> Nat]
    /\ low_link \in [DOMAIN index_of -> Nat]
    /\ tarjan_stack \in Seq(items)
    /\ work \in Seq([node : items, rest : SUBSET items])
    /\ sccs \in Seq(SUBSET items)
    /\ round_num \in Nat
    /\ layer \in [DOMAIN layer -> Nat]
    /\ DOMAIN layer \subseteq DOMAIN sccs
    /\ remaining \subseteq DOMAIN sccs
    /\ pc # "dfs" => remaining_deps \in [DOMAIN sccs -> SUBSET DOMAIN sccs]
    /\ pc = "done" => wave_index \in [items -> Nat]
    /\ cycles \subseteq SUBSET items

\* Every component emitted is, at once and for good, exactly one class of
\* mutually dependent items, and every item ends in one.
SccsAreClasses ==
    /\ \A id \in DOMAIN sccs : \A key \in sccs[id] : sccs[id] = ClassOf(key)
    /\ pc # "dfs" => UNION {sccs[id] : id \in DOMAIN sccs} = items

\* An item lands in a strictly later wave than each item it depends on;
\* the members of one cycle share a wave.
WavesRespectEdges ==
    pc = "done" =>
        \A a, b \in items : Adjacent(a, b) =>
            IF SameScc(a, b) THEN wave_index[a] = wave_index[b]
            ELSE wave_index[b] < wave_index[a]

\* The wave is the least one possible: 0 without dependencies outside its
\* cycle, else one more than the greatest wave among them.
WavesAreEarliest ==
    pc = "done" =>
        \A key \in items :
            LET deps == {b \in items \ ClassOf(key) : \E a \in ClassOf(key) : Adjacent(a, b)}
            IN  IF deps = {} THEN wave_index[key] = 0
                ELSE /\ \A b \in deps : wave_index[b] < wave_index[key]
                     /\ \E b \in deps : wave_index[b] = wave_index[key] - 1

\* There is a finding for each cycle of the input, self references included,
\* and for nothing else.
CyclesAreReported ==
    pc = "done" =>
        cycles = {ClassOf(key) : key \in {k \in items : ClassOf(k) # {k} \/ SelfLoop(k)}}

\* The planner returns whatever the graph looks like: the search ends, and
\* the condensation is acyclic, so the peeling never stalls with components
\* left over.
PlannerTerminates == <>(pc = "done")
=============================================================================
