------------------------- MODULE MCDependencyClosure -------------------------
(***************************************************************************)
(* Instance of DependencyClosure.  Key a is always included and d is a     *)
(* use-case key without a record.  Records 2 and 4 share the key b; record *)
(* 3, key c, is in another scope and may be a detail row of any other      *)
(* record; sys_id 5 is not captured.                                       *)
(***************************************************************************)
EXTENDS DependencyClosure

MCKeys == {"a", "b", "c", "d"}
MCSysIds == 1 .. 5
MCTableOf == [key \in MCKeys |-> CASE key \in {"a", "b"} -> "script"
                                   [] key = "c" -> "role"
                                   [] OTHER -> NoTable]

MCRecord(k, s, r, p, up) ==
    [key |-> k, scope |-> s, refs |-> r, prereq |-> p, parent |-> up]

Olds ==
    {[id \in 1 .. 4 |->
        CASE id = 1 -> MCRecord("a", "x", r1, FALSE, NoRecord)
          [] id = 2 -> MCRecord("b", "x", r2, TRUE, NoRecord)
          [] id = 3 -> MCRecord("c", "y", r3, FALSE, up)
          [] id = 4 -> MCRecord("b", "x", {3}, FALSE, NoRecord)] :
        r1 \in SUBSET {2, 3, 4}, r2 \in SUBSET {1, 3}, r3 \in SUBSET {2, 5},
        up \in {NoRecord, 1, 2, 4}}

Selections ==
    {[key \in S |-> IF key \in {"a", "d"} THEN "include" ELSE d[key]] :
        S \in {{"a", "d"} \cup T : T \in SUBSET {"b", "c"}},
        d \in [{"b", "c"} -> Disposition]}

MCArguments == [selection : Selections, old : Olds, grants : {{}, {<<"x", "y">>}},
             drifted : {{"role"}}]
=============================================================================
