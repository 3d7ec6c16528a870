------------------------- MODULE MCMigrationPlanning -------------------------
(***************************************************************************)
(* Two artifacts of a customer's application that share a natural key and  *)
(* one artifact of the global scope that they refer to.  The preflight     *)
(* meets changes and refusals of its own, in worlds where nothing else     *)
(* happens.                                                                *)
(***************************************************************************)
EXTENDS Preflight

MCIds == {1, 2, 3}
MCKeys == {"rule", "flow"}
MCTables == {"acl", "flows"}
MCKeyOf == [id \in MCIds |-> IF id = 3 THEN "flow" ELSE "rule"]
MCScopeOf == [rule |-> "x_app", flow |-> "global"]
MCTableOf == [rule |-> "acl", flow |-> "flows"]
MCReferences == {<<"rule", "flow">>}

Rows(ids, others) == [id \in ids \cup others |-> [stamp |-> 0, custom |-> id \in ids]]

\* the target has been begun, or holds the application as it was delivered
Begun == [source |-> Rows({1, 2, 3}, {}), target |-> Rows({1}, {3})]
Delivered == [source |-> Rows({1, 3}, {2}), target |-> Rows({3}, {1})]

\* every table but the plugins' answers 200
Access(code, active, oauth) ==
    [code |-> [item \in Item \ {"auth-mode"} |-> IF item = "cicd-plugin" THEN code ELSE 200],
     active |-> active, oauth |-> oauth]

\* with so many changes, failed counts, plans and marks to come
Start(held, chosen, changes, failing, plans, marks) ==
    [tables |-> held, selection |-> chosen,
     edits |-> MaxEdits - changes, failures |-> MaxFailures - failing,
     written |-> MaxPlans - plans, marked |-> MaxMarks - marks,
     access |-> [s \in Side |-> Access(200, TRUE, TRUE)], turns |-> [preflights |-> 0, changes |-> 0]]

Decided(flow) == [rule |-> "include", flow |-> flow]

MCWorlds ==
    \* the whole way, nothing changes
    {Start(Begun, NoFile, 0, 0, 1, 1)}
    \* a selection is decided: an instance changes, a count fails, or the plan
    \* is made twice and marked
    \cup {Start(Begun, Decided("undecided"), 1, 0, 1, 0),
          Start(Delivered, Decided("exclude"), 1, 0, 1, 1),
          Start(Begun, Decided("undecided"), 0, 1, 1, 0),
          Start(Begun, Decided("exclude"), 0, 0, 2, 3)}
    \* two preflights, of empty instances that fulfil everything and of one that does not
    \cup {[Start([s \in Side |-> Rows({}, {})], NoFile, 0, 0, 0, 0) EXCEPT
              !.access.target = Access(code, active, active),
              !.turns = [preflights |-> 2, changes |-> 1]] :
              code \in {200, 403}, active \in BOOLEAN}
=============================================================================
