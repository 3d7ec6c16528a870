-------------------------- MODULE MCConfigTransport --------------------------
(***************************************************************************)
(* Two tables in one scope, three records of the first, one of the second  *)
(* and a row related to the first record, and a record of the first table  *)
(* in another scope; pages of two.                                         *)
(***************************************************************************)
EXTENDS Assessment, TLC

CONSTANTS one, two

MCRows == 1 .. 6
MCParentOf == [row \in MCRows |-> IF row = 5 THEN 1 ELSE 0]
MCStepOf == [row \in MCRows |-> CASE row = 4 -> 2 [] row = 6 -> 3 [] OTHER -> 1]
MCTableOf == [row \in MCRows |-> CASE row = 5 -> "related" [] row = 4 -> "sys_scope" [] OTHER -> "first"]
MCValueOf == [row \in MCRows |-> IF row = 2 THEN "bad" ELSE "good"]
MCTemplateRows == {11, 12}

PullIt == [do |-> "pull"]
PushTo(name) == [do |-> "push", name |-> name]
ApplyIt == [do |-> "apply", name |-> "template", gated |-> FALSE]

Programs(a, b) == (one :> a) @@ (two :> b)
Left(time, changes, completions, faults, crashes) ==
    [time |-> time, changes |-> changes, completions |-> completions,
     faults |-> faults, crashes |-> crashes]

\* an archive from an earlier day
Archive(rows) == [NoDir EXCEPT !.whole = rows, !.manifest = rows, !.mtime = 1, !.owed = rows,
                               !.truth = rows, !.writers = {Nothing}]

World(rows, archive, programs, l) ==
    [present |-> rows, archive |-> archive, programs |-> programs, left |-> l]

(* Rules *)
Rule(phase, severity, scope, required, logic, constraints) ==
    [phase |-> phase, severity |-> severity, scope |-> scope, required |-> required,
     logic |-> logic, constraints |-> constraints]
Exists(filter) == [operator |-> "record_exists", filter |-> filter]
In(expected) == [operator |-> "field_in", filter |-> AnyValue, expected |-> expected]
AtMost(n) == [operator |-> "count_lte", filter |-> AnyValue, threshold |-> n]
AtLeast(n) == [operator |-> "count_gte", filter |-> AnyValue, threshold |-> n]

Ready == {Rule("PRE_APPLY", "WARNING", "first", {"first"}, "AND_ALL", {In({"good"}), AtMost(2)}),
          Rule("PRE_APPLY", "WARNING", AnyTable, {"first", "sys_scope"}, "OR_ANY", {AtLeast(4), Exists("bad")})}
Healthy == {Rule("STANDALONE", "ERROR", "sys_scope", {"sys_scope"}, "AND_ALL", {In({"good"})}),
            Rule("STANDALONE", "ERROR", "first", {"first"}, "AND_ALL", {AtMost(1)}),
            Rule("STANDALONE", "WARNING", "first", {"first"}, "AND_ALL", {AtMost(0)})}
Valid == {Rule("POST_APPLY", "ERROR", "first", {"first"}, "OR_ANY", {AtMost(2), Exists("bad")})}
RulesetA == [applies |-> {"template"}, rules |-> Ready \cup Valid]
RulesetB == [applies |-> {"*"}, rules |-> Healthy]
RulesetC == [applies |-> {"other"}, rules |-> Valid]

AssessIt(for, archive, rulesets) ==
    [do |-> "assess", for |-> for, name |-> "template", archive |-> archive, live |-> FALSE,
     skip |-> FALSE, rulesets |-> rulesets]
Gated(rulesets, force, skip, wired) ==
    [do |-> "apply", name |-> "template", gated |-> TRUE, rulesets |-> rulesets, force |-> force,
     skip |-> skip, wired |-> wired]

Judgements ==
    {AssessIt(for, archive, {RulesetA, RulesetB}) : for \in {"template", "instance"}, archive \in {Nothing, 0}}
    \cup {AssessIt(for, Nothing, {RulesetC}) : for \in {"template", "job"}}
    \cup {AssessIt("instance", Nothing, {}), AssessIt("template", Nothing, {RulesetB})}
    \cup {[AssessIt("job", Nothing, {}) EXCEPT !.skip = TRUE], [AssessIt("instance", 0, {RulesetB}) EXCEPT !.live = TRUE]}

MCWorlds ==
    \* a pull of a source that others change, killed or refused once
    {World(rows, NoDir, Programs(<<PullIt>>, <<>>), l) :
        rows \in {{1, 2, 3, 5}, {1, 3, 4, 5}},
        l \in {Left(0, 2, 0, 1, 0), Left(1, 1, 0, 0, 1)}}
    \* two pulls in one second or in two; a push of what was pulled
    \cup {World({1, 4, 5}, NoDir, Programs(<<PullIt>>, second), Left(1, 0, 0, 0, 1)) :
              second \in {<<PullIt>>, <<PushTo("set"), PushTo("set")>>}}
    \* pushes of one archive, after each other and at once
    \cup {World({}, Archive({1, 2}), programs, Left(0, 0, 1, 2, 1)) :
              programs \in {Programs(<<PushTo("set"), PushTo("set")>>, <<>>),
                            Programs(<<PushTo("set")>>, <<PushTo("set")>>)}}
    \cup {World({}, Archive({1, 2}), Programs(<<PushTo("set")>>, <<PushTo("other")>>),
                Left(0, 0, 0, 1, 0))}
    \* applies of a template
    \cup {World({}, NoDir, programs, Left(1, 0, 1, 1, 1)) :
              programs \in {Programs(<<ApplyIt, ApplyIt>>, <<>>),
                            Programs(<<ApplyIt>>, <<ApplyIt>>)}}
    \* captures judged after they were pulled, and by another process meanwhile
    \cup {World(rows, Archive({1, 4}), Programs(<<PullIt, judge>>, <<judge>>), Left(1, changes, 0, 1, 1)) :
              rows \in {{1, 4}, {1, 2, 3, 4}, {1, 5}, {1, 4, 6}}, judge \in Judgements, changes \in {0, 1}}
    \* applies between their gates, while the instance changes
    \cup {World(rows, NoDir, Programs(<<Gated(rulesets, force, skip, TRUE)>>, <<>>), Left(0, 1, 0, 1, 1)) :
              rows \in {{1, 4}, {1, 3, 4}, {1, 2, 3, 4}, {1, 2}}, force, skip \in BOOLEAN,
              rulesets \in {{RulesetA, RulesetB}, {RulesetC}}}
    \cup {World({1, 4}, NoDir, Programs(<<Gated({RulesetA}, FALSE, FALSE, FALSE)>>, <<ApplyIt>>), Left(0, 0, 0, 0, 0))}
=============================================================================
