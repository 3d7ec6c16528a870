----------------------------- MODULE Assessment -----------------------------
(***************************************************************************)
(* Rules over a capture: `nexus assess` judges an archive, while captures  *)
(* are pulled, die or are refused, and `nexus apply` puts the template     *)
(* engine between two gates (assessment/, cli/commands_assess.py,          *)
(* cli/commands_apply.py).                                                 *)
(*                                                                         *)
(* A record has one field that rules look at.  The live captures, the job  *)
(* log reader and the engine of the two commands are injected: `wired`     *)
(* says whether they are, as in the tests, or are the default stubs, which *)
(* raise NotImplementedError.  A live capture reads an instance at once.   *)
(***************************************************************************)
EXTENDS ConfigTransport

CONSTANTS
    ValueOf,    \* the field of a record
    AnyValue,   \* a filter that names no value
    AnyTable    \* the scope of a cross-table rule

VARIABLE verdicts   \* history: what the commands that judged something said

assessVars == <<vars, verdicts>>

(***************************************************************************)
(* Constraints, rules and their evaluation                                 *)
(***************************************************************************)
\* filter_records
Filtered(records, constraint) ==
    {r \in records : constraint.filter \in {AnyValue, ValueOf[r]}}

\* RuleConstraint.evaluate; field_equals is field_in of one value
Passes(constraint, records) ==
    LET matched == Filtered(records, constraint)
    IN  CASE constraint.operator = "record_exists" -> matched # {}
          [] constraint.operator = "field_in" ->
                matched # {} /\ \A r \in matched : ValueOf[r] \in constraint.expected
          [] constraint.operator = "count_gte" -> Cardinality(matched) >= constraint.threshold
          [] constraint.operator = "count_lte" -> Cardinality(matched) <= constraint.threshold

\* by_table: a table without a record is not there
Tables(capture) == {TableOf[r] : r \in capture}

RecordsForScope(rule, capture) ==
    {r \in capture : rule.scope \in {AnyTable, TableOf[r]}}

Fails(rule, capture) ==
    LET records == RecordsForScope(rule, capture)
        failed == {c \in rule.constraints : ~ Passes(c, records)}
    IN  IF rule.logic = "AND_ALL" THEN failed # {} ELSE failed = rule.constraints

\* Variant: a rule about a table that was not captured is left out.
Evaluate_Incomplete(rules, capture, phase) ==
    {[rule |-> rule, severity |-> rule.severity] :
        rule \in {r \in rules : /\ r.phase = phase /\ r.required \subseteq Tables(capture)
                                /\ Fails(r, capture)}}

\* evaluate: an uncaptured table is an ERROR of every rule that requires it
Evaluate(rules, capture, phase) ==
    LET mine == {r \in rules : r.phase = phase}
        incomplete == {r \in mine : ~ r.required \subseteq Tables(capture)}
    IN  {[rule |-> r, severity |-> "ERROR"] : r \in incomplete}
        \cup {[rule |-> r, severity |-> r.severity] :
                 r \in {q \in mine \ incomplete : Fails(q, capture)}}

\* _derive_verdict, of a gate that is given a context of its own phase
Verdict(findings, phase) ==
    LET Found(severity) == \E f \in findings : f.severity = severity
    IN  IF Found("ERROR") THEN "ERROR"
        ELSE IF Found("WARNING") /\ phase = "PRE_APPLY" THEN "BLOCK" ELSE "PASS"

\* The three gates keep the rules of their phase.
Gate(rules, capture, phase) ==
    Verdict(Evaluate({r \in rules : r.phase = phase}, capture, phase), phase)

ExitCode(verdict) == CASE verdict = "PASS" -> 0 [] verdict = "BLOCK" -> 2 [] OTHER -> 1

(***************************************************************************)
(* nexus assess                                                            *)
(***************************************************************************)
RulesetsFor(rulesets, name) == {rs \in rulesets : rs.applies \cap {name, "*"} # {}}

RulesOf(rulesets) == UNION {rs.rules : rs \in rulesets}

\* _merge_rulesets: without a rule of the phase, all of them
MergeRulesets(rulesets, phase) ==
    LET mine == {r \in RulesOf(rulesets) : r.phase = phase}
    IN  IF mine # {} THEN mine ELSE RulesOf(rulesets)

\* --for, --job, or neither
Phase(command) ==
    CASE command.for = "template" -> "PRE_APPLY"
      [] command.for = "job"      -> "POST_APPLY"
      [] OTHER                    -> "STANDALONE"

RulesetsOf(command) ==
    IF command.for = "instance" THEN command.rulesets
    ELSE RulesetsFor(command.rulesets, command.name)

Archives == {second \in Seconds : HasManifest(second)}

\* the archive that --archive names, or the one whose manifest is newest
Resolved(command) ==
    IF command.archive # Nothing THEN {command.archive}
    ELSE {s \in Archives : \A other \in Archives : dirs[other].mtime <= dirs[s].mtime}

Judged(command, second) ==
    Gate(MergeRulesets(RulesetsOf(command), Phase(command)), dirs[second].whole, Phase(command))

\* run_assess; the ArchiveCorruptError of a directory without a manifest, or
\* with one that was cut off, is not caught, which ends in 1 as well
AssessCode(command, second) ==
    CASE command.for = "job" /\ command.skip                     -> 0
      [] command.for = "job" /\ ~ command.skip                   -> 1
      [] command.for = "template" /\ RulesetsOf(command) = {}     -> 1
      [] command.for = "instance" /\ command.rulesets = {}       -> 0
      [] OTHER -> IF command.live \/ second \notin Archives \/ ~ Readable(second) THEN 1
                  ELSE ExitCode(Judged(command, second))

Says(verdict) == verdicts' = verdicts \cup {verdict}

\* history: the rows that were on the instance while the archive was pulled,
\* if none came or went, and the tables of which it has some and lost others
\* to an answer of 400 or 404
Truth(second) ==
    IF second \in Archives /\ WrittenOnce(second) THEN dirs[second].truth ELSE Nothing
Torn(second) ==
    IF Truth(second) = Nothing THEN {}
    ELSE Tables(dirs[second].truth \ dirs[second].owed) \cap Tables(dirs[second].whole)

Assess(p) ==
    /\ Starts(p, "assess")
    /\ \E second \in IF Resolved(Command(p)) = {} THEN {Nothing} ELSE Resolved(Command(p)) :
          Says([command |-> Command(p), exit |-> AssessCode(Command(p), second),
                truth |-> Truth(second), torn |-> Torn(second)])
    /\ End(p)
    /\ UNCHANGED <<Elsewhere, Files, sets, history>>

(***************************************************************************)
(* nexus apply                                                             *)
(***************************************************************************)
\* _placeholder_rule: passes when sys_scope was captured
Placeholder(phase) ==
    [phase |-> phase, severity |-> "INFO", scope |-> "sys_scope", required |-> {"sys_scope"},
     logic |-> "AND_ALL",
     constraints |-> {[operator |-> "count_gte", filter |-> AnyValue, threshold |-> 0]}]

\* _merged_ruleset
ApplyRules(command, phase) ==
    LET mine == {r \in RulesOf(RulesetsFor(command.rulesets, command.name)) : r.phase = phase}
    IN  IF mine # {} THEN mine ELSE {Placeholder(phase)}

Refused(verdict, command) == verdict = "ERROR" \/ (verdict = "BLOCK" /\ ~ command.force)

Ends(p, exit, skipped, after) ==
    /\ Says([command |-> Command(p), exit |-> exit, skipped |-> skipped,
             before |-> procs[p].capture, after |-> after, set |-> procs[p].own])
    /\ End(p)

\* run_apply up to the engine: the capture, and what Gate 1 says of it
Gate1(p) ==
    /\ Starts(p, "apply") /\ Command(p).gated
    /\ LET command == Command(p)
           verdict == Gate(ApplyRules(command, "PRE_APPLY"), present, "PRE_APPLY")
       IN  IF ~ command.wired THEN Ends(p, 1, FALSE, Nothing)
           ELSE IF Refused(verdict, command) THEN Ends(p, ExitCode(verdict), FALSE, Nothing)
           ELSE /\ Goes(p, [procs[p] EXCEPT !.at = "go", !.capture = present])
                /\ UNCHANGED verdicts
    /\ UNCHANGED <<Elsewhere, Files, sets, history>>

\* run_apply after the engine, whose failed records it does not look at
Gate2(p) ==
    /\ At(p, "gate 2")
    /\ LET command == Command(p)
       IN  IF command.skip THEN Ends(p, 0, TRUE, Nothing)
           ELSE Ends(p, ExitCode(Gate(ApplyRules(command, "POST_APPLY"), present, "POST_APPLY")),
                     FALSE, present)
    /\ UNCHANGED <<Elsewhere, Files, sets, history>>

\* A capture before a gate raises; what _safe_capture does not catch ends in 1 too.
CaptureFails(p) ==
    /\ left.faults > 0
    /\ \/ Starts(p, "apply") /\ Command(p).gated /\ Command(p).wired
       \/ At(p, "gate 2") /\ ~ Command(p).skip
    /\ left' = [left EXCEPT !.faults = @ - 1]
    /\ Ends(p, 1, FALSE, Nothing)
    /\ UNCHANGED <<clock, present, Files, sets, history>>

-----------------------------------------------------------------------------
AssessInit == Init /\ verdicts = {}

AssessNext ==
    \/ Next /\ UNCHANGED verdicts
    \/ \E p \in Procs : Assess(p) \/ Gate1(p) \/ Gate2(p) \/ CaptureFails(p)

AssessSpec == AssessInit /\ [][AssessNext]_assessVars

-----------------------------------------------------------------------------
\* A failure of this rule does not let the phase end in PASS.
Binding(rule) ==
    rule.severity = "ERROR" \/ (rule.severity = "WARNING" /\ rule.phase = "PRE_APPLY")

Holds(rules, rows) == \A rule \in rules : Binding(rule) => ~ Fails(rule, rows)

RulesAsked(command) == {r \in RulesOf(RulesetsOf(command)) : r.phase = Phase(command)}

\* The tables that a rule looks at among these rows.
LooksAt(rule, rows) == IF rule.scope = AnyTable THEN Tables(rows) ELSE {rule.scope}

\* It names an archive that one pull wrote while no row came or went, and passes.
Trusts(v) ==
    v.command.do = "assess" /\ v.truth # Nothing /\ v.exit = 0 /\ v.command.for # "job"

\* Exit code 0 of `nexus assess` means that every rule it was asked about whose
\* failure counts holds of the instance, not only of the files that were read:
\* of the rows that were there when the pull of the judged archive began,
\* provided none came or went while it read, no other pull wrote into the
\* directory, the rule requires all tables it looks at, and none of them broke
\* off between two pages or in one of several scopes. A table that could not be
\* read, a pull or a file that was cut off never make such a rule pass.
AssessIsEarned(v) ==
    Trusts(v) =>
        Holds({r \in RulesAsked(v.command) : LooksAt(r, v.truth) \subseteq r.required \ v.torn}, v.truth)

\* Exit code 0 of `nexus apply` means that the engine was through with the set
\* it created, that Gate 1 held of the instance before that, or was forced and
\* only warned, and that Gate 2 held after it, or was skipped.
ApplyIsEarned(v) ==
    v.exit = 0 =>
        /\ \E log \in logs : log.set = v.set
        /\ Holds({r \in RulesOf(RulesetsFor(v.command.rulesets, v.command.name)) :
                     /\ r.phase = "PRE_APPLY" /\ (v.command.force => r.severity = "ERROR")}, v.before)
        /\ v.skipped \/ Holds({r \in RulesOf(RulesetsFor(v.command.rulesets, v.command.name)) :
                                   r.phase = "POST_APPLY"}, v.after)

VerdictIsEarned ==
    \A v \in verdicts : IF v.command.do = "assess" THEN AssessIsEarned(v) ELSE ApplyIsEarned(v)
=============================================================================
