------------------------------ MODULE Preflight ------------------------------
(***************************************************************************)
(* `nexus migrate preflight`: may the plan be executed on the two          *)
(* instances?  Eight rows, three requests to each instance one after the   *)
(* other, while administrators grant, revoke, activate and deactivate      *)
(* (migrate/preflight.py, instances/role_probe.py,                         *)
(* cli/commands_migrate_preflight.py).                                     *)
(*                                                                         *)
(* It is one more command of MigrationPlanning.  It writes no file, and    *)
(* neither its rows nor its exit code hold any other command back.         *)
(***************************************************************************)
EXTENDS MigrationPlanning, Sequences

VARIABLES
    access,     \* what a request of the account meets on each instance
    probing,    \* the rows of the running preflight, and what it is measured by
    shown,      \* the report of the last one that ended
    turns       \* what may still happen: preflights and changes of access

preVars == <<vars, access, probing, shown, turns>>

Item == {"cicd-plugin", "sn-cicd-role", "app-repo-entitlement", "auth-mode"}
PreflightRow == Side \X Item

\* The rows so far, the number of the next request, and the rows that were met
\* at some moment of the preflight and at all of them.
Report == [rows : UNION {[asked -> {"pass", "fail", "unknown"}] : asked \in SUBSET PreflightRow},
           next : 1 .. 7, ever : SUBSET PreflightRow, always : SUBSET PreflightRow]
ASSUME NoReportAssumption == NoFile \notin Report

\* the requests, in their order: the old instance first
Requests ==
    LET Of(s) == <<<<s, "cicd-plugin">>, <<s, "sn-cicd-role">>, <<s, "app-repo-entitlement">>>>
    IN  Of("source") \o Of("target")

\* _auth_mode_for: the registry knows, no instance is asked
AuthMode ==
    [row \in Side \X {"auth-mode"} |-> IF access[row[1]].oauth THEN "pass" ELSE "unknown"]

\* _status_from_table_probe; no answer, a 401, a 404 and a 5xx are all alike
TableStatus(code, on403) == CASE code = 200 -> "pass" [] code = 403 -> on403 [] OTHER -> "unknown"

\* _probe_cicd_plugin, whose one row is there or not, active or not
PluginStatus(s, code) ==
    IF code = 200 /\ ~ access[s].active THEN "fail" ELSE TableStatus(code, "fail")

\* _probe_table_item: a role table that must not be read tells nothing of the
\* role, an application table that must not be read is the answer
Status(row, code) ==
    CASE row[2] = "cicd-plugin"          -> PluginStatus(row[1], code)
      [] row[2] = "sn-cicd-role"         -> TableStatus(code, "unknown")
      [] row[2] = "app-repo-entitlement" -> TableStatus(code, "fail")

\* The rows with one more.
Answered(rows, row, status) ==
    [r \in DOMAIN rows \cup {row} |-> IF r = row THEN status ELSE rows[r]]

\* What each row is about: that the account reads the table, that the plugin
\* it finds there is active, and that the profile is registered with OAuth.
Met(held) ==
    {row \in PreflightRow :
        IF row[2] = "auth-mode" THEN held[row[1]].oauth
        ELSE /\ held[row[1]].code[row[2]] = 200
             /\ row[2] = "cicd-plugin" => held[row[1]].active}

\* Both tokens are acquired before the first request.
BeginPreflight ==
    /\ cmd = Idle /\ turns.preflights > 0
    /\ cmd' = [Idle EXCEPT !.pc = "preflight"]
    /\ turns' = [turns EXCEPT !.preflights = @ - 1]
    /\ probing' = [rows |-> AuthMode, next |-> 1,
                   ever |-> Met(access), always |-> Met(access)]
    /\ shown' = NoFile
    /\ UNCHANGED <<tables, files, vouched, counters, given, access>>

\* run_preflight: the next request; whatever it raises becomes a row
Probe ==
    /\ cmd.pc = "preflight" /\ probing.next <= Len(Requests)
    /\ LET row == Requests[probing.next]
       IN  \E code \in {access[row[1]].code[row[2]], 0} :
              probing' = [probing EXCEPT !.rows = Answered(probing.rows, row, Status(row, code)),
                                         !.next = @ + 1]
    /\ UNCHANGED <<vars, access, shown, turns>>

\* _render_preflight; the command exits 0 whatever the rows say
ShowPreflight ==
    /\ cmd.pc = "preflight" /\ probing.next > Len(Requests)
    /\ cmd' = Idle /\ shown' = probing
    /\ UNCHANGED <<tables, files, vouched, counters, given, access, probing, turns>>

\* An administrator changes what the account may read, or the plugin.
Regrant(s, item, code) ==
    /\ turns.changes > 0 /\ item # "auth-mode"
    /\ turns' = [turns EXCEPT !.changes = @ - 1]
    /\ \/ access' = [access EXCEPT ![s].code[item] = code]
       \/ access' = [access EXCEPT ![s].active = ~ @]
    /\ probing' = IF probing = NoFile THEN NoFile
                  ELSE [probing EXCEPT !.ever = @ \cup Met(access'), !.always = @ \cap Met(access')]
    /\ UNCHANGED <<vars, shown>>

-----------------------------------------------------------------------------
PreInit ==
    /\ \E world \in Worlds :
          /\ InitFrom(world)
          /\ access = world.access /\ turns = world.turns
    /\ probing = NoFile /\ shown = NoFile

PreNext ==
    \/ Next /\ UNCHANGED <<access, probing, shown, turns>>
    \/ BeginPreflight \/ Probe \/ ShowPreflight
    \/ \E s \in Side, item \in Item, code \in {200, 403, 404} : Regrant(s, item, code)

PreSpec == PreInit /\ [][PreNext]_preVars

-----------------------------------------------------------------------------
\* A row that passes was met by its own instance at some moment while the
\* preflight ran, and one that fails was not met all that while; a row about
\* the role or the authentication mode never fails. "All preflight probes
\* returned PASS" vouches for no moment at which all of it was met.
PreflightIsTrue ==
    shown # NoFile =>
        \A row \in PreflightRow :
            /\ shown.rows[row] = "pass" => row \in shown.ever
            /\ shown.rows[row] = "fail" =>
                  row \notin shown.always /\ row[2] \notin {"sn-cicd-role", "auth-mode"}

\* What the two checks of a migration report is true: a recheck without drift
\* (NoDriftMeansUnchanged) and the rows of a preflight (PreflightIsTrue).
ChecksAreTrue == NoDriftMeansUnchanged /\ PreflightIsTrue
=============================================================================
