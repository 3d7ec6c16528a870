---- MODULE MCPluginInventories ----
(* Small instances of PluginInventories and of the reports read off them. *)
EXTENDS PluginReports, TLC

CONSTANTS base, app, niche, tool, addon, default, release

On(v) == [version |-> v, active |-> TRUE, used |-> FALSE]
Off(v) == [On(v) EXCEPT !.active = FALSE]
Busy(v) == [On(v) EXCEPT !.used = TRUE]

\* a plugin in both tables, one that depends on it and is in v_plugin and the
\* app manager, one the app manager alone lists; tool and addon need each other
MCListedIn == (base :> {"v_plugin", "sys_store_app"})
              @@ (app :> {"v_plugin", "appmanager"}) @@ (niche :> {"appmanager"})
              @@ [x \in {tool, addon} |-> {"v_plugin"}]
MCDependsOn == (base :> {}) @@ (app :> {base}) @@ (niche :> {})
               @@ (tool :> {base, addon}) @@ (addon :> {app, tool})
MCVendor == [x \in Plugins |-> IF x = app THEN "outsider" ELSE "servicenow"]
MCEol == niche :> [status |-> "end_of_life", past |-> TRUE]
Cve(id, affected) == [id |-> id, severity |-> "critical", affected |-> affected]
MCCves == (base :> {Cve("cve", {1})}) @@ (app :> {Cve("cve", {1, 2})})
          @@ [x \in {niche, tool, addon} |-> {}]
MCListing == <<niche, app, base>>
MCReferences == (base :> {app, tool}) @@ [x \in {app, niche, tool, addon} |-> {}]

\* "active" is also in "inactive"
MCMatches(row, q) ==
    CASE q = "active"   -> TRUE
      [] q = "inactive" -> ~row.active
      [] OTHER          -> row.plugin = q
Place(x) == CHOOSE i \in DOMAIN MCListing : MCListing[i] = x
MCBefore(r, s, column) ==
    CASE column = 1 -> Place(r.plugin) > Place(s.plugin)
      [] column = 2 -> r.version < s.version
      [] OTHER      -> r.active /\ ~s.active

World(b, a, n) == [x \in Plugins |-> CASE x = base -> b [] x = app -> a [] x = niche -> n [] OTHER -> Absent]
Nobody == World(Absent, Absent, Absent)
Pair(s, t) == (Source :> s) @@ (Target :> t)
Budget(scans, changes, faults, edits) ==
    [scans |-> scans, changes |-> changes, faults |-> faults, edits |-> edits, keys |-> 0]
Session(commands, profiles, l, budget) ==
    [commands |-> commands, profiles |-> profiles, plugins |-> {base, app, niche},
     states |-> BOOLEAN, live |-> l, left |-> budget]

\* the plugins that change, or whose records cannot be counted
Among(plugins, s) == [s EXCEPT !.plugins = plugins]

Some == {Absent, Off(1), On(1), Off(2), On(2)}

Promotion(s, t, a, b) ==
    Session({"promote", "change"}, {Source, Target},
            Pair(World(s, a[1], Absent), World(t, a[2], Absent)), b)

MCSessions ==
    \* every difference of one plugin, beside two of another, with one fault
    {Promotion(s, t, a, Budget(4, 0, 1, 0)) :
        s \in Some, t \in Some, a \in {<<On(2), Absent>>, <<On(1), Off(1)>>}}
    \* a change at any moment
    \cup {Among({base}, Promotion(s, Off(1), <<Absent, Absent>>, Budget(4, 1, 0, 0))) :
        s \in {On(1), On(2)}}
    \* drift against two baselines, and upgrades
    \cup {Among({base, niche}, Session({"drift", "change", "upgrade"}, {Target},
             Pair(Nobody, World(On(1), Off(1), n)), Budget(2, 1, 1, 2))) :
        n \in {Absent, On(1)}}
    \* orphans
    \cup {Among({base, app}, Session({"orphans", "change"}, {Target},
             Pair(Nobody, World(b, a, On(1))), Budget(2, 1, 1, 0))) :
        b \in {On(2), Busy(2)}, a \in {On(1), Absent}}
    \* deferrals by two processes
    \cup {Session({"defer", "upgrade"}, {Target},
             Pair(Nobody, World(On(1), On(1), Absent)), Budget(1, 1, 1, 4))}
    \* the list, while an upgrade replaces what it reads
    \cup {[Session({"view", "upgrade"}, {Target}, Pair(Nobody, World(On(1), Off(2), On(1))),
              [Budget(1, 1, 0, 0) EXCEPT !.keys = 5]) EXCEPT !.states = states] :
        states \in {BOOLEAN, {TRUE}}}
    \* the impact of each of five plugins, with a change or a fault
    \cup {Among({tool}, Session({"impact", "orphans", "change"}, {Target},
              Pair(Nobody, [World(Busy(2), On(2), Absent) EXCEPT ![tool] = Busy(1), ![addon] = On(1)]),
              [Budget(1, 1, 1, 0) EXCEPT !.keys = 1]))}
====
