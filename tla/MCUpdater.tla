---- MODULE MCUpdater ----
(* Small instances of Updater. *)
EXTENDS Updater, TLC

CONSTANTS one, two, three

Left(time, releases, retractions, kills, disk) ==
    [time |-> time, releases |-> releases, retractions |-> retractions,
     kills |-> kills, disk |-> disk]

Situation(commands, m, bounds) ==
    [commands |-> commands, enabled |-> TRUE, marker |-> m,
     release |-> [tag |-> 2, wheel |-> 2], left |-> bounds]

Runs(a, b, c) == (one :> a) @@ (two :> b) @@ (three :> c)

\* Commands at once on the day of a release, with a next release, a withdrawal,
\* a kill or a full disk; the two commands about updates; three that only race.
MCWorlds ==
    {Situation(Runs("other", "other", "none"), -1, l) :
        l \in {Left(1, 2, 0, 0, 0), Left(0, 1, 1, 0, 0), Left(0, 0, 0, 1, 0), Left(0, 1, 0, 0, 1)}}
    \cup {Situation(Runs("update", "check-only", "none"), m, Left(1, 1, 0, 0, 0)) : m \in {-1, 0}}
    \cup {Situation(Runs("other", "other", "other"), -1, Left(0, 0, 0, 0, 0)),
          [Situation(Runs("other", "update", "none"), -1, Left(0, 0, 0, 0, 0)) EXCEPT !.enabled = FALSE]}
====
