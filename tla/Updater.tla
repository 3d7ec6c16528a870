---- MODULE Updater ----
(***************************************************************************)
(* The auto-updater, as several nexus processes of one user run it at      *)
(* once. Before its command every process decides whether to look for a    *)
(* release, takes a file lock without waiting, asks GitHub, touches the    *)
(* marker, downloads, lets pip install, and replaces itself by the new     *)
(* program. A process may be killed anywhere; the pip it started lives on. *)
(*                                                                         *)
(* The source is src/src/nexus/updater/, called by the callback of         *)
(* cli/__init__.py and by the update command of cli/commands_top.py.       *)
(* Versions are numbers, 0 for none. Modelled as on POSIX, where execv     *)
(* closes the lock file and so releases the lock.                          *)
(***************************************************************************)
EXTENDS Integers, FiniteSets

CONSTANTS Procs,
          Worlds,     \* which command each process runs, and the bounds
          Interval,   \* _CHECK_INTERVAL_SECONDS, in ticks
          Nobody      \* no process holds the lock

Commands == {"none", "update", "check-only", "other"}
Release == [tag : Nat, wheel : Nat]

ASSUME IntervalAssumption == Interval \in Nat \ {0}
ASSUME NobodyAssumption == Nobody \notin Procs
ASSUME WorldsAssumption ==
    \A w \in Worlds :
      /\ w.marker \in {-1, 0} /\ w.enabled \in BOOLEAN
      /\ w.commands \in [Procs -> Commands]
      /\ w.release \in Release /\ w.release.tag > 0 /\ w.release.wheel <= w.release.tag

VARIABLES clock,
          marker,     \* mtime of update.last_check, -1 when it is missing
          lock,       \* who holds update.lock
          installed,  \* the installed version of nexus-sn, 0 while pip swaps it
          release,    \* the latest release: its tag and the version of its wheel
          pips,       \* the pip processes that run
          procs,      \* the nexus processes
          left,       \* what may still happen: time, releases, retractions, kills
          history     \* for the properties only

vars == <<clock, marker, lock, installed, release, pips, procs, left, history>>

World == <<clock, installed, release, pips>>

NoInfo == [tag |-> 0, wheel |-> 0]

NewProc(command, enabled) ==
    [at |-> IF command = "none" THEN "done" ELSE "callback", command |-> command, enabled |-> enabled, by |-> "callback",
     current |-> 0, info |-> NoInfo]

Init ==
    \E w \in Worlds :
      /\ clock = 0
      /\ marker = w.marker
      /\ lock = Nobody
      /\ installed = 1
      /\ release = w.release
      /\ pips = {}
      /\ procs = [p \in Procs |-> NewProc(w.commands[p], w.enabled)]
      /\ left = w.left
      /\ history = [killed |-> FALSE, retracted |-> FALSE]

At(p, place) == procs[p].at = place

Goto(p, place) == procs' = [procs EXCEPT ![p].at = place]

Ended(p) == procs[p].at \in {"done", "raised", "killed"}

\* where a process goes on when check_and_maybe_update returns
Return(p) == IF procs[p].by = "callback" THEN "command" ELSE "done"

Same == UNCHANGED <<left, history>>

(***************************************************************************)
(* check_and_maybe_update                                                  *)
(***************************************************************************)
\* an editable install, NEXUS_AUTO_UPDATE=0 and a missing distribution skip it;
\* the version it compares with is read here, before the lock
Begin(p) ==
    /\ At(p, "callback")
    /\ procs' = [procs EXCEPT
         ![p].current = installed,
         ![p].at = IF procs[p].enabled /\ installed # 0 THEN "due" ELSE Return(p)]
    /\ UNCHANGED <<World, marker, lock>> /\ Same

Due == marker = -1 \/ clock - marker >= Interval

\* _should_check_now
ShouldCheck(p) ==
    /\ At(p, "due")
    /\ Goto(p, IF Due THEN "lock" ELSE Return(p))
    /\ UNCHANGED <<World, marker, lock>> /\ Same

\* Variant: the lock is taken from whoever holds it
TryAcquireLock_Steals(p) ==
    /\ At(p, "lock")
    /\ lock' = p
    /\ Goto(p, "fetch")
    /\ UNCHANGED <<World, marker>> /\ Same

\* _try_acquire_lock: without waiting; a full or read-only disk raises
TryAcquireLock(p) ==
    /\ At(p, "lock")
    /\ IF lock = Nobody
       THEN lock' = p /\ Goto(p, "fetch")
       ELSE UNCHANGED lock /\ Goto(p, Return(p))
    /\ UNCHANGED <<World, marker>> /\ Same

\* fetch_latest: the release, or None for every failure
FetchLatest(p) ==
    /\ At(p, "fetch")
    /\ \E info \in {release, NoInfo} :
         procs' = [procs EXCEPT ![p] = [@ EXCEPT !.at = "record", !.info = info]]
    /\ UNCHANGED <<World, marker, lock>> /\ Same

\* a tag that is not a version cannot be compared: it is as good as none
Newer(info, current) == info.wheel # 0 /\ info.tag > current

\* Variant: the lock is given back before the download
RecordCheckAttempt_Unlocks(p) ==
    /\ At(p, "record")
    /\ marker' = clock
    /\ lock' = Nobody
    /\ Goto(p, IF Newer(procs[p].info, procs[p].current) THEN "download" ELSE Return(p))
    /\ UNCHANGED World /\ Same

\* Variant: only a check that finds nothing to do is recorded
RecordCheckAttempt_IfCurrent(p) ==
    /\ At(p, "record")
    /\ IF Newer(procs[p].info, procs[p].current)
       THEN Goto(p, "download") /\ UNCHANGED marker
       ELSE Goto(p, "release") /\ marker' = clock
    /\ UNCHANGED <<World, lock>> /\ Same

\* _record_check_attempt comes before any of the early returns
RecordCheckAttempt(p) ==
    /\ At(p, "record")
    /\ marker' = clock
    /\ Goto(p, IF Newer(procs[p].info, procs[p].current) THEN "download" ELSE "release")
    /\ UNCHANGED <<World, lock>> /\ Same

\* download_wheel and the start of pip, or an UpdaterError that is logged
Download(p) ==
    /\ At(p, "download")
    /\ \/ /\ pips' = pips \cup {[by |-> p, wheel |-> procs[p].info.wheel, removed |-> 0]}
          /\ Goto(p, "install")
       \/ /\ UNCHANGED pips
          /\ Goto(p, "release")
    /\ UNCHANGED <<clock, installed, release, marker, lock>> /\ Same

\* the finally of check_and_maybe_update
ReleaseLock(p) ==
    /\ At(p, "release")
    /\ lock' = Nobody
    /\ Goto(p, Return(p))
    /\ UNCHANGED <<World, marker>> /\ Same

\* _re_exec: the new program starts from its callback, and the lock is free.
\* When execv fails the process goes on with the old one.
ReExec(p) ==
    /\ At(p, "exec")
    /\ \/ /\ procs' = [procs EXCEPT
               ![p] = NewProc(procs[p].command, procs[p].enabled)]
          /\ lock' = Nobody
       \/ Goto(p, "release") /\ UNCHANGED lock
    /\ UNCHANGED <<World, marker>> /\ Same

\* an OSError of the marker, the lock file or the wheel's file is caught by
\* nobody: the finally clause releases the lock and the command is lost
DiskFails(p) ==
    /\ procs[p].at \in {"lock", "record", "download"}
    /\ left.disk > 0
    /\ left' = [left EXCEPT !.disk = @ - 1]
    /\ lock' = IF lock = p THEN Nobody ELSE lock
    /\ Goto(p, "raised")
    /\ UNCHANGED <<World, marker, history>>

\* the command itself: update calls the updater a second time, any other
\* (update --check-only too, which only asks) does its work
RunCommand(p) ==
    /\ At(p, "command")
    /\ procs' = [procs EXCEPT ![p] =
                    IF procs[p].command = "update"
                    THEN [@ EXCEPT !.at = "callback", !.by = "update"]
                    ELSE [@ EXCEPT !.at = "done"]]
    /\ UNCHANGED <<World, marker, lock>> /\ Same

(***************************************************************************)
(* pip, GitHub, the clock and the killer                                   *)
(***************************************************************************)
\* the process that waits for q, if it still does
Waits(q) == procs[q.by].at = "install"

\* pip takes the old version away, then puts the wheel's version in its place
PipRemoves(q) ==
    /\ q \in pips /\ q.removed = 0 /\ installed # 0
    /\ pips' = (pips \ {q}) \cup {[q EXCEPT !.removed = installed]}
    /\ installed' = 0
    /\ UNCHANGED <<clock, release, marker, lock, procs>> /\ Same

PipSucceeds(q) ==
    /\ q \in pips /\ q.removed # 0
    /\ pips' = pips \ {q}
    /\ installed' = q.wheel
    /\ IF Waits(q) THEN Goto(q.by, "exec") ELSE UNCHANGED procs
    /\ UNCHANGED <<clock, release, marker, lock>> /\ Same

\* pip gives up before it changed anything
PipFails(q) ==
    /\ q \in pips /\ q.removed = 0
    /\ pips' = pips \ {q}
    /\ IF Waits(q) THEN Goto(q.by, "release") ELSE UNCHANGED procs
    /\ UNCHANGED <<clock, installed, release, marker, lock>> /\ Same

\* a new release, whose wheel may be missing or carry an older version
Publish ==
    /\ left.releases > 0
    /\ left' = [left EXCEPT !.releases = @ - 1]
    /\ \E wheel \in {release.tag, release.tag + 1, 0} :
         release' = [tag |-> release.tag + 1, wheel |-> wheel]
    /\ UNCHANGED <<clock, installed, pips, marker, lock, procs, history>>

\* the latest release is withdrawn and the one before it is the latest again
Retract ==
    /\ left.retractions > 0 /\ release.tag > 1
    /\ left' = [left EXCEPT !.retractions = @ - 1]
    /\ release' = [tag |-> release.tag - 1, wheel |-> release.tag - 1]
    /\ history' = [history EXCEPT !.retracted = TRUE]
    /\ UNCHANGED <<clock, installed, pips, marker, lock, procs>>

\* a day is longer than a process spends in the updater
Tick ==
    /\ left.time > 0
    /\ \A p \in Procs : procs[p].at \in {"callback", "command"} \/ Ended(p)
    /\ left' = [left EXCEPT !.time = @ - 1]
    /\ clock' = clock + 1
    /\ UNCHANGED <<installed, release, pips, marker, lock, procs, history>>

\* the kernel releases the lock of a dead process; its pip is not killed
Kill(p) ==
    /\ left.kills > 0 /\ ~Ended(p)
    /\ left' = [left EXCEPT !.kills = @ - 1]
    /\ history' = [history EXCEPT !.killed = @ \/ At(p, "install")]
    /\ lock' = IF lock = p THEN Nobody ELSE lock
    /\ Goto(p, "killed")
    /\ UNCHANGED <<World, marker>>

Step(p) ==
    \/ Begin(p) \/ ShouldCheck(p) \/ TryAcquireLock(p) \/ FetchLatest(p)
    \/ RecordCheckAttempt(p) \/ Download(p) \/ ReleaseLock(p) \/ ReExec(p)
    \/ RunCommand(p)

Pip == \E q \in pips : PipRemoves(q) \/ PipSucceeds(q) \/ PipFails(q)

Next ==
    \/ \E p \in Procs : Step(p) \/ DiskFails(p) \/ Kill(p)
    \/ Pip \/ Publish \/ Retract \/ Tick

Spec == Init /\ [][Next]_vars

\* A process that can run does; the requests time out. pip is not waited for
\* with a limit, so that it ends is an assumption about pip.
FairSpec == Spec /\ (\A p \in Procs : WF_vars(Step(p))) /\ WF_vars(Pip)

(***************************************************************************)
(* Properties                                                              *)
(***************************************************************************)
\* Shape of the state.
Places == {"callback", "due", "lock", "fetch", "record", "download", "install", "exec", "release",
           "command", "done", "raised", "killed"}

Process == [at : Places, command : Commands, enabled : BOOLEAN, by : {"callback", "update"},
            current : Nat, info : Release]

TypeOK ==
    /\ clock \in Nat /\ marker \in -1..clock
    /\ lock \in Procs \cup {Nobody}
    /\ installed \in Nat /\ release \in Release
    /\ pips \subseteq [by : Procs, wheel : Nat, removed : Nat]
    /\ procs \in [Procs -> Process]
    /\ history \in [killed : BOOLEAN, retracted : BOOLEAN]

\* Two pips never run at once, unless somebody killed a process that waited for
\* its pip. The lock file has to hold through the whole installation, and must be
\* tried, not only looked at: the decision to check is taken before it. The lock
\* is held by the process that is between taking and releasing it and by no
\* other, whether that one ended, died or replaced itself.
InstallsExclusive ==
    /\ Cardinality(pips) <= 1 \/ history.killed
    /\ \A p \in Procs :
         procs[p].at \in {"fetch", "record", "download", "install", "exec", "release"}
           <=> lock = p

\* The installed version is never replaced by an older one, however stale the
\* version a process compares with has become while another one installed: the
\* release is fetched under the lock. A release that was withdrawn, or a pip left
\* behind by a killed process, is the exception; a wheel that is older than its
\* tag is not taken for a newer one by itself.
VersionNeverFalls ==
    history.retracted \/ history.killed \/ \A q \in pips : q.wheel >= q.removed

\* Whatever the network, pip and the other processes do, every process gets to the
\* end of its command, if it is not killed and the disk does not fail: a release
\* whose wheel is not what its tag says must not make it install and replace itself
\* again and again.
EveryCommandEnds == \A p \in Procs : <>Ended(p)
====
