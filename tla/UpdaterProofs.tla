---------------------------- MODULE UpdaterProofs ----------------------------
(***************************************************************************)
(* Theorems about Updater, for any number of processes, every interval,    *)
(* every release and every bound on what may happen.                       *)
(***************************************************************************)
EXTENDS Updater, FiniteSetTheorems, TLAPS

(***************************************************************************)
(* The inductive invariant.  Held: the second part of InstallsExclusive.   *)
(* Sole: a pip is waited for by its process, which holds the lock, so that *)
(* there is no other pip.  Rising: nothing that was installed, or is about *)
(* to be, is above the latest release, and what a holder of the lock has   *)
(* fetched is not below what is installed: only the holder changes that.   *)
(***************************************************************************)
Holding == {"fetch", "record", "download", "install", "exec", "release"}

Held == \A p \in Procs : procs[p].at \in Holding <=> lock = p

Sole == ~ history.killed => \A q \in pips : At(q.by, "install") /\ pips = {q}

\* A later release, whose wheel may carry the version before its tag, is not below v.
Reached(v) == v <= release.tag /\ (release.wheel # 0 => v <= release.wheel)

\* An installation of version v would not be a step back.
Forward(v) == Reached(v) /\ installed <= v

Rising ==
    ~ history.killed /\ ~ history.retracted =>
        /\ release.wheel <= release.tag /\ Reached(installed)
        /\ \A q \in pips : Forward(q.wheel) /\ q.removed <= q.wheel
        /\ \A p \in Procs :
              /\ At(p, "record") => procs[p].info.wheel = 0 \/ Forward(procs[p].info.wheel)
              /\ At(p, "download") => Forward(procs[p].info.wheel)

IInv == TypeOK /\ Held /\ Sole /\ Rising

-----------------------------------------------------------------------------
(* The state keeps its shape. *)
LEMMA InitType == Init => TypeOK
  BY WorldsAssumption DEF Init, TypeOK, NewProc, NoInfo, Release, Commands, Places, Process

LEMMA NextType == TypeOK /\ [Next]_vars => TypeOK'
<1> SUFFICES ASSUME TypeOK, [Next]_vars PROVE TypeOK'
  OBVIOUS
<1> USE DEF TypeOK, Places, Same, World, Goto, At, Process
<1>1. ASSUME NEW p \in Procs, Begin(p) PROVE TypeOK'
  BY <1>1 DEF Begin, Return
<1>2. ASSUME NEW p \in Procs, ShouldCheck(p) PROVE TypeOK'
  BY <1>2 DEF ShouldCheck, Return
<1>3. ASSUME NEW p \in Procs, TryAcquireLock(p) PROVE TypeOK'
  BY <1>3 DEF TryAcquireLock, Return
<1>4. ASSUME NEW p \in Procs, FetchLatest(p) PROVE TypeOK'
  <2>1. PICK info \in Release : procs' = [procs EXCEPT ![p] = [@ EXCEPT !.at = "record", !.info = info]]
    BY <1>4 DEF FetchLatest, NoInfo, Release
  <2>2. procs' \in [Procs -> Process]
    BY ZenonT(60), <2>1
  <2>3. QED
    BY <1>4, <2>2 DEF FetchLatest
<1>5. ASSUME NEW p \in Procs, RecordCheckAttempt(p) PROVE TypeOK'
  BY <1>5 DEF RecordCheckAttempt
<1>6. ASSUME NEW p \in Procs, Download(p) PROVE TypeOK'
  <2>1. procs' \in [Procs -> Process]
    BY <1>6 DEF Download
  <2>2. procs[p].info.wheel \in Nat
    BY DEF Release
  <2>3. pips' \subseteq [by : Procs, wheel : Nat, removed : Nat]
    BY <1>6, <2>2 DEF Download
  <2>4. QED
    BY <1>6, <2>1, <2>3 DEF Download
<1>7. ASSUME NEW p \in Procs, ReleaseLock(p) PROVE TypeOK'
  BY <1>7 DEF ReleaseLock, Return
<1>8. ASSUME NEW p \in Procs, ReExec(p) PROVE TypeOK'
  BY SMTT(60), <1>8 DEF ReExec, NewProc, NoInfo, Release
<1>9. ASSUME NEW p \in Procs, RunCommand(p) PROVE TypeOK'
  <2>1. [procs[p] EXCEPT !.at = "callback", !.by = "update"] \in Process
    OBVIOUS
  <2>2. [procs[p] EXCEPT !.at = "done"] \in Process
    OBVIOUS
  <2>3. procs' \in [Procs -> Process]
    BY <1>9, <2>1, <2>2 DEF RunCommand
  <2>4. QED
    BY <1>9, <2>3 DEF RunCommand
<1>10. ASSUME NEW p \in Procs, DiskFails(p) PROVE TypeOK'
  BY <1>10 DEF DiskFails
<1>11. ASSUME NEW p \in Procs, Kill(p) PROVE TypeOK'
  BY ZenonT(60), <1>11 DEF Kill
<1>12. ASSUME NEW q \in pips, PipRemoves(q) PROVE TypeOK'
  BY <1>12 DEF PipRemoves
<1>13. ASSUME NEW q \in pips, PipSucceeds(q) PROVE TypeOK'
  BY <1>13 DEF PipSucceeds
<1>14. ASSUME NEW q \in pips, PipFails(q) PROVE TypeOK'
  BY <1>14 DEF PipFails
<1>15. CASE Publish
  BY <1>15 DEF Publish, Release
<1>16. CASE Retract
  <2>1. release.tag - 1 \in Nat
    BY <1>16 DEF Retract, Release
  <2>2. release' \in Release
    BY <1>16, <2>1 DEF Retract, Release
  <2>3. QED
    BY <1>16, <2>2 DEF Retract
<1>17. CASE Tick
  BY <1>17 DEF Tick
<1>18. CASE UNCHANGED vars
  BY <1>18 DEF vars
<1>19. QED
  BY <1>1, <1>2, <1>3, <1>4, <1>5, <1>6, <1>7, <1>8, <1>9, <1>10, <1>11, <1>12, <1>13, <1>14,
     <1>15, <1>16, <1>17, <1>18 DEF Next, Step, Pip

-----------------------------------------------------------------------------

LEMMA InitIInv == Init => IInv
<1> SUFFICES ASSUME Init PROVE IInv
  OBVIOUS
<1>1. PICK w \in Worlds :
         /\ release = w.release /\ procs = [p \in Procs |-> NewProc(w.commands[p], w.enabled)]
  BY DEF Init
<1>2. \A p \in Procs : procs[p].at \in {"done", "callback"}
  BY <1>1 DEF NewProc
<1>3. Held /\ Sole
  BY <1>2, NobodyAssumption DEF Init, Held, Holding, Sole
<1>4. Rising
  BY <1>1, <1>2, WorldsAssumption DEF Init, Rising, Reached, At, Release
<1>5. QED
  BY <1>3, <1>4, InitType DEF IInv

(* The lock is held by the process that is between taking and releasing it. *)
LEMMA NextHeld == IInv /\ [Next]_vars => Held'
<1> SUFFICES ASSUME IInv, [Next]_vars PROVE Held'
  OBVIOUS
<1> USE NobodyAssumption DEF Held, Holding, World, Goto, At
<1>a. TypeOK /\ Held
  BY DEF IInv
<1>b. procs \in [Procs -> Process] /\ \A p \in Procs : procs[p] \in Process
  BY <1>a DEF TypeOK
<1>1. ASSUME NEW p \in Procs, Begin(p) \/ ShouldCheck(p) \/ RunCommand(p) PROVE Held'
  <2>1. lock' = lock /\ \A r \in Procs \ {p} : procs'[r] = procs[r]
    BY <1>1, <1>b DEF Begin, ShouldCheck, RunCommand
  <2>2. procs[p].at \notin Holding /\ procs'[p].at \notin Holding
    <3>1. CASE Begin(p) \/ ShouldCheck(p)
      BY <3>1, <1>b DEF Begin, ShouldCheck, Return, Process
    <3>2. CASE RunCommand(p)
      BY <3>2, <1>b DEF RunCommand, Process
    <3>3. QED
      BY <1>1, <3>1, <3>2
  <2>3. QED
    BY <2>1, <2>2, <1>a
<1>2. ASSUME NEW p \in Procs, TryAcquireLock(p) PROVE Held'
  BY <1>2, <1>a, <1>b DEF TryAcquireLock, Return, Process
<1>3. ASSUME NEW p \in Procs, FetchLatest(p) PROVE Held'
  BY <1>3, <1>a, <1>b DEF FetchLatest, Process
<1>4. ASSUME NEW p \in Procs, RecordCheckAttempt(p) \/ Download(p) PROVE Held'
  BY <1>4, <1>a, <1>b DEF RecordCheckAttempt, Download, Process
<1>5. ASSUME NEW p \in Procs, ReleaseLock(p) PROVE Held'
  BY <1>5, <1>a, <1>b DEF ReleaseLock, Return, Process
<1>6. ASSUME NEW p \in Procs, ReExec(p) PROVE Held'
  BY <1>6, <1>a, <1>b DEF ReExec, NewProc, Process
<1>7. ASSUME NEW p \in Procs, DiskFails(p) \/ Kill(p) PROVE Held'
  BY <1>7, <1>a, <1>b DEF DiskFails, Kill, Ended, Process
<1>8. ASSUME NEW q \in pips, PipRemoves(q) \/ PipSucceeds(q) \/ PipFails(q) PROVE Held'
  <2>1. q.by \in Procs
    BY <1>a DEF TypeOK
  <2>2. QED
    BY <1>8, <2>1, <1>a, <1>b DEF PipRemoves, PipSucceeds, PipFails, Waits, Process
<1>9. CASE Publish \/ Retract \/ Tick \/ UNCHANGED vars
  BY <1>9, <1>a DEF Publish, Retract, Tick, vars
<1>10. QED
  BY <1>1, <1>2, <1>3, <1>4, <1>5, <1>6, <1>7, <1>8, <1>9 DEF Next, Step, Pip

(* As long as nobody kills a process that waits for its pip, the pip that runs *)
(* is the one its process waits for.                                           *)
LEMMA NextSole == IInv /\ [Next]_vars => Sole'
<1> SUFFICES ASSUME IInv, [Next]_vars, ~ history'.killed
             PROVE  \A q \in pips' : At(q.by, "install")' /\ pips' = {q}
  BY DEF Sole
<1> USE DEF World, Same, Goto, At
<1>a. TypeOK /\ Held
  BY DEF IInv
<1>b. procs \in [Procs -> Process] /\ \A p \in Procs : procs[p] \in Process
  BY <1>a DEF TypeOK
<1>c. \A q \in pips : q.by \in Procs /\ procs[q.by].at = "install" /\ pips = {q} /\ lock = q.by
  <2>1. ~ history.killed
    BY <1>a DEF Next, Step, Begin, ShouldCheck, TryAcquireLock, FetchLatest, RecordCheckAttempt,
       Download, ReleaseLock, ReExec, RunCommand, DiskFails, Kill, Pip, PipRemoves, PipSucceeds,
       PipFails, Publish, Retract, Tick, vars, TypeOK
  <2>2. QED
    BY <2>1, <1>a DEF IInv, Sole, Held, Holding, TypeOK
<1>1. ASSUME NEW p \in Procs, procs[p].at # "install", pips' = pips,
             \A r \in Procs \ {p} : procs'[r] = procs[r]
      PROVE  \A q \in pips' : At(q.by, "install")' /\ pips' = {q}
  BY <1>1, <1>c
<1>2. ASSUME NEW p \in Procs, \/ Begin(p) \/ ShouldCheck(p) \/ TryAcquireLock(p) \/ FetchLatest(p)
                              \/ RecordCheckAttempt(p) \/ ReleaseLock(p) \/ ReExec(p)
                              \/ RunCommand(p) \/ DiskFails(p)
      PROVE  \A q \in pips' : At(q.by, "install")' /\ pips' = {q}
  <2>1. /\ procs[p].at # "install" /\ pips' = pips
        /\ \A r \in Procs \ {p} : procs'[r] = procs[r]
    BY <1>2, <1>b DEF Begin, ShouldCheck, TryAcquireLock, FetchLatest, RecordCheckAttempt,
       ReleaseLock, ReExec, RunCommand, DiskFails
  <2>2. QED
    BY <2>1, <1>1
<1>3. ASSUME NEW p \in Procs, Kill(p)
      PROVE  \A q \in pips' : At(q.by, "install")' /\ pips' = {q}
  <2>1. /\ procs[p].at # "install" /\ pips' = pips
        /\ \A r \in Procs \ {p} : procs'[r] = procs[r]
    BY <1>3, <1>a, <1>b DEF Kill, TypeOK
  <2>2. QED
    BY <2>1, <1>1
<1>4. ASSUME NEW p \in Procs, Download(p)
      PROVE  \A q \in pips' : At(q.by, "install")' /\ pips' = {q}
  <2>1. lock = p /\ procs[p].at = "download"
    BY <1>4, <1>a DEF Download, Held, Holding
  <2>2. pips = {}
    BY <2>1, <1>c
  <2>3. CASE /\ pips' = pips \cup {[by |-> p, wheel |-> procs[p].info.wheel, removed |-> 0]}
             /\ Goto(p, "install")
    BY <2>2, <2>3, <1>b DEF Process
  <2>4. QED
    BY <2>2, <2>3, <1>4 DEF Download
<1>5. ASSUME NEW q \in pips, PipRemoves(q) \/ PipSucceeds(q) \/ PipFails(q)
      PROVE  \A r \in pips' : At(r.by, "install")' /\ pips' = {r}
  <2>1. pips = {q} /\ procs[q.by].at = "install" /\ q \in [by : Procs, wheel : Nat, removed : Nat]
    BY <1>a, <1>c DEF TypeOK
  <2>2. CASE PipRemoves(q)
    BY <2>1, <2>2 DEF PipRemoves
  <2>3. CASE PipSucceeds(q) \/ PipFails(q)
    BY <2>1, <2>3 DEF PipSucceeds, PipFails
  <2>4. QED
    BY <1>5, <2>2, <2>3
<1>6. CASE Publish \/ Retract \/ Tick \/ UNCHANGED vars
  BY <1>6, <1>c DEF Publish, Retract, Tick, vars
<1>7. QED
  BY <1>2, <1>3, <1>4, <1>5, <1>6 DEF Next, Step, Pip

(* Only the holder of the lock changes what is installed, so that what it has *)
(* fetched stays a step forward until its pip is through.                      *)
LEMMA NextRising == IInv /\ [Next]_vars => Rising'
<1> SUFFICES ASSUME IInv, [Next]_vars, ~ history'.killed, ~ history'.retracted
             PROVE  Rising'
  BY DEF Rising
<1> USE DEF World, Same, Goto, At, Reached, Forward
<1>a. TypeOK /\ Held
  BY DEF IInv
<1>b. procs \in [Procs -> Process] /\ \A p \in Procs : procs[p] \in Process
  BY <1>a DEF TypeOK
<1>c. ~ history.killed /\ ~ history.retracted
  BY <1>a DEF Next, Step, Begin, ShouldCheck, TryAcquireLock, FetchLatest, RecordCheckAttempt,
     Download, ReleaseLock, ReExec, RunCommand, DiskFails, Kill, Pip, PipRemoves, PipSucceeds,
     PipFails, Publish, Retract, Tick, vars, TypeOK
<1>d. /\ release.wheel <= release.tag /\ Reached(installed)
      /\ \A q \in pips : Forward(q.wheel) /\ q.removed <= q.wheel
      /\ \A p \in Procs :
            /\ At(p, "record") => procs[p].info.wheel = 0 \/ Forward(procs[p].info.wheel)
            /\ At(p, "download") => Forward(procs[p].info.wheel)
  BY <1>c DEF IInv, Rising
<1>e. /\ installed \in Nat /\ release.tag \in Nat /\ release.wheel \in Nat
      /\ pips \subseteq [by : Procs, wheel : Nat, removed : Nat]
      /\ \A p \in Procs : procs[p].info.wheel \in Nat
  BY <1>a, <1>b DEF TypeOK, Release, Process
<1>f. \A q \in pips : q.by \in Procs /\ procs[q.by].at = "install" /\ pips = {q} /\ lock = q.by
  BY <1>a, <1>c DEF IInv, Sole, Held, Holding, TypeOK
<1> HIDE DEF Reached, Forward
<1>g. ASSUME UNCHANGED <<installed, release>>
      PROVE  \A v : Reached(v)' = Reached(v) /\ Forward(v)' = Forward(v)
  BY <1>g DEF Reached, Forward
<1>1. ASSUME NEW p \in Procs, UNCHANGED <<installed, release, pips>>,
             \A r \in Procs \ {p} : procs'[r] = procs[r],
             procs'[p].at \notin {"record", "download"}
      PROVE  Rising'
  BY <1>1, <1>d, <1>g DEF Rising
<1>2. ASSUME NEW p \in Procs, \/ Begin(p) \/ ShouldCheck(p) \/ TryAcquireLock(p) \/ ReleaseLock(p)
                              \/ ReExec(p) \/ RunCommand(p) \/ DiskFails(p) \/ Kill(p)
      PROVE  Rising'
  <2>1. UNCHANGED <<installed, release, pips>> /\ \A r \in Procs \ {p} : procs'[r] = procs[r]
    BY <1>2, <1>b DEF Begin, ShouldCheck, TryAcquireLock, ReleaseLock, ReExec, RunCommand,
       DiskFails, Kill
  <2>2. procs'[p].at \notin {"record", "download"}
    <3>1. CASE Begin(p) \/ ShouldCheck(p) \/ TryAcquireLock(p) \/ ReleaseLock(p)
      BY <3>1, <1>b DEF Begin, ShouldCheck, TryAcquireLock, ReleaseLock, Return, Process
    <3>2. CASE ReExec(p) \/ DiskFails(p) \/ Kill(p)
      BY <3>2, <1>b DEF ReExec, DiskFails, Kill, NewProc, Process
    <3>3. CASE RunCommand(p)
      BY <3>3, <1>b DEF RunCommand, Process
    <3>4. QED
      BY <1>2, <3>1, <3>2, <3>3
  <2>3. QED
    BY <2>1, <2>2, <1>1
<1>3. ASSUME NEW p \in Procs, FetchLatest(p) PROVE Rising'
  <2>1. PICK info \in {release, NoInfo} :
           procs' = [procs EXCEPT ![p] = [@ EXCEPT !.at = "record", !.info = info]]
    BY <1>3 DEF FetchLatest
  <2>2. procs'[p].at = "record" /\ procs'[p].info = info
    BY <2>1, <1>b DEF Process
  <2>3. UNCHANGED <<installed, release, pips>> /\ \A r \in Procs \ {p} : procs'[r] = procs[r]
    BY <2>1, <1>3, <1>b DEF FetchLatest
  <2>4. info.wheel = 0 \/ Forward(info.wheel)
    BY <2>1, <1>d, <1>e DEF NoInfo, Forward, Reached
  <2>5. QED
    BY <2>2, <2>3, <2>4, <1>d, <1>g DEF Rising
<1>4. ASSUME NEW p \in Procs, RecordCheckAttempt(p) PROVE Rising'
  <2>1. UNCHANGED <<installed, release, pips>> /\ \A r \in Procs \ {p} : procs'[r] = procs[r]
    BY <1>4, <1>b DEF RecordCheckAttempt
  <2>2. /\ procs'[p].at \in {"download", "release"} /\ procs'[p].info = procs[p].info
        /\ procs'[p].at = "download" => procs[p].info.wheel # 0
    BY <1>4, <1>b DEF RecordCheckAttempt, Newer, Process
  <2>3. procs'[p].at = "download" => Forward(procs'[p].info.wheel)
    BY <2>2, <1>4, <1>d DEF RecordCheckAttempt
  <2>4. QED
    BY <2>1, <2>2, <2>3, <1>d, <1>g DEF Rising
<1>5. ASSUME NEW p \in Procs, Download(p) PROVE Rising'
  <2>1. UNCHANGED <<installed, release>> /\ \A r \in Procs \ {p} : procs'[r] = procs[r]
    BY <1>5, <1>b DEF Download
  <2>2. procs'[p].at \in {"install", "release"}
    BY <1>5, <1>b DEF Download, Process
  <2>3. \A q \in pips' : Forward(q.wheel) /\ q.removed <= q.wheel
    <3>1. Forward(procs[p].info.wheel) /\ 0 <= procs[p].info.wheel
      BY <1>5, <1>d, <1>e DEF Download
    <3>2. QED
      BY <3>1, <1>5, <1>d DEF Download
  <2>4. QED
    BY <2>1, <2>2, <2>3, <1>d, <1>g DEF Rising
<1>6. ASSUME NEW q \in pips, PipRemoves(q) \/ PipSucceeds(q) \/ PipFails(q) PROVE Rising'
  <2>1. /\ pips = {q} /\ q \in [by : Procs, wheel : Nat, removed : Nat] /\ lock = q.by
        /\ Forward(q.wheel) /\ q.removed <= q.wheel /\ release' = release
    BY <1>6, <1>d, <1>e, <1>f DEF PipRemoves, PipSucceeds, PipFails
  <2>2. \A p \in Procs : procs'[p].at \notin {"record", "download"}
    <3>1. \A p \in Procs : procs[p].at \notin {"record", "download"}
      BY <2>1, <1>a, <1>f DEF Held, Holding
    <3>2. QED
      BY <3>1, <1>6, <1>b DEF PipRemoves, PipSucceeds, PipFails, Waits, Process
  <2>3. CASE PipRemoves(q)
    <3>1. installed' = 0 /\ pips' = {[q EXCEPT !.removed = installed]}
      BY <2>1, <2>3 DEF PipRemoves
    <3>2. [q EXCEPT !.removed = installed].wheel = q.wheel
          /\ [q EXCEPT !.removed = installed].removed = installed
      BY <2>1
    <3>3. QED
      BY <2>1, <2>2, <3>1, <3>2, <1>d, <1>e DEF Rising, Forward, Reached
  <2>4. CASE PipSucceeds(q)
    <3>1. installed' = q.wheel /\ pips' = {}
      BY <2>1, <2>4 DEF PipSucceeds
    <3>2. QED
      BY <2>1, <2>2, <3>1, <1>d DEF Rising, Forward, Reached
  <2>5. CASE PipFails(q)
    <3>1. installed' = installed /\ pips' = {}
      BY <2>1, <2>5 DEF PipFails
    <3>2. QED
      BY <2>1, <2>2, <3>1, <1>d DEF Rising, Reached
  <2>6. QED
    BY <1>6, <2>3, <2>4, <2>5
<1>7. CASE Publish
  <2>1. /\ UNCHANGED <<installed, pips, procs>> /\ release'.tag = release.tag + 1
        /\ release'.wheel \in {release.tag, release.tag + 1, 0}
    BY <1>7 DEF Publish
  <2>2. release'.wheel <= release'.tag
    BY <2>1, <1>e
  <2>3. ASSUME NEW v \in Nat, Reached(v) PROVE Reached(v)'
    BY <2>1, <2>3, <1>e DEF Reached
  <2>4. ASSUME NEW v \in Nat, Forward(v) PROVE Forward(v)'
    BY <2>1, <2>3, <2>4 DEF Forward
  <2>5. QED
    BY <2>1, <2>2, <2>3, <2>4, <1>d, <1>e DEF Rising
<1>8. CASE Tick \/ UNCHANGED vars
  BY <1>8, <1>d, <1>g DEF Rising, Tick, vars
<1>9. CASE Retract
  BY <1>9, <1>a DEF Retract, TypeOK
<1>10. QED
  BY <1>2, <1>3, <1>4, <1>5, <1>6, <1>7, <1>8, <1>9 DEF Next, Step, Pip

-----------------------------------------------------------------------------
(* The invariant holds whatever the network, pip, the clock, the disk, the   *)
(* killer and the other processes do.                                         *)
THEOREM Inductive == Spec => []IInv
<1>1. IInv /\ [Next]_vars => IInv'
  BY NextType, NextHeld, NextSole, NextRising DEF IInv
<1>2. QED
  BY InitIInv, <1>1, PTL DEF Spec

(* The variables of the updater keep their types.                             *)
THEOREM TypeCorrect == Spec => []TypeOK
<1>1. IInv => TypeOK
  BY DEF IInv
<1>2. QED
  BY <1>1, Inductive, PTL

(* However many processes start at once, the lock file admits one pip, and    *)
(* the lock is held from before the request to the end of the installation by *)
(* one process (runner.py, _try_acquire_lock and the finally clause).         *)
THEOREM Exclusive == Spec => []InstallsExclusive
<1>1. IInv => InstallsExclusive
  <2>1. SUFFICES ASSUME IInv PROVE Cardinality(pips) <= 1 \/ history.killed
    BY DEF IInv, Held, Holding, InstallsExclusive
  <2>2. CASE pips = {}
    BY <2>2, FS_EmptySet
  <2>3. ASSUME NEW q \in pips, ~ history.killed PROVE Cardinality(pips) = 1
    <3>1. pips = {q}
      BY <2>1, <2>3 DEF IInv, Sole
    <3>2. QED
      BY <3>1, FS_Singleton
  <2>4. QED
    BY <2>2, <2>3
<1>2. QED
  BY <1>1, Inductive, PTL

(* No installation is a step back, whatever version a process read before it  *)
(* had the lock: neither its comparison nor the tag is needed for that, only   *)
(* that the release is fetched by the holder (runner.py, fetch_latest).        *)
THEOREM NeverFalls == Spec => []VersionNeverFalls
<1>1. IInv => VersionNeverFalls
  <2>1. SUFFICES ASSUME IInv, ~ history.killed, ~ history.retracted, NEW q \in pips
                 PROVE  q.wheel >= q.removed
    BY DEF VersionNeverFalls
  <2>2. q.removed <= q.wheel /\ q.wheel \in Nat /\ q.removed \in Nat
    BY <2>1 DEF IInv, Rising, TypeOK
  <2>3. QED
    BY <2>2
<1>2. QED
  BY <1>1, Inductive, PTL
=============================================================================
