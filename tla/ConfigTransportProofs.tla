------------------------ MODULE ConfigTransportProofs ------------------------
(***************************************************************************)
(* Theorems about ConfigTransport and Assessment, for every set of         *)
(* processes, every source, archive and program, and every page size.      *)
(***************************************************************************)
EXTENDS Assessment, FiniteSetTheorems, SequenceTheorems, TLAPS

(***************************************************************************)
(* What a process has, where it is.                                        *)
(***************************************************************************)
Writing == {"look up", "create", "create own", "inject", "unwind"}

Fits(me) ==
    /\ me.at # "idle" => me.todo # <<>>
    /\ me.at = "idle" => me = [IdleProc EXCEPT !.todo = me.todo]
    /\ me.at \in {"fetch", "write"} => me.rows \subseteq Rows
    /\ me.at = "write" => me.pending \subseteq me.rows
    /\ me.at \in {"go", "create own", "gate 2"} => Head(me.todo).do = "apply"
    /\ me.at \in Writing =>
          /\ me.name \in Names /\ me.pending \subseteq me.rows
          /\ \/ Head(me.todo).do = "apply" /\ Len(me.name) = 2
             \/ Head(me.todo).do = "push" /\ Len(me.name) = 1
    /\ me.at \in {"look up", "create", "create own"} => me.pending = me.rows
    /\ me.at = "unwind" => me.failed \in me.rows

Placed == \A p \in Procs : Fits(procs[p]) /\ (At(p, "write") => procs[p].second <= clock)

(***************************************************************************)
(* Update sets                                                             *)
(***************************************************************************)
\* Nobody went for this name together with another.
Calm(name) == name \notin history.clash

SetsKnown ==
    /\ \A n \in DOMAIN sets :
          /\ sets[n].state # "in progress" => sets[n].name \in history.closed
          /\ Len(sets[n].name) = 2 => sets[n].name \in history.begun
    /\ \A p \in Procs :
          /\ procs[p].at \in Writing /\ Applies(p) => procs[p].name \in history.begun
          /\ procs[p].at \in {"inject", "unwind"} =>
                procs[p].set \in DOMAIN sets /\ sets[procs[p].set].name = procs[p].name
          /\ procs[p].at \in Writing \ {"create own"} /\ Applies(p) =>
                procs[p].own \in DOMAIN sets /\ sets[procs[p].own].name = procs[p].name

\* An apply has its name for itself.
Unshared ==
    \A p, q \in Procs :
        /\ p # q /\ procs[p].at \in Writing /\ procs[q].at \in Writing
        /\ Applies(p) /\ Calm(procs[p].name)
        => procs[q].name # procs[p].name

\* Who is about to create a set is alone and would find none.
Fresh ==
    \A p \in Procs : At(p, "create own") /\ Calm(procs[p].name) =>
        \A n \in DOMAIN sets : sets[n].name # procs[p].name

Alone ==
    \A p \in Procs : At(p, "create") /\ Calm(procs[p].name) =>
        /\ \A n \in DOMAIN sets : sets[n].name = procs[p].name => sets[n].state # "in progress"
        /\ \A q \in Procs \ {p} : At(q, "create") => procs[q].name # procs[p].name

\* What a process has sent is in its set, which is its own unless that was completed.
Sent ==
    \A p \in Procs : At(p, "inject") =>
        /\ \A item \in procs[p].rows \ procs[p].pending : sets[procs[p].set].entries[item] > 0
        /\ Applies(p) => \/ procs[p].set = procs[p].own
                         \/ procs[p].name \in history.clash \cup history.closed
Logged ==
    /\ \A report \in history.reports : report.set \in DOMAIN sets
    /\ \A log \in logs : log.set \in DOMAIN sets

SetsInv == SetsKnown /\ Unshared /\ Fresh /\ Alone /\ Sent /\ Logged /\ OneSetPerName /\ ReportedSetHoldsAll

(***************************************************************************)
(* Archives                                                                *)
(***************************************************************************)
Rank(rows, row) == Cardinality({other \in rows : other < row})

\* The rows that the queries before this one have asked for.
Behind(p) ==
    {row \in Rows : \/ StepOf[row] < procs[p].step
                    \/ StepOf[row] = procs[p].step /\ procs[p].related /\ ParentOf[row] = NoParent}

Reading(p) ==
    /\ procs[p].owed \subseteq present
    /\ \A row \in procs[p].owed : ParentOf[row] \in procs[p].owed \cup {NoParent}
    /\ procs[p].owed \cap Behind(p) \subseteq procs[p].rows
    /\ procs[p].page \subseteq procs[p].rows
    /\ \A row \in procs[p].owed \cap Asked(p) :
          row \notin procs[p].page => Rank(Matching(p), row) >= procs[p].offset
    /\ IF procs[p].related
       THEN /\ {row \in procs[p].owed : ParentOf[row] = NoParent /\ StepOf[row] = procs[p].step} \subseteq procs[p].roots
            /\ \A row \in procs[p].roots : ParentOf[row] = NoParent /\ StepOf[row] = procs[p].step
       ELSE procs[p].page \subseteq Asked(p)

Written(p) ==
    /\ procs[p].owed \subseteq procs[p].rows
    /\ dirs[procs[p].second].writers \subseteq {ThisPull(p)} =>
          procs[p].rows \ procs[p].pending \subseteq dirs[procs[p].second].whole

\* The pull that made an archive is over.
Over(pull) == pull = Nothing \/ Len(procs[pull[1]].todo) < pull[2]

ArchiveInv ==
    /\ \A row \in present : ParentOf[row] \in present \cup {NoParent}
    /\ \A p \in Procs : At(p, "fetch") => Reading(p)
    /\ \A p \in Procs : At(p, "write") => Written(p)
    /\ \A second \in Seconds : dirs[second].manifest # Nothing =>
          \E pull \in dirs[second].writers : Over(pull)
    /\ ArchiveIsWhole

IInv == TypeOK /\ Placed /\ SetsInv /\ ArchiveInv

(***************************************************************************)
(* What captures are worth, and what the verdicts on them are              *)
(***************************************************************************)
\* While no row came or went, a pull has read what is there.  In a directory
\* that nobody else writes into it writes what it has read.
Truly(p) ==
    /\ At(p, "fetch") /\ procs[p].truth # Nothing =>
          procs[p].truth = present /\ procs[p].rows \subseteq present
    /\ At(p, "write") =>
          /\ procs[p].truth # Nothing => procs[p].rows \subseteq procs[p].truth
          /\ dirs[procs[p].second].writers \subseteq {ThisPull(p)} =>
                dirs[procs[p].second].whole \subseteq procs[p].rows

\* Whoever wrote into a directory is over, or still writes.
Known(pull) == Over(pull) \/ \E p \in Procs : At(p, "write") /\ pull = ThisPull(p)

WritersKnown ==
    \A second \in Seconds :
        /\ dirs[second].writers = {} => dirs[second].whole = {}
        /\ \A pull \in dirs[second].writers : Known(pull)

ArchivesTrue ==
    \A second \in Seconds :
        Readable(second) /\ WrittenOnce(second) /\ dirs[second].truth # Nothing =>
            dirs[second].whole \subseteq dirs[second].truth

TruthInv == (\A p \in Procs : Truly(p)) /\ WritersKnown /\ ArchivesTrue

\* What Gate 1 lets an apply through for.
Cleared(command, rows) ==
    Holds({r \in RulesOf(RulesetsFor(command.rulesets, command.name)) :
              r.phase = "PRE_APPLY" /\ (command.force => r.severity = "ERROR")}, rows)

Passed(me) ==
    \/ me.at \in {"go", "gate 2"}
    \/ me.at \in Writing /\ Head(me.todo).do = "apply" /\ Head(me.todo).gated

Allowed(p) ==
    /\ Passed(procs[p]) => Cleared(Command(p), procs[p].capture)
    /\ At(p, "gate 2") => \E log \in logs : log.set = procs[p].own

GatesTrue == \A p \in Procs : Allowed(p)

VerdictInv == GatesTrue /\ VerdictIsEarned

-----------------------------------------------------------------------------
(***************************************************************************)
(* The rows of a query in their order.                                     *)
(***************************************************************************)
LEMMA RankType ==
  ASSUME NEW S \in SUBSET Nat, IsFiniteSet(S), NEW x \in S
  PROVE  Rank(S, x) \in 0 .. Cardinality(S) - 1 /\ Cardinality(S) \in Nat
<1> DEFINE before == {other \in S : other < x}
<1>1. before \in SUBSET S /\ before # S
  OBVIOUS
<1>2. /\ IsFiniteSet(before) /\ Cardinality(before) <= Cardinality(S)
      /\ Cardinality(before) # Cardinality(S)
  BY <1>1, FS_Subset
<1>3. Cardinality(before) \in Nat /\ Cardinality(S) \in Nat
  BY <1>2, FS_CardinalityType
<1>4. Rank(S, x) = Cardinality(before)
  BY DEF Rank
<1> HIDE DEF before
<1>5. QED
  BY <1>2, <1>3, <1>4

(* A later row has a higher rank. *)
LEMMA RankGrows ==
  ASSUME NEW S \in SUBSET Nat, IsFiniteSet(S), NEW x \in S, NEW y \in S, x < y
  PROVE  Rank(S, x) < Rank(S, y)
<1> DEFINE before(z) == {other \in S : other < z}
<1>1. before(x) \in SUBSET before(y) /\ x \in before(y) /\ x \notin before(x)
  <2>1. x \in Nat /\ y \in Nat /\ \A z \in S : z \in Nat
    OBVIOUS
  <2>2. \A z \in S : z < x => z < y
    BY <2>1
  <2>3. ~ x < x
    BY <2>1
  <2>4. QED
    BY <2>2, <2>3
<1>2. before(y) \in SUBSET S
  OBVIOUS
<1>3. IsFiniteSet(before(y))
  BY <1>2, FS_Subset
<1>4. Cardinality(before(x)) <= Cardinality(before(y)) /\ Cardinality(before(x)) # Cardinality(before(y))
  BY <1>1, <1>3, FS_Subset
<1>5. Rank(S, x) = Cardinality(before(x)) /\ Rank(S, y) = Cardinality(before(y))
  BY DEF Rank
<1>6. Rank(S, x) \in Nat /\ Rank(S, y) \in Nat
  BY RankType
<1> HIDE DEF before
<1>7. QED
  BY <1>4, <1>5, <1>6

(* No rank is left out. *)
LEMMA RankOnto ==
  ASSUME NEW S \in SUBSET Nat, IsFiniteSet(S), NEW k \in 0 .. Cardinality(S) - 1
  PROVE  \E x \in S : Rank(S, x) = k
<1> DEFINE n == Cardinality(S)
           f == [x \in S |-> Rank(S, x)]
<1>1. n \in Nat
  BY FS_CardinalityType
<1>2. f \in [S -> 0 .. n - 1]
  BY RankType
<1>3. ASSUME NEW x \in S, NEW y \in S, x # y PROVE f[x] # f[y]
  <2>1. f[x] = Rank(S, x) /\ f[y] = Rank(S, y) /\ f[x] \in Nat /\ f[y] \in Nat
    BY RankType
  <2>2. x < y \/ y < x
    BY <1>3
  <2>3. QED
    BY <2>1, <2>2, RankGrows
<1>4. IsFiniteSet(0 .. n - 1) /\ Cardinality(0 .. n - 1) = n
  BY <1>1, FS_Interval
<1> HIDE DEF n, f
<1>5. f \in Injection(S, 0 .. n - 1)
  BY <1>2, <1>3 DEF Injection, IsInjective
<1>6. Cardinality(S) = Cardinality(0 .. n - 1) <=> f \in Surjection(S, 0 .. n - 1)
  BY <1>4, <1>5, FS_Injection
<1>7. f \in Surjection(S, 0 .. n - 1)
  BY <1>4, <1>6 DEF n
<1>8. QED
  BY <1>7 DEF Surjection, f, n

(* When rows come, no other row has a lower rank than before. *)
LEMMA RankKept ==
  ASSUME NEW S \in SUBSET Nat, IsFiniteSet(S), NEW T \in SUBSET S, NEW x \in T
  PROVE  Rank(T, x) <= Rank(S, x) /\ Rank(T, x) \in Nat /\ Rank(S, x) \in Nat
<1>1. {other \in T : other < x} \in SUBSET {other \in S : other < x}
  OBVIOUS
<1>2. {other \in S : other < x} \in SUBSET S
  OBVIOUS
<1>3. IsFiniteSet({other \in S : other < x})
  BY <1>2, FS_Subset
<1>4. /\ IsFiniteSet({other \in T : other < x})
      /\ Cardinality({other \in T : other < x}) <= Cardinality({other \in S : other < x})
  BY <1>1, <1>3, FS_Subset
<1>5. QED
  BY <1>3, <1>4, FS_CardinalityType DEF Rank

(* After a page that is not full there are no more rows. *)
LEMMA LastPage ==
  ASSUME NEW S \in SUBSET Nat, IsFiniteSet(S), NEW offset \in Nat, IsLast(Page(S, offset)), NEW row \in S
  PROVE  Rank(S, row) < offset + PageSize
<1> DEFINE page == Page(S, offset)
           slots == offset .. offset + PageSize - 1
           f == [x \in page |-> Rank(S, x)]
<1>1. page = {x \in S : Rank(S, x) \in slots}
  BY DEF Page, Rank
<1>2. SUFFICES ASSUME Rank(S, row) >= offset + PageSize PROVE FALSE
  BY RankType, PageAssumption
<1>3. PageSize \in Nat /\ PageSize # 0 /\ Rank(S, row) <= Cardinality(S) - 1 /\ Cardinality(S) \in Nat
      /\ Rank(S, row) \in Nat
  BY RankType, PageAssumption
<1>4. ASSUME NEW k \in slots PROVE \E x \in page : f[x] = k
  <2>1. k \in 0 .. Cardinality(S) - 1
    BY <1>2, <1>3
  <2>2. PICK x \in S : Rank(S, x) = k
    BY <2>1, RankOnto
  <2>3. QED
    BY <1>1, <2>2
<1>5. f \in [page -> slots]
  BY <1>1
<1>6. page \in SUBSET S
  BY <1>1
<1>7. IsFiniteSet(page)
  BY <1>6, FS_Subset
<1>8. Cardinality(slots) = PageSize
  BY <1>3, FS_Interval
<1>9. Cardinality(page) < PageSize /\ Cardinality(page) \in Nat
  BY <1>7, FS_CardinalityType DEF IsLast
<1> HIDE DEF page, slots, f
<1>10. f \in Surjection(page, slots)
  BY <1>4, <1>5 DEF Surjection
<1>11. Cardinality(slots) <= Cardinality(page)
  BY <1>7, <1>10, FS_Surjection
<1>12. QED
  BY <1>3, <1>8, <1>9, <1>11

(* The latest time is one of them. *)
LEMMA MaxIn ==
  ASSUME NEW S \in SUBSET Nat, IsFiniteSet(S), S # {}
  PROVE  Max(S) \in S
<1>1. Cardinality(S) \in Nat /\ Cardinality(S) # 0
  BY FS_CardinalityType, FS_EmptySet
<1>2. PICK x \in S : Rank(S, x) = Cardinality(S) - 1
  BY <1>1, RankOnto
<1>3. ASSUME NEW y \in S PROVE x >= y
  <2>1. Rank(S, y) <= Cardinality(S) - 1 /\ Rank(S, y) \in Nat
    BY <1>1, RankType
  <2>2. ~ x < y
    BY <1>1, <1>2, <2>1, RankGrows
  <2>3. QED
    BY <2>2
<1>4. QED
  BY <1>3 DEF Max

-----------------------------------------------------------------------------
(***************************************************************************)
(* The state keeps its shape.                                              *)
(***************************************************************************)
(* What TypeOK says of one process. *)
LEMMA ProcType ==
  ASSUME TypeOK
  PROVE  procs \in [Procs -> Process] /\ \A p \in Procs : procs[p] \in Process
  BY DEF TypeOK

(* The first command of a process is one of the programs' commands, and there *)
(* is less to do when it has ended.                                            *)
LEMMA CommandType ==
  ASSUME TypeOK, NEW p \in Procs, procs[p].todo # <<>>
  PROVE  /\ Command(p) \in Commands /\ Tail(procs[p].todo) \in Seq(Commands)
         /\ Len(procs[p].todo) \in Nat /\ Len(Tail(procs[p].todo)) = Len(procs[p].todo) - 1
<1>1. procs[p].todo \in Seq(Commands)
  BY ProcType DEF Process
<1>2. QED
  BY <1>1 DEF Command

(* A process that goes where it fits leaves the others alone. *)
LEMMA GoesFits ==
  ASSUME TypeOK, Placed, clock' \in Nat, clock <= clock', NEW p \in Procs, NEW me \in Process,
         Fits(me), me.at = "write" => me.second <= clock', Goes(p, me)
  PROVE  /\ procs' \in [Procs -> Process] /\ Placed'
         /\ procs'[p] = me /\ \A q \in Procs \ {p} : procs'[q] = procs[q]
<1>1. procs \in [Procs -> Process] /\ procs' = [procs EXCEPT ![p] = me]
  BY ProcType DEF Goes
<1>2. /\ procs' \in [Procs -> Process]
      /\ procs'[p] = me /\ \A q \in Procs \ {p} : procs'[q] = procs[q]
  BY <1>1
<1>3. ASSUME NEW q \in Procs PROVE Fits(procs'[q]) /\ (procs'[q].at = "write" => procs'[q].second <= clock')
  <2>1. CASE q = p
    BY <1>2, <2>1
  <2>2. CASE q # p
    <3>1. procs'[q] = procs[q] /\ procs[q].second \in Nat /\ clock \in Nat
      BY <1>1, <1>2, <2>2 DEF Process, TypeOK
    <3>2. QED
      BY <3>1 DEF Placed, At
  <2>3. QED
    BY <2>1, <2>2
<1>4. QED
  BY <1>2, <1>3 DEF Placed, At, Fits

LEMMA IdleFits ==
  ASSUME NEW todo \in Seq(Commands)
  PROVE  LET me == [IdleProc EXCEPT !.todo = todo]
         IN  me \in Process /\ Fits(me) /\ me.at = "idle" /\ me.todo = todo
<1> DEFINE me == [IdleProc EXCEPT !.todo = todo]
<1>1. 1 \in 1 .. Steps /\ "idle" \in Places /\ Nothing \in Captured
  <2>1. Steps \in Nat /\ Steps # 0
    BY StepsAssumption
  <2>2. 1 \in 1 .. Steps
    BY <2>1
  <2>3. QED
    BY <2>2 DEF Places, Captured
<1>2. me \in Process
  BY <1>1 DEF Process, IdleProc
<1>3. me.at = "idle" /\ me.todo = todo
  BY DEF IdleProc
<1>4. me = [IdleProc EXCEPT !.todo = me.todo]
  BY <1>3
<1>5. QED
  BY <1>2, <1>3, <1>4 DEF Fits, Writing

(* Who is done with a command leaves the others alone. *)
LEMMA EndFits ==
  ASSUME TypeOK, Placed, NEW p \in Procs, procs[p].todo # <<>>, clock' = clock, End(p)
  PROVE  /\ procs' \in [Procs -> Process] /\ Placed'
         /\ procs'[p].at = "idle" /\ procs'[p].todo = Tail(procs[p].todo)
         /\ \A q \in Procs \ {p} : procs'[q] = procs[q]
<1>1. clock' \in Nat /\ clock <= clock'
  BY DEF TypeOK
<1> DEFINE me == [IdleProc EXCEPT !.todo = Tail(procs[p].todo)]
<1>2. me \in Process /\ Fits(me) /\ me.at = "idle" /\ me.todo = Tail(procs[p].todo)
  BY CommandType, IdleFits
<1>3. Goes(p, me)
  BY DEF End, Ended
<1> HIDE DEF me
<1>4. QED
  BY <1>1, <1>2, <1>3, GoesFits

(* What may still happen. *)
LEMMA LeftType ==
  ASSUME left \in Bounds
  PROVE  /\ left.faults > 0 => /\ [left EXCEPT !.faults = @ - 1] \in Bounds
                               /\ [left EXCEPT !.faults = @ - 1].time = left.time
         /\ left.crashes > 0 => /\ [left EXCEPT !.crashes = @ - 1] \in Bounds
                                /\ [left EXCEPT !.crashes = @ - 1].time = left.time
         /\ left.changes > 0 => /\ [left EXCEPT !.changes = @ - 1] \in Bounds
                                /\ [left EXCEPT !.changes = @ - 1].time = left.time
         /\ left.completions > 0 => /\ [left EXCEPT !.completions = @ - 1] \in Bounds
                                    /\ [left EXCEPT !.completions = @ - 1].time = left.time
<1>1. left.faults \in Nat /\ left.crashes \in Nat /\ left.changes \in Nat /\ left.completions \in Nat
  BY DEF Bounds
<1>2. \A n \in Nat : n > 0 => n - 1 \in Nat
  OBVIOUS
<1>3. QED
  BY <1>1, <1>2 DEF Bounds

(* A record that may be written next is pending. *)
LEMMA WritableType == ASSUME NEW p \in Procs PROVE Writable(p) \subseteq procs[p].pending
  BY DEF Writable

(* The three ways in which a query is over. *)
LEMMA AdvancedWays ==
  ASSUME NEW p \in Procs, procs[p] \in Process, NEW page \in SUBSET Rows
  PROVE  LET me == procs[p]
             roots == me.page \cup page
         IN  \/ /\ ~ me.related /\ roots # {}
                /\ Advanced(p, page) = [me EXCEPT !.rows = me.rows \cup page, !.page = {}, !.offset = 0,
                                                  !.related = TRUE, !.roots = roots]
             \/ /\ me.related \/ roots = {}
                /\ me.step < Steps
                /\ Advanced(p, page) = [me EXCEPT !.rows = me.rows \cup page, !.page = {}, !.offset = 0,
                                                  !.related = FALSE, !.roots = {}, !.step = me.step + 1]
             \/ /\ me.related \/ roots = {}
                /\ ~ me.step < Steps
                /\ Advanced(p, page) = [me EXCEPT !.rows = me.rows \cup page, !.page = {}, !.offset = 0,
                                                  !.at = "write", !.second = clock,
                                                  !.pending = me.rows \cup page]
  BY DEF Advanced, Process

LEMMA AdvancedFits ==
  ASSUME TypeOK, Placed, NEW p \in Procs, At(p, "fetch"), NEW page \in SUBSET Rows
  PROVE  /\ Advanced(p, page) \in Process /\ Fits(Advanced(p, page))
         /\ Advanced(p, page).at = "write" => Advanced(p, page).second <= clock
         /\ Advanced(p, page).at \in {"fetch", "write"} /\ Advanced(p, page).todo = procs[p].todo
<1> DEFINE me == procs[p]
           next == Advanced(p, page)
<1>1. me \in Process /\ me.at = "fetch" /\ me.todo # <<>> /\ me.rows \subseteq Rows /\ clock \in Nat
  BY ProcType DEF Placed, Fits, At, TypeOK
<1>2. me.rows \cup page \in SUBSET Items /\ me.page \cup page \in SUBSET Rows
  BY <1>1 DEF Process, Items
<1>3. Steps \in Nat /\ me.step \in 1 .. Steps /\ (me.step < Steps => me.step + 1 \in 1 .. Steps)
  BY <1>1, StepsAssumption DEF Process
<1>8. /\ TRUE \in BOOLEAN /\ FALSE \in BOOLEAN /\ 0 \in Nat /\ {} \in SUBSET Rows
      /\ "write" \in Places
  BY DEF Places
<1>4. CASE next = [me EXCEPT !.rows = me.rows \cup page, !.page = {}, !.offset = 0,
                             !.related = TRUE, !.roots = me.page \cup page]
  <2>1. next \in Process
    BY ZenonT(60), <1>1, <1>2, <1>4, <1>8 DEF Process
  <2>2. next.at = "fetch" /\ next.todo = me.todo /\ next.rows = me.rows \cup page
    BY <1>1, <1>4 DEF Process
  <2>3. QED
    BY <1>1, <2>1, <2>2 DEF Fits, Writing
<1>5. CASE /\ me.step < Steps
           /\ next = [me EXCEPT !.rows = me.rows \cup page, !.page = {}, !.offset = 0,
                                !.related = FALSE, !.roots = {}, !.step = me.step + 1]
  <2>1. next \in Process
    BY ZenonT(60), <1>1, <1>2, <1>3, <1>5, <1>8 DEF Process
  <2>2. next.at = "fetch" /\ next.todo = me.todo /\ next.rows = me.rows \cup page
    BY <1>1, <1>5 DEF Process
  <2>3. QED
    BY <1>1, <2>1, <2>2 DEF Fits, Writing
<1>6. CASE next = [me EXCEPT !.rows = me.rows \cup page, !.page = {}, !.offset = 0,
                             !.at = "write", !.second = clock, !.pending = me.rows \cup page]
  <2>1. next \in Process
    <3> DEFINE seen == [me EXCEPT !.rows = me.rows \cup page, !.page = {}, !.offset = 0]
    <3>1. seen \in Process
      BY <1>1, <1>2, <1>8 DEF Process
    <3>2. next = [seen EXCEPT !.at = "write", !.second = clock, !.pending = me.rows \cup page]
      BY <1>1, <1>6 DEF Process
    <3> HIDE DEF seen, next
    <3>3. QED
      BY <1>1, <1>2, <1>8, <3>1, <3>2 DEF Process
  <2>2. /\ next.at = "write" /\ next.todo = me.todo /\ next.rows = me.rows \cup page
        /\ next.pending = me.rows \cup page /\ next.second = clock
    BY <1>1, <1>6 DEF Process
  <2>3. QED
    BY <1>1, <2>1, <2>2 DEF Fits, Writing
<1>7. QED
  BY <1>1, <1>4, <1>5, <1>6, AdvancedWays

(* A directory is touched. *)
LEMMA TouchedType ==
  ASSUME TypeOK, NEW p \in Procs, procs[p].todo # <<>>, NEW d \in Dir
  PROVE  /\ Touched(d, p) \in Dir
         /\ Touched(d, p).whole = d.whole /\ Touched(d, p).manifest = d.manifest
         /\ Touched(d, p).owed = d.owed /\ Touched(d, p).cut = d.cut
         /\ Touched(d, p).writers = d.writers \cup {ThisPull(p)}
<1> DEFINE times == {dirs[s].mtime : s \in Seconds}
           f == [s \in Seconds |-> dirs[s].mtime]
<1>1. Seconds = 0 .. clock + left.time /\ clock + left.time \in Nat /\ \A s \in Seconds : dirs[s] \in Dir
  BY DEF TypeOK, Bounds, Seconds
<1>2. IsFiniteSet(Seconds) /\ 0 \in Seconds
  BY <1>1, FS_Interval
<1>3. f \in Surjection(Seconds, times)
  BY DEF Surjection
<1>4. IsFiniteSet(times)
  BY <1>2, <1>3, FS_Surjection
<1>5. times \in SUBSET Nat /\ times # {}
  BY <1>1, <1>2 DEF Dir
<1>7. ThisPull(p) \in Pulls
  BY CommandType DEF ThisPull, Pulls
<1>8. Touched(d, p) = [d EXCEPT !.writers = d.writers \cup {ThisPull(p)}, !.mtime = 1 + Max(times)]
  BY DEF Touched
<1> HIDE DEF times
<1>10. Max(times) \in times
  BY <1>4, <1>5, MaxIn
<1>6. 1 + Max(times) \in Nat
  <2>1. \A n \in Nat : 1 + n \in Nat
    OBVIOUS
  <2>2. Max(times) \in Nat
    BY <1>5, <1>10
  <2>3. QED
    BY <2>1, <2>2
<1>9. QED
  BY ZenonT(60), <1>6, <1>7, <1>8 DEF Dir

LEMMA DirsType ==
  ASSUME TypeOK, NEW s \in Nat, s <= clock
  PROVE  /\ s \in Seconds /\ dirs[s] \in Dir /\ DOMAIN dirs = 0 .. clock + left.time
         /\ \A d \in Dir : [dirs EXCEPT ![s] = d] \in [0 .. clock + left.time -> Dir]
  BY DEF TypeOK, Bounds, Seconds

LEMMA PullShape ==
  ASSUME TypeOK, Placed, NEW p \in Procs, Pull(p)
  PROVE  TypeOK' /\ Placed'
<1>a. procs[p] \in Process /\ Fits(procs[p]) /\ (At(p, "write") => procs[p].second <= clock)
  BY ProcType DEF Placed
<1>b. clock' = clock /\ clock \in Nat /\ clock' \in Nat /\ clock <= clock'
  <2>1. clock' = clock
    BY DEF Pull, BeginPull, FetchPage, TableUnavailable, WriteRecord, WriteManifest, Elsewhere
  <2>2. QED
    BY <2>1 DEF TypeOK
<1>c. ASSUME NEW me \in Process, Fits(me), me.at = "write" => me.second <= clock, Goes(p, me)
      PROVE  procs' \in [Procs -> Process] /\ Placed'
  BY <1>b, <1>c, GoesFits
<1>1. CASE BeginPull(p)
  <2> DEFINE me == [procs[p] EXCEPT !.at = "fetch", !.owed = present, !.truth = present]
  <2>1. me \in Process
    BY <1>a DEF TypeOK, Process, Places, Captured
  <2>2. procs[p].todo # <<>> /\ procs[p].rows = {}
    BY <1>1, <1>a DEF BeginPull, Starts, Busy, Fits, IdleProc
  <2>3. Fits(me) /\ me.at = "fetch"
    BY <1>a, <2>2 DEF Process, Fits, Writing
  <2>4. Goes(p, me)
    BY <1>1 DEF BeginPull
  <2> HIDE DEF me
  <2>5. procs' \in [Procs -> Process] /\ Placed'
    BY <1>c, <2>1, <2>3, <2>4
  <2>6. QED
    BY <1>1, <2>5 DEF BeginPull, TypeOK, Elsewhere, Files
<1>2. CASE FetchPage(p)
  <2> DEFINE page == Page(Matching(p), procs[p].offset)
  <2>1. page \in SUBSET Rows /\ At(p, "fetch")
    BY <1>2 DEF FetchPage, Page, Matching, Asked
  <2>2. CASE IsLast(page)
    <3>1. Goes(p, Advanced(p, page))
      BY <1>2, <2>2 DEF FetchPage
    <3>2. QED
      BY <1>2, <1>c, <2>1, <3>1, AdvancedFits DEF FetchPage, TypeOK, Elsewhere, Files
  <2>3. CASE ~ IsLast(page)
    <3> DEFINE me == [procs[p] EXCEPT !.page = @ \cup page, !.rows = @ \cup page, !.offset = @ + PageSize]
    <3>1. procs[p].page \cup page \in SUBSET Rows /\ procs[p].rows \cup page \in SUBSET Items
          /\ procs[p].offset + PageSize \in Nat
      BY <1>a, <2>1, PageAssumption DEF Process, Items
    <3>2. me \in Process
      BY <1>a, <3>1 DEF Process
    <3>3. me.at = "fetch" /\ me.todo = procs[p].todo /\ me.rows = procs[p].rows \cup page
      BY <1>a, <2>1 DEF Process, At
    <3>4. Fits(me)
      BY <1>a, <2>1, <3>3 DEF Fits, Writing, At
    <3>5. Goes(p, me)
      BY <1>2, <2>3 DEF FetchPage
    <3> HIDE DEF me
    <3>6. QED
      BY <1>2, <1>c, <3>2, <3>3, <3>4, <3>5 DEF FetchPage, TypeOK, Elsewhere, Files
  <2>4. QED
    BY <2>2, <2>3
<1>3. CASE TableUnavailable(p)
  <2> DEFINE next == Advanced(p, {})
             me == [next EXCEPT !.owed = @ \ Unread(p)]
  <2>1. next \in Process /\ Fits(next) /\ (next.at = "write" => next.second <= clock)
    BY <1>3, AdvancedFits DEF TableUnavailable
  <2>2. me \in Process
    BY <2>1 DEF Process, Captured
  <2>3. /\ me.at = next.at /\ me.todo = next.todo /\ me.rows = next.rows /\ me.pending = next.pending
        /\ me.second = next.second /\ me.name = next.name /\ me.failed = next.failed
    BY <2>1 DEF Process
  <2>4. next.at # "idle"
    BY <1>3, AdvancedFits DEF TableUnavailable
  <2>5. Fits(me)
    BY <2>1, <2>3, <2>4 DEF Fits
  <2>6. Goes(p, me)
    BY <1>3 DEF TableUnavailable
  <2> HIDE DEF me, next
  <2>7. procs' \in [Procs -> Process] /\ Placed'
    BY <1>c, <2>1, <2>2, <2>3, <2>5, <2>6
  <2>8. left' \in Bounds /\ left'.time = left.time
    BY <1>3, LeftType DEF TableUnavailable, TypeOK
  <2>9. QED
    BY <1>3, <2>7, <2>8 DEF TableUnavailable, TypeOK, Files
<1>4. CASE WriteRecord(p)
  <2>1. PICK row \in Writable(p) :
           /\ dirs' = [dirs EXCEPT ![procs[p].second] =
                          WithFiles(@, p, @.whole \cup {row})]
           /\ Goes(p, [procs[p] EXCEPT !.pending = @ \ {row}])
    BY <1>4 DEF WriteRecord
  <2> DEFINE me == [procs[p] EXCEPT !.pending = @ \ {row}]
             s == procs[p].second
             d == WithFiles(dirs[s], p, dirs[s].whole \cup {row})
  <2>2. /\ procs[p].at = "write" /\ procs[p].todo # <<>> /\ s \in Nat /\ s <= clock /\ row \in Rows
        /\ procs[p].rows \subseteq Rows
        /\ procs[p].pending \subseteq procs[p].rows
    BY <1>4, <1>a, <2>1, WritableType DEF WriteRecord, At, Fits, Process
  <2>3. me \in Process /\ Fits(me) /\ me.second <= clock
    BY <1>a, <2>2 DEF Process, Fits, Writing
  <2>4. dirs[s] \in Dir /\ s \in Seconds
    BY <2>2, DirsType
  <2>5. ThisPull(p) \in Pulls
    BY <2>2, CommandType DEF ThisPull, Pulls
  <2>6. d \in Dir
    BY <2>2, <2>4, <2>5 DEF Dir, WithFiles
  <2>7. dirs' = [dirs EXCEPT ![s] = d]
    BY <2>1
  <2> HIDE DEF d
  <2>8. dirs' \in [0 .. clock + left.time -> Dir]
    BY <2>2, <2>6, <2>7, DirsType
  <2>9. QED
    BY <1>4, <1>b, <1>c, <2>1, <2>3, <2>8 DEF WriteRecord, TypeOK, Elsewhere
<1>5. CASE WriteManifest(p)
  <2> DEFINE s == procs[p].second
             d == [Touched(dirs[s], p) EXCEPT !.manifest = procs[p].rows, !.cut = FALSE,
                                              !.owed = procs[p].owed, !.truth = procs[p].truth]
  <2>1. /\ procs[p].at = "write" /\ procs[p].todo # <<>> /\ s \in Nat /\ s <= clock
        /\ procs[p].rows \subseteq Rows /\ procs[p].owed \subseteq Rows /\ procs[p].truth \in Captured
    BY <1>5, <1>a DEF WriteManifest, At, Fits, Process
  <2>2. Touched(dirs[s], p) \in Dir
    BY <2>1, DirsType, TouchedType
  <2>3. d \in Dir
    BY <2>1, <2>2 DEF Dir, Captured
  <2>4. dirs' = [dirs EXCEPT ![s] = d]
    BY <1>5 DEF WriteManifest
  <2> HIDE DEF d
  <2>5. dirs' \in [0 .. clock + left.time -> Dir]
    BY <2>1, <2>3, <2>4, DirsType
  <2>6. procs' \in [Procs -> Process] /\ Placed'
    BY <1>5, <1>b, <2>1, EndFits DEF WriteManifest
  <2>7. QED
    BY <1>5, <1>b, <2>5, <2>6 DEF WriteManifest, TypeOK, Elsewhere
<1>6. QED
  BY <1>1, <1>2, <1>3, <1>4, <1>5 DEF Pull

(* A set is created, and an entry added to one. *)
LEMMA NewSetType ==
  ASSUME TypeOK, NEW name \in Names
  PROVE  /\ NewSet(name) \in Seq(UpdateSet)
         /\ DOMAIN sets = 1 .. Len(sets) /\ Len(sets) \in Nat
         /\ DOMAIN NewSet(name) = 1 .. Len(sets) + 1
         /\ \A n \in DOMAIN sets : NewSet(name)[n] = sets[n]
         /\ NewSet(name)[Len(sets) + 1] =
               [name |-> name, state |-> "in progress", entries |-> [item \in Items |-> 0]]
<1>1. sets \in Seq(UpdateSet) /\ Len(sets) \in Nat
  BY DEF TypeOK
<1> DEFINE one == [name |-> name, state |-> "in progress", entries |-> [item \in Items |-> 0]]
<1>2. one \in UpdateSet
  BY DEF UpdateSet
<1>3. NewSet(name) = Append(sets, one)
  BY DEF NewSet
<1> HIDE DEF one
<1>4. /\ Append(sets, one) \in Seq(UpdateSet) /\ Len(Append(sets, one)) = Len(sets) + 1
      /\ DOMAIN sets = 1 .. Len(sets)
      /\ DOMAIN Append(sets, one) = 1 .. Len(sets) + 1
      /\ Append(sets, one)[Len(sets) + 1] = one
      /\ \A n \in 1 .. Len(sets) : Append(sets, one)[n] = sets[n]
  BY <1>1, <1>2
<1>5. QED
  BY <1>1, <1>3, <1>4 DEF one

LEMMA AddedType ==
  ASSUME TypeOK, NEW n \in DOMAIN sets, NEW item \in Items
  PROVE  /\ Added(n, item) \in Seq(UpdateSet) /\ DOMAIN Added(n, item) = DOMAIN sets
         /\ \A m \in DOMAIN sets :
               /\ Added(n, item)[m].name = sets[m].name /\ Added(n, item)[m].state = sets[m].state
               /\ \A i \in Items : sets[m].entries[i] > 0 => Added(n, item)[m].entries[i] > 0
         /\ Added(n, item)[n].entries[item] > 0
<1>1. sets \in Seq(UpdateSet) /\ sets[n] \in UpdateSet /\ sets[n].entries \in [Items -> Nat]
  <2>1. sets \in Seq(UpdateSet)
    BY DEF TypeOK
  <2>2. sets[n] \in UpdateSet
    BY <2>1
  <2>3. QED
    BY <2>1, <2>2 DEF UpdateSet
<1> DEFINE entries == OneMore(sets[n].entries, item)
           one == [sets[n] EXCEPT !.entries = entries]
<1>2. /\ entries \in [Items -> Nat] /\ entries[item] > 0
      /\ \A i \in Items : sets[n].entries[i] > 0 => entries[i] > 0
  BY <1>1 DEF OneMore
<1> HIDE DEF entries
<1>3. one \in UpdateSet /\ one.name = sets[n].name /\ one.state = sets[n].state /\ one.entries = entries
  BY <1>1, <1>2 DEF UpdateSet
<1>4. Added(n, item) = [sets EXCEPT ![n] = one]
  BY DEF Added, entries
<1> HIDE DEF one
<1>5. /\ [sets EXCEPT ![n] = one] \in Seq(UpdateSet) /\ DOMAIN [sets EXCEPT ![n] = one] = DOMAIN sets
      /\ [sets EXCEPT ![n] = one][n] = one
      /\ \A m \in DOMAIN sets \ {n} : [sets EXCEPT ![n] = one][m] = sets[m]
  BY <1>1, <1>3
<1>6. ASSUME NEW m \in DOMAIN sets
      PROVE  /\ Added(n, item)[m].name = sets[m].name /\ Added(n, item)[m].state = sets[m].state
             /\ \A i \in Items : sets[m].entries[i] > 0 => Added(n, item)[m].entries[i] > 0
  <2>1. CASE m = n
    BY <1>2, <1>3, <1>4, <1>5, <2>1
  <2>2. CASE m # n
    BY <1>4, <1>5, <2>2
  <2>3. QED
    BY <2>1, <2>2
<1>7. QED
  BY <1>2, <1>3, <1>4, <1>5, <1>6

(* A step of a process, seen from the process. *)
LEMMA StepShape ==
  ASSUME TypeOK, Placed, NEW p \in Procs, clock' = clock,
         left' \in Bounds, left'.time = left.time, present' \in SUBSET Rows,
         dirs' \in [0 .. clock + left.time -> Dir], sets' \in Seq(UpdateSet),
         logs' \subseteq [set : Nat, outcome : UNION {[rows -> {"FAILED", "REQUESTED"}] : rows \in SUBSET Items}],
         history' \in [begun : SUBSET Names, clash : SUBSET Names, closed : SUBSET Names,
                       reports : SUBSET [set : Nat, rows : SUBSET Items]],
         \/ \E me \in Process : Fits(me) /\ me.at # "write" /\ Goes(p, me)
         \/ procs[p].todo # <<>> /\ End(p)
  PROVE  TypeOK' /\ Placed'
<1>1. clock' \in Nat /\ clock <= clock'
  BY DEF TypeOK
<1>2. procs' \in [Procs -> Process] /\ Placed'
  <2>1. ASSUME NEW me \in Process, Fits(me), me.at # "write", Goes(p, me)
        PROVE  procs' \in [Procs -> Process] /\ Placed'
    BY <1>1, <2>1, GoesFits
  <2>2. CASE procs[p].todo # <<>> /\ End(p)
    BY <2>2, EndFits
  <2>3. QED
    BY <2>1, <2>2
<1>3. QED
  BY <1>1, <1>2 DEF TypeOK

LEMMA PushShape ==
  ASSUME IInv, NEW p \in Procs, Push(p)
  PROVE  TypeOK' /\ Placed'
<1>a. TypeOK /\ Placed /\ procs[p] \in Process /\ Fits(procs[p])
  BY ProcType DEF IInv, Placed
<1>b. /\ clock' = clock /\ present' \in SUBSET Rows /\ present' = present /\ dirs' = dirs /\ logs' = logs
  BY <1>a DEF TypeOK, Push, LoadArchive, LookUp, CreateSet, Inject, InjectFails, Straggle, ReportPush,
     Elsewhere, Files
<1>c. dirs' \in [0 .. clock + left.time -> Dir]
  BY <1>a, <1>b DEF TypeOK
<1>d. logs' \subseteq [set : Nat, outcome : UNION {[rows -> {"FAILED", "REQUESTED"}] : rows \in SUBSET Items}]
  BY <1>a, <1>b DEF TypeOK
<1>e. ASSUME left' = left
      PROVE  left' \in Bounds /\ left'.time = left.time
  BY <1>a, <1>e DEF TypeOK
<1>f. ASSUME left.faults > 0, left' = [left EXCEPT !.faults = @ - 1]
      PROVE  left' \in Bounds /\ left'.time = left.time
  BY <1>a, <1>f, LeftType DEF TypeOK
<1>g. sets \in Seq(UpdateSet) /\ history \in [begun : SUBSET Names, clash : SUBSET Names, closed : SUBSET Names,
                       reports : SUBSET [set : Nat, rows : SUBSET Items]]
  BY <1>a DEF TypeOK
<1>h. procs[p].at \in {"inject", "unwind"} => procs[p].set \in DOMAIN sets
  BY DEF IInv, SetsInv, SetsKnown
<1>i. ASSUME NEW item \in procs[p].pending
      PROVE  item \in Items
  BY <1>a DEF Process
<1>1. CASE LoadArchive(p)
  <2>1. PICK second \in Seconds :
          IF ~ Readable(second) THEN End(p)
          ELSE Goes(p, [procs[p] EXCEPT !.at = "look up", !.name = <<Command(p).name>>,
                            !.rows = dirs[second].whole, !.pending = dirs[second].whole])
    BY <1>1 DEF LoadArchive
  <2> DEFINE files == dirs[second].whole
             name == <<Command(p).name>>
             me == [procs[p] EXCEPT !.at = "look up", !.name = name, !.rows = files, !.pending = files]
  <2>2. procs[p].todo # <<>> /\ Command(p).do = "push" /\ Command(p) \in Commands
    BY <1>1, <1>a, CommandType DEF LoadArchive, Starts
  <2>3. name \in Names /\ Len(name) = 1
    BY <2>2 DEF Names
  <2>4. files \in SUBSET Items
    BY <1>a DEF TypeOK, Seconds, Dir, Items
  <2> HIDE DEF files, name
  <2>5. me \in Process
    BY <1>a, <2>3, <2>4 DEF Process, Places
  <2>6. /\ me.at = "look up" /\ me.todo = procs[p].todo /\ me.name = name
        /\ me.rows = files /\ me.pending = files
    BY <1>a DEF Process
  <2>7. Fits(me)
    BY <2>2, <2>3, <2>6 DEF Fits, Writing, Command
  <2>8. Readable(second) => Goes(p, me)
    BY <2>1 DEF files, name
  <2> HIDE DEF me
  <2>9. QED
    BY <1>1, <1>a, <1>b, <1>c, <1>d, <1>e, <1>g, <2>1, <2>2, <2>5, <2>6, <2>7, <2>8, StepShape
    DEF LoadArchive, Elsewhere
<1>2. CASE LookUp(p)
  <2>1. procs[p].at = "look up"
    BY <1>2 DEF LookUp, At
  <2>2. ASSUME NEW me \in Process, me.todo = procs[p].todo, me.name = procs[p].name,
               me.at \in {"create", "inject"}, me.rows = procs[p].rows, me.pending = procs[p].pending
        PROVE  Fits(me) /\ me.at # "write"
    BY <1>a, <2>1, <2>2 DEF Fits, Writing
  <2>3. \E me \in Process : Fits(me) /\ me.at # "write" /\ Goes(p, me)
    <3>1. CASE Goes(p, [procs[p] EXCEPT !.at = "create"])
      <4>1. [procs[p] EXCEPT !.at = "create"] \in Process
        BY <1>a DEF Process, Places
      <4>2. QED
        BY <1>a, <2>2, <3>1, <4>1 DEF Process
    <3>2. ASSUME NEW n \in DOMAIN sets, Goes(p, [procs[p] EXCEPT !.at = "inject", !.set = n])
          PROVE  \E me \in Process : Fits(me) /\ me.at # "write" /\ Goes(p, me)
      <4>1. n \in Nat
        BY <1>g
      <4>2. [procs[p] EXCEPT !.at = "inject", !.set = n] \in Process
        BY <1>a, <4>1 DEF Process, Places
      <4>3. QED
        BY <1>a, <2>2, <3>2, <4>2 DEF Process
    <3>3. QED
      BY <1>2, <3>1, <3>2 DEF LookUp, Open
  <2>4. procs[p].name \in Names
    BY <1>a, <2>1 DEF Fits, Writing
  <2>5. history' \in [begun : SUBSET Names, clash : SUBSET Names, closed : SUBSET Names,
                       reports : SUBSET [set : Nat, rows : SUBSET Items]]
    BY <1>2, <1>g, <2>4 DEF LookUp
  <2>6. QED
    BY <1>2, <1>a, <1>b, <1>c, <1>d, <1>e, <1>g, <2>3, <2>5, StepShape DEF LookUp, Elsewhere
<1>3. CASE CreateSet(p)
  <2> DEFINE me == [procs[p] EXCEPT !.at = "inject", !.set = Len(sets) + 1]
  <2>1. procs[p].at = "create" /\ procs[p].name \in Names
    BY <1>3, <1>a DEF CreateSet, At, Fits, Writing
  <2>2. sets' \in Seq(UpdateSet) /\ Len(sets) + 1 \in Nat
    <3>1. NewSet(procs[p].name) \in Seq(UpdateSet) /\ Len(sets) \in Nat
      BY <1>a, <2>1, NewSetType
    <3>2. QED
      BY <1>3, <3>1 DEF CreateSet
  <2>3. me \in Process
    BY <1>a, <2>2 DEF Process, Places
  <2>4. /\ me.todo = procs[p].todo /\ me.name = procs[p].name /\ me.at = "inject"
        /\ me.rows = procs[p].rows /\ me.pending = procs[p].pending
    BY <1>a DEF Process
  <2>5. Fits(me)
    BY <1>a, <2>1, <2>4 DEF Fits, Writing
  <2>6. Goes(p, me)
    BY <1>3 DEF CreateSet
  <2> HIDE DEF me
  <2>7. QED
    BY <1>3, <1>a, <1>b, <1>c, <1>d, <1>e, <1>g, <2>2, <2>3, <2>4, <2>5, <2>6, StepShape
    DEF CreateSet, Elsewhere
<1>4. ASSUME NEW item \in procs[p].pending, NEW at \in Places, NEW failed \in Items \cup {Nothing},
             procs[p].at \in {"inject", "unwind"}, at \in {"inject", "unwind"},
             at = "unwind" => failed \in procs[p].rows,
             Goes(p, [procs[p] EXCEPT !.at = at, !.failed = failed, !.pending = procs[p].pending \ {item}]),
             sets' \in {sets, Added(procs[p].set, item)}, left' \in Bounds, left'.time = left.time,
             history' = history
      PROVE  TypeOK' /\ Placed'
  <2> DEFINE me == [procs[p] EXCEPT !.at = at, !.failed = failed, !.pending = procs[p].pending \ {item}]
  <2>1. me \in Process
    BY <1>4, <1>a DEF Process
  <2>2. /\ me.todo = procs[p].todo /\ me.name = procs[p].name /\ me.at = at
        /\ me.rows = procs[p].rows /\ me.pending = procs[p].pending \ {item} /\ me.failed = failed
    BY <1>a DEF Process
  <2>3. Fits(me)
    BY <1>a, <1>4, <2>2 DEF Fits, Writing
  <2>4. sets' \in Seq(UpdateSet)
    BY <1>4, <1>a, <1>g, <1>h, <1>i, AddedType
  <2>5. Goes(p, me)
    BY <1>4
  <2> HIDE DEF me
  <2>6. QED
    BY <1>4, <1>a, <1>b, <1>c, <1>d, <1>g, <2>1, <2>2, <2>3, <2>4, <2>5, StepShape
<1>5. CASE Inject(p) \/ Straggle(p)
  <2>1. PICK item \in procs[p].pending :
           /\ sets' = Added(procs[p].set, item)
           /\ Goes(p, [procs[p] EXCEPT !.pending = @ \ {item}])
    BY <1>5 DEF Inject, Straggle
  <2>2. /\ procs[p].at \in {"inject", "unwind"} /\ procs[p].at \in Places
        /\ procs[p].failed \in Items \cup {Nothing}
        /\ left' = left /\ history' = history
    BY <1>5, <1>a DEF Inject, Straggle, At, Places, Process, Elsewhere
  <2>3. procs[p].at = "unwind" => procs[p].failed \in procs[p].rows
    BY <1>a DEF Fits
  <2>4. [procs[p] EXCEPT !.pending = @ \ {item}] =
        [procs[p] EXCEPT !.at = procs[p].at, !.failed = procs[p].failed, !.pending = procs[p].pending \ {item}]
    BY <1>a DEF Process
  <2>5. Goes(p, [procs[p] EXCEPT !.at = procs[p].at, !.failed = procs[p].failed,
                                 !.pending = procs[p].pending \ {item}])
    BY <2>1, <2>4
  <2>6. QED
    BY <1>4, <1>e, <2>1, <2>2, <2>3, <2>5
<1>6. CASE InjectFails(p)
  <2>1. PICK item \in procs[p].pending :
           /\ sets' \in {sets, Added(procs[p].set, item)}
           /\ Goes(p, [procs[p] EXCEPT !.at = "unwind", !.failed = item, !.pending = procs[p].pending \ {item}])
    BY <1>6 DEF InjectFails
  <2>2. procs[p].at = "inject" /\ "unwind" \in Places /\ history' = history /\ item \in Items
    BY <1>6, <1>i DEF InjectFails, At, Places
  <2>3. item \in procs[p].rows
    BY <1>a, <2>2 DEF Fits, Writing
  <2>4. left' \in Bounds /\ left'.time = left.time
    BY <1>6, <1>f DEF InjectFails
  <2>5. QED
    BY <1>4, <2>1, <2>2, <2>3, <2>4
<1>7. CASE ReportPush(p)
  <2>1. procs[p].todo # <<>>
    BY <1>7, <1>a DEF ReportPush, Fits
  <2>2. procs[p].set \in Nat /\ procs[p].rows \in SUBSET Items
    BY <1>a DEF Process
  <2>3. history' \in [begun : SUBSET Names, clash : SUBSET Names, closed : SUBSET Names,
                       reports : SUBSET [set : Nat, rows : SUBSET Items]]
    BY <1>7, <1>g, <2>2 DEF ReportPush
  <2>4. QED
    BY <1>7, <1>a, <1>b, <1>c, <1>d, <1>e, <1>g, <2>1, <2>3, StepShape DEF ReportPush, Elsewhere
<1>8. QED
  BY <1>1, <1>2, <1>3, <1>5, <1>6, <1>7 DEF Push

LEMMA ApplyShape ==
  ASSUME IInv, NEW p \in Procs, Apply(p)
  PROVE  TypeOK' /\ Placed'
<1>a. TypeOK /\ Placed /\ procs[p] \in Process /\ Fits(procs[p])
  BY ProcType DEF IInv, Placed
<1>b. /\ clock' = clock /\ present' = present /\ dirs' = dirs /\ left' = left
  BY DEF Apply, BeginApply, CreateOwnSet, WriteLog, Elsewhere, Files
<1>c. /\ dirs' \in [0 .. clock + left.time -> Dir] /\ present' \in SUBSET Rows
      /\ left' \in Bounds /\ left'.time = left.time
  BY <1>a, <1>b DEF TypeOK
<1>d. logs \subseteq [set : Nat, outcome : UNION {[rows -> {"FAILED", "REQUESTED"}] : rows \in SUBSET Items}]
  BY <1>a DEF TypeOK
<1>g. sets \in Seq(UpdateSet) /\ history \in [begun : SUBSET Names, clash : SUBSET Names, closed : SUBSET Names,
                       reports : SUBSET [set : Nat, rows : SUBSET Items]]
  BY <1>a DEF TypeOK
<1>1. CASE BeginApply(p)
  <2> DEFINE name == <<Command(p).name, clock>>
             me == [procs[p] EXCEPT !.at = "create own", !.name = name,
                           !.rows = TemplateRows, !.pending = TemplateRows]
  <2>1. procs[p].todo # <<>> /\ Command(p).do = "apply" /\ Command(p) \in Commands /\ clock \in Nat
    <3>1. procs[p].todo # <<>> /\ Command(p).do = "apply"
      BY <1>1, <1>a DEF BeginApply, Starts, At, Fits, Command
    <3>2. QED
      BY <1>a, <3>1, CommandType DEF TypeOK
  <2>2. name \in Names /\ Len(name) = 2
    BY <2>1 DEF Names
  <2>3. TemplateRows \in SUBSET Items
    BY DEF Items
  <2>4. history' = [history EXCEPT
                 !.begun = @ \cup {name},
                 !.clash = @ \cup (IF name \in history.begun THEN {name} ELSE {})]
    BY <1>1 DEF BeginApply
  <2>5. Goes(p, me)
    BY <1>1 DEF BeginApply
  <2> HIDE DEF name
  <2>6. me \in Process
    BY <1>a, <2>2, <2>3 DEF Process, Places
  <2>7. /\ me.at = "create own" /\ me.todo = procs[p].todo /\ me.name = name
        /\ me.rows = TemplateRows /\ me.pending = TemplateRows
    BY <1>a DEF Process
  <2>8. Fits(me)
    BY <2>1, <2>2, <2>7 DEF Fits, Writing, Command
  <2>9. history' \in [begun : SUBSET Names, clash : SUBSET Names, closed : SUBSET Names,
                       reports : SUBSET [set : Nat, rows : SUBSET Items]]
    BY <1>g, <2>2, <2>4
  <2> HIDE DEF me
  <2>10. QED
    BY <1>1, <1>a, <1>b, <1>c, <1>d, <1>g, <2>5, <2>6, <2>7, <2>8, <2>9, StepShape
    DEF BeginApply, Files
<1>2. CASE CreateOwnSet(p)
  <2> DEFINE me == [procs[p] EXCEPT !.at = "look up", !.own = Len(sets) + 1]
  <2>1. procs[p].at = "create own" /\ procs[p].name \in Names
    BY <1>2, <1>a DEF CreateOwnSet, At, Fits, Writing
  <2>2. sets' \in Seq(UpdateSet) /\ Len(sets) + 1 \in Nat
    <3>1. NewSet(procs[p].name) \in Seq(UpdateSet) /\ Len(sets) \in Nat
      BY <1>a, <2>1, NewSetType
    <3>2. sets' \in Seq(UpdateSet)
      BY <1>2, <3>1 DEF CreateOwnSet
    <3>3. QED
      BY <3>1, <3>2
  <2>3. me \in Process
    BY <1>a, <2>2 DEF Process, Places
  <2>4. /\ me.todo = procs[p].todo /\ me.name = procs[p].name /\ me.at = "look up"
        /\ me.rows = procs[p].rows /\ me.pending = procs[p].pending
    BY <1>a DEF Process
  <2>5. Fits(me)
    BY <1>a, <2>1, <2>4 DEF Fits, Writing
  <2>6. Goes(p, me)
    BY <1>2 DEF CreateOwnSet
  <2> HIDE DEF me
  <2>7. QED
    BY <1>2, <1>a, <1>b, <1>c, <1>d, <1>g, <2>2, <2>3, <2>4, <2>5, <2>6, StepShape
    DEF CreateOwnSet, Files
<1>3. CASE WriteLog(p)
  <2>1. /\ procs[p].todo # <<>> /\ Head(procs[p].todo).do = "apply"
    BY <1>3, <1>a DEF WriteLog, Fits, Applies, Command
  <2>2. logs' \subseteq [set : Nat, outcome : UNION {[rows -> {"FAILED", "REQUESTED"}] : rows \in SUBSET Items}]
    <3>1. procs[p].own \in Nat /\ procs[p].rows \in SUBSET Items
      BY <1>a DEF Process
    <3>2. Outcome(p) \in [procs[p].rows -> {"FAILED", "REQUESTED"}]
      BY DEF Outcome
    <3>3. Outcome(p) \in UNION {[rows -> {"FAILED", "REQUESTED"}] : rows \in SUBSET Items}
      BY <3>1, <3>2
    <3>4. logs' = logs \cup {[set |-> procs[p].own, outcome |-> Outcome(p)]}
      BY <1>3 DEF WriteLog
    <3> DEFINE Outcomes == UNION {[rows -> {"FAILED", "REQUESTED"}] : rows \in SUBSET Items}
    <3>5. logs \subseteq [set : Nat, outcome : Outcomes] /\ Outcome(p) \in Outcomes
      BY <1>d, <3>3
    <3> HIDE DEF Outcomes
    <3>6. logs' \subseteq [set : Nat, outcome : Outcomes]
      BY <3>1, <3>4, <3>5
    <3>7. QED
      BY <3>6 DEF Outcomes
  <2>3. \/ \E me \in Process : Fits(me) /\ me.at # "write" /\ Goes(p, me)
        \/ procs[p].todo # <<>> /\ End(p)
    <3> DEFINE me == [procs[p] EXCEPT !.at = "gate 2"]
    <3>1. me \in Process /\ me.at = "gate 2" /\ me.todo = procs[p].todo
      BY <1>a DEF Process, Places
    <3>2. Fits(me)
      BY <2>1, <3>1 DEF Fits, Writing
    <3> HIDE DEF me
    <3>3. Goes(p, me) \/ End(p)
      BY <1>3 DEF WriteLog, me
    <3>4. QED
      BY <2>1, <3>1, <3>2, <3>3
  <2>4. QED
    BY <1>3, <1>a, <1>b, <1>c, <1>g, <2>2, <2>3, StepShape DEF WriteLog
<1>4. QED
  BY <1>1, <1>2, <1>3 DEF Apply

LEMMA FailureShape ==
  ASSUME IInv, NEW p \in Procs, RequestFails(p) \/ Crash(p)
  PROVE  TypeOK' /\ Placed'
<1>a. TypeOK /\ Placed /\ procs[p] \in Process /\ Fits(procs[p]) /\ (At(p, "write") => procs[p].second <= clock)
  BY ProcType DEF IInv, Placed
<1>b. /\ clock' = clock /\ present' = present /\ logs' = logs /\ history' = history /\ End(p)
      /\ procs[p].todo # <<>>
  BY <1>a DEF RequestFails, Crash, Files, Busy, Fits
<1>c. left' \in Bounds /\ left'.time = left.time
  BY <1>a, LeftType DEF RequestFails, Crash, TypeOK
<1>d. /\ present' \in SUBSET Rows
      /\ logs' \subseteq [set : Nat, outcome : UNION {[rows -> {"FAILED", "REQUESTED"}] : rows \in SUBSET Items}]
      /\ history' \in [begun : SUBSET Names, clash : SUBSET Names, closed : SUBSET Names,
                       reports : SUBSET [set : Nat, rows : SUBSET Items]]
      /\ sets \in Seq(UpdateSet) /\ dirs \in [0 .. clock + left.time -> Dir]
  BY <1>a, <1>b DEF TypeOK
<1>1. CASE RequestFails(p)
  <2>1. sets' \in Seq(UpdateSet)
    <3>1. CASE sets' = sets
      BY <1>d, <3>1
    <3>2. CASE procs[p].at \in {"create", "create own"} /\ sets' = NewSet(procs[p].name)
      <4>1. procs[p].name \in Names
        BY <1>a, <3>2 DEF Fits, Writing
      <4>2. QED
        BY <1>a, <3>2, <4>1, NewSetType
    <3>3. QED
      BY <1>1, <3>1, <3>2 DEF RequestFails
  <2>2. dirs' = dirs
    BY <1>1 DEF RequestFails, Files
  <2>3. QED
    BY <1>a, <1>b, <1>c, <1>d, <2>1, <2>2, StepShape
<1>2. CASE Crash(p)
  <2> DEFINE s == procs[p].second
  <2>1. At(p, "write") => s \in Nat /\ s <= clock
    BY <1>a DEF Process
  <2>2. At(p, "write") => /\ dirs[s] \in Dir
                          /\ \A d \in Dir : [dirs EXCEPT ![s] = d] \in [0 .. clock + left.time -> Dir]
    BY <1>a, <2>1, DirsType
  <2>3. ASSUME NEW row \in Writable(p), At(p, "write")
        PROVE  WithFiles(dirs[s], p, dirs[s].whole \ {row}) \in Dir
    <3>1. ThisPull(p) \in Pulls
      BY <1>a, <1>b, CommandType DEF ThisPull, Pulls
    <3>2. QED
      BY <2>2, <2>3, <3>1 DEF Dir, WithFiles
  <2>4. ASSUME At(p, "write")
        PROVE  [Touched(dirs[s], p) EXCEPT !.cut = TRUE] \in Dir
    <3>1. Touched(dirs[s], p) \in Dir
      BY <1>a, <1>b, <2>2, <2>4, TouchedType
    <3>2. QED
      BY <3>1 DEF Dir
  <2>5. dirs' \in [0 .. clock + left.time -> Dir]
    <3>1. \/ dirs' = dirs
          \/ At(p, "write") /\ \E row \in Writable(p) :
                dirs' = [dirs EXCEPT ![s] = WithFiles(dirs[s], p, dirs[s].whole \ {row})]
          \/ At(p, "write") /\ dirs' = [dirs EXCEPT ![s] = [Touched(dirs[s], p) EXCEPT !.cut = TRUE]]
      BY <1>2 DEF Crash
    <3>2. QED
      BY <1>d, <2>2, <2>3, <2>4, <3>1
  <2>6. sets' = sets
    BY <1>2 DEF Crash
  <2>7. QED
    BY <1>a, <1>b, <1>c, <1>d, <2>5, <2>6, StepShape
<1>3. QED
  BY <1>1, <1>2

(* What others do to the source changes nothing in a process but what it can *)
(* still promise.                                                              *)
Unsettled(me, row) == [me EXCEPT !.owed = {other \in @ : StepOf[other] # StepOf[row]}]

LEMMA DisturbedType ==
  ASSUME TypeOK, Placed, NEW p \in Procs, NEW row \in Rows
  PROVE  \A me \in {Disturbed(p), Unsettled(Disturbed(p), row)} :
            /\ me \in Process /\ Fits(me) /\ me.at = procs[p].at /\ me.todo = procs[p].todo
            /\ me.step = procs[p].step /\ me.related = procs[p].related /\ me.offset = procs[p].offset
            /\ me.page = procs[p].page /\ me.roots = procs[p].roots /\ me.rows = procs[p].rows
            /\ me.second = procs[p].second /\ me.name = procs[p].name /\ me.set = procs[p].set
            /\ me.own = procs[p].own /\ me.pending = procs[p].pending /\ me.failed = procs[p].failed
<1> DEFINE me == Disturbed(p)
           you == Unsettled(me, row)
<1>1. procs[p] \in Process /\ Fits(procs[p])
  BY ProcType DEF Placed
<1>2. me \in Process /\ me.owed = procs[p].owed /\ (me.at # "fetch" => me = procs[p])
  BY <1>1 DEF Disturbed, At, Process, Captured
<1>3. /\ me.at = procs[p].at /\ me.todo = procs[p].todo
      /\ me.step = procs[p].step /\ me.related = procs[p].related /\ me.offset = procs[p].offset
      /\ me.page = procs[p].page /\ me.roots = procs[p].roots /\ me.rows = procs[p].rows
      /\ me.second = procs[p].second /\ me.name = procs[p].name /\ me.set = procs[p].set
      /\ me.own = procs[p].own /\ me.pending = procs[p].pending /\ me.failed = procs[p].failed
  BY <1>1 DEF Disturbed, At, Process
<1>4. Fits(me)
  BY <1>1, <1>2, <1>3 DEF Fits
<1> HIDE DEF me
<1>5. /\ you.at = me.at /\ you.todo = me.todo
      /\ you.step = me.step /\ you.related = me.related /\ you.offset = me.offset
      /\ you.page = me.page /\ you.roots = me.roots /\ you.rows = me.rows
      /\ you.second = me.second /\ you.name = me.name /\ you.set = me.set
      /\ you.own = me.own /\ you.pending = me.pending /\ you.failed = me.failed
  BY <1>2 DEF Unsettled, Process
<1>6. you \in Process
  BY <1>2 DEF Unsettled, Process
<1>7. me.at = "idle" => you = me
  <2>1. SUFFICES ASSUME me.at = "idle" PROVE you = me
    OBVIOUS
  <2>2. me = [IdleProc EXCEPT !.todo = me.todo]
    BY <1>4, <2>1 DEF Fits
  <2>3. me.owed = {}
    BY <2>2 DEF IdleProc
  <2>4. QED
    BY <1>2, <2>3 DEF Unsettled, Process
<1>8. Fits(you)
  BY <1>4, <1>5, <1>7 DEF Fits
<1> HIDE DEF you
<1>9. QED
  BY <1>2, <1>3, <1>4, <1>5, <1>6, <1>8 DEF me, you

LEMMA OthersShape ==
  ASSUME TypeOK, Placed,
         \/ \E row \in Rows : Insert(row) \/ Delete(row)
         \/ \E n \in DOMAIN sets : Complete(n)
         \/ Tick
  PROVE  TypeOK' /\ Placed'
<1>a. /\ procs \in [Procs -> Process] /\ \A p \in Procs : procs[p].second \in Nat
  BY ProcType DEF Process
<1>1. ASSUME NEW row \in Rows, Insert(row) \/ Delete(row) PROVE TypeOK' /\ Placed'
  <2>1. /\ DOMAIN procs' = Procs /\ procs' = [p \in Procs |-> procs'[p]]
        /\ \A p \in Procs : procs'[p] \in {Disturbed(p), Unsettled(Disturbed(p), row)}
    BY <1>1 DEF Insert, Delete, Unsettled
  <2>2. ASSUME NEW p \in Procs
        PROVE  /\ procs'[p] \in Process /\ Fits(procs'[p]) /\ procs'[p].at = procs[p].at
               /\ procs'[p].second = procs[p].second
    BY <2>1, DisturbedType
  <2>3. procs' \in [Procs -> Process]
    BY <2>1, <2>2
  <2>4. Placed'
    <3>1. clock' = clock
      BY <1>1 DEF Insert, Delete
    <3>2. \A p \in Procs : Fits(procs'[p]) /\ (procs'[p].at = "write" => procs'[p].second <= clock')
      BY <2>2, <3>1 DEF Placed, At
    <3>3. QED
      BY <3>2 DEF Placed, At, Fits
  <2>5. left' \in Bounds /\ left'.time = left.time
    BY <1>1, LeftType DEF Insert, Delete, TypeOK
  <2>6. QED
    BY <1>1, <2>3, <2>4, <2>5 DEF Insert, Delete, TypeOK, Files
<1>2. ASSUME NEW n \in DOMAIN sets, Complete(n) PROVE TypeOK' /\ Placed'
  <2>1. sets \in Seq(UpdateSet)
    BY DEF TypeOK
  <2>2. sets[n] \in UpdateSet
    BY <2>1
  <2>3. [sets[n] EXCEPT !.state = "complete"] \in UpdateSet /\ sets[n].name \in Names
    BY <2>2 DEF UpdateSet
  <2>4. sets' \in Seq(UpdateSet)
    <3> DEFINE one == [sets[n] EXCEPT !.state = "complete"]
    <3>1. sets' = [sets EXCEPT ![n] = one] /\ one \in UpdateSet
      BY <1>2, <2>3 DEF Complete
    <3> HIDE DEF one
    <3>2. QED
      BY <2>1, <3>1
  <2>5. left' \in Bounds /\ left'.time = left.time
    BY <1>2, LeftType DEF Complete, TypeOK
  <2>6. UNCHANGED <<clock, procs>>
    BY <1>2 DEF Complete
  <2>7. QED
    BY ZenonT(60), <1>2, <2>3, <2>4, <2>5, <2>6 DEF Complete, TypeOK, Placed, Files, At, Fits
<1>3. CASE Tick
  <2>1. left' \in Bounds /\ clock' \in Nat /\ clock <= clock' /\ clock' + left'.time = clock + left.time
    <3>1. left \in Bounds /\ left.time \in Nat /\ clock \in Nat
      BY DEF TypeOK, Bounds
    <3>2. left.time > 0 /\ clock' = clock + 1 /\ left' = [left EXCEPT !.time = left.time - 1]
      BY <1>3 DEF Tick
    <3>3. left.time - 1 \in Nat
      BY <3>1, <3>2
    <3>4. left' \in Bounds /\ left'.time = left.time - 1
      BY <3>1, <3>2, <3>3 DEF Bounds
    <3>5. QED
      BY <3>1, <3>2, <3>4
  <2>2. UNCHANGED <<present, dirs, logs, sets, procs, history>>
    BY <1>3 DEF Tick, Files
  <2>3. Placed'
    <3>1. \A p \in Procs : Fits(procs'[p]) /\ (procs'[p].at = "write" => procs'[p].second <= clock')
      BY <1>a, <2>1, <2>2 DEF Placed, At, TypeOK
    <3>2. QED
      BY <3>1 DEF Placed, At, Fits
  <2>4. QED
    BY <2>1, <2>2, <2>3 DEF TypeOK
<1>4. QED
  BY <1>1, <1>2, <1>3

(* A command that judges ends, or lets the engine go. *)
LEMMA JudgeWays ==
  ASSUME NEW p \in Procs, Assess(p) \/ Gate1(p) \/ Gate2(p) \/ CaptureFails(p)
  PROVE  \/ End(p)
         \/ Goes(p, [procs[p] EXCEPT !.at = "go", !.capture = present]) /\ Starts(p, "apply")
<1>1. CASE Gate1(p)
  <2>1. \/ \E exit : Ends(p, exit, FALSE, Nothing)
        \/ Goes(p, [procs[p] EXCEPT !.at = "go", !.capture = present])
    BY <1>1 DEF Gate1
  <2>2. QED
    BY <1>1, <2>1 DEF Gate1, Ends
<1>2. CASE Assess(p) \/ Gate2(p) \/ CaptureFails(p)
  <2>1. Gate2(p) => \E exit, skipped, after : Ends(p, exit, skipped, after)
    BY DEF Gate2
  <2>2. CaptureFails(p) => Ends(p, 1, FALSE, Nothing)
    BY DEF CaptureFails
  <2>3. \A exit, skipped, after : Ends(p, exit, skipped, after) => End(p)
    BY DEF Ends
  <2>4. QED
    <3>1. Assess(p) => End(p)
      BY DEF Assess
    <3>2. Gate2(p) => End(p)
      BY <2>1, <2>3
    <3>3. CaptureFails(p) => End(p)
      BY <2>2, <2>3
    <3>4. QED
      BY <1>2, <3>1, <3>2, <3>3
<1>3. QED
  BY <1>1, <1>2

LEMMA JudgeShape ==
  ASSUME TypeOK, Placed, NEW p \in Procs, Assess(p) \/ Gate1(p) \/ Gate2(p) \/ CaptureFails(p)
  PROVE  TypeOK' /\ Placed'
<1>a. procs[p] \in Process /\ Fits(procs[p])
  BY ProcType DEF Placed
<1>b. UNCHANGED <<clock, present, dirs, logs, sets, history>>
  BY DEF Assess, Gate1, Gate2, CaptureFails, Elsewhere, Files
<1>c. left' \in Bounds /\ left'.time = left.time
  <2>1. CASE left' = left
    BY <2>1 DEF TypeOK
  <2>2. CASE CaptureFails(p)
    BY <2>2, LeftType DEF CaptureFails, TypeOK
  <2>3. QED
    BY <2>1, <2>2 DEF Assess, Gate1, Gate2, Elsewhere
<1>d. /\ dirs' \in [0 .. clock + left.time -> Dir] /\ present' \in SUBSET Rows /\ sets' \in Seq(UpdateSet)
      /\ logs' \subseteq [set : Nat, outcome : UNION {[rows -> {"FAILED", "REQUESTED"}] : rows \in SUBSET Items}]
      /\ history' \in [begun : SUBSET Names, clash : SUBSET Names, closed : SUBSET Names,
                       reports : SUBSET [set : Nat, rows : SUBSET Items]]
  BY <1>b DEF TypeOK
<1>1. procs[p].todo # <<>>
  BY <1>a DEF Assess, Gate1, Gate2, CaptureFails, Starts, At, Fits
<1>2. \/ End(p)
      \/ Goes(p, [procs[p] EXCEPT !.at = "go", !.capture = present]) /\ Starts(p, "apply")
  BY JudgeWays
<1>3. CASE End(p)
  BY <1>1, <1>3, <1>b, <1>c, <1>d, StepShape
<1>4. CASE Goes(p, [procs[p] EXCEPT !.at = "go", !.capture = present]) /\ Starts(p, "apply")
  <2> DEFINE me == [procs[p] EXCEPT !.at = "go", !.capture = present]
  <2>1. me \in Process /\ me.at = "go" /\ me.todo = procs[p].todo
    BY <1>a DEF Process, Places, TypeOK
  <2>2. Fits(me)
    BY <1>1, <1>4, <2>1 DEF Fits, Writing, Starts, Command
  <2>3. Goes(p, me)
    BY <1>4
  <2> HIDE DEF me
  <2>4. QED
    BY <1>b, <1>c, <1>d, <2>1, <2>2, <2>3, StepShape
<1>5. QED
  BY <1>2, <1>3, <1>4

LEMMA InitShape == AssessInit => TypeOK /\ Placed
<1> SUFFICES ASSUME AssessInit PROVE TypeOK /\ Placed
  OBVIOUS
<1>1. PICK world \in Worlds :
        /\ clock = IF world.archive = NoDir THEN 0 ELSE 1
        /\ present = world.present
        /\ dirs = [second \in 0 .. clock + world.left.time |->
                      IF second = 0 THEN world.archive ELSE NoDir]
        /\ sets = <<>> /\ logs = {}
        /\ procs = [p \in Procs |-> [IdleProc EXCEPT !.todo = world.programs[p]]]
        /\ left = world.left
        /\ history = [begun |-> {}, clash |-> {}, closed |-> {}, reports |-> {}]
  BY DEF AssessInit, Init
<1>2. clock \in Nat /\ present \subseteq Rows /\ left \in Bounds
  BY <1>1, WorldsAssumption
<1>3. NoDir \in Dir
  BY DEF NoDir, Dir, Captured
<1>4. dirs \in [0 .. clock + left.time -> Dir]
  BY <1>1, <1>3, WorldsAssumption
<1>5. ASSUME NEW p \in Procs PROVE procs[p] \in Process /\ Fits(procs[p]) /\ procs[p].at = "idle"
  <2>1. world.programs[p] \in Seq(Commands)
    BY <1>1, WorldsAssumption
  <2>2. procs[p] = [IdleProc EXCEPT !.todo = world.programs[p]]
    BY <1>1
  <2>3. QED
    BY <2>1, <2>2, IdleFits
<1>6. procs \in [Procs -> Process]
  BY <1>1, <1>5
<1>7. sets \in Seq(UpdateSet) /\ logs = {}
  BY <1>1
<1>8. history \in [begun : SUBSET Names, clash : SUBSET Names, closed : SUBSET Names,
                     reports : SUBSET [set : Nat, rows : SUBSET Items]]
  BY <1>1
<1>9. QED
  BY <1>2, <1>4, <1>5, <1>6, <1>7, <1>8 DEF TypeOK, Placed, At

(* No step of the pulls, pushes, applies, assessments or of the others changes the shape. *)
LEMMA NextShape == IInv /\ [AssessNext]_assessVars => TypeOK' /\ Placed'
<1> SUFFICES ASSUME IInv, [AssessNext]_assessVars PROVE TypeOK' /\ Placed'
  OBVIOUS
<1>1. TypeOK /\ Placed
  BY DEF IInv
<1>2. CASE UNCHANGED assessVars
  <2>1. UNCHANGED <<clock, present, dirs, sets, logs, procs, left, history>>
    BY <1>2 DEF assessVars, vars
  <2>2. TypeOK'
    BY <1>1, <2>1 DEF TypeOK
  <2>3. Placed'
    BY <1>1, <2>1 DEF Placed, At, Fits
  <2>4. QED
    BY <2>2, <2>3
<1>3. QED
  BY <1>1, <1>2, PullShape, PushShape, ApplyShape, FailureShape, OthersShape, JudgeShape
  DEF AssessNext, Next

-----------------------------------------------------------------------------
(***************************************************************************)
(* Update sets                                                             *)
(***************************************************************************)
\* What the invariant says of update sets looks at no more of a process than this.
SameWork(me, old) ==
    /\ me.at = old.at /\ me.todo = old.todo /\ me.name = old.name /\ me.set = old.set
    /\ me.own = old.own /\ me.rows = old.rows /\ me.pending = old.pending

(* A step that leaves the update sets alone, and all processes that write there. *)
LEMMA QuietSets ==
  ASSUME SetsInv, UNCHANGED <<sets, logs, history>>,
         \A q \in Procs : procs'[q].at \notin Writing \/ SameWork(procs'[q], procs[q])
  PROVE  SetsInv'
<1>1. SetsKnown'
  BY ZenonT(60) DEF SetsInv, SetsKnown, Applies, Command, SameWork, Writing
<1>2. Unshared'
  BY DEF SetsInv, Unshared, Calm, Applies, Command, SameWork
<1>8. \A q \in Procs : procs'[q].at \in {"create", "create own"} =>
          procs[q].at = procs'[q].at /\ procs[q].name = procs'[q].name
  BY DEF SameWork, Writing
<1>5. Fresh'
  BY <1>8 DEF SetsInv, Fresh, Calm, At
<1>6. Alone'
  BY ZenonT(60), <1>8 DEF SetsInv, Alone, Calm, At
<1>3. Sent'
  BY DEF SetsInv, Sent, Applies, Command, SameWork, At, Writing
<1>4. Logged' /\ OneSetPerName' /\ ReportedSetHoldsAll'
  BY DEF SetsInv, Logged, OneSetPerName, ReportedSetHoldsAll
<1>7. QED
  BY <1>1, <1>2, <1>3, <1>4, <1>5, <1>6 DEF SetsInv

(* What was reported or logged stays true. *)
LEMMA HoldsStill ==
  ASSUME SetsInv, TypeOK, DOMAIN sets \subseteq DOMAIN sets',
         \A n \in DOMAIN sets :
            /\ sets'[n].name = sets[n].name
            /\ \A item \in Items : sets[n].entries[item] > 0 => sets'[n].entries[item] > 0,
         history.clash \subseteq history'.clash, history.closed \subseteq history'.closed
  PROVE  /\ \A report \in history.reports :
               /\ report.set \in DOMAIN sets'
               /\ \A item \in Items : item \in report.rows => sets'[report.set].entries[item] > 0
         /\ \A log \in logs :
               /\ log.set \in DOMAIN sets'
               /\ \/ \E item \in DOMAIN log.outcome : log.outcome[item] = "FAILED"
                  \/ sets'[log.set].name \in history'.clash \cup history'.closed
                  \/ \A item \in DOMAIN log.outcome : sets'[log.set].entries[item] > 0
<1>1. ASSUME NEW log \in logs PROVE DOMAIN log.outcome \subseteq Items
  BY <1>1 DEF TypeOK
<1>2. Logged /\ ReportedSetHoldsAll
  BY DEF SetsInv
<1>3. QED
  BY <1>1, <1>2 DEF Logged, ReportedSetHoldsAll

LEMMA LoadSets ==
  ASSUME IInv, Placed', procs' \in [Procs -> Process], NEW p \in Procs, LoadArchive(p)
  PROVE  SetsInv'
<1>a. TypeOK /\ Placed /\ SetsInv /\ procs \in [Procs -> Process] /\ procs[p] \in Process
  BY ProcType DEF IInv
<1>b. UNCHANGED <<sets, logs, history>> /\ \A q \in Procs \ {p} : procs'[q] = procs[q]
  <2>1. UNCHANGED <<sets, logs, history>>
    BY DEF LoadArchive, Files
  <2>2. \E me : procs' = [procs EXCEPT ![p] = me]
    BY DEF LoadArchive, End, Goes
  <2>3. QED
    BY <2>1, <2>2, <1>a
<1>1. PICK second \in Seconds :
        IF ~ Readable(second) THEN End(p)
        ELSE Goes(p, [procs[p] EXCEPT !.at = "look up", !.name = <<Command(p).name>>,
                          !.rows = dirs[second].whole, !.pending = dirs[second].whole])
  BY DEF LoadArchive
<1>2. procs[p].todo # <<>> /\ Command(p).do = "push"
  BY DEF LoadArchive, Starts
<1>3. CASE End(p)
  <2>1. procs'[p].at = "idle"
    BY <1>3, <1>a DEF End, Goes, Ended, IdleProc
  <2>2. QED
    BY <1>a, <1>b, <2>1, QuietSets DEF Writing, SameWork
<1>4. CASE Goes(p, [procs[p] EXCEPT !.at = "look up", !.name = <<Command(p).name>>,
                          !.rows = dirs[second].whole, !.pending = dirs[second].whole])
  <2>1. /\ procs'[p].at = "look up" /\ procs'[p].todo = procs[p].todo
        /\ procs'[p].name = <<Command(p).name>> /\ procs'[p].rows = procs'[p].pending
    BY <1>4, <1>a DEF Goes, Process
  <2>2. ~ Applies(p)' /\ Len(procs'[p].name) = 1
    BY <1>2, <2>1 DEF Applies, Command
  <2>3. ASSUME NEW q \in Procs \ {p}
        PROVE  procs'[q] = procs[q] /\ Applies(q)' = Applies(q)
    BY <1>b DEF Applies, Command
  <2>4. ASSUME NEW q \in Procs \ {p}, procs[q].at \in Writing, Applies(q)
        PROVE  procs'[q].name # procs'[p].name
    <3>1. Len(procs[q].name) = 2
      BY <1>a, <2>4 DEF Placed, Fits, Applies, Command
    <3>2. QED
      BY <2>2, <2>3, <3>1
  <2>5. SetsKnown'
    BY <1>a, <1>b, <2>1, <2>2, <2>3 DEF SetsInv, SetsKnown
  <2>6. Unshared' /\ Fresh' /\ Alone'
    <3>1. Unshared'
      BY ZenonT(60), <1>a, <1>b, <2>1, <2>2, <2>3, <2>4 DEF SetsInv, Unshared, Calm
    <3>2. \A q \in Procs : procs'[q].at \in {"create", "create own"} => procs'[q] = procs[q]
      BY <2>1, <2>3
    <3>4. Fresh'
      BY <1>a, <1>b, <3>2 DEF SetsInv, Fresh, Calm, At
    <3>5. Alone'
      BY ZenonT(60), <1>a, <1>b, <3>2 DEF SetsInv, Alone, Calm, At
    <3>3. QED
      BY <3>1, <3>4, <3>5
  <2>7. Sent'
    BY <1>a, <1>b, <2>1, <2>3 DEF SetsInv, Sent, At
  <2>8. QED
    BY <1>a, <1>b, <2>5, <2>6, <2>7 DEF SetsInv, Logged, OneSetPerName, ReportedSetHoldsAll
<1>5. QED
  BY <1>1, <1>3, <1>4

LEMMA LookUpSets ==
  ASSUME IInv, NEW p \in Procs, LookUp(p)
  PROVE  SetsInv'
<1>a. TypeOK /\ Placed /\ SetsInv /\ procs \in [Procs -> Process] /\ procs[p] \in Process /\ Fits(procs[p])
  BY ProcType DEF IInv, Placed
<1> DEFINE name == procs[p].name
<1>1. /\ procs[p].at = "look up" /\ procs[p].pending = procs[p].rows
      /\ UNCHANGED <<sets, logs>>
      /\ history' = [history EXCEPT !.clash = @ \cup (IF Contended(p) THEN {name} ELSE {})]
  BY <1>a DEF LookUp, At, Files, Fits
<1>2. /\ history'.begun = history.begun /\ history'.closed = history.closed
      /\ history'.reports = history.reports /\ history.clash \subseteq history'.clash
      /\ Contended(p) => name \in history'.clash
  BY <1>a, <1>1 DEF TypeOK
<1>3. \/ Open(name) = {} /\ procs' = [procs EXCEPT ![p] = [procs[p] EXCEPT !.at = "create"]]
      \/ \E n \in Open(name) : procs' = [procs EXCEPT ![p] = [procs[p] EXCEPT !.at = "inject", !.set = n]]
  BY DEF LookUp, Goes
<1>4. /\ \A q \in Procs \ {p} : procs'[q] = procs[q] /\ Applies(q)' = Applies(q)
      /\ procs'[p].name = name /\ procs'[p].todo = procs[p].todo /\ procs'[p].own = procs[p].own
      /\ procs'[p].rows = procs[p].rows /\ procs'[p].pending = procs[p].pending
      /\ Applies(p)' = Applies(p)
      /\ \/ procs'[p].at = "create" /\ Open(name) = {}
         \/ procs'[p].at = "inject" /\ procs'[p].set \in Open(name)
  BY ZenonT(60), <1>3, <1>a DEF Process, Applies, Command
<1>5. ASSUME name \notin history'.clash, NEW q \in Procs \ {p}, procs[q].at = "create"
      PROVE  procs[q].name # name
  BY <1>2, <1>5 DEF Contended, At
<1>6. /\ procs'[p].at = "create" => \A n \in DOMAIN sets : sets[n].name = name => sets[n].state # "in progress"
      /\ procs'[p].at = "inject" => /\ procs'[p].set \in DOMAIN sets
                                    /\ sets[procs'[p].set].name = name
                                    /\ sets[procs'[p].set].state = "in progress"
  BY <1>4 DEF Open
<1>7. SetsKnown'
  <2>1. \A n \in DOMAIN sets' :
          /\ sets'[n].state # "in progress" => sets'[n].name \in history'.closed
          /\ Len(sets'[n].name) = 2 => sets'[n].name \in history'.begun
    BY <1>a, <1>1, <1>2 DEF SetsInv, SetsKnown
  <2>2. ASSUME NEW q \in Procs
        PROVE  /\ procs'[q].at \in Writing /\ Applies(q)' => procs'[q].name \in history'.begun
               /\ procs'[q].at \in {"inject", "unwind"} =>
                     procs'[q].set \in DOMAIN sets' /\ sets'[procs'[q].set].name = procs'[q].name
               /\ procs'[q].at \in Writing \ {"create own"} /\ Applies(q)' =>
                     procs'[q].own \in DOMAIN sets' /\ sets'[procs'[q].own].name = procs'[q].name
    <3>1. CASE q = p
      BY <1>a, <1>1, <1>2, <1>4, <1>6, <3>1 DEF SetsInv, SetsKnown, Writing
    <3>2. CASE q # p
      BY ZenonT(60), <1>a, <1>1, <1>2, <1>4, <3>2 DEF SetsInv, SetsKnown
    <3>3. QED
      BY <3>1, <3>2
  <2>3. QED
    BY <2>1, <2>2 DEF SetsKnown
<1>8. Unshared'
  <2>1. \A q \in Procs : /\ procs'[q].name = procs[q].name /\ Applies(q)' = Applies(q)
                         /\ procs'[q].at \in Writing => procs[q].at \in Writing
    BY <1>1, <1>4 DEF Writing
  <2>2. QED
    BY <1>a, <1>2, <2>1 DEF SetsInv, Unshared, Calm
<1>9. Fresh'
  BY ZenonT(60), <1>a, <1>1, <1>2, <1>4 DEF SetsInv, Fresh, Calm, At
<1>10. Alone'
  <2>1. SUFFICES ASSUME NEW q \in Procs, procs'[q].at = "create", procs'[q].name \notin history'.clash
                 PROVE  /\ \A n \in DOMAIN sets : sets[n].name = procs'[q].name => sets[n].state # "in progress"
                        /\ \A r \in Procs \ {q} : procs'[r].at = "create" => procs'[r].name # procs'[q].name
    BY <1>1 DEF Alone, Calm, At
  <2>2. procs'[q].name = procs[q].name /\ procs[q].name \notin history.clash
    BY <1>2, <1>4, <2>1
  <2>3. CASE q = p
    BY <1>4, <1>5, <1>6, <2>1, <2>3
  <2>4. CASE q # p
    <3>1. procs'[q] = procs[q] /\ procs[q].name # name
      BY <1>4, <1>5, <2>1, <2>2, <2>4
    <3>2. QED
      BY ZenonT(60), <1>a, <1>4, <2>1, <2>2, <3>1 DEF SetsInv, Alone, Calm, At
  <2>5. QED
    BY <2>3, <2>4
<1>11. Sent'
  <2>1. ASSUME procs'[p].at = "inject", Applies(p)
        PROVE  procs'[p].set = procs[p].own \/ name \in history'.clash \cup history'.closed
    <3>1. procs[p].own \in DOMAIN sets /\ sets[procs[p].own].name = name
      BY <1>a, <1>1, <2>1 DEF SetsInv, SetsKnown, Writing
    <3>2. sets[procs[p].own].state # "in progress" => name \in history.closed
      BY <1>a, <3>1 DEF SetsInv, SetsKnown
    <3>3. QED
      BY <1>a, <1>2, <1>6, <2>1, <3>1, <3>2 DEF SetsInv, OneSetPerName
  <2>2. QED
    BY ZenonT(60), <1>a, <1>1, <1>2, <1>4, <2>1 DEF SetsInv, Sent, At
<1>12. Logged' /\ OneSetPerName' /\ ReportedSetHoldsAll'
  BY <1>a, <1>1, <1>2 DEF SetsInv, Logged, OneSetPerName, ReportedSetHoldsAll
<1>13. QED
  BY <1>7, <1>8, <1>9, <1>10, <1>11, <1>12 DEF SetsInv

(* A pair is no 1-tuple, and one more is the next of a sequence. *)
LEMMA Lengths == \A a, b : Len(a) = 1 /\ Len(b) = 2 => a # b
  OBVIOUS

LEMMA OneMoreThan ==
  ASSUME NEW k \in Nat
  PROVE  /\ k + 1 \in 1 .. k + 1 /\ k + 1 \notin 1 .. k
         /\ \A n \in 1 .. k + 1 : n \in 1 .. k \/ n = k + 1
         /\ \A n \in 1 .. k : n \in 1 .. k + 1
  OBVIOUS

(* Nobody else is about to create a set of a name that only p has, and the set *)
(* that p creates is then the only one of its name in progress.                 *)
LEMMA CreatedSets ==
  ASSUME IInv, NEW p \in Procs, procs[p].at \in {"create", "create own"},
         sets' = NewSet(procs[p].name), UNCHANGED <<logs, history>>
  PROVE  /\ \A n \in DOMAIN sets : n \in DOMAIN sets' /\ sets'[n] = sets[n]
         /\ \A n \in DOMAIN sets' : n \in DOMAIN sets \/ n = Len(sets) + 1
         /\ Len(sets) + 1 \in DOMAIN sets' /\ Len(sets) + 1 \notin DOMAIN sets
         /\ sets'[Len(sets) + 1].name = procs[p].name
         /\ \A n \in DOMAIN sets' :
               /\ sets'[n].state # "in progress" => sets'[n].name \in history.closed
               /\ Len(sets'[n].name) = 2 => sets'[n].name \in history.begun
         /\ \A q \in Procs \ {p} :
               procs[q].at \in {"create", "create own"} /\ Calm(procs[q].name) => procs[q].name # procs[p].name
         /\ OneSetPerName' /\ Logged' /\ ReportedSetHoldsAll'
<1> DEFINE name == procs[p].name
           new == Len(sets) + 1
<1>a. TypeOK /\ Placed /\ SetsInv /\ Fits(procs[p])
  BY DEF IInv, Placed
<1>b. name \in Names /\ (Len(name) = 2 => Applies(p)) /\ (procs[p].at = "create own" => Applies(p) /\ Len(name) = 2)
  <2>1. procs[p].at \in Writing
    BY DEF Writing
  <2>2. /\ name \in Names
        /\ \/ Applies(p) /\ Len(name) = 2
           \/ Command(p).do = "push" /\ Len(name) = 1
    BY <1>a, <2>1 DEF Fits, Applies, Command
  <2>3. procs[p].at = "create own" => Applies(p)
    BY <1>a DEF Fits, Applies, Command
  <2>4. Command(p).do = "push" => ~ Applies(p)
    BY DEF Applies
  <2>5. Len(name) = 1 => Len(name) # 2
    BY Lengths
  <2>6. QED
    BY <2>2, <2>3, <2>4, <2>5
<1>1. /\ Len(sets) \in Nat /\ DOMAIN sets = 1 .. Len(sets) /\ DOMAIN sets' = 1 .. Len(sets) + 1
      /\ \A n \in DOMAIN sets : sets'[n] = sets[n]
      /\ sets'[new] = [name |-> name, state |-> "in progress", entries |-> [item \in Items |-> 0]]
  BY <1>a, <1>b, NewSetType
<1>2. /\ \A n \in DOMAIN sets : n \in DOMAIN sets' /\ sets'[n] = sets[n]
      /\ \A n \in DOMAIN sets' : n \in DOMAIN sets \/ n = new
      /\ new \in DOMAIN sets' /\ new \notin DOMAIN sets
  <2>1. /\ new \in 1 .. Len(sets) + 1 /\ new \notin 1 .. Len(sets)
        /\ \A n \in 1 .. Len(sets) + 1 : n \in 1 .. Len(sets) \/ n = new
        /\ \A n \in 1 .. Len(sets) : n \in 1 .. Len(sets) + 1
    BY <1>1, OneMoreThan
  <2>2. QED
    BY <1>1, <2>1
<1>3. sets'[new].name = name /\ sets'[new].state = "in progress"
  <2> DEFINE one == [name |-> name, state |-> "in progress", entries |-> [item \in Items |-> 0]]
  <2>1. one.name = name /\ one.state = "in progress"
    OBVIOUS
  <2>2. QED
    BY <1>1, <2>1
<1> HIDE DEF new
<1>4. Len(name) = 2 => name \in history.begun
  BY <1>a, <1>b DEF SetsInv, SetsKnown, Writing
<1>5. \A n \in DOMAIN sets' :
         /\ sets'[n].state # "in progress" => sets'[n].name \in history.closed
         /\ Len(sets'[n].name) = 2 => sets'[n].name \in history.begun
  BY ZenonT(60), <1>a, <1>2, <1>3, <1>4 DEF SetsInv, SetsKnown
<1>6. ASSUME NEW q \in Procs \ {p}, procs[q].at \in {"create", "create own"}, Calm(procs[q].name)
      PROVE  procs[q].name # name
  <2>1. CASE Applies(q)
    BY <1>a, <1>6, <2>1 DEF SetsInv, Unshared, Writing
  <2>2. CASE ~ Applies(q)
    <3>1. procs[q].at = "create" /\ Len(procs[q].name) = 1
      BY <1>a, <1>6, <2>2 DEF Placed, Fits, Writing, Applies, Command
    <3>2. CASE procs[p].at = "create"
      BY <1>a, <1>6, <3>1, <3>2 DEF SetsInv, Alone, At
    <3>3. CASE procs[p].at = "create own"
      <4>1. Len(name) = 2
        BY <1>b, <3>3
      <4>2. QED
        BY <3>1, <4>1, Lengths
    <3>4. QED
      BY <3>2, <3>3
  <2>3. QED
    BY <2>1, <2>2
<1>7. ASSUME Calm(name), NEW n \in DOMAIN sets, sets[n].name = name
      PROVE  sets[n].state # "in progress"
  BY <1>a, <1>7 DEF SetsInv, Fresh, Alone, At
<1>8. OneSetPerName'
  <2>1. SUFFICES ASSUME NEW m \in DOMAIN sets', NEW n \in DOMAIN sets', m # n, sets'[m].name = sets'[n].name,
                        sets'[m].state = "in progress", sets'[n].state = "in progress"
                 PROVE  sets'[m].name \in history.clash
    BY DEF OneSetPerName
  <2>2. CASE m \in DOMAIN sets /\ n \in DOMAIN sets
    BY <1>a, <1>2, <2>1, <2>2 DEF SetsInv, OneSetPerName
  <2>3. CASE m = new \/ n = new
    BY ZenonT(60), <1>2, <1>3, <1>7, <2>1, <2>3 DEF Calm
  <2>4. QED
    BY <1>2, <2>2, <2>3
<1>9. Logged' /\ ReportedSetHoldsAll'
  <2>1. /\ DOMAIN sets \subseteq DOMAIN sets' /\ history'.clash = history.clash /\ history'.closed = history.closed
        /\ history'.reports = history.reports /\ logs' = logs
    BY <1>2
  <2>2. QED
    BY <1>a, <1>2, <2>1, HoldsStill DEF Logged, ReportedSetHoldsAll
<1>10. QED
  BY <1>2, <1>3, <1>5, <1>6, <1>8, <1>9 DEF new

LEMMA CreateSets ==
  ASSUME IInv, NEW p \in Procs, CreateSet(p) \/ CreateOwnSet(p)
  PROVE  SetsInv'
<1> DEFINE name == procs[p].name
           new == Len(sets) + 1
<1>a. TypeOK /\ Placed /\ SetsInv /\ procs \in [Procs -> Process] /\ procs[p] \in Process /\ Fits(procs[p])
  BY ProcType DEF IInv, Placed
<1>1. /\ procs[p].at \in {"create", "create own"} /\ sets' = NewSet(procs[p].name)
      /\ UNCHANGED <<logs, history>>
  BY DEF CreateSet, CreateOwnSet, At, Files
<1>2. /\ procs[p].pending = procs[p].rows /\ procs[p].at \in Writing
      /\ procs[p].at = "create own" => Applies(p)
  BY <1>a, <1>1 DEF Fits, Applies, Command, Writing
<1>3. /\ \A q \in Procs \ {p} : procs'[q] = procs[q] /\ Applies(q)' = Applies(q)
      /\ procs'[p].name = name /\ procs'[p].todo = procs[p].todo
      /\ procs'[p].rows = procs[p].rows /\ procs'[p].pending = procs[p].pending
      /\ Applies(p)' = Applies(p)
      /\ \/ /\ procs[p].at = "create" /\ procs'[p].at = "inject"
            /\ procs'[p].set = new /\ procs'[p].own = procs[p].own
         \/ procs[p].at = "create own" /\ procs'[p].at = "look up" /\ procs'[p].own = new
  <2>1. CASE CreateSet(p)
    BY <1>a, <2>1 DEF CreateSet, Goes, Process, Applies, Command, At
  <2>2. CASE CreateOwnSet(p)
    BY <1>a, <2>2 DEF CreateOwnSet, Goes, Process, Applies, Command, At
  <2>3. QED
    BY <2>1, <2>2
<1>4. /\ \A n \in DOMAIN sets : n \in DOMAIN sets' /\ sets'[n] = sets[n]
      /\ \A n \in DOMAIN sets' : n \in DOMAIN sets \/ n = new
      /\ new \in DOMAIN sets' /\ sets'[new].name = name
      /\ \A n \in DOMAIN sets' :
            /\ sets'[n].state # "in progress" => sets'[n].name \in history.closed
            /\ Len(sets'[n].name) = 2 => sets'[n].name \in history.begun
      /\ \A q \in Procs \ {p} :
            procs[q].at \in {"create", "create own"} /\ Calm(procs[q].name) => procs[q].name # name
      /\ OneSetPerName' /\ Logged' /\ ReportedSetHoldsAll'
  BY <1>1, CreatedSets
<1> HIDE DEF new
<1>5. SetsKnown'
  <2>1. ASSUME NEW q \in Procs
        PROVE  /\ procs'[q].at \in Writing /\ Applies(q)' => procs'[q].name \in history.begun
               /\ procs'[q].at \in {"inject", "unwind"} =>
                     procs'[q].set \in DOMAIN sets' /\ sets'[procs'[q].set].name = procs'[q].name
               /\ procs'[q].at \in Writing \ {"create own"} /\ Applies(q)' =>
                     procs'[q].own \in DOMAIN sets' /\ sets'[procs'[q].own].name = procs'[q].name
    <3>1. CASE q = p
      <4>1. Applies(p) => name \in history.begun
        BY <1>a, <1>2 DEF SetsInv, SetsKnown
      <4>2. procs[p].at = "create" /\ Applies(p) => procs[p].own \in DOMAIN sets /\ sets[procs[p].own].name = name
        BY <1>a, <1>2 DEF SetsInv, SetsKnown
      <4>3. QED
        BY <1>3, <1>4, <3>1, <4>1, <4>2
    <3>2. CASE q # p
      <4>1. procs'[q] = procs[q] /\ Applies(q)' = Applies(q)
        BY <1>3, <3>2
      <4>2. /\ procs[q].at \in Writing /\ Applies(q) => procs[q].name \in history.begun
            /\ procs[q].at \in {"inject", "unwind"} =>
                  procs[q].set \in DOMAIN sets /\ sets[procs[q].set].name = procs[q].name
            /\ procs[q].at \in Writing \ {"create own"} /\ Applies(q) =>
                  procs[q].own \in DOMAIN sets /\ sets[procs[q].own].name = procs[q].name
        BY <1>a DEF SetsInv, SetsKnown
      <4>3. QED
        BY <1>4, <4>1, <4>2
    <3>3. QED
      BY <3>1, <3>2
  <2>2. QED
    BY <1>1, <1>4, <2>1 DEF SetsKnown
<1>6. Unshared'
  <2>1. \A q \in Procs : /\ procs'[q].name = procs[q].name /\ Applies(q)' = Applies(q)
                         /\ procs'[q].at \in Writing => procs[q].at \in Writing
    BY <1>2, <1>3
  <2>2. QED
    BY <1>a, <1>1, <2>1 DEF SetsInv, Unshared, Calm
<1>7. \A q \in Procs : procs'[q].at \in {"create", "create own"} => q # p /\ procs'[q] = procs[q]
  BY <1>3
<1>8. Fresh'
  <2>1. SUFFICES ASSUME NEW q \in Procs, procs'[q].at = "create own", procs'[q].name \notin history.clash,
                        NEW n \in DOMAIN sets'
                 PROVE  sets'[n].name # procs'[q].name
    BY <1>1 DEF Fresh, Calm, At
  <2>2. procs'[q] = procs[q] /\ procs[q].name # name
    BY <1>4, <1>7, <2>1 DEF Calm
  <2>3. \A m \in DOMAIN sets : sets[m].name # procs[q].name
    BY <1>a, <2>1, <2>2 DEF SetsInv, Fresh, Calm, At
  <2>4. QED
    BY <1>4, <2>2, <2>3
<1>9. Alone'
  <2>1. SUFFICES ASSUME NEW q \in Procs, procs'[q].at = "create", procs'[q].name \notin history.clash
                 PROVE  /\ \A n \in DOMAIN sets' : sets'[n].name = procs'[q].name => sets'[n].state # "in progress"
                        /\ \A r \in Procs \ {q} : procs'[r].at = "create" => procs'[r].name # procs'[q].name
    BY <1>1 DEF Alone, Calm, At
  <2>2. q # p /\ procs'[q] = procs[q] /\ procs[q].name # name
    BY <1>4, <1>7, <2>1 DEF Calm
  <2>3. QED
    <3>1. /\ \A n \in DOMAIN sets : sets[n].name = procs[q].name => sets[n].state # "in progress"
          /\ \A r \in Procs \ {q} : procs[r].at = "create" => procs[r].name # procs[q].name
      BY <1>a, <2>1, <2>2 DEF SetsInv, Alone, Calm, At
    <3>2. QED
      BY <1>4, <1>7, <2>2, <3>1
<1>10. Sent'
  <2>1. ASSUME procs'[p].at = "inject", Applies(p)
        PROVE  procs'[p].set = procs[p].own \/ name \in history.clash \cup history.closed
    <3>1. procs[p].own \in DOMAIN sets /\ sets[procs[p].own].name = name /\ procs[p].at = "create"
      BY <1>a, <1>2, <1>3, <2>1 DEF SetsInv, SetsKnown, Writing
    <3>2. sets[procs[p].own].state # "in progress" => name \in history.closed
      BY <1>a, <3>1 DEF SetsInv, SetsKnown
    <3>3. QED
      BY <1>a, <3>1, <3>2 DEF SetsInv, Alone, At, Calm
  <2>2. SUFFICES ASSUME NEW q \in Procs, procs'[q].at = "inject"
                 PROVE  /\ \A item \in procs'[q].rows \ procs'[q].pending : sets'[procs'[q].set].entries[item] > 0
                        /\ Applies(q)' => \/ procs'[q].set = procs'[q].own
                                          \/ procs'[q].name \in history.clash \cup history.closed
    BY <1>1 DEF Sent, At
  <2>3. CASE q = p
    BY <1>2, <1>3, <2>1, <2>2, <2>3
  <2>4. CASE q # p
    <3>1. procs'[q] = procs[q] /\ procs[q].set \in DOMAIN sets
      BY <1>a, <1>3, <2>2, <2>4 DEF SetsInv, SetsKnown
    <3>2. QED
      BY <1>a, <1>3, <1>4, <2>2, <2>4, <3>1 DEF SetsInv, Sent, At
  <2>5. QED
    BY <2>3, <2>4
<1>11. QED
  BY <1>4, <1>5, <1>6, <1>8, <1>9, <1>10 DEF SetsInv

LEMMA FailSets ==
  ASSUME IInv, NEW p \in Procs, RequestFails(p)
  PROVE  SetsInv'
<1>a. TypeOK /\ Placed /\ SetsInv /\ procs \in [Procs -> Process] /\ procs[p] \in Process /\ Fits(procs[p])
  BY ProcType DEF IInv, Placed
<1>1. UNCHANGED <<logs, history>> /\ procs' = [procs EXCEPT ![p] = Ended(p)]
  BY DEF RequestFails, End, Goes, Files
<1>2. procs'[p].at = "idle" /\ \A q \in Procs \ {p} : procs'[q] = procs[q] /\ Applies(q)' = Applies(q)
  BY <1>a, <1>1 DEF Ended, IdleProc, Applies, Command
<1>3. CASE sets' = sets
  BY <1>a, <1>1, <1>2, <1>3, QuietSets DEF Writing, SameWork
<1>4. CASE procs[p].at \in {"create", "create own"} /\ sets' = NewSet(procs[p].name)
  <2>1. /\ \A n \in DOMAIN sets : n \in DOMAIN sets' /\ sets'[n] = sets[n]
        /\ \A n \in DOMAIN sets' : n \in DOMAIN sets \/ n = Len(sets) + 1
        /\ sets'[Len(sets) + 1].name = procs[p].name
        /\ \A n \in DOMAIN sets' :
              /\ sets'[n].state # "in progress" => sets'[n].name \in history.closed
              /\ Len(sets'[n].name) = 2 => sets'[n].name \in history.begun
        /\ \A q \in Procs \ {p} :
              procs[q].at \in {"create", "create own"} /\ Calm(procs[q].name) => procs[q].name # procs[p].name
        /\ OneSetPerName' /\ Logged' /\ ReportedSetHoldsAll'
    BY <1>1, <1>4, CreatedSets
  <2>2. \A q \in Procs : procs'[q].at \in Writing => q # p /\ procs'[q] = procs[q] /\ Applies(q)' = Applies(q)
    BY <1>2 DEF Writing
  <2>3. SetsKnown'
    BY ZenonT(60), <1>a, <1>1, <2>1, <2>2 DEF SetsInv, SetsKnown, Writing
  <2>4. Unshared'
    BY <1>a, <1>1, <2>2 DEF SetsInv, Unshared, Calm
  <2>5. \A q \in Procs : procs'[q].at \in {"create", "create own", "inject"} => q # p /\ procs'[q] = procs[q]
    BY <1>2
  <2>6. Fresh'
    BY ZenonT(60), <1>a, <1>1, <2>1, <2>5 DEF SetsInv, Fresh, Calm, At
  <2>7. Alone'
    <3>1. SUFFICES ASSUME NEW q \in Procs, procs'[q].at = "create", procs'[q].name \notin history.clash
                   PROVE  /\ \A n \in DOMAIN sets' : sets'[n].name = procs'[q].name => sets'[n].state # "in progress"
                          /\ \A r \in Procs \ {q} : procs'[r].at = "create" => procs'[r].name # procs'[q].name
      BY <1>1 DEF Alone, Calm, At
    <3>2. q # p /\ procs'[q] = procs[q] /\ procs[q].name # procs[p].name
      BY <2>1, <2>5, <3>1 DEF Calm
    <3>3. QED
      <4>1. /\ \A n \in DOMAIN sets : sets[n].name = procs[q].name => sets[n].state # "in progress"
            /\ \A r \in Procs \ {q} : procs[r].at = "create" => procs[r].name # procs[q].name
        BY <1>a, <3>1, <3>2 DEF SetsInv, Alone, Calm, At
      <4>2. QED
        BY <2>1, <2>5, <3>2, <4>1
  <2>8. Sent'
    <3>1. SUFFICES ASSUME NEW q \in Procs, procs'[q].at = "inject"
                   PROVE  /\ \A item \in procs'[q].rows \ procs'[q].pending : sets'[procs'[q].set].entries[item] > 0
                          /\ Applies(q)' => \/ procs'[q].set = procs'[q].own
                                            \/ procs'[q].name \in history.clash \cup history.closed
      BY <1>1 DEF Sent, At
    <3>2. procs'[q] = procs[q] /\ procs[q].set \in DOMAIN sets /\ Applies(q)' = Applies(q)
      BY <1>a, <1>2, <2>5, <3>1 DEF SetsInv, SetsKnown
    <3>3. QED
      BY <1>a, <2>1, <3>1, <3>2 DEF SetsInv, Sent, At
  <2>9. QED
    BY <2>1, <2>3, <2>4, <2>6, <2>7, <2>8 DEF SetsInv
<1>5. QED
  BY <1>3, <1>4 DEF RequestFails

(* Records are stored; nothing else of the sets changes. *)
LEMMA InjectSets ==
  ASSUME IInv, NEW p \in Procs, Inject(p) \/ InjectFails(p) \/ Straggle(p)
  PROVE  SetsInv'
<1>a. TypeOK /\ Placed /\ SetsInv /\ procs \in [Procs -> Process] /\ procs[p] \in Process /\ Fits(procs[p])
  BY ProcType DEF IInv, Placed
<1>1. UNCHANGED <<logs, history>>
  BY DEF Inject, InjectFails, Straggle, Files
<1>2. PICK item \in procs[p].pending :
        /\ sets' \in {sets, Added(procs[p].set, item)}
        /\ \/ /\ procs[p].at \in {"inject", "unwind"} /\ sets' = Added(procs[p].set, item)
              /\ procs' = [procs EXCEPT ![p] = [procs[p] EXCEPT !.pending = procs[p].pending \ {item}]]
           \/ /\ procs[p].at = "inject"
              /\ procs' = [procs EXCEPT ![p] = [procs[p] EXCEPT !.at = "unwind", !.failed = item,
                                                              !.pending = procs[p].pending \ {item}]]
  BY DEF Inject, InjectFails, Straggle, At, Goes
<1>3. procs[p].at \in {"inject", "unwind"} /\ procs[p].at \in Writing /\ item \in Items
  BY <1>2, <1>a DEF Writing, Process
<1>4. procs[p].set \in DOMAIN sets
  BY <1>a, <1>3 DEF SetsInv, SetsKnown
<1>5. /\ DOMAIN sets' = DOMAIN sets
      /\ \A m \in DOMAIN sets :
            /\ sets'[m].name = sets[m].name /\ sets'[m].state = sets[m].state
            /\ \A i \in Items : sets[m].entries[i] > 0 => sets'[m].entries[i] > 0
      /\ procs'[p].at = "inject" => sets'[procs[p].set].entries[item] > 0
  <2>1. procs'[p].at = "inject" => sets' = Added(procs[p].set, item)
    <3>1. CASE procs' = [procs EXCEPT ![p] = [procs[p] EXCEPT !.at = "unwind", !.failed = item,
                                                              !.pending = procs[p].pending \ {item}]]
      <4>1. procs'[p].at = "unwind"
        BY <1>a, <3>1 DEF Process
      <4>2. QED
        BY <4>1
    <3>2. QED
      BY <1>2, <3>1
  <2>2. QED
    BY <1>a, <1>2, <1>3, <1>4, <2>1, AddedType
<1>6. /\ \A q \in Procs \ {p} : procs'[q] = procs[q] /\ Applies(q)' = Applies(q)
      /\ procs'[p].name = procs[p].name /\ procs'[p].todo = procs[p].todo
      /\ procs'[p].rows = procs[p].rows /\ procs'[p].pending = procs[p].pending \ {item}
      /\ procs'[p].set = procs[p].set /\ procs'[p].own = procs[p].own
      /\ procs'[p].at \in {"inject", "unwind"} /\ (procs'[p].at = "inject" => procs[p].at = "inject")
  <2>1. CASE procs' = [procs EXCEPT ![p] = [procs[p] EXCEPT !.pending = procs[p].pending \ {item}]]
    BY <1>3, <1>a, <2>1 DEF Process, Applies, Command
  <2>2. CASE procs' = [procs EXCEPT ![p] = [procs[p] EXCEPT !.at = "unwind", !.failed = item,
                                                          !.pending = procs[p].pending \ {item}]]
    BY <1>a, <2>2 DEF Process, Applies, Command
  <2>3. QED
    BY <1>2, <2>1, <2>2
<1>7. \A q \in Procs : /\ procs'[q].name = procs[q].name /\ Applies(q)' = Applies(q)
                       /\ procs'[q].at \in Writing => procs[q].at \in Writing
  BY <1>3, <1>6 DEF Applies, Command
<1>16. \A q \in Procs : /\ procs'[q].set = procs[q].set /\ procs'[q].own = procs[q].own
                        /\ procs'[q].at = "inject" => procs[q].at = "inject"
                        /\ procs'[q].at \in {"inject", "unwind"} => procs[q].at \in {"inject", "unwind"}
  BY <1>3, <1>6
<1>17. \A q \in Procs : procs'[q].at \in {"create", "create own"} => procs'[q] = procs[q]
  BY <1>6
<1>8. SetsKnown'
  <2>1. \A n \in DOMAIN sets' :
          /\ sets'[n].state # "in progress" => sets'[n].name \in history'.closed
          /\ Len(sets'[n].name) = 2 => sets'[n].name \in history'.begun
    BY <1>a, <1>1, <1>5 DEF SetsInv, SetsKnown
  <2>2. ASSUME NEW q \in Procs
        PROVE  /\ procs'[q].at \in Writing /\ Applies(q)' => procs'[q].name \in history'.begun
               /\ procs'[q].at \in {"inject", "unwind"} =>
                     procs'[q].set \in DOMAIN sets' /\ sets'[procs'[q].set].name = procs'[q].name
               /\ procs'[q].at \in Writing \ {"create own"} /\ Applies(q)' =>
                     procs'[q].own \in DOMAIN sets' /\ sets'[procs'[q].own].name = procs'[q].name
    <3>1. /\ procs[q].at \in Writing /\ Applies(q) => procs[q].name \in history.begun
          /\ procs[q].at \in {"inject", "unwind"} =>
                procs[q].set \in DOMAIN sets /\ sets[procs[q].set].name = procs[q].name
          /\ procs[q].at \in Writing \ {"create own"} /\ Applies(q) =>
                procs[q].own \in DOMAIN sets /\ sets[procs[q].own].name = procs[q].name
      BY <1>a DEF SetsInv, SetsKnown
    <3>2. procs'[q].at \in Writing \ {"create own"} => procs[q].at \in Writing \ {"create own"}
      BY <1>3, <1>6 DEF Writing
    <3>3. QED
      BY ZenonT(60), <1>1, <1>5, <1>7, <1>16, <3>1, <3>2
  <2>3. QED
    BY <2>1, <2>2 DEF SetsKnown
<1>9. Unshared'
  BY <1>a, <1>1, <1>7 DEF SetsInv, Unshared, Calm, Applies, Command
<1>10. Fresh'
  <2>1. SUFFICES ASSUME NEW q \in Procs, procs'[q].at = "create own", procs'[q].name \notin history.clash,
                        NEW n \in DOMAIN sets
                 PROVE  sets[n].name # procs'[q].name
    BY <1>1, <1>5 DEF Fresh, Calm, At
  <2>2. QED
    BY <1>a, <1>17, <2>1 DEF SetsInv, Fresh, Calm, At
<1>11. Alone'
  <2>1. SUFFICES ASSUME NEW q \in Procs, procs'[q].at = "create", procs'[q].name \notin history.clash
                 PROVE  /\ \A n \in DOMAIN sets : sets[n].name = procs'[q].name => sets[n].state # "in progress"
                        /\ \A r \in Procs \ {q} : procs'[r].at = "create" => procs'[r].name # procs'[q].name
    BY <1>1, <1>5 DEF Alone, Calm, At
  <2>2. QED
    BY <1>a, <1>17, <2>1 DEF SetsInv, Alone, Calm, At
<1>12. Sent'
  <2>1. SUFFICES ASSUME NEW q \in Procs, procs'[q].at = "inject"
                 PROVE  /\ \A i \in procs'[q].rows \ procs'[q].pending : sets'[procs'[q].set].entries[i] > 0
                        /\ Applies(q)' => \/ procs'[q].set = procs'[q].own
                                          \/ procs'[q].name \in history.clash \cup history.closed
    BY <1>1 DEF Sent, At
  <2>2. /\ \A i \in procs[q].rows \ procs[q].pending : sets[procs[q].set].entries[i] > 0
        /\ Applies(q) => \/ procs[q].set = procs[q].own
                         \/ procs[q].name \in history.clash \cup history.closed
        /\ procs[q].set \in DOMAIN sets /\ procs[q].rows \subseteq Items
    BY <1>a, <1>16, <2>1, ProcType DEF SetsInv, SetsKnown, Sent, At, Process
  <2>3. CASE q = p
    BY <1>5, <1>6, <1>7, <2>1, <2>2, <2>3
  <2>4. CASE q # p
    BY <1>5, <1>6, <1>7, <2>1, <2>2, <2>4
  <2>5. QED
    BY <2>3, <2>4
<1>13. OneSetPerName'
  BY <1>a, <1>1, <1>5 DEF SetsInv, OneSetPerName
<1>14. Logged' /\ ReportedSetHoldsAll'
  <2>1. /\ DOMAIN sets \subseteq DOMAIN sets' /\ history'.clash = history.clash /\ history'.closed = history.closed
        /\ history'.reports = history.reports /\ logs' = logs
    BY <1>1, <1>5
  <2>2. QED
    BY <1>a, <1>5, <2>1, HoldsStill DEF Logged, ReportedSetHoldsAll
<1>15. QED
  BY <1>8, <1>9, <1>10, <1>11, <1>12, <1>13, <1>14 DEF SetsInv

(* What is reported or logged is so. *)
LEMMA SaySets ==
  ASSUME IInv, NEW p \in Procs, ReportPush(p) \/ WriteLog(p)
  PROVE  SetsInv'
<1>a. TypeOK /\ Placed /\ SetsInv /\ procs \in [Procs -> Process] /\ procs[p] \in Process /\ Fits(procs[p])
  BY ProcType DEF IInv, Placed
<1>1. sets' = sets /\ procs[p].at \in {"inject", "unwind"} /\ procs[p].at \in Writing
  BY DEF ReportPush, WriteLog, Files, Writing
<1>2. /\ history'.begun = history.begun /\ history'.clash = history.clash /\ history'.closed = history.closed
  BY <1>a DEF ReportPush, WriteLog, TypeOK
<1>3. /\ procs'[p].at \notin Writing
      /\ \A q \in Procs \ {p} : procs'[q] = procs[q] /\ Applies(q)' = Applies(q)
  <2>1. \/ procs' = [procs EXCEPT ![p] = Ended(p)]
        \/ procs' = [procs EXCEPT ![p] = [procs[p] EXCEPT !.at = "gate 2"]]
    BY DEF ReportPush, WriteLog, End, Goes
  <2>2. CASE procs' = [procs EXCEPT ![p] = Ended(p)]
    BY <1>a, <2>2 DEF Ended, IdleProc, Writing, Applies, Command
  <2>3. CASE procs' = [procs EXCEPT ![p] = [procs[p] EXCEPT !.at = "gate 2"]]
    BY <1>a, <2>3 DEF Process, Writing, Applies, Command
  <2>4. QED
    BY <2>1, <2>2, <2>3
<1>4. \A q \in Procs : procs'[q].at \in Writing => q # p /\ procs'[q] = procs[q] /\ Applies(q)' = Applies(q)
  BY <1>3
<1>5. SetsKnown'
  BY ZenonT(60), <1>a, <1>1, <1>2, <1>4 DEF SetsInv, SetsKnown, Writing
<1>6. Unshared'
  BY <1>a, <1>1, <1>2, <1>4 DEF SetsInv, Unshared, Calm
<1>7. \A q \in Procs : procs'[q].at \in {"create", "create own", "inject"} =>
         procs'[q] = procs[q] /\ Applies(q)' = Applies(q)
  BY <1>4 DEF Writing
<1>8. Fresh'
  BY <1>a, <1>1, <1>2, <1>7 DEF SetsInv, Fresh, Calm, At
<1>9. Alone'
  BY ZenonT(60), <1>a, <1>1, <1>2, <1>7 DEF SetsInv, Alone, Calm, At
<1>10. Sent'
  BY <1>a, <1>1, <1>2, <1>7 DEF SetsInv, Sent, At
<1>11. OneSetPerName'
  BY <1>a, <1>1, <1>2 DEF SetsInv, OneSetPerName
<1>12. procs[p].set \in DOMAIN sets
  BY <1>a, <1>1 DEF SetsInv, SetsKnown
<1>13. procs[p].at = "inject" => procs[p].pending = {}
  BY DEF ReportPush, WriteLog, At
<1>14. procs[p].at = "inject" => \A item \in procs[p].rows : sets[procs[p].set].entries[item] > 0
  BY <1>a, <1>13 DEF SetsInv, Sent, At
<1>15. Logged' /\ ReportedSetHoldsAll'
  <2>1. CASE ReportPush(p)
    <3>1. \/ history' = history
          \/ /\ procs[p].at = "inject"
             /\ history'.reports = history.reports \cup {[set |-> procs[p].set, rows |-> procs[p].rows]}
      BY <2>1, <1>a, <1>1 DEF ReportPush, At, TypeOK
    <3>2. logs' = logs
      BY <2>1 DEF ReportPush, Files
    <3>3. QED
      BY <1>a, <1>1, <1>2, <1>12, <1>14, <3>1, <3>2 DEF SetsInv, Logged, ReportedSetHoldsAll
  <2>2. CASE WriteLog(p)
    <3> DEFINE entry == [set |-> procs[p].own, outcome |-> Outcome(p)]
    <3>1. history' = history /\ logs' = logs \cup {entry} /\ Applies(p)
      BY <2>2 DEF WriteLog
    <3>2. procs[p].own \in DOMAIN sets /\ sets[procs[p].own].name = procs[p].name
      BY <1>a, <1>1, <3>1 DEF SetsInv, SetsKnown
    <3>3. entry.set = procs[p].own /\ entry.outcome = Outcome(p) /\ DOMAIN entry.outcome = procs[p].rows
      BY DEF Outcome
    <3>4. CASE procs[p].at = "unwind"
      <4>1. procs[p].failed \in procs[p].rows
        BY <1>a, <3>4 DEF Fits
      <4>2. Outcome(p)[procs[p].failed] = "FAILED"
        BY <4>1 DEF Outcome
      <4>3. \E item \in DOMAIN entry.outcome : entry.outcome[item] = "FAILED"
        BY <3>3, <4>1, <4>2
      <4> HIDE DEF entry
      <4>4. QED
        BY <1>a, <1>1, <3>1, <3>2, <3>3, <4>3 DEF SetsInv, Logged, ReportedSetHoldsAll
    <3>5. CASE procs[p].at = "inject"
      <4>1. procs[p].set = procs[p].own \/ procs[p].name \in history.clash \cup history.closed
        BY <1>a, <3>1, <3>5 DEF SetsInv, Sent, At
      <4>2. \/ sets[entry.set].name \in history.clash \cup history.closed
            \/ \A item \in DOMAIN entry.outcome : sets[entry.set].entries[item] > 0
        BY <1>14, <3>2, <3>3, <3>5, <4>1
      <4> HIDE DEF entry
      <4>3. QED
        BY <1>a, <1>1, <3>1, <3>2, <3>3, <4>2 DEF SetsInv, Logged, ReportedSetHoldsAll
    <3>6. QED
      BY <1>1, <3>4, <3>5
  <2>3. QED
    BY <2>1, <2>2
<1>16. QED
  BY <1>5, <1>6, <1>8, <1>9, <1>10, <1>11, <1>15 DEF SetsInv

(* An apply begins under a name that nobody has, or the name is marked. *)
LEMMA BeginSets ==
  ASSUME IInv, NEW p \in Procs, BeginApply(p)
  PROVE  SetsInv'
<1>a. TypeOK /\ Placed /\ SetsInv /\ procs \in [Procs -> Process] /\ procs[p] \in Process /\ Fits(procs[p])
  BY ProcType DEF IInv, Placed
<1> DEFINE name == <<Command(p).name, clock>>
<1>1. /\ UNCHANGED <<sets, logs>>
      /\ procs' = [procs EXCEPT ![p] = [procs[p] EXCEPT !.at = "create own", !.name = name,
                           !.rows = TemplateRows, !.pending = TemplateRows]]
      /\ history' = [history EXCEPT
                 !.begun = @ \cup {name},
                 !.clash = @ \cup (IF name \in history.begun THEN {name} ELSE {})]
      /\ Applies(p) /\ Len(name) = 2
  <2>1. Applies(p)
    BY <1>a DEF BeginApply, Starts, At, Fits, Applies, Command
  <2>2. QED
    BY <2>1 DEF BeginApply, Goes, Files
<1> HIDE DEF name
<1>2. /\ history'.begun = history.begun \cup {name} /\ history'.closed = history.closed
      /\ history'.reports = history.reports /\ history.clash \subseteq history'.clash
      /\ name \in history'.clash \/ name \notin history.begun
  BY <1>a, <1>1 DEF TypeOK
<1>3. /\ procs'[p].at = "create own" /\ procs'[p].name = name /\ procs'[p].todo = procs[p].todo
      /\ Applies(p)' /\ \A q \in Procs \ {p} : procs'[q] = procs[q] /\ Applies(q)' = Applies(q)
  BY <1>1, <1>a DEF Process, Applies, Command
<1>4. ASSUME NEW q \in Procs \ {p}, procs[q].at \in Writing, name \notin history'.clash
      PROVE  procs[q].name # name
  <2>1. CASE Applies(q)
    BY <1>a, <1>2, <1>4, <2>1 DEF SetsInv, SetsKnown
  <2>2. CASE ~ Applies(q)
    <3>1. Len(procs[q].name) = 1
      BY <1>a, <1>4, <2>2 DEF Placed, Fits, Applies, Command
    <3>2. QED
      BY <1>1, <3>1, Lengths
  <2>3. QED
    BY <2>1, <2>2
<1>5. SetsKnown'
  <2>1. \A n \in DOMAIN sets' :
          /\ sets'[n].state # "in progress" => sets'[n].name \in history'.closed
          /\ Len(sets'[n].name) = 2 => sets'[n].name \in history'.begun
    BY <1>a, <1>1, <1>2 DEF SetsInv, SetsKnown
  <2>2. ASSUME NEW q \in Procs
        PROVE  /\ procs'[q].at \in Writing /\ Applies(q)' => procs'[q].name \in history'.begun
               /\ procs'[q].at \in {"inject", "unwind"} =>
                     procs'[q].set \in DOMAIN sets' /\ sets'[procs'[q].set].name = procs'[q].name
               /\ procs'[q].at \in Writing \ {"create own"} /\ Applies(q)' =>
                     procs'[q].own \in DOMAIN sets' /\ sets'[procs'[q].own].name = procs'[q].name
    <3>1. CASE q = p
      BY <1>2, <1>3, <3>1
    <3>2. CASE q # p
      BY <1>a, <1>1, <1>2, <1>3, <3>2 DEF SetsInv, SetsKnown
    <3>3. QED
      BY <3>1, <3>2
  <2>3. QED
    BY <2>1, <2>2 DEF SetsKnown
<1>6. Unshared'
  <2>1. SUFFICES ASSUME NEW q \in Procs, NEW r \in Procs, q # r, procs'[q].at \in Writing, procs'[r].at \in Writing,
                        Applies(q)', procs'[q].name \notin history'.clash
                 PROVE  procs'[r].name # procs'[q].name
    BY DEF Unshared, Calm
  <2>2. CASE q = p \/ r = p
    BY <1>3, <1>4, <2>1, <2>2
  <2>3. CASE q # p /\ r # p
    BY <1>a, <1>2, <1>3, <2>1, <2>3 DEF SetsInv, Unshared, Calm
  <2>4. QED
    BY <2>2, <2>3
<1>7. Fresh'
  <2>1. SUFFICES ASSUME NEW q \in Procs, procs'[q].at = "create own", procs'[q].name \notin history'.clash,
                        NEW n \in DOMAIN sets
                 PROVE  sets[n].name # procs'[q].name
    BY <1>1 DEF Fresh, Calm, At
  <2>2. CASE q = p
    <3>1. name \notin history.begun /\ procs'[q].name = name
      BY <1>2, <1>3, <2>1, <2>2
    <3>2. Len(sets[n].name) = 2 => sets[n].name \in history.begun
      BY <1>a DEF SetsInv, SetsKnown
    <3>3. QED
      BY <1>1, <3>1, <3>2
  <2>3. CASE q # p
    BY <1>a, <1>2, <1>3, <2>1, <2>3 DEF SetsInv, Fresh, Calm, At
  <2>4. QED
    BY <2>2, <2>3
<1>8. \A q \in Procs : procs'[q].at \in {"create", "inject"} => q # p /\ procs'[q] = procs[q] /\ Applies(q)' = Applies(q)
  BY <1>3
<1>9. Alone'
  BY ZenonT(60), <1>a, <1>1, <1>2, <1>8 DEF SetsInv, Alone, Calm, At
<1>10. Sent'
  BY <1>a, <1>1, <1>2, <1>8 DEF SetsInv, Sent, At
<1>11. Logged' /\ OneSetPerName' /\ ReportedSetHoldsAll'
  BY <1>a, <1>1, <1>2 DEF SetsInv, Logged, OneSetPerName, ReportedSetHoldsAll
<1>12. QED
  BY <1>5, <1>6, <1>7, <1>9, <1>10, <1>11 DEF SetsInv

(* Somebody completes a set. *)
LEMMA CompleteSets ==
  ASSUME IInv, NEW n \in DOMAIN sets, Complete(n)
  PROVE  SetsInv'
<1>a. TypeOK /\ Placed /\ SetsInv /\ sets[n] \in UpdateSet
  <2>1. TypeOK /\ Placed /\ SetsInv
    BY DEF IInv
  <2>2. sets \in Seq(UpdateSet)
    BY <2>1 DEF TypeOK
  <2>3. QED
    BY <2>1, <2>2
<1>1. UNCHANGED <<procs, logs>> /\ sets' = [sets EXCEPT ![n] = [sets[n] EXCEPT !.state = "complete"]]
  BY DEF Complete, Files
<1>2. /\ history'.begun = history.begun /\ history'.clash = history.clash
      /\ history'.reports = history.reports /\ history'.closed = history.closed \cup {sets[n].name}
  BY <1>a DEF Complete, TypeOK
<1> DEFINE one == [sets[n] EXCEPT !.state = "complete"]
<1>3. one.name = sets[n].name /\ one.state = "complete" /\ one.entries = sets[n].entries
  BY <1>a DEF UpdateSet
<1>4. sets' = [sets EXCEPT ![n] = one]
  BY <1>1
<1> HIDE DEF one
<1>5. /\ DOMAIN sets' = DOMAIN sets /\ sets'[n] = one
      /\ \A m \in DOMAIN sets \ {n} : sets'[m] = sets[m]
  BY <1>4
<1>6. \A m \in DOMAIN sets :
         /\ sets'[m].name = sets[m].name /\ sets'[m].entries = sets[m].entries
         /\ sets'[m].state = "in progress" => sets[m].state = "in progress"
         /\ sets'[m].state # "in progress" => sets[m].state # "in progress" \/ m = n
  BY <1>3, <1>5
<1>7. SetsKnown'
  <2>1. \A m \in DOMAIN sets' :
          /\ sets'[m].state # "in progress" => sets'[m].name \in history'.closed
          /\ Len(sets'[m].name) = 2 => sets'[m].name \in history'.begun
    BY <1>a, <1>2, <1>5, <1>6 DEF SetsInv, SetsKnown
  <2>2. \A q \in Procs :
               /\ procs[q].at \in Writing /\ Applies(q) => procs[q].name \in history'.begun
               /\ procs[q].at \in {"inject", "unwind"} =>
                     procs[q].set \in DOMAIN sets' /\ sets'[procs[q].set].name = procs[q].name
               /\ procs[q].at \in Writing \ {"create own"} /\ Applies(q) =>
                     procs[q].own \in DOMAIN sets' /\ sets'[procs[q].own].name = procs[q].name
    BY ZenonT(60), <1>a, <1>2, <1>5, <1>6 DEF SetsInv, SetsKnown
  <2>3. QED
    BY <1>1, <2>1, <2>2 DEF SetsKnown, Applies, Command
<1>8. Unshared'
  BY <1>a, <1>1, <1>2 DEF SetsInv, Unshared, Calm, Applies, Command
<1>9. Fresh'
  <2>1. \A q \in Procs : procs[q].at = "create own" /\ procs[q].name \notin history.clash =>
           \A m \in DOMAIN sets : sets[m].name # procs[q].name
    BY <1>a DEF SetsInv, Fresh, Calm, At
  <2>3. \A q \in Procs : procs[q].at = "create own" /\ procs[q].name \notin history.clash =>
           \A m \in DOMAIN sets' : sets'[m].name # procs[q].name
    BY ZenonT(60), <1>5, <1>6, <2>1
  <2>2. QED
    BY <1>1, <1>2, <2>3 DEF Fresh, Calm, At
<1>10. Alone'
  <2>1. ASSUME NEW q \in Procs, procs[q].at = "create", procs[q].name \notin history.clash
        PROVE  /\ \A m \in DOMAIN sets' : sets'[m].name = procs[q].name => sets'[m].state # "in progress"
               /\ \A r \in Procs \ {q} : procs[r].at = "create" => procs[r].name # procs[q].name
    <3>1. /\ \A m \in DOMAIN sets : sets[m].name = procs[q].name => sets[m].state # "in progress"
          /\ \A r \in Procs \ {q} : procs[r].at = "create" => procs[r].name # procs[q].name
      BY <1>a, <2>1 DEF SetsInv, Alone, Calm, At
    <3>2. QED
      BY <1>5, <1>6, <3>1
  <2>2. QED
    BY <1>1, <1>2, <2>1 DEF Alone, Calm, At
<1>11. Sent'
  <2>1. \A q \in Procs : procs[q].at = "inject" => procs[q].set \in DOMAIN sets
    BY <1>a DEF SetsInv, SetsKnown
  <2>2. QED
    BY <1>a, <1>1, <1>2, <1>6, <2>1 DEF SetsInv, Sent, At, Applies, Command
<1>12. OneSetPerName'
  BY <1>a, <1>2, <1>5, <1>6 DEF SetsInv, OneSetPerName
<1>13. Logged' /\ ReportedSetHoldsAll'
  <2>1. /\ DOMAIN sets \subseteq DOMAIN sets' /\ history.clash \subseteq history'.clash
        /\ history.closed \subseteq history'.closed
        /\ history'.reports = history.reports /\ logs' = logs
    BY <1>1, <1>2, <1>5
  <2>2. QED
    BY <1>a, <1>6, <2>1, HoldsStill DEF Logged, ReportedSetHoldsAll
<1>14. QED
  BY <1>7, <1>8, <1>9, <1>10, <1>11, <1>12, <1>13 DEF SetsInv

(* One process takes a step elsewhere. *)
LEMMA AsideSets ==
  ASSUME TypeOK, SetsInv, UNCHANGED <<sets, logs, history>>, NEW p \in Procs, NEW me,
         me.at \notin Writing, Goes(p, me)
  PROVE  SetsInv'
<1>1. procs'[p] = me /\ \A q \in Procs \ {p} : procs'[q] = procs[q]
  BY ProcType DEF Goes
<1>2. QED
  BY <1>1, QuietSets DEF SameWork

LEMMA EndSets ==
  ASSUME TypeOK, SetsInv, UNCHANGED <<sets, logs, history>>, NEW p \in Procs, End(p)
  PROVE  SetsInv'
<1>1. Ended(p).at \notin Writing
  BY DEF Ended, IdleProc, Writing
<1>2. QED
  BY <1>1, AsideSets DEF End

LEMMA PullSets ==
  ASSUME IInv, NEW p \in Procs, Pull(p)
  PROVE  SetsInv'
<1>a. TypeOK /\ Placed /\ SetsInv /\ procs[p] \in Process /\ Fits(procs[p])
  BY ProcType DEF IInv, Placed
<1>b. UNCHANGED <<sets, logs, history>>
  BY DEF Pull, BeginPull, FetchPage, TableUnavailable, WriteRecord, WriteManifest, Files
<1>1. CASE BeginPull(p)
  <2> DEFINE me == [procs[p] EXCEPT !.at = "fetch", !.owed = present, !.truth = present]
  <2>1. me.at = "fetch" /\ Goes(p, me)
    BY <1>1, <1>a DEF BeginPull, Process
  <2> HIDE DEF me
  <2>2. QED
    BY <1>a, <1>b, <2>1, AsideSets DEF Writing
<1>2. CASE FetchPage(p)
  <2> DEFINE page == Page(Matching(p), procs[p].offset)
             me == [procs[p] EXCEPT !.page = @ \cup page, !.rows = @ \cup page, !.offset = @ + PageSize]
  <2>1. page \in SUBSET Rows /\ procs[p].at = "fetch"
    BY <1>2 DEF FetchPage, Page, Matching, Asked, At
  <2>2. me.at = "fetch" /\ Advanced(p, page).at \in {"fetch", "write"}
    BY <1>a, <2>1, AdvancedFits DEF Process, At
  <2>3. Goes(p, Advanced(p, page)) \/ Goes(p, me)
    BY <1>2 DEF FetchPage
  <2> HIDE DEF me, page
  <2>4. QED
    BY <1>a, <1>b, <2>2, <2>3, AsideSets DEF Writing
<1>3. CASE TableUnavailable(p)
  <2> DEFINE next == Advanced(p, {})
             me == [next EXCEPT !.owed = @ \ Unread(p)]
  <2>1. next \in Process /\ next.at \in {"fetch", "write"}
    BY <1>a, <1>3, AdvancedFits DEF TableUnavailable
  <2>2. me.at = next.at
    BY <2>1 DEF Process
  <2>3. Goes(p, me)
    BY <1>3 DEF TableUnavailable
  <2> HIDE DEF me, next
  <2>4. QED
    BY <1>a, <1>b, <2>1, <2>2, <2>3, AsideSets DEF Writing
<1>4. CASE WriteRecord(p)
  <2>1. PICK row \in Rows \cup procs[p].pending : Goes(p, [procs[p] EXCEPT !.pending = @ \ {row}])
    BY <1>4, WritableType DEF WriteRecord
  <2> DEFINE me == [procs[p] EXCEPT !.pending = @ \ {row}]
  <2>2. me.at = "write" /\ Goes(p, me)
    BY <1>4, <1>a, <2>1 DEF WriteRecord, At, Process
  <2> HIDE DEF me
  <2>3. QED
    BY <1>a, <1>b, <2>2, AsideSets DEF Writing
<1>5. CASE WriteManifest(p)
  BY <1>5, <1>a, <1>b, EndSets DEF WriteManifest
<1>6. QED
  BY <1>1, <1>2, <1>3, <1>4, <1>5 DEF Pull

LEMMA JudgeSets ==
  ASSUME IInv, NEW p \in Procs, Assess(p) \/ Gate1(p) \/ Gate2(p) \/ CaptureFails(p)
  PROVE  SetsInv'
<1>1. TypeOK /\ SetsInv /\ UNCHANGED <<sets, logs, history>> /\ procs[p] \in Process
  BY ProcType DEF IInv, Assess, Gate1, Gate2, CaptureFails, Files
<1>2. CASE End(p)
  BY <1>1, <1>2, EndSets
<1>3. CASE Goes(p, [procs[p] EXCEPT !.at = "go", !.capture = present])
  <2> DEFINE me == [procs[p] EXCEPT !.at = "go", !.capture = present]
  <2>1. me.at = "go"
    BY <1>1 DEF Process
  <2> HIDE DEF me
  <2>2. QED
    BY <1>1, <1>3, <2>1, AsideSets DEF me, Writing
<1>4. QED
  BY <1>2, <1>3, JudgeWays

(* Rows that come and go, and the clock, are nothing to the update sets. *)
LEMMA SourceSets ==
  ASSUME IInv, Tick \/ \E row \in Rows : Insert(row) \/ Delete(row)
  PROVE  SetsInv'
<1>1. TypeOK /\ Placed /\ SetsInv
  BY DEF IInv
<1>2. CASE Tick
  BY <1>1, <1>2, QuietSets DEF Tick, Files, SameWork
<1>3. ASSUME NEW row \in Rows, Insert(row) \/ Delete(row) PROVE SetsInv'
  <2>1. /\ UNCHANGED <<sets, logs, history>>
        /\ \A q \in Procs : procs'[q] \in {Disturbed(q), Unsettled(Disturbed(q), row)}
    BY <1>3 DEF Insert, Delete, Unsettled, Files
  <2>2. \A q \in Procs : SameWork(procs'[q], procs[q])
    BY <1>1, <2>1, DisturbedType DEF SameWork
  <2>3. QED
    BY <1>1, <2>1, <2>2, QuietSets
<1>4. QED
  BY <1>2, <1>3

(* No step of the pulls, pushes, applies, assessments or of the others breaks *)
(* what is said of the update sets.                                            *)
LEMMA NextSets == IInv /\ [AssessNext]_assessVars => SetsInv'
<1> SUFFICES ASSUME IInv, [AssessNext]_assessVars PROVE SetsInv'
  OBVIOUS
<1>1. TypeOK /\ Placed /\ SetsInv /\ Placed' /\ procs' \in [Procs -> Process]
  BY NextShape DEF IInv, TypeOK
<1>2. CASE UNCHANGED assessVars
  BY <1>1, <1>2, QuietSets DEF assessVars, vars, SameWork
<1>3. ASSUME NEW p \in Procs, Push(p) PROVE SetsInv'
  BY <1>1, <1>3, LoadSets, LookUpSets, CreateSets, InjectSets, SaySets DEF Push
<1>4. ASSUME NEW p \in Procs, Apply(p) PROVE SetsInv'
  BY <1>4, BeginSets, CreateSets, SaySets DEF Apply
<1>5. ASSUME NEW p \in Procs, Crash(p) PROVE SetsInv'
  BY <1>1, <1>5, EndSets DEF Crash
<1>6. QED
  BY <1>2, <1>3, <1>4, <1>5, PullSets, FailSets, JudgeSets, SourceSets, CompleteSets DEF AssessNext, Next

LEMMA InitSets == AssessInit => SetsInv
<1> SUFFICES ASSUME AssessInit PROVE SetsInv
  OBVIOUS
<1>1. sets = <<>> /\ logs = {} /\ history.reports = {}
  BY DEF AssessInit, Init
<1>2. \A p \in Procs : procs[p].at = "idle"
  BY DEF AssessInit, Init, IdleProc
<1>3. DOMAIN sets = {}
  BY <1>1
<1>4. SetsKnown /\ Unshared /\ Fresh /\ Alone /\ Sent
  BY <1>2, <1>3 DEF SetsKnown, Unshared, Fresh, Alone, Sent, At, Writing
<1>5. Logged /\ OneSetPerName /\ ReportedSetHoldsAll
  BY <1>1, <1>3 DEF Logged, OneSetPerName, ReportedSetHoldsAll
<1>6. QED
  BY <1>4, <1>5 DEF SetsInv

-----------------------------------------------------------------------------
(***************************************************************************)
(* Archives                                                                *)
(***************************************************************************)
(* A pull that is over stays over. *)
LEMMA OverStays ==
  ASSUME TypeOK, TypeOK', \A q \in Procs : Len(procs'[q].todo) <= Len(procs[q].todo),
         NEW pull \in Pulls \cup {Nothing}, Over(pull)
  PROVE  Over(pull)'
<1>1. CASE pull = Nothing
  BY <1>1 DEF Over
<1>2. CASE pull \in Pulls
  <2>1. pull[1] \in Procs /\ pull[2] \in Nat
    BY <1>2 DEF Pulls
  <2>2. procs[pull[1]].todo \in Seq(Commands)
    BY <2>1, ProcType DEF Process
  <2>3. procs'[pull[1]].todo \in Seq(Commands)
    BY <2>1 DEF TypeOK, Process
  <2>4. Len(procs[pull[1]].todo) \in Nat /\ Len(procs'[pull[1]].todo) \in Nat
    BY <2>2, <2>3
  <2>5. Len(procs[pull[1]].todo) < pull[2]
    BY <1>2, NothingAssumption DEF Over
  <2>6. Len(procs'[pull[1]].todo) < pull[2]
    BY <2>1, <2>4, <2>5
  <2>7. QED
    BY <2>6 DEF Over
<1>3. QED
  BY <1>1, <1>2

(* The pull of a process that has something to do is not over. *)
LEMMA NotOver ==
  ASSUME TypeOK, NEW p \in Procs, procs[p].todo # <<>>
  PROVE  ThisPull(p) \in Pulls /\ ~ Over(ThisPull(p))
<1>1. Len(procs[p].todo) \in Nat
  BY CommandType
<1>2. ThisPull(p) \in Pulls /\ ThisPull(p)[1] = p /\ ThisPull(p)[2] = Len(procs[p].todo)
  BY <1>1 DEF ThisPull, Pulls
<1>3. ThisPull(p) # Nothing /\ ~ Len(procs[p].todo) < Len(procs[p].todo)
  BY <1>1, <1>2, NothingAssumption
<1>4. QED
  BY <1>2, <1>3 DEF Over

(* One process takes a step that no directory and no row is touched by. *)
LEMMA StepArchive ==
  ASSUME TypeOK, TypeOK', ArchiveInv, UNCHANGED <<present, dirs>>, NEW p \in Procs,
         \A q \in Procs \ {p} : procs'[q] = procs[q],
         Len(procs'[p].todo) <= Len(procs[p].todo),
         At(p, "fetch")' => Reading(p)', At(p, "write")' => Written(p)'
  PROVE  ArchiveInv'
<1>1. \A q \in Procs : Len(procs'[q].todo) <= Len(procs[q].todo)
  <2>1. ASSUME NEW q \in Procs PROVE procs[q].todo \in Seq(Commands)
    BY ProcType DEF Process
  <2>2. ASSUME NEW q \in Procs PROVE Len(procs[q].todo) <= Len(procs[q].todo)
    BY <2>1
  <2>3. QED
    BY <2>2
<1>2. ASSUME NEW q \in Procs, At(q, "fetch")' PROVE Reading(q)'
  <2>1. CASE q # p
    BY <1>2, <2>1 DEF ArchiveInv, Reading, Behind, Matching, Asked, At
  <2>2. QED
    BY <1>2, <2>1
<1>3. ASSUME NEW q \in Procs, At(q, "write")' PROVE Written(q)'
  <2>1. CASE q # p
    BY <1>3, <2>1 DEF ArchiveInv, Written, ThisPull, At
  <2>2. QED
    BY <1>3, <2>1
<1>4. ASSUME NEW s \in Seconds', dirs'[s].manifest # Nothing
      PROVE  \E pull \in dirs'[s].writers : Over(pull)'
  <2>1. PICK pull \in dirs[s].writers : Over(pull)
    BY <1>4 DEF ArchiveInv, Seconds
  <2>2. dirs[s] \in Dir
    BY <1>4 DEF TypeOK, Seconds
  <2>3. pull \in Pulls \cup {Nothing}
    BY <2>2 DEF Dir
  <2>4. QED
    BY <1>1, <2>1, <2>3, OverStays
<1>5. ArchiveIsWhole'
  BY DEF ArchiveInv, ArchiveIsWhole, Seconds, Readable, WrittenOnce
<1>6. \A row \in present' : ParentOf[row] \in present' \cup {NoParent}
  BY DEF ArchiveInv
<1>7. QED
  BY <1>2, <1>3, <1>4, <1>5, <1>6 DEF ArchiveInv

(* One process writes into the directory of its pull, or dies while it does. *)
(* Every other pull that writes there finds that it is not alone.            *)
LEMMA WriteArchive ==
  ASSUME TypeOK, TypeOK', Placed, ArchiveInv, NEW p \in Procs, At(p, "write"), present' = present,
         NEW mine, mine = ThisPull(p), NEW d, dirs' = [dirs EXCEPT ![procs[p].second] = d],
         d.writers = dirs[procs[p].second].writers \cup {mine},
         \A q \in Procs \ {p} : procs'[q] = procs[q],
         Len(procs'[p].todo) <= Len(procs[p].todo),
         d.manifest # Nothing => d.manifest = dirs[procs[p].second].manifest \/ Over(mine)',
         d.manifest # Nothing /\ ~ d.cut /\ (\A a, b \in d.writers : a = b) => d.owed \subseteq d.whole,
         ~ At(p, "fetch")', At(p, "write")' => Written(p)'
  PROVE  ArchiveInv'
<1> DEFINE s == procs[p].second
<1>a. /\ s \in Seconds /\ dirs[s] \in Dir /\ procs[p].todo # <<>>
  <2>1. procs[p] \in Process /\ procs[p].at = "write" /\ s <= clock /\ procs[p].todo # <<>>
    BY ProcType DEF Placed, Fits, At
  <2>2. s \in Nat
    BY <2>1 DEF Process
  <2>3. QED
    BY <2>1, <2>2, DirsType
<1>b. /\ Seconds' = Seconds /\ dirs'[s] = d /\ \A t \in Seconds \ {s} : dirs'[t] = dirs[t]
  BY <1>a DEF Seconds
<1>1. \A q \in Procs : Len(procs'[q].todo) <= Len(procs[q].todo)
  <2>1. ASSUME NEW q \in Procs PROVE procs[q].todo \in Seq(Commands)
    BY ProcType DEF Process
  <2>2. ASSUME NEW q \in Procs PROVE Len(procs[q].todo) <= Len(procs[q].todo)
    BY <2>1
  <2>3. QED
    BY <2>2
<1>2. ASSUME NEW q \in Procs, At(q, "fetch")' PROVE Reading(q)'
  <2>1. CASE q # p
    BY <1>2, <2>1 DEF ArchiveInv, Reading, Behind, Matching, Asked, At
  <2>2. QED
    BY <1>2, <2>1
<1>3. ASSUME NEW q \in Procs, At(q, "write")' PROVE Written(q)'
  <2>1. CASE q # p /\ procs[q].second # s
    <3>1. procs'[q] = procs[q] /\ procs[q].at = "write" /\ Written(q)
      BY <1>3, <2>1 DEF ArchiveInv, At
    <3>2. procs[q].second \in Seconds
      <4>1. procs[q] \in Process /\ procs[q].second <= clock
        BY <3>1, ProcType DEF Placed, At
      <4>2. procs[q].second \in Nat
        BY <4>1 DEF Process
      <4>3. QED
        BY <4>1, <4>2, DirsType
    <3>3. dirs'[procs[q].second] = dirs[procs[q].second]
      BY <1>b, <2>1, <3>2
    <3>4. QED
      BY <3>1, <3>3 DEF Written, ThisPull
  <2>2. CASE q # p /\ procs[q].second = s
    <3>1. procs'[q] = procs[q] /\ procs[q].at = "write" /\ Written(q)
      BY <1>3, <2>2 DEF ArchiveInv, At
    <3>2. ThisPull(p) # ThisPull(q) /\ ThisPull(q)' = ThisPull(q)
      BY <2>2, <3>1 DEF ThisPull
    <3>3. ~ dirs'[s].writers \subseteq {ThisPull(q)}
      BY <1>b, <3>2
    <3>4. QED
      BY <2>2, <3>1, <3>2, <3>3 DEF Written
  <2>3. QED
    BY <1>3, <2>1, <2>2
<1>4. ASSUME NEW t \in Seconds', dirs'[t].manifest # Nothing
      PROVE  \E pull \in dirs'[t].writers : Over(pull)'
  <2>1. CASE dirs'[t].manifest = dirs[t].manifest /\ dirs[t].writers \subseteq dirs'[t].writers
    <3>1. PICK pull \in dirs[t].writers : Over(pull)
      BY <1>4, <1>b, <2>1 DEF ArchiveInv
    <3>2. dirs[t] \in Dir
      BY <1>4, <1>b DEF TypeOK, Seconds
    <3>3. pull \in Pulls \cup {Nothing}
      BY <3>2 DEF Dir
    <3>4. Over(pull)'
      BY <1>1, <3>1, <3>3, OverStays
    <3>5. QED
      BY <2>1, <3>1, <3>4
  <2>2. CASE t = s /\ Over(mine)'
    BY <1>b, <2>2
  <2>3. QED
    BY <1>4, <1>b, <2>1, <2>2
<1>5. ArchiveIsWhole'
  <2>1. ASSUME NEW t \in Seconds', Readable(t)', WrittenOnce(t)' PROVE dirs'[t].owed \subseteq dirs'[t].whole
    <3>1. CASE t = s
      BY <1>b, <2>1, <3>1 DEF Readable, WrittenOnce
    <3>2. CASE t # s
      <4>1. t \in Seconds /\ dirs'[t] = dirs[t]
        BY <1>b, <3>2
      <4>2. QED
        BY <2>1, <4>1 DEF ArchiveInv, ArchiveIsWhole, Readable, WrittenOnce
    <3>3. QED
      BY <3>1, <3>2
  <2>2. QED
    BY <2>1 DEF ArchiveIsWhole
<1>6. \A row \in present' : ParentOf[row] \in present' \cup {NoParent}
  BY DEF ArchiveInv
<1>7. QED
  BY <1>2, <1>3, <1>4, <1>5, <1>6 DEF ArchiveInv

(* What a query asks for is of its step. *)
LEMMA AskedStep ==
  ASSUME TypeOK, NEW p \in Procs, Reading(p), NEW row \in Asked(p)
  PROVE  row \in Rows /\ StepOf[row] = procs[p].step
<1>1. CASE procs[p].related
  <2>1. row \in Rows /\ ParentOf[row] \in procs[p].roots
    BY <1>1 DEF Asked
  <2>2. ParentOf[ParentOf[row]] = NoParent /\ StepOf[ParentOf[row]] = procs[p].step
    BY <1>1, <2>1 DEF Reading
  <2>3. procs[p].roots \subseteq Rows
    BY ProcType DEF Process
  <2>4. ParentOf[row] # NoParent
    BY <2>1, <2>3, ParentsAssumption
  <2>5. QED
    BY <2>1, <2>2, <2>4, ParentsAssumption
<1>2. CASE ~ procs[p].related
  BY <1>2 DEF Asked
<1>3. QED
  BY <1>1, <1>2

(* Sets of rows are finite sets of numbers. *)
LEMMA RowsType ==
  ASSUME NEW S \in SUBSET Rows
  PROVE  S \in SUBSET Nat /\ IsFiniteSet(S)
  BY RowsAssumption, FS_Subset

(* When a query is over and everything owed that it asked for was read, the    *)
(* next query begins with all that was asked before, or all was asked.         *)
LEMMA AdvancedReading ==
  ASSUME TypeOK, NEW p \in Procs, Reading(p), NEW page \in SUBSET Rows, page \subseteq Asked(p),
         procs'[p] \in Process,
         procs'[p].owed \subseteq procs[p].owed,
         \A row \in procs'[p].owed : ParentOf[row] \in procs'[p].owed \cup {NoParent},
         procs'[p].owed \cap Asked(p) \subseteq procs[p].page \cup page,
         procs'[p].rows = procs[p].rows \cup page, present' = present,
         \/ /\ ~ procs[p].related /\ procs'[p].at = "fetch"
            /\ procs'[p].related /\ procs'[p].roots = procs[p].page \cup page
            /\ procs'[p].step = procs[p].step /\ procs'[p].page = {} /\ procs'[p].offset = 0
         \/ /\ procs[p].related \/ procs[p].page \cup page = {}
            /\ procs'[p].at = "fetch"
            /\ ~ procs'[p].related /\ procs'[p].roots = {}
            /\ procs'[p].step = procs[p].step + 1 /\ procs'[p].page = {} /\ procs'[p].offset = 0
         \/ /\ procs[p].related \/ procs[p].page \cup page = {}
            /\ ~ procs[p].step < Steps
            /\ procs'[p].at = "write" /\ procs'[p].pending = procs'[p].rows
  PROVE  (At(p, "fetch")' => Reading(p)') /\ (At(p, "write")' => Written(p)')
<1> DEFINE owed == procs'[p].owed
           step == procs[p].step
<1>a. /\ procs[p] \in Process /\ step \in Nat /\ Steps \in Nat /\ owed \subseteq Rows
      /\ \A row \in Rows : StepOf[row] \in Nat /\ StepOf[row] <= Steps
      /\ procs[p].page \subseteq procs[p].rows
  <2>1. procs[p] \in Process /\ Steps \in Nat /\ \A row \in Rows : StepOf[row] \in 1 .. Steps
    BY ProcType, StepsAssumption
  <2>2. owed \subseteq Rows /\ step \in 1 .. Steps
    BY <2>1 DEF Process
  <2>3. QED
    BY <2>1, <2>2 DEF Reading
<1>1. ASSUME procs[p].related \/ procs[p].page \cup page = {}, NEW row \in owed, StepOf[row] <= step
      PROVE  row \in procs'[p].rows
  <2>1. CASE StepOf[row] < step
    BY <1>a, <2>1 DEF Reading, Behind
  <2>2. CASE StepOf[row] = step /\ procs[p].related
    <3>1. CASE ParentOf[row] = NoParent
      BY <1>a, <2>2, <3>1 DEF Reading, Behind
    <3>2. CASE ParentOf[row] # NoParent
      <4>1. ParentOf[row] \in owed /\ row \in Rows
        BY <1>a, <3>2
      <4>2. ParentOf[ParentOf[row]] = NoParent /\ StepOf[ParentOf[row]] = step
        BY <2>2, <3>2, <4>1, ParentsAssumption
      <4>3. ParentOf[row] \in procs[p].roots
        BY <2>2, <4>1, <4>2 DEF Reading
      <4>4. row \in Asked(p)
        BY <2>2, <4>1, <4>3 DEF Asked
      <4>5. QED
        BY <1>a, <4>4
    <3>3. QED
      BY <3>1, <3>2
  <2>3. CASE StepOf[row] = step /\ ~ procs[p].related
    <3>1. owed \cap Asked(p) = {}
      BY <1>1, <2>3
    <3>2. CASE ParentOf[row] = NoParent
      BY <1>a, <2>3, <3>1, <3>2 DEF Asked
    <3>3. CASE ParentOf[row] # NoParent
      <4>1. ParentOf[row] \in owed /\ row \in Rows /\ ParentOf[row] \in Rows
        BY <1>a, <3>3
      <4>2. ParentOf[ParentOf[row]] = NoParent /\ StepOf[ParentOf[row]] = step
        BY <2>3, <3>3, <4>1, ParentsAssumption
      <4>3. ParentOf[row] \in Asked(p)
        BY <2>3, <4>1, <4>2 DEF Asked
      <4>4. QED
        BY <3>1, <4>1, <4>3
    <3>4. QED
      BY <3>2, <3>3
  <2>4. QED
    <3>1. StepOf[row] \in Nat
      BY <1>a
    <3>2. StepOf[row] < step \/ StepOf[row] = step
      BY <1>1, <1>a, <3>1
    <3>3. QED
      BY <2>1, <2>2, <2>3, <3>2
<1>2. /\ owed \subseteq present'
      /\ \A row \in owed : ParentOf[row] \in owed \cup {NoParent}
  BY DEF Reading
<1>3. ASSUME procs'[p].offset = 0, NEW row \in owed \cap Asked(p)' PROVE Rank(Matching(p)', row) >= 0
  <2>1. Matching(p)' \in SUBSET Rows /\ row \in Matching(p)'
    BY <1>2, <1>3 DEF Matching, Asked
  <2>2. PICK rows : rows = Matching(p)'
    OBVIOUS
  <2>3. rows \in SUBSET Nat /\ IsFiniteSet(rows)
    BY <2>1, <2>2, RowsType
  <2>4. Rank(rows, row) \in 0 .. Cardinality(rows) - 1 /\ Cardinality(rows) \in Nat
    BY <2>1, <2>2, <2>3, RankType
  <2>5. Rank(rows, row) >= 0
    BY <2>4
  <2>6. QED
    BY <2>2, <2>5
<1>4. CASE /\ ~ procs[p].related /\ procs'[p].at = "fetch"
           /\ procs'[p].related /\ procs'[p].roots = procs[p].page \cup page
           /\ procs'[p].step = procs[p].step /\ procs'[p].page = {} /\ procs'[p].offset = 0
  <2>1. Asked(p) = {row \in Rows : ParentOf[row] = NoParent /\ StepOf[row] = step}
    BY <1>4 DEF Asked
  <2>2. procs[p].page \subseteq Asked(p)
    BY <1>4 DEF Reading
  <2>3. owed \cap Behind(p)' \subseteq procs'[p].rows
    <3>1. SUFFICES ASSUME NEW row \in owed, row \in Behind(p)' PROVE row \in procs'[p].rows
      OBVIOUS
    <3>2. \/ StepOf[row] < step
          \/ StepOf[row] = step /\ ParentOf[row] = NoParent
      BY <1>4, <3>1 DEF Behind
    <3>3. CASE StepOf[row] < step
      BY <1>a, <3>3 DEF Reading, Behind
    <3>4. CASE StepOf[row] = step /\ ParentOf[row] = NoParent
      BY <1>a, <2>1, <3>4
    <3>5. QED
      BY <3>2, <3>3, <3>4
  <2>4. /\ {row \in owed : ParentOf[row] = NoParent /\ StepOf[row] = step} \subseteq procs'[p].roots
        /\ \A row \in procs'[p].roots : ParentOf[row] = NoParent /\ StepOf[row] = step
    BY <1>4, <1>a, <2>1, <2>2
  <2>5. Reading(p)'
    BY <1>2, <1>3, <1>4, <2>3, <2>4 DEF Reading
  <2>6. QED
    BY <1>4, <2>5 DEF At
<1>5. CASE /\ procs[p].related \/ procs[p].page \cup page = {}
           /\ procs'[p].at = "fetch"
           /\ ~ procs'[p].related /\ procs'[p].roots = {}
           /\ procs'[p].step = procs[p].step + 1 /\ procs'[p].page = {} /\ procs'[p].offset = 0
  <2>1. owed \cap Behind(p)' \subseteq procs'[p].rows
    <3>1. SUFFICES ASSUME NEW row \in owed, row \in Behind(p)' PROVE row \in procs'[p].rows
      OBVIOUS
    <3>2. StepOf[row] < step + 1
      BY <1>5, <3>1 DEF Behind
    <3>3. StepOf[row] \in Nat
      BY <1>a
    <3>4. StepOf[row] <= step
      BY <1>a, <3>2, <3>3
    <3>5. QED
      BY <1>1, <1>5, <3>4
  <2>2. Reading(p)'
    BY <1>2, <1>3, <1>5, <2>1 DEF Reading
  <2>3. QED
    BY <1>5, <2>2 DEF At
<1>6. CASE /\ procs[p].related \/ procs[p].page \cup page = {}
           /\ ~ procs[p].step < Steps
           /\ procs'[p].at = "write" /\ procs'[p].pending = procs'[p].rows
  <2>1. ASSUME NEW row \in owed PROVE row \in procs'[p].rows
    <3>1. StepOf[row] \in Nat /\ StepOf[row] <= Steps
      BY <1>a
    <3>2. StepOf[row] <= step
      BY <1>a, <1>6, <3>1
    <3>3. QED
      BY <1>1, <1>6, <3>2
  <2>2. procs'[p].rows \ procs'[p].pending = {}
    BY <1>6
  <2>3. Written(p)'
    BY <2>1, <2>2 DEF Written
  <2>4. QED
    BY <1>6, <2>3 DEF At
<1>7. QED
  BY <1>4, <1>5, <1>6

(* A pull begins with all rows owed and none asked for. *)
LEMMA BeginArchive ==
  ASSUME IInv, TypeOK', NEW p \in Procs, BeginPull(p)
  PROVE  ArchiveInv'
<1>a. TypeOK /\ ArchiveInv /\ procs[p] \in Process /\ Fits(procs[p])
  BY ProcType DEF IInv, Placed
<1> DEFINE me == [procs[p] EXCEPT !.at = "fetch", !.owed = present, !.truth = present]
<1>1. procs' = [procs EXCEPT ![p] = me] /\ present' = present /\ dirs' = dirs /\ procs[p].at = "idle"
  BY DEF BeginPull, Goes, Elsewhere, Files, Starts, Busy
<1>2. procs[p].page = {} /\ procs[p].step = 1 /\ ~ procs[p].related
  <2>1. procs[p] = [IdleProc EXCEPT !.todo = procs[p].todo]
    BY <1>a, <1>1 DEF Fits
  <2> DEFINE todo == procs[p].todo
  <2>2. procs[p] = [IdleProc EXCEPT !.todo = todo]
    BY <2>1
  <2> HIDE DEF todo
  <2>3. QED
    BY <2>2 DEF IdleProc
<1>3. /\ me.at = "fetch" /\ me.owed = present /\ me.page = {} /\ me.step = 1 /\ ~ me.related
      /\ me.todo = procs[p].todo /\ me.offset = 0
  <2>1. procs[p].offset = 0
    <3> DEFINE todo == procs[p].todo
    <3>1. procs[p] = [IdleProc EXCEPT !.todo = todo]
      BY <1>a, <1>1 DEF Fits
    <3> HIDE DEF todo
    <3>2. QED
      BY <3>1 DEF IdleProc
  <2>2. QED
    BY <1>a, <1>2, <2>1 DEF Process
<1> HIDE DEF me
<1>4. procs'[p] = me /\ \A q \in Procs \ {p} : procs'[q] = procs[q]
  BY <1>1, <1>a, ProcType
<1>5. Reading(p)'
  <2>1. Behind(p)' = {}
    <3>1. \A row \in Rows : StepOf[row] \in 1 .. Steps /\ Steps \in Nat
      BY StepsAssumption
    <3>2. \A row \in Rows : ~ StepOf[row] < 1
      BY <3>1
    <3>3. QED
      BY <1>3, <1>4, <3>2 DEF Behind
  <2>2. ASSUME NEW row \in procs'[p].owed \cap Asked(p)' PROVE Rank(Matching(p)', row) >= 0
    <3>1. Matching(p)' \in SUBSET Rows /\ row \in Matching(p)'
      BY <1>1, <1>3, <1>4, <2>2 DEF Matching, Asked
    <3>2. PICK rows : rows = Matching(p)'
      OBVIOUS
    <3>3. rows \in SUBSET Nat /\ IsFiniteSet(rows)
      BY <3>1, <3>2, RowsType
    <3>4. Rank(rows, row) \in 0 .. Cardinality(rows) - 1 /\ Cardinality(rows) \in Nat
      BY <3>1, <3>2, <3>3, RankType
    <3>5. Rank(rows, row) >= 0
      BY <3>4
    <3>6. QED
      BY <3>2, <3>5
  <2>3. \A row \in present : ParentOf[row] \in present \cup {NoParent}
    BY <1>a DEF ArchiveInv
  <2>4. QED
    BY <1>1, <1>3, <1>4, <2>1, <2>2, <2>3 DEF Reading
<1>6. Len(procs'[p].todo) <= Len(procs[p].todo)
  <2>1. procs[p].todo \in Seq(Commands)
    BY <1>a DEF Process
  <2>2. Len(procs[p].todo) \in Nat
    BY <2>1
  <2>3. QED
    BY <1>3, <1>4, <2>2
<1>7. QED
  BY <1>a, <1>1, <1>3, <1>4, <1>5, <1>6, StepArchive DEF At

(* A page is read, or a table is found unavailable. *)
LEMMA FetchArchive ==
  ASSUME IInv, TypeOK', NEW p \in Procs, FetchPage(p) \/ TableUnavailable(p)
  PROVE  ArchiveInv'
<1>a. /\ TypeOK /\ ArchiveInv /\ procs[p] \in Process /\ Placed /\ procs[p].at = "fetch" /\ Reading(p)
      /\ present' = present /\ dirs' = dirs
  BY ProcType DEF IInv, ArchiveInv, FetchPage, TableUnavailable, At, Elsewhere, Files
<1> DEFINE page == Page(Matching(p), procs[p].offset)
<1>1. page \subseteq Matching(p) /\ Matching(p) \subseteq Asked(p) /\ Asked(p) \subseteq Rows
  BY DEF Page, Matching, Asked
<1>b. \A row \in procs[p].owed \cap Asked(p) :
         /\ row \in Matching(p)
         /\ Rank(Matching(p), row) \in Nat
         /\ Rank(Matching(p), row) \in procs[p].offset .. procs[p].offset + PageSize - 1 => row \in page
  <2>1. Matching(p) \in SUBSET Rows
    BY <1>1
  <2>2. Matching(p) \in SUBSET Nat /\ IsFiniteSet(Matching(p))
    BY <2>1, RowsType
  <2>3. \A row \in procs[p].owed \cap Asked(p) : row \in Matching(p)
    BY <1>a DEF Reading, Matching
  <2>4. \A row \in Matching(p) : Rank(Matching(p), row) \in Nat
    BY <2>2, RankType
  <2>5. QED
    BY <2>3, <2>4 DEF Page, Rank
<1>c. procs[p].offset \in Nat /\ PageSize \in Nat
  BY <1>a, PageAssumption DEF Process
<1>d. Len(procs[p].todo) \in Nat
  <2>1. procs[p].todo \in Seq(Commands)
    BY <1>a DEF Process
  <2>2. QED
    BY <2>1
<1>2. CASE FetchPage(p) /\ ~ IsLast(page)
  <2> DEFINE me == [procs[p] EXCEPT !.page = procs[p].page \cup page, !.rows = procs[p].rows \cup page,
                                    !.offset = procs[p].offset + PageSize]
  <2>1. procs' = [procs EXCEPT ![p] = me]
    BY <1>2 DEF FetchPage, Goes
  <2>2. /\ me.at = "fetch" /\ me.todo = procs[p].todo /\ me.step = procs[p].step
        /\ me.related = procs[p].related /\ me.roots = procs[p].roots /\ me.owed = procs[p].owed
        /\ me.page = procs[p].page \cup page /\ me.rows = procs[p].rows \cup page
        /\ me.offset = procs[p].offset + PageSize
    BY <1>a DEF Process
  <2> HIDE DEF me
  <2>3. procs'[p] = me /\ \A q \in Procs \ {p} : procs'[q] = procs[q]
    BY <1>a, <2>1, ProcType
  <2>4. Asked(p)' = Asked(p) /\ Matching(p)' = Matching(p) /\ Behind(p)' = Behind(p)
    BY <1>a, <2>2, <2>3 DEF Asked, Matching, Behind
  <2> HIDE DEF page
  <2>5. ASSUME NEW row \in procs'[p].owed \cap Asked(p)', row \notin procs'[p].page
        PROVE  Rank(Matching(p)', row) >= procs'[p].offset
    <3>1. row \in procs[p].owed \cap Asked(p) /\ row \notin procs[p].page /\ row \notin page
      BY <2>2, <2>3, <2>4, <2>5
    <3>2. PICK k : k = Rank(Matching(p), row)
      OBVIOUS
    <3>3. k \in Nat /\ k >= procs[p].offset /\ ~ k \in procs[p].offset .. procs[p].offset + PageSize - 1
      BY <1>a, <1>b, <3>1, <3>2 DEF Reading
    <3>4. k >= procs[p].offset + PageSize
      BY <1>c, <3>3
    <3>5. QED
      BY <2>2, <2>3, <2>4, <3>2, <3>4
  <2>6. /\ procs'[p].owed \cap Behind(p)' \subseteq procs'[p].rows
        /\ procs'[p].page \subseteq procs'[p].rows
        /\ procs[p].page \subseteq Asked(p) => procs'[p].page \subseteq Asked(p)'
    BY <1>a, <1>1, <2>2, <2>3, <2>4 DEF Reading
  <2>7. Reading(p)'
    BY <1>a, <2>2, <2>3, <2>5, <2>6 DEF Reading
  <2>8. QED
    BY <1>a, <1>d, <2>2, <2>3, <2>7, StepArchive DEF At
<1> DEFINE Over3(last) ==
      LET me == procs[p]
          roots == me.page \cup last
      IN  procs'[p].rows = me.rows \cup last /\
          (\/ /\ ~ me.related /\ procs'[p].at = "fetch"
              /\ procs'[p].related /\ procs'[p].roots = roots
              /\ procs'[p].step = me.step /\ procs'[p].page = {} /\ procs'[p].offset = 0
           \/ /\ me.related \/ roots = {}
              /\ procs'[p].at = "fetch"
              /\ ~ procs'[p].related /\ procs'[p].roots = {}
              /\ procs'[p].step = me.step + 1 /\ procs'[p].page = {} /\ procs'[p].offset = 0
           \/ /\ me.related \/ roots = {}
              /\ ~ me.step < Steps
              /\ procs'[p].at = "write" /\ procs'[p].pending = procs'[p].rows)
<1>3. ASSUME NEW last \in SUBSET Rows, NEW next, next = Advanced(p, last), next \in Process,
             procs'[p] \in Process,
             /\ procs'[p].at = next.at /\ procs'[p].rows = next.rows /\ procs'[p].related = next.related
             /\ procs'[p].roots = next.roots /\ procs'[p].step = next.step /\ procs'[p].page = next.page
             /\ procs'[p].offset = next.offset /\ procs'[p].pending = next.pending
      PROVE  Over3(last) /\ next.owed = procs[p].owed
  <2> DEFINE me == procs[p]
             roots == me.page \cup last
             rows == me.rows \cup last
  <2>1. CASE /\ ~ me.related /\ roots # {}
             /\ next = [me EXCEPT !.rows = rows, !.page = {}, !.offset = 0, !.related = TRUE, !.roots = roots]
    <3> HIDE DEF rows, roots
    <3>1. /\ next.rows = rows /\ next.at = me.at /\ next.related /\ next.roots = roots /\ next.step = me.step
          /\ next.page = {} /\ next.offset = 0 /\ next.owed = me.owed
      BY <1>a, <2>1 DEF Process
    <3>2. QED
      BY <1>a, <1>3, <2>1, <3>1 DEF rows, roots
  <2>2. CASE /\ me.related \/ roots = {}
             /\ next = [me EXCEPT !.rows = rows, !.page = {}, !.offset = 0,
                                  !.related = FALSE, !.roots = {}, !.step = me.step + 1]
    <3> HIDE DEF rows, roots
    <3>1. /\ next.rows = rows /\ next.at = me.at /\ ~ next.related /\ next.roots = {} /\ next.step = me.step + 1
          /\ next.page = {} /\ next.offset = 0 /\ next.owed = me.owed
      BY <1>a, <2>2 DEF Process
    <3>2. QED
      BY <1>a, <1>3, <2>2, <3>1 DEF rows, roots
  <2>3. CASE /\ me.related \/ roots = {}
             /\ ~ me.step < Steps
             /\ next = [me EXCEPT !.rows = rows, !.page = {}, !.offset = 0, !.at = "write", !.second = clock,
                                  !.pending = rows]
    <3> HIDE DEF rows, roots
    <3>1. next.rows = rows /\ next.at = "write" /\ next.pending = rows /\ next.owed = me.owed
      BY <1>a, <2>3 DEF Process
    <3>2. QED
      BY <1>a, <1>3, <2>3, <3>1 DEF rows, roots
  <2>4. QED
    BY ZenonT(60), <1>a, <1>3, <2>1, <2>2, <2>3, AdvancedWays
<1>4. ASSUME NEW last \in SUBSET Rows, last \subseteq Asked(p), Over3(last),
             procs'[p] \in Process, procs'[p].todo = procs[p].todo,
             procs'[p].owed \subseteq procs[p].owed,
             \A row \in procs'[p].owed : ParentOf[row] \in procs'[p].owed \cup {NoParent},
             procs'[p].owed \cap Asked(p) \subseteq procs[p].page \cup last,
             \A q \in Procs \ {p} : procs'[q] = procs[q]
      PROVE  ArchiveInv'
  <2>1. (At(p, "fetch")' => Reading(p)') /\ (At(p, "write")' => Written(p)')
    BY <1>a, <1>4, AdvancedReading
  <2>2. QED
    BY <1>a, <1>d, <1>4, <2>1, StepArchive
<1>5. procs' \in [Procs -> Process] /\ procs'[p] \in Process
  BY DEF TypeOK
<1>6. CASE FetchPage(p) /\ IsLast(page)
  <2> DEFINE next == Advanced(p, page)
  <2>1. page \in SUBSET Rows /\ page \subseteq Asked(p)
    BY <1>1
  <2>2. procs' = [procs EXCEPT ![p] = next]
    BY <1>6 DEF FetchPage, Goes
  <2>3. next \in Process /\ next.todo = procs[p].todo
    BY <1>a, <2>1, AdvancedFits DEF At
  <2>4. PICK me : me = next
    OBVIOUS
  <2>5. procs'[p] = me /\ \A q \in Procs \ {p} : procs'[q] = procs[q]
    BY <1>a, <2>2, <2>4, ProcType
  <2>6. Over3(page) /\ procs'[p].owed = procs[p].owed
    BY <1>3, <1>5, <2>1, <2>3, <2>4, <2>5
  <2>7. procs[p].owed \cap Asked(p) \subseteq procs[p].page \cup page
    <3>1. SUFFICES ASSUME NEW row \in procs[p].owed \cap Asked(p), row \notin procs[p].page PROVE row \in page
      OBVIOUS
    <3>2. PICK k : k = Rank(Matching(p), row)
      OBVIOUS
    <3>3. Matching(p) \in SUBSET Rows
      BY <1>1
    <3>4. Matching(p) \in SUBSET Nat /\ IsFiniteSet(Matching(p))
      BY <3>3, RowsType
    <3>5. k < procs[p].offset + PageSize
      BY <1>6, <1>b, <1>c, <3>1, <3>2, <3>4, LastPage
    <3>6. k \in Nat /\ k >= procs[p].offset
      BY <1>a, <1>b, <3>1, <3>2 DEF Reading
    <3>7. k \in procs[p].offset .. procs[p].offset + PageSize - 1
      BY <1>c, <3>5, <3>6
    <3>8. QED
      BY <1>b, <3>1, <3>2, <3>7
  <2>8. \A row \in procs[p].owed : ParentOf[row] \in procs[p].owed \cup {NoParent}
    BY <1>a DEF Reading
  <2> HIDE DEF next, page, Over3
  <2>9. QED
    BY <1>4, <1>5, <2>1, <2>3, <2>4, <2>5, <2>6, <2>7, <2>8
<1>7. CASE TableUnavailable(p)
  <2> DEFINE next == Advanced(p, {})
             unread == Unread(p)
  <2>1. next \in Process /\ next.todo = procs[p].todo
    BY <1>a, AdvancedFits DEF At
  <2>2. PICK old : old = next
    OBVIOUS
  <2> DEFINE me == [old EXCEPT !.owed = old.owed \ unread]
  <2>3. procs' = [procs EXCEPT ![p] = me]
    BY <1>7, <2>2 DEF TableUnavailable, Goes
  <2> HIDE DEF unread, next
  <2>4. /\ me.at = old.at /\ me.rows = old.rows /\ me.related = old.related /\ me.roots = old.roots
        /\ me.step = old.step /\ me.page = old.page /\ me.offset = old.offset /\ me.pending = old.pending
        /\ me.todo = old.todo /\ me.owed = old.owed \ unread
    BY <2>1, <2>2 DEF Process
  <2> HIDE DEF me
  <2>5. procs'[p] = me /\ \A q \in Procs \ {p} : procs'[q] = procs[q]
    BY <1>a, <2>3, ProcType
  <2>6. Over3({}) /\ old.owed = procs[p].owed
    <3>1. /\ procs'[p].at = old.at /\ procs'[p].rows = old.rows /\ procs'[p].related = old.related
          /\ procs'[p].roots = old.roots /\ procs'[p].step = old.step /\ procs'[p].page = old.page
          /\ procs'[p].offset = old.offset /\ procs'[p].pending = old.pending
      BY <2>4, <2>5
    <3>2. {} \in SUBSET Rows /\ old \in Process /\ old = Advanced(p, {})
      BY <2>1, <2>2 DEF next
    <3> HIDE DEF Over3
    <3>3. QED
      BY <1>3, <1>5, <3>1, <3>2
  <2>7. procs'[p].owed \cap Asked(p) \subseteq procs[p].page \cup {}
    BY <2>4, <2>5 DEF unread, Unread
  <2>8. \A row \in procs'[p].owed : ParentOf[row] \in procs'[p].owed \cup {NoParent}
    <3>1. SUFFICES ASSUME NEW row \in procs'[p].owed, ParentOf[row] # NoParent
                   PROVE  ParentOf[row] \in procs'[p].owed
      OBVIOUS
    <3>2. row \in procs[p].owed /\ row \notin unread /\ row \in Rows
      BY <1>a, <2>4, <2>5, <2>6 DEF Process
    <3>3. ParentOf[row] \in procs[p].owed /\ ParentOf[row] \in Rows
      BY <1>a, <3>1, <3>2, ParentsAssumption DEF Reading
    <3>4. ParentOf[row] \notin Asked(p) \ procs[p].page
      BY <3>2 DEF unread, Unread
    <3>5. ParentOf[ParentOf[row]] = NoParent /\ NoParent \notin Asked(p)
      BY <1>1, <3>1, <3>2, ParentsAssumption
    <3>6. ParentOf[row] \notin unread
      BY <3>4, <3>5 DEF unread, Unread
    <3>7. QED
      BY <2>4, <2>5, <2>6, <3>3, <3>6
  <2>9. {} \in SUBSET Rows /\ {} \subseteq Asked(p) /\ procs'[p].owed \subseteq procs[p].owed
    BY <2>4, <2>5, <2>6
  <2> HIDE DEF Over3
  <2>10. QED
    BY <1>4, <1>5, <2>1, <2>2, <2>4, <2>5, <2>6, <2>7, <2>8, <2>9 DEF next
<1>8. QED
  BY <1>2, <1>6, <1>7

(* A record of the pull is written, then the manifest; or the process dies. *)
LEMMA WritesArchive ==
  ASSUME IInv, TypeOK', NEW p \in Procs, WriteRecord(p) \/ WriteManifest(p) \/ Crash(p)
  PROVE  ArchiveInv'
<1>a. TypeOK /\ Placed /\ ArchiveInv /\ procs[p] \in Process /\ Fits(procs[p]) /\ present' = present
  BY ProcType DEF IInv, Placed, WriteRecord, WriteManifest, Crash, Elsewhere
<1>b. procs[p].todo # <<>> /\ Len(procs[p].todo) \in Nat
  <2>1. procs[p].todo # <<>>
    BY <1>a DEF WriteRecord, WriteManifest, Crash, Busy, At, Fits
  <2>2. QED
    BY <1>a, <2>1, CommandType
<1>c. ASSUME End(p)
      PROVE  /\ procs'[p].at = "idle" /\ procs'[p].todo = Tail(procs[p].todo)
             /\ \A q \in Procs \ {p} : procs'[q] = procs[q]
             /\ Len(procs'[p].todo) < Len(procs[p].todo) /\ Len(procs'[p].todo) <= Len(procs[p].todo)
  <2>1. procs' = [procs EXCEPT ![p] = Ended(p)]
    BY <1>c DEF End, Goes
  <2>2. Ended(p).at = "idle" /\ Ended(p).todo = Tail(procs[p].todo)
    BY DEF Ended, IdleProc
  <2>3. procs'[p] = Ended(p) /\ \A q \in Procs \ {p} : procs'[q] = procs[q]
    BY <1>a, <2>1, ProcType
  <2>4. Len(Tail(procs[p].todo)) = Len(procs[p].todo) - 1
    BY <1>a, <1>b, CommandType
  <2>5. \A n \in Nat : n - 1 < n /\ n - 1 <= n
    OBVIOUS
  <2>6. Len(procs'[p].todo) < Len(procs[p].todo) /\ Len(procs'[p].todo) <= Len(procs[p].todo)
    BY <1>b, <2>2, <2>3, <2>4, <2>5
  <2>7. QED
    BY <2>2, <2>3, <2>6
<1> DEFINE s == procs[p].second
           old == dirs[s]
<1>d. ASSUME procs[p].at = "write"
      PROVE  /\ s \in Seconds /\ old \in Dir /\ procs[p].rows \subseteq Rows /\ Written(p)
             /\ procs[p].pending \subseteq procs[p].rows
             /\ Writable(p) \subseteq procs[p].pending
  <2>1. s <= clock
    BY <1>a, <1>d DEF Placed, At
  <2>2. s \in Nat
    BY <1>a DEF Process
  <2>3. s \in Seconds /\ old \in Dir
    BY <1>a, <2>1, <2>2, DirsType
  <2>4. QED
    BY <1>a, <1>d, <2>3, WritableType DEF Fits, ArchiveInv, At
<1>e. PICK mine : mine = ThisPull(p)
  OBVIOUS
<1>f. mine \in Pulls /\ ~ Over(mine)
  BY <1>a, <1>b, <1>e, NotOver
\* Another pull made the archive that is already there.
<1>g. ASSUME procs[p].at = "write", old.manifest # Nothing
      PROVE  \E a, b \in old.writers \cup {mine} : a # b
  <2>1. s \in Seconds
    BY <1>d, <1>g
  <2>2. PICK pull \in old.writers : Over(pull)
    BY <1>a, <1>g, <2>1 DEF ArchiveInv
  <2>3. pull # mine
    BY <1>f, <2>2
  <2>4. QED
    BY <2>2, <2>3
<1>1. CASE WriteRecord(p)
  <2>1. PICK row \in Writable(p) :
           /\ dirs' = [dirs EXCEPT ![s] = WithFiles(old, p, old.whole \cup {row})]
           /\ procs' = [procs EXCEPT ![p] = [procs[p] EXCEPT !.pending = procs[p].pending \ {row}]]
    BY <1>1 DEF WriteRecord, Goes
  <2> DEFINE d == WithFiles(old, p, old.whole \cup {row})
             me == [procs[p] EXCEPT !.pending = procs[p].pending \ {row}]
  <2>2. procs[p].at = "write"
    BY <1>1 DEF WriteRecord, At
  <2>3. /\ d.writers = old.writers \cup {mine} /\ d.manifest = old.manifest
        /\ d.whole = old.whole \cup {row}
    BY <1>d, <1>e, <2>2 DEF WithFiles, Dir
  <2>4. /\ me.at = "write" /\ me.todo = procs[p].todo /\ me.second = s /\ me.owed = procs[p].owed
        /\ me.rows = procs[p].rows /\ me.pending = procs[p].pending \ {row}
    BY <1>a, <2>2 DEF Process
  <2>5. dirs' = [dirs EXCEPT ![s] = d] /\ procs' = [procs EXCEPT ![p] = me]
    BY <2>1
  <2> HIDE DEF d, me
  <2>6. procs'[p] = me /\ dirs'[s] = d /\ \A q \in Procs \ {p} : procs'[q] = procs[q]
    BY <1>a, <1>d, <2>2, <2>5, ProcType DEF Seconds
  <2>7. Written(p)'
    <3>1. procs'[p].owed \subseteq procs'[p].rows
      BY <1>d, <2>2, <2>4, <2>6 DEF Written
    <3>2. ThisPull(p)' = mine
      BY <1>e, <2>4, <2>6 DEF ThisPull
    <3>3. ASSUME d.writers \subseteq {mine} PROVE procs'[p].rows \ procs'[p].pending \subseteq d.whole
      <4>1. procs[p].rows \ procs[p].pending \subseteq old.whole
        BY <1>d, <1>e, <2>2, <2>3, <3>3 DEF Written
      <4>2. QED
        BY <2>3, <2>4, <2>6, <4>1
    <3>4. QED
      BY <2>4, <2>6, <3>1, <3>2, <3>3 DEF Written
  <2>8. d.manifest # Nothing => \E a, b \in d.writers : a # b
    BY <1>g, <2>2, <2>3
  <2>9. /\ Len(procs'[p].todo) <= Len(procs[p].todo)
        /\ ~ At(p, "fetch")' /\ At(p, "write")
    BY <1>b, <2>2, <2>4, <2>6 DEF At
  <2>10. QED
    BY <1>a, <1>e, <2>3, <2>5, <2>6, <2>7, <2>8, <2>9, WriteArchive
<1>2. CASE WriteManifest(p)
  <2> DEFINE touched == Touched(old, p)
             d == [touched EXCEPT !.manifest = procs[p].rows, !.cut = FALSE,
                                  !.owed = procs[p].owed, !.truth = procs[p].truth]
  <2>1. procs[p].at = "write" /\ procs[p].pending = {} /\ End(p)
    BY <1>2 DEF WriteManifest, At
  <2>2. touched \in Dir /\ touched.whole = old.whole /\ touched.writers = old.writers \cup {mine}
    BY <1>a, <1>b, <1>d, <1>e, <2>1, TouchedType
  <2>3. dirs' = [dirs EXCEPT ![s] = d]
    BY <1>2 DEF WriteManifest
  <2> HIDE DEF touched
  <2>4. d.writers = old.writers \cup {mine} /\ d.whole = old.whole /\ d.owed = procs[p].owed
    BY <2>2 DEF Dir
  <2> HIDE DEF d
  <2>5. ASSUME \A a, b \in d.writers : a = b PROVE d.owed \subseteq d.whole
    <3>1. old.writers \subseteq {mine}
      BY <2>4, <2>5
    <3>2. procs[p].owed \subseteq procs[p].rows /\ procs[p].rows \ {} \subseteq old.whole
      BY <1>d, <1>e, <2>1, <3>1 DEF Written
    <3>3. QED
      BY <2>4, <3>2
  <2>6. Over(mine)'
    <3>1. mine[1] = p /\ mine[2] = Len(procs[p].todo)
      BY <1>e DEF ThisPull
    <3>2. QED
      BY <1>c, <2>1, <3>1 DEF Over
  <2>7. ~ At(p, "fetch")' /\ ~ At(p, "write")'
    BY <1>c, <2>1 DEF At
  <2>8. QED
    BY <1>a, <1>c, <1>e, <2>1, <2>3, <2>4, <2>5, <2>6, <2>7, WriteArchive DEF At
<1>3. CASE Crash(p)
  <2>1. End(p)
    BY <1>3 DEF Crash
  <2>2. ~ At(p, "fetch")' /\ ~ At(p, "write")'
    BY <1>c, <2>1 DEF At
  <2>3. CASE UNCHANGED dirs
    BY <1>a, <1>c, <2>1, <2>2, <2>3, StepArchive
  <2>4. ASSUME At(p, "write"), NEW row \in Writable(p),
               dirs' = [dirs EXCEPT ![s] = WithFiles(old, p, old.whole \ {row})]
        PROVE  ArchiveInv'
    <3> DEFINE d == WithFiles(old, p, old.whole \ {row})
    <3>1. procs[p].at = "write"
      BY <2>4 DEF At
    <3>2. d.writers = old.writers \cup {mine} /\ d.manifest = old.manifest
      BY <1>d, <1>e, <3>1 DEF WithFiles, Dir
    <3>3. dirs' = [dirs EXCEPT ![s] = d]
      BY <2>4
    <3> HIDE DEF d
    <3>4. d.manifest # Nothing => \E a, b \in d.writers : a # b
      BY <1>g, <3>1, <3>2
    <3>5. QED
      BY ZenonT(60), <1>a, <1>c, <1>e, <2>1, <2>2, <2>4, <3>2, <3>3, <3>4, WriteArchive
  <2>5. ASSUME At(p, "write"), dirs' = [dirs EXCEPT ![s] = [Touched(old, p) EXCEPT !.cut = TRUE]]
        PROVE  ArchiveInv'
    <3> DEFINE touched == Touched(old, p)
               d == [touched EXCEPT !.cut = TRUE]
    <3>1. procs[p].at = "write"
      BY <2>5 DEF At
    <3>2. /\ touched \in Dir /\ touched.manifest = old.manifest
          /\ touched.writers = old.writers \cup {mine}
      BY <1>a, <1>b, <1>d, <1>e, <3>1, TouchedType
    <3>3. dirs' = [dirs EXCEPT ![s] = d]
      BY <2>5
    <3> HIDE DEF touched
    <3>4. d.writers = old.writers \cup {mine} /\ d.manifest = old.manifest /\ d.cut
      BY <3>2 DEF Dir
    <3> HIDE DEF d
    <3>5. QED
      BY <1>a, <1>c, <1>e, <2>1, <2>2, <2>5, <3>3, <3>4, WriteArchive
  <2>6. QED
    BY <1>3, <2>3, <2>4, <2>5 DEF Crash
<1>4. QED
  BY <1>1, <1>2, <1>3

(* A row comes: no row that is owed moves to an earlier page. *)
LEMMA InsertArchive ==
  ASSUME IInv, TypeOK', NEW new \in Rows, Insert(new)
  PROVE  ArchiveInv'
<1>a. TypeOK /\ Placed /\ ArchiveInv /\ dirs' = dirs /\ present' = present \cup {new}
  BY DEF IInv, Insert, Files
<1>1. ASSUME NEW p \in Procs
      PROVE  /\ procs'[p].at = procs[p].at /\ procs'[p].todo = procs[p].todo
             /\ procs'[p].step = procs[p].step /\ procs'[p].related = procs[p].related
             /\ procs'[p].offset = procs[p].offset /\ procs'[p].page = procs[p].page
             /\ procs'[p].roots = procs[p].roots /\ procs'[p].rows = procs[p].rows
             /\ procs'[p].second = procs[p].second /\ procs'[p].pending = procs[p].pending
             /\ procs'[p].owed = procs[p].owed
  <2>1. procs'[p] = Disturbed(p)
    BY DEF Insert
  <2>2. procs[p] \in Process
    BY <1>a, ProcType
  <2>3. QED
    BY <2>1, <2>2 DEF Disturbed, Process
<1>2. ASSUME NEW p \in Procs, At(p, "fetch")' PROVE Reading(p)'
  <2>1. Reading(p)
    BY <1>a, <1>1, <1>2 DEF ArchiveInv, At
  <2>2. Asked(p)' = Asked(p) /\ Behind(p)' = Behind(p)
    BY <1>1 DEF Asked, Behind
  <2>3. Matching(p) \in SUBSET Matching(p)' /\ Matching(p)' \in SUBSET Rows
    BY <1>a, <2>2 DEF Matching, Asked
  <2>4. ASSUME NEW row \in procs'[p].owed \cap Asked(p)', row \notin procs'[p].page
        PROVE  Rank(Matching(p)', row) >= procs'[p].offset
    <3>1. row \in procs[p].owed \cap Asked(p) /\ row \notin procs[p].page
      BY <1>1, <2>2, <2>4
    <3>2. row \in Matching(p) /\ Rank(Matching(p), row) >= procs[p].offset
      BY <2>1, <3>1 DEF Reading, Matching
    <3>3. PICK rows : rows = Matching(p)'
      OBVIOUS
    <3>4. rows \in SUBSET Nat /\ IsFiniteSet(rows)
      BY <2>3, <3>3, RowsType
    <3>5. Rank(Matching(p), row) <= Rank(rows, row) /\ Rank(Matching(p), row) \in Nat /\ Rank(rows, row) \in Nat
      BY <2>3, <3>2, <3>3, <3>4, RankKept
    <3>6. procs[p].offset \in Nat
      BY <1>a, ProcType DEF Process
    <3>7. Rank(rows, row) >= procs[p].offset
      BY <3>2, <3>5, <3>6
    <3>8. QED
      BY <1>1, <3>3, <3>7
  <2>5. procs'[p].owed \subseteq present'
    BY <1>a, <1>1, <2>1 DEF Reading
  <2>6. QED
    BY <1>1, <2>1, <2>2, <2>4, <2>5 DEF Reading
<1>3. ASSUME NEW p \in Procs, At(p, "write")' PROVE Written(p)'
  BY <1>a, <1>1, <1>3 DEF ArchiveInv, Written, ThisPull, At
<1>4. \A row \in present' : ParentOf[row] \in present' \cup {NoParent}
  BY <1>a DEF Insert, ArchiveInv
<1>5. \A second \in Seconds' : dirs'[second].manifest # Nothing => \E pull \in dirs'[second].writers : Over(pull)'
  <2>1. SUFFICES ASSUME NEW t \in Seconds, dirs[t].manifest # Nothing
                 PROVE  \E pull \in dirs[t].writers : Over(pull)'
    BY <1>a DEF Seconds
  <2>2. PICK pull \in dirs[t].writers : Over(pull)
    BY <1>a, <2>1 DEF ArchiveInv
  <2>3. pull \in Pulls \cup {Nothing}
    BY <1>a, <2>1 DEF TypeOK, Seconds, Dir
  <2>4. \A q \in Procs : Len(procs'[q].todo) <= Len(procs[q].todo)
    <3>1. ASSUME NEW q \in Procs PROVE procs[q].todo \in Seq(Commands)
      BY <1>a, ProcType DEF Process
    <3>2. ASSUME NEW q \in Procs PROVE Len(procs[q].todo) <= Len(procs[q].todo)
      BY <3>1
    <3>3. QED
      BY <1>1, <3>2
  <2>5. QED
    BY <1>a, <2>2, <2>3, <2>4, OverStays
<1>6. ArchiveIsWhole'
  BY <1>a DEF ArchiveInv, ArchiveIsWhole, Readable, WrittenOnce, Seconds
<1>7. QED
  BY <1>2, <1>3, <1>4, <1>5, <1>6 DEF ArchiveInv

(* A row goes: nothing is owed any longer of the tables of its step, and the *)
(* queries of other steps find what they found.                              *)
LEMMA DeleteArchive ==
  ASSUME IInv, TypeOK', NEW gone \in Rows, Delete(gone)
  PROVE  ArchiveInv'
<1>a. /\ TypeOK /\ Placed /\ ArchiveInv /\ dirs' = dirs
      /\ present' = {other \in present : other # gone /\ ParentOf[other] # gone}
  BY DEF IInv, Delete, Files
<1>1. ASSUME NEW p \in Procs
      PROVE  /\ procs'[p].at = procs[p].at /\ procs'[p].todo = procs[p].todo
             /\ procs'[p].step = procs[p].step /\ procs'[p].related = procs[p].related
             /\ procs'[p].offset = procs[p].offset /\ procs'[p].page = procs[p].page
             /\ procs'[p].roots = procs[p].roots /\ procs'[p].rows = procs[p].rows
             /\ procs'[p].second = procs[p].second /\ procs'[p].pending = procs[p].pending
             /\ procs'[p].owed = {other \in procs[p].owed : StepOf[other] # StepOf[gone]}
  <2>1. procs'[p] = Unsettled(Disturbed(p), gone)
    BY DEF Delete, Unsettled
  <2>2. procs[p] \in Process
    BY <1>a, ProcType
  <2>3. Disturbed(p) \in Process /\ Disturbed(p).owed = procs[p].owed
    BY <1>a, <2>2, DisturbedType DEF Disturbed, Process
  <2>4. procs'[p].owed = {other \in procs[p].owed : StepOf[other] # StepOf[gone]}
    BY <2>1, <2>3 DEF Unsettled, Process
  <2>5. QED
    BY <1>a, <2>1, <2>4, DisturbedType
<1>b. /\ \A row \in Rows : row \in present /\ row \notin present' => StepOf[row] = StepOf[gone]
      /\ present \subseteq Rows /\ present' \subseteq present
  <2>1. \A row \in Rows : ParentOf[row] = gone => StepOf[row] = StepOf[gone]
    BY ParentsAssumption
  <2>2. present \subseteq Rows
    BY <1>a DEF TypeOK
  <2>3. QED
    BY <1>a, <2>1, <2>2
<1>2. ASSUME NEW p \in Procs, At(p, "fetch")' PROVE Reading(p)'
  <2>1. Reading(p) /\ procs[p].owed \subseteq Rows
    <3>1. procs[p] \in Process
      BY <1>a, ProcType
    <3>2. QED
      BY <1>a, <1>1, <1>2, <3>1 DEF ArchiveInv, At, Process
  <2>2. Asked(p)' = Asked(p) /\ Behind(p)' = Behind(p)
    BY <1>1 DEF Asked, Behind
  <2>3. procs'[p].owed \subseteq procs[p].owed /\ procs'[p].owed \subseteq present'
    BY <1>b, <1>1, <2>1 DEF Reading
  <2>4. ASSUME NEW row \in procs'[p].owed \cap Asked(p)', row \notin procs'[p].page
        PROVE  Rank(Matching(p)', row) >= procs'[p].offset
    <3>1. row \in procs[p].owed \cap Asked(p) /\ row \notin procs[p].page
      BY <1>1, <2>2, <2>3, <2>4
    <3>2. StepOf[row] # StepOf[gone] /\ StepOf[row] = procs[p].step
      BY <1>a, <1>1, <2>1, <2>4, <3>1, AskedStep
    <3>3. \A other \in Asked(p) : other \in Rows /\ StepOf[other] = procs[p].step
      BY <1>a, <2>1, AskedStep
    <3>4. Matching(p)' = Matching(p)
      BY <1>b, <2>2, <3>2, <3>3 DEF Matching
    <3>5. Rank(Matching(p), row) >= procs[p].offset
      BY <2>1, <3>1 DEF Reading
    <3>6. QED
      BY <1>1, <3>4, <3>5
  <2>5. ASSUME NEW row \in procs'[p].owed, ParentOf[row] # NoParent PROVE ParentOf[row] \in procs'[p].owed
    <3>1. row \in procs[p].owed /\ row \in Rows /\ StepOf[row] # StepOf[gone]
      BY <1>1, <2>1, <2>5
    <3>2. ParentOf[row] \in procs[p].owed /\ StepOf[ParentOf[row]] = StepOf[row]
      BY <2>1, <2>5, <3>1, ParentsAssumption DEF Reading
    <3>3. QED
      BY <1>1, <3>1, <3>2
  <2>6. QED
    BY <1>1, <2>1, <2>2, <2>3, <2>4, <2>5 DEF Reading
<1>3. ASSUME NEW p \in Procs, At(p, "write")' PROVE Written(p)'
  <2>1. Written(p) /\ ThisPull(p)' = ThisPull(p)
    BY <1>a, <1>1, <1>3 DEF ArchiveInv, ThisPull, At
  <2>2. QED
    BY <1>a, <1>1, <2>1 DEF Written
<1>4. ASSUME NEW row \in present' PROVE ParentOf[row] \in present' \cup {NoParent}
  <2>1. SUFFICES ASSUME ParentOf[row] # NoParent PROVE ParentOf[row] \in present'
    OBVIOUS
  <2>2. row \in present /\ row \in Rows /\ ParentOf[row] # gone
    BY <1>a, <1>b
  <2>3. ParentOf[row] \in present /\ ParentOf[ParentOf[row]] = NoParent
    BY <1>a, <2>1, <2>2, ParentsAssumption DEF ArchiveInv
  <2>4. gone # NoParent
    BY ParentsAssumption
  <2>5. QED
    BY <1>a, <2>2, <2>3, <2>4
<1>5. \A second \in Seconds' : dirs'[second].manifest # Nothing => \E pull \in dirs'[second].writers : Over(pull)'
  <2>1. SUFFICES ASSUME NEW t \in Seconds, dirs[t].manifest # Nothing
                 PROVE  \E pull \in dirs[t].writers : Over(pull)'
    BY <1>a DEF Seconds
  <2>2. PICK pull \in dirs[t].writers : Over(pull)
    BY <1>a, <2>1 DEF ArchiveInv
  <2>3. pull \in Pulls \cup {Nothing}
    BY <1>a, <2>1 DEF TypeOK, Seconds, Dir
  <2>4. \A q \in Procs : Len(procs'[q].todo) <= Len(procs[q].todo)
    <3>1. ASSUME NEW q \in Procs PROVE procs[q].todo \in Seq(Commands)
      BY <1>a, ProcType DEF Process
    <3>2. ASSUME NEW q \in Procs PROVE Len(procs[q].todo) <= Len(procs[q].todo)
      BY <3>1
    <3>3. QED
      BY <1>1, <3>2
  <2>5. QED
    BY <1>a, <2>2, <2>3, <2>4, OverStays
<1>6. ArchiveIsWhole'
  BY <1>a DEF ArchiveInv, ArchiveIsWhole, Readable, WrittenOnce, Seconds
<1>7. QED
  BY <1>2, <1>3, <1>4, <1>5, <1>6 DEF ArchiveInv

(* One process goes where it neither reads rows nor writes files. *)
LEMMA AsideArchive ==
  ASSUME TypeOK, TypeOK', ArchiveInv, UNCHANGED <<present, dirs>>, NEW p \in Procs, NEW me, Goes(p, me),
         me.at \notin {"fetch", "write"}, me.todo = procs[p].todo
  PROVE  ArchiveInv'
<1>1. procs'[p] = me /\ \A q \in Procs \ {p} : procs'[q] = procs[q]
  BY ProcType DEF Goes
<1>2. Len(procs[p].todo) \in Nat
  <2>1. procs[p].todo \in Seq(Commands)
    BY ProcType DEF Process
  <2>2. QED
    BY <2>1
<1>3. Len(procs'[p].todo) <= Len(procs[p].todo)
  BY <1>1, <1>2
<1>4. QED
  BY <1>1, <1>3, StepArchive DEF At

LEMMA EndArchive ==
  ASSUME TypeOK, TypeOK', ArchiveInv, UNCHANGED <<present, dirs>>, NEW p \in Procs, procs[p].todo # <<>>, End(p)
  PROVE  ArchiveInv'
<1>1. Ended(p).at = "idle" /\ Ended(p).todo = Tail(procs[p].todo)
  BY DEF Ended, IdleProc
<1>2. procs'[p] = Ended(p) /\ \A q \in Procs \ {p} : procs'[q] = procs[q]
  BY ProcType DEF End, Goes
<1>3. Len(procs[p].todo) \in Nat /\ Len(Tail(procs[p].todo)) = Len(procs[p].todo) - 1
  BY CommandType
<1>4. \A n \in Nat : n - 1 <= n
  OBVIOUS
<1>5. Len(procs'[p].todo) <= Len(procs[p].todo)
  BY <1>1, <1>2, <1>3, <1>4
<1>6. QED
  BY <1>1, <1>2, <1>5, StepArchive DEF At

LEMMA StillArchive ==
  ASSUME ArchiveInv, UNCHANGED <<present, dirs, procs>>
  PROVE  ArchiveInv'
<1>1. \A p \in Procs : At(p, "fetch")' => Reading(p)'
  BY DEF ArchiveInv, At, Reading, Asked, Matching, Behind
<1>2. \A p \in Procs : At(p, "write")' => Written(p)'
  BY DEF ArchiveInv, At, Written, ThisPull
<1>3. \A second \in Seconds' : dirs'[second].manifest # Nothing =>
         \E pull \in dirs'[second].writers : Over(pull)'
  BY DEF ArchiveInv, Over, Seconds
<1>4. ArchiveIsWhole'
  BY DEF ArchiveInv, ArchiveIsWhole, Readable, WrittenOnce, Seconds
<1>5. QED
  BY <1>1, <1>2, <1>3, <1>4 DEF ArchiveInv

(* Pushes, applies and failed requests touch neither the source nor an archive, and
   leave their process at its end or on its way to the target. *)
LEMMA TargetWays ==
  ASSUME IInv, NEW p \in Procs, Push(p) \/ Apply(p) \/ RequestFails(p)
  PROVE  /\ UNCHANGED <<present, dirs>> /\ procs[p].todo # <<>> /\ ~ At(p, "write")
         /\ \/ End(p)
            \/ \E me : Goes(p, me) /\ me.at \notin {"fetch", "write"} /\ me.todo = procs[p].todo
<1>a. TypeOK /\ procs[p] \in Process /\ Fits(procs[p])
  BY ProcType DEF IInv, Placed
<1>b. UNCHANGED <<present, dirs>>
  BY DEF Push, LoadArchive, LookUp, CreateSet, Inject, InjectFails, Straggle, ReportPush, Apply, BeginApply,
         CreateOwnSet, WriteLog, RequestFails, Elsewhere, Files
<1>c. procs[p].todo # <<>>
  BY <1>a DEF Push, LoadArchive, LookUp, CreateSet, Inject, InjectFails, Straggle, ReportPush, Apply, BeginApply,
         CreateOwnSet, WriteLog, RequestFails, Starts, At, Fits
<1>1. \/ End(p)
      \/ \E me : Goes(p, me) /\ me.at \notin {"fetch", "write"} /\ me.todo = procs[p].todo
  <2>1. CASE LoadArchive(p)
    <3>1. CASE End(p)
      BY <3>1
    <3>2. ASSUME NEW second \in Seconds,
                 Goes(p, [procs[p] EXCEPT !.at = "look up", !.name = <<Command(p).name>>,
                            !.rows = dirs[second].whole, !.pending = dirs[second].whole])
          PROVE  \E me : Goes(p, me) /\ me.at \notin {"fetch", "write"} /\ me.todo = procs[p].todo
      <4> DEFINE me == [procs[p] EXCEPT !.at = "look up", !.name = <<Command(p).name>>,
                            !.rows = dirs[second].whole, !.pending = dirs[second].whole]
      <4>1. me.at = "look up" /\ me.todo = procs[p].todo
        BY <1>a DEF Process
      <4>2. Goes(p, me)
        BY <3>2
      <4> HIDE DEF me
      <4>3. QED
        BY <4>1, <4>2
    <3>3. QED
      BY <2>1, <3>1, <3>2 DEF LoadArchive
  <2>2. CASE LookUp(p)
    <3>1. ASSUME NEW n, Goes(p, [procs[p] EXCEPT !.at = "inject", !.set = n])
          PROVE  \E me : Goes(p, me) /\ me.at \notin {"fetch", "write"} /\ me.todo = procs[p].todo
      <4> DEFINE me == [procs[p] EXCEPT !.at = "inject", !.set = n]
      <4>1. me.at = "inject" /\ me.todo = procs[p].todo /\ Goes(p, me)
        BY <1>a, <3>1 DEF Process
      <4> HIDE DEF me
      <4>2. QED
        BY <4>1
    <3>2. ASSUME Goes(p, [procs[p] EXCEPT !.at = "create"])
          PROVE  \E me : Goes(p, me) /\ me.at \notin {"fetch", "write"} /\ me.todo = procs[p].todo
      <4> DEFINE me == [procs[p] EXCEPT !.at = "create"]
      <4>1. me.at = "create" /\ me.todo = procs[p].todo /\ Goes(p, me)
        BY <1>a, <3>2 DEF Process
      <4> HIDE DEF me
      <4>2. QED
        BY <4>1
    <3>3. QED
      BY <2>2, <3>1, <3>2 DEF LookUp
  <2>3. CASE CreateSet(p)
    <3> DEFINE me == [procs[p] EXCEPT !.at = "inject", !.set = Len(sets) + 1]
    <3>1. me.at = "inject" /\ me.todo = procs[p].todo /\ Goes(p, me)
      BY <1>a, <2>3 DEF CreateSet, Process
    <3> HIDE DEF me
    <3>2. QED
      BY <3>1
  <2>4. CASE Inject(p) \/ Straggle(p)
    <3>1. PICK rest : Goes(p, [procs[p] EXCEPT !.pending = rest])
      BY <2>4 DEF Inject, Straggle
    <3> DEFINE me == [procs[p] EXCEPT !.pending = rest]
    <3>2. me.at = procs[p].at /\ me.todo = procs[p].todo /\ Goes(p, me)
      BY <1>a, <3>1 DEF Process
    <3> HIDE DEF me
    <3>3. QED
      BY <2>4, <3>2 DEF Inject, Straggle, At
  <2>5. CASE InjectFails(p)
    <3>1. PICK rest, item : Goes(p, [procs[p] EXCEPT !.at = "unwind", !.failed = item, !.pending = rest])
      BY <2>5 DEF InjectFails
    <3> DEFINE me == [procs[p] EXCEPT !.at = "unwind", !.failed = item, !.pending = rest]
    <3>2. me.at = "unwind" /\ me.todo = procs[p].todo /\ Goes(p, me)
      BY <1>a, <3>1 DEF Process
    <3> HIDE DEF me
    <3>3. QED
      BY <3>2
  <2>6. CASE BeginApply(p)
    <3> DEFINE me == [procs[p] EXCEPT !.at = "create own", !.name = <<Command(p).name, clock>>,
                                      !.rows = TemplateRows, !.pending = TemplateRows]
    <3>1. me.at = "create own" /\ me.todo = procs[p].todo /\ Goes(p, me)
      BY <1>a, <2>6 DEF BeginApply, Process
    <3> HIDE DEF me
    <3>2. QED
      BY <3>1
  <2>7. CASE CreateOwnSet(p)
    <3> DEFINE me == [procs[p] EXCEPT !.at = "look up", !.own = Len(sets) + 1]
    <3>1. me.at = "look up" /\ me.todo = procs[p].todo /\ Goes(p, me)
      BY <1>a, <2>7 DEF CreateOwnSet, Process
    <3> HIDE DEF me
    <3>2. QED
      BY <3>1
  <2>8. CASE WriteLog(p)
    <3> DEFINE me == [procs[p] EXCEPT !.at = "gate 2"]
    <3>1. me.at = "gate 2" /\ me.todo = procs[p].todo /\ (Goes(p, me) \/ End(p))
      BY <1>a, <2>8 DEF WriteLog, Process
    <3> HIDE DEF me
    <3>2. QED
      BY <3>1
  <2>9. CASE ReportPush(p) \/ RequestFails(p)
    BY <2>9 DEF ReportPush, RequestFails
  <2>10. QED
    BY <2>1, <2>2, <2>3, <2>4, <2>5, <2>6, <2>7, <2>8, <2>9 DEF Push, Apply
<1>2. ~ At(p, "write")
  BY DEF Push, LoadArchive, LookUp, CreateSet, Inject, InjectFails, Straggle, ReportPush, Apply, BeginApply,
         CreateOwnSet, WriteLog, RequestFails, Starts, Busy, At
<1>3. QED
  BY <1>b, <1>c, <1>1, <1>2

(* So they leave what is known of the archives as it was. *)
LEMMA TargetArchive ==
  ASSUME IInv, TypeOK', NEW p \in Procs, Push(p) \/ Apply(p) \/ RequestFails(p)
  PROVE  ArchiveInv'
<1>1. TypeOK /\ ArchiveInv
  BY DEF IInv
<1>2. QED
  BY <1>1, TargetWays, AsideArchive, EndArchive

LEMMA JudgeArchive ==
  ASSUME IInv, TypeOK', NEW p \in Procs, Assess(p) \/ Gate1(p) \/ Gate2(p) \/ CaptureFails(p)
  PROVE  ArchiveInv'
<1>1. TypeOK /\ ArchiveInv /\ UNCHANGED <<present, dirs>> /\ procs[p] \in Process /\ Fits(procs[p])
  BY ProcType DEF IInv, Placed, Assess, Gate1, Gate2, CaptureFails, Files, Elsewhere
<1>2. procs[p].todo # <<>>
  BY <1>1 DEF Assess, Gate1, Gate2, CaptureFails, Starts, At, Fits
<1>3. CASE End(p)
  BY <1>1, <1>2, <1>3, EndArchive
<1>4. CASE Goes(p, [procs[p] EXCEPT !.at = "go", !.capture = present])
  <2> DEFINE me == [procs[p] EXCEPT !.at = "go", !.capture = present]
  <2>1. me.at = "go" /\ me.todo = procs[p].todo /\ Goes(p, me)
    BY <1>1, <1>4 DEF Process
  <2> HIDE DEF me
  <2>2. QED
    BY <1>1, <2>1, AsideArchive
<1>5. QED
  BY <1>3, <1>4, JudgeWays

(* No step breaks what is said of the archives. *)
LEMMA NextArchive == IInv /\ [AssessNext]_assessVars => ArchiveInv'
<1> SUFFICES ASSUME IInv, [AssessNext]_assessVars PROVE ArchiveInv'
  OBVIOUS
<1>1. TypeOK /\ ArchiveInv /\ TypeOK'
  BY NextShape DEF IInv
<1>2. CASE UNCHANGED assessVars
  BY <1>1, <1>2, StillArchive DEF assessVars, vars
<1>3. ASSUME NEW p \in Procs, Pull(p) PROVE ArchiveInv'
  BY <1>1, <1>3, BeginArchive, FetchArchive, WritesArchive DEF Pull
<1>4. ASSUME NEW p \in Procs, Push(p) \/ Apply(p) \/ RequestFails(p) \/ Crash(p) PROVE ArchiveInv'
  BY <1>1, <1>4, TargetArchive, WritesArchive
<1>5. ASSUME Tick \/ \E n \in DOMAIN sets : Complete(n) PROVE ArchiveInv'
  <2>1. UNCHANGED <<present, dirs, procs>>
    BY <1>5 DEF Tick, Complete, Files
  <2>2. QED
    BY <1>1, <2>1, StillArchive
<1>6. ASSUME NEW row \in Rows, Insert(row) \/ Delete(row) PROVE ArchiveInv'
  BY <1>1, <1>6, InsertArchive, DeleteArchive
<1>7. ASSUME NEW p \in Procs, Assess(p) \/ Gate1(p) \/ Gate2(p) \/ CaptureFails(p) PROVE ArchiveInv'
  BY <1>1, <1>7, JudgeArchive
<1>8. QED
  BY <1>2, <1>3, <1>4, <1>5, <1>6, <1>7 DEF AssessNext, Next

LEMMA InitArchive == AssessInit => ArchiveInv
<1> SUFFICES ASSUME AssessInit PROVE ArchiveInv
  OBVIOUS
<1>1. PICK world \in Worlds :
        /\ present = world.present
        /\ dirs = [second \in 0 .. clock + world.left.time |-> IF second = 0 THEN world.archive ELSE NoDir]
  BY DEF AssessInit, Init
<1>2. \A p \in Procs : procs[p].at = "idle"
  BY DEF AssessInit, Init, IdleProc
<1>3. \A row \in present : ParentOf[row] \in present \cup {NoParent}
  BY <1>1, WorldsAssumption
<1>4. ASSUME NEW s \in Seconds
      PROVE  /\ dirs[s].manifest # Nothing => Nothing \in dirs[s].writers
             /\ dirs[s].owed \subseteq dirs[s].whole
  <2>1. dirs[s] \in {world.archive, NoDir}
    BY <1>1 DEF Seconds
  <2>2. NoDir.manifest = Nothing /\ NoDir.owed = {}
    BY DEF NoDir
  <2>3. /\ world.archive.manifest # Nothing => Nothing \in world.archive.writers
        /\ world.archive.owed \subseteq world.archive.whole
    BY <1>1, <2>2, WorldsAssumption
  <2>4. QED
    BY <2>1, <2>2, <2>3
<1>5. QED
  BY <1>2, <1>3, <1>4 DEF ArchiveInv, ArchiveIsWhole, At, Over

-----------------------------------------------------------------------------
(***************************************************************************)
(* Captures                                                                *)
(***************************************************************************)
(* A request of a pull adds rows that are there, and changes no history. *)
LEMMA FetchWays ==
  ASSUME TypeOK, Placed, NEW p \in Procs, FetchPage(p) \/ TableUnavailable(p)
  PROVE  /\ At(p, "fetch") /\ UNCHANGED <<present, dirs>>
         /\ \A q \in Procs \ {p} : procs'[q] = procs[q]
         /\ procs'[p].todo = procs[p].todo /\ procs'[p].truth = procs[p].truth
         /\ procs'[p].at \in {"fetch", "write"}
         /\ \E page \in SUBSET present : procs'[p].rows = procs[p].rows \cup page
<1>a. procs[p] \in Process /\ At(p, "fetch") /\ UNCHANGED <<present, dirs>> /\ present \subseteq Rows
  BY ProcType DEF FetchPage, TableUnavailable, Elsewhere, Files, TypeOK
<1>b. ASSUME NEW page \in SUBSET Rows
      PROVE  /\ Advanced(p, page) \in Process /\ Advanced(p, page).at \in {"fetch", "write"}
             /\ Advanced(p, page).todo = procs[p].todo /\ Advanced(p, page).truth = procs[p].truth
             /\ Advanced(p, page).rows = procs[p].rows \cup page
  <2> DEFINE me == procs[p]
             rows == me.rows \cup page
             roots == me.page \cup page
  <2>1. PICK next : next = Advanced(p, page)
    OBVIOUS
  <2>2. CASE next = [me EXCEPT !.rows = rows, !.page = {}, !.offset = 0, !.related = TRUE, !.roots = roots]
    <3> HIDE DEF rows, roots
    <3>1. next.rows = rows /\ next.truth = me.truth
      BY <1>a, <2>2 DEF Process
    <3>2. QED
      BY <1>a, <2>1, <3>1, AdvancedFits DEF rows
  <2>3. CASE next = [me EXCEPT !.rows = rows, !.page = {}, !.offset = 0,
                               !.related = FALSE, !.roots = {}, !.step = me.step + 1]
    <3> HIDE DEF rows, roots
    <3>1. next.rows = rows /\ next.truth = me.truth
      BY <1>a, <2>3 DEF Process
    <3>2. QED
      BY <1>a, <2>1, <3>1, AdvancedFits DEF rows
  <2>4. CASE next = [me EXCEPT !.rows = rows, !.page = {}, !.offset = 0, !.at = "write", !.second = clock,
                               !.pending = rows]
    <3> HIDE DEF rows, roots
    <3>1. next.rows = rows /\ next.truth = me.truth
      BY <1>a, <2>4 DEF Process
    <3>2. QED
      BY <1>a, <2>1, <3>1, AdvancedFits DEF rows
  <2>5. QED
    BY ZenonT(60), <1>a, <2>1, <2>2, <2>3, <2>4, AdvancedWays
<1>1. CASE FetchPage(p)
  <2> DEFINE page == Page(Matching(p), procs[p].offset)
             me == [procs[p] EXCEPT !.page = procs[p].page \cup page, !.rows = procs[p].rows \cup page,
                                    !.offset = procs[p].offset + PageSize]
  <2>1. page \in SUBSET present /\ page \in SUBSET Rows
    BY <1>a DEF Page, Matching
  <2>2. Goes(p, Advanced(p, page)) \/ Goes(p, me)
    BY <1>1 DEF FetchPage
  <2>3. /\ me.rows = procs[p].rows \cup page /\ me.truth = procs[p].truth /\ me.todo = procs[p].todo
        /\ me.at = "fetch"
    BY <1>a DEF Process, At
  <2> HIDE DEF page, me
  <2>4. CASE Goes(p, me)
    <3>1. procs'[p] = me /\ \A q \in Procs \ {p} : procs'[q] = procs[q]
      BY <2>4, ProcType DEF Goes
    <3>2. QED
      BY <1>a, <2>1, <2>3, <3>1
  <2>5. CASE Goes(p, Advanced(p, page))
    <3>1. PICK next : next = Advanced(p, page)
      OBVIOUS
    <3>2. procs'[p] = next /\ \A q \in Procs \ {p} : procs'[q] = procs[q]
      BY <2>5, <3>1, ProcType DEF Goes
    <3>3. QED
      BY <1>a, <1>b, <2>1, <3>1, <3>2
  <2>6. QED
    BY <2>2, <2>4, <2>5
<1>2. CASE TableUnavailable(p)
  <2>1. PICK next : next = Advanced(p, {})
    OBVIOUS
  <2>2. {} \in SUBSET Rows /\ {} \in SUBSET present
    OBVIOUS
  <2>3. /\ next \in Process /\ next.at \in {"fetch", "write"} /\ next.todo = procs[p].todo
        /\ next.truth = procs[p].truth /\ next.rows = procs[p].rows \cup {}
    BY <1>b, <2>1, <2>2
  <2>4. PICK unread : unread = Unread(p)
    OBVIOUS
  <2> DEFINE me == [next EXCEPT !.owed = next.owed \ unread]
  <2>5. procs' = [procs EXCEPT ![p] = me]
    BY <1>2, <2>1, <2>4 DEF TableUnavailable, Goes
  <2>6. me.at = next.at /\ me.todo = next.todo /\ me.truth = next.truth /\ me.rows = next.rows
    BY <2>3 DEF Process
  <2> HIDE DEF me
  <2>7. procs'[p] = me /\ \A q \in Procs \ {p} : procs'[q] = procs[q]
    BY <2>5, ProcType
  <2>8. QED
    BY <1>a, <2>2, <2>3, <2>6, <2>7
<1>3. QED
  BY <1>1, <1>2

(* Whoever wrote is over or still writes, after a step of one process too. *)
LEMMA KnownStays ==
  ASSUME TypeOK, TypeOK', NEW p \in Procs, \A q \in Procs \ {p} : procs'[q] = procs[q],
         Len(procs'[p].todo) <= Len(procs[p].todo),
         NEW mine, mine = ThisPull(p),
         At(p, "write") => Over(mine)' \/ (At(p, "write")' /\ ThisPull(p)' = mine),
         NEW pull \in Pulls \cup {Nothing}, Known(pull)
  PROVE  Known(pull)'
<1>1. CASE Over(pull)
  <2>1. ASSUME NEW q \in Procs PROVE Len(procs'[q].todo) <= Len(procs[q].todo)
    <3>1. procs[q].todo \in Seq(Commands)
      BY ProcType DEF Process
    <3>2. Len(procs[q].todo) <= Len(procs[q].todo)
      BY <3>1
    <3>3. QED
      BY <3>2
  <2>2. QED
    BY <1>1, <2>1, OverStays DEF Known
<1>2. ASSUME NEW q \in Procs, At(q, "write"), pull = ThisPull(q) PROVE Known(pull)'
  <2>1. CASE q = p
    <3>1. pull = mine
      BY <1>2, <2>1
    <3>2. QED
      BY <1>2, <2>1, <3>1 DEF Known
  <2>2. CASE q # p
    <3>1. At(q, "write")' /\ ThisPull(q)' = ThisPull(q)
      BY <1>2, <2>2 DEF At, ThisPull
    <3>2. QED
      BY <1>2, <3>1 DEF Known
  <2>3. QED
    BY <2>1, <2>2
<1>3. QED
  BY <1>1, <1>2 DEF Known

(* One process takes a step that no directory and no row is touched by. *)
LEMMA StepTruth ==
  ASSUME TypeOK, TypeOK', TruthInv, UNCHANGED <<present, dirs>>, NEW p \in Procs,
         \A q \in Procs \ {p} : procs'[q] = procs[q],
         Len(procs'[p].todo) <= Len(procs[p].todo),
         NEW mine, mine = ThisPull(p),
         At(p, "write") => Over(mine)' \/ (At(p, "write")' /\ ThisPull(p)' = mine),
         Truly(p)'
  PROVE  TruthInv'
<1>1. ASSUME NEW q \in Procs PROVE Truly(q)'
  <2>1. CASE q # p
    BY <2>1 DEF TruthInv, Truly, At, ThisPull
  <2>2. QED
    BY <2>1
<1>2. WritersKnown'
  <2>1. ASSUME NEW s \in Seconds, NEW pull \in dirs[s].writers PROVE Known(pull)'
    <3>1. Known(pull) /\ dirs[s] \in Dir
      BY <2>1 DEF TruthInv, WritersKnown, TypeOK, Seconds
    <3>2. pull \in Pulls \cup {Nothing}
      BY <2>1, <3>1 DEF Dir
    <3>3. QED
      BY <3>1, <3>2, KnownStays
  <2>2. QED
    BY <2>1 DEF TruthInv, WritersKnown, Seconds
<1>3. ArchivesTrue'
  BY DEF TruthInv, ArchivesTrue, Readable, WrittenOnce, Seconds
<1>4. QED
  BY <1>1, <1>2, <1>3 DEF TruthInv

(* One process writes into the directory of its pull, or dies while it does. *)
LEMMA WriteTruth ==
  ASSUME TypeOK, TypeOK', Placed, TruthInv, NEW p \in Procs, At(p, "write"), present' = present,
         \A q \in Procs \ {p} : procs'[q] = procs[q],
         Len(procs'[p].todo) <= Len(procs[p].todo),
         NEW mine, mine = ThisPull(p),
         Over(mine)' \/ (At(p, "write")' /\ ThisPull(p)' = mine),
         NEW d, dirs' = [dirs EXCEPT ![procs[p].second] = d],
         d.writers = dirs[procs[p].second].writers \cup {mine},
         d.manifest # Nothing /\ ~ d.cut /\ (\A a, b \in d.writers : a = b) /\ d.truth # Nothing =>
            d.whole \subseteq d.truth,
         Truly(p)'
  PROVE  TruthInv'
<1> DEFINE s == procs[p].second
<1>a. /\ s \in Seconds /\ dirs[s] \in Dir
  <2>1. procs[p] \in Process /\ s <= clock
    BY ProcType DEF Placed
  <2>2. s \in Nat
    BY <2>1 DEF Process
  <2>3. QED
    BY <2>1, <2>2, DirsType
<1>b. /\ Seconds' = Seconds /\ dirs'[s] = d /\ \A t \in Seconds \ {s} : dirs'[t] = dirs[t]
  BY <1>a DEF Seconds
<1>1. ASSUME NEW q \in Procs PROVE Truly(q)'
  <2>1. CASE q # p /\ ~ At(q, "write")
    BY <2>1 DEF TruthInv, Truly, At
  <2>2. CASE q # p /\ At(q, "write") /\ procs[q].second # s
    <3>1. procs[q].second \in Seconds
      <4>1. procs[q] \in Process /\ procs[q].second <= clock
        BY <2>2, ProcType DEF Placed
      <4>2. procs[q].second \in Nat
        BY <4>1 DEF Process
      <4>3. QED
        BY <4>1, <4>2, DirsType
    <3>2. dirs'[procs[q].second] = dirs[procs[q].second] /\ procs'[q] = procs[q]
      BY <1>b, <2>2, <3>1
    <3>3. QED
      BY <2>2, <3>2 DEF TruthInv, Truly, At, ThisPull
  <2>3. CASE q # p /\ At(q, "write") /\ procs[q].second = s
    <3>1. procs'[q] = procs[q] /\ ThisPull(q) # mine /\ ThisPull(q)' = ThisPull(q)
      BY <2>3 DEF ThisPull
    <3>2. ~ dirs'[s].writers \subseteq {ThisPull(q)}
      BY <1>b, <3>1
    <3>3. procs[q].truth # Nothing => procs[q].rows \subseteq procs[q].truth
      BY <2>3 DEF TruthInv, Truly
    <3>4. QED
      BY <2>3, <3>1, <3>2, <3>3 DEF Truly, At
  <2>4. QED
    BY <2>1, <2>2, <2>3
<1>2. WritersKnown'
  <2>1. ASSUME NEW t \in Seconds, NEW pull \in dirs[t].writers PROVE Known(pull)'
    <3>1. Known(pull) /\ dirs[t] \in Dir
      BY <2>1 DEF TruthInv, WritersKnown, TypeOK, Seconds
    <3>2. pull \in Pulls \cup {Nothing}
      BY <2>1, <3>1 DEF Dir
    <3>3. QED
      BY <3>1, <3>2, KnownStays
  <2>2. Known(mine)'
    BY DEF Known
  <2>3. QED
    BY <1>a, <1>b, <2>1, <2>2 DEF TruthInv, WritersKnown
<1>3. ArchivesTrue'
  <2>1. ASSUME NEW t \in Seconds', Readable(t)', WrittenOnce(t)', dirs'[t].truth # Nothing
        PROVE  dirs'[t].whole \subseteq dirs'[t].truth
    <3>1. CASE t = s
      BY <1>b, <2>1, <3>1 DEF Readable, WrittenOnce
    <3>2. CASE t # s
      <4>1. t \in Seconds /\ dirs'[t] = dirs[t]
        BY <1>b, <3>2
      <4>2. QED
        BY <2>1, <4>1 DEF TruthInv, ArchivesTrue, Readable, WrittenOnce
    <3>3. QED
      BY <3>1, <3>2
  <2>2. QED
    BY <2>1 DEF ArchivesTrue
<1>4. QED
  BY <1>1, <1>2, <1>3 DEF TruthInv


(* A pull begins, and reads. *)
LEMMA ReadTruth ==
  ASSUME IInv, TypeOK', TruthInv, NEW p \in Procs, BeginPull(p) \/ FetchPage(p) \/ TableUnavailable(p)
  PROVE  TruthInv'
<1>a. TypeOK /\ Placed /\ procs[p] \in Process /\ Fits(procs[p])
  BY ProcType DEF IInv, Placed
<1>b. procs[p].todo # <<>> /\ Len(procs[p].todo) \in Nat
  <2>1. procs[p].todo # <<>>
    BY <1>a DEF BeginPull, FetchPage, TableUnavailable, Starts, At, Fits
  <2>2. QED
    BY <1>a, <2>1, CommandType
<1>c. PICK mine : mine = ThisPull(p)
  OBVIOUS
<1>1. CASE BeginPull(p)
  <2> DEFINE me == [procs[p] EXCEPT !.at = "fetch", !.owed = present, !.truth = present]
  <2>1. procs' = [procs EXCEPT ![p] = me] /\ present' = present /\ dirs' = dirs /\ procs[p].at = "idle"
    BY <1>1 DEF BeginPull, Goes, Elsewhere, Files, Starts, Busy
  <2>2. procs[p].rows = {}
    <3>1. procs[p] = [IdleProc EXCEPT !.todo = procs[p].todo]
      BY <1>a, <2>1 DEF Fits
    <3> DEFINE todo == procs[p].todo
    <3>2. procs[p] = [IdleProc EXCEPT !.todo = todo]
      BY <3>1
    <3> HIDE DEF todo
    <3>3. QED
      BY <3>2 DEF IdleProc
  <2>3. me.at = "fetch" /\ me.truth = present /\ me.rows = {} /\ me.todo = procs[p].todo
    BY <1>a, <2>2 DEF Process
  <2> HIDE DEF me
  <2>4. procs'[p] = me /\ \A q \in Procs \ {p} : procs'[q] = procs[q]
    BY <2>1, <1>a, ProcType
  <2>5. Truly(p)'
    BY <2>1, <2>3, <2>4 DEF Truly, At
  <2>6. Len(procs'[p].todo) <= Len(procs[p].todo) /\ ~ At(p, "write")
    BY <1>b, <2>1, <2>3, <2>4 DEF At
  <2>7. QED
    BY <1>a, <1>c, <2>1, <2>4, <2>5, <2>6, StepTruth
<1>2. CASE FetchPage(p) \/ TableUnavailable(p)
  <2>1. /\ procs[p].at = "fetch" /\ UNCHANGED <<present, dirs>>
        /\ \A q \in Procs \ {p} : procs'[q] = procs[q]
        /\ procs'[p].todo = procs[p].todo /\ procs'[p].truth = procs[p].truth
    BY <1>a, <1>2, FetchWays DEF At
  <2>2. PICK page \in SUBSET present : procs'[p].rows = procs[p].rows \cup page
    BY <1>a, <1>2, FetchWays
  <2>3. procs'[p].truth # Nothing => procs'[p].truth = present /\ procs'[p].rows \subseteq present
    BY <2>1, <2>2 DEF TruthInv, Truly, At
  \* Nobody has written into the directory for this pull.
  <2>4. ASSUME At(p, "write")', dirs[procs'[p].second].writers \subseteq {mine}
        PROVE  dirs[procs'[p].second].whole = {}
    <3> DEFINE s == procs'[p].second
    <3>1. s \in Seconds
      <4>1. Placed' /\ TypeOK' /\ clock' = clock
        <5>1. Pull(p)
          BY <1>2 DEF Pull
        <5>2. QED
          BY <1>2, <1>a, <5>1, PullShape DEF FetchPage, TableUnavailable, Elsewhere
      <4>2. procs'[p] \in Process /\ s <= clock
        BY <2>4, <4>1 DEF Placed, At, TypeOK
      <4>3. s \in Nat
        BY <4>2 DEF Process
      <4>4. QED
        BY <1>a, <4>2, <4>3, DirsType
    <3>2. ~ Known(mine)
      <4>1. ~ Over(mine)
        BY <1>a, <1>b, <1>c, NotOver
      <4>2. ASSUME NEW q \in Procs, mine = ThisPull(q) PROVE q = p
        BY <1>c, <4>2 DEF ThisPull
      <4>3. ~ At(p, "write")
        BY <2>1 DEF At
      <4>4. QED
        BY <4>1, <4>2, <4>3 DEF Known
    <3>3. dirs[s].writers = {}
      BY <2>4, <3>1, <3>2 DEF TruthInv, WritersKnown
    <3>4. QED
      BY <3>1, <3>3 DEF TruthInv, WritersKnown
  <2>5. Truly(p)'
    <3>1. ThisPull(p)' = mine /\ dirs' = dirs /\ present' = present
      BY <1>c, <2>1 DEF ThisPull
    <3>2. ASSUME At(p, "write")', dirs'[procs'[p].second].writers \subseteq {mine}
          PROVE  dirs'[procs'[p].second].whole \subseteq procs'[p].rows
      BY <2>4, <3>1, <3>2
    <3>3. QED
      BY <2>3, <3>1, <3>2 DEF Truly
  <2>6. Len(procs'[p].todo) <= Len(procs[p].todo) /\ ~ At(p, "write")
    BY <1>b, <2>1 DEF At
  <2>7. QED
    BY <1>a, <1>c, <2>1, <2>5, <2>6, StepTruth
<1>3. QED
  BY <1>1, <1>2

(* A record of the pull is written, then the manifest; or the process dies. *)
LEMMA WritesTruth ==
  ASSUME IInv, TypeOK', TruthInv, NEW p \in Procs, WriteRecord(p) \/ WriteManifest(p) \/ Crash(p)
  PROVE  TruthInv'
<1>a. TypeOK /\ Placed /\ ArchiveInv /\ procs[p] \in Process /\ Fits(procs[p]) /\ present' = present
  BY ProcType DEF IInv, Placed, WriteRecord, WriteManifest, Crash, Elsewhere
<1>b. procs[p].todo # <<>> /\ Len(procs[p].todo) \in Nat
  <2>1. procs[p].todo # <<>>
    BY <1>a DEF WriteRecord, WriteManifest, Crash, Busy, At, Fits
  <2>2. QED
    BY <1>a, <2>1, CommandType
<1>e. PICK mine : mine = ThisPull(p)
  OBVIOUS
<1>c. ASSUME End(p)
      PROVE  /\ Truly(p)' /\ Over(mine)'
             /\ \A q \in Procs \ {p} : procs'[q] = procs[q]
             /\ Len(procs'[p].todo) <= Len(procs[p].todo)
  <2>1. procs' = [procs EXCEPT ![p] = Ended(p)]
    BY <1>c DEF End, Goes
  <2>2. Ended(p).at = "idle" /\ Ended(p).todo = Tail(procs[p].todo)
    BY DEF Ended, IdleProc
  <2>3. procs'[p] = Ended(p) /\ \A q \in Procs \ {p} : procs'[q] = procs[q]
    BY <1>a, <2>1, ProcType
  <2>4. Len(Tail(procs[p].todo)) = Len(procs[p].todo) - 1
    BY <1>a, <1>b, CommandType
  <2>5. \A n \in Nat : n - 1 < n /\ n - 1 <= n
    OBVIOUS
  <2>6. Len(procs'[p].todo) < Len(procs[p].todo) /\ Len(procs'[p].todo) <= Len(procs[p].todo)
    BY <1>b, <2>2, <2>3, <2>4, <2>5
  <2>7. mine[1] = p /\ mine[2] = Len(procs[p].todo)
    BY <1>e DEF ThisPull
  <2>8. Over(mine)'
    BY <2>6, <2>7 DEF Over
  <2>9. Truly(p)'
    BY <2>2, <2>3 DEF Truly, At
  <2>10. QED
    BY <2>3, <2>6, <2>8, <2>9
<1> DEFINE s == procs[p].second
           old == dirs[s]
<1>d. ASSUME procs[p].at = "write"
      PROVE  /\ s \in Seconds /\ old \in Dir /\ Truly(p)
             /\ procs[p].pending \subseteq procs[p].rows
             /\ Writable(p) \subseteq procs[p].pending
  <2>1. s <= clock
    BY <1>a, <1>d DEF Placed, At
  <2>2. s \in Nat
    BY <1>a DEF Process
  <2>3. s \in Seconds /\ old \in Dir
    BY <1>a, <2>1, <2>2, DirsType
  <2>4. QED
    BY <1>a, <1>d, <2>3, WritableType DEF Fits, TruthInv, At
<1>f. mine \in Pulls /\ ~ Over(mine)
  BY <1>a, <1>b, <1>e, NotOver
\* Another pull made the archive that is already there.
<1>g. ASSUME procs[p].at = "write", old.manifest # Nothing
      PROVE  \E a, b \in old.writers \cup {mine} : a # b
  <2>1. s \in Seconds
    BY <1>d, <1>g
  <2>2. PICK pull \in old.writers : Over(pull)
    BY <1>a, <1>g, <2>1 DEF ArchiveInv
  <2>3. pull # mine
    BY <1>f, <2>2
  <2>4. QED
    BY <2>2, <2>3
<1>1. CASE WriteRecord(p)
  <2>1. PICK row \in Writable(p) :
           /\ dirs' = [dirs EXCEPT ![s] = WithFiles(old, p, old.whole \cup {row})]
           /\ procs' = [procs EXCEPT ![p] = [procs[p] EXCEPT !.pending = procs[p].pending \ {row}]]
    BY <1>1 DEF WriteRecord, Goes
  <2> DEFINE d == WithFiles(old, p, old.whole \cup {row})
             me == [procs[p] EXCEPT !.pending = procs[p].pending \ {row}]
  <2>2. procs[p].at = "write"
    BY <1>1 DEF WriteRecord, At
  <2>3. /\ d.writers = old.writers \cup {mine} /\ d.manifest = old.manifest
        /\ d.whole = old.whole \cup {row}
    BY <1>d, <1>e, <2>2 DEF WithFiles, Dir
  <2>4. /\ me.at = "write" /\ me.todo = procs[p].todo /\ me.second = s /\ me.truth = procs[p].truth
        /\ me.rows = procs[p].rows
    BY <1>a, <2>2 DEF Process
  <2>5. dirs' = [dirs EXCEPT ![s] = d] /\ procs' = [procs EXCEPT ![p] = me]
    BY <2>1
  <2> HIDE DEF d, me
  <2>6. procs'[p] = me /\ dirs'[s] = d /\ \A q \in Procs \ {p} : procs'[q] = procs[q]
    BY <1>a, <1>d, <2>2, <2>5, ProcType DEF Seconds
  <2>7. At(p, "write")' /\ ThisPull(p)' = mine
    BY <1>e, <2>4, <2>6 DEF ThisPull, At
  <2>8. Truly(p)'
    <3>1. ASSUME d.writers \subseteq {mine} PROVE d.whole \subseteq procs'[p].rows
      <4>1. old.whole \subseteq procs[p].rows
        BY <1>d, <1>e, <2>2, <2>3, <3>1 DEF Truly, At
      <4>2. row \in procs[p].rows
        BY <1>d, <2>1, <2>2
      <4>3. QED
        BY <2>3, <2>4, <2>6, <4>1, <4>2
    <3>2. procs'[p].truth # Nothing => procs'[p].rows \subseteq procs'[p].truth
      BY <1>d, <2>2, <2>4, <2>6 DEF Truly, At
    <3>3. QED
      BY <2>4, <2>6, <2>7, <3>1, <3>2 DEF Truly, At
  <2>9. d.manifest # Nothing => \E a, b \in d.writers : a # b
    BY <1>g, <2>2, <2>3
  <2>10. Len(procs'[p].todo) <= Len(procs[p].todo) /\ At(p, "write")
    BY <1>b, <2>2, <2>4, <2>6 DEF At
  <2>11. QED
    BY ZenonT(60), <1>a, <1>e, <2>3, <2>5, <2>6, <2>7, <2>8, <2>9, <2>10, WriteTruth
<1>2. CASE WriteManifest(p)
  <2> DEFINE touched == Touched(old, p)
             d == [touched EXCEPT !.manifest = procs[p].rows, !.cut = FALSE,
                                  !.owed = procs[p].owed, !.truth = procs[p].truth]
  <2>1. procs[p].at = "write" /\ procs[p].pending = {} /\ End(p)
    BY <1>2 DEF WriteManifest, At
  <2>2. touched \in Dir /\ touched.whole = old.whole /\ touched.writers = old.writers \cup {mine}
    BY <1>a, <1>b, <1>d, <1>e, <2>1, TouchedType
  <2>3. dirs' = [dirs EXCEPT ![s] = d]
    BY <1>2 DEF WriteManifest
  <2> HIDE DEF touched
  <2>4. d.writers = old.writers \cup {mine} /\ d.whole = old.whole /\ d.truth = procs[p].truth
    BY <2>2 DEF Dir
  <2> HIDE DEF d
  <2>5. ASSUME \A a, b \in d.writers : a = b, d.truth # Nothing PROVE d.whole \subseteq d.truth
    <3>1. old.writers \subseteq {mine}
      BY <2>4, <2>5
    <3>2. old.whole \subseteq procs[p].rows /\ procs[p].rows \subseteq procs[p].truth
      BY <1>d, <1>e, <2>1, <2>4, <2>5, <3>1 DEF Truly, At
    <3>3. QED
      BY <2>4, <3>2
  <2>6. At(p, "write")
    BY <2>1 DEF At
  <2>7. QED
    BY ZenonT(60), <1>a, <1>c, <1>e, <2>1, <2>3, <2>4, <2>5, <2>6, WriteTruth
<1>3. CASE Crash(p)
  <2>1. End(p)
    BY <1>3 DEF Crash
  <2>2. CASE UNCHANGED dirs
    BY <1>a, <1>c, <1>e, <2>1, <2>2, StepTruth
  <2>3. ASSUME At(p, "write"), NEW row \in Writable(p),
               dirs' = [dirs EXCEPT ![s] = WithFiles(old, p, old.whole \ {row})]
        PROVE  TruthInv'
    <3> DEFINE d == WithFiles(old, p, old.whole \ {row})
    <3>1. procs[p].at = "write"
      BY <2>3 DEF At
    <3>2. d.writers = old.writers \cup {mine} /\ d.manifest = old.manifest
      BY <1>d, <1>e, <3>1 DEF WithFiles, Dir
    <3>3. dirs' = [dirs EXCEPT ![s] = d]
      BY <2>3
    <3> HIDE DEF d
    <3>4. d.manifest # Nothing => \E a, b \in d.writers : a # b
      BY <1>g, <3>1, <3>2
    <3>5. QED
      BY ZenonT(60), <1>a, <1>c, <1>e, <2>1, <2>3, <3>2, <3>3, <3>4, WriteTruth
  <2>4. ASSUME At(p, "write"), dirs' = [dirs EXCEPT ![s] = [Touched(old, p) EXCEPT !.cut = TRUE]]
        PROVE  TruthInv'
    <3> DEFINE touched == Touched(old, p)
               d == [touched EXCEPT !.cut = TRUE]
    <3>1. procs[p].at = "write"
      BY <2>4 DEF At
    <3>2. touched \in Dir /\ touched.writers = old.writers \cup {mine}
      BY <1>a, <1>b, <1>d, <1>e, <3>1, TouchedType
    <3>3. dirs' = [dirs EXCEPT ![s] = d]
      BY <2>4
    <3> HIDE DEF touched
    <3>4. d.writers = old.writers \cup {mine} /\ d.cut
      BY <3>2 DEF Dir
    <3> HIDE DEF d
    <3>5. QED
      BY ZenonT(60), <1>a, <1>c, <1>e, <2>1, <2>4, <3>3, <3>4, WriteTruth
  <2>5. QED
    BY <1>3, <2>2, <2>3, <2>4 DEF Crash
<1>4. QED
  BY <1>1, <1>2, <1>3

(* A process that is not at an archive goes elsewhere, or ends its command. *)
LEMMA AsideTruth ==
  ASSUME TypeOK, TypeOK', TruthInv, UNCHANGED <<present, dirs>>, NEW p \in Procs, NEW me, Goes(p, me),
         me.at \notin {"fetch", "write"}, Len(me.todo) <= Len(procs[p].todo), ~ At(p, "write")
  PROVE  TruthInv'
<1>1. procs'[p] = me /\ \A q \in Procs \ {p} : procs'[q] = procs[q]
  BY ProcType DEF Goes
<1>2. Truly(p)'
  BY <1>1 DEF Truly, At
<1>3. PICK mine : mine = ThisPull(p)
  OBVIOUS
<1>4. QED
  BY <1>1, <1>2, <1>3, StepTruth

(* A process that is not at an archive ends its command. *)
LEMMA EndTruth ==
  ASSUME TypeOK, TypeOK', TruthInv, UNCHANGED <<present, dirs>>, NEW p \in Procs, procs[p].todo # <<>>, End(p),
         ~ At(p, "write")
  PROVE  TruthInv'
<1>1. Ended(p).at = "idle" /\ Ended(p).todo = Tail(procs[p].todo)
  BY DEF Ended, IdleProc
<1>2. Len(procs[p].todo) \in Nat /\ Len(Tail(procs[p].todo)) = Len(procs[p].todo) - 1
  BY CommandType
<1>3. \A n \in Nat : n - 1 <= n
  OBVIOUS
<1>4. Len(Ended(p).todo) <= Len(procs[p].todo)
  BY <1>1, <1>2, <1>3
<1>5. QED
  BY <1>1, <1>4, AsideTruth DEF End

(* No process is touched, nor any directory. *)
LEMMA StillTruth ==
  ASSUME TruthInv, UNCHANGED <<present, dirs, procs>>
  PROVE  TruthInv'
<1>1. \A p \in Procs : Truly(p)'
  BY DEF TruthInv, Truly, At, ThisPull
<1>2. \A pull : Known(pull) => Known(pull)'
  BY DEF Known, Over, At, ThisPull
<1>3. QED
  BY <1>1, <1>2 DEF TruthInv, WritersKnown, ArchivesTrue, Readable, WrittenOnce, Seconds

(* A row comes or goes: what pulls under way have read is no longer the truth. *)
LEMMA SourceTruth ==
  ASSUME IInv, TypeOK', TruthInv, NEW row \in Rows, Insert(row) \/ Delete(row)
  PROVE  TruthInv'
<1>a. TypeOK /\ Placed /\ dirs' = dirs
  BY DEF IInv, Insert, Delete, Files
<1>1. ASSUME NEW p \in Procs
      PROVE  /\ procs'[p].at = procs[p].at /\ procs'[p].todo = procs[p].todo
             /\ procs'[p].rows = procs[p].rows /\ procs'[p].second = procs[p].second
             /\ procs'[p].truth = IF At(p, "fetch") THEN Nothing ELSE procs[p].truth
  <2>1. procs[p] \in Process
    BY <1>a, ProcType
  <2>2. /\ Disturbed(p).at = procs[p].at /\ Disturbed(p).todo = procs[p].todo
        /\ Disturbed(p).rows = procs[p].rows /\ Disturbed(p).second = procs[p].second
        /\ Disturbed(p).truth = IF At(p, "fetch") THEN Nothing ELSE procs[p].truth
    BY <2>1 DEF Disturbed, Process
  <2>3. Insert(row) => procs'[p] = Disturbed(p)
    BY DEF Insert
  <2>4. Delete(row) => procs'[p] = Unsettled(Disturbed(p), row)
    BY DEF Delete, Unsettled
  <2>5. Disturbed(p) \in Process
    BY <1>a, <2>1, DisturbedType
  <2>6. /\ Unsettled(Disturbed(p), row).at = Disturbed(p).at
        /\ Unsettled(Disturbed(p), row).todo = Disturbed(p).todo
        /\ Unsettled(Disturbed(p), row).rows = Disturbed(p).rows
        /\ Unsettled(Disturbed(p), row).second = Disturbed(p).second
        /\ Unsettled(Disturbed(p), row).truth = Disturbed(p).truth
    BY <2>5 DEF Unsettled, Process
  <2>7. QED
    BY <2>2, <2>3, <2>4, <2>6
<1>2. ASSUME NEW p \in Procs PROVE Truly(p)' /\ ThisPull(p)' = ThisPull(p) /\ At(p, "write")' = At(p, "write")
  BY <1>a, <1>1 DEF TruthInv, Truly, At, ThisPull
<1>3. ASSUME NEW pull \in Pulls \cup {Nothing}, Known(pull) PROVE Known(pull)'
  <2>1. Over(pull) => Over(pull)'
    <3>1. pull \in Pulls => pull[1] \in Procs
      BY DEF Pulls
    <3>2. QED
      BY <1>1, <3>1 DEF Over
  <2>2. QED
    BY <1>2, <1>3, <2>1 DEF Known
<1>4. WritersKnown'
  <2>1. ASSUME NEW t \in Seconds, NEW pull \in dirs[t].writers PROVE Known(pull)'
    <3>1. Known(pull) /\ dirs[t] \in Dir
      BY <1>a, <2>1 DEF TruthInv, WritersKnown, TypeOK, Seconds
    <3>2. pull \in Pulls \cup {Nothing}
      BY <2>1, <3>1 DEF Dir
    <3>3. QED
      BY <1>3, <3>1, <3>2
  <2>2. QED
    BY <1>a, <2>1 DEF TruthInv, WritersKnown, Seconds
<1>5. ArchivesTrue'
  BY <1>a DEF TruthInv, ArchivesTrue, Readable, WrittenOnce, Seconds
<1>6. QED
  BY <1>2, <1>4, <1>5 DEF TruthInv

(* Pushes, applies and failed requests leave the captures as they are. *)
LEMMA TargetTruth ==
  ASSUME IInv, TypeOK', TruthInv, NEW p \in Procs, Push(p) \/ Apply(p) \/ RequestFails(p)
  PROVE  TruthInv'
<1>a. TypeOK /\ UNCHANGED <<present, dirs>> /\ procs[p].todo # <<>> /\ ~ At(p, "write")
  BY TargetWays DEF IInv
<1>1. CASE End(p)
  BY <1>a, <1>1, EndTruth
<1>2. ASSUME NEW me, Goes(p, me), me.at \notin {"fetch", "write"}, me.todo = procs[p].todo
      PROVE  TruthInv'
  <2>1. Len(procs[p].todo) \in Nat
    BY <1>a, CommandType
  <2>2. Len(me.todo) <= Len(procs[p].todo)
    BY <1>2, <2>1
  <2>3. QED
    BY <1>a, <1>2, <2>2, AsideTruth
<1>3. QED
  BY <1>1, <1>2, TargetWays

(* So do assessments and gates. *)
LEMMA JudgeTruth ==
  ASSUME IInv, TypeOK', TruthInv, NEW p \in Procs, Assess(p) \/ Gate1(p) \/ Gate2(p) \/ CaptureFails(p)
  PROVE  TruthInv'
<1>1. TypeOK /\ UNCHANGED <<present, dirs>> /\ procs[p] \in Process /\ Fits(procs[p])
  BY ProcType DEF IInv, Placed, Assess, Gate1, Gate2, CaptureFails, Files, Elsewhere
<1>2. procs[p].todo # <<>> /\ ~ At(p, "write")
  BY <1>1 DEF Assess, Gate1, Gate2, CaptureFails, Starts, Busy, At, Fits
<1>3. CASE End(p)
  BY <1>1, <1>2, <1>3, EndTruth
<1>4. CASE Goes(p, [procs[p] EXCEPT !.at = "go", !.capture = present])
  <2> DEFINE me == [procs[p] EXCEPT !.at = "go", !.capture = present]
  <2>1. me.at = "go" /\ me.todo = procs[p].todo /\ Goes(p, me)
    BY <1>1, <1>4 DEF Process
  <2>2. Len(procs[p].todo) \in Nat
    BY <1>1, <1>2, CommandType
  <2> HIDE DEF me
  <2>3. Len(me.todo) <= Len(procs[p].todo)
    BY <2>1, <2>2
  <2>4. QED
    BY <1>1, <1>2, <2>1, <2>3, AsideTruth
<1>5. QED
  BY <1>3, <1>4, JudgeWays

(* No step makes a capture untrue. *)
LEMMA NextTruth == IInv /\ TruthInv /\ [AssessNext]_assessVars => TruthInv'
<1> SUFFICES ASSUME IInv, TruthInv, [AssessNext]_assessVars PROVE TruthInv'
  OBVIOUS
<1>1. TypeOK'
  BY NextShape
<1>2. CASE UNCHANGED assessVars
  BY <1>2, StillTruth DEF assessVars, vars
<1>3. ASSUME NEW p \in Procs, Pull(p) PROVE TruthInv'
  BY <1>1, <1>3, ReadTruth, WritesTruth DEF Pull
<1>4. ASSUME NEW p \in Procs, Push(p) \/ Apply(p) \/ RequestFails(p) \/ Crash(p) PROVE TruthInv'
  BY <1>1, <1>4, TargetTruth, WritesTruth
<1>5. ASSUME Tick \/ \E n \in DOMAIN sets : Complete(n) PROVE TruthInv'
  <2>1. UNCHANGED <<present, dirs, procs>>
    BY <1>5 DEF Tick, Complete, Files
  <2>2. QED
    BY <2>1, StillTruth
<1>6. ASSUME NEW row \in Rows, Insert(row) \/ Delete(row) PROVE TruthInv'
  BY <1>1, <1>6, SourceTruth
<1>7. ASSUME NEW p \in Procs, Assess(p) \/ Gate1(p) \/ Gate2(p) \/ CaptureFails(p) PROVE TruthInv'
  BY <1>1, <1>7, JudgeTruth
<1>8. QED
  BY <1>2, <1>3, <1>4, <1>5, <1>6, <1>7 DEF AssessNext, Next

(* The archive that is there at the start is true. *)
LEMMA InitTruth == AssessInit => TruthInv
<1> SUFFICES ASSUME AssessInit PROVE TruthInv
  OBVIOUS
<1>1. PICK world \in Worlds :
        dirs = [second \in 0 .. clock + world.left.time |-> IF second = 0 THEN world.archive ELSE NoDir]
  BY DEF AssessInit, Init
<1>2. \A p \in Procs : procs[p].at = "idle"
  BY DEF AssessInit, Init, IdleProc
<1>3. \A p \in Procs : Truly(p)
  BY <1>2 DEF Truly, At
<1>4. ASSUME NEW s \in Seconds
      PROVE  /\ dirs[s].writers = {} => dirs[s].whole = {}
             /\ dirs[s].writers \subseteq {Nothing}
             /\ dirs[s].truth # Nothing => dirs[s].whole \subseteq dirs[s].truth
  <2>1. dirs[s] \in {world.archive, NoDir}
    BY <1>1 DEF Seconds
  <2>2. NoDir.writers = {} /\ NoDir.whole = {} /\ NoDir.truth = Nothing
    BY DEF NoDir
  <2>3. /\ world.archive = NoDir \/ world.archive.writers = {Nothing}
        /\ world.archive.truth # Nothing => world.archive.whole \subseteq world.archive.truth
    BY WorldsAssumption
  <2>4. QED
    BY <2>1, <2>2, <2>3
<1>5. WritersKnown
  BY <1>4 DEF WritersKnown, Known, Over
<1>6. QED
  BY <1>3, <1>4, <1>5 DEF TruthInv, ArchivesTrue

-----------------------------------------------------------------------------
(***************************************************************************)
(* Verdicts                                                                *)
(***************************************************************************)
(* A rule fails for what it looks at. *)
LEMMA SameRecords ==
  ASSUME NEW rule, NEW a, NEW b, RecordsForScope(rule, a) = RecordsForScope(rule, b)
  PROVE  Fails(rule, a) => Fails(rule, b)
  BY DEF Fails

(* A rule whose failure is an error fails in no gate that ends otherwise than  *)
(* in ERROR, and none that binds in one that ends in PASS.                     *)
LEMMA GateHolds ==
  ASSUME NEW rules, NEW capture, NEW phase, NEW rule \in rules, rule.phase = phase,
         \/ Gate(rules, capture, phase) # "ERROR" /\ rule.severity = "ERROR"
         \/ Gate(rules, capture, phase) = "PASS" /\ Binding(rule)
  PROVE  rule.required \subseteq Tables(capture) /\ ~ Fails(rule, capture)
<1> DEFINE mine == {r \in rules : r.phase = phase}
           findings == Evaluate(mine, capture, phase)
<1>1. rule \in mine /\ Gate(rules, capture, phase) = Verdict(findings, phase)
  BY DEF Gate
<1>2. ~ rule.required \subseteq Tables(capture) => [rule |-> rule, severity |-> "ERROR"] \in findings
  BY <1>1 DEF Evaluate
<1>3. rule.required \subseteq Tables(capture) /\ Fails(rule, capture) =>
         [rule |-> rule, severity |-> rule.severity] \in findings
  BY <1>1 DEF Evaluate
<1> HIDE DEF findings
<1>4. ~ \E f \in findings : f.severity = "ERROR"
  BY <1>1 DEF Verdict
<1>5. Gate(rules, capture, phase) = "PASS" /\ phase = "PRE_APPLY" => ~ \E f \in findings : f.severity = "WARNING"
  BY <1>1 DEF Verdict
<1>6. rule.required \subseteq Tables(capture)
  BY <1>2, <1>4
<1>7. CASE rule.severity = "ERROR"
  BY <1>3, <1>4, <1>6, <1>7
<1>8. CASE Gate(rules, capture, phase) = "PASS" /\ rule.severity = "WARNING" /\ phase = "PRE_APPLY"
  BY <1>3, <1>5, <1>6, <1>8
<1>9. QED
  BY <1>7, <1>8 DEF Binding

(* Only a PASS is an exit code of 0. *)
LEMMA PassExits == ASSUME NEW verdict, ExitCode(verdict) = 0 PROVE verdict = "PASS"
<1>1. CASE verdict = "BLOCK"
  BY <1>1 DEF ExitCode
<1>2. CASE verdict # "BLOCK" /\ verdict # "PASS"
  BY <1>2 DEF ExitCode
<1>3. QED
  BY <1>1, <1>2

(* A passing assessment has judged an archive, or had no rule. *)
LEMMA AssessJudges ==
  ASSUME NEW command, NEW second, AssessCode(command, second) = 0, command.for # "job"
  PROVE  \/ command.for = "instance" /\ command.rulesets = {}
         \/ second \in Archives /\ Readable(second) /\ ExitCode(Judged(command, second)) = 0
<1>1. CASE command.for = "template" /\ RulesetsOf(command) = {}
  BY <1>1 DEF AssessCode
<1>2. CASE /\ ~ (command.for = "template" /\ RulesetsOf(command) = {})
           /\ ~ (command.for = "instance" /\ command.rulesets = {})
  <2>1. AssessCode(command, second) = IF command.live \/ second \notin Archives \/ ~ Readable(second) THEN 1
                                      ELSE ExitCode(Judged(command, second))
    BY <1>2 DEF AssessCode
  <2>2. QED
    BY <2>1
<1>3. QED
  BY <1>1, <1>2

(* What `nexus assess` says is earned. *)
LEMMA AssessEarns ==
  ASSUME IInv, TruthInv, NEW command, NEW second, command.do = "assess",
         NEW v, v = [command |-> command, exit |-> AssessCode(command, second),
                     truth |-> Truth(second), torn |-> Torn(second)]
  PROVE  AssessIsEarned(v)
<1>1. SUFFICES ASSUME v.truth # Nothing, v.exit = 0, command.for # "job",
                      NEW rule \in RulesAsked(command), Binding(rule),
                      LooksAt(rule, v.truth) \subseteq rule.required \ v.torn
               PROVE  ~ Fails(rule, v.truth)
  BY DEF AssessIsEarned, Trusts, Holds
<1> DEFINE whole == dirs[second].whole
           truth == dirs[second].truth
           owed == dirs[second].owed
<1>2. second \in Archives /\ WrittenOnce(second) /\ v.truth = truth /\ truth # Nothing
  BY <1>1 DEF Truth
<1>3. v.torn = Tables(truth \ owed) \cap Tables(whole)
  BY <1>1 DEF Torn
<1>4. rule.phase = Phase(command) /\ rule \in RulesOf(RulesetsOf(command))
  BY DEF RulesAsked
<1>5. ~ (command.for = "instance" /\ command.rulesets = {})
  <2>1. SUFFICES ASSUME command.for = "instance", command.rulesets = {} PROVE FALSE
    OBVIOUS
  <2>2. RulesetsOf(command) = {}
    BY <2>1 DEF RulesetsOf
  <2>3. QED
    BY <1>4, <2>2 DEF RulesOf
<1>6. Readable(second) /\ ExitCode(Judged(command, second)) = 0
  BY <1>1, <1>5, AssessJudges
<1>7. owed \subseteq whole /\ whole \subseteq truth
  <2>1. second \in Seconds
    BY <1>2 DEF Archives
  <2>2. ArchiveIsWhole /\ ArchivesTrue
    BY DEF IInv, ArchiveInv, TruthInv
  <2>3. QED
    BY <1>2, <1>6, <2>1, <2>2 DEF ArchiveIsWhole, ArchivesTrue
<1>8. rule.required \subseteq Tables(whole) /\ ~ Fails(rule, whole)
  <2>1. rule \in MergeRulesets(RulesetsOf(command), Phase(command))
    BY <1>4 DEF MergeRulesets
  <2>2. Gate(MergeRulesets(RulesetsOf(command), Phase(command)), whole, Phase(command)) = "PASS"
    BY <1>6, PassExits DEF Judged
  <2>3. QED
    BY <1>1, <1>4, <2>1, <2>2, GateHolds
\* Of a table that the rule requires and that did not break off, nothing is missing.
<1>9. ASSUME NEW row \in truth, TableOf[row] \in rule.required \ v.torn PROVE row \in whole
  <2>1. TableOf[row] \in Tables(whole)
    BY <1>8, <1>9
  <2>2. TableOf[row] \notin Tables(truth \ owed)
    BY <1>3, <1>9, <2>1
  <2>3. row \in owed
    BY <2>2 DEF Tables
  <2>4. QED
    BY <1>7, <2>3
<1>10. RecordsForScope(rule, truth) = RecordsForScope(rule, whole)
  <2>1. ASSUME NEW row \in truth, rule.scope \in {AnyTable, TableOf[row]} PROVE row \in whole
    <3>1. TableOf[row] \in LooksAt(rule, truth)
      BY <2>1 DEF LooksAt, Tables
    <3>2. QED
      BY <1>1, <1>2, <1>9, <3>1
  <2>2. QED
    BY <1>7, <2>1 DEF RecordsForScope
<1>11. QED
  BY <1>2, <1>8, <1>10, SameRecords

(* Gate 1 lets an apply through when what counts holds. *)
LEMMA Gate1Clears ==
  ASSUME NEW command, NEW rows, ~ Refused(Gate(ApplyRules(command, "PRE_APPLY"), rows, "PRE_APPLY"), command)
  PROVE  Cleared(command, rows)
<1> DEFINE rules == ApplyRules(command, "PRE_APPLY")
           verdict == Gate(rules, rows, "PRE_APPLY")
<1>1. SUFFICES ASSUME NEW rule \in RulesOf(RulesetsFor(command.rulesets, command.name)),
                      rule.phase = "PRE_APPLY", command.force => rule.severity = "ERROR", Binding(rule)
               PROVE  ~ Fails(rule, rows)
  BY DEF Cleared, Holds
<1>2. rule \in rules
  BY <1>1 DEF ApplyRules
<1>3. verdict # "ERROR" /\ (verdict = "BLOCK" => command.force)
  BY DEF Refused
<1>4. verdict \in {"ERROR", "BLOCK", "PASS"}
  BY DEF Gate, Verdict
<1> HIDE DEF rules, verdict
<1>5. CASE rule.severity = "ERROR"
  BY <1>1, <1>2, <1>3, <1>5, GateHolds DEF verdict
<1>6. CASE rule.severity # "ERROR"
  <2>1. verdict = "PASS"
    BY <1>1, <1>3, <1>4, <1>6
  <2>2. QED
    BY <1>1, <1>2, <2>1, GateHolds DEF verdict
<1>7. QED
  BY <1>5, <1>6

(* Gate 2 passes when what counts holds. *)
LEMMA Gate2Holds ==
  ASSUME NEW command, NEW rows, ExitCode(Gate(ApplyRules(command, "POST_APPLY"), rows, "POST_APPLY")) = 0
  PROVE  Holds({r \in RulesOf(RulesetsFor(command.rulesets, command.name)) : r.phase = "POST_APPLY"}, rows)
<1>1. SUFFICES ASSUME NEW rule \in RulesOf(RulesetsFor(command.rulesets, command.name)),
                      rule.phase = "POST_APPLY", Binding(rule)
               PROVE  ~ Fails(rule, rows)
  BY DEF Holds
<1>2. rule \in ApplyRules(command, "POST_APPLY")
  BY <1>1 DEF ApplyRules
<1>3. QED
  BY <1>1, <1>2, PassExits, GateHolds

(* What was earned stays earned while logs are kept. *)
LEMMA EarnedStays ==
  ASSUME VerdictIsEarned, logs \subseteq logs',
         \/ UNCHANGED verdicts
         \/ \E v : /\ Says(v)
                   /\ IF v.command.do = "assess" THEN AssessIsEarned(v) ELSE ApplyIsEarned(v)'
  PROVE  VerdictIsEarned'
<1>1. \A v : AssessIsEarned(v)' <=> AssessIsEarned(v)
  BY DEF AssessIsEarned
<1>2. \A v : ApplyIsEarned(v) => ApplyIsEarned(v)'
  BY DEF ApplyIsEarned
<1>3. QED
  BY <1>1, <1>2 DEF VerdictIsEarned, Says

(* A step of one process. *)
LEMMA StepAllowed ==
  ASSUME GatesTrue, logs \subseteq logs', NEW p \in Procs,
         \A q \in Procs \ {p} : procs'[q] = procs[q], Allowed(p)'
  PROVE  GatesTrue'
<1>1. ASSUME NEW q \in Procs, q # p PROVE Allowed(q)'
  BY <1>1 DEF GatesTrue, Allowed, Passed, Command, At
<1>2. QED
  BY <1>1 DEF GatesTrue

(* A process that leaves its gates, or keeps what let it through. *)
LEMMA PassedOn ==
  ASSUME TypeOK, GatesTrue, logs \subseteq logs', NEW p \in Procs, NEW me, Goes(p, me),
         \/ ~ Passed(me)
         \/ /\ me.at # "gate 2" /\ Passed(procs[p])
            /\ me.todo = procs[p].todo /\ me.capture = procs[p].capture
  PROVE  GatesTrue'
<1>1. procs'[p] = me /\ \A q \in Procs \ {p} : procs'[q] = procs[q]
  BY ProcType DEF Goes
<1>2. Allowed(p)'
  BY <1>1 DEF Allowed, Passed, GatesTrue, Command, At
<1>3. QED
  BY <1>1, <1>2, StepAllowed

(* A process that ends its command has no gate to pass. *)
LEMMA EndAllowed ==
  ASSUME TypeOK, GatesTrue, logs \subseteq logs', NEW p \in Procs, End(p)
  PROVE  GatesTrue'
<1>1. ~ Passed(Ended(p))
  BY DEF Passed, Ended, IdleProc, Writing
<1>2. QED
  BY <1>1, PassedOn DEF End

(* A pull writes no log. *)
LEMMA PullLogs ==
  ASSUME IInv, NEW p \in Procs, Pull(p)
  PROVE  logs' = logs
BY ProcType DEF IInv, Pull, BeginPull, FetchPage, TableUnavailable, WriteRecord, WriteManifest, Files

(* Pulls have no gates. *)
LEMMA PullAllowed ==
  ASSUME IInv, GatesTrue, NEW p \in Procs, Pull(p)
  PROVE  GatesTrue'
<1>a. TypeOK /\ Placed /\ procs[p] \in Process /\ logs' = logs
  BY ProcType, PullLogs DEF IInv
<1>1. CASE BeginPull(p)
  <2> DEFINE me == [procs[p] EXCEPT !.at = "fetch", !.owed = present, !.truth = present]
  <2>1. me.at = "fetch" /\ Goes(p, me)
    BY <1>1, <1>a DEF BeginPull, Process
  <2> HIDE DEF me
  <2>2. ~ Passed(me)
    BY <2>1 DEF Passed, Writing
  <2>3. QED
    BY <1>a, <2>1, <2>2, PassedOn
<1>2. CASE FetchPage(p) \/ TableUnavailable(p)
  <2>1. /\ procs'[p].at \in {"fetch", "write"}
        /\ \A q \in Procs \ {p} : procs'[q] = procs[q]
    BY <1>a, <1>2, FetchWays
  <2>2. Allowed(p)'
    BY <2>1 DEF Allowed, Passed, Writing, At
  <2>3. QED
    BY <1>a, <2>1, <2>2, StepAllowed
<1>3. CASE WriteRecord(p)
  <2>1. PICK row : Goes(p, [procs[p] EXCEPT !.pending = procs[p].pending \ {row}])
    BY <1>3 DEF WriteRecord
  <2> DEFINE me == [procs[p] EXCEPT !.pending = procs[p].pending \ {row}]
  <2>2. me.at = "write" /\ Goes(p, me)
    BY <1>3, <1>a, <2>1 DEF WriteRecord, At, Process
  <2> HIDE DEF me
  <2>3. ~ Passed(me)
    BY <2>2 DEF Passed, Writing
  <2>4. QED
    BY <1>a, <2>2, <2>3, PassedOn
<1>4. CASE WriteManifest(p)
  BY <1>4, <1>a, EndAllowed DEF WriteManifest
<1>5. QED
  BY <1>1, <1>2, <1>3, <1>4 DEF Pull

(* No log is lost. *)
LEMMA TargetLogs ==
  ASSUME IInv, NEW p \in Procs, Push(p) \/ Apply(p) \/ RequestFails(p) \/ Crash(p)
  PROVE  logs \subseteq logs'
BY ProcType DEF IInv, Placed, Push, LoadArchive, LookUp, CreateSet, Inject, InjectFails, Straggle, ReportPush,
                Apply, BeginApply, CreateOwnSet, WriteLog, RequestFails, Crash, Files

(* Pushes have none, and an apply keeps what let it through to its log. *)
LEMMA TargetAllowed ==
  ASSUME IInv, GatesTrue, NEW p \in Procs, Push(p) \/ Apply(p) \/ RequestFails(p) \/ Crash(p)
  PROVE  GatesTrue'
<1>a. TypeOK /\ procs[p] \in Process /\ Fits(procs[p]) /\ logs \subseteq logs'
  BY ProcType, TargetLogs DEF IInv, Placed
<1>b. ASSUME NEW me, Goes(p, me), procs[p].at \in Writing, me.at \in Writing,
             me.todo = procs[p].todo, me.capture = procs[p].capture
      PROVE  GatesTrue'
  <2>1. Passed(me) => Passed(procs[p])
    BY <1>b DEF Passed, Writing
  <2>2. QED
    BY <1>a, <1>b, <2>1, PassedOn DEF Writing
<1>1. CASE LoadArchive(p)
  <2>1. CASE End(p)
    BY <1>a, <2>1, EndAllowed
  <2>2. ASSUME NEW second \in Seconds,
               Goes(p, [procs[p] EXCEPT !.at = "look up", !.name = <<Command(p).name>>,
                          !.rows = dirs[second].whole, !.pending = dirs[second].whole])
        PROVE  GatesTrue'
    <3> DEFINE me == [procs[p] EXCEPT !.at = "look up", !.name = <<Command(p).name>>,
                          !.rows = dirs[second].whole, !.pending = dirs[second].whole]
    <3>1. me.at = "look up" /\ me.todo = procs[p].todo /\ Goes(p, me)
      BY <1>a, <2>2 DEF Process
    <3> HIDE DEF me
    <3>2. Head(me.todo).do = "push"
      BY <1>1, <3>1 DEF LoadArchive, Starts, Command
    <3>3. ~ Passed(me)
      BY <3>1, <3>2 DEF Passed
    <3>4. QED
      BY <1>a, <3>1, <3>3, PassedOn
  <2>3. QED
    BY <1>1, <2>1, <2>2 DEF LoadArchive
<1>2. CASE LookUp(p)
  <2>1. ASSUME NEW n, Goes(p, [procs[p] EXCEPT !.at = "inject", !.set = n]) PROVE GatesTrue'
    <3> DEFINE me == [procs[p] EXCEPT !.at = "inject", !.set = n]
    <3>1. me.at \in Writing /\ me.todo = procs[p].todo /\ me.capture = procs[p].capture /\ Goes(p, me)
      BY <1>a, <2>1 DEF Process, Writing
    <3> HIDE DEF me
    <3>2. QED
      BY <1>2, <1>b, <3>1 DEF LookUp, At, Writing
  <2>2. ASSUME Goes(p, [procs[p] EXCEPT !.at = "create"]) PROVE GatesTrue'
    <3> DEFINE me == [procs[p] EXCEPT !.at = "create"]
    <3>1. me.at \in Writing /\ me.todo = procs[p].todo /\ me.capture = procs[p].capture /\ Goes(p, me)
      BY <1>a, <2>2 DEF Process, Writing
    <3> HIDE DEF me
    <3>2. QED
      BY <1>2, <1>b, <3>1 DEF LookUp, At, Writing
  <2>3. QED
    BY <1>2, <2>1, <2>2 DEF LookUp
<1>3. CASE CreateSet(p)
  <2> DEFINE me == [procs[p] EXCEPT !.at = "inject", !.set = Len(sets) + 1]
  <2>1. me.at \in Writing /\ me.todo = procs[p].todo /\ me.capture = procs[p].capture /\ Goes(p, me)
    BY <1>a, <1>3 DEF CreateSet, Process, Writing
  <2> HIDE DEF me
  <2>2. QED
    BY <1>3, <1>b, <2>1 DEF CreateSet, At, Writing
<1>4. CASE Inject(p) \/ Straggle(p)
  <2>1. PICK rest : Goes(p, [procs[p] EXCEPT !.pending = rest])
    BY <1>4 DEF Inject, Straggle
  <2> DEFINE me == [procs[p] EXCEPT !.pending = rest]
  <2>2. me.at = procs[p].at /\ me.todo = procs[p].todo /\ me.capture = procs[p].capture /\ Goes(p, me)
    BY <1>a, <2>1 DEF Process
  <2> HIDE DEF me
  <2>3. QED
    BY <1>4, <1>b, <2>2 DEF Inject, Straggle, At, Writing
<1>5. CASE InjectFails(p)
  <2>1. PICK rest, item : Goes(p, [procs[p] EXCEPT !.at = "unwind", !.failed = item, !.pending = rest])
    BY <1>5 DEF InjectFails
  <2> DEFINE me == [procs[p] EXCEPT !.at = "unwind", !.failed = item, !.pending = rest]
  <2>2. me.at \in Writing /\ me.todo = procs[p].todo /\ me.capture = procs[p].capture /\ Goes(p, me)
    BY <1>a, <2>1 DEF Process, Writing
  <2> HIDE DEF me
  <2>3. QED
    BY <1>5, <1>b, <2>2 DEF InjectFails, At, Writing
<1>6. CASE BeginApply(p)
  <2> DEFINE me == [procs[p] EXCEPT !.at = "create own", !.name = <<Command(p).name, clock>>,
                                    !.rows = TemplateRows, !.pending = TemplateRows]
  <2>1. me.at = "create own" /\ me.todo = procs[p].todo /\ me.capture = procs[p].capture /\ Goes(p, me)
    BY <1>a, <1>6 DEF BeginApply, Process
  <2> HIDE DEF me
  <2>2. CASE At(p, "go")
    BY <1>a, <2>1, <2>2, PassedOn DEF Passed, At
  <2>3. CASE ~ Command(p).gated
    <3>1. ~ Passed(me)
      BY <2>1, <2>3 DEF Passed, Command
    <3>2. QED
      BY <1>a, <2>1, <3>1, PassedOn
  <2>4. QED
    BY <1>6, <2>2, <2>3 DEF BeginApply
<1>7. CASE CreateOwnSet(p)
  <2> DEFINE me == [procs[p] EXCEPT !.at = "look up", !.own = Len(sets) + 1]
  <2>1. me.at \in Writing /\ me.todo = procs[p].todo /\ me.capture = procs[p].capture /\ Goes(p, me)
    BY <1>a, <1>7 DEF CreateOwnSet, Process, Writing
  <2> HIDE DEF me
  <2>2. QED
    BY <1>7, <1>b, <2>1 DEF CreateOwnSet, At, Writing
<1>8. CASE WriteLog(p)
  <2>1. CASE End(p)
    BY <1>a, <2>1, EndAllowed
  <2>2. CASE Command(p).gated /\ Goes(p, [procs[p] EXCEPT !.at = "gate 2"])
    <3> DEFINE me == [procs[p] EXCEPT !.at = "gate 2"]
    <3>1. /\ me.at = "gate 2" /\ me.todo = procs[p].todo /\ me.capture = procs[p].capture
          /\ me.own = procs[p].own /\ Goes(p, me)
      BY <1>a, <2>2 DEF Process
    <3> HIDE DEF me
    <3>2. procs'[p] = me /\ \A q \in Procs \ {p} : procs'[q] = procs[q]
      BY <1>a, <3>1, ProcType DEF Goes
    <3>3. Passed(procs[p])
      BY <1>8, <2>2 DEF WriteLog, Applies, Command, Passed, Writing
    <3>4. \E log \in logs' : log.set = me.own
      <4>1. [set |-> procs[p].own, outcome |-> Outcome(p)] \in logs'
        BY <1>8 DEF WriteLog
      <4>2. QED
        BY <3>1, <4>1
    <3>5. Allowed(p)'
      BY <3>1, <3>2, <3>3, <3>4 DEF GatesTrue, Allowed, Command, At
    <3>6. QED
      BY <1>a, <3>2, <3>5, StepAllowed
  <2>3. QED
    BY <1>8, <2>1, <2>2 DEF WriteLog
<1>9. CASE ReportPush(p) \/ RequestFails(p) \/ Crash(p)
  BY <1>9, <1>a, EndAllowed DEF ReportPush, RequestFails, Crash
<1>10. QED
  BY <1>1, <1>2, <1>3, <1>4, <1>5, <1>6, <1>7, <1>8, <1>9 DEF Push, Apply

(* Rows that come and go, and the clock, are nothing to the gates. *)
LEMMA OthersAllowed ==
  ASSUME IInv, GatesTrue,
         \/ \E row \in Rows : Insert(row) \/ Delete(row)
         \/ \E n \in DOMAIN sets : Complete(n)
         \/ Tick
  PROVE  GatesTrue'
<1>1. TypeOK /\ Placed /\ logs' = logs
  BY DEF IInv, Insert, Delete, Complete, Tick, Files
<1>2. ASSUME NEW p \in Procs
      PROVE  /\ procs'[p].at = procs[p].at /\ procs'[p].todo = procs[p].todo
             /\ procs'[p].own = procs[p].own /\ procs'[p].capture = procs[p].capture
  <2>1. procs[p] \in Process
    BY <1>1, ProcType
  <2>2. ASSUME NEW row \in Rows
        PROVE  /\ Disturbed(p).at = procs[p].at /\ Disturbed(p).todo = procs[p].todo
               /\ Disturbed(p).own = procs[p].own /\ Disturbed(p).capture = procs[p].capture
               /\ Disturbed(p) \in Process
    BY <1>1, <2>1, DisturbedType DEF Disturbed, Process
  <2>3. ASSUME NEW row \in Rows, NEW me \in Process
        PROVE  /\ Unsettled(me, row).at = me.at /\ Unsettled(me, row).todo = me.todo
               /\ Unsettled(me, row).own = me.own /\ Unsettled(me, row).capture = me.capture
    BY <2>3 DEF Unsettled, Process
  <2>4. ASSUME NEW row \in Rows, Insert(row) PROVE procs'[p] = Disturbed(p)
    BY <2>4 DEF Insert
  <2>5. ASSUME NEW row \in Rows, Delete(row) PROVE procs'[p] = Unsettled(Disturbed(p), row)
    BY <2>5 DEF Delete, Unsettled
  <2>6. ASSUME Tick \/ \E n \in DOMAIN sets : Complete(n) PROVE procs' = procs
    BY <2>6 DEF Tick, Complete
  <2>7. QED
    BY <2>2, <2>3, <2>4, <2>5, <2>6
<1>3. QED
  BY <1>1, <1>2 DEF GatesTrue, Allowed, Passed, Command, At

(* What the gates and `nexus assess` say is earned, and what they let through. *)
LEMMA JudgeEarns ==
  ASSUME IInv, TruthInv, VerdictInv, NEW p \in Procs, Assess(p) \/ Gate1(p) \/ Gate2(p) \/ CaptureFails(p)
  PROVE  VerdictInv'
<1>a. /\ TypeOK /\ procs[p] \in Process /\ Fits(procs[p]) /\ GatesTrue /\ VerdictIsEarned
      /\ logs' = logs /\ Allowed(p)
  BY ProcType DEF IInv, Placed, VerdictInv, GatesTrue, Assess, Gate1, Gate2, CaptureFails, Files
<1>b. ASSUME NEW exit, NEW skipped, NEW after, Ends(p, exit, skipped, after), Command(p).do = "apply",
             exit = 0 => /\ \E log \in logs : log.set = procs[p].own
                         /\ Cleared(Command(p), procs[p].capture)
                         /\ skipped \/ Holds({r \in RulesOf(RulesetsFor(Command(p).rulesets, Command(p).name)) :
                                                 r.phase = "POST_APPLY"}, after)
      PROVE  VerdictInv'
  <2> DEFINE v == [command |-> Command(p), exit |-> exit, skipped |-> skipped,
                   before |-> procs[p].capture, after |-> after, set |-> procs[p].own]
  <2>1. PICK said : said = v
    OBVIOUS
  <2>2. Says(said) /\ End(p)
    BY <1>b, <2>1 DEF Ends
  <2>3. said.command.do = "apply"
    BY <1>b, <2>1
  <2>4. ApplyIsEarned(said)
    BY <1>b, <2>1 DEF ApplyIsEarned, Cleared
  <2>5. ApplyIsEarned(said)'
    BY <1>a, <2>4 DEF ApplyIsEarned
  <2> HIDE DEF v
  <2>6. VerdictIsEarned'
    BY <1>a, <2>2, <2>3, <2>5, EarnedStays
  <2>7. GatesTrue'
    BY <1>a, <2>2, EndAllowed
  <2>8. QED
    BY <2>6, <2>7 DEF VerdictInv
<1>1. CASE Assess(p)
  <2>1. PICK second :
           Says([command |-> Command(p), exit |-> AssessCode(Command(p), second),
                 truth |-> Truth(second), torn |-> Torn(second)])
    BY <1>1 DEF Assess
  <2>2. PICK command : command = Command(p)
    OBVIOUS
  <2>3. PICK v : v = [command |-> command, exit |-> AssessCode(command, second),
                      truth |-> Truth(second), torn |-> Torn(second)]
    OBVIOUS
  <2>4. Says(v) /\ command.do = "assess" /\ v.command.do = "assess" /\ End(p)
    BY <1>1, <2>1, <2>2, <2>3 DEF Assess, Starts
  <2>5. AssessIsEarned(v)
    BY <2>3, <2>4, AssessEarns
  <2>6. VerdictIsEarned'
    BY <1>a, <2>4, <2>5, EarnedStays
  <2>7. GatesTrue'
    BY <1>a, <2>4, EndAllowed
  <2>8. QED
    BY <2>6, <2>7 DEF VerdictInv
<1>2. CASE Gate1(p)
  <2> DEFINE verdict == Gate(ApplyRules(Command(p), "PRE_APPLY"), present, "PRE_APPLY")
             me == [procs[p] EXCEPT !.at = "go", !.capture = present]
  <2>1. /\ Command(p).do = "apply"
        /\ \/ Ends(p, 1, FALSE, Nothing)
           \/ Refused(verdict, Command(p)) /\ Ends(p, ExitCode(verdict), FALSE, Nothing)
           \/ ~ Refused(verdict, Command(p)) /\ Goes(p, me) /\ UNCHANGED verdicts
    BY <1>2 DEF Gate1, Starts
  <2>2. CASE Ends(p, 1, FALSE, Nothing)
    <3> HIDE DEF me, verdict
    <3>1. PICK exit : exit = 1
      OBVIOUS
    <3>2. exit # 0
      BY <3>1
    <3>3. Ends(p, exit, FALSE, Nothing) /\ Command(p).do = "apply"
      BY <2>1, <2>2, <3>1
    <3>4. QED
      BY <1>b, <3>2, <3>3
  <2>3. CASE Refused(verdict, Command(p)) /\ Ends(p, ExitCode(verdict), FALSE, Nothing)
    <3>1. ExitCode(verdict) # 0
      BY <2>3, PassExits DEF Refused
    <3> HIDE DEF verdict
    <3>2. PICK exit : exit = ExitCode(verdict)
      OBVIOUS
    <3>3. QED
      BY <1>b, <2>1, <2>3, <3>1, <3>2
  <2>4. CASE ~ Refused(verdict, Command(p)) /\ Goes(p, me) /\ UNCHANGED verdicts
    <3>1. Cleared(Command(p), present)
      BY <2>4, Gate1Clears
    <3>2. me.at = "go" /\ me.todo = procs[p].todo /\ me.capture = present
      BY <1>a DEF Process
    <3> HIDE DEF me, verdict
    <3>3. procs'[p] = me /\ \A q \in Procs \ {p} : procs'[q] = procs[q]
      BY <1>a, <2>4, ProcType DEF Goes
    <3>4. Allowed(p)'
      BY <3>1, <3>2, <3>3 DEF Allowed, Command, At
    <3>5. GatesTrue'
      BY <1>a, <3>3, <3>4, StepAllowed
    <3>6. VerdictIsEarned'
      BY <1>a, <2>4, EarnedStays
    <3>7. QED
      BY <3>5, <3>6 DEF VerdictInv
  <2>5. QED
    BY <2>1, <2>2, <2>3, <2>4
<1>3. CASE Gate2(p)
  <2> DEFINE verdict == Gate(ApplyRules(Command(p), "POST_APPLY"), present, "POST_APPLY")
  <2>1. /\ Command(p).do = "apply" /\ \E log \in logs : log.set = procs[p].own
        /\ Cleared(Command(p), procs[p].capture)
    BY <1>3, <1>a DEF Gate2, Allowed, Passed, At, Fits, Command
  <2>2. Ends(p, 0, TRUE, Nothing) \/ Ends(p, ExitCode(verdict), FALSE, present)
    BY <1>3 DEF Gate2
  <2>3. CASE Ends(p, 0, TRUE, Nothing)
    BY <1>b, <2>1, <2>3
  <2>4. CASE Ends(p, ExitCode(verdict), FALSE, present)
    <3>1. ExitCode(verdict) = 0 =>
             Holds({r \in RulesOf(RulesetsFor(Command(p).rulesets, Command(p).name)) :
                       r.phase = "POST_APPLY"}, present)
      BY Gate2Holds
    <3> HIDE DEF verdict
    <3>2. PICK exit : exit = ExitCode(verdict)
      OBVIOUS
    <3>3. QED
      BY <1>b, <2>1, <2>4, <3>1, <3>2
  <2>5. QED
    BY <2>2, <2>3, <2>4
<1>4. CASE CaptureFails(p)
  <2>1. Ends(p, 1, FALSE, Nothing) /\ Command(p).do = "apply"
    BY <1>4, <1>a DEF CaptureFails, Starts, At, Fits, Command
  <2>2. PICK exit : exit = 1
    OBVIOUS
  <2>3. exit # 0
    BY <2>2
  <2>4. Ends(p, exit, FALSE, Nothing)
    BY <2>1, <2>2
  <2>5. QED
    BY <1>b, <2>1, <2>3, <2>4
<1>5. QED
  BY <1>1, <1>2, <1>3, <1>4

(* No step gives a verdict that is not earned. *)
LEMMA NextEarns == IInv /\ TruthInv /\ VerdictInv /\ [AssessNext]_assessVars => VerdictInv'
<1> SUFFICES ASSUME IInv, TruthInv, VerdictInv, [AssessNext]_assessVars PROVE VerdictInv'
  OBVIOUS
<1>1. GatesTrue /\ VerdictIsEarned
  BY DEF VerdictInv
<1>2. CASE UNCHANGED assessVars
  <2>1. UNCHANGED <<logs, procs, verdicts>>
    BY <1>2 DEF assessVars, vars
  <2>2. GatesTrue'
    BY <1>1, <2>1 DEF GatesTrue, Allowed, Passed, Command, At
  <2>3. VerdictIsEarned'
    BY <1>1, <2>1, EarnedStays
  <2>4. QED
    BY <2>2, <2>3 DEF VerdictInv
<1>3. CASE Next /\ UNCHANGED verdicts
  <2>1. GatesTrue'
    BY <1>1, <1>3, PullAllowed, TargetAllowed, OthersAllowed DEF Next
  <2>2. ASSUME NEW p \in Procs, Pull(p) PROVE logs' = logs
    BY <2>2, PullLogs
  <2>3. ASSUME NEW p \in Procs, Push(p) \/ Apply(p) \/ RequestFails(p) \/ Crash(p)
        PROVE  logs \subseteq logs'
    BY <2>3, TargetLogs
  <2>4. (\E row \in Rows : Insert(row) \/ Delete(row)) \/ (\E n \in DOMAIN sets : Complete(n)) \/ Tick
           => UNCHANGED logs
    BY DEF Insert, Delete, Complete, Tick, Files
  <2>5. logs \subseteq logs'
    BY <1>3, <2>2, <2>3, <2>4 DEF Next
  <2>6. VerdictIsEarned'
    BY <1>1, <1>3, <2>5, EarnedStays
  <2>7. QED
    BY <2>1, <2>6 DEF VerdictInv
<1>4. ASSUME NEW p \in Procs, Assess(p) \/ Gate1(p) \/ Gate2(p) \/ CaptureFails(p) PROVE VerdictInv'
  BY <1>4, JudgeEarns
<1>5. QED
  BY <1>2, <1>3, <1>4 DEF AssessNext

(* At the start nothing was said. *)
LEMMA InitEarns == AssessInit => VerdictInv
<1> SUFFICES ASSUME AssessInit PROVE VerdictInv
  OBVIOUS
<1>1. \A p \in Procs : procs[p].at = "idle"
  BY DEF AssessInit, Init, IdleProc
<1>2. verdicts = {}
  BY DEF AssessInit
<1>3. QED
  BY <1>1, <1>2 DEF VerdictInv, GatesTrue, VerdictIsEarned, Allowed, Passed, At, Writing

-----------------------------------------------------------------------------
(***************************************************************************)
(* The theorems                                                            *)
(***************************************************************************)
(* IInv is inductive: whatever pulls, pushes, applies, assessments, other     *)
(* users, failures and crashes do, processes stay where they fit, update sets *)
(* and archives are as they are said to be.                                   *)
THEOREM Inductive == AssessSpec => []IInv
<1>1. AssessInit => IInv
  BY InitShape, InitSets, InitArchive DEF IInv
<1>2. IInv /\ [AssessNext]_assessVars => IInv'
  BY NextShape, NextSets, NextArchive DEF IInv
<1>3. QED
  BY <1>1, <1>2, PTL DEF AssessSpec

(* Every variable keeps its shape. *)
THEOREM TypeCorrect == AssessSpec => []TypeOK
<1>1. IInv => TypeOK
  BY DEF IInv
<1>2. QED
  BY <1>1, Inductive, PTL

(* An archive that `capture push` and `nexus assess` accept holds every row    *)
(* that was there from the beginning of the pull to its end, whatever the page *)
(* size, and wherever pulls died, unless two pulls wrote into one directory.   *)
THEOREM AcceptedArchivesAreWhole == AssessSpec => []ArchiveIsWhole
<1>1. IInv => ArchiveIsWhole
  BY DEF IInv, ArchiveInv
<1>2. QED
  BY <1>1, Inductive, PTL

(* Two update sets of one name are in progress at once only when two commands *)
(* looked the name up at the same time.                                        *)
THEOREM SetsAreShared == AssessSpec => []OneSetPerName
<1>1. IInv => OneSetPerName
  BY DEF IInv, SetsInv
<1>2. QED
  BY <1>1, Inductive, PTL

(* The set that a push reports, or an apply without a failure logs, holds all  *)
(* its records, unless its name was gone for twice or somebody completed it.   *)
THEOREM ReportsHold == AssessSpec => []ReportedSetHoldsAll
<1>1. IInv => ReportedSetHoldsAll
  BY DEF IInv, SetsInv
<1>2. QED
  BY <1>1, Inductive, PTL
(* Exit code 0 of `nexus assess` means that the rules hold of the instance that  *)
(* was captured, exit code 0 of `nexus apply` that they hold before and after    *)
(* the engine had its turn: no missing table, dead pull, cut-off file, refusal   *)
(* or failure makes a rule pass, whatever the rules, the captures and the page   *)
(* size.  TruthInv says what captures are worth, VerdictInv what let an apply    *)
(* through.                                                                      *)
THEOREM VerdictsAreEarned == AssessSpec => []VerdictIsEarned
<1>1. AssessInit => TruthInv /\ VerdictInv
  BY InitTruth, InitEarns
<1>2. IInv /\ TruthInv /\ VerdictInv /\ [AssessNext]_assessVars => TruthInv' /\ VerdictInv'
  BY NextTruth, NextEarns
<1>3. VerdictInv => VerdictIsEarned
  BY DEF VerdictInv
<1>4. QED
  BY <1>1, <1>2, <1>3, Inductive, PTL DEF AssessSpec

=============================================================================
