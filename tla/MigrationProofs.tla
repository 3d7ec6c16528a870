--------------------------- MODULE MigrationProofs ---------------------------
(***************************************************************************)
(* Proofs about the migration of one instance to another: what a recheck   *)
(* without drift says of both instances, what the rows of a preflight say  *)
(* of the rights, and what a runbook says of its plan.                     *)
(***************************************************************************)
EXTENDS Preflight, FiniteSetTheorems, TLAPS

(***************************************************************************)
(* Reading an instance twice                                               *)
(***************************************************************************)
\* Customer-updated rows outside the vendors' scopes, as Truth reads them.
TruthOf(rows) ==
    Stamps(rows, {id \in DOMAIN rows :
        rows[id].custom /\ ScopeOfRow(id) \in CustomScopes \cup {GlobalScope}})

ListingOf(rows) == Stamps(rows, Listed(rows, {}))

\* What an instance held when edit e was the last one.
Rows == UNION {[ids -> [stamp : 0 .. MaxEdits, custom : BOOLEAN]] : ids \in SUBSET Ids}
Older(rows, e) == \A id \in DOMAIN rows : rows[id].stamp <= e
\* Everything the instance holds later was there or has a younger stamp.
Became(rows, e, later) ==
    \A id \in DOMAIN later :
        \/ id \in DOMAIN rows /\ later[id] = rows[id]
        \/ later[id].stamp > e

\* A listing without a failed count and the truth beside it are of one and
\* the same moment in the past.
ListedBy(listing, truth, held, now) ==
    truth # NoFile =>
        \E rows \in Rows, e \in 0 .. now :
            /\ Older(rows, e) /\ Became(rows, e, held)
            /\ listing = ListingOf(rows) /\ truth = TruthOf(rows)

ListedAt(listing, truth, s) == ListedBy(listing, truth, tables[s], edits)

(***************************************************************************)
(* The inductive invariant                                                 *)
(***************************************************************************)
Places == {"idle", "assess_target", "capture_source", "capture_target", "baseline_source",
           "baseline_target", "assemble", "write_runbook", "list_source", "list_target",
           "compare", "preflight"}
\* The places where a command holds a plan.
Holding == {"write_runbook", "list_source", "list_target", "compare"}

CmdOK ==
    /\ cmd = [pc |-> cmd.pc, selection |-> cmd.selection, plan |-> cmd.plan,
              first |-> cmd.first, second |-> cmd.second, truth |-> cmd.truth]
    /\ cmd.pc \in Places /\ DOMAIN cmd.first = Side
    /\ cmd.second \in [Side -> Stamped] /\ cmd.truth \in [Side -> Stamped \cup {NoFile}]
    /\ cmd.pc = "assess_target" => cmd.first["source"] \in Stamped
    /\ cmd.pc \in Holding =>
          plan # NoFile /\ cmd.plan \in PlanFile /\ cmd.plan.n = plan.n

\* Every stamp is one of an edit that has been.
StampsArePast == \A s \in Side : Older(tables[s], edits)

\* Every listing that is still needed is of a moment in the past.
ListingsArePast ==
    /\ cmd.pc \in {"baseline_target", "assemble"} =>
          ListedAt(cmd.second["source"], cmd.truth["source"], "source")
    /\ cmd.pc = "assemble" => ListedAt(cmd.second["target"], cmd.truth["target"], "target")
    /\ plan # NoFile => \A s \in Side : ListedAt(plan.baseline[s], plan.truth[s], s)
    /\ cmd.pc \in Holding =>
          \A s \in Side : ListedAt(cmd.plan.baseline[s], cmd.plan.truth[s], s)

\* A second listing that does not differ from the first tells the truth.
Tells(s) ==
    ~ Drifted(cmd.plan.baseline[s], cmd.second[s])
        /\ NoFile \notin {cmd.plan.truth[s], cmd.truth[s]}
      => cmd.truth[s] = cmd.plan.truth[s]

ComparisonsTell ==
    /\ cmd.pc \in {"list_target", "compare"} => Tells("source")
    /\ cmd.pc = "compare" => Tells("target")

\* The plan file and the copy of it that a command works on hold the marks a
\* human has made; a copy that gets into a runbook is of a valid file.
MarksAreGiven ==
    /\ plan # NoFile => \A mark \in plan.marks : <<plan.n, mark>> \in given
    /\ cmd.pc \in Holding =>
          /\ \A mark \in cmd.plan.marks : <<cmd.plan.n, mark>> \in given
          /\ "self_waiver" \notin cmd.plan.marks
          /\ cmd.plan.stranded = plan.stranded

IInv ==
    /\ TypeOK /\ CmdOK /\ StampsArePast /\ ListingsArePast /\ ComparisonsTell
    /\ MarksAreGiven /\ RunbookIsHonest /\ NoDriftMeansUnchanged

\* The rows of a preflight so far, and when what they are about was met.
Probed ==
    probing # NoFile =>
        /\ probing \in Report
        /\ \A s \in Side : <<s, "auth-mode">> \in DOMAIN probing.rows
        /\ \A i \in 1 .. 6 : i < probing.next => Requests[i] \in DOMAIN probing.rows
        /\ probing.always \subseteq Met(access) /\ Met(access) \subseteq probing.ever
        /\ \A row \in DOMAIN probing.rows :
              /\ probing.rows[row] = "pass" => row \in probing.ever
              /\ probing.rows[row] = "fail" =>
                    row \notin probing.always /\ row[2] \notin {"sn-cicd-role", "auth-mode"}

PreIInv ==
    /\ IInv /\ Probed /\ PreflightIsTrue
    /\ cmd.pc = "preflight" => probing # NoFile

-----------------------------------------------------------------------------
(***************************************************************************)
(* Lemmas about listings                                                   *)
(***************************************************************************)
LEMMA RowsShape ==
  ASSUME NEW rows \in Rows
  PROVE  /\ DOMAIN rows \subseteq Ids /\ IsFiniteSet(DOMAIN rows)
         /\ \A id \in DOMAIN rows : /\ rows[id].stamp \in 0 .. MaxEdits
                                    /\ rows[id].custom \in BOOLEAN
<1>1. PICK ids \in SUBSET Ids : rows \in [ids -> [stamp : 0 .. MaxEdits, custom : BOOLEAN]]
  BY DEF Rows
<1>2. IsFiniteSet(ids)
  BY FiniteAssumption, FS_Subset
<1>3. QED
  BY <1>1, <1>2

\* Customer-updated rows of custom scopes and the global one are listed.
LEMMA TruthIsListed ==
  ASSUME NEW rows \in Rows, NEW id \in DOMAIN rows, rows[id].custom,
         ScopeOfRow(id) \in CustomScopes \cup {GlobalScope}
  PROVE  id \in Listed(rows, {})
<1>1. TableOfRow(id) \in Tables
  BY RowsShape, KeysAssumption DEF TableOfRow
<1>2. ScopeOfRow(id) \in Discovered(rows, Tables, {})
  BY <1>1 DEF Discovered
<1>3. QED
  BY <1>2 DEF Listed

(* When a listing does not differ from an earlier one, fingerprint by       *)
(* fingerprint, then no row has come, gone or changed in between.           *)
LEMMA SameListings ==
  ASSUME NEW rows \in Rows, NEW later \in Rows, NEW e \in Nat,
         Older(rows, e), Became(rows, e, later),
         ~ Drifted(ListingOf(rows), ListingOf(later))
  PROVE  TruthOf(rows) = TruthOf(later)
<1> DEFINE before == ListingOf(rows)
           after == ListingOf(later)
<1>1. /\ DOMAIN before = Listed(rows, {}) /\ DOMAIN after = Listed(later, {})
      /\ \A id \in DOMAIN before : before[id] = rows[id].stamp
      /\ \A id \in DOMAIN after : after[id] = later[id].stamp
      /\ DOMAIN before \subseteq DOMAIN rows /\ DOMAIN after \subseteq DOMAIN later
  BY DEF ListingOf, Stamps, Listed
<1>2. \A key \in ListedKeys(before) \cup ListedKeys(after) : Held(before, key) = Held(after, key)
  BY DEF Drifted
<1> HIDE DEF before, after
<1>3. ASSUME NEW id \in DOMAIN after
      PROVE  id \in DOMAIN rows /\ later[id] = rows[id]
  <2>1. Held(before, KeyOf[id]) = Held(after, KeyOf[id])
    BY <1>2, <1>3 DEF ListedKeys
  <2>2. after[id] \in DOMAIN Held(after, KeyOf[id])
    BY <1>3 DEF Held
  <2>3. PICK i \in DOMAIN before : KeyOf[i] = KeyOf[id] /\ before[i] = after[id]
    BY <2>1, <2>2 DEF Held
  <2>4. rows[i].stamp \in Nat /\ later[id].stamp \in Nat
    BY <1>1, <1>3, RowsShape
  <2>5. later[id].stamp <= e
    BY <1>1, <1>3, <2>3, <2>4 DEF Older
  <2>6. QED
    BY <1>1, <1>3, <2>4, <2>5 DEF Became
<1>4. ASSUME NEW id \in DOMAIN after
      PROVE  id \in DOMAIN before
  <2>1. CASE ScopeOfRow(id) \in CustomScopes
    <3>1. ScopeOfRow(id) \in Discovered(later, Tables, {})
      BY <1>1, <1>4, <2>1, ScopesAssumption DEF Listed
    <3>2. PICK r \in DOMAIN later : later[r].custom /\ ScopeOfRow(r) = ScopeOfRow(id)
      BY <3>1 DEF Discovered
    <3>3. r \in DOMAIN after
      BY <1>1, <2>1, <3>2, TruthIsListed
    <3>4. r \in DOMAIN rows /\ rows[r].custom
      BY <1>3, <3>2, <3>3
    <3>5. TableOfRow(r) \in Tables
      BY <3>4, RowsShape, KeysAssumption DEF TableOfRow
    <3>6. ScopeOfRow(id) \in Discovered(rows, Tables, {})
      BY <3>2, <3>4, <3>5 DEF Discovered
    <3>7. QED
      BY <1>1, <1>3, <1>4, <2>1, <3>6 DEF Listed
  <2>2. CASE ScopeOfRow(id) \notin CustomScopes
    <3>1. ScopeOfRow(id) = GlobalScope /\ later[id].custom
      BY <1>1, <1>4, <2>2 DEF Listed
    <3>2. QED
      BY <1>1, <1>3, <1>4, <3>1, TruthIsListed
  <2>3. QED
    BY <2>1, <2>2
<1>5. ASSUME NEW id \in DOMAIN before
      PROVE  id \in DOMAIN after
  <2> DEFINE k == KeyOf[id]
             g == before[id]
             B == {i \in DOMAIN before : KeyOf[i] = k /\ before[i] = g}
             A == {i \in DOMAIN after : KeyOf[i] = k /\ after[i] = g}
  <2>1. Held(before, k) = Held(after, k)
    BY <1>2, <1>5 DEF ListedKeys
  <2>2. g \in DOMAIN Held(before, k) /\ Held(before, k)[g] = Cardinality(B)
    <3>1. B = {i \in {r \in DOMAIN before : KeyOf[r] = k} : before[i] = g}
      OBVIOUS
    <3>2. QED
      BY <1>5, <3>1 DEF Held
  <2>3. g \in DOMAIN Held(after, k)
    BY <2>1, <2>2
  <2>4. Held(after, k)[g] = Cardinality(A)
    <3>1. A = {i \in {r \in DOMAIN after : KeyOf[r] = k} : after[i] = g}
      OBVIOUS
    <3>2. QED
      BY <2>3, <3>1 DEF Held
  <2>5. A \in SUBSET B
    BY <1>1, <1>3, <1>4
  <2>6. B \in SUBSET (DOMAIN rows)
    BY <1>1
  <2>7. IsFiniteSet(B)
    BY <2>6, RowsShape, FS_Subset
  <2>8. B = A
    BY <2>1, <2>2, <2>4, <2>5, <2>7, FS_Subset
  <2>9. QED
    BY <1>5, <2>8
<1>6. \A id : /\ id \in DOMAIN rows /\ rows[id].custom /\ ScopeOfRow(id) \in CustomScopes \cup {GlobalScope}
             <=> /\ id \in DOMAIN later /\ later[id].custom
                 /\ ScopeOfRow(id) \in CustomScopes \cup {GlobalScope}
  BY <1>1, <1>3, <1>5, TruthIsListed
<1>7. \A id : id \in DOMAIN later /\ later[id].custom /\ ScopeOfRow(id) \in CustomScopes \cup {GlobalScope}
        => later[id] = rows[id]
  BY <1>1, <1>3, TruthIsListed
<1>8. QED
  BY <1>6, <1>7 DEF TruthOf, Stamps

LEMMA BecameStill ==
  ASSUME NEW listing, NEW truth, NEW held, NEW now \in Nat, NEW later, NEW then \in Nat,
         ListedBy(listing, truth, held, now), now <= then, Became(held, now, later),
         \A id \in DOMAIN later : later[id].stamp \in Nat
  PROVE  ListedBy(listing, truth, later, then)
<1> SUFFICES ASSUME truth # NoFile
             PROVE  \E rows \in Rows, e \in 0 .. then :
                       /\ Older(rows, e) /\ Became(rows, e, later)
                       /\ listing = ListingOf(rows) /\ truth = TruthOf(rows)
  BY DEF ListedBy
<1>1. PICK rows \in Rows, e \in 0 .. now :
         /\ Older(rows, e) /\ Became(rows, e, held)
         /\ listing = ListingOf(rows) /\ truth = TruthOf(rows)
  BY DEF ListedBy
<1>2. Became(rows, e, later)
  BY <1>1 DEF Became
<1>3. e \in 0 .. then
  OBVIOUS
<1>4. QED
  BY <1>1, <1>2, <1>3

(***************************************************************************)
(* Lemmas about the state                                                  *)
(***************************************************************************)
LEMMA StampedShape ==
  ASSUME NEW D \in SUBSET Ids, NEW listing, DOMAIN listing = D,
         listing = [id \in D |-> listing[id]],
         \A id \in D : listing[id] \in 0 .. MaxEdits
  PROVE  listing \in Stamped
<1>1. listing \in [D -> 0 .. MaxEdits]
  OBVIOUS
<1>2. QED
  BY <1>1 DEF Stamped

LEMMA StampedMembers ==
  ASSUME NEW listing \in Stamped
  PROVE  DOMAIN listing \subseteq Ids /\ IsFiniteSet(DOMAIN listing)
<1>1. DOMAIN listing \in SUBSET Ids
  BY DEF Stamped
<1>2. QED
  BY <1>1, FiniteAssumption, FS_Subset

\* What an instance holds now, and what is read of it.
LEMMA HeldNow ==
  ASSUME TypeOK, StampsArePast, NEW s \in Side
  PROVE  /\ tables[s] \in Rows /\ edits \in Nat /\ edits \in 0 .. MaxEdits
         /\ DOMAIN tables[s] \subseteq Ids
         /\ \A id \in DOMAIN tables[s] : tables[s][id].stamp \in 0 .. MaxEdits
         /\ \A failed : Listing(s, failed) \in Stamped
         /\ Truth(s) \in Stamped
         /\ Listing(s, {}) = ListingOf(tables[s]) /\ Truth(s) = TruthOf(tables[s])
<1>1. /\ DOMAIN tables[s] \subseteq Ids /\ tables[s] \in [DOMAIN tables[s] -> Row]
      /\ edits \in 0 .. MaxEdits /\ MaxEdits \in Nat
      /\ \A id \in DOMAIN tables[s] : tables[s][id].stamp <= edits
  BY BoundsAssumption DEF TypeOK, IsTables, StampsArePast, Older
<1>2. ASSUME NEW id \in DOMAIN tables[s]
      PROVE  /\ tables[s][id].stamp \in 0 .. MaxEdits
             /\ tables[s][id] \in [stamp : 0 .. MaxEdits, custom : BOOLEAN]
  <2>1. PICK row \in Row : row = tables[s][id]
    BY <1>1
  <2>2. row.stamp \in Nat /\ row.stamp <= edits
    BY <1>1, <2>1 DEF Row
  <2>3. row.stamp \in 0 .. MaxEdits
    BY <1>1, <2>2
  <2>4. row = [stamp |-> row.stamp, custom |-> row.custom] /\ row.custom \in BOOLEAN
    BY DEF Row
  <2>5. QED
    BY <2>1, <2>3, <2>4
<1>5. tables[s] \in [DOMAIN tables[s] -> [stamp : 0 .. MaxEdits, custom : BOOLEAN]]
  BY <1>1, <1>2
<1>6. tables[s] \in Rows
  BY <1>1, <1>5 DEF Rows
<1>7. \A ids \in SUBSET DOMAIN tables[s] : Stamps(tables[s], ids) \in Stamped
  <2> SUFFICES ASSUME NEW ids \in SUBSET DOMAIN tables[s] PROVE Stamps(tables[s], ids) \in Stamped
    OBVIOUS
  <2>1. Stamps(tables[s], ids) = [id \in ids |-> tables[s][id].stamp]
    BY DEF Stamps
  <2>2. ids \in SUBSET Ids
    BY <1>1
  <2>3. QED
    BY <1>2, <2>1, <2>2, StampedShape
<1>8. \A failed : Listing(s, failed) \in Stamped
  BY <1>7 DEF Listing, Listed
<1>9. Truth(s) \in Stamped
  BY <1>7 DEF Truth
<1>10. Listing(s, {}) = ListingOf(tables[s]) /\ Truth(s) = TruthOf(tables[s])
  BY DEF Listing, ListingOf, Truth, TruthOf
<1>11. QED
  BY <1>1, <1>2, <1>6, <1>8, <1>9, <1>10

\* A listing in which no count failed is of the moment it was made.
LEMMA ListedNow ==
  ASSUME TypeOK, StampsArePast, NEW s \in Side, NEW failed \in SUBSET Tables
  PROVE  ListedAt(Listing(s, failed), IF failed = {} THEN Truth(s) ELSE NoFile, s)
<1>1. Older(tables[s], edits) /\ Became(tables[s], edits, tables[s])
  BY DEF StampsArePast, Became
<1>2. edits \in 0 .. edits
  BY HeldNow
<1>3. QED
  BY <1>1, <1>2, HeldNow DEF ListedAt, ListedBy

\* A second listing that does not differ from one of the past tells the truth.
LEMMA ListedTells ==
  ASSUME TypeOK, StampsArePast, NEW s \in Side, NEW listing, NEW truth,
         ListedAt(listing, truth, s), truth # NoFile, ~ Drifted(listing, Listing(s, {}))
  PROVE  Truth(s) = truth
<1>1. PICK rows \in Rows, e \in 0 .. edits :
         /\ Older(rows, e) /\ Became(rows, e, tables[s])
         /\ listing = ListingOf(rows) /\ truth = TruthOf(rows)
  BY DEF ListedAt, ListedBy
<1>2. e \in Nat
  BY HeldNow
<1>3. QED
  BY <1>1, <1>2, HeldNow, SameListings

LEMMA EmptyRead == <<>> \in Stamped
<1>1. DOMAIN <<>> = {} /\ <<>> = [id \in {} |-> 0]
  OBVIOUS
<1>2. <<>> \in [{} -> 0 .. MaxEdits]
  BY <1>1
<1>3. QED
  BY <1>2 DEF Stamped

LEMMA IdleOK ==
  ASSUME NEW c, c \in {Idle, [Idle EXCEPT !.pc = "preflight"]}
  PROVE  /\ c = [pc |-> c.pc, selection |-> c.selection, plan |-> c.plan,
                 first |-> c.first, second |-> c.second, truth |-> c.truth]
         /\ c.pc \in {"idle", "preflight"} /\ DOMAIN c.first = Side
         /\ c.second \in [Side -> Stamped] /\ c.truth \in [Side -> Stamped \cup {NoFile}]
<1>1. NoRead \in [Side -> Stamped]
  BY EmptyRead DEF NoRead
<1>2. NoRead \in [Side -> Stamped \cup {NoFile}] /\ DOMAIN NoRead = Side
  BY <1>1
<1>3. QED
  BY <1>1, <1>2 DEF Idle

\* The steps of a preflight, as far as the plan is concerned.
Turn ==
    /\ cmd' \in {Idle, [Idle EXCEPT !.pc = "preflight"]}
    /\ UNCHANGED <<tables, files, vouched, counters, given>>

Step == Next \/ Turn \/ UNCHANGED vars

-----------------------------------------------------------------------------
LEMMA InitIInv ==
  ASSUME NEW world \in Worlds, InitFrom(world)
  PROVE  IInv /\ cmd.pc = "idle"
<1>1. cmd.pc = "idle"
  BY DEF InitFrom, Idle
<1>2. TypeOK
  BY WorldsAssumption DEF InitFrom, TypeOK
<1>3. CmdOK
  BY <1>1, IdleOK DEF InitFrom, CmdOK, Places, Holding
<1>4. StampsArePast
  BY WorldsAssumption DEF InitFrom, StampsArePast, Older
<1>5. ListingsArePast /\ ComparisonsTell /\ MarksAreGiven
  BY <1>1 DEF InitFrom, ListingsArePast, ComparisonsTell, MarksAreGiven, Holding
<1>6. RunbookIsHonest /\ NoDriftMeansUnchanged
  BY DEF InitFrom, RunbookIsHonest, NoDriftMeansUnchanged
<1>7. QED
  BY <1>1, <1>2, <1>3, <1>4, <1>5, <1>6 DEF IInv

(***************************************************************************)
(* The instances                                                           *)
(***************************************************************************)
\* Every step but those of the others leaves the instances alone.
Quiet ==
    \/ AssessSource \/ AssessTarget \/ Select
    \/ \E key \in Keys, disposition \in {"include", "exclude"} : Curate(key, disposition)
    \/ ReadSelection \/ CaptureSource \/ CaptureTarget \/ BaselineSource \/ BaselineTarget
    \/ WritePlan \/ RefusePlan \/ WriteRunbook
    \/ \E mark \in Mark : MarkPlan(mark)
    \/ ReadPlan \/ ListSource \/ ListTarget \/ ReportNoDrift \/ ReportDrift
    \/ Abort \/ Turn \/ UNCHANGED vars

Edit == \E s \in Side, id \in Ids : Store(s, id) \/ Remove(s, id)

LEMMA StepWays == Step => Quiet \/ Edit
  BY DEF Step, Next, Quiet, Edit

LEMMA QuietTables == Quiet => UNCHANGED <<tables, edits>>
  BY DEF Quiet, AssessSource, AssessTarget, Select, Curate, ReadSelection, CaptureSource,
     CaptureTarget, Capture, BaselineSource, BaselineTarget, Baseline, WritePlan, RefusePlan,
     WriteRunbook, MarkPlan, ReadPlan, ListSource, ListTarget, List, ReportNoDrift, ReportDrift,
     Abort, Turn, vars, counters

LEMMA EditsTables ==
  ASSUME IInv, NEW s \in Side, NEW id \in Ids, Store(s, id) \/ Remove(s, id)
  PROVE  /\ DOMAIN tables' = Side /\ edits' = edits + 1 /\ edits' \in 0 .. MaxEdits
         /\ UNCHANGED <<files, cmd, vouched, failures, written, marked, given>>
         /\ \A r \in Side : /\ IsTables(tables'[r]) /\ Older(tables'[r], edits')
                             /\ Became(tables[r], edits, tables'[r])
<1>1. /\ DOMAIN tables = Side /\ edits \in Nat /\ edits \in 0 .. MaxEdits /\ MaxEdits \in Nat
      /\ \A r \in Side : /\ IsTables(tables[r]) /\ Older(tables[r], edits)
                          /\ \A i \in DOMAIN tables[r] : tables[r][i] \in Row
  BY BoundsAssumption DEF IInv, TypeOK, StampsArePast, IsTables
<1>2. PICK rows : /\ Changes(s, rows)
                  /\ rows \in {[i \in DOMAIN tables[s] \cup {id} |->
                                   IF i = id THEN [stamp |-> edits + 1, custom |-> TRUE]
                                             ELSE tables[s][i]],
                                [i \in DOMAIN tables[s] \ {id} |-> tables[s][i]]}
  BY DEF Store, Remove
<1>3. /\ tables' = [tables EXCEPT ![s] = rows] /\ edits' = edits + 1 /\ edits < MaxEdits
      /\ UNCHANGED <<files, cmd, vouched, failures, written, marked, given>>
  BY <1>2 DEF Changes
<1>4. DOMAIN rows \subseteq Ids /\ rows = [i \in DOMAIN rows |-> rows[i]]
  BY <1>1, <1>2 DEF IsTables
<1>5. \A i \in DOMAIN rows : \/ i \in DOMAIN tables[s] /\ rows[i] = tables[s][i]
                             \/ rows[i] = [stamp |-> edits + 1, custom |-> TRUE]
  BY <1>2
<1>6. \A i \in DOMAIN rows : rows[i] \in Row
  <2>1. edits + 1 \in Nat
    BY <1>1
  <2>2. [stamp |-> edits + 1, custom |-> TRUE] \in Row
    BY <2>1 DEF Row
  <2>3. QED
    BY <1>1, <1>5, <2>2
<1>7. IsTables(rows)
  BY <1>4, <1>6 DEF IsTables
<1>8. ASSUME NEW held, Older(held, edits), \A i \in DOMAIN held : held[i] \in Row
      PROVE  Older(held, edits + 1)
  <2> SUFFICES ASSUME NEW i \in DOMAIN held PROVE held[i].stamp <= edits + 1
    BY DEF Older
  <2>1. held[i].stamp <= edits /\ held[i].stamp \in Nat
    BY <1>8 DEF Older, Row
  <2>2. QED
    BY <1>1, <2>1
<1>9. Older(rows, edits + 1)
  <2> SUFFICES ASSUME NEW i \in DOMAIN rows PROVE rows[i].stamp <= edits + 1
    BY DEF Older
  <2>1. CASE i \in DOMAIN tables[s] /\ rows[i] = tables[s][i]
    BY <1>1, <1>8, <2>1 DEF Older
  <2>2. CASE rows[i] = [stamp |-> edits + 1, custom |-> TRUE]
    BY <1>1, <2>2
  <2>3. QED
    BY <1>5, <2>1, <2>2
<1>10. Became(tables[s], edits, rows)
  BY <1>1, <1>5 DEF Became
<1>11. \A r \in Side : Became(tables[r], edits, tables[r])
  BY DEF Became
<1>12. edits' \in 0 .. MaxEdits
  BY <1>1, <1>3
<1>13. DOMAIN tables' = Side /\ tables'[s] = rows
       /\ \A r \in Side : r # s => tables'[r] = tables[r]
  BY <1>1, <1>3
<1>14. ASSUME NEW r \in Side
       PROVE  IsTables(tables'[r]) /\ Older(tables'[r], edits') /\ Became(tables[r], edits, tables'[r])
  <2>1. CASE r = s
    BY <1>3, <1>7, <1>9, <1>10, <1>13, <2>1
  <2>2. CASE r # s
    BY <1>1, <1>3, <1>8, <1>11, <1>13, <2>2
  <2>3. QED
    BY <2>1, <2>2
<1>15. QED
  BY <1>3, <1>12, <1>13, <1>14

LEMMA TablesStep ==
  ASSUME IInv, Step
  PROVE  /\ DOMAIN tables' = Side /\ edits' \in 0 .. MaxEdits /\ edits <= edits'
         /\ \A s \in Side : IsTables(tables'[s]) /\ Became(tables[s], edits, tables'[s])
         /\ StampsArePast'
<1>1. edits \in Nat /\ edits \in 0 .. MaxEdits
  BY BoundsAssumption DEF IInv, TypeOK
<1>2. CASE Quiet
  BY <1>1, <1>2, QuietTables DEF IInv, TypeOK, Became, StampsArePast
<1>3. CASE Edit
  <2>1. PICK s \in Side, id \in Ids : Store(s, id) \/ Remove(s, id)
    BY <1>3 DEF Edit
  <2>2. QED
    BY <1>1, <2>1, EditsTables DEF StampsArePast
<1>4. QED
  BY <1>2, <1>3, StepWays

\* What was listed in the past is still listed in the past.
LEMMA ListedStill ==
  ASSUME IInv, Step, NEW s \in Side, NEW listing, NEW truth, ListedAt(listing, truth, s)
  PROVE  ListedBy(listing, truth, tables'[s], edits')
<1>1. /\ edits \in Nat /\ edits' \in Nat /\ edits <= edits'
      /\ Became(tables[s], edits, tables'[s]) /\ IsTables(tables'[s])
  BY TablesStep, BoundsAssumption DEF IInv, TypeOK
<1>2. \A id \in DOMAIN tables'[s] : tables'[s][id].stamp \in Nat
  BY <1>1 DEF IsTables, Row
<1>3. QED
  BY <1>1, <1>2, BecameStill DEF ListedAt

(***************************************************************************)
(* The running command                                                     *)
(***************************************************************************)
\* A read of an instance.
LEMMA ReadingOK ==
  ASSUME IInv, NEW s \in Side, NEW from, NEW to,
         Baseline(s, from, to) \/ List(s, from, to)
  PROVE  \E failed \in SUBSET Tables :
            LET read == Listing(s, failed)
                truth == IF failed = {} THEN Truth(s) ELSE NoFile
            IN  /\ cmd' = [pc |-> to, selection |-> cmd.selection, plan |-> cmd.plan,
                           first |-> cmd.first, second |-> [cmd.second EXCEPT ![s] = read],
                           truth |-> [cmd.truth EXCEPT ![s] = truth]]
                /\ cmd'.second \in [Side -> Stamped]
                /\ cmd'.truth \in [Side -> Stamped \cup {NoFile}]
                /\ cmd'.second[s] = read /\ cmd'.truth[s] = truth
                /\ \A r \in Side : r # s => cmd'.second[r] = cmd.second[r] /\ cmd'.truth[r] = cmd.truth[r]
                /\ failures' \in 0 .. MaxFailures
                /\ cmd.pc = from
                /\ UNCHANGED <<tables, files, vouched, edits, written, marked, given>>
<1>1. PICK failed \in SUBSET Tables :
         /\ Failing(failed) /\ cmd.pc = from
         /\ cmd' = [cmd EXCEPT !.pc = to,
                      !.second = With(cmd.second, s, Listing(s, failed)),
                      !.truth = With(cmd.truth, s, IF failed = {} THEN Truth(s) ELSE NoFile)]
         /\ UNCHANGED <<tables, files, vouched, edits, written, marked, given>>
  BY DEF Baseline, List
<1> DEFINE read == Listing(s, failed)
           truth == IF failed = {} THEN Truth(s) ELSE NoFile
<1>2. read \in Stamped /\ truth \in Stamped \cup {NoFile}
  BY HeldNow DEF IInv
<1>3. cmd = [pc |-> cmd.pc, selection |-> cmd.selection, plan |-> cmd.plan,
             first |-> cmd.first, second |-> cmd.second, truth |-> cmd.truth]
  BY DEF IInv, CmdOK
<1>4. cmd' = [pc |-> to, selection |-> cmd.selection, plan |-> cmd.plan,
              first |-> cmd.first, second |-> With(cmd.second, s, read),
              truth |-> With(cmd.truth, s, truth)]
  BY <1>1, <1>3
<1>5. cmd.second \in [Side -> Stamped] /\ cmd.truth \in [Side -> Stamped \cup {NoFile}]
  BY DEF IInv, CmdOK
<1> HIDE DEF read, truth
<1>6. With(cmd.second, s, read) \in [Side -> Stamped] /\ With(cmd.truth, s, truth) \in [Side -> Stamped \cup {NoFile}]
  BY <1>2, <1>5 DEF With
<1>7. /\ With(cmd.second, s, read)[s] = read /\ With(cmd.truth, s, truth)[s] = truth
      /\ \A r \in Side : r # s => /\ With(cmd.second, s, read)[r] = cmd.second[r]
                                  /\ With(cmd.truth, s, truth)[r] = cmd.truth[r]
  BY <1>5 DEF With
<1>8. failures' \in 0 .. MaxFailures
  <2>1. failed \subseteq Tables /\ failures \in Nat /\ MaxFailures \in Nat
    BY BoundsAssumption DEF IInv, TypeOK
  <2>2. Cardinality(failed) \in Nat
    BY FiniteAssumption, FS_Subset, FS_CardinalityType
  <2>3. QED
    BY <1>1, <2>1, <2>2 DEF Failing
<1>9. /\ cmd'.second = With(cmd.second, s, read) /\ cmd'.truth = With(cmd.truth, s, truth)
  BY <1>4
<1>10. QED
  BY <1>1, <1>4, <1>6, <1>7, <1>8, <1>9 DEF With, read, truth

LEMMA CountIsBounded ==
  ASSUME NEW listing \in Stamped, NEW key
  PROVE  Count(listing, key) \in Nat /\ Count(listing, key) <= Cardinality(Ids)
<1> DEFINE rows == {id \in DOMAIN listing : KeyOf[id] = key}
<1>1. rows \in SUBSET Ids
  BY StampedMembers
<1>2. IsFiniteSet(rows) /\ Cardinality(rows) <= Cardinality(Ids)
  BY <1>1, FiniteAssumption, FS_Subset
<1>3. Cardinality(rows) \in Nat
  BY <1>2, FS_CardinalityType
<1>4. QED
  BY <1>2, <1>3 DEF Count

LEMMA MinOfTwo ==
  ASSUME NEW a \in Nat, NEW b \in Nat
  PROVE  Min({a, b}) \in {a, b} /\ Min({a, b}) <= a /\ Min({a, b}) <= b
<1>1. \E x \in {a, b} : \A y \in {a, b} : x <= y
  <2>1. CASE a <= b
    BY <2>1
  <2>2. CASE b <= a
    BY <2>2
  <2>3. QED
    BY <2>1, <2>2
<1>2. Min({a, b}) \in {a, b} /\ \A y \in {a, b} : Min({a, b}) <= y
  BY <1>1 DEF Min
<1>3. QED
  BY <1>2

LEMMA ChecklistShape ==
  ASSUME NEW source \in Stamped, NEW target \in Stamped
  PROVE  /\ DOMAIN Checklist(source, target) \subseteq Keys
         /\ \A key \in DOMAIN Checklist(source, target) :
               Checklist(source, target)[key] \in [{"done", "todo", "extra"} -> 0 .. Cardinality(Ids)]
<1>1. DOMAIN Checklist(source, target) = ListedKeys(source) \cup ListedKeys(target)
  BY DEF Checklist
<1>2. ListedKeys(source) \cup ListedKeys(target) \subseteq Keys
  BY StampedMembers, KeysAssumption DEF ListedKeys
<1>3. ASSUME NEW key \in DOMAIN Checklist(source, target)
      PROVE  Checklist(source, target)[key] \in [{"done", "todo", "extra"} -> 0 .. Cardinality(Ids)]
  <2> DEFINE a == Count(source, key)
             b == Count(target, key)
             built == Min({a, b})
             row == [done |-> built, todo |-> a - built, extra |-> b - built]
  <2>1. /\ a \in Nat /\ a <= Cardinality(Ids) /\ b \in Nat /\ b <= Cardinality(Ids)
        /\ Cardinality(Ids) \in Nat
    BY CountIsBounded, FiniteAssumption, FS_CardinalityType
  <2>2. Checklist(source, target)[key] = row
    BY <1>1, <1>3 DEF Checklist
  <2> HIDE DEF a, b
  <2>3. built \in Nat /\ built <= a /\ built <= b
    BY <2>1, MinOfTwo
  <2> HIDE DEF built
  <2>4. built \in 0 .. Cardinality(Ids) /\ a - built \in 0 .. Cardinality(Ids)
        /\ b - built \in 0 .. Cardinality(Ids)
    BY <2>1, <2>3
  <2>5. row \in [{"done", "todo", "extra"} -> 0 .. Cardinality(Ids)]
    BY <2>4
  <2>6. QED
    BY <2>2, <2>5
<1>4. QED
  BY <1>1, <1>2, <1>3

LEMMA IdleCmd ==
  ASSUME cmd' \in {Idle, [Idle EXCEPT !.pc = "preflight"]}
  PROVE  CmdOK'
  BY IdleOK DEF CmdOK, Places, Holding

\* What a step leaves of the types, when it changes neither the plan nor its number.
LEMMA CmdStep ==
  ASSUME IInv, Step, ~ WritePlan, ~ \E mark \in Mark : MarkPlan(mark)
  PROVE  CmdOK'
<1>0. /\ cmd = [pc |-> cmd.pc, selection |-> cmd.selection, plan |-> cmd.plan,
                first |-> cmd.first, second |-> cmd.second, truth |-> cmd.truth]
      /\ cmd.pc \in Places /\ DOMAIN cmd.first = Side
      /\ cmd.second \in [Side -> Stamped] /\ cmd.truth \in [Side -> Stamped \cup {NoFile}]
      /\ cmd.pc \in Holding =>
            plan # NoFile /\ cmd.plan \in PlanFile /\ cmd.plan.n = plan.n
  BY DEF IInv, CmdOK
<1>1. CASE UNCHANGED <<cmd, plan>>
  BY <1>1 DEF IInv, CmdOK
<1>2. CASE cmd' \in {Idle, [Idle EXCEPT !.pc = "preflight"]}
  BY <1>2, IdleCmd
<1>3. CASE AssessSource
  <2>1. PICK failed \in SUBSET Tables :
           cmd' = [cmd EXCEPT !.pc = "assess_target",
                              !.first = With(cmd.first, "source", Listing("source", failed))]
    BY <1>3 DEF AssessSource
  <2>2. "source" \in Side
    BY DEF Side
  <2>3. Listing("source", failed) \in Stamped
    BY <2>2, HeldNow DEF IInv
  <2>4. /\ DOMAIN With(cmd.first, "source", Listing("source", failed)) = Side
        /\ With(cmd.first, "source", Listing("source", failed))["source"] \in Stamped
    BY <1>0, <2>2, <2>3 DEF With
  <2>5. cmd' = [pc |-> "assess_target", selection |-> cmd.selection, plan |-> cmd.plan,
                first |-> With(cmd.first, "source", Listing("source", failed)),
                second |-> cmd.second, truth |-> cmd.truth]
    BY <1>0, <2>1
  <2>6. QED
    BY <1>0, <2>4, <2>5 DEF CmdOK, Places, Holding
<1>4. CASE ReadSelection
  <2>1. cmd' = [cmd EXCEPT !.pc = "capture_source", !.selection = selection]
    BY <1>4 DEF ReadSelection
  <2>2. cmd' = [pc |-> "capture_source", selection |-> selection, plan |-> cmd.plan,
                first |-> cmd.first, second |-> cmd.second, truth |-> cmd.truth]
    BY <1>0, <2>1
  <2>3. QED
    BY <1>0, <2>2 DEF CmdOK, Places, Holding
<1>5. ASSUME NEW s \in Side, NEW from, NEW to, Capture(s, from, to),
             to \in {"capture_target", "baseline_source"}
      PROVE  CmdOK'
  <2>1. PICK failed \in SUBSET Tables :
           cmd' = [cmd EXCEPT !.pc = to, !.first = With(cmd.first, s, CaptureOf(s, failed))]
    BY <1>5 DEF Capture
  <2>2. DOMAIN With(cmd.first, s, CaptureOf(s, failed)) = Side
    BY <1>0 DEF With
  <2>3. cmd' = [pc |-> to, selection |-> cmd.selection, plan |-> cmd.plan,
                first |-> With(cmd.first, s, CaptureOf(s, failed)),
                second |-> cmd.second, truth |-> cmd.truth]
    BY <1>0, <2>1
  <2>4. QED
    BY <1>0, <1>5, <2>2, <2>3 DEF CmdOK, Places, Holding
<1>6. ASSUME NEW s \in Side, NEW from, NEW to, Baseline(s, from, to) \/ List(s, from, to),
             to \in {"baseline_target", "assemble", "list_target", "compare"},
             to \in Holding => from \in Holding
      PROVE  CmdOK'
  <2>1. /\ \E f, x, y : cmd' = [pc |-> to, selection |-> cmd.selection, plan |-> cmd.plan,
                               first |-> cmd.first, second |-> x, truth |-> y]
        /\ cmd'.second \in [Side -> Stamped] /\ cmd'.truth \in [Side -> Stamped \cup {NoFile}]
        /\ cmd.pc = from /\ plan' = plan
    BY <1>6, ReadingOK DEF files
  <2>2. /\ cmd' = [pc |-> to, selection |-> cmd.selection, plan |-> cmd.plan,
                   first |-> cmd.first, second |-> cmd'.second, truth |-> cmd'.truth]
    BY <2>1
  <2>3. cmd'.pc = to /\ cmd'.plan = cmd.plan /\ cmd'.first = cmd.first /\ cmd'.selection = cmd.selection
    BY <2>2
  <2>4. QED
    BY <1>0, <1>6, <2>1, <2>2, <2>3 DEF CmdOK, Places
<1>7. CASE ReadPlan
  <2>1. cmd' = [cmd EXCEPT !.pc = "list_source", !.plan = plan] /\ plan' = plan /\ plan # NoFile
    BY <1>7 DEF ReadPlan, Loads, files
  <2>2. plan \in PlanFile
    BY <2>1 DEF IInv, TypeOK
  <2>3. cmd' = [pc |-> "list_source", selection |-> cmd.selection, plan |-> plan,
                first |-> cmd.first, second |-> cmd.second, truth |-> cmd.truth]
    BY <1>0, <2>1
  <2>4. QED
    BY <1>0, <2>1, <2>2, <2>3 DEF CmdOK, Places
<1>8. "source" \in Side /\ "target" \in Side
  BY DEF Side
<1>9. CASE CaptureSource \/ CaptureTarget
  BY <1>5, <1>8, <1>9 DEF CaptureSource, CaptureTarget
<1>10. CASE BaselineSource \/ BaselineTarget
  BY <1>6, <1>8, <1>10 DEF BaselineSource, BaselineTarget, Holding
<1>11. CASE ListSource \/ ListTarget
  BY <1>6, <1>8, <1>11 DEF ListSource, ListTarget, Holding
<1>12. CASE Edit
  BY <1>1, <1>12, EditsTables DEF Edit, files
<1>13. CASE \/ Select \/ (\E key \in Keys, disposition \in {"include", "exclude"} : Curate(key, disposition))
            \/ UNCHANGED vars
  BY <1>1, <1>13 DEF Select, Curate, vars, files
<1>14. CASE \/ AssessTarget \/ RefusePlan \/ WriteRunbook \/ ReportNoDrift \/ ReportDrift \/ Abort \/ Turn
  BY <1>2, <1>14 DEF AssessTarget, RefusePlan, WriteRunbook, ReportNoDrift, ReportDrift, Abort, Turn
<1>15. QED
  BY <1>3, <1>4, <1>7, <1>9, <1>10, <1>11, <1>12, <1>13, <1>14, StepWays DEF Quiet

LEMMA WritePlanOK ==
  ASSUME IInv, WritePlan
  PROVE  /\ plan' \in PlanFile /\ plan'.n = written + 1 /\ written' = written + 1
         /\ written' \in 0 .. MaxPlans /\ plan' # NoFile
         /\ plan'.baseline = cmd.second /\ plan'.truth = cmd.truth /\ plan'.marks = {}
         /\ cmd' = [Idle EXCEPT !.pc = "write_runbook", !.plan = plan']
         /\ cmd'.pc = "write_runbook" /\ cmd'.plan = plan'
         /\ cmd.pc = "assemble"
         /\ UNCHANGED <<tables, checklist, selection, runbook, vouched, edits, failures, marked, given>>
         /\ CmdOK'
<1>1. /\ plan' = [n |-> written + 1, items |-> Items, stranded |-> Stranded,
                  baseline |-> cmd.second, truth |-> cmd.truth, marks |-> {}]
      /\ written' = written + 1 /\ written < MaxPlans /\ cmd.pc = "assemble"
      /\ cmd' = [Idle EXCEPT !.pc = "write_runbook", !.plan = plan']
      /\ UNCHANGED <<tables, checklist, selection, runbook, vouched, edits, failures, marked, given>>
  BY DEF WritePlan
<1>2. /\ cmd.second \in [Side -> Stamped] /\ cmd.truth \in [Side -> Stamped \cup {NoFile}]
      /\ written \in Nat /\ MaxPlans \in Nat
  BY BoundsAssumption DEF IInv, CmdOK, TypeOK
<1>3. Items \in SUBSET Keys /\ Stranded \in SUBSET References
  BY DEF Items, Stranded
<1>4. written + 1 \in Nat /\ written' \in 0 .. MaxPlans
  BY <1>1, <1>2
<1>5. plan' \in PlanFile
  BY <1>1, <1>2, <1>3, <1>4 DEF PlanFile
<1>6. plan' # NoFile
  BY <1>5, NoFileAssumption
<1>7. cmd' = [pc |-> "write_runbook", selection |-> NoFile, plan |-> plan',
              first |-> NoRead, second |-> NoRead, truth |-> NoRead]
  BY <1>1 DEF Idle
<1>8. NoRead \in [Side -> Stamped] /\ NoRead \in [Side -> Stamped \cup {NoFile}] /\ DOMAIN NoRead = Side
  BY EmptyRead DEF NoRead
<1>9. CmdOK'
  BY <1>5, <1>6, <1>7, <1>8 DEF CmdOK, Places
<1>10. QED
  BY <1>1, <1>4, <1>5, <1>6, <1>7, <1>9

LEMMA MarkPlanOK ==
  ASSUME IInv, NEW mark \in Mark, MarkPlan(mark)
  PROVE  /\ plan # NoFile /\ plan' \in PlanFile /\ plan' # NoFile
         /\ plan'.n = plan.n /\ plan'.baseline = plan.baseline /\ plan'.truth = plan.truth
         /\ plan'.stranded = plan.stranded /\ plan'.marks = plan.marks \cup {mark}
         /\ given' = given \cup {<<plan.n, mark>>}
         /\ marked' \in 0 .. MaxMarks
         /\ UNCHANGED <<tables, checklist, selection, runbook, cmd, vouched, edits, failures, written>>
         /\ CmdOK'
<1>1. /\ plan # NoFile /\ marked < MaxMarks /\ marked' = marked + 1
      /\ plan' = [plan EXCEPT !.marks = @ \cup {mark}]
      /\ given' = given \cup {<<plan.n, mark>>}
      /\ UNCHANGED <<tables, checklist, selection, runbook, cmd, vouched, edits, failures, written>>
  BY DEF MarkPlan
<1>2. plan \in PlanFile /\ marked \in Nat /\ MaxMarks \in Nat
  BY <1>1, BoundsAssumption DEF IInv, TypeOK
<1>3. marked' \in 0 .. MaxMarks
  BY <1>1, <1>2
<1>4. /\ plan' \in PlanFile /\ plan'.n = plan.n /\ plan'.baseline = plan.baseline
      /\ plan'.truth = plan.truth /\ plan'.stranded = plan.stranded
      /\ plan'.marks = plan.marks \cup {mark}
  BY <1>1, <1>2 DEF PlanFile
<1>5. plan' # NoFile
  BY <1>4, NoFileAssumption
<1>6. CmdOK'
  BY <1>1, <1>4, <1>5 DEF IInv, CmdOK
<1>7. QED
  BY <1>1, <1>3, <1>4, <1>5, <1>6

LEMMA RenderedShape ==
  ASSUME IInv, cmd.pc \in Holding, NEW stale
  PROVE  Rendered(cmd.plan, stale).n \in Nat /\ Rendered(cmd.plan, stale).marks \subseteq Mark
  BY DEF IInv, CmdOK, PlanFile, Rendered

LEMMA TypeStep ==
  ASSUME IInv, Step
  PROVE  TypeOK' /\ CmdOK'
<1>0. TypeOK
  BY DEF IInv
<1>1. CmdOK'
  BY CmdStep, WritePlanOK, MarkPlanOK
<1>2. /\ DOMAIN tables' = Side /\ edits' \in 0 .. MaxEdits
      /\ \A s \in Side : IsTables(tables'[s])
  BY TablesStep
<1>3. CASE UNCHANGED <<files, vouched, failures, written, marked>>
  BY <1>0, <1>1, <1>2, <1>3 DEF TypeOK, files
<1>4. ASSUME NEW failed \in SUBSET Tables, Failing(failed)
      PROVE  failures' \in 0 .. MaxFailures
  <2>1. failures \in Nat /\ MaxFailures \in Nat
    BY <1>0, BoundsAssumption DEF TypeOK
  <2>2. Cardinality(failed) \in Nat
    BY FiniteAssumption, FS_Subset, FS_CardinalityType
  <2>3. QED
    BY <1>4, <2>1, <2>2 DEF Failing
<1>5. CASE \/ AssessSource \/ CaptureSource \/ CaptureTarget
  <2>1. UNCHANGED <<files, vouched, written, marked>> /\ \E failed \in SUBSET Tables : Failing(failed)
    BY <1>5 DEF AssessSource, CaptureSource, CaptureTarget, Capture
  <2>2. QED
    BY <1>0, <1>1, <1>2, <1>4, <2>1 DEF TypeOK, files
<1>6. CASE \/ BaselineSource \/ BaselineTarget \/ ListSource \/ ListTarget
  <2>1. UNCHANGED <<files, vouched, written, marked>> /\ \E failed \in SUBSET Tables : Failing(failed)
    BY <1>6 DEF BaselineSource, BaselineTarget, Baseline, ListSource, ListTarget, List
  <2>2. QED
    BY <1>0, <1>1, <1>2, <1>4, <2>1 DEF TypeOK, files
<1>7. CASE AssessTarget
  <2>1. PICK failed \in SUBSET Tables :
           /\ Failing(failed)
           /\ checklist' = Checklist(cmd.first["source"], Listing("target", failed))
    BY <1>7 DEF AssessTarget
  <2>2. cmd.first["source"] \in Stamped
    BY <1>7 DEF AssessTarget, IInv, CmdOK
  <2>3. Listing("target", failed) \in Stamped
    BY HeldNow DEF IInv, Side
  <2>4. UNCHANGED <<selection, plan, runbook, vouched, written, marked>>
    BY <1>7 DEF AssessTarget
  <2>5. QED
    BY <1>0, <1>1, <1>2, <1>4, <2>1, <2>2, <2>3, <2>4, ChecklistShape DEF TypeOK
<1>8. CASE Select
  <2>1. /\ selection' = [key \in DOMAIN checklist |-> "undecided"] /\ checklist # NoFile
        /\ UNCHANGED <<checklist, plan, runbook, vouched, failures, written, marked>>
    BY <1>8 DEF Select, counters
  <2>2. IsSelection(selection')
    BY <1>0, <2>1 DEF TypeOK, IsSelection, Disposition
  <2>3. QED
    BY <1>0, <1>1, <1>2, <2>1, <2>2 DEF TypeOK
<1>9. ASSUME NEW key \in Keys, NEW disposition \in {"include", "exclude"}, Curate(key, disposition)
      PROVE  TypeOK'
  <2>1. /\ selection # NoFile /\ selection' = [selection EXCEPT ![key] = disposition]
        /\ UNCHANGED <<checklist, plan, runbook, vouched, failures, written, marked>>
    BY <1>9 DEF Curate, counters
  <2>2. IsSelection(selection')
    BY <1>0, <2>1 DEF TypeOK, IsSelection, Disposition
  <2>3. QED
    BY <1>0, <1>1, <1>2, <2>1, <2>2 DEF TypeOK
<1>10. CASE WritePlan
  BY <1>0, <1>2, <1>10, WritePlanOK DEF TypeOK
<1>11. ASSUME NEW mark \in Mark, MarkPlan(mark)
       PROVE  TypeOK'
  BY <1>0, <1>2, <1>11, MarkPlanOK DEF TypeOK
<1>12. CASE ReadPlan
  <2>1. vouched' = NoFile /\ UNCHANGED <<files, failures, written, marked>>
    BY <1>12 DEF ReadPlan, counters
  <2>2. QED
    BY <1>0, <1>1, <1>2, <2>1 DEF TypeOK, files
<1>13. CASE ReportNoDrift
  <2>1. /\ vouched' = [baseline |-> cmd.plan.truth, now |-> cmd.truth]
        /\ UNCHANGED <<files, failures, written, marked>> /\ cmd.pc = "compare"
    BY <1>13 DEF ReportNoDrift, counters
  <2>2. cmd.plan \in PlanFile /\ cmd.truth \in [Side -> Stamped \cup {NoFile}]
    BY <2>1 DEF IInv, CmdOK, Holding
  <2>3. cmd.plan.truth \in [Side -> Stamped \cup {NoFile}]
    BY <2>2 DEF PlanFile
  <2>4. {vouched'.baseline, vouched'.now} \subseteq [Side -> Stamped \cup {NoFile}]
    BY <2>1, <2>2, <2>3
  <2>5. QED
    BY <1>0, <1>1, <1>2, <2>1, <2>4 DEF TypeOK, files
<1>14. CASE ReportDrift
  <2>1. /\ vouched' = NoFile /\ UNCHANGED <<checklist, selection, plan, failures, written, marked>>
        /\ cmd.pc = "compare" /\ runbook' \in {NoFile, Rendered(cmd.plan, TRUE)}
    BY <1>14 DEF ReportDrift, counters
  <2>2. runbook' # NoFile => runbook'.n \in Nat /\ runbook'.marks \subseteq Mark
    BY <2>1, RenderedShape DEF Holding
  <2>3. QED
    BY <1>0, <1>1, <1>2, <2>1, <2>2 DEF TypeOK
<1>15. CASE WriteRunbook
  <2>1. /\ UNCHANGED <<checklist, selection, plan, vouched, failures, written, marked>>
        /\ cmd.pc = "write_runbook" /\ runbook' = Rendered(cmd.plan, FALSE)
    BY <1>15 DEF WriteRunbook, counters
  <2>2. runbook'.n \in Nat /\ runbook'.marks \subseteq Mark
    BY <2>1, RenderedShape DEF Holding
  <2>3. QED
    BY <1>0, <1>1, <1>2, <2>1, <2>2 DEF TypeOK
<1>16. CASE ReadSelection \/ RefusePlan \/ Abort \/ Turn \/ UNCHANGED vars
  BY <1>3, <1>1, <1>16 DEF ReadSelection, RefusePlan, Abort, Turn, vars, counters
<1>17. CASE Edit
  BY <1>3, <1>17, EditsTables DEF Edit
<1>18. QED
  BY <1>1, <1>5, <1>6, <1>7, <1>8, <1>9, <1>10, <1>11, <1>12, <1>13, <1>14, <1>15, <1>16, <1>17,
     StepWays DEF Quiet

(***************************************************************************)
(* What is listed, and what comparing two listings says                    *)
(***************************************************************************)
\* Steps after which no listing of a running command is needed.
LEMMA FreshPlaces ==
  ASSUME IInv, AssessSource \/ ReadSelection \/ CaptureSource \/ CaptureTarget
  PROVE  /\ cmd'.pc \in {"assess_target", "capture_source", "capture_target", "baseline_source"}
         /\ UNCHANGED <<plan, runbook, vouched, given>>
<1>0. cmd = [pc |-> cmd.pc, selection |-> cmd.selection, plan |-> cmd.plan,
             first |-> cmd.first, second |-> cmd.second, truth |-> cmd.truth]
  BY DEF IInv, CmdOK
<1>1. CASE AssessSource
  BY <1>0, <1>1 DEF AssessSource, files
<1>2. CASE ReadSelection
  BY <1>0, <1>2 DEF ReadSelection, files
<1>3. CASE CaptureSource \/ CaptureTarget
  BY <1>0, <1>3 DEF CaptureSource, CaptureTarget, Capture, files
<1>4. QED
  BY <1>1, <1>2, <1>3

LEMMA IdleSteps ==
  ASSUME \/ AssessTarget \/ RefusePlan \/ WriteRunbook \/ ReportNoDrift \/ ReportDrift
         \/ Abort \/ Turn
  PROVE  cmd'.pc \in {"idle", "preflight"} /\ UNCHANGED <<plan, given, tables, edits>>
<1>1. cmd' \in {Idle, [Idle EXCEPT !.pc = "preflight"]} /\ UNCHANGED <<plan, given, tables, edits>>
  BY DEF AssessTarget, RefusePlan, WriteRunbook, ReportNoDrift, ReportDrift, Abort, Turn, files, counters
<1>2. QED
  BY <1>1, IdleOK

LEMMA StillSteps ==
  ASSUME \/ Select \/ (\E key \in Keys, disposition \in {"include", "exclude"} : Curate(key, disposition))
         \/ UNCHANGED vars
  PROVE  UNCHANGED <<cmd, plan, runbook, vouched, given, tables, edits>>
  BY DEF Select, Curate, vars, files, counters

LEMMA ReadPlanOK ==
  ASSUME IInv, ReadPlan
  PROVE  /\ plan # NoFile /\ "self_waiver" \notin plan.marks
         /\ cmd'.pc = "list_source" /\ cmd'.plan = plan /\ vouched' = NoFile
         /\ UNCHANGED <<plan, runbook, given, tables, edits>>
<1>1. cmd = [pc |-> cmd.pc, selection |-> cmd.selection, plan |-> cmd.plan,
             first |-> cmd.first, second |-> cmd.second, truth |-> cmd.truth]
  BY DEF IInv, CmdOK
<1>2. /\ cmd' = [cmd EXCEPT !.pc = "list_source", !.plan = plan] /\ Loads(plan)
      /\ vouched' = NoFile /\ UNCHANGED <<plan, runbook, given, tables, edits>>
  BY DEF ReadPlan, files, counters
<1>3. QED
  BY <1>1, <1>2 DEF Loads

\* Of a read, what the invariant needs.
LEMMA ReadingListed ==
  ASSUME IInv, NEW s \in Side, NEW from, NEW to, Baseline(s, from, to) \/ List(s, from, to)
  PROVE  /\ cmd.pc = from /\ cmd'.pc = to /\ cmd'.plan = cmd.plan
         /\ \A r \in Side : r # s => cmd'.second[r] = cmd.second[r] /\ cmd'.truth[r] = cmd.truth[r]
         /\ ListedAt(cmd'.second[s], cmd'.truth[s], s)
         /\ \A listing, truth :
               ListedAt(listing, truth, s) /\ ~ Drifted(listing, cmd'.second[s])
                 /\ NoFile \notin {truth, cmd'.truth[s]} => cmd'.truth[s] = truth
         /\ UNCHANGED <<plan, runbook, vouched, given, tables, edits>>
<1>1. PICK failed \in SUBSET Tables :
         /\ cmd'.second[s] = Listing(s, failed)
         /\ cmd'.truth[s] = IF failed = {} THEN Truth(s) ELSE NoFile
         /\ \A r \in Side : r # s => cmd'.second[r] = cmd.second[r] /\ cmd'.truth[r] = cmd.truth[r]
         /\ \E x, y : cmd' = [pc |-> to, selection |-> cmd.selection, plan |-> cmd.plan,
                             first |-> cmd.first, second |-> x, truth |-> y]
         /\ cmd.pc = from
         /\ UNCHANGED <<plan, runbook, vouched, given, tables, edits>>
  BY ReadingOK DEF files
<1>2. cmd'.pc = to /\ cmd'.plan = cmd.plan
  BY <1>1
<1>3. ListedAt(cmd'.second[s], cmd'.truth[s], s)
  BY <1>1, ListedNow DEF IInv
<1>4. ASSUME NEW listing, NEW truth, ListedAt(listing, truth, s),
             ~ Drifted(listing, cmd'.second[s]), NoFile \notin {truth, cmd'.truth[s]}
      PROVE  cmd'.truth[s] = truth
  <2>1. failed = {} /\ cmd'.truth[s] = Truth(s) /\ cmd'.second[s] = Listing(s, {})
    BY <1>1, <1>4
  <2>2. QED
    BY <1>4, <2>1, ListedTells DEF IInv
<1>5. QED
  BY <1>1, <1>2, <1>3, <1>4

\* Only a preflight begins one.
LEMMA NextKeepsPreflight ==
  ASSUME IInv, Next, cmd'.pc = "preflight"
  PROVE  cmd.pc = "preflight"
<1>1. CASE Edit
  BY <1>1, EditsTables DEF Edit
<1>2. CASE \/ Select \/ (\E key \in Keys, disposition \in {"include", "exclude"} : Curate(key, disposition))
  BY <1>2, StillSteps
<1>3. CASE \/ AssessTarget \/ RefusePlan \/ WriteRunbook \/ ReportNoDrift \/ ReportDrift \/ Abort
  <2>1. cmd' = Idle
    BY <1>3 DEF AssessTarget, RefusePlan, WriteRunbook, ReportNoDrift, ReportDrift, Abort
  <2>2. QED
    BY <2>1 DEF Idle
<1>4. CASE AssessSource \/ ReadSelection \/ CaptureSource \/ CaptureTarget
  BY <1>4, FreshPlaces
<1>5. CASE BaselineSource \/ BaselineTarget \/ ListSource \/ ListTarget
  BY <1>5, ReadingListed DEF BaselineSource, BaselineTarget, ListSource, ListTarget, Side
<1>6. CASE WritePlan
  BY <1>6, WritePlanOK
<1>7. CASE \E mark \in Mark : MarkPlan(mark)
  BY <1>7, MarkPlanOK
<1>8. CASE ReadPlan
  BY <1>8, ReadPlanOK
<1>9. QED
  BY <1>1, <1>2, <1>3, <1>4, <1>5, <1>6, <1>7, <1>8 DEF Next, Edit

LEMMA ListingsStep ==
  ASSUME IInv, Step
  PROVE  ListingsArePast'
<1>0. "source" \in Side /\ "target" \in Side
  BY DEF Side
<1>1. plan # NoFile => \A s \in Side : ListedBy(plan.baseline[s], plan.truth[s], tables'[s], edits')
  BY ListedStill DEF IInv, ListingsArePast
<1>2. cmd.pc \in Holding =>
         \A s \in Side : ListedBy(cmd.plan.baseline[s], cmd.plan.truth[s], tables'[s], edits')
  BY ListedStill DEF IInv, ListingsArePast
<1>3. cmd.pc \in {"baseline_target", "assemble"} =>
         ListedBy(cmd.second["source"], cmd.truth["source"], tables'["source"], edits')
  BY <1>0, ListedStill DEF IInv, ListingsArePast
<1>4. cmd.pc = "assemble" =>
         ListedBy(cmd.second["target"], cmd.truth["target"], tables'["target"], edits')
  BY <1>0, ListedStill DEF IInv, ListingsArePast
<1>5. CASE UNCHANGED <<cmd, plan>>
  BY <1>1, <1>2, <1>3, <1>4, <1>5 DEF ListingsArePast, ListedAt
<1>6. CASE cmd'.pc \in Places \ (Holding \cup {"baseline_target", "assemble"}) /\ UNCHANGED plan
  BY <1>1, <1>6 DEF ListingsArePast, ListedAt
<1>7. CASE Edit
  BY <1>5, <1>7, EditsTables DEF Edit, files
<1>8. CASE \/ Select \/ (\E key \in Keys, disposition \in {"include", "exclude"} : Curate(key, disposition))
           \/ UNCHANGED vars
  BY <1>5, <1>8, StillSteps
<1>9. CASE \/ AssessTarget \/ RefusePlan \/ WriteRunbook \/ ReportNoDrift \/ ReportDrift \/ Abort \/ Turn
  BY <1>6, <1>9, IdleSteps DEF Places, Holding
<1>10. CASE AssessSource \/ ReadSelection \/ CaptureSource \/ CaptureTarget
  BY <1>6, <1>10, FreshPlaces DEF Places, Holding
<1>11. CASE BaselineSource
  <2>1. /\ cmd'.pc = "baseline_target" /\ UNCHANGED <<plan, tables, edits>>
        /\ ListedAt(cmd'.second["source"], cmd'.truth["source"], "source")
    BY <1>0, <1>11, ReadingListed DEF BaselineSource
  <2>2. QED
    BY <1>1, <2>1 DEF ListingsArePast, ListedAt, Holding
<1>12. CASE BaselineTarget
  <2>1. /\ cmd.pc = "baseline_target" /\ cmd'.pc = "assemble" /\ UNCHANGED <<plan, tables, edits>>
        /\ ListedAt(cmd'.second["target"], cmd'.truth["target"], "target")
        /\ cmd'.second["source"] = cmd.second["source"] /\ cmd'.truth["source"] = cmd.truth["source"]
    BY <1>0, <1>12, ReadingListed DEF BaselineTarget
  <2>2. QED
    BY <1>1, <1>3, <2>1 DEF ListingsArePast, ListedAt, Holding
<1>13. CASE WritePlan
  <2>1. /\ cmd.pc = "assemble" /\ cmd'.pc = "write_runbook" /\ cmd'.plan = plan'
        /\ plan'.baseline = cmd.second /\ plan'.truth = cmd.truth
    BY <1>13, WritePlanOK
  <2>2. \A s \in Side : ListedBy(cmd.second[s], cmd.truth[s], tables'[s], edits')
    BY <1>3, <1>4, <2>1 DEF Side
  <2>3. QED
    BY <2>1, <2>2 DEF ListingsArePast, ListedAt, Holding
<1>14. ASSUME NEW mark \in Mark, MarkPlan(mark)
       PROVE  ListingsArePast'
  <2>1. /\ plan # NoFile /\ plan'.baseline = plan.baseline /\ plan'.truth = plan.truth /\ cmd' = cmd
    BY <1>14, MarkPlanOK
  <2>2. QED
    BY <1>1, <1>2, <1>3, <1>4, <2>1 DEF ListingsArePast, ListedAt
<1>15. CASE ReadPlan
  <2>1. plan # NoFile /\ cmd'.pc = "list_source" /\ cmd'.plan = plan /\ plan' = plan
    BY <1>15, ReadPlanOK
  <2>2. QED
    BY <1>1, <2>1 DEF ListingsArePast, ListedAt
<1>16. CASE ListSource \/ ListTarget
  <2>1. /\ cmd.pc \in Holding /\ cmd'.pc \in {"list_target", "compare"}
        /\ cmd'.plan = cmd.plan /\ plan' = plan
    BY <1>0, <1>16, ReadingListed DEF ListSource, ListTarget, Holding
  <2>2. QED
    BY <1>1, <1>2, <2>1 DEF ListingsArePast, ListedAt, Holding
<1>17. QED
  BY <1>7, <1>8, <1>9, <1>10, <1>11, <1>12, <1>13, <1>14, <1>15, <1>16, StepWays DEF Quiet

LEMMA ComparisonsStep ==
  ASSUME IInv, Step
  PROVE  ComparisonsTell' /\ NoDriftMeansUnchanged'
<1>0. "source" \in Side /\ "target" \in Side /\ ComparisonsTell /\ NoDriftMeansUnchanged
  BY DEF Side, IInv
<1>1. CASE UNCHANGED <<cmd, vouched>>
  BY <1>0, <1>1 DEF ComparisonsTell, Tells, NoDriftMeansUnchanged
<1>2. CASE cmd'.pc \in Places \ {"list_target", "compare"} /\ vouched' \in {NoFile, vouched}
  BY <1>0, <1>2 DEF ComparisonsTell, NoDriftMeansUnchanged
<1>3. CASE Edit
  BY <1>1, <1>3, EditsTables DEF Edit
<1>4. CASE \/ Select \/ (\E key \in Keys, disposition \in {"include", "exclude"} : Curate(key, disposition))
           \/ UNCHANGED vars
  BY <1>1, <1>4, StillSteps
<1>5. CASE \/ AssessTarget \/ RefusePlan \/ WriteRunbook \/ ReportDrift \/ Abort \/ Turn
  <2>1. vouched' \in {NoFile, vouched}
    BY <1>5 DEF AssessTarget, RefusePlan, WriteRunbook, ReportDrift, Abort, Turn, counters
  <2>2. QED
    BY <1>2, <1>5, <2>1, IdleSteps DEF Places
<1>6. CASE AssessSource \/ ReadSelection \/ CaptureSource \/ CaptureTarget
  BY <1>2, <1>6, FreshPlaces DEF Places
<1>7. CASE BaselineSource \/ BaselineTarget
  <2>1. cmd'.pc \in {"baseline_target", "assemble"} /\ vouched' = vouched
    BY <1>0, <1>7, ReadingListed DEF BaselineSource, BaselineTarget
  <2>2. QED
    BY <1>2, <2>1 DEF Places
<1>8. CASE WritePlan
  BY <1>2, <1>8, WritePlanOK DEF Places
<1>9. CASE \E mark \in Mark : MarkPlan(mark)
  BY <1>1, <1>9, MarkPlanOK
<1>10. CASE ReadPlan
  BY <1>2, <1>10, ReadPlanOK DEF Places
<1>11. ASSUME NEW s \in Side, NEW from, NEW to, List(s, from, to), from \in Holding
       PROVE  Tells(s)' /\ vouched' = vouched
  <2>1. ListedAt(cmd.plan.baseline[s], cmd.plan.truth[s], s)
    BY <1>11, ReadingListed DEF IInv, ListingsArePast
  <2>2. /\ cmd'.plan = cmd.plan /\ vouched' = vouched
        /\ \A listing, truth :
               ListedAt(listing, truth, s) /\ ~ Drifted(listing, cmd'.second[s])
                 /\ NoFile \notin {truth, cmd'.truth[s]} => cmd'.truth[s] = truth
    BY <1>11, ReadingListed
  <2>3. ~ Drifted(cmd.plan.baseline[s], cmd'.second[s]) /\ NoFile \notin {cmd.plan.truth[s], cmd'.truth[s]}
          => cmd'.truth[s] = cmd.plan.truth[s]
    BY <2>1, <2>2
  <2>4. QED
    BY <2>2, <2>3 DEF Tells
<1>12. CASE ListSource
  <2>1. cmd'.pc = "list_target"
    BY <1>0, <1>12, ReadingListed DEF ListSource
  <2>2. Tells("source")' /\ vouched' = vouched
    BY <1>0, <1>11, <1>12 DEF ListSource, Holding
  <2>3. QED
    BY <1>0, <2>1, <2>2 DEF ComparisonsTell, NoDriftMeansUnchanged
<1>13. CASE ListTarget
  <2>1. /\ cmd.pc = "list_target" /\ cmd'.pc = "compare" /\ cmd'.plan = cmd.plan
        /\ cmd'.second["source"] = cmd.second["source"] /\ cmd'.truth["source"] = cmd.truth["source"]
    BY <1>0, <1>13, ReadingListed DEF ListTarget
  <2>2. Tells("target")' /\ vouched' = vouched
    BY <1>0, <1>11, <1>13 DEF ListTarget, Holding
  <2>3. Tells("source")'
    BY <1>0, <2>1 DEF ComparisonsTell, Tells
  <2>4. QED
    BY <1>0, <2>2, <2>3 DEF ComparisonsTell, NoDriftMeansUnchanged
<1>14. CASE ReportNoDrift
  <2>1. /\ cmd.pc = "compare" /\ Compared
        /\ vouched' = [baseline |-> cmd.plan.truth, now |-> cmd.truth]
    BY <1>14 DEF ReportNoDrift
  <2>2. \A s \in Side : Tells(s)
    BY <1>0, <2>1 DEF ComparisonsTell, Side
  <2>3. \A s \in Side : NoFile \notin {cmd.plan.truth[s], cmd.truth[s]} => cmd.truth[s] = cmd.plan.truth[s]
    BY <2>1, <2>2 DEF Tells, Compared
  <2>4. NoDriftMeansUnchanged'
    BY <2>1, <2>3 DEF NoDriftMeansUnchanged
  <2>5. ComparisonsTell'
    BY <1>14, IdleSteps DEF ComparisonsTell
  <2>6. QED
    BY <2>4, <2>5
<1>15. QED
  BY <1>3, <1>4, <1>5, <1>6, <1>7, <1>8, <1>9, <1>10, <1>12, <1>13, <1>14, StepWays DEF Quiet

(***************************************************************************)
(* Marks and runbooks                                                      *)
(***************************************************************************)
LEMMA MarksStep ==
  ASSUME IInv, Step
  PROVE  MarksAreGiven'
<1>0. MarksAreGiven
  BY DEF IInv
<1>1. CASE UNCHANGED <<cmd, plan, given>>
  BY <1>0, <1>1 DEF MarksAreGiven
<1>2. CASE cmd'.pc \in Places \ Holding /\ UNCHANGED <<plan, given>>
  BY <1>0, <1>2 DEF MarksAreGiven
<1>3. CASE Edit
  BY <1>1, <1>3, EditsTables DEF Edit, files
<1>4. CASE \/ Select \/ (\E key \in Keys, disposition \in {"include", "exclude"} : Curate(key, disposition))
           \/ UNCHANGED vars
  BY <1>1, <1>4, StillSteps
<1>5. CASE \/ AssessTarget \/ RefusePlan \/ WriteRunbook \/ ReportNoDrift \/ ReportDrift \/ Abort \/ Turn
  BY <1>2, <1>5, IdleSteps DEF Places, Holding
<1>6. CASE AssessSource \/ ReadSelection \/ CaptureSource \/ CaptureTarget
  BY <1>2, <1>6, FreshPlaces DEF Places, Holding
<1>7. "source" \in Side /\ "target" \in Side
  BY DEF Side
<1>8. CASE BaselineSource \/ BaselineTarget
  <2>1. cmd'.pc \in {"baseline_target", "assemble"} /\ UNCHANGED <<plan, given>>
    BY <1>7, <1>8, ReadingListed DEF BaselineSource, BaselineTarget
  <2>2. QED
    BY <1>2, <2>1 DEF Places, Holding
<1>9. CASE ListSource \/ ListTarget
  <2>1. cmd.pc \in Holding /\ cmd'.plan = cmd.plan /\ UNCHANGED <<plan, given>>
    BY <1>7, <1>9, ReadingListed DEF ListSource, ListTarget, Holding
  <2>2. QED
    BY <1>0, <2>1 DEF MarksAreGiven
<1>10. CASE WritePlan
  BY <1>10, WritePlanOK DEF MarksAreGiven
<1>11. ASSUME NEW mark \in Mark, MarkPlan(mark)
       PROVE  MarksAreGiven'
  <2>1. /\ plan # NoFile /\ plan'.n = plan.n /\ plan'.stranded = plan.stranded
        /\ plan'.marks = plan.marks \cup {mark} /\ given' = given \cup {<<plan.n, mark>>}
        /\ cmd' = cmd
    BY <1>11, MarkPlanOK
  <2>2. QED
    BY <1>0, <2>1 DEF MarksAreGiven
<1>12. CASE ReadPlan
  BY <1>0, <1>12, ReadPlanOK DEF MarksAreGiven
<1>13. QED
  BY <1>3, <1>4, <1>5, <1>6, <1>8, <1>9, <1>10, <1>11, <1>12, StepWays DEF Quiet

\* A runbook rendered from the copy of the plan that a command holds.
LEMMA RenderedIsHonest ==
  ASSUME IInv, cmd.pc \in Holding, NEW stale, runbook' = Rendered(cmd.plan, stale),
         UNCHANGED <<plan, given>>
  PROVE  RunbookIsHonest'
<1>1. /\ plan # NoFile /\ cmd.plan.n = plan.n /\ cmd.plan.stranded = plan.stranded
      /\ \A mark \in cmd.plan.marks : <<cmd.plan.n, mark>> \in given
      /\ "self_waiver" \notin cmd.plan.marks
      /\ plan.n \in Nat
  BY DEF IInv, CmdOK, MarksAreGiven, TypeOK, PlanFile
<1>2. /\ runbook'.n = cmd.plan.n /\ runbook'.marks = cmd.plan.marks
      /\ runbook'.blocked = Blocked(cmd.plan)
  BY DEF Rendered
<1>3. ~ Blocked(cmd.plan) => cmd.plan.stranded = {} \/ "waiver" \in cmd.plan.marks
  BY DEF Blocked
<1>4. QED
  BY <1>1, <1>2, <1>3 DEF RunbookIsHonest

LEMMA RunbookStep ==
  ASSUME IInv, Step
  PROVE  RunbookIsHonest'
<1>0. RunbookIsHonest
  BY DEF IInv
<1>1. CASE UNCHANGED <<runbook, plan, given>>
  BY <1>0, <1>1 DEF RunbookIsHonest
<1>2. CASE Edit
  BY <1>1, <1>2, EditsTables DEF Edit, files
<1>3. CASE \/ Select \/ (\E key \in Keys, disposition \in {"include", "exclude"} : Curate(key, disposition))
           \/ UNCHANGED vars
  BY <1>1, <1>3, StillSteps
<1>4. CASE \/ AssessTarget \/ RefusePlan \/ ReportNoDrift \/ Abort \/ Turn
  BY <1>1, <1>4 DEF AssessTarget, RefusePlan, ReportNoDrift, Abort, Turn, files
<1>5. CASE AssessSource \/ ReadSelection \/ CaptureSource \/ CaptureTarget
  BY <1>1, <1>5, FreshPlaces
<1>6. CASE BaselineSource \/ BaselineTarget \/ ListSource \/ ListTarget
  <2>1. UNCHANGED <<runbook, plan, given>>
    BY <1>6, ReadingListed DEF BaselineSource, BaselineTarget, ListSource, ListTarget, Side
  <2>2. QED
    BY <1>1, <2>1
<1>7. CASE WritePlan
  <2>1. plan # NoFile => plan.n = written /\ written \in Nat
    BY DEF IInv, TypeOK
  <2>2. ASSUME runbook # NoFile
        PROVE  runbook.n <= plan'.n /\ runbook.n # plan'.n
    <3>1. plan # NoFile /\ runbook.n <= plan.n
      BY <1>0, <2>2 DEF RunbookIsHonest
    <3>2. runbook.n \in Nat
      BY <2>2 DEF IInv, TypeOK
    <3>3. QED
      BY <1>7, <2>1, <3>1, <3>2, WritePlanOK
  <2>3. plan' # NoFile /\ UNCHANGED <<runbook, given>>
    BY <1>7, WritePlanOK
  <2>4. QED
    BY <1>0, <2>2, <2>3 DEF RunbookIsHonest
<1>8. ASSUME NEW mark \in Mark, MarkPlan(mark)
      PROVE  RunbookIsHonest'
  <2>1. /\ plan # NoFile /\ plan' # NoFile /\ plan'.n = plan.n /\ plan'.stranded = plan.stranded
        /\ given' = given \cup {<<plan.n, mark>>} /\ runbook' = runbook
    BY <1>8, MarkPlanOK
  <2>2. QED
    BY <1>0, <2>1 DEF RunbookIsHonest
<1>9. CASE ReadPlan
  BY <1>1, <1>9, ReadPlanOK
<1>10. CASE WriteRunbook
  BY <1>10, RenderedIsHonest DEF WriteRunbook, Holding, counters
<1>11. CASE ReportDrift
  <2>1. runbook' \in {NoFile, Rendered(cmd.plan, TRUE)} /\ UNCHANGED <<plan, given>> /\ cmd.pc = "compare"
    BY <1>11 DEF ReportDrift
  <2>2. CASE runbook' = NoFile
    BY <2>1, <2>2 DEF RunbookIsHonest
  <2>3. CASE runbook' = Rendered(cmd.plan, TRUE)
    BY <2>1, <2>3, RenderedIsHonest DEF Holding
  <2>4. QED
    BY <2>1, <2>2, <2>3
<1>12. QED
  BY <1>2, <1>3, <1>4, <1>5, <1>6, <1>7, <1>8, <1>9, <1>10, <1>11, StepWays DEF Quiet

LEMMA NextIInv ==
  ASSUME IInv, Step
  PROVE  IInv'
<1>1. TypeOK' /\ CmdOK' /\ StampsArePast'
  BY TypeStep, TablesStep
<1>2. ListingsArePast' /\ ComparisonsTell' /\ NoDriftMeansUnchanged'
  BY ListingsStep, ComparisonsStep
<1>3. MarksAreGiven' /\ RunbookIsHonest'
  BY MarksStep, RunbookStep
<1>4. QED
  BY <1>1, <1>2, <1>3 DEF IInv

-----------------------------------------------------------------------------
(***************************************************************************)
(* The preflight                                                           *)
(***************************************************************************)
LEMMA RequestList ==
  /\ Len(Requests) = 6
  /\ \A i \in 1 .. 6 : Requests[i] \in PreflightRow /\ Requests[i][2] # "auth-mode"
  /\ \A row \in PreflightRow : row[2] # "auth-mode" => \E i \in 1 .. 6 : Requests[i] = row
<1> DEFINE Of(s) == <<<<s, "cicd-plugin">>, <<s, "sn-cicd-role">>, <<s, "app-repo-entitlement">>>>
<1>1. Requests = Of("source") \o Of("target")
  BY DEF Requests
<1>2. Len(Requests) = 6
  BY <1>1
<1>3. QED
  BY <1>1, <1>2 DEF PreflightRow, Item, Side

LEMMA Joined ==
  ASSUME NEW rows, NEW row, NEW status
  PROVE  /\ DOMAIN Answered(rows, row, status) = DOMAIN rows \cup {row}
         /\ Answered(rows, row, status)[row] = status
         /\ \A r \in DOMAIN rows : r # row => Answered(rows, row, status)[r] = rows[r]
  BY DEF Answered

\* A request that is answered passes what it is about at that moment, and
\* only fails what is not met then.
LEMMA StatusIsTrue ==
  ASSUME NEW row \in PreflightRow, row[2] # "auth-mode",
         NEW code, code \in {access[row[1]].code[row[2]], 0}
  PROVE  /\ Status(row, code) = "pass" => row \in Met(access)
         /\ Status(row, code) = "fail" => row \notin Met(access) /\ row[2] # "sn-cicd-role"
<1>1. row[2] \in {"cicd-plugin", "sn-cicd-role", "app-repo-entitlement"}
  BY DEF PreflightRow, Item
<1>2. CASE row[2] = "cicd-plugin"
  BY <1>2 DEF Status, PluginStatus, TableStatus, Met
<1>3. CASE row[2] = "sn-cicd-role"
  BY <1>3 DEF Status, TableStatus, Met
<1>4. CASE row[2] = "app-repo-entitlement"
  BY <1>4 DEF Status, TableStatus, Met
<1>5. QED
  BY <1>1, <1>2, <1>3, <1>4

LEMMA ReportShape ==
  ASSUME NEW report \in Report
  PROVE  /\ DOMAIN report.rows \subseteq PreflightRow
         /\ \A row \in DOMAIN report.rows : report.rows[row] \in {"pass", "fail", "unknown"}
         /\ report = [rows |-> report.rows, next |-> report.next, ever |-> report.ever,
                      always |-> report.always]
         /\ report.next \in 1 .. 7 /\ report.ever \subseteq PreflightRow
         /\ report.always \subseteq PreflightRow
         /\ report.rows = [row \in DOMAIN report.rows |-> report.rows[row]]
<1>1. report.rows \in UNION {[asked -> {"pass", "fail", "unknown"}] : asked \in SUBSET PreflightRow}
  BY DEF Report
<1>2. PICK asked \in SUBSET PreflightRow : report.rows \in [asked -> {"pass", "fail", "unknown"}]
  BY <1>1
<1>3. QED
  BY <1>2 DEF Report

LEMMA StatusShape ==
  ASSUME NEW row \in PreflightRow, row[2] # "auth-mode", NEW code
  PROVE  Status(row, code) \in {"pass", "fail", "unknown"}
<1>1. row[2] \in {"cicd-plugin", "sn-cicd-role", "app-repo-entitlement"}
  BY DEF PreflightRow, Item
<1>2. QED
  BY <1>1 DEF Status, PluginStatus, TableStatus

LEMMA MetShape == Met(access) \subseteq PreflightRow /\ Met(access)' \subseteq PreflightRow
  BY DEF Met

\* What a running preflight, or one that was killed, has found.
LEMMA ProbedStep ==
  ASSUME PreIInv, PreNext
  PROVE  Probed' /\ PreflightIsTrue' /\ (cmd'.pc = "preflight" => probing' # NoFile)
<1>0. Probed /\ PreflightIsTrue /\ (cmd.pc = "preflight" => probing # NoFile)
  BY DEF PreIInv
<1>1. CASE Next /\ UNCHANGED <<access, probing, shown, turns>>
  <2>1. Probed' /\ PreflightIsTrue'
    BY <1>0, <1>1 DEF Probed, PreflightIsTrue, Met
  <2>2. cmd'.pc = "preflight" => cmd.pc = "preflight"
    BY <1>1, NextKeepsPreflight DEF PreIInv
  <2>3. QED
    BY <1>0, <1>1, <2>1, <2>2
<1>2. CASE BeginPreflight
  <2>1. /\ probing' = [rows |-> AuthMode, next |-> 1, ever |-> Met(access), always |-> Met(access)]
        /\ shown' = NoFile /\ access' = access
    BY <1>2 DEF BeginPreflight
  <2>2. /\ DOMAIN AuthMode = Side \X {"auth-mode"} /\ AuthMode \in [Side \X {"auth-mode"} -> {"pass", "fail", "unknown"}]
        /\ \A row \in DOMAIN AuthMode : /\ AuthMode[row] \in {"pass", "unknown"}
                                        /\ AuthMode[row] = "pass" => access[row[1]].oauth
    BY DEF AuthMode
  <2>3. \A row \in DOMAIN AuthMode : row \in PreflightRow /\ row[2] = "auth-mode"
    BY <2>2 DEF PreflightRow, Item
  <2>4. \A row \in DOMAIN AuthMode : AuthMode[row] = "pass" => row \in Met(access)
    BY <2>2, <2>3 DEF Met
  <2>5. Met(access)' = Met(access)
    BY <2>1 DEF Met
  <2>6. Side \X {"auth-mode"} \in SUBSET PreflightRow
    BY DEF PreflightRow, Item
  <2>7. AuthMode \in UNION {[asked -> {"pass", "fail", "unknown"}] : asked \in SUBSET PreflightRow}
    BY <2>2, <2>6
  <2>8. probing' \in Report
    BY <2>1, <2>7, MetShape DEF Report
  <2>9. Probed'
    BY <2>1, <2>2, <2>3, <2>4, <2>5, <2>8 DEF Probed
  <2>10. QED
    BY <2>1, <2>8, <2>9, NoReportAssumption DEF PreflightIsTrue
<1>3. CASE Probe
  <2>1. PICK code \in {access[Requests[probing.next][1]].code[Requests[probing.next][2]], 0} :
           probing' = [probing EXCEPT !.rows = Answered(probing.rows, Requests[probing.next],
                                                        Status(Requests[probing.next], code)),
                                      !.next = @ + 1]
    BY <1>3 DEF Probe
  <2>2. /\ cmd.pc = "preflight" /\ probing.next <= Len(Requests) /\ UNCHANGED <<access, shown>>
    BY <1>3 DEF Probe
  <2>3. probing # NoFile /\ probing \in Report
    BY <1>0, <2>2 DEF Probed
  <2>a. /\ probing = [rows |-> probing.rows, next |-> probing.next, ever |-> probing.ever,
                      always |-> probing.always]
        /\ probing.next \in 1 .. 7
    <3>1. PICK report \in Report : report = probing
      BY <2>3
    <3>2. QED
      BY <3>1, ReportShape
  <2>4. probing.next \in 1 .. 6
    BY <2>2, <2>a, RequestList
  <2> DEFINE row == Requests[probing.next]
             rows == Answered(probing.rows, row, Status(row, code))
  <2>5. row \in PreflightRow /\ row[2] # "auth-mode"
    BY <2>4, RequestList
  <2>6. /\ Status(row, code) = "pass" => row \in Met(access)
        /\ Status(row, code) = "fail" => row \notin Met(access) /\ row[2] # "sn-cicd-role"
        /\ Status(row, code) \in {"pass", "fail", "unknown"}
    BY <2>1, <2>5, StatusIsTrue, StatusShape
  <2>7. /\ DOMAIN rows = DOMAIN probing.rows \cup {row} /\ rows[row] = Status(row, code)
        /\ \A r \in DOMAIN probing.rows : r # row => rows[r] = probing.rows[r]
        /\ rows = [r \in DOMAIN rows |-> rows[r]]
    BY Joined DEF Answered
  <2>8. probing' = [rows |-> rows, next |-> probing.next + 1, ever |-> probing.ever,
                    always |-> probing.always]
    BY <2>1, <2>a
  <2> HIDE DEF rows
  <2>9. probing' \in Report
    <3>1. DOMAIN rows \in SUBSET PreflightRow
      BY <2>3, <2>5, <2>7, ReportShape
    <3>2. rows \in [DOMAIN rows -> {"pass", "fail", "unknown"}]
      BY <2>3, <2>6, <2>7, ReportShape
    <3>3. rows \in UNION {[asked -> {"pass", "fail", "unknown"}] : asked \in SUBSET PreflightRow}
      BY <3>1, <3>2
    <3>4. probing.next + 1 \in 1 .. 7
      BY <2>4
    <3>5. QED
      BY <2>3, <2>8, <3>3, <3>4, ReportShape DEF Report
  <2>10. Met(access)' = Met(access)
    BY <2>2 DEF Met
  <2>11. \A i \in 1 .. 6 : i < probing.next + 1 => Requests[i] \in DOMAIN rows
    BY <1>0, <2>3, <2>4, <2>7 DEF Probed
  <2>12. \A r \in DOMAIN rows :
           /\ rows[r] = "pass" => r \in probing.ever
           /\ rows[r] = "fail" => r \notin probing.always /\ r[2] \notin {"sn-cicd-role", "auth-mode"}
    BY <1>0, <2>3, <2>5, <2>6, <2>7 DEF Probed
  <2>13. Probed'
    BY <1>0, <2>3, <2>7, <2>8, <2>9, <2>10, <2>11, <2>12 DEF Probed
  <2>14. PreflightIsTrue'
    BY <1>0, <2>2 DEF PreflightIsTrue
  <2>15. QED
    BY <2>9, <2>13, <2>14, NoReportAssumption
<1>4. CASE ShowPreflight
  <2>1. /\ cmd.pc = "preflight" /\ probing.next > Len(Requests) /\ cmd' = Idle
        /\ shown' = probing /\ UNCHANGED <<access, probing>>
    BY <1>4 DEF ShowPreflight
  <2>2. probing # NoFile /\ probing \in Report /\ probing.next > 6
    BY <1>0, <2>1, RequestList DEF Probed
  <2>a. probing.next \in 1 .. 7
    <3>1. PICK report \in Report : report = probing
      BY <2>2
    <3>2. QED
      BY <3>1, ReportShape
  <2>3. \A i \in 1 .. 6 : Requests[i] \in DOMAIN probing.rows
    BY <1>0, <2>2, <2>a DEF Probed
  <2>4. \A row \in PreflightRow : row \in DOMAIN probing.rows
    <3>1. \A row \in PreflightRow : row[2] = "auth-mode" => \E s \in Side : row = <<s, "auth-mode">>
      BY DEF PreflightRow
    <3>2. QED
      BY <1>0, <2>2, <2>3, <3>1, RequestList DEF Probed
  <2>5. PreflightIsTrue'
    BY <1>0, <2>1, <2>2, <2>4 DEF Probed, PreflightIsTrue
  <2>6. Probed'
    BY <1>0, <2>1 DEF Probed, Met
  <2>7. QED
    BY <2>1, <2>2, <2>5, <2>6
<1>5. ASSUME NEW s \in Side, NEW item \in Item, NEW code \in {200, 403, 404}, Regrant(s, item, code)
      PROVE  Probed' /\ PreflightIsTrue' /\ (cmd'.pc = "preflight" => probing' # NoFile)
  <2>1. /\ probing' = IF probing = NoFile THEN NoFile
                      ELSE [probing EXCEPT !.ever = @ \cup Met(access'), !.always = @ \cap Met(access')]
        /\ shown' = shown /\ cmd' = cmd
    BY <1>5 DEF Regrant, vars
  <2>2. PreflightIsTrue'
    BY <1>0, <2>1 DEF PreflightIsTrue
  <2>3. CASE probing = NoFile
    BY <1>0, <2>1, <2>2, <2>3 DEF Probed
  <2>4. CASE probing # NoFile
    <3>1. probing \in Report
      BY <1>0, <2>4 DEF Probed
    <3>2. Met(access)' = Met(access') /\ Met(access') \subseteq PreflightRow
      BY DEF Met
    <3>a. probing = [rows |-> probing.rows, next |-> probing.next, ever |-> probing.ever,
                     always |-> probing.always]
      <4>1. PICK report \in Report : report = probing
        BY <3>1
      <4>2. QED
        BY <4>1, ReportShape
    <3>3. probing' = [rows |-> probing.rows, next |-> probing.next,
                      ever |-> probing.ever \cup Met(access'), always |-> probing.always \cap Met(access')]
      BY ZenonT(60), <2>1, <2>4, <3>a
    <3>4. probing' \in Report
      BY <3>1, <3>2, <3>3, ReportShape DEF Report
    <3>5. Probed'
      BY <1>0, <2>4, <3>2, <3>3, <3>4 DEF Probed
    <3>6. QED
      BY <2>2, <3>4, <3>5, NoReportAssumption
  <2>5. QED
    BY <2>3, <2>4
<1>6. QED
  BY <1>1, <1>2, <1>3, <1>4, <1>5 DEF PreNext

-----------------------------------------------------------------------------
LEMMA PreInitInv == PreInit => PreIInv
<1> SUFFICES ASSUME PreInit PROVE PreIInv
  OBVIOUS
<1>1. PICK world \in Worlds : InitFrom(world)
  BY DEF PreInit
<1>2. IInv /\ cmd.pc = "idle"
  BY <1>1, InitIInv
<1>3. QED
  BY <1>2 DEF PreInit, PreIInv, Probed, PreflightIsTrue

LEMMA PreNextInv == PreIInv /\ [PreNext]_preVars => PreIInv'
<1>1. CASE PreIInv /\ UNCHANGED preVars
  <2>1. UNCHANGED vars /\ UNCHANGED <<access, probing, shown>>
    BY <1>1 DEF preVars
  <2>2. IInv'
    BY <1>1, <2>1, NextIInv DEF PreIInv, Step
  <2>3. Probed' /\ PreflightIsTrue' /\ (cmd'.pc = "preflight" => probing' # NoFile)
    BY <1>1, <2>1 DEF PreIInv, Probed, PreflightIsTrue, Met, vars
  <2>4. QED
    BY <2>2, <2>3 DEF PreIInv
<1>2. CASE PreIInv /\ PreNext
  <2>1. Step
    <3>1. CASE BeginPreflight
      BY <3>1 DEF BeginPreflight, Turn, Step
    <3>2. CASE ShowPreflight
      BY <3>2 DEF ShowPreflight, Turn, Step
    <3>3. CASE Probe
      BY <3>3 DEF Probe, Step
    <3>4. CASE \E s \in Side, item \in Item, code \in {200, 403, 404} : Regrant(s, item, code)
      BY <3>4 DEF Regrant, Step
    <3>5. CASE Next
      BY <3>5 DEF Step
    <3>6. QED
      BY <1>2, <3>1, <3>2, <3>3, <3>4, <3>5 DEF PreNext
  <2>2. IInv'
    BY <1>2, <2>1, NextIInv DEF PreIInv
  <2>3. QED
    BY <1>2, <2>2, ProbedStep DEF PreIInv
<1>3. QED
  BY <1>1, <1>2

(* The invariant holds in every state of every behaviour of the commands, *)
(* the preflight, the humans and the others on the instances.              *)
THEOREM Inductive == PreSpec => []PreIInv
  BY PreInitInv, PreNextInv, PTL DEF PreSpec

(* Type correctness.                                                       *)
THEOREM TypeCorrect == PreSpec => []TypeOK
<1>1. PreIInv => TypeOK
  BY DEF PreIInv, IInv
<1>2. QED
  BY <1>1, Inductive, PTL

(* A recheck that reports no drift is right, whatever the tables hold and  *)
(* however they change, about every customer-updated artifact outside the  *)
(* vendors' scopes; and a row of a preflight is right about its instance at *)
(* some moment (recheck.py, compute_drift; preflight.py, run_preflight).   *)
THEOREM ChecksTell == PreSpec => []ChecksAreTrue
<1>1. PreIInv => ChecksAreTrue
  BY DEF PreIInv, IInv, ChecksAreTrue
<1>2. QED
  BY <1>1, Inductive, PTL

(* Wherever a command dies and whatever a human marks, the runbook beside a *)
(* plan is of that plan or an earlier one and shows only marks that were    *)
(* made for its plan; it shows the plan of the file as free of blockers     *)
(* only when a waiver was given or nothing is stranded (runbook.py).        *)
THEOREM RunbooksAreHonest == PreSpec => []RunbookIsHonest
<1>1. PreIInv => RunbookIsHonest
  BY DEF PreIInv, IInv
<1>2. QED
  BY <1>1, Inductive, PTL
=============================================================================
