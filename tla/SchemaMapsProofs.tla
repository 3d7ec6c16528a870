---- MODULE SchemaMapsProofs ----
(***************************************************************************)
(* What SchemaMaps keeps true for every set of tables and syncs, all       *)
(* dictionaries, catalogs, requests and bounds, with machine-checked       *)
(* proofs. Syncs and maps share only the cached catalog: each has an       *)
(* inductive invariant of its own.                                         *)
(***************************************************************************)
EXTENDS SchemaMaps, TLAPS

(***************************************************************************)
(* The syncs                                                               *)
(***************************************************************************)
SyncPlaces ==
    {"start", "fetch manifest", "save manifest", "rename manifest",
     "fetch catalog", "save catalog", "rename catalog"} \cup SyncEnds

SyncRecord == [at : SyncPlaces, wire : Nat, wrote : SUBSET Caches]

SyncTypes ==
    /\ config \in RepoNames
    /\ github \in [Caches -> Nat \ {0}]
    /\ 0..github["catalog"] \subseteq DOMAIN Catalogs
    /\ sync \in [Syncs -> SyncRecord]
    /\ temps \subseteq Syncs
    /\ history \in [overlap : BOOLEAN, newest : [Caches -> Nat]]

Active(me) == me.at \notin SyncEnds \cup {"start"}

\* what a sync has fetched was published, and nothing newer was saved since it began
Carries(me, f) ==
    me.wire \in 1..github[f] /\ (~history.overlap => history.newest[f] <= me.wire)

SyncOK(me) ==
    /\ me.at \in {"save manifest", "rename manifest"} => Carries(me, "manifest")
    /\ me.at \in {"save catalog", "rename catalog"} => Carries(me, "catalog")
    /\ Active(me) => config \notin {"none", "url"}
    /\ me.at \in {"save manifest", "rename manifest", "fetch catalog"} => config # "broken"
    /\ me.at = "raised" => me.wrote = {} \/ config = "tabbed"
    /\ me.at \in {"refused", "failed", "start", "fetch manifest", "save manifest",
                  "rename manifest"} => me.wrote = {}
    /\ me.at \in {"fetch catalog", "save catalog", "rename catalog", "done"} =>
         "manifest" \in me.wrote

HoldsTemp(me) == me.at \in {"rename manifest", "rename catalog", "killed"}

SyncsInv ==
    /\ SyncTypes
    /\ Synced(manifest, "manifest") /\ Synced(catalog, "catalog")
    /\ manifest \notin {Absent, Torn} => manifest.repo = "slug"
    /\ \A f \in Caches : history.newest[f] <= github[f]
    /\ \A s \in temps : HoldsTemp(sync[s])
    /\ \A s \in Syncs : SyncOK(sync[s])
    /\ ~history.overlap =>
         \A s, r \in Syncs : s # r => ~(Active(sync[s]) /\ Active(sync[r]))

\* Nothing that a sync leaves to others changes it.
LEMMA SyncsStay ==
    ASSUME SyncsInv, UNCHANGED <<config, syncVars, history>>
    PROVE  SyncsInv'
  BY DEF SyncsInv, SyncTypes, Synced, SyncOK, Carries, Active, HoldsTemp, syncVars

\* A sync goes on to new, and has not replaced a file.
LEMMA SyncTurns ==
    ASSUME SyncsInv, NEW s \in Syncs, NEW new \in SyncRecord, SyncBecomes(s, new),
           SyncOK(new), Active(new) => Active(sync[s]),
           temps' \in {temps, temps \ {s}, temps \cup {s}}, s \in temps' => HoldsTemp(new),
           UNCHANGED <<config, github, manifest, catalog, history>>
    PROVE  SyncsInv'
<1>1. /\ sync' \in [Syncs -> SyncRecord] /\ sync'[s] = new
      /\ \A r \in Syncs \ {s} : sync'[r] = sync[r]
      BY DEF SyncBecomes, SyncsInv, SyncTypes
<1>2. SyncTypes' /\ Synced(manifest, "manifest")' /\ Synced(catalog, "catalog")'
      BY <1>1 DEF SyncsInv, SyncTypes, Synced
<1>3. /\ (manifest \notin {Absent, Torn} => manifest.repo = "slug")'
      /\ (\A f \in Caches : history.newest[f] <= github[f])'
      BY DEF SyncsInv
<1>4. (\A r \in temps : HoldsTemp(sync[r]))'
  <2> SUFFICES ASSUME NEW r \in temps'
               PROVE  HoldsTemp(sync'[r])
      BY DEF HoldsTemp
  <2>1. CASE r = s
        BY <1>1, <2>1
  <2>2. CASE r # s
        BY <1>1, <2>2 DEF SyncsInv, SyncTypes, HoldsTemp
  <2> QED BY <2>1, <2>2
<1>5. ASSUME NEW r \in Syncs
      PROVE  SyncOK(sync[r])'
  <2>1. CASE r = s
        BY <1>1, <2>1 DEF SyncOK, Carries, Active
  <2>2. CASE r # s
        BY <1>1, <2>2 DEF SyncsInv, SyncOK, Carries, Active
  <2> QED BY <2>1, <2>2
<1>6. (~history.overlap =>
         \A q, r \in Syncs : q # r => ~(Active(sync[q]) /\ Active(sync[r])))'
  <2> SUFFICES ASSUME ~history.overlap, NEW q \in Syncs, NEW r \in Syncs, q # r
               PROVE  ~(Active(sync'[q]) /\ Active(sync'[r]))
      BY DEF Active
  <2>1. Active(sync'[q]) => Active(sync[q])
        BY <1>1 DEF Active
  <2>2. Active(sync'[r]) => Active(sync[r])
        BY <1>1 DEF Active
  <2> QED BY <2>1, <2>2 DEF SyncsInv
<1> QED BY <1>2, <1>3, <1>4, <1>5, <1>6 DEF SyncsInv

\* The configured name is looked at; a sync that begins beside another overlaps.
LEMMA BeginSyncKeeps ==
    ASSUME SyncsInv, NEW s \in Syncs, BeginSync(s)
    PROVE  SyncsInv'
<1> DEFINE new == [sync[s] EXCEPT !.at = IF config \in {"none", "url"} THEN "refused"
                                         ELSE "fetch manifest"]
<1>1. /\ sync[s] \in SyncRecord /\ sync[s].at = "start" /\ sync[s].wrote = {}
      BY DEF SyncsInv, SyncTypes, BeginSync, SyncAt, SyncOK
<1>2. /\ new \in SyncRecord /\ new.wrote = {}
      /\ new.at = IF config \in {"none", "url"} THEN "refused" ELSE "fetch manifest"
      BY <1>1 DEF SyncRecord, SyncPlaces, SyncEnds
<1>3. /\ sync' = [sync EXCEPT ![s] = new]
      /\ UNCHANGED config /\ UNCHANGED github /\ UNCHANGED manifest
      /\ UNCHANGED catalog /\ UNCHANGED temps
      BY DEF BeginSync, SyncGoto, SyncBecomes
<1> HIDE DEF new
<1>4. /\ sync' \in [Syncs -> SyncRecord] /\ sync'[s] = new
      /\ \A r \in Syncs \ {s} : sync'[r] = sync[r]
      BY <1>2, <1>3 DEF SyncsInv, SyncTypes
<1>5. /\ history' \in [overlap : BOOLEAN, newest : [Caches -> Nat]]
      /\ history'.newest = history.newest
      /\ history'.overlap = (history.overlap \/ Overlapping(s))
      BY DEF BeginSync, SyncsInv, SyncTypes
<1>6. SyncTypes' /\ Synced(manifest, "manifest")' /\ Synced(catalog, "catalog")'
      BY <1>3, <1>4, <1>5 DEF SyncsInv, SyncTypes, Synced
<1>7. /\ (manifest \notin {Absent, Torn} => manifest.repo = "slug")'
      /\ (\A f \in Caches : history.newest[f] <= github[f])'
      BY <1>3, <1>5 DEF SyncsInv
<1>8. (\A r \in temps : HoldsTemp(sync[r]))'
      BY <1>1, <1>3, <1>4 DEF SyncsInv, SyncTypes, HoldsTemp
<1>9. ASSUME NEW r \in Syncs
      PROVE  SyncOK(sync[r])'
  <2>1. CASE r = s
        BY <1>2, <1>3, <1>4, <2>1 DEF SyncOK, Active, SyncEnds, SyncsInv, SyncTypes
  <2>2. CASE r # s
        BY <1>3, <1>4, <1>5, <2>2 DEF SyncsInv, SyncOK, Carries, Active
  <2> QED BY <2>1, <2>2
<1>10. (~history.overlap =>
         \A q, r \in Syncs : q # r => ~(Active(sync[q]) /\ Active(sync[r])))'
  <2> SUFFICES ASSUME ~history'.overlap, NEW q \in Syncs, NEW r \in Syncs, q # r
               PROVE  ~(Active(sync'[q]) /\ Active(sync'[r]))
      BY DEF Active
  <2>1. \A w \in Syncs \ {s} : ~Active(sync[w])
        BY <1>5 DEF Overlapping, Active
  <2> QED BY <1>4, <2>1
<1> QED BY <1>6, <1>7, <1>8, <1>9, <1>10 DEF SyncsInv

\* The greater of two versions, when what is saved is never older.
LEMMA NewerIs ==
    ASSUME NEW old \in Nat, NEW top \in Nat, NEW wire \in 1..top, old <= top,
           NEW new, new = IF old < wire THEN wire ELSE old
    PROVE  new <= top /\ (old <= wire => new = wire)
  OBVIOUS

\* A renamed file is whole.
LEMMA CopyIsWhole ==
    ASSUME NEW version, NEW repo, NEW file, file = [version |-> version, repo |-> repo]
    PROVE  file.version = version /\ file.repo = repo /\ file # Torn /\ file # Absent
<1>1. "repo" \in DOMAIN file /\ "repo" \notin DOMAIN Torn /\ "repo" \notin DOMAIN Absent
      BY DEF Torn, Absent
<1> QED BY <1>1

\* A rename: the file holds what was fetched, which is the newest unless syncs overlapped.
LEMMA RenamedKeeps ==
    ASSUME SyncsInv, NEW s \in Syncs, NEW file \in Caches, NEW next \in SyncPlaces,
           Renamed(s, file, next),
           \/ /\ file = "manifest" /\ sync[s].at = "rename manifest" /\ next = "fetch catalog"
              /\ manifest' = [version |-> sync[s].wire, repo |-> Canonical(config)]
              /\ UNCHANGED catalog
           \/ /\ file = "catalog" /\ sync[s].at = "rename catalog" /\ next = "done"
              /\ catalog' = [version |-> sync[s].wire, repo |-> config]
              /\ UNCHANGED manifest
    PROVE  SyncsInv'
<1> DEFINE new == [sync[s] EXCEPT !.at = next, !.wrote = @ \cup {file}]
<1>1. /\ sync[s] \in SyncRecord /\ SyncOK(sync[s]) /\ Active(sync[s])
      /\ Carries(sync[s], file)
      BY DEF SyncsInv, SyncTypes, SyncOK, Active, SyncEnds
<1>2. /\ new \in SyncRecord /\ new.wrote = sync[s].wrote \cup {file} /\ new.at = next
      BY <1>1 DEF SyncRecord
<1>3. /\ sync' = [sync EXCEPT ![s] = new]
      /\ UNCHANGED config /\ UNCHANGED github /\ temps' = temps \ {s}
      /\ history' = [history EXCEPT !.newest = Newest(history.newest, file, sync[s].wire)]
      BY DEF Renamed, SyncBecomes
<1> HIDE DEF new
<1>4. /\ sync' \in [Syncs -> SyncRecord] /\ sync'[s] = new
      /\ \A r \in Syncs \ {s} : sync'[r] = sync[r]
      BY <1>2, <1>3 DEF SyncsInv, SyncTypes
<1>5. /\ history' \in [overlap : BOOLEAN, newest : [Caches -> Nat]]
      /\ history'.overlap = history.overlap
      /\ \A f \in Caches : f # file => history'.newest[f] = history.newest[f]
      /\ history'.newest[file] = IF history.newest[file] < sync[s].wire THEN sync[s].wire
                                 ELSE history.newest[file]
      BY <1>1, <1>3 DEF Newest, SyncsInv, SyncTypes, SyncRecord
<1>6. /\ sync[s].wire \in 1..github[file]
      /\ ~history.overlap => history'.newest[file] = sync[s].wire
      /\ history'.newest[file] <= github[file]
  <2>1. /\ github[file] \in Nat /\ history.newest[file] \in Nat
        /\ history.newest[file] <= github[file]
        BY DEF SyncsInv, SyncTypes
  <2>2. /\ sync[s].wire \in 1..github[file]
        /\ ~history.overlap => history.newest[file] <= sync[s].wire
        BY <1>1 DEF Carries
  <2> DEFINE old == history.newest[file]
             top == github[file]
             wire == sync[s].wire
             newer == history'.newest[file]
  <2>3. newer = IF old < wire THEN wire ELSE old
        BY <1>5
  <2>4. old \in Nat /\ top \in Nat /\ wire \in 1..top /\ old <= top
        BY <2>1, <2>2
  <2>5. ~history.overlap => old <= wire
        BY <2>2
  <2> HIDE DEF old, top, wire, newer
  <2>6. newer <= top /\ (old <= wire => newer = wire)
        BY <2>3, <2>4, NewerIs
  <2> QED BY <2>4, <2>5, <2>6 DEF old, top, wire, newer
<1>7. SyncTypes'
      BY <1>3, <1>4, <1>5 DEF SyncsInv, SyncTypes
<1>8. Synced(manifest, "manifest")' /\ Synced(catalog, "catalog")'
  <2>1. CASE file = "manifest"
    <3>1. manifest' = [version |-> sync[s].wire, repo |-> Canonical(config)]
          BY <2>1
    <3>2. manifest'.version = sync[s].wire /\ manifest' # Torn
          BY <3>1, CopyIsWhole
    <3>3. Synced(manifest, "manifest")'
          BY <1>3, <1>5, <1>6, <2>1, <3>2 DEF Synced
    <3>4. Synced(catalog, "catalog")'
          BY <1>3, <1>5, <2>1 DEF Synced, SyncsInv, Caches
    <3> QED BY <3>3, <3>4
  <2>2. CASE file = "catalog"
    <3>1. catalog' = [version |-> sync[s].wire, repo |-> config]
          BY <2>2
    <3>2. catalog'.version = sync[s].wire /\ catalog' # Torn
          BY <3>1, CopyIsWhole
    <3>3. Synced(catalog, "catalog")'
          BY <1>3, <1>5, <1>6, <2>2, <3>2 DEF Synced
    <3>4. Synced(manifest, "manifest")'
          BY <1>3, <1>5, <2>2 DEF Synced, SyncsInv, Caches
    <3> QED BY <3>3, <3>4
  <2> QED BY <2>1, <2>2 DEF Caches
<1>9. (manifest \notin {Absent, Torn} => manifest.repo = "slug")'
  <2>1. CASE file = "catalog"
        BY <2>1 DEF SyncsInv
  <2>2. CASE file = "manifest"
    <3>1. manifest' = [version |-> sync[s].wire, repo |-> Canonical(config)]
          BY <2>2
    <3>2. manifest'.repo = Canonical(config)
          BY <3>1, CopyIsWhole
    <3>3. config \in {"slug", "padded", "tabbed"}
          BY <1>1, <2>2 DEF SyncOK, SyncsInv, SyncTypes, RepoNames
    <3>4. Canonical(config) = "slug"
          BY <3>3 DEF Canonical
    <3> QED BY <3>2, <3>4
  <2> QED BY <2>1, <2>2 DEF Caches
<1>10. ASSUME NEW f \in Caches
       PROVE  (history.newest[f] <= github[f])'
  <2>1. CASE f = file
        BY <1>3, <1>6, <2>1
  <2>2. CASE f # file
        BY <1>3, <1>5, <2>2 DEF SyncsInv
  <2> QED BY <2>1, <2>2
<1>11. (\A r \in temps : HoldsTemp(sync[r]))'
       BY <1>3, <1>4 DEF SyncsInv, SyncTypes, HoldsTemp
<1>12. ASSUME NEW r \in Syncs
       PROVE  SyncOK(sync[r])'
  <2>1. CASE r = s
        BY <1>1, <1>2, <1>3, <1>4, <2>1 DEF SyncOK, Active
  <2>2. CASE r # s
    <3>1. sync'[r] = sync[r] /\ SyncOK(sync[r])
          BY <1>4, <2>2 DEF SyncsInv
    <3>2. ~history.overlap => ~Active(sync[r])
          BY <1>1, <2>2 DEF SyncsInv
    <3>3. ASSUME NEW f \in Caches, Active(sync[r]), Carries(sync[r], f)
          PROVE  Carries(sync[r], f)'
          BY <1>3, <1>5, <3>1, <3>2, <3>3 DEF Carries
    <3> QED BY <1>3, <3>1, <3>3 DEF SyncOK, Active, Caches, SyncEnds
  <2> QED BY <2>1, <2>2
<1>13. (~history.overlap =>
          \A q, r \in Syncs : q # r => ~(Active(sync[q]) /\ Active(sync[r])))'
  <2> SUFFICES ASSUME ~history.overlap, NEW q \in Syncs, NEW r \in Syncs, q # r
               PROVE  ~(Active(sync'[q]) /\ Active(sync'[r]))
      BY <1>5 DEF Active
  <2> QED BY <1>1, <1>4 DEF SyncsInv
<1> QED BY <1>7, <1>8, <1>9, <1>10, <1>11, <1>12, <1>13 DEF SyncsInv

\* What is published only gets newer.
LEMMA PublishKeeps ==
    ASSUME SyncsInv, Publish
    PROVE  SyncsInv'
<1>1. PICK f \in Caches :
        /\ f = "catalog" => github["catalog"] + 1 \in DOMAIN Catalogs
        /\ github' = [github EXCEPT ![f] = @ + 1]
      BY DEF Publish
<1>2. /\ UNCHANGED config /\ UNCHANGED manifest /\ UNCHANGED catalog /\ UNCHANGED temps
      /\ UNCHANGED sync /\ UNCHANGED history
      BY DEF Publish
<1>3. /\ github' \in [Caches -> Nat \ {0}]
      /\ \A g \in Caches : github[g] \in Nat /\ github[g] <= github'[g]
      BY <1>1 DEF SyncsInv, SyncTypes
<1>4. 0..github'["catalog"] \subseteq DOMAIN Catalogs
      BY <1>1 DEF SyncsInv, SyncTypes, Caches
<1>5. SyncTypes'
      BY <1>2, <1>3, <1>4 DEF SyncsInv, SyncTypes
<1>6. Synced(manifest, "manifest")' /\ Synced(catalog, "catalog")'
      BY <1>2, <1>3 DEF SyncsInv, Synced, Caches
<1>7. ASSUME NEW g \in Caches
      PROVE  (history.newest[g] <= github[g])'
      BY <1>2, <1>3 DEF SyncsInv, SyncTypes
<1>8. ASSUME NEW s \in Syncs
      PROVE  SyncOK(sync[s])'
  <2>1. SyncOK(sync[s])
        BY DEF SyncsInv
  <2>2. ASSUME NEW g \in Caches, Carries(sync[s], g)
        PROVE  Carries(sync[s], g)'
    <3>1. github[g] \in Nat /\ github'[g] \in Nat /\ github[g] <= github'[g]
          BY <1>3
    <3>2. sync[s].wire \in 1..github'[g]
          BY <2>2, <3>1 DEF Carries
    <3> QED BY <1>2, <2>2, <3>2 DEF Carries
  <2> QED BY <1>2, <2>1, <2>2 DEF SyncOK, Active, Caches
<1> QED BY <1>2, <1>5, <1>6, <1>7, <1>8 DEF SyncsInv, HoldsTemp, Active

\* A step of a sync that replaces no file.
LEMMA FetchFileKeeps ==
    ASSUME SyncsInv, NEW s \in Syncs, FetchManifest(s) \/ FetchCatalog(s)
    PROVE  SyncsInv'
<1>1. /\ sync[s] \in SyncRecord /\ SyncOK(sync[s])
      /\ github \in [Caches -> Nat \ {0}] /\ history.newest \in [Caches -> Nat]
      /\ \A f \in Caches : history.newest[f] <= github[f]
      /\ s \notin temps \/ HoldsTemp(sync[s])
      /\ config \in RepoNames
      BY DEF SyncsInv, SyncTypes
<1>2. UNCHANGED <<config, github, manifest, catalog, history>> /\ temps' = temps
      BY DEF FetchManifest, FetchCatalog, FetchFile
<1>3. ASSUME NEW f \in Caches
      PROVE  github[f] \in Nat /\ github[f] \in 1..github[f] /\ history.newest[f] <= github[f]
      BY <1>1
<1>4. CASE FetchManifest(s)
  <2>1. sync[s].at = "fetch manifest" /\ s \notin temps
        BY <1>1, <1>4 DEF FetchManifest, FetchFile, SyncAt, HoldsTemp
  <2>2. CASE /\ Canonical(config) \notin Unfetchable
             /\ SyncBecomes(s, [sync[s] EXCEPT !.at = "save manifest", !.wire = github["manifest"]])
    <3> DEFINE new == [sync[s] EXCEPT !.at = "save manifest", !.wire = github["manifest"]]
    <3>1. /\ new \in SyncRecord /\ new.at = "save manifest" /\ new.wire = github["manifest"]
          /\ new.wrote = sync[s].wrote
          BY <1>1, <1>3 DEF SyncRecord, SyncPlaces, Caches
    <3> HIDE DEF new
    <3>2. config # "broken"
          BY <2>2 DEF Canonical, Unfetchable
    <3>3. SyncOK(new) /\ Active(sync[s])
          BY <1>1, <1>3, <2>1, <3>1, <3>2 DEF SyncOK, Carries, Active, SyncEnds, Caches
    <3> QED BY <1>2, <2>1, <2>2, <3>1, <3>3, SyncTurns DEF new
  <2>3. CASE \E place \in {"failed", "raised"} : SyncGoto(s, place)
    <3>1. PICK place \in {"failed", "raised"} : SyncGoto(s, place)
          BY <2>3
    <3> DEFINE new == [sync[s] EXCEPT !.at = place]
    <3>2. new \in SyncRecord /\ new.at = place /\ new.wrote = sync[s].wrote
          BY <1>1 DEF SyncRecord, SyncPlaces, SyncEnds
    <3> HIDE DEF new
    <3>3. SyncOK(new) /\ ~Active(new)
          BY <1>1, <2>1, <3>2 DEF SyncOK, Active, SyncEnds
    <3> QED BY <1>2, <2>1, <3>1, <3>2, <3>3, SyncTurns DEF new, SyncGoto
  <2> QED BY <1>4, <2>2, <2>3 DEF FetchManifest, FetchFile
<1>5. CASE FetchCatalog(s)
  <2>1. sync[s].at = "fetch catalog" /\ s \notin temps
        BY <1>1, <1>5 DEF FetchCatalog, FetchFile, SyncAt, HoldsTemp
  <2>2. CASE SyncBecomes(s, [sync[s] EXCEPT !.at = "save catalog", !.wire = github["catalog"]])
    <3> DEFINE new == [sync[s] EXCEPT !.at = "save catalog", !.wire = github["catalog"]]
    <3>1. /\ new \in SyncRecord /\ new.at = "save catalog" /\ new.wire = github["catalog"]
          /\ new.wrote = sync[s].wrote
          BY <1>1, <1>3 DEF SyncRecord, SyncPlaces, Caches
    <3> HIDE DEF new
    <3>2. SyncOK(new) /\ Active(sync[s])
          BY <1>1, <1>3, <2>1, <3>1 DEF SyncOK, Carries, Active, SyncEnds, Caches
    <3> QED BY <1>2, <2>1, <2>2, <3>1, <3>2, SyncTurns DEF new
  <2>3. CASE \/ SyncGoto(s, "done")
             \/ SyncGoto(s, "raised") /\ config \in Unfetchable
    <3>1. PICK place \in {"done", "raised"} :
            SyncGoto(s, place) /\ (place = "raised" => config \in Unfetchable)
          BY <2>3
    <3> DEFINE new == [sync[s] EXCEPT !.at = place]
    <3>2. new \in SyncRecord /\ new.at = place /\ new.wrote = sync[s].wrote
          BY <1>1 DEF SyncRecord, SyncPlaces, SyncEnds
    <3> HIDE DEF new
    <3>3. SyncOK(new) /\ ~Active(new)
          BY <1>1, <2>1, <3>1, <3>2 DEF SyncOK, Active, SyncEnds, Unfetchable
    <3> QED BY <1>2, <2>1, <3>1, <3>2, <3>3, SyncTurns DEF new, SyncGoto
  <2> QED BY <1>5, <2>2, <2>3 DEF FetchCatalog, FetchFile
<1> QED BY <1>4, <1>5

\* A place from which a sync goes on to another, as it is.
Onward ==
    {<<"save manifest", "rename manifest">>, <<"save catalog", "rename catalog">>,
     <<"save manifest", "failed">>, <<"rename manifest", "failed">>,
     <<"save catalog", "done">>, <<"rename catalog", "done">>}
        \cup {<<at, "killed">> : at \in SyncPlaces \ (SyncEnds \cup {"start"})}

\* A sync that moves on keeps what is known of it.
LEMMA OnwardKeeps ==
    ASSUME SyncsInv, NEW s \in Syncs, NEW place \in SyncPlaces,
           <<sync[s].at, place>> \in Onward, SyncGoto(s, place),
           temps' \in {temps, temps \ {s}, temps \cup {s}},
           s \in temps' => place \in {"rename manifest", "rename catalog", "killed"},
           UNCHANGED <<config, github, manifest, catalog, history>>
    PROVE  SyncsInv'
<1> DEFINE new == [sync[s] EXCEPT !.at = place]
<1>1. sync[s] \in SyncRecord /\ SyncOK(sync[s])
      BY DEF SyncsInv, SyncTypes
<1>2. /\ new \in SyncRecord /\ new.at = place /\ new.wire = sync[s].wire
      /\ new.wrote = sync[s].wrote
      BY <1>1 DEF SyncRecord
<1>3. Active(sync[s])
      BY DEF Onward, Active, SyncEnds
<1> HIDE DEF new
<1>4. SyncOK(new)
      BY <1>1, <1>2, <1>3 DEF SyncOK, Carries, Active, Onward, SyncEnds
<1> QED BY <1>2, <1>3, <1>4, SyncTurns DEF new, SyncGoto, HoldsTemp

\* The temporary file of a save is written.
LEMMA WriteTempKeeps ==
    ASSUME SyncsInv, NEW s \in Syncs,
           WriteTemp(s, "save manifest", "rename manifest")
             \/ WriteTemp(s, "save catalog", "rename catalog")
    PROVE  SyncsInv'
  BY OnwardKeeps DEF WriteTemp, SyncAt, Onward, SyncPlaces

\* A save that the disk refuses.
LEMMA DiskRefusesKeeps ==
    ASSUME SyncsInv, NEW s \in Syncs,
           DiskRefuses(s, {"save manifest", "rename manifest"}, "failed")
             \/ DiskRefuses(s, {"save catalog", "rename catalog"}, "done")
    PROVE  SyncsInv'
  BY OnwardKeeps DEF DiskRefuses, Onward, SyncPlaces, SyncEnds

\* A sync is killed where it is.
LEMMA KillSyncKeeps ==
    ASSUME SyncsInv, NEW s \in Syncs, KillSync(s)
    PROVE  SyncsInv'
<1>1. sync[s].at \in SyncPlaces
      BY DEF SyncsInv, SyncTypes, SyncRecord
<1> QED BY <1>1, OnwardKeeps DEF KillSync, Onward, SyncPlaces, SyncEnds

\* Every step of a sync, its saves among them.
LEMMA SyncStepKeeps ==
    ASSUME SyncsInv, NEW s \in Syncs, SyncStep(s)
    PROVE  SyncsInv'
<1>1. CASE BeginSync(s)
      BY <1>1, BeginSyncKeeps
<1>2. CASE FetchManifest(s) \/ FetchCatalog(s)
      BY <1>2, FetchFileKeeps
<1>3. CASE SaveManifest(s)
  <2>1. CASE /\ SyncAt(s, "rename manifest")
             /\ manifest' = [version |-> sync[s].wire, repo |-> Canonical(config)]
             /\ Renamed(s, "manifest", "fetch catalog")
             /\ UNCHANGED catalog
        BY <2>1, RenamedKeeps DEF SyncAt, Caches, SyncPlaces
  <2> QED BY <1>3, <2>1, WriteTempKeeps, DiskRefusesKeeps DEF SaveManifest
<1>4. CASE SaveCatalog(s)
  <2>1. CASE /\ SyncAt(s, "rename catalog")
             /\ catalog' = [version |-> sync[s].wire, repo |-> config]
             /\ Renamed(s, "catalog", "done")
             /\ UNCHANGED manifest
        BY <2>1, RenamedKeeps DEF SyncAt, Caches, SyncPlaces, SyncEnds
  <2> QED BY <1>4, <2>1, WriteTempKeeps, DiskRefusesKeeps DEF SaveCatalog
<1> QED BY <1>1, <1>2, <1>3, <1>4 DEF SyncStep

\* No sync has begun.
LEMMA SyncsInvInit ==
    ASSUME Init
    PROVE  SyncsInv
<1>1. PICK w \in Worlds :
        /\ config = w.config
        /\ github = w.github
        /\ manifest = Absent /\ catalog = Absent /\ temps = {}
        /\ sync = [s \in Syncs |-> [at |-> "start", wire |-> 0, wrote |-> {}]]
        /\ history = [overlap |-> FALSE, newest |-> [f \in Caches |-> 0]]
      BY DEF Init
<1>2. SyncTypes
      BY <1>1, WorldsAssumption DEF SyncTypes, SyncRecord, SyncPlaces
<1>3. \A s \in Syncs : SyncOK(sync[s]) /\ ~Active(sync[s])
      BY <1>1 DEF SyncOK, Active
<1>4. \A f \in Caches : history.newest[f] <= github[f]
  <2> SUFFICES ASSUME NEW f \in Caches
               PROVE  history.newest[f] <= github[f]
      OBVIOUS
  <2>1. history.newest[f] = 0 /\ github[f] \in Nat
        BY <1>1, <1>2 DEF SyncTypes
  <2> QED BY <2>1
<1> QED BY <1>1, <1>2, <1>3, <1>4 DEF SyncsInv, Synced

\* The steps of syncs and of GitHub, and those of the command that draws.
LEMMA SyncsInvNext ==
    ASSUME SyncsInv, [Next]_vars
    PROVE  SyncsInv'
<1>1. CASE UNCHANGED vars
      BY <1>1, SyncsStay DEF vars
<1>2. CASE \E s \in Syncs : SyncStep(s) \/ KillSync(s)
      BY <1>2, SyncStepKeeps, KillSyncKeeps
<1>3. CASE Publish
      BY <1>3, PublishKeeps
<1>4. CASE ErdStep \/ KillErd \/ RequestFails \/ Change
  <2>1. UNCHANGED <<config, syncVars, history>>
        BY <1>4 DEF ErdStep, BeginErd, ReadScopes, ReadTables, ReadParents, ReadFields,
             ReadRelationships, BuildGraph, SaveArchive, OpenArchive, WriteErd, RenderImage,
             ErdOnly, KillErd, RequestFails, Change
  <2> QED BY <2>1, SyncsStay
<1> QED BY <1>1, <1>2, <1>3, <1>4 DEF Next

\* Spec => []SyncsAreHonest: whatever fails or is killed, what syncs leave is whole and
\* published, and their exit codes are true.
THEOREM SyncsHonest == Spec => []SyncsAreHonest
<1>1. Init => SyncsInv
      BY SyncsInvInit
<1>2. SyncsInv /\ [Next]_vars => SyncsInv'
      BY SyncsInvNext
<1>3. SyncsInv => SyncsAreHonest
  <2> SUFFICES ASSUME SyncsInv
               PROVE  SyncsAreHonest
      OBVIOUS
  <2>1. CachesArePublished
        BY DEF SyncsInv, CachesArePublished, HoldsTemp
  <2>2. ReportsAreTrue
    <3> SUFFICES ASSUME NEW s \in Syncs, sync[s].at \in {"refused", "failed", "raised", "done"}
                 PROVE  IF ExitCode(s) = 0 THEN "manifest" \in sync[s].wrote
                        ELSE sync[s].wrote = {} \/ (SyncAt(s, "raised") /\ config = "tabbed")
        BY DEF ReportsAreTrue, SyncEnds
    <3>1. SyncOK(sync[s])
          BY DEF SyncsInv
    <3>2. CASE sync[s].at = "done"
          BY <3>1, <3>2 DEF SyncOK, ExitCode, SyncAt
    <3>3. CASE sync[s].at \in {"refused", "failed"}
      <4>1. sync[s].wrote = {} /\ sync[s].at # "done"
            BY <3>1, <3>3 DEF SyncOK
      <4>2. ExitCode(s) = 1
            BY <4>1 DEF ExitCode, SyncAt
      <4> QED BY <4>1, <4>2
    <3>4. CASE sync[s].at = "raised"
          BY <3>1, <3>4 DEF SyncOK, ExitCode, SyncAt
    <3> QED BY <3>2, <3>3, <3>4
  <2> QED BY <2>1, <2>2 DEF SyncsInv, SyncsAreHonest
<1> QED BY <1>1, <1>2, <1>3, PTL DEF Spec

(***************************************************************************)
(* The maps                                                                *)
(***************************************************************************)
ErdFields == {"at", "todo", "req", "version", "area", "read", "graph"}
ReadFieldsOf == {"meta", "parents", "unread", "refs", "columns", "rels", "of"}

\* what a discovery has read of an instance that has not changed
ReadSo(at, read, area, i) ==
    LET inside == DOMAIN read.meta
        keys == area.scopes \cap i.scopes
    IN  /\ \A t \in inside :
             read.meta[t] = [scope |-> i.tables[t].scope, super |-> i.tables[t].super]
        /\ read.parents \subseteq Supers(read.meta)
        /\ at = "tables" =>
             /\ read.unread \subseteq keys
             /\ inside = {t \in Tables : i.tables[t].scope \in keys \ read.unread}
             /\ read.parents = {}
        /\ at # "tables" => inside = InArea(i, area)
        /\ at = "parents" =>
             /\ read.unread \subseteq Supers(read.meta)
             /\ Supers(read.meta) \subseteq inside \cup read.parents \cup read.unread
        /\ at \notin {"tables", "parents"} => Supers(read.meta) \subseteq inside \cup read.parents
        /\ at \in {"tables", "parents"} => read.refs = {} /\ read.columns = {}
        /\ at = "fields" =>
             /\ read.refs = {e \in TrueRefs(i, area) : e[1] \notin read.unread}
             /\ read.columns = {c \in TrueColumns(i, area) : c[1] \notin read.unread}
             /\ read.unread = {} => inside = {}
        /\ at \in {"apply_to", "query_from", "build"} =>
             read.refs = TrueRefs(i, area) /\ read.columns = TrueColumns(i, area)
        /\ at = "apply_to" => \A r \in i.rels : r[1] \in inside \ read.unread => r \in read.rels
        /\ at \in {"query_from", "build"} => \A r \in i.rels : r[1] \in inside => r \in read.rels

\* whatever has changed meanwhile
ReadWhole(at, read) ==
    /\ \A e \in read.refs : e[1] \in DOMAIN read.meta
    /\ at \in {"tables", "parents"} => read.refs = {}
    /\ at = "fields" => read.unread \subseteq DOMAIN read.meta

ReadingOK(at, area, read, i) ==
    /\ DOMAIN read.of = {"sn", "moved"} /\ IsDictionary(read.of.sn)
    /\ ReadWhole(at, read)
    /\ ~read.of.moved => read.of.sn = i /\ ReadSo(at, read, area, i)

Good(graph) == Closed(graph) /\ (~graph.of.moved => TrueOf(graph))

MapsInv ==
    /\ IsDictionary(sn)
    /\ DOMAIN erd = ErdFields /\ DOMAIN erd.read = ReadFieldsOf
    /\ erd.at \in Reading \cup {"scopes"} => erd.area.targets \subseteq Tables
    /\ erd.at = "scopes" => erd.read = NoRead
    /\ erd.at \in Reading => ReadingOK(erd.at, erd.area, erd.read, sn)
    /\ erd.graph = Absent \/ Good(erd.graph)
    /\ erd.at \in {"save", "save text", "write"} => erd.graph # Absent
    /\ archive \in {Absent, Torn} \/ Good(archive)
    /\ doc # Absent => DiagramsPartition

\* Every edge of the graph of what was read leads from a table of the area to one of the map.
LEMMA WholeClosed ==
    ASSUME NEW area, NEW read, \A e \in read.refs : e[1] \in DOMAIN read.meta
    PROVE  Closed(GraphOf(area, read))
<1> DEFINE graph == GraphOf(area, read)
           meta == read.meta
           inhs == {<<t, meta[t].super>> :
                      t \in {t \in DOMAIN meta : meta[t].super \in DOMAIN meta \cup read.parents}}
<1>1. /\ graph.refs = read.refs /\ graph.inhs = inhs /\ DOMAIN graph.scope = DOMAIN meta
      /\ graph.neighbors = ({e[2] : e \in read.refs} \cup {e[2] : e \in inhs}) \ DOMAIN meta
      BY DEF GraphOf
<1>2. \A e \in inhs : e[1] \in DOMAIN meta
      OBVIOUS
<1> HIDE DEF graph, inhs
<1>3. \A e \in read.refs \cup inhs : e[2] \in DOMAIN meta \cup graph.neighbors
      BY <1>1
<1>4. Closed(graph)
      BY <1>1, <1>2, <1>3 DEF Closed
<1> QED BY <1>4 DEF graph

GraphFields == {"area", "scope", "neighbors", "columns", "refs", "inhs", "rels", "cross", "of"}

\* the tables that are left when a graph is narrowed to its targets
Keep(graph) ==
    LET targets == graph.area.targets
        seed == {e[1] : e \in {e \in graph.refs : e[2] \in targets}}
    IN  seed \cup targets \cup {e[2] : e \in {e \in graph.refs : e[1] \in seed}}
          \cup {e[1] : e \in {e \in graph.refs : e[2] \in seed}}

\* What narrowing a graph leaves of each of its parts.
LEMMA BridgeIs ==
    ASSUME NEW graph, DOMAIN graph = GraphFields
    PROVE  LET keep == Keep(graph)
               within == [edges \in {"refs", "inhs", "rels", "cross"} |->
                            {e \in graph[edges] : e[1] \in keep /\ e[2] \in keep}]
               bridge == Bridge(graph)
           IN  /\ bridge.area = graph.area /\ bridge.of = graph.of
               /\ bridge.scope = [t \in DOMAIN graph.scope \cap keep |-> graph.scope[t]]
               /\ bridge.neighbors = graph.neighbors \cap keep
               /\ bridge.columns = {c \in graph.columns : c[1] \in keep}
               /\ bridge.refs = within["refs"] /\ bridge.inhs = within["inhs"]
               /\ bridge.rels = within["rels"] /\ bridge.cross = within["cross"]
  BY DEF Bridge, Keep, GraphFields

\* Narrowing leaves no edge without its ends.
LEMMA BridgeClosed ==
    ASSUME NEW graph, DOMAIN graph = GraphFields, Closed(graph)
    PROVE  Closed(Bridge(graph))
<1> DEFINE keep == Keep(graph)
           bridge == Bridge(graph)
<1>1. /\ DOMAIN bridge.scope = DOMAIN graph.scope \cap keep
      /\ bridge.neighbors = graph.neighbors \cap keep
      /\ bridge.refs = {e \in graph.refs : e[1] \in keep /\ e[2] \in keep}
      /\ bridge.inhs = {e \in graph.inhs : e[1] \in keep /\ e[2] \in keep}
      BY BridgeIs
<1> HIDE DEF keep, bridge
<1>2. Closed(bridge)
      BY <1>1 DEF Closed
<1> QED BY <1>2 DEF bridge

\* The graph of what was read of an instance that did not change is that of its area.
LEMMA WholeIs ==
    ASSUME NEW area, NEW i, IsDictionary(i), NEW read, ReadSo("build", read, area, i)
    PROVE  LET graph == GraphOf(area, read)
               inside == InArea(i, area)
           IN  /\ DOMAIN graph.scope = inside
               /\ \A t \in inside : graph.scope[t] = i.tables[t].scope
               /\ graph.columns = TrueColumns(i, area)
               /\ graph.refs = TrueRefs(i, area)
               /\ graph.inhs = {e \in inside \X Tables : i.tables[e[1]].super = e[2]}
               /\ graph.cross = {e \in graph.refs : i.tables[e[1]].scope # i.tables[e[2]].scope}
               /\ \A r \in i.rels : r[1] \in inside => r \in graph.rels
<1> DEFINE meta == read.meta
           inside == InArea(i, area)
           inhs == {<<t, meta[t].super>> :
                      t \in {t \in DOMAIN meta : meta[t].super \in DOMAIN meta \cup read.parents}}
           graph == GraphOf(area, read)
<1>1. /\ graph.refs = read.refs /\ graph.inhs = inhs /\ graph.rels = read.rels
      /\ graph.columns = read.columns
      /\ graph.scope = [t \in DOMAIN meta |-> meta[t].scope]
      /\ graph.cross = {e \in read.refs : ScopeIn(meta, e[1]) # ScopeIn(meta, e[2])}
      BY DEF GraphOf
<1>2. /\ DOMAIN meta = inside /\ read.refs = TrueRefs(i, area)
      /\ read.columns = TrueColumns(i, area)
      /\ \A t \in inside : meta[t].scope = i.tables[t].scope /\ meta[t].super = i.tables[t].super
      /\ Supers(meta) \subseteq inside \cup read.parents
      /\ read.parents \subseteq Supers(meta)
      /\ \A r \in i.rels : r[1] \in inside => r \in read.rels
  <2>1. /\ DOMAIN meta = inside /\ read.refs = TrueRefs(i, area)
        /\ read.columns = TrueColumns(i, area)
        /\ \A t \in DOMAIN meta :
             meta[t] = [scope |-> i.tables[t].scope, super |-> i.tables[t].super]
        BY DEF ReadSo
  <2>2. Supers(meta) \subseteq DOMAIN meta \cup read.parents /\ read.parents \subseteq Supers(meta)
        BY DEF ReadSo
  <2>3. \A r \in i.rels : r[1] \in DOMAIN meta => r \in read.rels
        BY DEF ReadSo
  <2> HIDE DEF meta
  <2> QED BY <2>1, <2>2, <2>3
<1>3. inside \subseteq Tables
      BY DEF InArea
<1>4. inhs = {e \in inside \X Tables : i.tables[e[1]].super = e[2]}
  <2>1. ASSUME NEW t \in inside
        PROVE  meta[t].super \in inside \cup read.parents <=> i.tables[t].super \in Tables
    <3>1. meta[t].super = i.tables[t].super
          BY <1>2
    <3>2. i.tables[t].super # NoTable => i.tables[t].super \in Tables
          BY <1>3 DEF IsDictionary
    <3>3. i.tables[t].super # NoTable => i.tables[t].super \in inside \cup read.parents
          BY <1>2, <3>1 DEF Supers
    <3>4. NoTable \notin inside \cup read.parents
          BY <1>2, <1>3, NoTableAssumption DEF Supers
    <3> QED BY <3>1, <3>2, <3>3, <3>4, NoTableAssumption
  <2> QED BY <1>2, <2>1
<1>5. {e \in read.refs : ScopeIn(meta, e[1]) # ScopeIn(meta, e[2])}
        = {e \in read.refs : i.tables[e[1]].scope # i.tables[e[2]].scope}
  <2> SUFFICES ASSUME NEW e \in read.refs
               PROVE  ScopeIn(meta, e[1]) # ScopeIn(meta, e[2])
                        <=> i.tables[e[1]].scope # i.tables[e[2]].scope
      OBVIOUS
  <2>1. e[1] \in inside /\ e[2] \in Tables
        BY <1>2 DEF TrueRefs
  <2>2. ScopeIn(meta, e[1]) = i.tables[e[1]].scope
        BY <1>2, <2>1 DEF ScopeIn
  <2>3. i.tables[e[1]].scope \in area.scopes \cap i.scopes /\ i.tables[e[1]].scope # NoScope
        BY <2>1 DEF InArea, IsDictionary
  <2>4. CASE e[2] \in inside
        BY <1>2, <2>2, <2>4 DEF ScopeIn
  <2>5. CASE e[2] \notin inside
    <3>1. ScopeIn(meta, e[2]) = NoScope
          BY <1>2, <2>5 DEF ScopeIn
    <3>2. i.tables[e[2]].scope \notin area.scopes \cap i.scopes
          BY <2>1, <2>5 DEF InArea
    <3> QED BY <2>2, <2>3, <3>1, <3>2
  <2> QED BY <2>4, <2>5
<1> HIDE DEF meta, inhs, graph
<1>6. \A t \in inside : graph.scope[t] = i.tables[t].scope
      BY <1>1, <1>2
<1> QED BY <1>1, <1>2, <1>4, <1>5, <1>6 DEF graph

\* A graph that is not narrowed is true.
LEMMA WholeTrue ==
    ASSUME NEW area, NEW i, IsDictionary(i), NEW read, ReadSo("build", read, area, i),
           read.of.sn = i, area.targets = {}
    PROVE  TrueOf(GraphOf(area, read))
<1> DEFINE graph == GraphOf(area, read)
           inside == InArea(i, area)
<1>1. graph.area = area /\ graph.of.sn = i
      BY DEF GraphOf
<1>2. /\ DOMAIN graph.scope = inside
      /\ \A t \in inside : graph.scope[t] = i.tables[t].scope
      /\ graph.refs = TrueRefs(i, area)
      /\ graph.inhs = {e \in inside \X Tables : i.tables[e[1]].super = e[2]}
      /\ graph.cross = {e \in graph.refs : i.tables[e[1]].scope # i.tables[e[2]].scope}
      /\ \A r \in i.rels : r[1] \in inside => r \in graph.rels
      /\ graph.columns = TrueColumns(i, area)
      BY WholeIs
<1> HIDE DEF graph
<1>3. Near(i, area) = Tables
      BY DEF Near
<1>4. /\ inside \subseteq Tables /\ TrueRefs(i, area) \subseteq Tables \X Tables
      /\ \A c \in TrueColumns(i, area) : c[1] \in Tables
      BY DEF InArea, TrueRefs, TrueColumns
<1>5. /\ inside \cap Tables = inside
      /\ {c \in TrueColumns(i, area) : c[1] \in Tables} = TrueColumns(i, area)
      /\ TrueRefs(i, area) \cap (Tables \X Tables) = TrueRefs(i, area)
      BY <1>4
<1>6. TrueOf(graph)
      BY <1>1, <1>2, <1>3, <1>5 DEF TrueOf
<1> QED BY <1>6 DEF graph

\* What is left of the graph of an area is near its targets.
LEMMA KeepIsNear ==
    ASSUME NEW i, NEW graph, graph.refs = TrueRefs(i, graph.area), graph.area.targets # {}
    PROVE  Keep(graph) = Near(i, graph.area)
<1> DEFINE targets == graph.area.targets
           refs == TrueRefs(i, graph.area)
           seed == {e[1] : e \in {e \in refs : e[2] \in targets}}
           below == {e[2] : e \in {e \in refs : e[1] \in seed}}
           above == {e[1] : e \in {e \in refs : e[2] \in seed}}
<1>1. refs \subseteq Tables \X Tables
      BY DEF TrueRefs
<1>2. Keep(graph) = seed \cup targets \cup below \cup above
      BY DEF Keep
<1> DEFINE Beside(t) == \E m \in Tables, u \in targets :
             <<m, u>> \in refs /\ (t = m \/ <<t, m>> \in refs \/ <<m, t>> \in refs)
<1>3. \A t : t \in Near(i, graph.area) <=> t \in targets \/ (t \in Tables /\ Beside(t))
  <2>1. Near(i, graph.area) = targets \cup {t \in Tables : Beside(t)}
        BY Zenon DEF Near
  <2> HIDE DEF Beside, targets
  <2> QED BY <2>1
<1> HIDE DEF refs, targets
<1>4. \A e \in refs : e = <<e[1], e[2]>> /\ e[1] \in Tables /\ e[2] \in Tables
      BY <1>1
<1>5. \A a, b : <<a, b>> \in refs => a \in Tables /\ b \in Tables
      BY <1>1
<1>6. \A m : m \in seed <=> \E u \in targets : <<m, u>> \in refs
  <2>1. ASSUME NEW m \in seed
        PROVE  \E u \in targets : <<m, u>> \in refs
    <3>1. PICK e \in refs : e[2] \in targets /\ m = e[1]
          OBVIOUS
    <3> QED BY <1>4, <3>1
  <2>2. ASSUME NEW m, NEW u \in targets, <<m, u>> \in refs
        PROVE  m \in seed
        BY <2>2
  <2> QED BY <2>1, <2>2
<1> HIDE DEF seed
<1>7. \A t : t \in below <=> \E m \in seed : <<m, t>> \in refs
  <2>1. ASSUME NEW t \in below
        PROVE  \E m \in seed : <<m, t>> \in refs
    <3>1. PICK e \in refs : e[1] \in seed /\ t = e[2]
          OBVIOUS
    <3> QED BY <1>4, <3>1
  <2>2. ASSUME NEW t, NEW m \in seed, <<m, t>> \in refs
        PROVE  t \in below
        BY <2>2
  <2> QED BY <2>1, <2>2
<1>8. \A t : t \in above <=> \E m \in seed : <<t, m>> \in refs
  <2>1. ASSUME NEW t \in above
        PROVE  \E m \in seed : <<t, m>> \in refs
    <3>1. PICK e \in refs : e[2] \in seed /\ t = e[1]
          OBVIOUS
    <3> QED BY <1>4, <3>1
  <2>2. ASSUME NEW t, NEW m \in seed, <<t, m>> \in refs
        PROVE  t \in above
        BY <2>2
  <2> QED BY <2>1, <2>2
<1> HIDE DEF above, below
<1>9. \A t : t \in Keep(graph) <=> t \in Near(i, graph.area)
  <2>1. ASSUME NEW t \in Keep(graph)
        PROVE  t \in Near(i, graph.area)
        BY <1>2, <1>3, <1>5, <1>6, <1>7, <1>8
  <2>2. ASSUME NEW t \in Near(i, graph.area)
        PROVE  t \in Keep(graph)
        BY <1>2, <1>3, <1>6, <1>7, <1>8
  <2> QED BY <2>1, <2>2
<1> QED BY <1>9

\* A graph that is narrowed is true.
LEMMA BridgeTrue ==
    ASSUME NEW area, NEW i, IsDictionary(i), NEW read, ReadSo("build", read, area, i),
           read.of.sn = i, area.targets # {}, area.targets \subseteq Tables
    PROVE  TrueOf(Bridge(GraphOf(area, read)))
<1> DEFINE graph == GraphOf(area, read)
           inside == InArea(i, area)
           near == Near(i, area)
           bridge == Bridge(graph)
<1>1. graph.area = area /\ graph.of.sn = i /\ DOMAIN graph = GraphFields
      BY DEF GraphOf, GraphFields
<1>2. /\ DOMAIN graph.scope = inside
      /\ \A t \in inside : graph.scope[t] = i.tables[t].scope
      /\ graph.refs = TrueRefs(i, area)
      /\ graph.inhs = {e \in inside \X Tables : i.tables[e[1]].super = e[2]}
      /\ graph.cross = {e \in graph.refs : i.tables[e[1]].scope # i.tables[e[2]].scope}
      /\ \A r \in i.rels : r[1] \in inside => r \in graph.rels
      /\ graph.columns = TrueColumns(i, area)
      BY WholeIs
<1> HIDE DEF graph
<1>3. Keep(graph) = near
  <2>1. graph.refs = TrueRefs(i, graph.area) /\ graph.area.targets # {}
        BY <1>1, <1>2
  <2>2. Keep(graph) = Near(i, graph.area)
        BY <2>1, KeepIsNear
  <2> QED BY <1>1, <2>2
<1>4. /\ bridge.area = area /\ bridge.of.sn = i
      /\ bridge.scope = [t \in DOMAIN graph.scope \cap near |-> graph.scope[t]]
      /\ bridge.columns = {c \in graph.columns : c[1] \in near}
      /\ bridge.refs = {e \in graph.refs : e[1] \in near /\ e[2] \in near}
      /\ bridge.inhs = {e \in graph.inhs : e[1] \in near /\ e[2] \in near}
      /\ bridge.rels = {e \in graph.rels : e[1] \in near /\ e[2] \in near}
      /\ bridge.cross = {e \in graph.cross : e[1] \in near /\ e[2] \in near}
      BY <1>1, <1>3, BridgeIs
<1> HIDE DEF bridge, near
<1> DEFINE tables == inside \cap near
<1>5. /\ DOMAIN bridge.scope = tables
      /\ \A t \in tables : bridge.scope[t] = i.tables[t].scope
      /\ bridge.columns = {c \in TrueColumns(i, area) : c[1] \in near}
      BY <1>2, <1>4
<1>6. /\ inside \subseteq Tables /\ TrueRefs(i, area) \subseteq Tables \X Tables
      /\ near \subseteq Tables
      BY DEF InArea, TrueRefs, near, Near
<1>7. bridge.refs = TrueRefs(i, area) \cap (near \X near)
      BY <1>2, <1>4, <1>6
<1>8. bridge.inhs = {e \in tables \X near : i.tables[e[1]].super = e[2]}
      BY <1>2, <1>4, <1>6
<1>9. bridge.cross = {e \in bridge.refs : i.tables[e[1]].scope # i.tables[e[2]].scope}
      BY <1>2, <1>4
<1>10. \A r \in i.rels : r[1] \in tables /\ r[2] \in tables => r \in bridge.rels
      BY <1>2, <1>4
<1>11. bridge.area = area /\ bridge.of.sn = i /\ near = Near(i, area)
      BY <1>4 DEF near
<1>12. TrueOf(bridge)
      BY <1>5, <1>7, <1>8, <1>9, <1>10, <1>11 DEF TrueOf
<1> QED BY <1>12 DEF bridge, graph

\* Where every element has its place, the places part the whole.
LEMMA PlacesPart ==
    ASSUME NEW part, NEW whole, NEW place,
           \A e \in whole : place[e] \in DOMAIN part,
           \A g \in DOMAIN part : part[g] = {e \in whole : place[e] = g}
    PROVE  Parted(part, whole)
  BY DEF Parted

\* A table has a box if it is listed with a column other than audit columns.
LEMMA BlocksAreListed ==
    ASSUME NEW graph, NEW tables, tables \subseteq DOMAIN graph.scope
    PROVE  EntityBlocks(graph, tables) = {t \in tables : ~(Fields(graph)[t] \subseteq {"audit"})}
<1>1. ASSUME NEW columns
      PROVE  Attributes(columns) # {} <=> ~(columns \subseteq {"audit"})
      BY DEF Attributes
<1> QED BY <1>1 DEF EntityBlocks

\* One diagram draws all edges of a graph and every box; so do the diagrams of its
\* scopes, each of them once.
LEMMA DiagramsPart ==
    ASSUME NEW graph, Closed(graph), NEW grouped,
           NEW d, d = IF grouped THEN GroupDiagrams(graph)
                      ELSE [scope \in {NoScope} |-> Diagram(graph)]
    PROVE  /\ Parted([g \in DOMAIN d |-> d[g].boxes],
                     {t \in DOMAIN graph.scope : ~(Fields(graph)[t] \subseteq {"audit"})})
           /\ Parted([g \in DOMAIN d |-> d[g].refs], graph.refs)
           /\ Parted([g \in DOMAIN d |-> d[g].inhs], graph.inhs)
<1> DEFINE nodes == DOMAIN graph.scope
           shown == {t \in nodes : ~(Fields(graph)[t] \subseteq {"audit"})}
           scopes == {graph.scope[t] : t \in nodes}
           boxes == [g \in DOMAIN d |-> d[g].boxes]
           refs == [g \in DOMAIN d |-> d[g].refs]
           inhs == [g \in DOMAIN d |-> d[g].inhs]
<1>1. \A e \in graph.refs \cup graph.inhs : e[1] \in nodes
      BY DEF Closed
<1>2. CASE ~grouped
  <2>1. /\ DOMAIN d = {NoScope} /\ d[NoScope].boxes = EntityBlocks(graph, nodes)
        /\ d[NoScope].refs = graph.refs /\ d[NoScope].inhs = graph.inhs
        BY <1>2 DEF Diagram
  <2>2. Parted(boxes, shown)
    <3> HIDE DEF shown
    <3>1. DOMAIN boxes = {NoScope} /\ boxes[NoScope] = shown
          BY <2>1, BlocksAreListed DEF shown
    <3> HIDE DEF boxes
    <3> QED BY <3>1 DEF Parted
  <2>3. Parted(refs, graph.refs)
    <3>1. DOMAIN refs = {NoScope} /\ refs[NoScope] = graph.refs
          BY <2>1
    <3> HIDE DEF refs
    <3> QED BY <3>1 DEF Parted
  <2>4. Parted(inhs, graph.inhs)
    <3>1. DOMAIN inhs = {NoScope} /\ inhs[NoScope] = graph.inhs
          BY <2>1
    <3> HIDE DEF inhs
    <3> QED BY <3>1 DEF Parted
  <2> QED BY <2>2, <2>3, <2>4
<1>3. CASE grouped
  <2>1. /\ DOMAIN d = scopes
        /\ \A g \in scopes :
             /\ d[g].boxes = EntityBlocks(graph, {t \in nodes : graph.scope[t] = g})
             /\ d[g].refs = {e \in graph.refs : e[1] \in nodes /\ graph.scope[e[1]] = g}
             /\ d[g].inhs = {e \in graph.inhs : e[1] \in nodes /\ graph.scope[e[1]] = g}
        BY <1>3 DEF GroupDiagrams
  <2>2. \A t \in nodes : graph.scope[t] \in scopes
        OBVIOUS
  <2>3. ASSUME NEW g \in scopes
        PROVE  d[g].boxes = {t \in shown : graph.scope[t] = g}
    <3> DEFINE own == {t \in nodes : graph.scope[t] = g}
    <3>1. EntityBlocks(graph, own) = {t \in own : ~(Fields(graph)[t] \subseteq {"audit"})}
          BY BlocksAreListed
    <3> QED BY <2>1, <3>1
  <2>4. \A t \in shown : graph.scope[t] \in scopes
        BY <2>2
  <2> HIDE DEF nodes, shown, scopes
  <2>5. Parted(boxes, shown)
    <3> DEFINE place == graph.scope
    <3>1. \A g \in DOMAIN boxes : boxes[g] = {t \in shown : place[t] = g}
          BY <2>1, <2>3
    <3>2. \A t \in shown : place[t] \in DOMAIN boxes
          BY <2>1, <2>4
    <3> HIDE DEF place, boxes
    <3> QED BY <3>1, <3>2, PlacesPart
  <2>6. Parted(refs, graph.refs)
    <3> DEFINE place == [e \in graph.refs |-> graph.scope[e[1]]]
    <3>1. \A g \in DOMAIN refs : refs[g] = {e \in graph.refs : place[e] = g}
          BY <1>1, <2>1
    <3>2. \A e \in graph.refs : place[e] \in DOMAIN refs
          BY <1>1, <2>1, <2>2
    <3> HIDE DEF place, refs
    <3> QED BY <3>1, <3>2, PlacesPart
  <2>7. Parted(inhs, graph.inhs)
    <3> DEFINE place == [e \in graph.inhs |-> graph.scope[e[1]]]
    <3>1. \A g \in DOMAIN inhs : inhs[g] = {e \in graph.inhs : place[e] = g}
          BY <1>1, <2>1
    <3>2. \A e \in graph.inhs : place[e] \in DOMAIN inhs
          BY <1>1, <2>1, <2>2
    <3> HIDE DEF place, inhs
    <3> QED BY <3>1, <3>2, PlacesPart
  <2> QED BY <2>5, <2>6, <2>7 DEF shown, nodes
<1> QED BY <1>2, <1>3

\* Nothing that the command leaves to others changes it.
LEMMA MapsStay ==
    ASSUME MapsInv, UNCHANGED erdVars
    PROVE  MapsInv'
  BY DEF MapsInv, erdVars, DiagramsPartition

\* The command goes on, and neither the archive nor the document is written.
LEMMA MapsTurn ==
    ASSUME MapsInv, UNCHANGED <<sn, archive, doc>>, NEW new, erd' = new,
           DOMAIN new = ErdFields, DOMAIN new.read = ReadFieldsOf,
           new.at \in Reading \cup {"scopes"} => new.area.targets \subseteq Tables,
           new.at = "scopes" => new.read = NoRead,
           new.at \in Reading => ReadingOK(new.at, new.area, new.read, sn),
           new.graph = Absent \/ Good(new.graph),
           new.at \in {"save", "save text", "write"} => new.graph # Absent
    PROVE  MapsInv'
  BY DEF MapsInv, DiagramsPartition

\* The next request of a discovery, or the first of the next table.
LEMMA ThenTurns ==
    ASSUME MapsInv, erd.at \in Reading, UNCHANGED <<sn, archive, doc>>,
           NEW read, DOMAIN read = ReadFieldsOf,
           NEW place \in Reading, NEW next \in Reading, NEW values,
           erd' = Then(read, place, next, values),
           read.unread # {} => ReadingOK(place, erd.area, read, sn),
           read.unread = {} => ReadingOK(next, erd.area, [read EXCEPT !.unread = values], sn)
    PROVE  MapsInv'
<1>1. /\ DOMAIN erd = ErdFields /\ erd.area.targets \subseteq Tables
      /\ erd.graph = Absent \/ Good(erd.graph)
      BY DEF MapsInv
<1>2. /\ place \notin {"scopes", "save", "save text", "write"}
      /\ next \notin {"scopes", "save", "save text", "write"}
      BY DEF Reading
<1>3. CASE read.unread # {}
  <2> DEFINE new == [erd EXCEPT !.at = place, !.read = read]
  <2>1. erd' = new
        BY <1>3 DEF Then
  <2>2. /\ DOMAIN new = ErdFields /\ new.at = place /\ new.read = read
        /\ new.area = erd.area /\ new.graph = erd.graph
        BY <1>1 DEF ErdFields
  <2> HIDE DEF new
  <2> QED BY <1>1, <1>2, <1>3, <2>1, <2>2, MapsTurn
<1>4. CASE read.unread = {}
  <2> DEFINE last == [read EXCEPT !.unread = values]
             new == [erd EXCEPT !.at = next, !.read = last]
  <2>1. erd' = new
        BY <1>4 DEF Then
  <2>2. DOMAIN last = ReadFieldsOf
        OBVIOUS
  <2>3. ReadingOK(next, erd.area, last, sn)
        BY <1>4
  <2> HIDE DEF last
  <2>4. /\ DOMAIN new = ErdFields /\ new.at = next /\ new.read = last
        /\ new.area = erd.area /\ new.graph = erd.graph
        BY <1>1 DEF ErdFields
  <2> HIDE DEF new
  <2> QED BY <1>1, <1>2, <2>1, <2>2, <2>3, <2>4, MapsTurn
<1> QED BY <1>3, <1>4

\* A batch is of what is left to read.
LEMMA BatchesAreOf ==
    ASSUME NEW values, NEW b \in Batches(values)
    PROVE  b \subseteq values
  BY DEF Batches, kSubset

\* The tables of some scopes of an instance that has not changed are read.
LEMMA TablesRead ==
    ASSUME NEW i, IsDictionary(i), NEW area, NEW read, ReadSo("tables", read, area, i),
           NEW b, b \subseteq read.unread,
           NEW new, new.parents = read.parents, new.refs = read.refs,
           new.columns = read.columns, NEW found, found = {t \in Tables : i.tables[t].scope \in b},
           DOMAIN new.meta = DOMAIN read.meta \cup found,
           \A t \in DOMAIN new.meta :
             new.meta[t] = IF t \in found
                           THEN [scope |-> i.tables[t].scope, super |-> i.tables[t].super]
                           ELSE read.meta[t]
    PROVE  /\ new.unread = read.unread \ b => ReadSo("tables", new, area, i)
           /\ read.unread \subseteq b /\ new.unread = Supers(new.meta) \ DOMAIN new.meta
                => ReadSo("parents", new, area, i)
<1> DEFINE keys == area.scopes \cap i.scopes
           inside == DOMAIN read.meta
<1>1. /\ read.unread \subseteq keys
      /\ inside = {t \in Tables : i.tables[t].scope \in keys \ read.unread}
      /\ read.parents = {} /\ read.refs = {} /\ read.columns = {}
      BY DEF ReadSo
<1>2. \A t \in inside :
        read.meta[t] = [scope |-> i.tables[t].scope, super |-> i.tables[t].super]
      BY DEF ReadSo
<1>3. DOMAIN new.meta = inside \cup found
      OBVIOUS
<1>4. \A t \in DOMAIN new.meta :
        new.meta[t] = [scope |-> i.tables[t].scope, super |-> i.tables[t].super]
      BY <1>2
<1>5. DOMAIN new.meta = {t \in Tables : i.tables[t].scope \in keys \ (read.unread \ b)}
      BY <1>1, <1>3
<1>6. ASSUME new.unread = read.unread \ b
      PROVE  ReadSo("tables", new, area, i)
      BY <1>1, <1>4, <1>5, <1>6 DEF ReadSo
<1>7. ASSUME read.unread \subseteq b, new.unread = Supers(new.meta) \ DOMAIN new.meta
      PROVE  ReadSo("parents", new, area, i)
  <2>1. DOMAIN new.meta = InArea(i, area)
        BY <1>5, <1>7 DEF InArea
  <2>2. new.unread \subseteq Supers(new.meta)
        /\ Supers(new.meta) \subseteq DOMAIN new.meta \cup new.parents \cup new.unread
        BY <1>7
  <2> QED BY <1>1, <1>4, <2>1, <2>2 DEF ReadSo
<1> QED BY <1>6, <1>7

\* Some parents are read: each is there, in an instance that has not changed.
LEMMA ParentsRead ==
    ASSUME NEW i, IsDictionary(i), NEW area, NEW read, ReadSo("parents", read, area, i),
           NEW b, b \subseteq read.unread, NEW new,
           new.meta = read.meta, new.refs = read.refs, new.columns = read.columns,
           new.parents = read.parents \cup {t \in b : i.tables[t].scope # NoScope}
    PROVE  /\ new.unread = read.unread \ b => ReadSo("parents", new, area, i)
           /\ read.unread \subseteq b /\ new.unread = DOMAIN new.meta
                => ReadSo("fields", new, area, i)
<1>1. /\ \A t \in DOMAIN read.meta :
           read.meta[t] = [scope |-> i.tables[t].scope, super |-> i.tables[t].super]
      /\ DOMAIN read.meta = InArea(i, area)
      BY DEF ReadSo
<1>2. /\ read.parents \subseteq Supers(read.meta) /\ read.unread \subseteq Supers(read.meta)
      /\ Supers(read.meta) \subseteq DOMAIN read.meta \cup read.parents \cup read.unread
      /\ read.refs = {} /\ read.columns = {}
      BY DEF ReadSo
<1>3. \A t \in Supers(read.meta) : i.tables[t].scope # NoScope
  <2> SUFFICES ASSUME NEW u \in DOMAIN read.meta, read.meta[u].super # NoTable
               PROVE  i.tables[read.meta[u].super].scope # NoScope
      BY DEF Supers
  <2>1. read.meta[u].super = i.tables[u].super
    <3>1. read.meta[u] = [scope |-> i.tables[u].scope, super |-> i.tables[u].super]
          BY <1>1
    <3> QED BY <3>1
  <2>2. u \in Tables
        BY <1>1 DEF InArea
  <2> QED BY <2>1, <2>2 DEF IsDictionary
<1>4. new.parents = read.parents \cup b
      BY <1>2, <1>3
<1>5. ASSUME new.unread = read.unread \ b
      PROVE  ReadSo("parents", new, area, i)
      BY <1>1, <1>2, <1>4, <1>5 DEF ReadSo
<1>6. ASSUME read.unread \subseteq b, new.unread = DOMAIN new.meta
      PROVE  ReadSo("fields", new, area, i)
  <2>1. /\ {e \in TrueRefs(i, area) : e[1] \notin new.unread} = {}
        /\ {c \in TrueColumns(i, area) : c[1] \notin new.unread} = {}
        BY <1>1, <1>6 DEF TrueRefs, TrueColumns
  <2> QED BY <1>1, <1>2, <1>4, <1>6, <2>1 DEF ReadSo
<1> QED BY <1>5, <1>6

\* The fields of some tables are read.
LEMMA FieldsRead ==
    ASSUME NEW i, IsDictionary(i), NEW area, NEW read, ReadSo("fields", read, area, i),
           NEW b, b \subseteq read.unread, read.unread \subseteq DOMAIN read.meta, NEW new,
           new.meta = read.meta, new.parents = read.parents,
           new.refs = read.refs \cup
             UNION {{t} \X i.tables[t].refs : t \in {t \in b : i.tables[t].scope # NoScope}},
           new.columns = read.columns \cup
             UNION {{t} \X i.tables[t].columns : t \in {t \in b : i.tables[t].scope # NoScope}}
    PROVE  /\ new.unread = read.unread \ b /\ new.unread # {} => ReadSo("fields", new, area, i)
           /\ read.unread \subseteq b /\ new.unread = DOMAIN new.meta
                => ReadSo("apply_to", new, area, i)
<1>1. /\ \A t \in DOMAIN read.meta :
           read.meta[t] = [scope |-> i.tables[t].scope, super |-> i.tables[t].super]
      /\ DOMAIN read.meta = InArea(i, area)
      /\ read.refs = {e \in TrueRefs(i, area) : e[1] \notin read.unread}
      /\ read.columns = {c \in TrueColumns(i, area) : c[1] \notin read.unread}
      BY DEF ReadSo
<1>2. /\ read.parents \subseteq Supers(read.meta)
      /\ Supers(read.meta) \subseteq DOMAIN read.meta \cup read.parents
      BY DEF ReadSo
<1>3. ASSUME NEW t \in InArea(i, area)
      PROVE  /\ i.tables[t].scope # NoScope /\ t \in Tables
             /\ i.tables[t].refs \subseteq Tables /\ i.tables[t].columns \subseteq Kinds
      BY DEF InArea, IsDictionary
<1>4. UNION {{t} \X i.tables[t].refs : t \in {t \in b : i.tables[t].scope # NoScope}}
        = {e \in TrueRefs(i, area) : e[1] \in b}
  <2>1. b \subseteq InArea(i, area)
        BY <1>1
  <2>2. ASSUME NEW t \in b
        PROVE  {t} \X i.tables[t].refs = {e \in TrueRefs(i, area) : e[1] = t}
        BY <1>3, <2>1 DEF TrueRefs
  <2> QED BY <1>3, <2>1, <2>2
<1>5. UNION {{t} \X i.tables[t].columns : t \in {t \in b : i.tables[t].scope # NoScope}}
        = {c \in TrueColumns(i, area) : c[1] \in b}
  <2>1. b \subseteq InArea(i, area)
        BY <1>1
  <2>2. ASSUME NEW t \in b
        PROVE  {t} \X i.tables[t].columns = {c \in TrueColumns(i, area) : c[1] = t}
        BY <1>3, <2>1 DEF TrueColumns
  <2> QED BY <1>3, <2>1, <2>2
<1>6. /\ new.refs = {e \in TrueRefs(i, area) : e[1] \notin read.unread \ b}
      /\ new.columns = {c \in TrueColumns(i, area) : c[1] \notin read.unread \ b}
      BY <1>1, <1>4, <1>5
<1>7. ASSUME new.unread = read.unread \ b, new.unread # {}
      PROVE  ReadSo("fields", new, area, i)
      BY <1>1, <1>2, <1>6, <1>7 DEF ReadSo
<1>8. ASSUME read.unread \subseteq b, new.unread = DOMAIN new.meta
      PROVE  ReadSo("apply_to", new, area, i)
  <2>1. new.refs = TrueRefs(i, area) /\ new.columns = TrueColumns(i, area)
        BY <1>6, <1>8
  <2> QED BY <1>1, <1>2, <1>8, <2>1 DEF ReadSo
<1> QED BY <1>7, <1>8

\* The relationships of some tables are read, by the one end and then by the other.
LEMMA RelationshipsRead ==
    ASSUME NEW i, NEW area, NEW at \in {"apply_to", "query_from"}, NEW read,
           ReadSo(at, read, area, i), NEW b, b \subseteq read.unread, NEW new,
           new.meta = read.meta, new.parents = read.parents, new.refs = read.refs,
           new.columns = read.columns, read.rels \subseteq new.rels,
           at = "apply_to" => {r \in i.rels : r[1] \in b} \subseteq new.rels
    PROVE  /\ new.unread = read.unread \ b => ReadSo(at, new, area, i)
           /\ at = "apply_to" /\ read.unread \subseteq b => ReadSo("query_from", new, area, i)
           /\ at = "query_from" => ReadSo("build", new, area, i)
<1>1. /\ \A t \in DOMAIN read.meta :
           read.meta[t] = [scope |-> i.tables[t].scope, super |-> i.tables[t].super]
      /\ DOMAIN read.meta = InArea(i, area)
      /\ read.refs = TrueRefs(i, area) /\ read.columns = TrueColumns(i, area)
      BY DEF ReadSo
<1>2. /\ read.parents \subseteq Supers(read.meta)
      /\ Supers(read.meta) \subseteq DOMAIN read.meta \cup read.parents
      BY DEF ReadSo
<1>3. CASE at = "apply_to"
  <2>1. \A r \in i.rels : r[1] \in DOMAIN read.meta \ read.unread => r \in read.rels
        BY <1>3 DEF ReadSo
  <2>2. \A r \in i.rels : r[1] \in DOMAIN read.meta \ (read.unread \ b) => r \in new.rels
        BY <1>3, <2>1
  <2>3. ASSUME new.unread = read.unread \ b
        PROVE  ReadSo(at, new, area, i)
        BY <1>1, <1>2, <1>3, <2>2, <2>3 DEF ReadSo
  <2>4. ASSUME read.unread \subseteq b
        PROVE  ReadSo("query_from", new, area, i)
        BY <1>1, <1>2, <2>2, <2>4 DEF ReadSo
  <2> QED BY <1>3, <2>3, <2>4
<1>4. CASE at = "query_from"
  <2>1. \A r \in i.rels : r[1] \in DOMAIN read.meta => r \in new.rels
        BY <1>4 DEF ReadSo
  <2>2. ReadSo(at, new, area, i) /\ ReadSo("build", new, area, i)
        BY <1>1, <1>2, <1>4, <2>1 DEF ReadSo
  <2> QED BY <1>4, <2>2
<1> QED BY <1>3, <1>4

\* The catalog that is loaded says something.
LEMMA CatalogIsThere ==
    ASSUME SyncsInv
    PROVE  LoadCatalog \in DOMAIN Catalogs
<1>1. /\ github["catalog"] \in Nat \ {0} /\ 0..github["catalog"] \subseteq DOMAIN Catalogs
      /\ catalog # Absent => catalog # Torn /\ catalog.version \in 1..github["catalog"]
      BY DEF SyncsInv, SyncTypes, Synced, Caches
<1>2. CASE LoadCached = Absent
  <2>1. LoadCatalog = 0 /\ 0 \in 0..github["catalog"]
        BY <1>1, <1>2 DEF LoadCatalog
  <2> QED BY <1>1, <2>1
<1>3. CASE LoadCached # Absent
  <2>1. catalog # Absent /\ LoadCatalog = catalog.version
        BY <1>3 DEF LoadCached, LoadCatalog
  <2>2. catalog.version \in 0..github["catalog"]
        BY <1>1, <2>1
  <2> QED BY <1>1, <2>1, <2>2
<1> QED BY <1>2, <1>3

\* An area has the targets of its products, which are tables.
LEMMA AreaTargets ==
    ASSUME NEW version \in DOMAIN Catalogs, NEW ps, Usable(version, ps)
    PROVE  AreaOf(version, ps).targets \subseteq Tables
<1>1. \A p \in DOMAIN ps : Product(version, ps[p]).targets \subseteq Tables
      BY CatalogsAssumption DEF Usable, Knows, Product
<1> QED BY <1>1 DEF AreaOf

\* The command begins: it reads nothing yet.
LEMMA BeginErdKeeps ==
    ASSUME SyncsInv, MapsInv, BeginErd
    PROVE  MapsInv'
<1> DEFINE r == Head(erd.todo)
           area == AreaOf(LoadCatalog, r.products)
<1>1. UNCHANGED <<sn, archive, doc>> /\ DOMAIN erd = ErdFields
      BY DEF BeginErd, MapsInv
<1>2. ASSUME NEW next \in {"usage", "open", "scopes"}
      PROVE  /\ DOMAIN Request(next) = ErdFields /\ Request(next).at = next
             /\ Request(next).read = NoRead /\ Request(next).graph = Absent
      BY <1>1 DEF Request, ErdFields
<1>3. DOMAIN NoRead = ReadFieldsOf
      BY DEF NoRead, ReadFieldsOf
<1>4. ASSUME NEW next \in {"usage", "open"}, erd' = Request(next)
      PROVE  MapsInv'
  <2> DEFINE new == Request(next)
  <2>1. erd' = new
        BY <1>4
  <2>2. DOMAIN new = ErdFields /\ new.at = next /\ new.read = NoRead /\ new.graph = Absent
        BY <1>2
  <2> HIDE DEF new
  <2> QED BY <1>1, <1>3, <2>1, <2>2, MapsTurn DEF Reading
<1>5. ASSUME Usable(LoadCatalog, r.products),
             erd' = [Request("scopes") EXCEPT !.area = area]
      PROVE  MapsInv'
  <2> DEFINE new == [Request("scopes") EXCEPT !.area = area]
  <2>1. erd' = new
        BY <1>5
  <2>2. area.targets \subseteq Tables
    <3>1. LoadCatalog \in DOMAIN Catalogs
          BY CatalogIsThere
    <3> QED BY <1>5, <3>1, AreaTargets
  <2> HIDE DEF area
  <2>3. /\ DOMAIN new = ErdFields /\ new.at = "scopes" /\ new.read = NoRead
        /\ new.graph = Absent /\ new.area = area
        BY <1>2 DEF ErdFields
  <2> HIDE DEF new
  <2> QED BY <1>1, <1>3, <2>1, <2>2, <2>3, MapsTurn DEF Reading
<1>6. \/ \E next \in {"usage", "open"} : erd' = Request(next)
      \/ /\ Usable(LoadCatalog, r.products)
         /\ erd' = [Request("scopes") EXCEPT !.area = area]
      BY DEF BeginErd
<1> QED BY <1>4, <1>5, <1>6

\* The discovery begins, with the instance as it is.
LEMMA ReadScopesKeeps ==
    ASSUME MapsInv, ReadScopes
    PROVE  MapsInv'
<1> DEFINE keys == erd.area.scopes \cap sn.scopes
           failed == [erd EXCEPT !.at = "failed"]
           new == [erd EXCEPT !.at = "tables", !.read.unread = keys,
                              !.read.of = [sn |-> sn, moved |-> FALSE]]
<1>1. UNCHANGED <<sn, archive, doc>> /\ erd.at = "scopes" /\ erd' \in {failed, new}
      BY DEF ReadScopes, ErdOnly, At
<1>2. /\ DOMAIN erd = ErdFields /\ DOMAIN erd.read = ReadFieldsOf /\ IsDictionary(sn)
      /\ erd.area.targets \subseteq Tables /\ erd.read = NoRead
      /\ erd.graph = Absent \/ Good(erd.graph)
      BY <1>1 DEF MapsInv
<1>3. CASE erd' = failed
  <2>1. /\ DOMAIN failed = ErdFields /\ failed.at = "failed" /\ failed.read = erd.read
        /\ failed.graph = erd.graph
        BY <1>2 DEF ErdFields
  <2> HIDE DEF failed
  <2> QED BY <1>1, <1>2, <1>3, <2>1, MapsTurn DEF Reading
<1>4. CASE erd' = new
  <2>1. /\ DOMAIN new = ErdFields /\ new.at = "tables" /\ DOMAIN new.read = ReadFieldsOf
        /\ new.area = erd.area /\ new.graph = erd.graph
        BY <1>2 DEF ErdFields, ReadFieldsOf
  <2>2. /\ new.read.meta = NoRead.meta /\ new.read.parents = NoRead.parents
        /\ new.read.refs = NoRead.refs /\ new.read.columns = NoRead.columns
        /\ new.read.unread = keys
        /\ new.read.of = [sn |-> sn, moved |-> FALSE]
        BY <1>2 DEF ErdFields, ReadFieldsOf
  <2> HIDE DEF new
  <2>3. /\ NoRead.parents = {} /\ NoRead.refs = {} /\ NoRead.columns = {}
        /\ DOMAIN NoRead.meta = {}
        BY DEF NoRead
  <2>4. ReadSo("tables", new.read, erd.area, sn)
        BY <2>2, <2>3 DEF ReadSo
  <2>5. ReadingOK("tables", erd.area, new.read, sn)
        BY <1>2, <2>2, <2>3, <2>4 DEF ReadingOK, ReadWhole
  <2> QED BY <1>1, <1>2, <1>4, <2>1, <2>5, MapsTurn
<1> QED BY <1>1, <1>3, <1>4

\* One request for tables.
LEMMA ReadTablesKeeps ==
    ASSUME MapsInv, ReadTables
    PROVE  MapsInv'
<1> DEFINE Found(b) == {t \in Tables : sn.tables[t].scope \in b}
           Meta(b) == [t \in DOMAIN erd.read.meta \cup Found(b) |->
                         IF t \in Found(b)
                         THEN [scope |-> sn.tables[t].scope, super |-> sn.tables[t].super]
                         ELSE erd.read.meta[t]]
           New(b) == [erd.read EXCEPT !.meta = Meta(b), !.unread = @ \ b]
<1>1. PICK b \in Batches(erd.read.unread) :
        erd' = Then(New(b), "tables", "parents", Supers(Meta(b)) \ DOMAIN Meta(b))
      BY DEF ReadTables
<1> DEFINE found == Found(b)
           meta == Meta(b)
           new == New(b)
           values == Supers(meta) \ DOMAIN meta
           last == [new EXCEPT !.unread = values]
<1>2. UNCHANGED <<sn, archive, doc>> /\ erd.at = "tables" /\ b \subseteq erd.read.unread
      BY BatchesAreOf DEF ReadTables, ErdOnly, At
<1>3. /\ DOMAIN erd.read = ReadFieldsOf /\ IsDictionary(sn)
      /\ ReadingOK("tables", erd.area, erd.read, sn)
      BY <1>2 DEF MapsInv, Reading
<1>4. /\ new.meta = meta /\ new.parents = erd.read.parents /\ new.refs = erd.read.refs
      /\ new.columns = erd.read.columns
      /\ new.of = erd.read.of /\ new.unread = erd.read.unread \ b /\ DOMAIN new = ReadFieldsOf
      BY <1>3 DEF ReadFieldsOf
<1> HIDE DEF new
<1>5. /\ found = {t \in Tables : sn.tables[t].scope \in b}
      /\ DOMAIN meta = DOMAIN erd.read.meta \cup found
      /\ \A t \in DOMAIN meta :
           meta[t] = IF t \in found
                     THEN [scope |-> sn.tables[t].scope, super |-> sn.tables[t].super]
                     ELSE erd.read.meta[t]
      OBVIOUS
<1>6. /\ last.meta = meta /\ last.parents = erd.read.parents /\ last.refs = erd.read.refs
      /\ last.columns = erd.read.columns
      /\ last.of = erd.read.of /\ last.unread = values
      BY <1>4 DEF ReadFieldsOf
<1> HIDE DEF last
<1>7. ReadingOK("tables", erd.area, new, sn)
  <2>1. ~erd.read.of.moved => ReadSo("tables", erd.read, erd.area, sn)
        BY <1>3 DEF ReadingOK
  <2> HIDE DEF found, meta
  <2>2. ~erd.read.of.moved => ReadSo("tables", new, erd.area, sn)
    <3>1. /\ DOMAIN new.meta = DOMAIN erd.read.meta \cup found
          /\ \A t \in DOMAIN new.meta :
               new.meta[t] = IF t \in found
                             THEN [scope |-> sn.tables[t].scope, super |-> sn.tables[t].super]
                             ELSE erd.read.meta[t]
          BY <1>5, <1>4
    <3>2. /\ new.parents = erd.read.parents /\ new.refs = erd.read.refs
          /\ new.columns = erd.read.columns
          /\ new.unread = erd.read.unread \ b
          BY <1>4
    <3>3. ASSUME ReadSo("tables", erd.read, erd.area, sn)
          PROVE  new.unread = erd.read.unread \ b => ReadSo("tables", new, erd.area, sn)
      <4>1. b \subseteq erd.read.unread /\ IsDictionary(sn)
            BY <1>2, <1>3
      <4>2. found = {t \in Tables : sn.tables[t].scope \in b}
            BY <1>5
      <4> QED BY <3>1, <3>2, <3>3, <4>1, <4>2, TablesRead, ZenonT(60)
    <3> QED BY <2>1, <3>2, <3>3
  <2> QED BY <1>3, <1>4, <2>2 DEF ReadingOK, ReadWhole
<1>8. ASSUME new.unread = {}
      PROVE  ReadingOK("parents", erd.area, last, sn)
  <2>1. erd.read.unread \subseteq b
        BY <1>4, <1>8
  <2>2. ~erd.read.of.moved => ReadSo("parents", last, erd.area, sn)
        BY <1>2, <1>3, <1>6, <2>1, TablesRead DEF ReadingOK
  <2> QED BY <1>3, <1>6, <2>2 DEF ReadingOK, ReadWhole
<1> HIDE DEF meta, values
<1>9. erd' = Then(new, "tables", "parents", values)
      BY <1>1 DEF new, values, meta
<1> QED BY <1>2, <1>4, <1>7, <1>8, <1>9, ThenTurns DEF Reading, last

\* One request for parents, or none when there is no parent to read.
LEMMA ReadParentsKeeps ==
    ASSUME MapsInv, ReadParents
    PROVE  MapsInv'
<1>1. /\ UNCHANGED <<sn, archive, doc>> /\ erd.at = "parents"
      BY DEF ReadParents, ErdOnly, At
<1>2. /\ DOMAIN erd.read = ReadFieldsOf /\ IsDictionary(sn)
      /\ ReadingOK("parents", erd.area, erd.read, sn)
      BY <1>1 DEF MapsInv, Reading
<1>3. ~erd.read.of.moved => ReadSo("parents", erd.read, erd.area, sn)
      BY <1>2 DEF ReadingOK
<1>4. CASE erd.read.unread = {}
  <2> DEFINE values == DOMAIN erd.read.meta
             last == [erd.read EXCEPT !.unread = values]
  <2>1. erd' = Then(erd.read, "parents", "fields", values)
        BY <1>4 DEF ReadParents
  <2>2. /\ last.meta = erd.read.meta /\ last.parents = erd.read.parents
        /\ last.refs = erd.read.refs /\ last.columns = erd.read.columns
        /\ last.of = erd.read.of /\ last.unread = values
        BY <1>2 DEF ReadFieldsOf
  <2> HIDE DEF last
  <2>3. ASSUME ReadSo("parents", erd.read, erd.area, sn)
        PROVE  ReadSo("fields", last, erd.area, sn)
    <3>1. last.parents = erd.read.parents \cup {t \in {} : sn.tables[t].scope # NoScope}
          BY <2>2
    <3>2. last.unread = DOMAIN last.meta /\ {} \subseteq erd.read.unread
          BY <2>2
    <3> QED BY <1>2, <1>4, <2>2, <2>3, <3>1, <3>2, ParentsRead
  <2>4. ReadingOK("fields", erd.area, last, sn)
        BY <1>2, <1>3, <2>2, <2>3 DEF ReadingOK, ReadWhole
  <2> HIDE DEF values
  <2> QED BY <1>1, <1>2, <1>4, <2>1, <2>4, ThenTurns DEF Reading, last
<1>5. CASE erd.read.unread # {}
  <2> DEFINE New(b) == [erd.read EXCEPT !.parents = @ \cup {t \in b : Exists(t)},
                                        !.unread = @ \ b]
  <2>1. PICK b \in Batches(erd.read.unread) :
          erd' = Then(New(b), "parents", "fields", DOMAIN New(b).meta)
        BY <1>5 DEF ReadParents
  <2> DEFINE new == New(b)
             values == DOMAIN new.meta
             last == [new EXCEPT !.unread = values]
  <2>2. b \subseteq erd.read.unread
        BY BatchesAreOf
  <2>3. /\ new.meta = erd.read.meta /\ new.refs = erd.read.refs /\ new.of = erd.read.of
        /\ new.columns = erd.read.columns
        /\ new.parents = erd.read.parents \cup {t \in b : sn.tables[t].scope # NoScope}
        /\ new.unread = erd.read.unread \ b /\ DOMAIN new = ReadFieldsOf
        BY <1>2 DEF ReadFieldsOf, Exists
  <2> HIDE DEF new
  <2>4. /\ last.meta = erd.read.meta /\ last.refs = erd.read.refs /\ last.of = erd.read.of
        /\ last.columns = erd.read.columns
        /\ last.parents = new.parents /\ last.unread = DOMAIN last.meta
        BY <2>3 DEF ReadFieldsOf
  <2> HIDE DEF last
  <2>5. ASSUME ReadSo("parents", erd.read, erd.area, sn)
        PROVE  ReadSo("parents", new, erd.area, sn)
        BY <1>2, <2>2, <2>3, <2>5, ParentsRead
  <2>6. ASSUME ReadSo("parents", erd.read, erd.area, sn), new.unread = {}
        PROVE  ReadSo("fields", last, erd.area, sn)
    <3>1. erd.read.unread \subseteq b
          BY <2>3, <2>6
    <3>2. last.parents = erd.read.parents \cup {t \in b : sn.tables[t].scope # NoScope}
          BY <2>3, <2>4
    <3> QED BY <1>2, <2>2, <2>4, <2>6, <3>1, <3>2, ParentsRead
  <2>7. ReadingOK("parents", erd.area, new, sn)
        BY <1>2, <1>3, <2>3, <2>5 DEF ReadingOK, ReadWhole
  <2>8. new.unread = {} => ReadingOK("fields", erd.area, last, sn)
        BY <1>2, <1>3, <2>4, <2>6 DEF ReadingOK, ReadWhole
  <2>9. erd' = Then(new, "parents", "fields", values)
        BY <2>1 DEF new
  <2> HIDE DEF values
  <2> QED BY <1>1, <2>3, <2>7, <2>8, <2>9, ThenTurns DEF Reading, last
<1> QED BY <1>4, <1>5

\* One request for fields, or none for an area without tables.
LEMMA ReadFieldsKeeps ==
    ASSUME MapsInv, ReadFields
    PROVE  MapsInv'
<1>1. /\ UNCHANGED <<sn, archive, doc>> /\ erd.at = "fields"
      BY DEF ReadFields, ErdOnly, At
<1>2. /\ DOMAIN erd.read = ReadFieldsOf /\ IsDictionary(sn) /\ DOMAIN erd = ErdFields
      /\ ReadingOK("fields", erd.area, erd.read, sn)
      /\ erd.area.targets \subseteq Tables
      /\ erd.graph = Absent \/ Good(erd.graph)
      BY <1>1 DEF MapsInv, Reading
<1>3. /\ ~erd.read.of.moved => ReadSo("fields", erd.read, erd.area, sn)
      /\ erd.read.unread \subseteq DOMAIN erd.read.meta
      /\ \A e \in erd.read.refs : e[1] \in DOMAIN erd.read.meta
      BY <1>2 DEF ReadingOK, ReadWhole
<1>4. CASE erd.read.unread = {}
  <2> DEFINE new == [erd EXCEPT !.at = "build"]
  <2>1. erd' = new
        BY <1>4 DEF ReadFields
  <2>2. /\ DOMAIN new = ErdFields /\ new.at = "build" /\ new.read = erd.read
        /\ new.area = erd.area /\ new.graph = erd.graph
        BY <1>2 DEF ErdFields
  <2> HIDE DEF new
  <2>3. ASSUME ReadSo("fields", erd.read, erd.area, sn)
        PROVE  ReadSo("build", erd.read, erd.area, sn)
    <3>1. /\ DOMAIN erd.read.meta = {} /\ DOMAIN erd.read.meta = InArea(sn, erd.area)
          /\ erd.read.refs = {e \in TrueRefs(sn, erd.area) : e[1] \notin erd.read.unread}
          /\ erd.read.columns = {c \in TrueColumns(sn, erd.area) : c[1] \notin erd.read.unread}
          BY <1>4, <2>3 DEF ReadSo
    <3>2. /\ erd.read.parents \subseteq Supers(erd.read.meta)
          /\ Supers(erd.read.meta) \subseteq DOMAIN erd.read.meta \cup erd.read.parents
          BY <2>3 DEF ReadSo
    <3>3. erd.read.refs = TrueRefs(sn, erd.area) /\ erd.read.columns = TrueColumns(sn, erd.area)
          BY <1>4, <3>1
    <3> QED BY <3>1, <3>2, <3>3 DEF ReadSo
  <2>4. ReadingOK("build", erd.area, erd.read, sn)
        BY <1>2, <1>3, <2>3 DEF ReadingOK, ReadWhole
  <2> QED BY <1>1, <1>2, <2>1, <2>2, <2>4, MapsTurn DEF Reading
<1>5. CASE erd.read.unread # {}
  <2> DEFINE Refs(b) == UNION {{t} \X sn.tables[t].refs : t \in {t \in b : Exists(t)}}
             Columns(b) == UNION {{t} \X sn.tables[t].columns : t \in {t \in b : Exists(t)}}
             New(b) == [erd.read EXCEPT !.refs = @ \cup Refs(b), !.columns = @ \cup Columns(b),
                                        !.unread = @ \ b]
  <2>1. PICK b \in Batches(erd.read.unread) :
          erd' = Then(New(b), "fields", "apply_to", DOMAIN New(b).meta)
        BY <1>5 DEF ReadFields
  <2> DEFINE refs == Refs(b)
             columns == Columns(b)
             new == New(b)
             values == DOMAIN new.meta
             last == [new EXCEPT !.unread = values]
  <2>2. b \subseteq erd.read.unread
        BY BatchesAreOf
  <2>3. /\ refs = UNION {{t} \X sn.tables[t].refs :
                           t \in {t \in b : sn.tables[t].scope # NoScope}}
        /\ columns = UNION {{t} \X sn.tables[t].columns :
                              t \in {t \in b : sn.tables[t].scope # NoScope}}
        BY DEF Exists
  <2>4. \A e \in refs : e[1] \in b
        OBVIOUS
  <2> HIDE DEF refs, columns
  <2>5. /\ new.meta = erd.read.meta /\ new.parents = erd.read.parents /\ new.of = erd.read.of
        /\ new.refs = erd.read.refs \cup refs /\ new.columns = erd.read.columns \cup columns
        /\ new.unread = erd.read.unread \ b /\ DOMAIN new = ReadFieldsOf
        BY <1>2 DEF ReadFieldsOf, refs, columns
  <2> HIDE DEF new
  <2>6. /\ last.meta = erd.read.meta /\ last.parents = erd.read.parents
        /\ last.of = erd.read.of /\ last.refs = new.refs /\ last.columns = new.columns
        /\ last.unread = DOMAIN last.meta
        BY <2>5 DEF ReadFieldsOf
  <2> HIDE DEF last
  <2>7. ASSUME ReadSo("fields", erd.read, erd.area, sn), new.unread # {}
        PROVE  ReadSo("fields", new, erd.area, sn)
        BY <1>2, <1>3, <2>2, <2>3, <2>5, <2>7, FieldsRead
  <2>8. ASSUME ReadSo("fields", erd.read, erd.area, sn), new.unread = {}
        PROVE  ReadSo("apply_to", last, erd.area, sn)
    <3>1. erd.read.unread \subseteq b
          BY <2>5, <2>8
    <3>2. /\ last.refs = erd.read.refs \cup
               UNION {{t} \X sn.tables[t].refs : t \in {t \in b : sn.tables[t].scope # NoScope}}
          /\ last.columns = erd.read.columns \cup
               UNION {{t} \X sn.tables[t].columns : t \in {t \in b : sn.tables[t].scope # NoScope}}
          BY <2>3, <2>5, <2>6
    <3> QED BY <1>2, <1>3, <2>2, <2>6, <2>8, <3>1, <3>2, FieldsRead
  <2>9. \A e \in new.refs : e[1] \in DOMAIN erd.read.meta
        BY <1>3, <2>2, <2>4, <2>5
  <2>10. new.unread # {} => ReadingOK("fields", erd.area, new, sn)
         BY <1>2, <1>3, <2>5, <2>7, <2>9 DEF ReadingOK, ReadWhole
  <2>11. new.unread = {} => ReadingOK("apply_to", erd.area, last, sn)
         BY <1>2, <1>3, <2>6, <2>8, <2>9 DEF ReadingOK, ReadWhole
  <2>12. erd' = Then(new, "fields", "apply_to", values)
         BY <2>1 DEF new, refs, columns
  <2> HIDE DEF values
  <2> QED BY <1>1, <2>5, <2>10, <2>11, <2>12, ThenTurns DEF Reading, last
<1> QED BY <1>4, <1>5

\* One request for relationships, by either end.
LEMMA ReadRelationshipsKeeps ==
    ASSUME MapsInv, ReadRelationships
    PROVE  MapsInv'
<1>1. UNCHANGED <<sn, archive, doc>> /\ erd.at \in {"apply_to", "query_from"}
      BY DEF ReadRelationships, ErdOnly
<1>2. /\ DOMAIN erd.read = ReadFieldsOf
      /\ ReadingOK(erd.at, erd.area, erd.read, sn)
      BY <1>1 DEF MapsInv, Reading
<1>3. /\ ~erd.read.of.moved => ReadSo(erd.at, erd.read, erd.area, sn)
      /\ \A e \in erd.read.refs : e[1] \in DOMAIN erd.read.meta
      BY <1>2 DEF ReadingOK, ReadWhole
<1> DEFINE side == IF At("apply_to") THEN 1 ELSE 2
           New(b) == [erd.read EXCEPT !.rels = @ \cup {r \in sn.rels : r[side] \in b},
                                      !.unread = @ \ b]
<1>4. PICK b \in Batches(erd.read.unread) :
        erd' = IF side = 1 THEN Then(New(b), "apply_to", "query_from", DOMAIN New(b).meta)
               ELSE Then(New(b), "query_from", "build", {})
      BY DEF ReadRelationships
<1> DEFINE new == New(b)
<1>5. b \subseteq erd.read.unread
      BY BatchesAreOf
<1>6. /\ new.meta = erd.read.meta /\ new.parents = erd.read.parents /\ new.of = erd.read.of
      /\ new.refs = erd.read.refs /\ new.columns = erd.read.columns
      /\ new.unread = erd.read.unread \ b
      /\ new.rels = erd.read.rels \cup {r \in sn.rels : r[side] \in b}
      /\ DOMAIN new = ReadFieldsOf
      BY <1>2 DEF ReadFieldsOf
<1>7. erd' = IF side = 1 THEN Then(new, "apply_to", "query_from", DOMAIN new.meta)
             ELSE Then(new, "query_from", "build", {})
      BY <1>4
<1> HIDE DEF new
<1>8. /\ erd.read.rels \subseteq new.rels
      /\ erd.at = "apply_to" => {r \in sn.rels : r[1] \in b} \subseteq new.rels
      BY <1>6 DEF At
<1>9. ASSUME NEW values
      PROVE  LET last == [new EXCEPT !.unread = values]
             IN  /\ last.meta = erd.read.meta /\ last.parents = erd.read.parents
                 /\ last.of = erd.read.of /\ last.refs = erd.read.refs
                 /\ last.columns = erd.read.columns /\ last.rels = new.rels
      BY <1>6 DEF ReadFieldsOf
<1>10. ASSUME ReadSo(erd.at, erd.read, erd.area, sn)
       PROVE  ReadSo(erd.at, new, erd.area, sn)
       BY <1>1, <1>5, <1>6, <1>8, <1>10, RelationshipsRead
<1>11. ReadingOK(erd.at, erd.area, new, sn)
       BY <1>1, <1>2, <1>3, <1>6, <1>10 DEF ReadingOK, ReadWhole
<1>12. CASE erd.at = "apply_to"
  <2> DEFINE values == DOMAIN new.meta
             last == [new EXCEPT !.unread = values]
  <2>1. erd' = Then(new, "apply_to", "query_from", values)
        BY <1>7, <1>12 DEF At
  <2>2. /\ last.meta = erd.read.meta /\ last.parents = erd.read.parents
        /\ last.of = erd.read.of /\ last.refs = erd.read.refs /\ last.columns = erd.read.columns
        /\ last.rels = new.rels
        BY <1>9
  <2> HIDE DEF last
  <2>3. ASSUME ReadSo("apply_to", erd.read, erd.area, sn), new.unread = {}
        PROVE  ReadSo("query_from", last, erd.area, sn)
    <3>1. erd.read.unread \subseteq b
          BY <1>6, <2>3
    <3>2. erd.read.rels \subseteq last.rels /\ {r \in sn.rels : r[1] \in b} \subseteq last.rels
          BY <1>8, <1>12, <2>2
    <3> QED BY <1>5, <2>2, <2>3, <3>1, <3>2, RelationshipsRead
  <2>4. new.unread = {} => ReadingOK("query_from", erd.area, last, sn)
        BY <1>2, <1>3, <1>12, <2>2, <2>3 DEF ReadingOK, ReadWhole
  <2> HIDE DEF values
  <2> QED BY <1>1, <1>6, <1>11, <1>12, <2>1, <2>4, ThenTurns DEF Reading, last
<1>13. CASE erd.at = "query_from"
  <2> DEFINE values == {}
             last == [new EXCEPT !.unread = values]
  <2>1. erd' = Then(new, "query_from", "build", values)
        BY <1>7, <1>13 DEF At
  <2>2. /\ last.meta = erd.read.meta /\ last.parents = erd.read.parents
        /\ last.of = erd.read.of /\ last.refs = erd.read.refs /\ last.columns = erd.read.columns
        /\ last.rels = new.rels
        BY <1>9
  <2> HIDE DEF last
  <2>3. ASSUME ReadSo("query_from", erd.read, erd.area, sn)
        PROVE  ReadSo("build", last, erd.area, sn)
    <3>1. erd.read.rels \subseteq last.rels
          BY <1>8, <2>2
    <3> QED BY <1>5, <2>2, <2>3, <3>1, RelationshipsRead
  <2>4. ReadingOK("build", erd.area, last, sn)
        BY <1>2, <1>3, <1>13, <2>2, <2>3 DEF ReadingOK, ReadWhole
  <2> HIDE DEF values
  <2> QED BY <1>1, <1>6, <1>11, <1>13, <2>1, <2>4, ThenTurns DEF Reading, last
<1> QED BY <1>1, <1>12, <1>13

\* The graph is built of all that was read, and narrowed to the targets of the area.
LEMMA BuildGraphKeeps ==
    ASSUME MapsInv, BuildGraph
    PROVE  MapsInv'
<1> DEFINE whole == GraphOf(erd.area, erd.read)
           graph == IF erd.area.targets = {} THEN whole ELSE Bridge(whole)
           place == IF erd.req.save THEN "save" ELSE "write"
           new == [erd EXCEPT !.at = place, !.read = NoRead, !.graph = graph]
<1>1. UNCHANGED <<sn, archive, doc>> /\ erd.at = "build" /\ erd' = new
      BY DEF BuildGraph, ErdOnly, At
<1>2. /\ DOMAIN erd = ErdFields /\ erd.area.targets \subseteq Tables /\ IsDictionary(sn)
      /\ ReadingOK("build", erd.area, erd.read, sn)
      BY <1>1 DEF MapsInv, Reading
<1>3. whole.of = erd.read.of /\ DOMAIN whole = GraphFields /\ Bridge(whole).of = whole.of
      BY BridgeIs DEF GraphOf, GraphFields
<1>4. graph # Absent
  <2>1. DOMAIN whole = GraphFields /\ DOMAIN Bridge(whole) = GraphFields
        BY <1>3 DEF Bridge
  <2>2. DOMAIN Absent # GraphFields
        BY DEF Absent, GraphFields
  <2> QED BY <2>1, <2>2
<1>5. Closed(graph)
  <2>1. Closed(whole)
        BY <1>2, WholeClosed DEF ReadingOK, ReadWhole
  <2> HIDE DEF whole
  <2> QED BY <1>3, <2>1, BridgeClosed
<1>6. ASSUME ~graph.of.moved
      PROVE  TrueOf(graph)
  <2>1. erd.read.of.sn = sn /\ ReadSo("build", erd.read, erd.area, sn)
        BY <1>2, <1>3, <1>6 DEF ReadingOK
  <2>2. CASE erd.area.targets = {}
        BY <1>2, <2>1, <2>2, WholeTrue
  <2>3. CASE erd.area.targets # {}
        BY <1>2, <2>1, <2>3, BridgeTrue
  <2> QED BY <2>2, <2>3
<1>7. Good(graph)
      BY <1>5, <1>6 DEF Good
<1> HIDE DEF graph
<1>8. /\ DOMAIN new = ErdFields /\ new.at = place /\ new.read = NoRead /\ new.graph = graph
      /\ DOMAIN NoRead = ReadFieldsOf /\ place \in {"save", "write"}
      BY <1>2 DEF ErdFields, NoRead, ReadFieldsOf
<1> HIDE DEF new, place
<1> QED BY <1>1, <1>4, <1>7, <1>8, MapsTurn DEF Reading

\* The archive is torn while it is written, and then holds the graph.
LEMMA SaveArchiveKeeps ==
    ASSUME MapsInv, SaveArchive
    PROVE  MapsInv'
<1>1. /\ UNCHANGED sn /\ UNCHANGED doc /\ erd.at \in {"save", "save text"}
      /\ archive' = Torn \/ archive' = erd.graph
      /\ \E place \in {"save text", "write"} : erd' = [erd EXCEPT !.at = place]
      BY DEF SaveArchive
<1>2. PICK place \in {"save text", "write"} : erd' = [erd EXCEPT !.at = place]
      BY <1>1
<1>3. /\ DOMAIN erd = ErdFields /\ DOMAIN erd.read = ReadFieldsOf
      /\ erd.graph # Absent /\ Good(erd.graph)
      BY <1>1 DEF MapsInv
<1>4. /\ DOMAIN erd' = ErdFields /\ erd'.at = place /\ erd'.read = erd.read
      /\ erd'.graph = erd.graph
      BY <1>2, <1>3 DEF ErdFields
<1>5. archive' \in {Absent, Torn} \/ Good(archive')
      BY <1>1, <1>3
<1> QED BY <1>1, <1>3, <1>4, <1>5 DEF MapsInv, Reading, DiagramsPartition

\* A snapshot opens when it is whole.
LEMMA OpenArchiveKeeps ==
    ASSUME MapsInv, OpenArchive
    PROVE  MapsInv'
<1>1. /\ UNCHANGED <<sn, archive, doc>>
      /\ erd' = IF archive \in {Absent, Torn} THEN [erd EXCEPT !.at = "failed"]
                ELSE [erd EXCEPT !.at = "write", !.graph = archive]
      BY DEF OpenArchive
<1>2. /\ DOMAIN erd = ErdFields /\ DOMAIN erd.read = ReadFieldsOf
      /\ erd.graph = Absent \/ Good(erd.graph)
      /\ archive \in {Absent, Torn} \/ Good(archive)
      BY DEF MapsInv
<1>3. CASE archive \in {Absent, Torn}
  <2> DEFINE new == [erd EXCEPT !.at = "failed"]
  <2>1. /\ DOMAIN new = ErdFields /\ new.at = "failed" /\ new.read = erd.read
        /\ new.graph = erd.graph /\ erd' = new
        BY <1>1, <1>2, <1>3 DEF ErdFields
  <2> HIDE DEF new
  <2> QED BY <1>1, <1>2, <2>1, MapsTurn DEF Reading
<1>4. CASE archive \notin {Absent, Torn}
  <2> DEFINE new == [erd EXCEPT !.at = "write", !.graph = archive]
  <2>1. /\ DOMAIN new = ErdFields /\ new.at = "write" /\ new.read = erd.read
        /\ new.graph = archive /\ erd' = new
        BY <1>1, <1>2, <1>4 DEF ErdFields
  <2> HIDE DEF new
  <2> QED BY <1>1, <1>2, <1>4, <2>1, MapsTurn DEF Reading
<1> QED BY <1>3, <1>4

\* The document draws the graph.
LEMMA WriteErdKeeps ==
    ASSUME MapsInv, WriteErd
    PROVE  MapsInv'
<1> DEFINE d == IF erd.req.grouped THEN GroupDiagrams(erd.graph)
                ELSE [scope \in {NoScope} |-> Diagram(erd.graph)]
<1>1. /\ UNCHANGED sn /\ UNCHANGED archive /\ erd.at = "write"
      /\ doc' = [diagrams |-> d, cross |-> erd.graph.cross, fields |-> Fields(erd.graph),
                 graph |-> erd.graph]
      /\ \E place \in {"image", "written"} : erd' = [erd EXCEPT !.at = place]
      BY DEF WriteErd, At
<1>2. PICK place \in {"image", "written"} : erd' = [erd EXCEPT !.at = place]
      BY <1>1
<1>3. /\ DOMAIN erd = ErdFields /\ DOMAIN erd.read = ReadFieldsOf
      /\ erd.graph # Absent /\ Good(erd.graph)
      BY <1>1 DEF MapsInv
<1>4. /\ DOMAIN erd' = ErdFields /\ erd'.at = place /\ erd'.read = erd.read
      /\ erd'.graph = erd.graph
      BY <1>2, <1>3 DEF ErdFields
<1>5. /\ Parted([g \in DOMAIN d |-> d[g].boxes],
                {t \in DOMAIN erd.graph.scope : ~(Fields(erd.graph)[t] \subseteq {"audit"})})
      /\ Parted([g \in DOMAIN d |-> d[g].refs], erd.graph.refs)
      /\ Parted([g \in DOMAIN d |-> d[g].inhs], erd.graph.inhs)
      BY <1>3, DiagramsPart DEF Good
<1> HIDE DEF d
<1>6. /\ doc'.diagrams = d /\ doc'.graph = erd.graph /\ doc'.fields = Fields(erd.graph)
      /\ DOMAIN Fields(erd.graph) = DOMAIN erd.graph.scope
      BY <1>1 DEF Fields
<1>7. DiagramsPartition'
      BY <1>5, <1>6 DEF DiagramsPartition
<1> QED BY <1>1, <1>3, <1>4, <1>7 DEF MapsInv, Reading

\* Somebody works on the instance: what is being read is of an instance that has moved.
LEMMA ChangeKeeps ==
    ASSUME MapsInv, Change
    PROVE  MapsInv'
<1>1. /\ UNCHANGED archive /\ UNCHANGED doc
      /\ erd' = IF erd.at \in Reading THEN [erd EXCEPT !.read.of.moved = TRUE] ELSE erd
      BY DEF Change
<1>2. IsDictionary(sn')
      BY InstancesAssumption DEF Change
<1>3. /\ DOMAIN erd = ErdFields /\ DOMAIN erd.read = ReadFieldsOf
      /\ erd.at \in Reading => ReadingOK(erd.at, erd.area, erd.read, sn)
      BY DEF MapsInv
<1>4. CASE erd.at \notin Reading
      BY <1>1, <1>2, <1>4 DEF MapsInv, DiagramsPartition
<1>5. CASE erd.at \in Reading
  <2> DEFINE new == [erd EXCEPT !.read.of.moved = TRUE]
  <2>1. DOMAIN erd.read.of = {"sn", "moved"}
        BY <1>3, <1>5 DEF ReadingOK
  <2>2. /\ DOMAIN new = ErdFields /\ new.at = erd.at /\ new.area = erd.area
        /\ new.graph = erd.graph
        BY <1>3 DEF ErdFields
  <2>3. /\ DOMAIN new.read = ReadFieldsOf
        /\ new.read.meta = erd.read.meta /\ new.read.unread = erd.read.unread
        /\ new.read.refs = erd.read.refs
        BY <1>3 DEF ErdFields, ReadFieldsOf
  <2>4. /\ DOMAIN new.read.of = {"sn", "moved"} /\ new.read.of.sn = erd.read.of.sn
        /\ new.read.of.moved
        BY <1>3, <2>1 DEF ErdFields, ReadFieldsOf
  <2>5. erd' = new
        BY <1>1, <1>5
  <2> HIDE DEF new
  <2>6. ReadingOK(new.at, new.area, new.read, sn')
        BY <1>3, <1>5, <2>2, <2>3, <2>4 DEF ReadingOK, ReadWhole
  <2>7. erd.at # "scopes"
        BY <1>5 DEF Reading
  <2> QED BY <1>1, <1>2, <1>5, <2>2, <2>3, <2>5, <2>6, <2>7 DEF MapsInv, DiagramsPartition
<1> QED BY <1>4, <1>5

\* The command ends where it is, with what it has read or without.
LEMMA ErdEndsKeeps ==
    ASSUME MapsInv, NEW place \in ErdEnds,
           UNCHANGED <<sn, archive, doc>>,
           \/ erd' = [erd EXCEPT !.at = place]
           \/ erd' = [erd EXCEPT !.at = place, !.read = NoRead]
           \/ erd' = [erd EXCEPT !.at = place, !.read = NoRead, !.graph = Absent]
    PROVE  MapsInv'
<1>1. /\ DOMAIN erd = ErdFields /\ DOMAIN erd.read = ReadFieldsOf
      /\ erd.graph = Absent \/ Good(erd.graph)
      BY DEF MapsInv
<1>2. DOMAIN NoRead = ReadFieldsOf
      BY DEF NoRead, ReadFieldsOf
<1>3. /\ DOMAIN erd' = ErdFields /\ erd'.at = place /\ erd'.read \in {erd.read, NoRead}
      /\ erd'.graph \in {erd.graph, Absent}
      BY <1>1 DEF ErdFields
<1>4. place \notin Reading \cup {"scopes", "save", "save text", "write"}
      BY DEF ErdEnds, Reading
<1> QED BY <1>1, <1>2, <1>3, <1>4, MapsTurn

\* Nothing has been drawn.
LEMMA MapsInvInit ==
    ASSUME Init
    PROVE  MapsInv
<1>1. PICK w \in Worlds :
        /\ sn = w.sn
        /\ erd = [at |-> "idle", todo |-> w.requests, req |-> <<>>, version |-> 0,
                  area |-> NoArea, read |-> NoRead, graph |-> Absent]
        /\ archive = Absent /\ doc = Absent
      BY DEF Init
<1>2. IsDictionary(sn)
      BY <1>1, WorldsAssumption
<1> QED BY <1>1, <1>2 DEF MapsInv, ErdFields, ReadFieldsOf, NoRead, Reading

\* The steps of the command that draws, and those of syncs.
LEMMA MapsInvNext ==
    ASSUME SyncsInv, MapsInv, [Next]_vars
    PROVE  MapsInv'
<1>1. CASE UNCHANGED erdVars
      BY <1>1, MapsStay
<1>2. CASE (\E s \in Syncs : SyncStep(s) \/ KillSync(s)) \/ Publish \/ UNCHANGED vars
  <2>1. UNCHANGED erdVars
        BY <1>2 DEF SyncStep, BeginSync, FetchManifest, FetchCatalog, FetchFile, SaveManifest,
             SaveCatalog, WriteTemp, Renamed, DiskRefuses, KillSync, Publish, vars, erdVars
  <2> QED BY <2>1, MapsStay
<1>3. CASE BeginErd \/ ReadScopes
      BY <1>3, BeginErdKeeps, ReadScopesKeeps
<1>4. CASE ReadTables \/ ReadParents \/ ReadFields \/ ReadRelationships
      BY <1>4, ReadTablesKeeps, ReadParentsKeeps, ReadFieldsKeeps, ReadRelationshipsKeeps
<1>5. CASE BuildGraph \/ SaveArchive \/ OpenArchive \/ WriteErd
      BY <1>5, BuildGraphKeeps, SaveArchiveKeeps, OpenArchiveKeeps, WriteErdKeeps
<1>6. CASE RenderImage
      BY <1>6, ErdEndsKeeps DEF RenderImage, ErdOnly, ErdEnds
<1>7. CASE RequestFails
      BY <1>7, ErdEndsKeeps DEF RequestFails, ErdEnds
<1>8. CASE KillErd
      BY <1>8, ErdEndsKeeps DEF KillErd, ErdEnds
<1>9. CASE Change
      BY <1>9, ChangeKeeps
<1> QED BY <1>2, <1>3, <1>4, <1>5, <1>6, <1>7, <1>8, <1>9 DEF Next, ErdStep

\* Spec => []MapsAreTrue: a map of an instance that did not change while it was read
\* is the map of its area, no map has an edge without its tables, and the diagrams of a
\* document draw each edge and each box once, a box for each table with visible columns.
THEOREM MapsTrue == Spec => []MapsAreTrue
<1>1. Init => SyncsInv /\ MapsInv
      BY SyncsInvInit, MapsInvInit
<1>2. SyncsInv /\ MapsInv /\ [Next]_vars => (SyncsInv /\ MapsInv)'
      BY SyncsInvNext, MapsInvNext
<1>3. MapsInv => MapsAreTrue
      BY DEF MapsInv, MapsAreTrue, Good
<1> QED BY <1>1, <1>2, <1>3, PTL DEF Spec
====
