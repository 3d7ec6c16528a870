---- MODULE SchemaMaps ----
(***************************************************************************)
(* The two catalogs of a GitHub repository and the schema maps drawn with  *)
(* one of them. `nexus sync` fetches the template manifest and then the    *)
(* schema product catalog, and replaces a cached file by each; `nexus      *)
(* schema erd` takes an area from the cached or the bundled catalog, reads *)
(* the data dictionary of an instance by a series of requests, narrows the *)
(* graph, saves it, and writes a document. Syncs run at once, the instance *)
(* changes between two requests, a process is killed, the disk refuses.    *)
(*                                                                         *)
(* The sources are templates/sync.py, templates/registry.py, schema/ and   *)
(* cli/commands_sync.py, cli/commands_schema.py under src/src/nexus. A     *)
(* catalog is the version that was published, 0 for the bundled one. Names *)
(* stand for sys_ids; the pages of one batch are one read; two references  *)
(* of a table to the same table are one, and two columns of a kind.        *)
(***************************************************************************)
EXTENDS Integers, FiniteSets, Sequences, FiniteSetsExt

CONSTANTS Tables,
          Syncs,      \* the processes that run `nexus sync`
          Worlds,     \* configuration, requests, instance and bounds
          Instances,  \* the states an instance may change to
          Catalogs,   \* what the product catalog of each version says
          InBatch,    \* _IN_BATCH
          NoScope,    \* of a table the instance does not have
          NoTable     \* the parent of a table that extends none

\* the two files of a repository
Caches == {"manifest", "catalog"}

\* columns as a diagram tells them apart: sys_id, others named sys_, and the rest
Kinds == {"key", "audit", "own"}

\* preferences.github_repo: a slug, with space around it, with white space around it
\* that no URL may hold, or with such a character inside
RepoNames == {"none", "url", "slug", "padded", "tabbed", "broken"}

\* httpx raises InvalidURL, which is none of its HTTPErrors
Unfetchable == {"tabbed", "broken"}

\* A dictionary refers to tables from columns, and a table extends one that is there.
IsDictionary(i) ==
    /\ NoScope \notin i.scopes
    /\ \A t \in Tables :
         /\ i.tables[t].refs \subseteq Tables /\ i.tables[t].columns \subseteq Kinds
         /\ i.tables[t].refs # {} => i.tables[t].columns \ {"key"} # {}
         /\ i.tables[t].super # NoTable =>
              i.tables[t].super \in Tables /\ i.tables[i.tables[t].super].scope # NoScope

ASSUME InBatchAssumption == InBatch \in Nat \ {0}
ASSUME NoTableAssumption == NoTable \notin Tables
ASSUME InstancesAssumption == \A i \in Instances : IsDictionary(i)
ASSUME CatalogsAssumption ==
    \A v \in DOMAIN Catalogs : \A p \in DOMAIN Catalogs[v] : Catalogs[v][p].targets \subseteq Tables
\* every version of the catalog that is published says something, so does the bundled one
ASSUME WorldsAssumption ==
    \A w \in Worlds :
      /\ w.config \in RepoNames
      /\ w.github \in [Caches -> Nat \ {0}]
      /\ 0..w.github["catalog"] \subseteq DOMAIN Catalogs
      /\ IsDictionary(w.sn)

\* a file that is not there, and one that was not written to its end
Absent == [is |-> "absent"]
Torn == [is |-> "torn"]

VARIABLES config,    \* preferences.github_repo
          github,    \* the versions published now
          manifest,  \* templates/manifest.json
          catalog,   \* schema/catalog.json
          temps,     \* temporary files beside them
          sync,      \* the syncs
          sn,        \* the data dictionary of the instance
          erd,       \* the command that draws
          archive,   \* the snapshot in schema/<instance>/
          doc,       \* the document
          left,      \* what may still happen
          history    \* for the properties only

syncVars == <<github, manifest, catalog, temps, sync>>
erdVars == <<sn, erd, archive, doc>>
vars == <<config, syncVars, erdVars, left, history>>

NoArea == [key |-> <<>>, scopes |-> {}, targets |-> {}]
\* what a discovery has read, and the instance it began with
NoRead == [meta |-> <<>>, parents |-> {}, unread |-> {}, refs |-> {}, columns |-> {}, rels |-> {},
           of |-> Absent]

Init ==
    \E w \in Worlds :
      /\ config = w.config
      /\ github = w.github
      /\ manifest = Absent /\ catalog = Absent /\ temps = {}
      /\ sync = [s \in Syncs |-> [at |-> "start", wire |-> 0, wrote |-> {}]]
      /\ sn = w.sn
      /\ erd = [at |-> "idle", todo |-> w.requests, req |-> <<>>, version |-> 0, area |-> NoArea,
                read |-> NoRead, graph |-> Absent]
      /\ archive = Absent
      /\ doc = Absent
      /\ left = w.left
      /\ history = [overlap |-> FALSE, newest |-> [f \in Caches |-> 0]]

(***************************************************************************)
(* nexus sync                                                              *)
(***************************************************************************)
SyncAt(s, place) == sync[s].at = place

SyncEnds == {"refused", "failed", "raised", "done", "killed"}

SyncBecomes(s, new) == sync' = [sync EXCEPT ![s] = new]

SyncGoto(s, place) == SyncBecomes(s, [sync[s] EXCEPT !.at = place])

\* validate_github_repo: surrounding space and a trailing slash are taken off,
\* a URL is refused
Canonical(repo) == IF repo \in {"padded", "tabbed"} THEN "slug" ELSE repo

Overlapping(s) == \E r \in Syncs \ {s} : sync[r].at \notin SyncEnds \cup {"start"}

\* _sync_main loads the configuration, GitHubSync.run looks at the repository's name
BeginSync(s) ==
    /\ SyncAt(s, "start") /\ left.syncs > 0
    /\ left' = [left EXCEPT !.syncs = @ - 1]
    /\ SyncGoto(s, IF config \in {"none", "url"} THEN "refused" ELSE "fetch manifest")
    /\ history' = [history EXCEPT !.overlap = @ \/ Overlapping(s)]
    /\ UNCHANGED <<config, github, manifest, catalog, temps, erdVars>>

\* every failure of a fetch comes back as None, but for a name that makes no URL
FetchFile(s, place, repo, wire, next, failed) ==
    /\ SyncAt(s, place)
    /\ \/ repo \notin Unfetchable /\ SyncBecomes(s, [sync[s] EXCEPT !.at = next, !.wire = wire])
       \/ repo \notin Unfetchable /\ SyncGoto(s, failed)
       \/ repo \in Unfetchable /\ SyncGoto(s, "raised")
    /\ UNCHANGED <<config, github, manifest, catalog, temps, erdVars, left, history>>

WriteTemp(s, place, next) ==
    /\ SyncAt(s, place)
    /\ temps' = temps \cup {s}
    /\ SyncGoto(s, next)
    /\ UNCHANGED <<config, github, manifest, catalog, erdVars, left, history>>

\* an OSError anywhere in a save: the temporary file is removed
DiskRefuses(s, places, failed) ==
    /\ sync[s].at \in places /\ left.disk > 0
    /\ left' = [left EXCEPT !.disk = @ - 1]
    /\ temps' = temps \ {s}
    /\ SyncGoto(s, failed)
    /\ UNCHANGED <<config, github, manifest, catalog, erdVars, history>>

Newest(newest, file, version) ==
    [newest EXCEPT ![file] = IF newest[file] < version THEN version ELSE newest[file]]

Renamed(s, file, next) ==
    /\ temps' = temps \ {s}
    /\ SyncBecomes(s, [sync[s] EXCEPT !.at = next, !.wrote = @ \cup {file}])
    /\ history' = [history EXCEPT !.newest = Newest(history.newest, file, sync[s].wire)]
    /\ UNCHANGED <<config, github, erdVars, left>>

FetchManifest(s) ==
    FetchFile(s, "fetch manifest", Canonical(config), github["manifest"], "save manifest", "failed")

\* Variant: the manifest is written in place, not beside it
SaveManifest_InPlace(s) ==
    \/ /\ SyncAt(s, "save manifest")
       /\ manifest' = Torn
       /\ SyncGoto(s, "rename manifest")
       /\ UNCHANGED <<config, github, catalog, temps, erdVars, left, history>>
    \/ /\ SyncAt(s, "rename manifest")
       /\ manifest' = [version |-> sync[s].wire, repo |-> Canonical(config)]
       /\ Renamed(s, "manifest", "fetch catalog")
       /\ UNCHANGED catalog
    \/ DiskRefuses(s, {"save manifest", "rename manifest"}, "failed")

\* save_manifest
SaveManifest(s) ==
    \/ WriteTemp(s, "save manifest", "rename manifest")
    \/ /\ SyncAt(s, "rename manifest")
       /\ manifest' = [version |-> sync[s].wire, repo |-> Canonical(config)]
       /\ Renamed(s, "manifest", "fetch catalog")
       /\ UNCHANGED catalog
    \/ DiskRefuses(s, {"save manifest", "rename manifest"}, "failed")

\* _sync_schema_catalog takes the repository's name as it was configured, and
\* whatever else becomes of the catalog the command succeeds
FetchCatalog(s) ==
    FetchFile(s, "fetch catalog", config, github["catalog"], "save catalog", "done")

SaveCatalog(s) ==
    \/ WriteTemp(s, "save catalog", "rename catalog")
    \/ /\ SyncAt(s, "rename catalog")
       /\ catalog' = [version |-> sync[s].wire, repo |-> config]
       /\ Renamed(s, "catalog", "done")
       /\ UNCHANGED manifest
    \/ DiskRefuses(s, {"save catalog", "rename catalog"}, "done")

SyncStep(s) == BeginSync(s) \/ FetchManifest(s) \/ SaveManifest(s) \/ FetchCatalog(s) \/ SaveCatalog(s)

\* _render_sync_report; an exception ends the command with 1
ExitCode(s) == IF SyncAt(s, "done") THEN 0 ELSE 1

(***************************************************************************)
(* The cached files as they are read                                       *)
(***************************************************************************)
\* load_manifest: None when there is none or it cannot be parsed
LoadManifest == IF manifest \in {Absent, Torn} THEN Absent ELSE manifest

\* load_cached, in the same way
LoadCached == IF catalog \in {Absent, Torn} THEN Absent ELSE catalog

\* load_catalog: the synced catalog or the bundled one
LoadCatalog == IF LoadCached = Absent THEN 0 ELSE LoadCached.version

(***************************************************************************)
(* nexus schema erd: the area                                              *)
(***************************************************************************)
At(place) == erd.at = place

ErdEnds == {"written", "usage", "failed", "killed"}

\* SchemaProductCatalog.resolve
Knows(version, product) == product \in DOMAIN Catalogs[version]
Product(version, product) == Catalogs[version][product]

\* the products a request names, and what the command refuses
Usable(version, ps) ==
    /\ \A i \in DOMAIN ps : Knows(version, ps[i])
    /\ \E i \in DOMAIN ps : Product(version, ps[i]).scopes # {}

\* _build_schema_area: the scopes and the targets of both products; with a
\* product that has no scopes, its targets only
AreaOf(version, ps) ==
    LET scoped == {i \in DOMAIN ps : Product(version, ps[i]).scopes # {}}
    IN  [key |-> ps,
         scopes |-> UNION {Product(version, ps[i]).scopes : i \in scoped},
         targets |-> IF Cardinality(scoped) = Len(ps)
                     THEN UNION {Product(version, ps[i]).targets : i \in DOMAIN ps}
                     ELSE UNION {Product(version, ps[i]).targets : i \in DOMAIN ps \ scoped}]


Request(next) == [erd EXCEPT !.at = next, !.req = Head(erd.todo), !.todo = Tail(@),
                             !.version = LoadCatalog, !.read = NoRead, !.graph = Absent]

\* schema_erd: the catalog is loaded once, when the command begins
BeginErd ==
    /\ erd.at \in ErdEnds \cup {"idle"} /\ erd.todo # <<>>
    /\ LET r == Head(erd.todo)
       IN  erd' = IF r.save /\ r.from THEN Request("usage")
                  ELSE IF r.from THEN Request("open")
                  ELSE IF ~Usable(LoadCatalog, r.products) THEN Request("usage")
                  ELSE [Request("scopes") EXCEPT !.area = AreaOf(LoadCatalog, r.products)]
    /\ UNCHANGED <<config, syncVars, sn, archive, doc, left, history>>

(***************************************************************************)
(* SchemaDiscoverer.discover: one action per request                       *)
(***************************************************************************)
ErdOnly == UNCHANGED <<config, syncVars, sn, archive, doc, left, history>>

Exists(t) == sn.tables[t].scope # NoScope

\* sys_scope: scopes the instance lacks are skipped, if any are left
ReadScopes ==
    /\ At("scopes")
    /\ LET keys == erd.area.scopes \cap sn.scopes
       IN  erd' = IF keys = {} THEN [erd EXCEPT !.at = "failed"]
                  ELSE [erd EXCEPT !.at = "tables", !.read.unread = keys,
                                   !.read.of = [sn |-> sn, moved |-> FALSE]]
    /\ ErdOnly

\* _batched_in: the values of the next request
Batches(values) == kSubset(Min({InBatch, Cardinality(values)}), values)

\* what is read after a batch: more of the same, or the next table
Then(read, place, next, values) ==
    IF read.unread # {} THEN [erd EXCEPT !.at = place, !.read = read]
    ELSE [erd EXCEPT !.at = next, !.read = [read EXCEPT !.unread = values]]

Supers(meta) == {meta[t].super : t \in DOMAIN meta} \ {NoTable}

\* sys_db_object of the scopes
ReadTables ==
    /\ At("tables")
    /\ \E b \in Batches(erd.read.unread) :
         LET found == {t \in Tables : sn.tables[t].scope \in b}
             meta == [t \in DOMAIN erd.read.meta \cup found |->
                        IF t \in found THEN [scope |-> sn.tables[t].scope, super |-> sn.tables[t].super]
                        ELSE erd.read.meta[t]]
             read == [erd.read EXCEPT !.meta = meta, !.unread = @ \ b]
         IN  erd' = Then(read, "tables", "parents", Supers(meta) \ DOMAIN meta)
    /\ ErdOnly

\* sys_db_object of the parents outside the area
ReadParents ==
    /\ At("parents")
    /\ IF erd.read.unread = {} THEN erd' = Then(erd.read, "parents", "fields", DOMAIN erd.read.meta)
       ELSE \E b \in Batches(erd.read.unread) :
              LET read == [erd.read EXCEPT !.parents = @ \cup {t \in b : Exists(t)}, !.unread = @ \ b]
              IN  erd' = Then(read, "parents", "fields", DOMAIN read.meta)
    /\ ErdOnly

\* sys_dictionary of the tables of the area
ReadFields ==
    /\ At("fields")
    /\ IF erd.read.unread = {} THEN erd' = [erd EXCEPT !.at = "build"]
       ELSE \E b \in Batches(erd.read.unread) :
              LET found == {t \in b : Exists(t)}
                  refs == UNION {{t} \X sn.tables[t].refs : t \in found}
                  columns == UNION {{t} \X sn.tables[t].columns : t \in found}
                  read == [erd.read EXCEPT !.refs = @ \cup refs, !.columns = @ \cup columns,
                                           !.unread = @ \ b]
              IN  erd' = Then(read, "fields", "apply_to", DOMAIN read.meta)
    /\ ErdOnly

\* sys_relationship, by either end; what both passes return is one
ReadRelationships ==
    /\ erd.at \in {"apply_to", "query_from"}
    /\ \E b \in Batches(erd.read.unread) :
         LET side == IF At("apply_to") THEN 1 ELSE 2
             read == [erd.read EXCEPT !.rels = @ \cup {r \in sn.rels : r[side] \in b}, !.unread = @ \ b]
         IN  erd' = IF side = 1 THEN Then(read, "apply_to", "query_from", DOMAIN read.meta)
                    ELSE Then(read, "query_from", "build", {})
    /\ ErdOnly

ScopeIn(meta, t) == IF t \in DOMAIN meta THEN meta[t].scope ELSE NoScope

\* the graph of all that was read; a neighbor is the end of an edge outside the area
GraphOf(area, read) ==
    LET meta == read.meta
        inhs == {<<t, meta[t].super>> : t \in {t \in DOMAIN meta : meta[t].super \in DOMAIN meta \cup read.parents}}
    IN  [area |-> area,
         scope |-> [t \in DOMAIN meta |-> meta[t].scope],
         neighbors |-> ({e[2] : e \in read.refs} \cup {e[2] : e \in inhs}) \ DOMAIN meta,
         columns |-> read.columns,
         refs |-> read.refs,
         inhs |-> inhs,
         rels |-> read.rels,
         cross |-> {e \in read.refs : ScopeIn(meta, e[1]) # ScopeIn(meta, e[2])},
         of |-> read.of]

\* Variant: the neighbors of the tables next to a target are dropped
Bridge_TargetsOnly(graph) ==
    LET targets == graph.area.targets
        seed == {e[1] : e \in {e \in graph.refs : e[2] \in targets}}
        keep == seed \cup targets
        Within(edges) == {e \in edges : e[1] \in keep /\ e[2] \in keep}
    IN  [graph EXCEPT !.scope = [t \in DOMAIN graph.scope \cap keep |-> graph.scope[t]],
                      !.neighbors = @ \cap keep,
                      !.columns = {c \in graph.columns : c[1] \in keep},
                      !.refs = Within(graph.refs), !.inhs = Within(graph.inhs),
                      !.rels = Within(graph.rels), !.cross = Within(graph.cross)]

\* bridge_subgraph: the targets, what refers to one, and the neighbors of that
Bridge(graph) ==
    LET targets == graph.area.targets
        seed == {e[1] : e \in {e \in graph.refs : e[2] \in targets}}
        keep == seed \cup targets \cup {e[2] : e \in {e \in graph.refs : e[1] \in seed}}
                     \cup {e[1] : e \in {e \in graph.refs : e[2] \in seed}}
        Within(edges) == {e \in edges : e[1] \in keep /\ e[2] \in keep}
    IN  [graph EXCEPT !.scope = [t \in DOMAIN graph.scope \cap keep |-> graph.scope[t]],
                      !.neighbors = @ \cap keep,
                      !.columns = {c \in graph.columns : c[1] \in keep},
                      !.refs = Within(graph.refs), !.inhs = Within(graph.inhs),
                      !.rels = Within(graph.rels), !.cross = Within(graph.cross)]

BuildGraph ==
    /\ At("build")
    /\ LET whole == GraphOf(erd.area, erd.read)
       IN  erd' = [erd EXCEPT !.at = IF erd.req.save THEN "save" ELSE "write", !.read = NoRead,
                              !.graph = IF erd.area.targets = {} THEN whole ELSE Bridge(whole)]
    /\ ErdOnly

(***************************************************************************)
(* The snapshot and the document                                           *)
(***************************************************************************)
\* SchemaArchiveWriter.write: in place
SaveArchive ==
    /\ erd.at \in {"save", "save text"}
    /\ IF At("save") THEN archive' = Torn /\ erd' = [erd EXCEPT !.at = "save text"]
       ELSE archive' = erd.graph /\ erd' = [erd EXCEPT !.at = "write"]
    /\ UNCHANGED <<config, syncVars, sn, doc, left, history>>

\* SchemaArchiveReader.read: a missing or invalid file is an error
OpenArchive ==
    /\ At("open")
    /\ erd' = IF archive \in {Absent, Torn} THEN [erd EXCEPT !.at = "failed"]
              ELSE [erd EXCEPT !.at = "write", !.graph = archive]
    /\ UNCHANGED <<config, syncVars, sn, archive, doc, left, history>>

\* _field_lines: every table of the area with all its columns
Fields(graph) == [t \in DOMAIN graph.scope |-> {c[2] : c \in {c \in graph.columns : c[1] = t}}]

\* _entity_attributes: columns named sys_ are hidden, but for the key
Attributes(columns) == columns \ {"audit"}

\* _entity_block: a table without attributes has no box
EntityBlocks(graph, tables) == {t \in tables : Attributes(Fields(graph)[t]) # {}}

\* diagram: the boxes of the tables of the area, and all edges, which may end at
\* a name without a box
Diagram(graph) ==
    [boxes |-> EntityBlocks(graph, DOMAIN graph.scope), refs |-> graph.refs, inhs |-> graph.inhs]

\* group_diagrams: one diagram per scope, an edge belongs where it starts
GroupDiagrams(graph) ==
    [scope \in {graph.scope[t] : t \in DOMAIN graph.scope} |->
       LET Owned(t) == t \in DOMAIN graph.scope /\ graph.scope[t] = scope
       IN  [boxes |-> EntityBlocks(graph, {t \in DOMAIN graph.scope : Owned(t)}),
            refs |-> {e \in graph.refs : Owned(e[1])}, inhs |-> {e \in graph.inhs : Owned(e[1])}]]

\* render and render_grouped: the diagrams, the cross-scope bridges and the fields
WriteErd ==
    /\ At("write")
    /\ doc' = [diagrams |-> IF erd.req.grouped THEN GroupDiagrams(erd.graph)
                            ELSE [scope \in {NoScope} |-> Diagram(erd.graph)],
               cross |-> erd.graph.cross, fields |-> Fields(erd.graph), graph |-> erd.graph]
    /\ erd' = [erd EXCEPT !.at = IF erd.req.image THEN "image" ELSE "written"]
    /\ UNCHANGED <<config, syncVars, sn, archive, left, history>>

\* KrokiClient.render: the document stays when the service fails
RenderImage ==
    /\ At("image")
    /\ \E at \in {"written", "failed"} : erd' = [erd EXCEPT !.at = at]
    /\ ErdOnly

ErdStep ==
    \/ BeginErd \/ ReadScopes \/ ReadTables \/ ReadParents \/ ReadFields \/ ReadRelationships
    \/ BuildGraph \/ SaveArchive \/ OpenArchive \/ WriteErd \/ RenderImage

(***************************************************************************)
(* What happens meanwhile                                                  *)
(***************************************************************************)
Publish ==
    /\ left.publish > 0
    /\ \E f \in Caches :
         /\ f = "catalog" => github["catalog"] + 1 \in DOMAIN Catalogs
         /\ github' = [github EXCEPT ![f] = @ + 1]
    /\ left' = [left EXCEPT !.publish = @ - 1]
    /\ UNCHANGED <<config, manifest, catalog, temps, sync, erdVars, history>>

\* a discovery has begun to read, and has not built its graph
Reading == {"tables", "parents", "fields", "apply_to", "query_from", "build"}

\* somebody works on the instance
Change ==
    /\ left.changes > 0
    /\ sn' \in Instances \ {sn}
    /\ left' = [left EXCEPT !.changes = @ - 1]
    /\ erd' = IF erd.at \in Reading THEN [erd EXCEPT !.read.of.moved = TRUE] ELSE erd
    /\ UNCHANGED <<config, syncVars, archive, doc, history>>

\* a request to the instance fails
RequestFails ==
    /\ erd.at \in {"scopes", "tables", "parents", "fields", "apply_to", "query_from"}
    /\ left.faults > 0
    /\ erd' = [erd EXCEPT !.at = "failed", !.read = NoRead]
    /\ left' = [left EXCEPT !.faults = @ - 1]
    /\ UNCHANGED <<config, syncVars, sn, archive, doc, history>>

KillSync(s) ==
    /\ left.kills > 0 /\ sync[s].at \notin SyncEnds \cup {"start"}
    /\ SyncGoto(s, "killed")
    /\ left' = [left EXCEPT !.kills = @ - 1]
    /\ UNCHANGED <<config, github, manifest, catalog, temps, erdVars, history>>

KillErd ==
    /\ left.kills > 0 /\ erd.at \notin ErdEnds \cup {"idle"}
    /\ erd' = [erd EXCEPT !.at = "killed", !.read = NoRead, !.graph = Absent]
    /\ left' = [left EXCEPT !.kills = @ - 1]
    /\ UNCHANGED <<config, syncVars, sn, archive, doc, history>>

Next ==
    \/ \E s \in Syncs : SyncStep(s) \/ KillSync(s)
    \/ ErdStep \/ KillErd \/ RequestFails
    \/ Publish \/ Change

Spec == Init /\ [][Next]_vars

(***************************************************************************)
(* Properties                                                              *)
(***************************************************************************)
Synced(file, f) ==
    file # Absent =>
      /\ file # Torn
      /\ file.version \in 1..github[f]
      /\ ~history.overlap => file.version = history.newest[f]

\* the cached files are whole, published, and not older than what was cached before
CachesArePublished ==
    /\ Synced(manifest, "manifest")
    /\ Synced(catalog, "catalog")
    /\ \A s \in temps : sync[s].at \in {"rename manifest", "rename catalog", "killed"}

\* the exit code of `nexus sync` is about the templates
ReportsAreTrue ==
    \A s \in Syncs :
      sync[s].at \in SyncEnds \ {"killed"} =>
        IF ExitCode(s) = 0 THEN "manifest" \in sync[s].wrote
        ELSE sync[s].wrote = {} \/ (SyncAt(s, "raised") /\ config = "tabbed")

\* A sync that is killed, refused by the disk or answered with an error never
\* damages a cached catalog, which is whole and was published; while no two
\* syncs overlap, none replaces a catalog by an older one, and a temporary file
\* that stays behind is of a sync that was killed. A sync exits with 0 only if it
\* has replaced the manifest, and with 1 only if it has changed nothing, not
\* even the other catalog, unless the second fetch raised over the white space
\* around the configured name, which the first had stripped; the manifest names
\* the repository in canonical form.
SyncsAreHonest ==
    /\ CachesArePublished
    /\ ReportsAreTrue
    /\ manifest \notin {Absent, Torn} => manifest.repo = "slug"

\* what an area of an instance is, by its definition
InArea(i, area) == {t \in Tables : i.tables[t].scope \in area.scopes \cap i.scopes}

TrueRefs(i, area) == {e \in Tables \X Tables : e[1] \in InArea(i, area) /\ e[2] \in i.tables[e[1]].refs}

TrueColumns(i, area) == {c \in InArea(i, area) \X Kinds : c[2] \in i.tables[c[1]].columns}

\* a target, a table next to one, or a table next to a table that refers to one
Near(i, area) ==
    IF area.targets = {} THEN Tables
    ELSE LET refs == TrueRefs(i, area)
         IN  area.targets \cup
             {t \in Tables : \E m \in Tables, u \in area.targets :
                <<m, u>> \in refs /\ (t = m \/ <<t, m>> \in refs \/ <<m, t>> \in refs)}

TrueOf(graph) ==
    LET i == graph.of.sn
        near == Near(i, graph.area)
        tables == InArea(i, graph.area) \cap near
    IN  /\ DOMAIN graph.scope = tables
        /\ \A t \in tables : graph.scope[t] = i.tables[t].scope
        /\ graph.columns = {c \in TrueColumns(i, graph.area) : c[1] \in near}
        /\ graph.refs = TrueRefs(i, graph.area) \cap (near \X near)
        /\ graph.inhs = {e \in tables \X near : i.tables[e[1]].super = e[2]}
        /\ graph.cross = {e \in graph.refs : i.tables[e[1]].scope # i.tables[e[2]].scope}
        /\ \A r \in i.rels : r[1] \in tables /\ r[2] \in tables => r \in graph.rels

\* every reference and every parent leads from a table of the area to one of the map
Closed(graph) ==
    \A e \in graph.refs \cup graph.inhs :
      e[1] \in DOMAIN graph.scope /\ e[2] \in DOMAIN graph.scope \cup graph.neighbors

\* the parts make up the whole, and none of it is in two of them
Parted(part, whole) ==
    /\ UNION {part[g] : g \in DOMAIN part} = whole
    /\ \A g, h \in DOMAIN part : g # h => part[g] \cap part[h] = {}

DiagramsPartition ==
    LET d == doc.diagrams
        listed == DOMAIN doc.fields
    IN  /\ listed = DOMAIN doc.graph.scope
        /\ Parted([g \in DOMAIN d |-> d[g].boxes], {t \in listed : ~(doc.fields[t] \subseteq {"audit"})})
        /\ Parted([g \in DOMAIN d |-> d[g].refs], doc.graph.refs)
        /\ Parted([g \in DOMAIN d |-> d[g].inhs], doc.graph.inhs)

\* A map, live or from a snapshot that opens, shows the area as the instance had
\* it, narrowed to the targets, if nothing changed while it was read; whatever
\* changed meanwhile, no edge leads to a table the map does not have. The document
\* lists every table of the map with its fields, and its diagrams, one or one per
\* scope, together draw every edge, and a box for every table listed with a column
\* other than audit columns, each once. A table without such a column has no box:
\* it is drawn where an edge names it, or not at all.
MapsAreTrue ==
    /\ \A graph \in {erd.graph, archive} \ {Absent, Torn} :
         Closed(graph) /\ (~graph.of.moved => TrueOf(graph))
    /\ doc # Absent => DiagramsPartition
====
