---------------------------- MODULE ConfigTables ----------------------------
(***************************************************************************)
(* The configuration tables of a ServiceNow instance and the ways NEXUS    *)
(* reads them: scope discovery (capture/scope.py), the lightweight listing *)
(* behind the checklist and the recheck (cli/commands_assess_replatform.py,*)
(* cli/migrate_wiring.py) and the capture of the artifacts that a          *)
(* selection names (capture/fetcher.py, migrate/capture_bridge.py).        *)
(*                                                                         *)
(* What an instance holds is a function from sys_ids to rows:              *)
(*   stamp   sys_updated_on, the fingerprint of the recheck                *)
(*   custom  sys_customer_update                                           *)
(* The natural key of a row (scope|table|name) does not change; two rows   *)
(* may share one, as access controls on one resource do.  A table that is  *)
(* absent on an instance (HTTP 400/404, skipped by every reader) is one    *)
(* without rows.  Rows of related tables are read along with their parent  *)
(* and left out, like the pages of a listing: see ConfigTransport.         *)
(***************************************************************************)
EXTENDS Naturals, FiniteSets

CONSTANTS
    Ids,            \* sys_ids
    Keys,           \* natural keys
    Tables,         \* the tables of the covered groups
    KeyOf,          \* the natural key of a row
    ScopeOf,        \* the application scope a natural key names
    TableOf,        \* the table a natural key names
    CustomScopes,   \* the scopes with a prefix of CUSTOM_SCOPE_PREFIXES
    GlobalScope     \* any other scope is a vendor's

ASSUME KeysAssumption ==
    KeyOf \in [Ids -> Keys] /\ TableOf \in [Keys -> Tables] /\ DOMAIN ScopeOf = Keys
ASSUME ScopesAssumption == GlobalScope \notin CustomScopes
ASSUME FiniteAssumption == IsFiniteSet(Ids) /\ IsFiniteSet(Tables)

Row == [stamp : Nat, custom : BOOLEAN]
IsTables(rows) == DOMAIN rows \subseteq Ids /\ rows \in [DOMAIN rows -> Row]

ScopeOfRow(id) == ScopeOf[KeyOf[id]]
TableOfRow(id) == TableOf[KeyOf[id]]

\* ScopeDiscoverer.discover over some tables: the scopes with a
\* customer-updated row.  A count that failed, for whatever reason, is
\* logged, and the table adds nothing.
Discovered(rows, tables, failed) ==
    {ScopeOfRow(id) : id \in {r \in DOMAIN rows : /\ rows[r].custom
                                                 /\ TableOfRow(r) \in tables \ failed}}

\* _list_artifacts_live, _list_baseline_live: every row of a discovered
\* custom scope, and the customer-updated rows of the global one.
Listed(rows, failed) ==
    LET found == Discovered(rows, Tables, failed)
    IN  {id \in DOMAIN rows :
            \/ ScopeOfRow(id) \in found \cap CustomScopes
            \/ ScopeOfRow(id) = GlobalScope /\ GlobalScope \in found /\ rows[id].custom}

\* The scopes of a selection that are found over the tables it names.
ResolvedScopes(rows, keys, failed) ==
    {ScopeOf[key] : key \in keys} \cap Discovered(rows, {TableOf[key] : key \in keys}, failed)

\* build_capture_for_selection: of those scopes the customer-updated rows
\* whose natural key is selected, whatever the disposition.
Captured(rows, keys, failed) ==
    {id \in DOMAIN rows : /\ rows[id].custom
                         /\ KeyOf[id] \in keys
                         /\ ScopeOfRow(id) \in ResolvedScopes(rows, keys, failed)}

\* The rows as they were read.
Stamps(rows, ids) == [id \in ids |-> rows[id].stamp]
=============================================================================
