---- MODULE MCSchemaMaps ----
(* Small instances of SchemaMaps. *)
EXTENDS SchemaMaps, TLC

CONSTANTS one, two, task, asset, item, ci

Columns(columns, scope, super, refs) ==
    [scope |-> scope, super |-> super, refs |-> refs, columns |-> columns]
Table(scope, super, refs) == Columns(Kinds, scope, super, refs)
\* a table whose only columns are audit columns, one of which may be a reference
Audited(scope, super, refs) == Columns({"audit"}, scope, super, refs)
Gone == Columns({}, NoScope, NoTable, {})

Dictionary(a, b, c) ==
    (task :> a) @@ (asset :> b) @@ (item :> c) @@ (ci :> Columns({"key"}, "global", NoTable, {}))

Holds(scopes, a, b, c, rels) == [scopes |-> scopes, tables |-> Dictionary(a, b, c), rels |-> rels]

\* two scopes, a table of the global scope, a parent in the area and one outside
Full == Holds({"x", "y"}, Table("x", NoTable, {item}), Audited("x", task, {ci}), Table("y", ci, {task, asset}),
              {<<task, asset>>, <<item, ci>>})

MCInstances ==
    {Full,
     Holds({"x"}, Table("x", NoTable, {item}), Table("x", task, {ci}), Table("global", ci, {}), {<<task, ci>>}),
     Holds({"x", "y"}, Table("y", NoTable, {task}), Gone, Table("x", ci, {asset}), {}),
     Holds({"y"}, Gone, Table("y", item, {ci, asset}), Table("global", NoTable, {}), {<<asset, item>>}),
     Holds({"x"}, Audited("x", NoTable, {}), Columns({}, "x", ci, {}), Table("x", NoTable, {ci}), {}),
     Holds({}, Gone, Gone, Gone, {})}

Says(scopes, targets) == [scopes |-> scopes, targets |-> targets]

\* the bundled catalog, one that knows a product more, one that lost another
MCCatalogs ==
    (0 :> ("hw" :> Says({"x"}, {}) @@ "db" :> Says({}, {ci})))
    @@ (1 :> ("hw" :> Says({"x", "y"}, {}) @@ "sw" :> Says({"y"}, {task}) @@ "db" :> Says({}, {ci})))
    @@ (2 :> ("sw" :> Says({"x", "y"}, {asset}) @@ "db" :> Says({}, {ci})))

Left(syncs, publish, disk, changes, kills) ==
    [syncs |-> syncs, publish |-> publish, disk |-> disk, changes |-> changes, kills |-> kills, faults |-> 1]

Erd(products, grouped, save, image) ==
    [products |-> products, grouped |-> grouped, save |-> save, from |-> FALSE, image |-> image]
FromArchive(grouped) == [products |-> <<"hw">>, grouped |-> grouped, save |-> FALSE, from |-> TRUE, image |-> TRUE]

World(repo, manifestVersion, instance, requests, bounds) ==
    [config |-> repo, github |-> [manifest |-> manifestVersion, catalog |-> 1], sn |-> instance,
     requests |-> requests, left |-> bounds]

\* two syncs at once under every configuration; a map before, during or after a
\* sync; maps of every instance that changes; a snapshot and a second command
MCWorlds ==
    {World(repo, 1, Full, <<>>, Left(2, 2, 1, 0, 1)) : repo \in RepoNames}
    \cup {World("slug", 1, Full, <<Erd(<<p>>, FALSE, FALSE, FALSE)>>, Left(1, 1, 0, 0, 0)) :
            p \in {"hw", "sw", "db"}}
    \cup {World("none", 1, i, <<Erd(ps, g, FALSE, FALSE)>>, Left(0, 0, 0, 1, 0)) :
            i \in MCInstances, g \in BOOLEAN, ps \in {<<"hw">>, <<"hw", "db">>, <<"db">>, <<"hw", "nil">>}}
    \cup {World("slug", 1, i, <<Erd(ps, TRUE, FALSE, FALSE)>>, Left(1, 0, 0, 1, 0)) :
            i \in MCInstances, ps \in {<<"hw">>, <<"sw">>, <<"hw", "sw">>, <<"db", "hw">>}}
    \cup {World("none", 1, Full, <<Erd(<<"hw">>, FALSE, TRUE, TRUE), FromArchive(g)>>, Left(0, 0, 0, 1, 1)) :
            g \in BOOLEAN}
    \cup {World("none", 1, Full, <<[FromArchive(TRUE) EXCEPT !.save = TRUE]>>, Left(0, 0, 0, 0, 0))}
====
