\* The two catalogs, and the maps drawn with one of them.
SPECIFICATION Spec
CONSTANTS
    one = one
    two = two
    task = task
    asset = asset
    item = item
    ci = ci
    Tables = {task, asset, item, ci}
    Syncs = {one, two}
    InBatch = 2
    NoScope = noscope
    NoTable = notable
    Worlds <- MCWorlds
    Instances <- MCInstances
    Catalogs <- MCCatalogs
INVARIANTS
    SyncsAreHonest
    MapsAreTrue
\* The commands end.
CHECK_DEADLOCK FALSE
