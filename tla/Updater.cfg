\* Several processes on the day of a release.
SPECIFICATION FairSpec
CONSTANTS
    one = one
    two = two
    three = three
    Procs = {one, two, three}
    Nobody = nobody
    Interval = 1
    Worlds <- MCWorlds
INVARIANTS
    InstallsExclusive
    VersionNeverFalls
PROPERTY
    EveryCommandEnds
\* Every process ends.
CHECK_DEADLOCK FALSE
