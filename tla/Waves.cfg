\* Lays out every small dependency graph.
SPECIFICATION FairSpec
CONSTANTS
    Keys <- MCKeys
    Inputs <- MCInputs
INVARIANTS
    TypeOK
    SccsAreClasses
    WavesRespectEdges
    WavesAreEarliest
    CyclesAreReported
PROPERTY
    PlannerTerminates
\* A layout that is done stays done.
CHECK_DEADLOCK FALSE
