\* Closes every small selection over every small captured graph.
SPECIFICATION FairClosureSpec
CONSTANTS
    Keys <- MCKeys
    SysIds <- MCSysIds
    Scopes = {"x", "y"}
    Tables = {"script", "role"}
    NoTable = "no table"
    TableOf <- MCTableOf
    NoRecord = NoRecord
    Arguments <- MCArguments
INVARIANTS
    ClosureTypeOK
    ClosureIsLeast
    EdgesWithinPlan
    ReferencesAreAccounted
    ExcludedOnlyAsDetail
PROPERTY
    ClosureTerminates
\* A closure that is done stays done.
CHECK_DEADLOCK FALSE
