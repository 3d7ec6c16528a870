\* Pulls, pushes, applies and assessments of two processes.
SPECIFICATION AssessSpec
CONSTANTS
    one = one
    two = two
    Procs = {one, two}
    Rows <- MCRows
    NoParent = 0
    ParentOf <- MCParentOf
    Steps = 3
    StepOf <- MCStepOf
    TableOf <- MCTableOf
    ValueOf <- MCValueOf
    AnyValue = AnyValue
    AnyTable = AnyTable
    PageSize = 2
    TemplateRows <- MCTemplateRows
    Nothing = Nothing
    Worlds <- MCWorlds
INVARIANTS
    ArchiveIsWhole
    OneSetPerName
    ReportedSetHoldsAll
    VerdictIsEarned
\* The programs end.
CHECK_DEADLOCK FALSE
