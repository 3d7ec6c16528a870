\* From the checklist to the recheck; the rechecks may go on for ever.
SPECIFICATION PreSpec
CONSTANTS
    Ids <- MCIds
    Keys <- MCKeys
    Tables <- MCTables
    KeyOf <- MCKeyOf
    ScopeOf <- MCScopeOf
    TableOf <- MCTableOf
    CustomScopes = {"x_app"}
    GlobalScope = "global"
    References <- MCReferences
    NoFile = NoFile
    Worlds <- MCWorlds
    MaxEdits = 1
    MaxFailures = 1
    MaxPlans = 2
    MaxMarks = 3
INVARIANTS ChecksAreTrue RunbookIsHonest
