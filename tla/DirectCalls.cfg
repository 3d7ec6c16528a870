SPECIFICATION Spec
CONSTANTS
  app = app
  base = base
  Plugins <- MCPlugins
  MaxVersion = 2
  Programs <- MCCallPrograms
  Snapshots <- MCCallSnapshots
  Instances <- MCCallInstances
  MaxAttempts = 2
  MaxPolls = 1
  RefreshCallback = FALSE
INVARIANTS
  BatchNeverRaises
  BaseNeverUninstalled
  UnforcedRemovalSparesDependents
\* The program ends and ServiceNow may run out of jobs: the system stops.
CHECK_DEADLOCK FALSE
