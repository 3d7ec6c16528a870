SPECIFICATION Spec
CONSTANTS
  app = app
  base = base
  Plugins <- MCPlugins
  MaxVersion = 2
  Programs <- MCCallPrograms
  Snapshots <- MCCallSnapshots
  Instances <- MCCallInstances
  MaxAttempts = 2
  MaxPolls = 1
  RefreshCallback = FALSE
INVARIANT WriteNotDuplicated
CHECK_DEADLOCK FALSE
