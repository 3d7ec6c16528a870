SPECIFICATION Spec
CONSTANTS
  app = app
  base = base
  Plugins <- MCPlugins
  MaxVersion = 2
  Programs <- MCApplyPrograms
  Snapshots <- MCApplySnapshots
  Instances <- MCApplyInstances
  MaxAttempts = 1
  MaxPolls = 1
  RefreshCallback = TRUE
PROPERTY RollbackNeverAborts
CHECK_DEADLOCK FALSE
