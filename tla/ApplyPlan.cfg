SPECIFICATION Spec
CONSTANTS
  app = app
  base = base
  Plugins <- MCPlugins
  MaxVersion = 2
  Programs <- MCApplyPrograms
  Snapshots <- MCApplySnapshots
  Instances <- MCApplyInstances
  MaxAttempts = 1
  MaxPolls = 1
  RefreshCallback = TRUE
INVARIANTS
  TypeOK
  ResultsInOrder
  JobsAreWanted
  ResultsMatchJobs
  ValidatedIdsStayKnown
  InformedRollbackRestores
PROPERTIES
  Termination
  ImplementsSaga
\* The program ends and ServiceNow may run out of jobs: the system stops.
CHECK_DEADLOCK FALSE
