\* task_init ends in a fault.
SPECIFICATION Spec
CHECK_DEADLOCK FALSE
CONSTANTS
  InitTaskUnion <- UnionAt
  Machines <- MCMachines
INVARIANTS
  TypeOK
  ListedTasks
PROPERTY
  NoTaskRuns
