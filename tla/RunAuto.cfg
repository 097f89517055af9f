SPECIFICATION Spec
CONSTANTS
  Runs <- MCRuns
  Tasks <- MCTasks
  Approvals <- AutoApprovals
  Agents <- MCAgents
  Mode <- MCMode
  RunOf <- MCRunOf
  AgentOf <- MCAgentOf
  TaskOf <- AutoTaskOf
  Root <- MCRoot
  Mutations <- MCMutations
  NoTask = 0
  MaxCrashes = 1
INVARIANTS
  TypeOK
  AtMostOneExecution
  OneLoop
  PlainRunEndsOnce
PROPERTIES
  DecisionIsFinal
  CancelledProducerIsInert
CHECK_DEADLOCK FALSE
