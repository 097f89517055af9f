SPECIFICATION Spec
CONSTANTS
  Runs <- MCRuns
  Tasks <- MCTasks
  Approvals <- DirectApprovals
  Agents <- MCAgents
  Mode <- MCMode
  RunOf <- MCRunOf
  AgentOf <- MCAgentOf
  TaskOf <- DirectTaskOf
  Root <- MCRoot
  Mutations <- MCMutations
  NoTask = 0
  MaxCrashes = 1
INVARIANTS
  AtMostOneExecution
  SuccessIsLogged
CHECK_DEADLOCK FALSE
