SPECIFICATION Spec
CONSTANTS
  Runs <- SoloRuns
  Tasks <- SoloTasks
  Approvals <- BatchApprovals
  Agents <- BatchAgents
  Mode <- MCMode
  RunOf <- MCRunOf
  AgentOf <- BatchAgentOf
  TaskOf <- BatchTaskOf
  Root <- MCRoot
  Mutations <- MCMutations
  NoTask = 0
  MaxCrashes = 1
INVARIANTS
  CompletedWritesWereRun
  SuccessIsLogged
CHECK_DEADLOCK FALSE
