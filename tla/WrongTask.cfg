SPECIFICATION Spec
CONSTANTS
  Runs <- SoloRuns
  Tasks <- SoloTasks
  Approvals <- AutoApprovals
  Agents <- MCAgents
  Mode <- MCMode
  RunOf <- MCRunOf
  AgentOf <- MCAgentOf
  TaskOf <- AutoTaskOf
  Root <- MCRoot
  Mutations <- MCMutations
  NoTask = 0
  MaxCrashes = 1
INVARIANTS
  CompletedWritesWereRun
CHECK_DEADLOCK FALSE
