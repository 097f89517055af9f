SPECIFICATION FairSpec
CONSTANTS
  Runs <- SoloRuns
  Tasks <- SoloTasks
  Approvals <- AutoApprovals
  Agents <- MCAgents
  Mode <- MCMode
  RunOf <- MCRunOf
  AgentOf <- MCAgentOf
  TaskOf <- AutoTaskOf
  Root <- MCRoot
  Mutations <- MCMutations
  NoTask = 0
  MaxCrashes = 1
PROPERTIES
  EveryDecisionSettles
  EveryProducerEnds
CHECK_DEADLOCK FALSE
