SPECIFICATION Spec
CONSTANTS
  Tasks <- MCTasks
  Root = "root"
  Tools <- MCTools
  ToolTask <- MCToolTask
  Approvals <- MCApprovals
  ApprovalTool <- MCApprovalTool
  Rounds <- MCRounds
  Mutation = {"t2"}
  Speakers = {"root", "t2"}
  Announced = {"w1", "x1", "d1"}
  Retried = {"t2"}
  Decisions <- MCDecisions
  MaxRounds = 2
PROPERTIES
  OneFinalAnswer
CHECK_DEADLOCK FALSE
