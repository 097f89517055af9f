SPECIFICATION Spec
CONSTANTS
  Conversations <- MCConversations
  Saved <- MCSaved
  None = "none"
  NoRef = NoRef
  s1 = s1
  s2 = s2
  MaxRuns = 2
  MaxTrouble = 1
  Slots <- MCSlots
SYMMETRY MCSymmetry
INVARIANTS
  StopIsForTheRunAtWork
CHECK_DEADLOCK FALSE
