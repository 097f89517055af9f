SPECIFICATION FairSpec
CONSTANTS
  MaxEvents = 3
  MaxReconnects = 1
INVARIANTS
  TypeOK
  FollowLeavesNoGap
  SendMissesNoProducerEvent
PROPERTIES
  FollowShowsEveryEvent
  StreamEndsWithRun
  ShowsTheLogInOrder
CHECK_DEADLOCK FALSE
