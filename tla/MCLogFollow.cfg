SPECIFICATION FollowSpec
CONSTANTS
  MaxAttempts = 2
  MaxSeq = 3
INVARIANTS
  PrintedInOrder
  FollowedToTheEnd
PROPERTIES
  FollowEnds
CHECK_DEADLOCK FALSE
