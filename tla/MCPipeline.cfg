SPECIFICATION PipelineSpec
CONSTANTS
  Names = {"a", "b", "c"}
  NumJobs = 3
  MaxNeeds = 2
INVARIANTS
  AcceptsExactlyDags
  AdvanceIsLeast
CHECK_DEADLOCK FALSE
