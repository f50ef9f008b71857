SPECIFICATION FairSpec
CONSTANTS
  Feed = {"trade", "malformed", "undecodable"}
  OffsetReset = "earliest"
  Outages = TRUE
  MaxProduced = 4
  MaxExits = 2
INVARIANTS ReplayOnlyAcrossRestarts NothingDropped
PROPERTY OnlyFailureStopsFlow
CHECK_DEADLOCK FALSE
