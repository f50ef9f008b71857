SPECIFICATION FairSpec
CONSTANTS
  Feed = {"trade", "undecodable"}
  OffsetReset = "earliest"
  Outages = FALSE
  MaxProduced = 2
  MaxExits = 1
PROPERTY TradesKeepFlowing
CHECK_DEADLOCK FALSE
