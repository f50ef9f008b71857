SPECIFICATION EngineSpec
CONSTANTS
  Symbols = {AAPL, TSLA}
  Detectors = {velocity, zscore}
  Severities = {"high"}
  MaxTrades = 3
  Horizon = 2
  Lateness = 1
  Cooldown = 2
  MaxProcessed = 4
  MaxTime = 4
  Trades <- MCTrades
SYMMETRY Interchangeable
INVARIANTS EngineTypeOK WindowIsSuffix WindowAgeBounded NothingEvictedEarly RecentIsComplete
  CooldownSpacing SuppressionJustified Accounting
CHECK_DEADLOCK FALSE
