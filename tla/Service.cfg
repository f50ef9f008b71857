SPECIFICATION ServiceSpec
CONSTANTS
  Symbols = {AAPL, TSLA, BAD}
  Detectors = {velocity}
  Severities = {"high"}
  MaxTrades = 2
  Horizon = 1
  Lateness = 1
  Cooldown = 1
  MaxProcessed = 3
  MaxTime = 0
  Elapsed = 1
  Wall = 0
  Trades <- MCTrades
  SourceSymbols = {AAPL}
  SourceTrades <- MCSource
  BadSymbols = {BAD}
  Plausible <- MCPlausible
  SymbolCap = 1
  KeyRequired = TRUE
  TsWindow = 1
  Clients = {c1, c2}
  PerMinute = 2
  Minute = 1
  Jumps = {1, 2}
  ClockEnd = 3
  MaxDenied = 1
SYMMETRY Interchangeable
INVARIANTS ViewsAgree RateBound AuditComplete SymbolsBounded SeriesIsExact
PROPERTIES RefusalsLeaveNoTrace DeniedOnlyOverQuota
CHECK_DEADLOCK FALSE
