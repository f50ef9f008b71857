SPECIFICATION ServiceSpec
CONSTANTS
  Symbols = {AAPL}
  Detectors = {velocity}
  Severities = {"high"}
  MaxTrades = 2
  Horizon = 2
  Lateness = 6
  Cooldown = 2
  MaxProcessed = 3
  MaxTime = 6
  Elapsed = 1
  Wall = 6
  Trades <- MCTrades
  SourceSymbols = {AAPL}
  SourceTrades <- MCSimulated
  BadSymbols = {}
  Plausible <- MCStamped
  SymbolCap = 1
  KeyRequired = FALSE
  TsWindow = 1
  Clients = {c1}
  PerMinute = 2
  Minute = 2
  Jumps = {1}
  ClockEnd = 1
  MaxDenied = 1
INVARIANT SuppressesOnlyWithinCooldown
CHECK_DEADLOCK FALSE
