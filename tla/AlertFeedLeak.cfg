SPECIFICATION Spec
CONSTANTS
  AlertConns = {a1, a2}
  TradeConns = {t1}
  Stalled = {}
  History = 3
  ReplayLimit = 2
  QueueSize = 2
  MaxAlerts = 3
  MaxTrades = 1
INVARIANT SubscribersAreServed
CHECK_DEADLOCK FALSE
