SPECIFICATION FairSpec
CONSTANTS
  AlertConns = {a1, a2}
  TradeConns = {t1}
  Stalled = {a2}
  History = 2
  ReplayLimit = 2
  QueueSize = 1
  MaxAlerts = 3
  MaxTrades = 1
INVARIANTS ExactlyOnceInOrder SubscribedWhileServing
PROPERTIES ImplementsDelivery ReplayReachesBack QueuedIsDelivered LeaversAreForgotten
CHECK_DEADLOCK FALSE
