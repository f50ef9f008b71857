SPECIFICATION FairSpec
CONSTANTS
  siem = siem
  websocket = websocket
  Order <- ServiceSinks
  Flaky = {siem, websocket}
  Hanging = {siem}
  FlakyClose = {"source", siem, websocket}
  HangingClose = {"source", siem}
  MaxAlerts = 2
  MaxTrades = 2
INVARIANTS EachAlertOncePerSink CutIsATail
PROPERTIES NothingAfterClose ImplementsDelivery AlertsReachEverySink StopCompletes
CHECK_DEADLOCK FALSE
