SPECIFICATION FairSpec
CONSTANTS
  siem = siem
  websocket = websocket
  Order <- ServiceSinks
  Flaky = {}
  Hanging = {siem}
  FlakyClose = {}
  HangingClose = {}
  MaxAlerts = 1
  MaxTrades = 2
PROPERTY IngestionContinues
CHECK_DEADLOCK FALSE
