SPECIFICATION BacktestSpec
CONSTANTS
  Symbols = {AAPL, TSLA}
  Market = {AAPL, TSLA}
  Detectors = {"zscore", "price_spike", "volume_spike", "velocity", "spoofing",
               "wash_trade", "isolation_forest"}
  Severities = {"medium", "high", "critical"}
  MaxTrades = 3
  Horizon = 8
  Lateness = 0
  Cooldown = 4
  MaxProcessed = 4
  Trades <- MCTrades
  RulesFile <- MCRules
  MinTrades = 1
  WarmUp = 1
  TrainSize = 2
  RetrainEvery = 1
  NoAccount = none
  Second = 3
  Jobs <- MCJobs
  NoLabel = "normal"
  StartPrice = 100
  Moves = {1}
  Spikes <- MCSpikes
  Sizes = {1}
  Blocks = {20}
  Sides = {"buy"}
  Accounts = {a1, a2}
  NormalGaps = {3}
  BurstGap = 1
  Bursts = {2, 3}
  Layers = {3}
SYMMETRY Interchangeable
INVARIANTS FeaturesBearOut SqlAgrees ModelIsFresh InjectedAreCaught EpisodesAreScored
CHECK_DEADLOCK FALSE
