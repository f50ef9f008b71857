SPECIFICATION Spec
CONSTANTS
  Seeds = {1, 2}
  Slices <- MCSlices
  StaleAfter = 2
  Nothing = nothing
  Torn = torn
  Malformed = malformed
  MinRows = 2
  PriceZ = 10
  VolRatio = 2
INVARIANTS SparkReportIsCurrent CountIsOfTheSlice
PROPERTIES CyclesKeepComing TornIsTransient UpMeansRunning
