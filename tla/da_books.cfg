\* A tank of 4 ml with a lockout at 1 ml, a cap of 3 ml a period, restarts.
CONSTANTS
  MaxRanges = 3
  DoseLines <- MCDoseLines
  Readings = {0, 2, 4}
  DefaultTime = 1
  MaxDoseTime = 2
  FlowRate = 1
  TotalMax = 3
  StartTotals <- MCStartTotals
  NaN = NaN
  Volume = 4
  MinVolume = 1
  PumpedMax = 9
  Untimed = TRUE
  MayRestart = TRUE
SPECIFICATION Spec
INVARIANTS TableMeansItsLines TotalIsPumped LevelIsTank OvershootIsOneDose
PROPERTIES RestartKeepsLevel
