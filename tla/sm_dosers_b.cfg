\* Dosers under a hard, delayed and a soft condition; master OFF is an interlock (mode B).
CONSTANTS
  condG = condG  condL = condL
  pumpG = pumpG  pumpL = pumpL
  outN = outN  outG = outG
  senL = senL  senG = senG  pinG = pinG
  ZeroMaxPumps = {pumpL}
  Scope <- MCScope
  Conds = {condG, condL}
  GpioConds = {condG}
  DelayedConds = {condG}
  Pumps = {pumpG, pumpL}
  TankPumps = {pumpG, pumpL}
  LockoutPumps = {pumpL}
  Outputs = {}
  Sensors = {}
  MqttSensors = {}
  InputPins = {}
  CompensatedSensors = {}
  MasterOffAsInterlock = TRUE
  FaultThreshold = 1
SPECIFICATION FairSpec
INVARIANTS SeverityIsWorstFailure DosesOnlyWhenSafe
PROPERTIES LockoutForcesOff StickyOff TimerLostByZeroRequestOnly DelayLostOnlyWhileOff ImplementsInterlock MetIsTrustedWhileOn
