\* A running doser is asked to run, without a run time.
CONSTANTS
  condG = condG  condL = condL
  pumpG = pumpG  pumpL = pumpL
  outN = outN  outG = outG
  senL = senL  senG = senG  pinG = pinG
  ZeroMaxPumps = {}
  Scope <- MCScope
  Conds = {condG}
  GpioConds = {condG}
  DelayedConds = {}
  Pumps = {pumpG}
  TankPumps = {}
  LockoutPumps = {}
  Outputs = {}
  Sensors = {}
  MqttSensors = {}
  InputPins = {}
  CompensatedSensors = {}
  MasterOffAsInterlock = TRUE
  FaultThreshold = 1
SPECIFICATION FairSpec
PROPERTIES EveryDoseEnds
