\* Outputs, sensors and a doser with a lockout, mode A, with readings in flight.
CONSTANTS
  condG = condG  condL = condL
  pumpG = pumpG  pumpL = pumpL
  outN = outN  outG = outG
  senL = senL  senG = senG  pinG = pinG
  ZeroMaxPumps = {}
  Scope <- MCScope
  Conds = {condG}
  GpioConds = {condG}
  DelayedConds = {}
  Pumps = {pumpG}
  TankPumps = {pumpG}
  LockoutPumps = {pumpG}
  Outputs = {outG}
  Sensors = {senL, senG, pinG}
  MqttSensors = {senL}
  InputPins = {pinG}
  CompensatedSensors = {senG}
  MasterOffAsInterlock = FALSE
  FaultThreshold = 1
SPECIFICATION Spec
INVARIANTS SafetyInv GlobalSensorsStop
