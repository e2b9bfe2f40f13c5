------------------------------ MODULE AcdTypes ------------------------------
(***************************************************************************)
(* The vocabulary of AquachemD (source/acd_types.h) and the permission     *)
(* table of its state manager (source/state_manager.c): which state a      *)
(* device of some category may be in, given how badly the interlocks have  *)
(* failed.  There is no state here, only pure definitions, so every module *)
(* that talks about devices can extend it and proofs can cite it.          *)
(***************************************************************************)
EXTENDS Naturals

(***************************************************************************)
(* acd_scope_t is one enum with two readings.  On the master key it is the *)
(* severity of the failed conditions; on any other key it is how much that *)
(* device cares.  The order of the values is the order of severity.        *)
(***************************************************************************)
Allow == 0
Limit == 1
Block == 2
Severity == {Allow, Limit, Block}

ScopeNone   == Allow
ScopeLocal  == Limit
ScopeGlobal == Block
Scopes      == Severity

\* acd_state_t, without ACD_LED_UNKNOWN, which nothing assigns.
KeyStates    == {"OFF", "ON", "ENABLED", "DISABLED", "DELAY"}
MasterStates == {"OFF", "ON", "ENABLED"}
CondStates   == {"OFF", "ON", "DELAY"}
DeviceStates == {"OFF", "ON", "ENABLED", "DISABLED"}

\* The kinds of key the permission table knows, and the row of each.
Pump   == "pump"
Output == "output"
Sensor == "sensor"
Kinds  == {Pump, Output, Sensor}

\* A pump is never exempt: scope None is read as Local.
ClassifyKey(kind, sc) ==
  CASE kind = Pump /\ sc = ScopeGlobal   -> "PUMP_GLOBAL"
    [] kind = Pump /\ sc # ScopeGlobal   -> "PUMP_LOCAL"
    [] kind = Output /\ sc = ScopeNone   -> "OUTPUT_ALLOW"
    [] kind = Output /\ sc = ScopeLocal  -> "OUTPUT_LOCAL"
    [] kind = Output /\ sc = ScopeGlobal -> "OUTPUT_GLOBAL"
    [] kind = Sensor /\ sc = ScopeNone   -> "SENSOR_ALLOW"
    [] kind = Sensor /\ sc = ScopeLocal  -> "SENSOR_LOCAL"
    [] kind = Sensor /\ sc = ScopeGlobal -> "SENSOR_GLOBAL"

(***************************************************************************)
(* transition_permission[][]: the severities under which a state is        *)
(* permitted for a category.                                               *)
(***************************************************************************)
TransitionPermission ==
  LET All == Severity
      A   == {Allow}
      AL  == {Allow, Limit}
      LB  == {Limit, Block}
      B   == {Block}
      Row(off, on, enabled, disabled, delay) ==
        [st \in KeyStates |-> CASE st = "OFF"      -> off
                               [] st = "ON"       -> on
                               [] st = "ENABLED"  -> enabled
                               [] st = "DISABLED" -> disabled
                               [] st = "DELAY"    -> delay]
  IN [MASTER        |-> Row(All, All, LB, {}, {}),
      CONDITION     |-> Row(All, All, {}, {}, All),
      PUMP_GLOBAL   |-> Row(All, A,   A,  LB, {}),
      PUMP_LOCAL    |-> Row(All, AL,  AL, B,  {}),
      OUTPUT_ALLOW  |-> Row(All, All, {}, {}, {}),
      OUTPUT_GLOBAL |-> Row(All, A,   {}, LB, {}),
      OUTPUT_LOCAL  |-> Row(All, AL,  {}, B,  {}),
      SENSOR_ALLOW  |-> Row(All, All, {}, {}, {}),
      SENSOR_LOCAL  |-> Row(All, All, {}, {}, {}),
      SENSOR_GLOBAL |-> Row(All, AL,  {}, B,  {})]

\* The table as is_transition_permitted() reads it for a device.
Permitted(kind, sc, state, sev) ==
  sev \in TransitionPermission[ClassifyKey(kind, sc)][state]

\* Where a pump rests when it is not running.
PumpRestingState(sc, sev) ==
  IF Permitted(Pump, sc, "ENABLED", sev) THEN "ENABLED" ELSE "DISABLED"

\* A plain output has no ENABLED: it rests OFF where it could run.
OutputRestingState(sc, sev) ==
  IF Permitted(Output, sc, "ON", sev) THEN "OFF" ELSE "DISABLED"
=============================================================================
