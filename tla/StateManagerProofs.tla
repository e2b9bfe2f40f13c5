------------------------- MODULE StateManagerProofs -------------------------
(***************************************************************************)
(* Proofs about StateManager, for any set of keys and any configuration.   *)
(* First its types; then the interlock: SafetyInv is inductive, it implies *)
(* that dosers run only when it is safe, and with it every step is a step  *)
(* of Interlock or a stutter.                                              *)
(***************************************************************************)
EXTENDS StateManagerProps, TLAPS

(***************************************************************************)
(* The row of a pump, read as a condition on the severity.                 *)
(***************************************************************************)
LEMMA PumpOnPermitted ==
  ASSUME NEW sc \in Scopes, NEW sev \in Severity
  PROVE  Permitted(Pump, sc, "ON", sev) <=> IF sc = ScopeGlobal THEN sev = Allow ELSE sev # Block
<1> USE DEF Scopes, Severity, Allow, Limit, Block, ScopeNone, ScopeLocal, ScopeGlobal
<1>1. /\ TransitionPermission["PUMP_GLOBAL"]["ON"] = {Allow}
      /\ TransitionPermission["PUMP_LOCAL"]["ON"] = {Allow, Limit}
  BY DEF TransitionPermission, KeyStates
<1>2. ClassifyKey(Pump, sc) = IF sc = ScopeGlobal THEN "PUMP_GLOBAL" ELSE "PUMP_LOCAL"
  BY DEF ClassifyKey, Pump, Output, Sensor
<1> QED BY <1>1, <1>2 DEF Permitted

LEMMA WorstFailureType ==
  ASSUME NEW mt, NEW cs PROVE WorstFailure(mt, cs) \in Severity
BY DEF WorstFailure, Severity, Allow, Limit, Block

(***************************************************************************)
(* check_master() gives every variable it assigns a value of its type.     *)
(***************************************************************************)
DeviceTypes ==
  /\ master \in MasterStates
  /\ scope \in Severity
  /\ pstate \in [Pumps -> DeviceStates]
  /\ ostate \in [Outputs -> {"OFF", "ON", "DISABLED"}]
  /\ sstate \in [Sensors -> DeviceStates]
  /\ relay \subseteq Pumps \cup Outputs
  /\ ison \subseteq Outputs
  /\ timers \subseteq Timed
  /\ worker \in [Timed -> WorkerPhases]
  /\ empty \subseteq TankPumps
  /\ lockout \subseteq TankPumps
  /\ faulted \subseteq Sensors
  /\ checked \in BOOLEAN

LEMMA TimerTypes ==
  ASSUME TypeOK, NEW D \in SUBSET Timed,
         \/ DropTimers(D)
         \/ \E d \in D : StartTimer(d)
         \/ \E d \in D, has \in BOOLEAN : ResetTimer(d, has)
  PROVE  timers' \subseteq Timed /\ worker' \in [Timed -> WorkerPhases]
<1>1. ASSUME NEW E \in SUBSET Timed, DropTimers(E)
      PROVE  timers' \subseteq Timed /\ worker' \in [Timed -> WorkerPhases]
  BY <1>1 DEF TypeOK, DropTimers, WorkerPhases
<1>2. ASSUME NEW d \in D, StartTimer(d)
      PROVE  timers' \subseteq Timed /\ worker' \in [Timed -> WorkerPhases]
  BY <1>2 DEF TypeOK, StartTimer, WorkerPhases
<1>3. \A d \in D : {d} \in SUBSET Timed
  OBVIOUS
<1> QED BY <1>1, <1>2, <1>3 DEF ResetTimer

LEMMA StopDevicesType ==
  ASSUME TypeOK, NEW P \in SUBSET Pumps, NEW O \in SUBSET Outputs,
         NEW drained \in SUBSET TankPumps, StopDevices(P, O, drained)
  PROVE  /\ relay' \subseteq Pumps \cup Outputs
         /\ ison' \subseteq Outputs
         /\ timers' \subseteq Timed /\ worker' \in [Timed -> WorkerPhases]
         /\ empty' \subseteq TankPumps
         /\ lockout' \subseteq TankPumps
<1>1. P \cup O \in SUBSET Timed
  BY DEF Timed
<1>2. timers' \subseteq Timed /\ worker' \in [Timed -> WorkerPhases]
  BY <1>1, TimerTypes DEF StopDevices
<1> QED BY <1>2, ConfigAssumption DEF TypeOK, StopDevices

LEMMA CheckMasterType ==
  ASSUME TypeOK, NEW m \in MasterStates, NEW drained \in SUBSET TankPumps,
         CheckMaster(m, drained)
  PROVE  DeviceTypes'
<1>1. CASE m = "OFF" /\ ~MasterOffAsInterlock
  <2>1. Shutdown(drained) /\ master' = m /\ checked' = TRUE
    BY <1>1 DEF CheckMaster
  <2>2. PICK P \in SUBSET Pumps, O \in SUBSET Outputs : StopDevices(P, O, drained)
    BY <2>1 DEF Shutdown
  <2>3. /\ pstate' \in [Pumps -> DeviceStates]
        /\ ostate' \in [Outputs -> {"OFF", "ON", "DISABLED"}]
        /\ sstate' \in [Sensors -> DeviceStates]
        /\ scope' = scope /\ faulted' = faulted
    BY <2>1 DEF Shutdown, ShutdownState, DeviceStates
  <2> QED BY <2>1, <2>2, <2>3, StopDevicesType DEF DeviceTypes, TypeOK
<1>2. CASE ~(m = "OFF" /\ ~MasterOffAsInterlock)
  <2> DEFINE worst == WorstFailure(met', cstate')
  <2>1. /\ scope' = IF m = "OFF" THEN Block ELSE worst
        /\ master' = CASE m = "OFF" -> "OFF"
                       [] m # "OFF" /\ worst = Block -> "ENABLED"
                       [] m # "OFF" /\ worst # Block -> "ON"
        /\ Reconcile(scope', master', drained)
        /\ checked' = TRUE
    BY <1>2 DEF CheckMaster, SeverityFor
  <2>2. worst \in Severity
    BY WorstFailureType
  <2> HIDE DEF worst
  <2>3. scope' \in Severity /\ master' \in MasterStates
    BY <2>1, <2>2 DEF Severity, MasterStates
  <2>4. PICK P \in SUBSET Pumps, O \in SUBSET Outputs : StopDevices(P, O, drained)
    BY <2>1 DEF Reconcile
  <2>5. pstate' \in [Pumps -> DeviceStates]
    BY <2>1 DEF Reconcile, ReconciledState, RearmedState, DeviceStates, PumpRestingState, Settle
  <2>6. ostate' \in [Outputs -> {"OFF", "ON", "DISABLED"}]
    BY <2>1 DEF Reconcile, OutputRestingState
  <2>7. sstate' \in [Sensors -> DeviceStates] /\ faulted' \subseteq Sensors
    BY <2>1 DEF Reconcile, DeviceStates, TypeOK
  <2> QED BY <2>1, <2>3, <2>4, <2>5, <2>6, <2>7, StopDevicesType DEF DeviceTypes
<1> QED BY <1>1, <1>2

(***************************************************************************)
(* Each operation keeps the types, by the thread it runs on.               *)
(***************************************************************************)
LEMMA PumpRequestType ==
  ASSUME TypeOK, NEW p \in Pumps, NEW s \in {"OFF", "ON", "ENABLED"}, NEW timed \in BOOLEAN,
         PumpRequest(p, s, timed)
  PROVE  /\ pstate' \in [Pumps -> DeviceStates]
         /\ relay' \subseteq Pumps \cup Outputs
         /\ timers' \subseteq Timed /\ worker' \in [Timed -> WorkerPhases]
         /\ ison' \subseteq Outputs
         /\ empty' \subseteq TankPumps /\ lockout' \subseteq TankPumps
<1>1. CASE s = "ON" /\ TurnPumpOn(p, timed)
  <2>1. {p} \in SUBSET Timed /\ HasRunTime(p, timed) \in BOOLEAN
    BY DEF Timed, HasRunTime
  <2>2. timers' \subseteq Timed /\ worker' \in [Timed -> WorkerPhases]
    BY <1>1, <2>1, TimerTypes DEF TurnPumpOn
  <2> QED BY <1>1, <2>2 DEF TurnPumpOn, TypeOK, DeviceStates
<1>2. CASE s \in {"OFF", "ENABLED"} /\ pstate[p] = "ON" /\ TurnPumpOff(p, "ENABLED")
  <2>1. PICK drained \in SUBSET TankPumps : StopDevices({p}, {}, drained)
    BY <1>2 DEF TurnPumpOff
  <2>2. {p} \in SUBSET Pumps /\ {} \in SUBSET Outputs
    OBVIOUS
  <2>3. pstate' \in [Pumps -> DeviceStates]
    BY <1>2 DEF TurnPumpOff, TypeOK, DeviceStates
  <2> QED BY <2>1, <2>2, <2>3, StopDevicesType
<1>3. CASE /\ s \in {"OFF", "ENABLED"} /\ pstate[p] # "ON"
           /\ pstate' = [pstate EXCEPT ![p] = s]
           /\ UNCHANGED <<relay, ison, timers, worker, empty, lockout>>
  BY <1>3 DEF TypeOK, DeviceStates
<1> QED BY <1>1, <1>2, <1>3 DEF PumpRequest

LEMMA SetTankLevelType ==
  ASSUME TypeOK, NEW p \in TankPumps, NEW low \in BOOLEAN, SetTankLevel(p, low)
  PROVE  TypeOK'
<1> DEFINE levels == IF low THEN empty \cup {p} ELSE empty \ {p}
           dry    == {q \in LockoutPumps \cap levels : pstate[q] \in {"ENABLED", "ON"}}
           refill == (LockoutPumps \cap lockout) \ levels
           stop   == {q \in dry : pstate[q] = "ON"}
<1>1. /\ empty' = levels
      /\ relay' = relay \ stop
      /\ DropTimers(stop)
      /\ lockout' = (lockout \cup dry) \ refill
      /\ pstate' = [q \in Pumps |->
           IF q \in dry THEN "OFF"
           ELSE IF q \in refill THEN Settle("ENABLED", master) ELSE pstate[q]]
      /\ UNCHANGED <<master, scope, condVars, ostate, sstate, ison, faulted, errs,
                     pollVars, checked>>
  BY DEF SetTankLevel
<1>2. levels \subseteq TankPumps /\ dry \subseteq TankPumps /\ stop \subseteq Timed
  BY ConfigAssumption DEF TypeOK, Timed
<1> HIDE DEF dry, refill, stop, levels
<1>3. pstate' \in [Pumps -> DeviceStates]
  BY <1>1 DEF TypeOK, DeviceStates, Settle
<1>4. timers' \subseteq Timed /\ worker' \in [Timed -> WorkerPhases]
  BY <1>1, <1>2, TimerTypes
<1> QED BY <1>1, <1>2, <1>3, <1>4 DEF TypeOK, condVars, pollVars

LEMMA OutputRequestType ==
  ASSUME TypeOK, NEW o \in Outputs, NEW s \in {"OFF", "ON"}, NEW timed \in BOOLEAN,
         OutputRequest(o, s, timed)
  PROVE  /\ ostate' \in [Outputs -> {"OFF", "ON", "DISABLED"}]
         /\ relay' \subseteq Pumps \cup Outputs /\ ison' \subseteq Outputs
         /\ timers' \subseteq Timed /\ worker' \in [Timed -> WorkerPhases]
<1>1. {o} \in SUBSET Timed
  BY DEF Timed
<1>2. \/ UNCHANGED <<timers, worker>> \/ DropTimers({o}) \/ StartTimer(o) \/ ResetTimer(o, timed)
  BY DEF OutputRequest
<1>3. timers' \subseteq Timed /\ worker' \in [Timed -> WorkerPhases]
  BY <1>1, <1>2, TimerTypes DEF TypeOK
<1> QED BY <1>3 DEF OutputRequest, TypeOK

LEMMA UserRequestType == TypeOK /\ UserRequest => TypeOK'
<1> SUFFICES ASSUME TypeOK, UserRequest PROVE TypeOK'
  OBVIOUS
<1>1. ASSUME NEW s \in MasterStates, RequestMaster(s) PROVE TypeOK'
  <2>1. PICK drained \in SUBSET TankPumps : CheckMaster(s, drained)
    BY <1>1 DEF RequestMaster
  <2> QED BY <1>1, <2>1, CheckMasterType DEF RequestMaster, TypeOK, DeviceTypes
<1>2. ASSUME NEW p \in Pumps, NEW s \in {"OFF", "ON", "ENABLED"}, NEW timed \in BOOLEAN,
             RequestPump(p, s, timed)
      PROVE TypeOK'
  BY <1>2, PumpRequestType DEF RequestPump, TypeOK, condVars, pollVars
<1>3. ASSUME NEW o \in Outputs, NEW s \in {"OFF", "ON"}, NEW timed \in BOOLEAN,
             RequestOutput(o, s, timed)
      PROVE TypeOK'
  BY <1>3, OutputRequestType DEF RequestOutput, TypeOK, condVars, pollVars
<1> QED BY <1>1, <1>2, <1>3, SetTankLevelType DEF UserRequest

LEMMA TimerWorkersType == TypeOK /\ TimerWorkers => TypeOK'
<1> SUFFICES ASSUME TypeOK, TimerWorkers PROVE TypeOK'
  OBVIOUS
<1>1. ASSUME NEW d \in Timed, WorkerLooks(d) PROVE TypeOK'
  BY <1>1 DEF WorkerLooks, Counting, WorkerPhases, TypeOK, condVars, pollVars
<1>2. ASSUME NEW p \in Pumps, PumpWorkerAsks(p) PROVE TypeOK'
  <2>1. CASE PumpRequest(p, "ON", FALSE)
    BY <1>2, <2>1, PumpRequestType DEF PumpWorkerAsks, TypeOK, condVars, pollVars
  <2>2. CASE ~PumpRequest(p, "ON", FALSE)
    BY <1>2, <2>2 DEF PumpWorkerAsks, Counting, WorkerPhases, TypeOK, condVars, pollVars
  <2> QED BY <2>1, <2>2
<1>3. ASSUME NEW o \in Outputs, OutputWorkerAsks(o) PROVE TypeOK'
  <2>1. CASE OutputRequest(o, "ON", FALSE)
    BY <1>3, <2>1, OutputRequestType DEF OutputWorkerAsks, TypeOK, condVars, pollVars
  <2>2. CASE ~OutputRequest(o, "ON", FALSE)
    BY <1>3, <2>2 DEF OutputWorkerAsks, Counting, WorkerPhases, TypeOK, condVars, pollVars
  <2> QED BY <2>1, <2>2
<1> QED BY <1>1, <1>2, <1>3 DEF TimerWorkers

LEMMA TimerExpiryType == TypeOK /\ TimerExpiry => TypeOK'
<1> SUFFICES ASSUME TypeOK, TimerExpiry PROVE TypeOK'
  OBVIOUS
<1>1. ASSUME NEW p \in Pumps, PumpTimerExpires(p) PROVE TypeOK'
  <2>1. CASE pstate[p] = "ON" /\ TurnPumpOff(p, "ENABLED")
    <3>1. PumpRequest(p, "OFF", FALSE)
      BY <2>1 DEF PumpRequest
    <3> QED BY <1>1, <3>1, PumpRequestType DEF PumpTimerExpires, TypeOK, condVars, pollVars
  <2>2. CASE ~(pstate[p] = "ON" /\ TurnPumpOff(p, "ENABLED"))
    <3>1. {p} \in SUBSET Timed /\ DropTimers({p})
      BY <1>1, <2>2 DEF PumpTimerExpires, Timed
    <3>2. timers' \subseteq Timed /\ worker' \in [Timed -> WorkerPhases]
      BY <3>1, TimerTypes
    <3> QED BY <1>1, <2>2, <3>2 DEF PumpTimerExpires, TypeOK, DeviceStates, condVars, pollVars
  <2> QED BY <2>1, <2>2
<1>2. ASSUME NEW o \in Outputs, OutputTimerExpires(o) PROVE TypeOK'
  <2>1. {o} \in SUBSET Timed /\ DropTimers({o})
    BY <1>2 DEF OutputTimerExpires, Timed
  <2>2. timers' \subseteq Timed /\ worker' \in [Timed -> WorkerPhases]
    BY <2>1, TimerTypes
  <2> QED BY <1>2, <2>2 DEF OutputTimerExpires, TypeOK, condVars, pollVars
<1>3. ASSUME NEW c \in Conds, DelayExpires(c) PROVE TypeOK'
  <2>1. CASE cstate[c] = "DELAY" /\ master # "OFF"
    <3>1. /\ delays' = delays \ {c}
          /\ cstate' = [cstate EXCEPT ![c] = IF c \in met THEN "ON" ELSE "OFF"]
          /\ met' = met /\ UNCHANGED <<errs, polling, reading>>
      BY <1>3, <2>1 DEF DelayExpires, PromotedState, pollVars
    <3>2. PICK drained \in SUBSET TankPumps : CheckMaster(master, drained)
      BY <1>3, <2>1 DEF DelayExpires
    <3>3. DeviceTypes'
      BY <3>2, CheckMasterType DEF TypeOK
    <3>4. cstate' \in [Conds -> CondStates]
      BY <3>1 DEF TypeOK, CondStates
    <3> QED BY <3>1, <3>3, <3>4 DEF TypeOK, DeviceTypes
  <2>2. CASE ~(cstate[c] = "DELAY" /\ master # "OFF")
    BY <1>3, <2>2 DEF DelayExpires, TypeOK, pollVars
  <2> QED BY <2>1, <2>2
<1> QED BY <1>1, <1>2, <1>3 DEF TimerExpiry

LEMMA ConditionInputType ==
  ASSUME TypeOK, NEW c \in Conds, NEW safe \in BOOLEAN, ConditionInput(c, safe)
  PROVE  TypeOK'
<1> DEFINE s == IF safe THEN "ON" ELSE "OFF"
<1>1. /\ met' = IF safe THEN met \cup {c} ELSE met \ {c}
      /\ SetCondState(c, s)
      /\ UNCHANGED <<errs, polling, reading>>
  BY DEF ConditionInput, pollVars
<1>2. met' \subseteq Conds
  BY <1>1 DEF TypeOK
<1>3. s \in {"ON", "OFF"}
  OBVIOUS
<1> HIDE DEF s
<1>4. CASE /\ s = "ON" /\ c \in DelayedConds /\ cstate[c] = "OFF"
           /\ cstate' = [cstate EXCEPT ![c] = "DELAY"]
           /\ delays' = delays \cup {c}
           /\ UNCHANGED <<master, scope, pstate, ostate, sstate, relay, ison, timers, worker,
                          empty, lockout, faulted, checked>>
  BY <1>1, <1>2, <1>4 DEF TypeOK, CondStates
<1>5. CASE UNCHANGED <<master, scope, cstate, delays, pstate, ostate, sstate, relay, ison,
                       timers, worker, empty, lockout, faulted, checked>>
  BY <1>1, <1>2, <1>5 DEF TypeOK
<1>6. ASSUME NEW drained \in SUBSET TankPumps, CheckMaster(master, drained),
             cstate' = [cstate EXCEPT ![c] = s],
             delays' = IF s = "OFF" /\ cstate[c] = "DELAY" THEN delays \ {c} ELSE delays
      PROVE TypeOK'
  <2>1. DeviceTypes'
    BY <1>6, CheckMasterType DEF TypeOK
  <2>2. cstate' \in [Conds -> CondStates] /\ delays' \subseteq DelayedConds
    BY <1>3, <1>6 DEF TypeOK, CondStates
  <2> QED BY <1>1, <1>2, <2>1, <2>2 DEF TypeOK, DeviceTypes
<1> QED BY <1>1, <1>4, <1>5, <1>6 DEF SetCondState

LEMMA EnvironmentType == TypeOK /\ Environment => TypeOK'
<1> SUFFICES ASSUME TypeOK, Environment PROVE TypeOK'
  OBVIOUS
<1>1. ASSUME NEW s \in MqttSensors, SensorMessage(s) PROVE TypeOK'
  BY <1>1 DEF SensorMessage, SensorOn, TypeOK, DeviceStates, condVars, pollVars, deviceVars
<1>2. ASSUME NEW s \in InputPins, NEW on \in BOOLEAN, InputEdge(s, on) PROVE TypeOK'
  BY <1>2 DEF InputEdge, TypeOK, DeviceStates, condVars, pollVars, deviceVars
<1>3. ASSUME NEW o \in Outputs, SwitchedByHand(o) PROVE TypeOK'
  BY <1>3 DEF SwitchedByHand, TypeOK, condVars, pollVars
<1> QED BY <1>1, <1>2, <1>3, ConditionInputType DEF Environment

LEMMA PollingCycleType == TypeOK /\ PollingCycle => TypeOK'
<1> SUFFICES ASSUME TypeOK, PollingCycle PROVE TypeOK'
  OBVIOUS
<1> USE DEF condVars, pollVars, deviceVars
<1>1. CASE StartCycle
  BY <1>1 DEF StartCycle, TypeOK
<1>2. CASE EndCycle
  BY <1>2 DEF EndCycle, TypeOK
<1>3. ASSUME NEW s \in Polled, BeginReading(s) PROVE TypeOK'
  BY <1>3 DEF BeginReading, TypeOK
<1>4. ASSUME NEW s \in Polled, ReadingOk(s) PROVE TypeOK'
  BY <1>4, ConfigAssumption DEF ReadingOk, SensorOn, TypeOK, DeviceStates, Polled
<1>5. ASSUME NEW s \in Polled, ReadingFails(s) PROVE TypeOK'
  BY <1>5, ConfigAssumption DEF ReadingFails, TypeOK, DeviceStates, Polled
<1>6. ASSUME NEW s \in Polled, ReadingSkipped(s) PROVE TypeOK'
  BY <1>6 DEF ReadingSkipped, TypeOK, DeviceStates, Polled
<1>7. ASSUME NEW o \in Outputs, NoticeOutput(o) PROVE TypeOK'
  BY <1>7 DEF NoticeOutput, TypeOK, OutputRestingState
<1> QED BY <1>1, <1>2, <1>3, <1>4, <1>5, <1>6, <1>7 DEF PollingCycle

LEMMA InitType == Init => TypeOK
<1> SUFFICES ASSUME Init PROVE TypeOK
  OBVIOUS
<1>1. /\ cstate \in [Conds -> CondStates]
      /\ pstate \in [Pumps -> DeviceStates]
      /\ ostate \in [Outputs -> {"OFF", "ON", "DISABLED"}]
      /\ sstate \in [Sensors -> DeviceStates]
  BY DEF Init, CondStates, DeviceStates
<1>2. errs \in [Sensors -> 0..FaultThreshold]
  <2>1. 0 \in 0..FaultThreshold
    BY ConfigAssumption
  <2> QED BY <2>1 DEF Init
<1>3. /\ met \subseteq Conds /\ delays \subseteq DelayedConds
      /\ relay \subseteq Pumps \cup Outputs /\ ison \subseteq Outputs
      /\ timers \subseteq Timed /\ worker \in [Timed -> WorkerPhases]
      /\ empty \subseteq TankPumps /\ lockout \subseteq TankPumps /\ faulted \subseteq Sensors
      /\ polling \in BOOLEAN /\ reading \in SUBSET Polled /\ checked \in BOOLEAN
      /\ master \in MasterStates /\ scope \in Severity
  BY DEF Init, MasterStates, WorkerPhases
<1> QED BY <1>1, <1>2, <1>3 DEF TypeOK

(***************************************************************************)
(* The type invariant.                                                     *)
(***************************************************************************)
THEOREM TypeCorrect == Spec => []TypeOK
<1>1. TypeOK /\ [Next]_vars => TypeOK'
  <2> SUFFICES ASSUME TypeOK, [Next]_vars PROVE TypeOK'
    OBVIOUS
  <2>1. CASE UNCHANGED vars
    BY <2>1 DEF vars, TypeOK
  <2> QED BY <2>1, UserRequestType, TimerWorkersType, TimerExpiryType, EnvironmentType, PollingCycleType DEF Next
<1> QED BY <1>1, InitType, PTL DEF Spec
-----------------------------------------------------------------------------
\* The parts of SafetyInv that speak of devices.
DevicesInv == RunningIsPermitted /\ MasterOffStopsDosers /\ RelayFollowsState

\* The parts that speak of conditions.
CondsInv == SeverityIsWorstFailure /\ CondStateFollowsMet

\* A step as Interlock sees it: devices stop, or one starts that may.
StopsOnly == Running' \subseteq Running
StartsOne ==
  /\ scope' = scope
  /\ \E d \in Devices : MayRun(d, scope) /\ Running' = Running \cup {d}
Step == StopsOnly \/ StartsOne

(***************************************************************************)
(* check_master() restores everything, from any severity.                  *)
(***************************************************************************)
LEMMA CheckMasterInterlock ==
  ASSUME SafetyInv, NEW m \in MasterStates, NEW drained \in SUBSET TankPumps,
         CheckMaster(m, drained)
  PROVE  DevicesInv' /\ SeverityIsWorstFailure' /\ StopsOnly
<1> USE DEF SafetyInv
<1>1. CASE m = "OFF" /\ ~MasterOffAsInterlock
  <2> DEFINE running == {p \in Pumps : pstate[p] = "ON"}
             on == {o \in Outputs : ostate[o] = "ON"}
  <2>1. /\ master' = "OFF"
        /\ relay' = relay \ (running \cup on)
        /\ pstate' = [p \in Pumps |-> IF pstate[p] = "OFF" THEN "OFF" ELSE "DISABLED"]
        /\ ostate' = [o \in Outputs |-> "DISABLED"]
    BY <1>1 DEF CheckMaster, Shutdown, ShutdownState, StopDevices
  <2>2. \A p \in Pumps : pstate'[p] # "ON"
    BY <2>1
  <2>3. Running' = {}
    BY <2>1, <2>2 DEF Running
  <2>4. RelayFollowsState'
    BY <2>1 DEF RelayFollowsState
  <2>5. SeverityIsWorstFailure'
    BY <1>1, <2>1 DEF SeverityIsWorstFailure, Suspended
  <2> QED BY <2>2, <2>3, <2>4, <2>5
       DEF DevicesInv, RunningIsPermitted, MasterOffStopsDosers, StopsOnly
<1>2. CASE ~(m = "OFF" /\ ~MasterOffAsInterlock)
  <2> DEFINE worst == WorstFailure(met', cstate')
             stopP == {p \in Pumps : pstate[p] = "ON" /\ ~Permitted(Pump, Scope[p], "ON", scope')}
             stopO == {o \in Outputs : ostate[o] = "ON" /\ ~Permitted(Output, Scope[o], "ON", scope')}
  <2>1. /\ scope' = IF m = "OFF" THEN Block ELSE worst
        /\ master' = CASE m = "OFF" -> "OFF"
                       [] m # "OFF" /\ worst = Block -> "ENABLED"
                       [] m # "OFF" /\ worst # Block -> "ON"
        /\ Reconcile(scope', master', drained)
        /\ checked' = TRUE
    BY <1>2 DEF CheckMaster, SeverityFor
  <2>2. /\ relay' = relay \ (stopP \cup stopO)
        /\ pstate' = [p \in Pumps |->
             CASE pstate[p] = "OFF" -> "OFF"
               [] pstate[p] = "ON" /\ p \notin stopP -> "ON"
               [] pstate[p] = "ON" /\ p \in stopP ->
                    IF p \in empty' THEN "OFF" ELSE PumpRestingState(Scope[p], scope')
               [] OTHER -> Settle(PumpRestingState(Scope[p], scope'), master')]
        /\ ostate' = [o \in Outputs |->
             IF ostate[o] = "ON" /\ o \notin stopO THEN "ON"
             ELSE OutputRestingState(Scope[o], scope')]
    BY <2>1 DEF Reconcile, StopDevices, ReconciledState, RearmedState
  <2>3. /\ master' = "OFF" <=> m = "OFF"
        /\ master' = "ON" <=> (m # "OFF" /\ worst # Block)
    BY <2>1
  <2>4. SeverityIsWorstFailure'
    BY <1>2, <2>1, <2>3 DEF SeverityIsWorstFailure, Suspended
  <2> HIDE DEF worst
  <2>5. \A p \in Pumps : pstate'[p] = "ON" <=>
          pstate[p] = "ON" /\ Permitted(Pump, Scope[p], "ON", scope')
    BY <2>2 DEF PumpRestingState, Settle
  <2>6. \A o \in Outputs : ostate'[o] = "ON" <=>
          ostate[o] = "ON" /\ Permitted(Output, Scope[o], "ON", scope')
    BY <2>2 DEF OutputRestingState
  <2>7. RunningIsPermitted' /\ StopsOnly
    BY <2>5, <2>6, KindsAssumption DEF RunningIsPermitted, Running, MayRun, StopsOnly
  <2>8. MasterOffStopsDosers'
    <3> SUFFICES ASSUME master' = "OFF", NEW p \in Pumps PROVE pstate'[p] # "ON"
      BY DEF MasterOffStopsDosers
    <3>1. scope' = Block /\ Scope[p] \in Scopes /\ Block \in Severity
      BY <2>1, <2>3, ConfigAssumption DEF Severity
    <3>2. ~Permitted(Pump, Scope[p], "ON", scope')
      BY <3>1, PumpOnPermitted DEF Block, Allow
    <3> QED BY <3>2, <2>5
  <2>9. RelayFollowsState'
    BY <2>2, <2>5, KindsAssumption DEF RelayFollowsState
  <2> QED BY <2>4, <2>7, <2>8, <2>9 DEF DevicesInv
<1> QED BY <1>1, <1>2

(***************************************************************************)
(* Handlers that touch neither master nor conditions.                      *)
(***************************************************************************)
LEMMA CondsUntouched ==
  ASSUME SafetyInv, UNCHANGED <<master, scope, met, cstate, checked>>
  PROVE  CondsInv'
BY DEF SafetyInv, CondsInv, SeverityIsWorstFailure, CondStateFollowsMet, Suspended

LEMMA DevicesUntouched ==
  ASSUME SafetyInv, UNCHANGED <<master, scope, pstate, ostate, relay>>
  PROVE  DevicesInv' /\ StopsOnly
BY DEF SafetyInv, DevicesInv, RunningIsPermitted, MasterOffStopsDosers, RelayFollowsState,
       Running, StopsOnly

LEMMA RequestMasterStep ==
  ASSUME SafetyInv, NEW s \in MasterStates, RequestMaster(s)
  PROVE  DevicesInv' /\ CondsInv' /\ Step
<1>1. PICK drained \in SUBSET TankPumps : CheckMaster(s, drained)
  BY DEF RequestMaster
<1>2. CondStateFollowsMet'
  BY DEF RequestMaster, SafetyInv, CondStateFollowsMet
<1> QED BY <1>1, <1>2, CheckMasterInterlock DEF CondsInv, Step

LEMMA TurnPumpOffStep ==
  ASSUME SafetyInv, NEW p \in Pumps, NEW desired \in {"OFF", "ENABLED"}, TurnPumpOff(p, desired),
         UNCHANGED <<master, scope, ostate>>
  PROVE  DevicesInv' /\ StopsOnly
<1>1. /\ relay' = relay \ {p}
      /\ pstate' = [pstate EXCEPT ![p] = IF p \in empty' THEN "OFF" ELSE desired]
  BY DEF TurnPumpOff, StopDevices
<1>2. /\ \A q \in Pumps : pstate'[q] = "ON" => pstate[q] = "ON"
      /\ \A q \in Pumps \ {p} : pstate'[q] = pstate[q]
  BY <1>1 DEF SafetyInv, TypeOK
<1> QED BY <1>1, <1>2, KindsAssumption
     DEF SafetyInv, DevicesInv, RunningIsPermitted, MasterOffStopsDosers, RelayFollowsState,
         Running, MayRun, StopsOnly

LEMMA TurnPumpOnStep ==
  ASSUME SafetyInv, NEW p \in Pumps, NEW timed \in BOOLEAN, TurnPumpOn(p, timed),
         Accepted(Pump, p, "ON"), UNCHANGED <<master, scope, ostate>>
  PROVE  DevicesInv' /\ Step
<1>1. CASE UNCHANGED <<relay, pstate>>
  BY <1>1, DevicesUntouched DEF Step
<1>2. CASE relay' = relay \cup {p} /\ pstate' = [pstate EXCEPT ![p] = "ON"]
  <2>1. /\ pstate'[p] = "ON"
        /\ \A q \in Pumps \ {p} : pstate'[q] = pstate[q]
    BY <1>2 DEF SafetyInv, TypeOK
  <2>2. MayRun(p, scope) /\ master # "OFF"
    BY DEF Accepted, MayRun
  <2>3. Running' = Running \cup {p}
    BY <2>1 DEF Running
  <2>4. DevicesInv'
    BY <1>2, <2>1, <2>2, <2>3
    DEF SafetyInv, DevicesInv, RunningIsPermitted, MasterOffStopsDosers, RelayFollowsState, MayRun
  <2> QED BY <2>2, <2>3, <2>4 DEF Step, StartsOne, Devices
<1> QED BY <1>1, <1>2 DEF TurnPumpOn

LEMMA RequestPumpStep ==
  ASSUME SafetyInv, NEW p \in Pumps, NEW s \in {"OFF", "ON", "ENABLED"}, NEW timed \in BOOLEAN,
         RequestPump(p, s, timed)
  PROVE  DevicesInv' /\ CondsInv' /\ Step
<1>1. CondsInv'
  BY CondsUntouched DEF RequestPump, condVars
<1>2. CASE s = "ON" /\ TurnPumpOn(p, timed)
  BY <1>1, <1>2, TurnPumpOnStep DEF RequestPump
<1>3. CASE s \in {"OFF", "ENABLED"} /\ pstate[p] = "ON" /\ TurnPumpOff(p, "ENABLED")
  BY <1>1, <1>3, TurnPumpOffStep DEF RequestPump, Step
<1>4. CASE /\ s \in {"OFF", "ENABLED"} /\ pstate[p] # "ON"
           /\ pstate' = [pstate EXCEPT ![p] = s]
           /\ UNCHANGED <<relay, ison, timers, worker, empty, lockout>>
  <2>1. \A q \in Pumps : pstate'[q] = "ON" <=> pstate[q] = "ON"
    BY <1>4 DEF SafetyInv, TypeOK
  <2>2. UNCHANGED <<master, scope, ostate, relay>>
    BY <1>4 DEF RequestPump
  <2>3. DevicesInv' /\ StopsOnly
    BY <2>1, <2>2
    DEF SafetyInv, DevicesInv, RunningIsPermitted, MasterOffStopsDosers, RelayFollowsState,
        Running, StopsOnly
  <2> QED BY <1>1, <2>3 DEF Step
<1> QED BY <1>2, <1>3, <1>4 DEF RequestPump, PumpRequest

\* An output switched off, or found off.
LEMMA OutputStops ==
  ASSUME SafetyInv, NEW o \in Outputs, NEW st \in {"OFF", "DISABLED"},
         ostate' = [ostate EXCEPT ![o] = st],
         relay' \subseteq relay, UNCHANGED <<master, scope, pstate>>,
         \A p \in Pumps : p \in relay' <=> p \in relay
  PROVE  DevicesInv' /\ StopsOnly
<1>1. \A q \in Outputs : ostate'[q] = "ON" => ostate[q] = "ON"
  BY DEF SafetyInv, TypeOK
<1> QED BY <1>1
     DEF SafetyInv, DevicesInv, RunningIsPermitted, MasterOffStopsDosers, RelayFollowsState,
         Running, MayRun, StopsOnly

\* An output switched on, or found on.
LEMMA OutputStarts ==
  ASSUME SafetyInv, NEW o \in Outputs, Permitted(Output, Scope[o], "ON", scope),
         ostate' = [ostate EXCEPT ![o] = "ON"],
         UNCHANGED <<master, scope, pstate>>,
         \A p \in Pumps : p \in relay' <=> p \in relay
  PROVE  DevicesInv' /\ Step
<1>1. /\ ostate'[o] = "ON"
      /\ \A q \in Outputs \ {o} : ostate'[q] = ostate[q]
  BY DEF SafetyInv, TypeOK
<1>2. MayRun(o, scope) /\ o \in Devices
  BY KindsAssumption DEF MayRun, Devices
<1>3. Running' = Running \cup {o}
  BY <1>1 DEF Running
<1>4. DevicesInv'
  BY <1>2, <1>3
  DEF SafetyInv, DevicesInv, RunningIsPermitted, MasterOffStopsDosers, RelayFollowsState, MayRun
<1> QED BY <1>2, <1>3, <1>4 DEF Step, StartsOne

LEMMA RequestOutputStep ==
  ASSUME SafetyInv, NEW o \in Outputs, NEW s \in {"OFF", "ON"}, NEW timed \in BOOLEAN,
         RequestOutput(o, s, timed)
  PROVE  DevicesInv' /\ CondsInv' /\ Step
<1>1. CondsInv'
  BY CondsUntouched DEF RequestOutput, condVars
<1>2. UNCHANGED <<master, scope, pstate>> /\ Permitted(Output, Scope[o], s, scope)
  BY DEF RequestOutput, Accepted
<1>3. CASE UNCHANGED <<ostate, relay>>
  BY <1>1, <1>2, <1>3, DevicesUntouched DEF Step
<1>4. CASE s = "ON" /\ relay' = relay \cup {o} /\ ostate' = [ostate EXCEPT ![o] = "ON"]
  BY <1>1, <1>2, <1>4, OutputStarts, KindsAssumption
<1>5. CASE relay' \in {relay, relay \ {o}} /\ ostate' = [ostate EXCEPT ![o] = "OFF"]
  BY <1>1, <1>2, <1>5, OutputStops, KindsAssumption DEF Step
<1> QED BY <1>3, <1>4, <1>5 DEF RequestOutput, OutputRequest

LEMMA SetTankLevelStep ==
  ASSUME SafetyInv, NEW p \in TankPumps, NEW low \in BOOLEAN, SetTankLevel(p, low)
  PROVE  DevicesInv' /\ CondsInv' /\ Step
<1> DEFINE levels == IF low THEN empty \cup {p} ELSE empty \ {p}
           dry    == {q \in LockoutPumps \cap levels : pstate[q] \in {"ENABLED", "ON"}}
           refill == (LockoutPumps \cap lockout) \ levels
           stop   == {q \in dry : pstate[q] = "ON"}
<1>1. /\ relay' = relay \ stop
      /\ pstate' = [q \in Pumps |->
           IF q \in dry THEN "OFF"
           ELSE IF q \in refill THEN Settle("ENABLED", master) ELSE pstate[q]]
      /\ UNCHANGED <<master, scope, condVars, ostate, checked>>
  BY DEF SetTankLevel
<1>2. \A q \in Pumps : pstate'[q] = "ON" => pstate[q] = "ON"
  BY <1>1 DEF Settle
<1>3. \A q \in Pumps \ LockoutPumps : pstate'[q] = pstate[q]
  BY <1>1
<1> HIDE DEF levels, dry, refill, stop
<1>4. DevicesInv' /\ StopsOnly
  BY <1>1, <1>2, <1>3
  DEF SafetyInv, DevicesInv, RunningIsPermitted, MasterOffStopsDosers, RelayFollowsState,
      Running, MayRun, StopsOnly
<1> QED BY <1>1, <1>4, CondsUntouched DEF condVars, Step

LEMMA WorkerLooksStep ==
  ASSUME SafetyInv, NEW d \in Timed, WorkerLooks(d)
  PROVE  DevicesInv' /\ CondsInv' /\ Step
BY CondsUntouched, DevicesUntouched DEF WorkerLooks, condVars, Step

\* What a worker asks for is granted as to anybody else.
LEMMA PumpWorkerStep ==
  ASSUME SafetyInv, NEW p \in Pumps, PumpWorkerAsks(p)
  PROVE  DevicesInv' /\ CondsInv' /\ Step
<1>1. CondsInv' /\ UNCHANGED <<master, scope, ostate>>
  BY CondsUntouched DEF PumpWorkerAsks, condVars
<1>2. CASE Accepted(Pump, p, "ON") /\ PumpRequest(p, "ON", FALSE)
  <2>1. TurnPumpOn(p, FALSE)
    BY <1>2 DEF PumpRequest
  <2> QED BY <1>1, <1>2, <2>1, TurnPumpOnStep
<1>3. CASE UNCHANGED <<pstate, relay>>
  BY <1>1, <1>3, DevicesUntouched DEF Step
<1> QED BY <1>2, <1>3 DEF PumpWorkerAsks

LEMMA OutputWorkerStep ==
  ASSUME SafetyInv, NEW o \in Outputs, OutputWorkerAsks(o)
  PROVE  DevicesInv' /\ CondsInv' /\ Step
<1>1. CondsInv' /\ UNCHANGED <<master, scope, pstate>>
  BY CondsUntouched DEF OutputWorkerAsks, condVars
<1>2. CASE UNCHANGED <<ostate, relay>>
  BY <1>1, <1>2, DevicesUntouched DEF Step
<1>3. CASE /\ Accepted(Output, o, "ON")
           /\ relay' = relay \cup {o} /\ ostate' = [ostate EXCEPT ![o] = "ON"]
  BY <1>1, <1>3, OutputStarts, KindsAssumption DEF Accepted
<1> QED BY <1>2, <1>3 DEF OutputWorkerAsks, OutputRequest

LEMMA PumpTimerStep ==
  ASSUME SafetyInv, NEW p \in Pumps, PumpTimerExpires(p)
  PROVE  DevicesInv' /\ CondsInv' /\ Step
<1>1. CondsInv' /\ UNCHANGED <<master, scope, ostate>>
  BY CondsUntouched DEF PumpTimerExpires, condVars
<1>2. CASE pstate[p] = "ON" /\ TurnPumpOff(p, "ENABLED")
  BY <1>1, <1>2, TurnPumpOffStep DEF Step
<1>3. CASE pstate[p] # "ON" /\ pstate' = [pstate EXCEPT ![p] = "OFF"] /\ UNCHANGED relay
  <2>1. \A q \in Pumps : pstate'[q] = "ON" <=> pstate[q] = "ON"
    BY <1>3 DEF SafetyInv, TypeOK
  <2>2. DevicesInv' /\ StopsOnly
    BY <1>1, <1>3, <2>1
    DEF SafetyInv, DevicesInv, RunningIsPermitted, MasterOffStopsDosers, RelayFollowsState,
        Running, StopsOnly
  <2> QED BY <1>1, <2>2 DEF Step
<1>4. CASE UNCHANGED <<pstate, relay>>
  BY <1>1, <1>4, DevicesUntouched DEF Step
<1> QED BY <1>2, <1>3, <1>4 DEF PumpTimerExpires

LEMMA OutputTimerStep ==
  ASSUME SafetyInv, NEW o \in Outputs, OutputTimerExpires(o)
  PROVE  DevicesInv' /\ CondsInv' /\ Step
<1>1. CondsInv' /\ UNCHANGED <<master, scope, pstate>>
  BY CondsUntouched DEF OutputTimerExpires, condVars
<1>2. CASE UNCHANGED <<ostate, relay>>
  BY <1>1, <1>2, DevicesUntouched DEF Step
<1>3. CASE relay' \in {relay, relay \ {o}} /\ ostate' = [ostate EXCEPT ![o] = "OFF"]
  BY <1>1, <1>3, OutputStops, KindsAssumption DEF Step
<1> QED BY <1>2, <1>3 DEF OutputTimerExpires

LEMMA DelayStep ==
  ASSUME SafetyInv, NEW c \in Conds, DelayExpires(c)
  PROVE  DevicesInv' /\ CondsInv' /\ Step
<1>1. CASE cstate[c] = "DELAY" /\ master # "OFF"
  <2>1. /\ cstate' = [cstate EXCEPT ![c] = IF c \in met THEN "ON" ELSE "OFF"]
        /\ met' = met
    BY <1>1 DEF DelayExpires, PromotedState
  <2>2. PICK drained \in SUBSET TankPumps : CheckMaster(master, drained)
    BY <1>1 DEF DelayExpires
  <2>3. CondStateFollowsMet'
    BY <2>1 DEF SafetyInv, TypeOK, CondStateFollowsMet
  <2> QED BY <2>2, <2>3, CheckMasterInterlock DEF CondsInv, Step, SafetyInv, TypeOK
<1>2. CASE ~(cstate[c] = "DELAY" /\ master # "OFF")
  BY <1>2, CondsUntouched, DevicesUntouched DEF DelayExpires, Step
<1> QED BY <1>1, <1>2

(***************************************************************************)
(* A condition that starts its delay was failing before (it was OFF, so    *)
(* unmet) and fails still (it is in DELAY): the cached severity stands.    *)
(***************************************************************************)
LEMMA ConditionInputStep ==
  ASSUME SafetyInv, NEW c \in Conds, NEW safe \in BOOLEAN, ConditionInput(c, safe)
  PROVE  DevicesInv' /\ CondsInv' /\ Step
<1> DEFINE s == IF safe THEN "ON" ELSE "OFF"
<1>1. /\ met' = IF safe THEN met \cup {c} ELSE met \ {c}
      /\ SetCondState(c, s)
      /\ s \in {"ON", "OFF"} /\ (s = "ON" <=> safe)
  BY DEF ConditionInput
<1> HIDE DEF s
<1>2. CASE /\ s = "ON" /\ cstate[c] = "OFF"
           /\ cstate' = [cstate EXCEPT ![c] = "DELAY"]
           /\ UNCHANGED <<master, scope, pstate, ostate, relay, checked>>
  <2>1. cstate'[c] = "DELAY" /\ \A d \in Conds \ {c} : cstate'[d] = cstate[d]
    BY <1>2 DEF SafetyInv, TypeOK
  <2>2. c \notin met /\ met' = met \cup {c}
    BY <1>1, <1>2 DEF SafetyInv, CondStateFollowsMet
  <2>3. \A d \in Conds : Failed(d, met', cstate') <=> Failed(d, met, cstate)
    BY <2>1, <2>2 DEF Failed
  <2>4. WorstFailure(met', cstate') = WorstFailure(met, cstate)
    BY <2>3 DEF WorstFailure
  <2>5. SeverityIsWorstFailure'
    BY <1>2, <2>4 DEF SafetyInv, SeverityIsWorstFailure, Suspended
  <2>6. CondStateFollowsMet'
    BY <2>1, <2>2 DEF SafetyInv, CondStateFollowsMet
  <2> QED BY <1>2, <2>5, <2>6, DevicesUntouched DEF CondsInv, Step
<1>3. CASE /\ s = "ON" /\ cstate[c] # "OFF"
           /\ UNCHANGED <<master, scope, cstate, pstate, ostate, relay, checked>>
  <2>1. met' = met
    BY <1>1, <1>3 DEF SafetyInv, CondStateFollowsMet
  <2> QED BY <1>3, <2>1, CondsUntouched, DevicesUntouched DEF Step
<1>4. ASSUME NEW drained \in SUBSET TankPumps, CheckMaster(master, drained),
             cstate' = [cstate EXCEPT ![c] = s]
      PROVE DevicesInv' /\ CondsInv' /\ Step
  <2>1. CondStateFollowsMet'
    BY <1>1, <1>4 DEF SafetyInv, TypeOK, CondStateFollowsMet
  <2> QED BY <1>4, <2>1, CheckMasterInterlock DEF CondsInv, Step, SafetyInv, TypeOK
<1> QED BY <1>1, <1>2, <1>3, <1>4 DEF SetCondState

LEMMA SwitchedByHandStep ==
  ASSUME SafetyInv, NEW o \in Outputs, SwitchedByHand(o)
  PROVE  DevicesInv' /\ CondsInv' /\ Step
<1>1. UNCHANGED <<master, scope, met, cstate, checked, pstate, ostate>>
  BY DEF SwitchedByHand, condVars
<1>2. \A p \in Pumps : p \in relay' <=> p \in relay
  BY KindsAssumption DEF SwitchedByHand
<1> QED BY <1>1, <1>2, CondsUntouched
     DEF SafetyInv, DevicesInv, RunningIsPermitted, MasterOffStopsDosers, RelayFollowsState,
         Running, StopsOnly, Step

LEMMA NoticeOutputStep ==
  ASSUME SafetyInv, NEW o \in Outputs, NoticeOutput(o)
  PROVE  DevicesInv' /\ CondsInv' /\ Step
<1>1. CondsInv' /\ UNCHANGED <<master, scope, pstate, relay>>
  BY CondsUntouched DEF NoticeOutput, condVars
<1>2. CASE o \in relay
  BY <1>1, <1>2, OutputStarts DEF NoticeOutput
<1>3. CASE o \notin relay
  BY <1>1, <1>3, OutputStops DEF NoticeOutput, OutputRestingState, Step
<1> QED BY <1>2, <1>3

(***************************************************************************)
(* Every step keeps SafetyInv and is a step of Interlock.                  *)
(***************************************************************************)
LEMMA NextStep ==
  ASSUME SafetyInv, [Next]_vars
  PROVE  DevicesInv' /\ CondsInv' /\ Step
<1>1. ASSUME UNCHANGED <<master, scope, met, cstate, checked, pstate, ostate, relay>>
      PROVE  DevicesInv' /\ CondsInv' /\ Step
  BY <1>1, CondsUntouched, DevicesUntouched DEF Step
<1>2. CASE UserRequest
  BY <1>2, RequestMasterStep, RequestPumpStep, RequestOutputStep, SetTankLevelStep DEF UserRequest
<1>3. CASE TimerExpiry
  BY <1>3, PumpTimerStep, OutputTimerStep, DelayStep DEF TimerExpiry
<1>7. CASE TimerWorkers
  BY <1>7, WorkerLooksStep, PumpWorkerStep, OutputWorkerStep DEF TimerWorkers
<1>4. CASE Environment
  <2>1. CASE \/ \E s \in MqttSensors : SensorMessage(s)
             \/ \E s \in InputPins, on \in BOOLEAN : InputEdge(s, on)
    BY <1>1, <2>1 DEF SensorMessage, InputEdge, condVars, deviceVars
  <2> QED BY <1>4, <2>1, ConditionInputStep, SwitchedByHandStep DEF Environment
<1>5. CASE PollingCycle
  <2>1. CASE \/ StartCycle \/ EndCycle
             \/ \E s \in Polled : BeginReading(s) \/ ReadingOk(s) \/ ReadingFails(s) \/ ReadingSkipped(s)
    BY <1>1, <2>1
    DEF StartCycle, EndCycle, BeginReading, ReadingOk, ReadingFails, ReadingSkipped,
        condVars, deviceVars
  <2> QED BY <1>5, <2>1, NoticeOutputStep DEF PollingCycle
<1>6. CASE UNCHANGED vars
  BY <1>1, <1>6 DEF vars
<1> QED BY <1>2, <1>3, <1>4, <1>5, <1>6, <1>7 DEF Next

LEMMA InitSafety == Init => SafetyInv
<1> SUFFICES ASSUME Init PROVE SafetyInv
  OBVIOUS
<1>1. TypeOK
  BY InitType
<1>2. /\ \A p \in Pumps : pstate[p] # "ON"
      /\ \A o \in Outputs : ostate[o] # "ON"
      /\ relay = {} /\ met = {} /\ ~checked
      /\ \A c \in Conds : cstate[c] = "OFF"
  BY DEF Init
<1> QED BY <1>1, <1>2
     DEF SafetyInv, SeverityIsWorstFailure, CondStateFollowsMet, RunningIsPermitted, Running,
         MasterOffStopsDosers, RelayFollowsState

(***************************************************************************)
(* SafetyInv holds throughout: the severity every request asks is the one  *)
(* the conditions call for, and nothing runs that it does not permit.      *)
(***************************************************************************)
THEOREM SafetyInvariant == Spec => []SafetyInv
<1>1. TypeOK /\ [Next]_vars => TypeOK'
  BY UserRequestType, TimerWorkersType, TimerExpiryType, EnvironmentType, PollingCycleType DEF Next, vars, TypeOK
<1>2. SafetyInv /\ [Next]_vars => SafetyInv'
  BY <1>1, NextStep DEF SafetyInv, DevicesInv, CondsInv
<1> QED BY <1>2, InitSafety, PTL DEF Spec

(***************************************************************************)
(* The severity cached on the master key is never stale.                   *)
(***************************************************************************)
THEOREM SeverityNeverStale == Spec => []SeverityIsWorstFailure
<1>1. SafetyInv => SeverityIsWorstFailure
  BY DEF SafetyInv
<1> QED BY <1>1, SafetyInvariant, PTL

(***************************************************************************)
(* No doser runs while a condition that gates it fails.                    *)
(***************************************************************************)
THEOREM DosesOnlyWhenSafeAlways == Spec => []DosesOnlyWhenSafe
<1>1. SafetyInv => DosesOnlyWhenSafe
  <2> SUFFICES ASSUME SafetyInv, checked, NEW p \in Pumps, Dosing(p)
               PROVE  /\ master # "OFF"
                      /\ \A c \in Conds : Gates(c, p) => c \in met /\ cstate[c] = "ON"
    BY DEF DosesOnlyWhenSafe
  <2>1. pstate[p] = "ON" /\ master # "OFF"
    BY DEF Dosing, SafetyInv, RelayFollowsState, MasterOffStopsDosers
  <2>2. scope = WorstFailure(met, cstate) /\ scope \in Severity
    BY <2>1 DEF SafetyInv, SeverityIsWorstFailure, Suspended, TypeOK
  <2>3. IF Scope[p] = ScopeGlobal THEN scope = Allow ELSE scope # Block
    <3>1. p \in Running
      BY <2>1 DEF Running
    <3>2. Permitted(Pump, Scope[p], "ON", scope)
      BY <3>1 DEF SafetyInv, RunningIsPermitted, MayRun
    <3> QED BY <2>2, <3>2, PumpOnPermitted, ConfigAssumption
  <2>4. ASSUME NEW c \in Conds, Gates(c, p) PROVE c \in met /\ cstate[c] = "ON"
    <3>1. ~Failed(c, met, cstate)
      BY <2>2, <2>3, <2>4
      DEF Gates, WorstFailure, Allow, Limit, Block, ScopeGlobal, ScopeLocal
    <3>2. cstate[c] \in CondStates
      BY DEF SafetyInv, TypeOK
    <3> QED BY <3>1, <3>2 DEF Failed, SafetyInv, CondStateFollowsMet, CondStates
  <2> QED BY <2>1, <2>4
<1> QED BY <1>1, SafetyInvariant, PTL

(***************************************************************************)
(* The state manager implements Interlock.                                 *)
(***************************************************************************)
THEOREM Refinement == Spec => ImplementsInterlock
<1>1. Init => Promise!Init
  BY DEF Init, Promise!Init, Running
<1>2. SafetyInv /\ SafetyInv' /\ [Next]_vars => [Promise!Next]_<<scope, Running>>
  <2> SUFFICES ASSUME SafetyInv, SafetyInv', [Next]_vars PROVE [Promise!Next]_<<scope, Running>>
    OBVIOUS
  <2>1. CASE StopsOnly
    <3>1. Promise!Rate(scope')
      BY <2>1 DEF Promise!Rate, StopsOnly, SafetyInv, RunningIsPermitted
    <3> QED BY <3>1 DEF Promise!Next, SafetyInv, TypeOK
  <2>2. CASE StartsOne
    <3>1. PICK d \in Devices : MayRun(d, scope) /\ Running' = Running \cup {d}
      BY <2>2 DEF StartsOne
    <3>2. Promise!Start(d)
      BY <2>2, <3>1 DEF Promise!Start, StartsOne
    <3> QED BY <3>2 DEF Promise!Next
  <2> QED BY <2>1, <2>2, NextStep DEF Step
<1> QED BY <1>1, <1>2, SafetyInvariant, PTL DEF Spec, ImplementsInterlock, Promise!Spec
-----------------------------------------------------------------------------
(***************************************************************************)
(* What a single step may never do.  Most steps do not touch the pumps;    *)
(* those that do are check_master(), which every caller runs whole, the    *)
(* requests to a pump, its timer and a tank level.                         *)
(***************************************************************************)
pumpVars == <<pstate, timers, lockout>>

ChecksMaster == \E m \in MasterStates, drained \in SUBSET TankPumps : CheckMaster(m, drained)

ChangesPump ==
  \/ \E p \in Pumps, s \in {"OFF", "ON", "ENABLED"}, timed \in BOOLEAN : RequestPump(p, s, timed)
  \/ \E p \in Pumps : PumpTimerExpires(p) \/ PumpWorkerAsks(p)
  \/ \E p \in TankPumps, low \in BOOLEAN : SetTankLevel(p, low)

\* Steps of outputs take only the timers of outputs.
SparesPumps == UNCHANGED <<pstate, lockout>> /\ \A p \in Pumps : p \in timers => p \in timers'

LEMMA OutputsSparePumps ==
  ASSUME NEW o \in Outputs, NEW s, NEW timed, OutputRequest(o, s, timed)
  PROVE  \A p \in Pumps : p \in timers => p \in timers'
BY KindsAssumption DEF OutputRequest, ResetTimer, StartTimer, DropTimers

LEMMA StepsOfPumps ==
  ASSUME TypeOK, [Next]_vars PROVE ChecksMaster \/ ChangesPump \/ SparesPumps
<1>1. ASSUME UNCHANGED pumpVars PROVE SparesPumps
  BY <1>1 DEF SparesPumps, pumpVars
<1>2. CASE UserRequest
  <2>1. ASSUME NEW s \in MasterStates, RequestMaster(s) PROVE ChecksMaster
    BY <2>1 DEF RequestMaster, ChecksMaster
  <2>2. ASSUME NEW o \in Outputs, NEW s \in {"OFF", "ON"}, NEW timed \in BOOLEAN,
               RequestOutput(o, s, timed)
        PROVE  SparesPumps
    BY <2>2, OutputsSparePumps DEF RequestOutput, SparesPumps
  <2> QED BY <1>2, <2>1, <2>2 DEF UserRequest, ChangesPump
<1>3. CASE TimerExpiry
  <2>1. ASSUME NEW o \in Outputs, OutputTimerExpires(o) PROVE SparesPumps
    BY <2>1, KindsAssumption DEF OutputTimerExpires, DropTimers, SparesPumps
  <2>2. ASSUME NEW c \in Conds, DelayExpires(c) PROVE ChecksMaster \/ SparesPumps
    BY <1>1, <2>2 DEF DelayExpires, ChecksMaster, TypeOK, pumpVars
  <2> QED BY <1>3, <2>1, <2>2 DEF TimerExpiry, ChangesPump
<1>7. CASE TimerWorkers
  <2>1. ASSUME NEW d \in Timed, WorkerLooks(d) PROVE SparesPumps
    BY <1>1, <2>1 DEF WorkerLooks, pumpVars
  <2>2. ASSUME NEW o \in Outputs, OutputWorkerAsks(o) PROVE SparesPumps
    BY <2>2, OutputsSparePumps DEF OutputWorkerAsks, SparesPumps
  <2> QED BY <1>7, <2>1, <2>2 DEF TimerWorkers, ChangesPump
<1>4. CASE Environment
  <2>1. ASSUME NEW c \in Conds, NEW safe \in BOOLEAN, ConditionInput(c, safe)
        PROVE  ChecksMaster \/ SparesPumps
    BY <1>1, <2>1 DEF ConditionInput, SetCondState, ChecksMaster, TypeOK, pumpVars
  <2>2. CASE \/ \E s \in MqttSensors : SensorMessage(s)
             \/ \E s \in InputPins, on \in BOOLEAN : InputEdge(s, on)
             \/ \E o \in Outputs : SwitchedByHand(o)
    BY <1>1, <2>2 DEF SensorMessage, InputEdge, SwitchedByHand, deviceVars, pumpVars
  <2> QED BY <1>4, <2>1, <2>2 DEF Environment
<1>5. CASE PollingCycle
  BY <1>1, <1>5
  DEF PollingCycle, StartCycle, EndCycle, BeginReading, ReadingOk, ReadingFails, ReadingSkipped,
      NoticeOutput, deviceVars, pumpVars
<1>6. CASE UNCHANGED vars
  BY <1>1, <1>6 DEF vars, pumpVars
<1> QED BY <1>2, <1>3, <1>4, <1>5, <1>6, <1>7 DEF Next

\* check_master() leaves a pump that is OFF alone, takes the timers of those it stops only,
\* and, where a switched off master is one more interlock, leaves OFF what it locks out.
LEMMA CheckMasterPumps ==
  ASSUME TypeOK, ChecksMaster, NEW p \in Pumps
  PROVE  /\ pstate[p] = "OFF" => pstate'[p] = "OFF"
         /\ pstate'[p] = "ON" => pstate[p] = "ON" /\ (p \in timers => p \in timers')
         /\ MasterOffAsInterlock /\ p \in lockout' \ lockout => pstate'[p] = "OFF"
<1>1. PICK m \in MasterStates, drained \in SUBSET TankPumps : CheckMaster(m, drained)
  BY DEF ChecksMaster
<1>2. CASE m = "OFF" /\ ~MasterOffAsInterlock
  <2>1. pstate'[p] = ShutdownState(pstate[p])
    BY <1>1, <1>2 DEF CheckMaster, Shutdown
  <2> QED BY <1>2, <2>1 DEF ShutdownState
<1>3. CASE ~(m = "OFF" /\ ~MasterOffAsInterlock)
  <2> DEFINE stopP == {q \in Pumps : pstate[q] = "ON" /\ ~Permitted(Pump, Scope[q], "ON", scope')}
             stopO == {o \in Outputs : ostate[o] = "ON" /\ ~Permitted(Output, Scope[o], "ON", scope')}
  <2>1. /\ timers' = timers \ (stopP \cup stopO)
        /\ lockout' = lockout \cup (stopP \cap empty')
        /\ pstate'[p] = ReconciledState(p, p \in stopP, scope', master')
    BY <1>1, <1>3 DEF CheckMaster, Reconcile, StopDevices, DropTimers
  <2>2. p \in stopP => pstate[p] = "ON"
    OBVIOUS
  <2>3. p \notin stopO
    BY KindsAssumption
  <2> HIDE DEF stopP, stopO
  <2>4. pstate[p] = "OFF" => pstate'[p] = "OFF"
    BY <2>1 DEF ReconciledState
  <2>5. pstate'[p] = "ON" => pstate[p] = "ON" /\ p \notin stopP
    BY <2>1 DEF ReconciledState, RearmedState, Settle, PumpRestingState
  <2>6. p \in lockout' \ lockout => pstate'[p] = "OFF"
    BY <2>1, <2>2 DEF ReconciledState, RearmedState
  <2> QED BY <2>1, <2>3, <2>4, <2>5, <2>6
<1> QED BY <1>2, <1>3

(***************************************************************************)
(* OFF is sticky for every pump of every configuration: only a request to  *)
(* it, a new tank level (source/state_manager.c:692) or the worker of a    *)
(* timer that missed its clear (source/acd_timer.c:250-261) ends it.       *)
(***************************************************************************)
THEOREM StickyOffAlways == Spec => StickyOff
<1>1. ASSUME TypeOK, [Next]_vars, NEW p \in Pumps, pstate[p] = "OFF", pstate'[p] # "OFF"
      PROVE  \/ \E s \in {"ON", "ENABLED"}, timed \in BOOLEAN : RequestPump(p, s, timed)
             \/ \E q \in TankPumps, low \in BOOLEAN : SetTankLevel(q, low)
             \/ PumpWorkerAsks(p)
  <2>1. ChangesPump
    BY <1>1, StepsOfPumps, CheckMasterPumps DEF SparesPumps
  <2>2. ASSUME NEW q \in Pumps, PumpTimerExpires(q) PROVE FALSE
    BY <1>1, <2>2 DEF PumpTimerExpires, TurnPumpOff, TypeOK
  <2>3. ASSUME NEW q \in Pumps, NEW s \in {"OFF", "ON", "ENABLED"}, NEW timed \in BOOLEAN,
               PumpRequest(q, s, timed)
        PROVE  q = p /\ s # "OFF"
    BY <1>1, <2>3 DEF PumpRequest, TurnPumpOn, TurnPumpOff, TypeOK
  <2>4. ASSUME NEW q \in Pumps, PumpWorkerAsks(q) PROVE q = p
    BY <1>1, <2>3, <2>4 DEF PumpWorkerAsks
  <2> QED BY <2>1, <2>2, <2>3, <2>4 DEF ChangesPump, RequestPump
<1>2. TypeOK /\ [Next]_vars =>
        [\A p \in Pumps : pstate[p] = "OFF" /\ pstate'[p] # "OFF" =>
           \/ \E s \in {"ON", "ENABLED"}, timed \in BOOLEAN : RequestPump(p, s, timed)
           \/ \E q \in TankPumps, low \in BOOLEAN : SetTankLevel(q, low)
           \/ PumpWorkerAsks(p)]_vars
  BY <1>1
<1> QED BY <1>2, TypeCorrect, PTL DEF Spec, StickyOff

(***************************************************************************)
(* Where a switched off master is one more interlock (mode B), a dose that *)
(* empties the tank leaves its doser OFF, whoever ended it.                *)
(***************************************************************************)
THEOREM LockoutForcesOffAlways == MasterOffAsInterlock => (Spec => LockoutForcesOff)
<1> SUFFICES ASSUME MasterOffAsInterlock PROVE Spec => LockoutForcesOff
  OBVIOUS
<1>1. ASSUME TypeOK, [Next]_vars, NEW p \in Pumps, p \in lockout' \ lockout
      PROVE  pstate'[p] = "OFF"
  <2>1. ASSUME ChangesPump PROVE pstate'[p] = "OFF"
    <3>1. ASSUME NEW q \in Pumps, NEW desired, TurnPumpOff(q, desired) PROVE pstate'[p] = "OFF"
      BY <1>1, <3>1 DEF TurnPumpOff, StopDevices, TypeOK
    <3>2. ASSUME NEW q \in TankPumps, NEW low \in BOOLEAN, SetTankLevel(q, low)
          PROVE  pstate'[p] = "OFF"
      BY <1>1, <3>2 DEF SetTankLevel
    <3>3. ASSUME NEW q \in Pumps, PumpTimerExpires(q) PROVE pstate'[p] = "OFF"
      BY <1>1, <3>1, <3>3 DEF PumpTimerExpires
    <3>4. ASSUME NEW q \in Pumps, NEW s \in {"OFF", "ON", "ENABLED"}, NEW timed \in BOOLEAN,
                 PumpRequest(q, s, timed)
          PROVE  pstate'[p] = "OFF"
      BY <1>1, <3>1, <3>4 DEF PumpRequest, TurnPumpOn
    <3>5. ASSUME NEW q \in Pumps, PumpWorkerAsks(q) PROVE pstate'[p] = "OFF"
      BY <1>1, <3>4, <3>5 DEF PumpWorkerAsks
    <3> QED BY <2>1, <3>2, <3>3, <3>4, <3>5 DEF ChangesPump, RequestPump
  <2> QED BY <1>1, <2>1, StepsOfPumps, CheckMasterPumps DEF SparesPumps
<1>2. TypeOK /\ [Next]_vars => [\A p \in Pumps : p \in lockout' \ lockout => pstate'[p] = "OFF"]_vars
  BY <1>1
<1> QED BY <1>2, TypeCorrect, PTL DEF Spec, LockoutForcesOff

(***************************************************************************)
(* Only one caller takes the timer of a doser and leaves it running: a     *)
(* request for ON without a run time (source/state_manager.c:389), or with *)
(* one that a maximum of zero takes away. A timer that ends never does: it *)
(* is only refused while the master is OFF, and then no doser runs.        *)
(***************************************************************************)
THEOREM TimerLostByZeroRequestAlways == Spec => TimerLostByZeroRequestOnly
<1>1. ASSUME SafetyInv, [Next]_vars, NEW p \in Pumps,
             pstate[p] = "ON", p \in timers, pstate'[p] = "ON", p \notin timers'
      PROVE  \E timed \in BOOLEAN : ~HasRunTime(p, timed) /\ RequestPump(p, "ON", timed)
  <2>1. TypeOK
    BY <1>1 DEF SafetyInv
  <2>2. ChangesPump
    BY <1>1, <2>1, StepsOfPumps, CheckMasterPumps DEF SparesPumps
  <2>3. ASSUME NEW q \in TankPumps, NEW low \in BOOLEAN, SetTankLevel(q, low) PROVE FALSE
    BY <1>1, <2>3 DEF SetTankLevel, DropTimers
  <2>4. ASSUME NEW q \in Pumps, NEW desired \in {"OFF", "ENABLED"}, TurnPumpOff(q, desired)
        PROVE  FALSE
    BY <1>1, <2>1, <2>4 DEF TurnPumpOff, StopDevices, DropTimers, TypeOK
  <2>5. ASSUME NEW q \in Pumps, PumpTimerExpires(q) PROVE FALSE
    <3>1. q = p
      BY <1>1, <2>4, <2>5 DEF PumpTimerExpires, DropTimers
    <3>2. master # "OFF"
      BY <1>1 DEF SafetyInv, MasterOffStopsDosers
    <3>3. Permitted(Pump, Scope[p], "OFF", scope)
      BY <2>1, ConfigAssumption
      DEF Permitted, ClassifyKey, TransitionPermission, KeyStates, TypeOK, Pump, Output, Sensor
    <3>4. Accepted(Pump, p, "OFF")
      BY <3>2, <3>3 DEF Accepted
    <3> QED BY <1>1, <2>4, <2>5, <3>1, <3>4 DEF PumpTimerExpires
  <2>6. ASSUME NEW q \in Pumps, NEW s \in {"OFF", "ON", "ENABLED"}, NEW timed \in BOOLEAN,
               PumpRequest(q, s, timed)
        PROVE  q = p /\ s = "ON" /\ ~HasRunTime(q, timed) /\ pstate[q] = "ON"
    <3>1. s = "ON" /\ TurnPumpOn(q, timed)
      BY <1>1, <2>4, <2>6 DEF PumpRequest
    <3>2. ~StartTimer(q)
      BY <1>1 DEF StartTimer
    <3>3. pstate[q] = "ON" /\ DropTimers({q}) /\ ~HasRunTime(q, timed)
      BY <3>1, <3>2 DEF TurnPumpOn, ResetTimer
    <3>4. q = p
      BY <1>1, <3>3 DEF DropTimers
    <3> QED BY <3>1, <3>3, <3>4
  <2>7. ASSUME NEW q \in Pumps, PumpWorkerAsks(q) PROVE FALSE
    BY <1>1, <2>6, <2>7 DEF PumpWorkerAsks
  <2> QED BY <2>2, <2>3, <2>5, <2>6, <2>7 DEF ChangesPump, RequestPump
<1>2. SafetyInv /\ [Next]_vars =>
        [\A p \in Pumps :
           (pstate[p] = "ON" /\ p \in timers) /\ (pstate'[p] = "ON" /\ p \notin timers')
             => \E timed \in BOOLEAN : ~HasRunTime(p, timed) /\ RequestPump(p, "ON", timed)]_vars
  BY <1>1
<1> QED BY <1>2, SafetyInvariant, PTL DEF Spec, TimerLostByZeroRequestOnly

(***************************************************************************)
(* check_master() leaves no Global sensor ON where it leaves the master in *)
(* another state than ON: switched OFF, or blocked by a condition.         *)
(***************************************************************************)
LEMMA CheckMasterSensors ==
  ASSUME TypeOK, ChecksMaster, master' # "ON", NEW s \in Sensors, Scope[s] = ScopeGlobal
  PROVE  sstate'[s] # "ON"
<1>1. PICK m \in MasterStates, drained \in SUBSET TankPumps : CheckMaster(m, drained)
  BY DEF ChecksMaster
<1>2. CASE m = "OFF" /\ ~MasterOffAsInterlock
  <2>1. sstate'[s] = ShutdownState(sstate[s])
    BY <1>1, <1>2 DEF CheckMaster, Shutdown
  <2> QED BY <2>1 DEF ShutdownState
<1>3. CASE ~(m = "OFF" /\ ~MasterOffAsInterlock)
  <2> DEFINE worst == WorstFailure(met', cstate')
  <2>1. /\ scope' = IF m = "OFF" THEN Block ELSE worst
        /\ master' = CASE m = "OFF" -> "OFF"
                       [] m # "OFF" /\ worst = Block -> "ENABLED"
                       [] m # "OFF" /\ worst # Block -> "ON"
        /\ Reconcile(scope', master', drained)
    BY <1>1, <1>3 DEF CheckMaster, SeverityFor
  <2> HIDE DEF worst
  <2>2. scope' = Block
    BY <2>1
  <2>3. ~Permitted(Sensor, Scope[s], "ON", Block)
    BY DEF Permitted, ClassifyKey, TransitionPermission, KeyStates, Pump, Output, Sensor,
           ScopeNone, ScopeLocal, ScopeGlobal, Allow, Limit, Block
  <2> QED BY <2>1, <2>2, <2>3 DEF Reconcile
<1> QED BY <1>2, <1>3

\* The other steps, as the sensors see them.
SparesSensors ==
  UNCHANGED master /\ \A s \in Sensors \ InputPins :
    Scope[s] = ScopeGlobal /\ sstate'[s] = "ON" => sstate[s] = "ON" \/ master = "ON"

LEMMA StepsOfSensors == ASSUME TypeOK, [Next]_vars PROVE ChecksMaster \/ SparesSensors
<1>1. ASSUME UNCHANGED <<master, sstate>> PROVE SparesSensors
  BY <1>1 DEF SparesSensors
<1>2. CASE UserRequest
  <2>1. ASSUME NEW s \in MasterStates, RequestMaster(s) PROVE ChecksMaster
    BY <2>1 DEF RequestMaster, ChecksMaster
  <2> QED BY <1>1, <1>2, <2>1 DEF UserRequest, RequestPump, RequestOutput, SetTankLevel
<1>3. CASE TimerExpiry
  BY <1>1, <1>3
  DEF TimerExpiry, PumpTimerExpires, OutputTimerExpires, DelayExpires, ChecksMaster, TypeOK
<1>7. CASE TimerWorkers
  BY <1>1, <1>7 DEF TimerWorkers, WorkerLooks, PumpWorkerAsks, OutputWorkerAsks
<1>4. CASE Environment
  <2>1. ASSUME NEW c \in Conds, NEW safe \in BOOLEAN, ConditionInput(c, safe)
        PROVE  ChecksMaster \/ SparesSensors
    BY <1>1, <2>1 DEF ConditionInput, SetCondState, ChecksMaster, TypeOK
  <2>2. ASSUME NEW s \in Sensors, SensorOn(s), UNCHANGED master PROVE SparesSensors
    BY <2>2 DEF SensorOn, SparesSensors, TypeOK
  <2>3. ASSUME NEW i \in InputPins, NEW on \in BOOLEAN, InputEdge(i, on) PROVE SparesSensors
    BY <2>3 DEF InputEdge, SparesSensors, TypeOK
  <2>4. ASSUME NEW o \in Outputs, SwitchedByHand(o) PROVE SparesSensors
    BY <1>1, <2>4 DEF SwitchedByHand
  <2> QED BY <1>4, <2>1, <2>2, <2>3, <2>4, ConfigAssumption DEF Environment, SensorMessage
<1>5. CASE PollingCycle
  <2>1. ASSUME NEW s \in Polled, ReadingOk(s) PROVE SparesSensors
    BY <2>1 DEF ReadingOk, SensorOn, SparesSensors, TypeOK, Polled
  <2>2. ASSUME NEW s \in Polled, ReadingFails(s) \/ ReadingSkipped(s) PROVE SparesSensors
    BY <2>2 DEF ReadingFails, ReadingSkipped, SparesSensors, TypeOK, Polled
  <2>3. CASE \/ StartCycle \/ EndCycle
             \/ \E s \in Polled : BeginReading(s)
             \/ \E o \in Outputs : NoticeOutput(o)
    BY <1>1, <2>3 DEF StartCycle, EndCycle, BeginReading, NoticeOutput
  <2> QED BY <1>5, <2>1, <2>2, <2>3 DEF PollingCycle
<1>6. CASE UNCHANGED vars
  BY <1>1, <1>6 DEF vars
<1> QED BY <1>2, <1>3, <1>4, <1>5, <1>6, <1>7 DEF Next

(***************************************************************************)
(* No Global sensor is ON unless the master is, whatever reading was in    *)
(* flight when the interlock failed (source/aquachemd.c:605).              *)
(***************************************************************************)
THEOREM GlobalSensorsAlwaysStop == Spec => []GlobalSensorsStop
<1>1. Init => GlobalSensorsStop
  BY DEF Init, GlobalSensorsStop
<1>2. TypeOK /\ GlobalSensorsStop /\ [Next]_vars => GlobalSensorsStop'
  BY StepsOfSensors, CheckMasterSensors DEF GlobalSensorsStop, SparesSensors
<1> QED BY <1>1, <1>2, TypeCorrect, PTL DEF Spec

(***************************************************************************)
(* A condition in its met-delay has a timer that will end it, unless that  *)
(* ran out while the master was OFF (source/state_manager.c:540).          *)
(***************************************************************************)
THEOREM DelayLostOnlyWhileOffAlways == Spec => DelayLostOnlyWhileOff
<1>1. ASSUME TypeOK, [Next]_vars, NEW c \in Conds, cstate'[c] = "DELAY", c \notin delays'
      PROVE  cstate[c] = "DELAY" /\ (c \notin delays \/ master = "OFF")
  <2>1. ASSUME UNCHANGED <<cstate, delays>> PROVE cstate[c] = "DELAY" /\ c \notin delays
    BY <1>1, <2>1
  <2>2. CASE UserRequest
    BY <2>1, <2>2, Zenon DEF UserRequest, RequestMaster, RequestPump, RequestOutput, SetTankLevel, condVars
  <2>3. CASE TimerExpiry
    <3>1. ASSUME NEW d \in Conds, DelayExpires(d)
          PROVE  cstate[c] = "DELAY" /\ (c \notin delays \/ master = "OFF")
      BY <1>1, <3>1 DEF DelayExpires, PromotedState, TypeOK
    <3> QED BY <2>1, <2>3, <3>1 DEF TimerExpiry, PumpTimerExpires, OutputTimerExpires, condVars
  <2>7. CASE TimerWorkers
    BY <2>1, <2>7, Zenon DEF TimerWorkers, WorkerLooks, PumpWorkerAsks, OutputWorkerAsks, condVars
  <2>4. CASE Environment
    <3>1. ASSUME NEW d \in Conds, NEW s \in {"ON", "OFF"}, SetCondState(d, s)
          PROVE  cstate[c] = "DELAY" /\ c \notin delays
      <4>1. CASE /\ cstate' = [cstate EXCEPT ![d] = "DELAY"]
                 /\ delays' = delays \cup {d}
        BY <1>1, <4>1 DEF TypeOK
      <4>2. CASE UNCHANGED <<cstate, delays>>
        BY <2>1, <4>2
      <4>3. CASE /\ cstate' = [cstate EXCEPT ![d] = s]
                 /\ delays' \in {delays, delays \ {d}}
        BY <1>1, <4>3 DEF TypeOK
      <4> QED BY <3>1, <4>1, <4>2, <4>3 DEF SetCondState
    <3> QED BY <2>1, <2>4, <3>1
        DEF Environment, ConditionInput, SensorMessage, InputEdge, SwitchedByHand, condVars
  <2>5. CASE PollingCycle
    BY <2>1, <2>5
    DEF PollingCycle, StartCycle, EndCycle, BeginReading, ReadingOk, ReadingFails, ReadingSkipped,
        NoticeOutput, condVars
  <2>6. CASE UNCHANGED vars
    BY <2>1, <2>6 DEF vars
  <2> QED BY <1>1, <2>2, <2>3, <2>4, <2>5, <2>6, <2>7 DEF Next
<1>2. TypeOK /\ [Next]_vars =>
        [\A c \in Conds : cstate'[c] = "DELAY" /\ c \notin delays' =>
           cstate[c] = "DELAY" /\ (c \notin delays \/ master = "OFF")]_vars
  BY <1>1
<1> QED BY <1>2, TypeCorrect, PTL DEF Spec, DelayLostOnlyWhileOff
=============================================================================
