---------------------------- MODULE StateManager ----------------------------
(***************************************************************************)
(* The state manager of AquachemD (source/state_manager.c) and the callers *)
(* that drive it: requests from the API, MQTT and the timers, condition    *)
(* inputs, the polling cycle of the main loop and tank levels.             *)
(*                                                                         *)
(* A handler that runs to completion is one step here, with every call it  *)
(* makes.  What the threads can do to one another between two statements   *)
(* of a handler is the subject of TimerThread; a reading is two steps even *)
(* here, since the main loop sits in it for a second while the other       *)
(* threads go on.                                                          *)
(*                                                                         *)
(* Keys are split by kind.  Booleans of a key (met, the relay, a running   *)
(* timer, a flag) are sets of keys.  Volumes, readings and durations are   *)
(* abstracted to what the handlers test: whether a tank is empty, whether  *)
(* a read succeeded, whether a request carries a run time.                 *)
(***************************************************************************)
EXTENDS AcdTypes

CONSTANTS
  Conds,                \* condition keys
  GpioConds,            \* those on a pin: only a change of level is an event
  DelayedConds,         \* those with a met_delay
  Pumps,                \* dosers
  TankPumps,            \* dosers with a tracked tank (tank_total_volume)
  LockoutPumps,         \* those that also have a tank_min_volume
  Outputs,              \* plain GPIO outputs
  Sensors,              \* sensors and inputs
  MqttSensors,          \* those fed by a topic; the others are polled
  InputPins,            \* those that are a GPIO input, watched like a condition
  CompensatedSensors,   \* pH probes that need a usable water temperature
  ZeroMaxPumps,         \* dosers whose maximum dose time is configured as 0
  Scope,                \* the interlock scope configured for each key
  MasterOffAsInterlock, \* master_off_as_interlock: TRUE is mode B
  FaultThreshold        \* SENSOR_FAULT_THRESHOLD

ASSUME ConfigAssumption ==
  /\ GpioConds \subseteq Conds
  /\ DelayedConds \subseteq Conds
  /\ TankPumps \subseteq Pumps
  /\ LockoutPumps \subseteq TankPumps
  /\ ZeroMaxPumps \subseteq Pumps
  /\ MqttSensors \subseteq Sensors
  /\ InputPins \subseteq Sensors
  /\ CompensatedSensors \subseteq Sensors
  /\ Scope \in [Conds \cup Pumps \cup Outputs \cup Sensors -> Scopes]
  /\ MasterOffAsInterlock \in BOOLEAN
  /\ FaultThreshold \in Nat

\* A key has one type.
ASSUME KindsAssumption == Pumps \cap Outputs = {} /\ MqttSensors \cap InputPins = {}

VARIABLES
  master,   \* state of the master key
  scope,    \* severity, kept in the scope of the master key
  met,      \* conditions whose input says "safe"
  cstate,   \* state of the conditions
  delays,   \* conditions whose met-delay is running
  pstate,   \* state of the pumps
  ostate,   \* state of the outputs
  sstate,   \* state of the sensors
  relay,    \* pumps and outputs whose relay is energised
  ison,     \* outputs whose relay was energised when last looked at
  timers,   \* pumps and outputs with a timer that has time to run
  worker,   \* where the thread of a timer is: WorkerPhases
  empty,    \* pumps whose tank is at or below its minimum volume
  lockout,  \* pumps flagged SET_OFF_DUE_TO_TANK_VOLUME
  faulted,  \* sensors flagged FAULTED
  errs,     \* err_cnt of the sensors
  polling,  \* the main loop is past its master-OFF test
  reading,  \* the sensor the main loop is reading, if any
  checked   \* history: check_master() has run since the last (re)load

condVars == <<met, cstate, delays>>
pollVars == <<polling, reading>>
vars == <<master, scope, met, cstate, delays, pstate, ostate, sstate, relay,
          ison, timers, worker, empty, lockout, faulted, errs, polling, reading, checked>>

Polled == Sensors \ (MqttSensors \cup InputPins)
-----------------------------------------------------------------------------
(***************************************************************************)
(* Timers (source/acd_timer.c).  The worker of a new timer begins some time *)
(* after the handler that started it.  Until it does the flag TIMER_ACTIVE *)
(* is down, and a clear is lost on it: it finds no time left, but goes     *)
(* through its start-up all the same.                                      *)
(***************************************************************************)
Timed == Pumps \cup Outputs

WorkerPhases == {"none", "new", "waiting", "counting"}

TimerActive(d) == worker[d] \in {"waiting", "counting"}

\* start_timer() with a run time: an entry that is there is used again.
StartTimer(d) ==
  /\ timers' = timers \cup {d}
  /\ worker' = [worker EXCEPT ![d] = IF @ = "none" THEN "new" ELSE @]

\* Mutation: every timer goes, not those of the devices.
DropAllTimers(devices) == timers' = {} /\ worker' = [d \in Timed |-> "none"]

\* clear_timer()
DropTimers(devices) ==
  /\ timers' = timers \ devices
  /\ worker' = [d \in Timed |->
       IF d \in devices /\ worker[d] # "new" THEN "none" ELSE worker[d]]

\* start_timer() on a running timer; zero seconds end it like a clear.
ResetTimer(d, hasRunTime) ==
  \/ hasRunTime /\ StartTimer(d)
  \/ ~hasRunTime /\ DropTimers({d})

(***************************************************************************)
(* Turning devices off: turn_pump_off() and turn_gpio_switch_off().  The   *)
(* dose just ended is drawn from the tank only if a timer says when it     *)
(* began; drained holds the pumps whose dose takes the tank to its minimum.*)
(***************************************************************************)
StopDevices(pumps, outputs, drained) ==
  /\ relay' = relay \ (pumps \cup outputs)
  /\ ison' = ison \ outputs
  /\ DropTimers(pumps \cup outputs)
  /\ empty' = empty \cup (pumps \cap timers \cap drained)
  /\ lockout' = lockout \cup (pumps \cap empty')

\* set_key_state() on a pump: it is only armed while the master is ON.
Settle(state, m) == IF state = "ENABLED" /\ m # "ON" THEN "DISABLED" ELSE state

(***************************************************************************)
(* check_master(), entered with the master key in state m and with the     *)
(* conditions as met' and cstate' say.                                     *)
(***************************************************************************)
\* Mutation: a condition in its delay counts as safe.
FailedIfUnmet(c, mt, cs) == c \notin mt

Failed(c, mt, cs) == c \notin mt \/ cs[c] = "DELAY"

WorstFailure(mt, cs) ==
  IF \E c \in Conds : Failed(c, mt, cs) /\ Scope[c] = ScopeGlobal THEN Block
  ELSE IF \E c \in Conds : Failed(c, mt, cs) /\ Scope[c] = ScopeLocal THEN Limit
  ELSE Allow

ShutdownState(st) == IF st = "OFF" THEN "OFF" ELSE "DISABLED"

\* Mode A: the master switch means everything.
Shutdown(drained) ==
  LET running == {p \in Pumps : pstate[p] = "ON"}
  IN /\ StopDevices(running, {o \in Outputs : ostate[o] = "ON"}, drained)
     /\ pstate' = [p \in Pumps |-> ShutdownState(pstate[p])]
     /\ ostate' = [o \in Outputs |-> "DISABLED"]
     /\ sstate' = [s \in Sensors |-> ShutdownState(sstate[s])]
     /\ UNCHANGED <<scope, faulted>>

RearmedState(p, stop, sev, m) ==
  CASE pstate[p] = "ON" /\ ~stop -> "ON"
    [] pstate[p] = "ON" /\ stop  -> IF p \in empty' THEN "OFF" ELSE PumpRestingState(Scope[p], sev)
    [] OTHER                     -> Settle(PumpRestingState(Scope[p], sev), m)

\* A pump that is OFF stays OFF; one that may run, or is idle, goes to rest.
ReconciledState(p, stop, sev, m) ==
  IF pstate[p] = "OFF" THEN "OFF" ELSE RearmedState(p, stop, sev, m)

\* Bring every device to where severity sev, with master state m, allows it.
Reconcile(sev, m, drained) ==
  LET stopP == {p \in Pumps : pstate[p] = "ON" /\ ~Permitted(Pump, Scope[p], "ON", sev)}
      stopO == {o \in Outputs : ostate[o] = "ON" /\ ~Permitted(Output, Scope[o], "ON", sev)}
      wake  == {s \in Sensors : sstate[s] # "ON" /\ Permitted(Sensor, Scope[s], "ON", sev)}
  IN /\ StopDevices(stopP, stopO, drained)
     /\ pstate' = [p \in Pumps |-> ReconciledState(p, p \in stopP, sev, m)]
     /\ ostate' = [o \in Outputs |->
          IF ostate[o] = "ON" /\ o \notin stopO THEN "ON"
          ELSE OutputRestingState(Scope[o], sev)]
     /\ sstate' = [s \in Sensors |->
          IF ~Permitted(Sensor, Scope[s], "ON", sev) THEN "DISABLED"
          ELSE IF s \in wake THEN "ENABLED" ELSE "ON"]
     /\ faulted' = faulted \ wake

\* Mutation: severity only ever rises.
SeverityNeverLowered(m, worst) ==
  IF m = "OFF" THEN Block ELSE IF worst < scope THEN scope ELSE worst

\* A master switched OFF is at least as severe as any condition.
SeverityFor(m, worst) == IF m = "OFF" THEN Block ELSE worst

CheckMaster(m, drained) ==
  /\ checked' = TRUE
  /\ IF m = "OFF" /\ ~MasterOffAsInterlock
     THEN master' = m /\ Shutdown(drained)
     ELSE LET worst == WorstFailure(met', cstate')
          IN /\ scope' = SeverityFor(m, worst)
             /\ master' = CASE m = "OFF" -> "OFF"
                            [] m # "OFF" /\ worst = Block -> "ENABLED"
                            [] m # "OFF" /\ worst # Block -> "ON"
             /\ Reconcile(scope', master', drained)
-----------------------------------------------------------------------------
(***************************************************************************)
(* Requests: _state_change_request().  Anything not permitted, and         *)
(* anything but a request to the master while the master is OFF, is        *)
(* rejected, which is a stutter.                                           *)
(***************************************************************************)
RequestMaster(s) ==
  /\ scope \in TransitionPermission["MASTER"][s]
  /\ UNCHANGED <<met, cstate, delays, errs, polling, reading>>
  /\ \E drained \in SUBSET TankPumps : CheckMaster(s, drained)

\* Mutation: the permission table is not asked.
AcceptedIfMasterOn(kind, k, s) == master # "OFF"

Accepted(kind, k, s) == master # "OFF" /\ Permitted(kind, Scope[k], s, scope)

\* The maximum dose time is applied to the run time of the request: with a
\* maximum of zero none is left.
HasRunTime(p, timed) == timed /\ p \notin ZeroMaxPumps

(***************************************************************************)
(* turn_pump_on().  A pump already running under a timer only has its      *)
(* timer reset, to the run time of the request even if that is zero; one   *)
(* that starts runs for the time asked for, or for its own.                *)
(***************************************************************************)
TurnPumpOn(p, timed) ==
  /\ \/ /\ pstate[p] = "ON" /\ TimerActive(p)
        /\ ResetTimer(p, HasRunTime(p, timed))
        /\ UNCHANGED <<relay, pstate>>
     \/ /\ ~(pstate[p] = "ON" /\ TimerActive(p))
        /\ relay' = relay \cup {p}
        /\ pstate' = [pstate EXCEPT ![p] = "ON"]
        /\ StartTimer(p)
  /\ UNCHANGED <<ison, empty, lockout>>

\* Mutation: the lockout does not override the state asked for.
TurnPumpOffAsAsked(p, desired) ==
  /\ \E drained \in SUBSET TankPumps : StopDevices({p}, {}, drained)
  /\ pstate' = [pstate EXCEPT ![p] = desired]

\* turn_pump_off(): the lockout overrides the state that was asked for.
TurnPumpOff(p, desired) ==
  /\ \E drained \in SUBSET TankPumps : StopDevices({p}, {}, drained)
  /\ pstate' = [pstate EXCEPT ![p] = IF p \in empty' THEN "OFF" ELSE desired]

PumpRequest(p, s, timed) ==
  \/ s = "ON" /\ TurnPumpOn(p, timed)
  \/ s \in {"OFF", "ENABLED"} /\ pstate[p] = "ON" /\ TurnPumpOff(p, "ENABLED")
  \/ /\ s \in {"OFF", "ENABLED"} /\ pstate[p] # "ON"
     /\ pstate' = [pstate EXCEPT ![p] = s]
     /\ UNCHANGED <<relay, ison, timers, worker, empty, lockout>>

RequestPump(p, s, timed) ==
  /\ Accepted(Pump, p, s)
  /\ PumpRequest(p, s, timed)
  /\ UNCHANGED <<master, scope, condVars, ostate, sstate, faulted, errs, pollVars, checked>>

OutputRequest(o, s, timed) ==
  \/ /\ s = "ON" /\ ostate[o] = "ON" /\ TimerActive(o)
     /\ ResetTimer(o, timed)
     /\ UNCHANGED <<ostate, relay, ison>>
  \/ /\ s = "ON" /\ ~(ostate[o] = "ON" /\ TimerActive(o))
     /\ relay' = relay \cup {o}
     /\ ison' = ison \cup {o}
     /\ ostate' = [ostate EXCEPT ![o] = "ON"]
     /\ IF timed THEN StartTimer(o) ELSE UNCHANGED <<timers, worker>>
  \/ /\ s = "OFF" /\ ostate[o] = "ON"
     /\ relay' = relay \ {o}
     /\ ison' = ison \ {o}
     /\ ostate' = [ostate EXCEPT ![o] = "OFF"]
     /\ DropTimers({o})
  \/ /\ s = "OFF" /\ ostate[o] # "ON"
     /\ ostate' = [ostate EXCEPT ![o] = "OFF"]
     /\ UNCHANGED <<relay, ison, timers, worker>>

RequestOutput(o, s, timed) ==
  /\ Accepted(Output, o, s)
  /\ OutputRequest(o, s, timed)
  /\ UNCHANGED <<master, scope, condVars, pstate, sstate, empty, lockout, faulted, errs,
                 pollVars, checked>>
-----------------------------------------------------------------------------
(***************************************************************************)
(* The worker of a timer: timer_worker().  As long as it finds its device  *)
(* OFF it waits; then it counts, or if no time is left it is gone.         *)
(***************************************************************************)
DeviceState(d) == IF d \in Pumps THEN pstate[d] ELSE ostate[d]

Counting(d) == IF d \in timers THEN "counting" ELSE "none"

WorkerLooks(d) ==
  /\ worker[d] \in {"new", "waiting"}
  /\ worker' = [worker EXCEPT ![d] = IF DeviceState(d) = "OFF" THEN "waiting" ELSE Counting(d)]
  /\ UNCHANGED <<master, scope, condVars, pstate, ostate, sstate, relay, ison, timers, empty,
                 lockout, faulted, errs, pollVars, checked>>

(***************************************************************************)
(* A worker that has waited for five seconds asks for its device to be     *)
(* turned on.  If that is refused, or skipped since the cap of the period  *)
(* is reached or the run time is zero, it gives up after five more.        *)
(***************************************************************************)
PumpWorkerAsks(p) ==
  /\ worker[p] = "waiting" /\ pstate[p] = "OFF"
  /\ \/ Accepted(Pump, p, "ON") /\ PumpRequest(p, "ON", FALSE)
     \/ /\ worker' = [worker EXCEPT ![p] = Counting(p)]
        /\ UNCHANGED <<pstate, relay, ison, timers, empty, lockout>>
  /\ UNCHANGED <<master, scope, condVars, ostate, sstate, faulted, errs, pollVars, checked>>

OutputWorkerAsks(o) ==
  /\ worker[o] = "waiting" /\ ostate[o] = "OFF"
  /\ \/ Accepted(Output, o, "ON") /\ OutputRequest(o, "ON", FALSE)
     \/ /\ ~Accepted(Output, o, "ON")
        /\ worker' = [worker EXCEPT ![o] = Counting(o)]
        /\ UNCHANGED <<ostate, relay, ison, timers>>
  /\ UNCHANGED <<master, scope, condVars, pstate, sstate, empty, lockout, faulted, errs,
                 pollVars, checked>>

(***************************************************************************)
(* Timers running out: the tail of timer_worker().  A device that is still *)
(* on is asked to turn off, a condition still in its delay to turn on; the *)
(* timer is gone afterwards whatever became of the request.                *)
(***************************************************************************)
PumpTimerExpires(p) ==
  /\ p \in timers /\ worker[p] = "counting"
  /\ \/ /\ pstate[p] \notin {"OFF", "ENABLED"} /\ Accepted(Pump, p, "OFF")
        /\ \/ pstate[p] = "ON" /\ TurnPumpOff(p, "ENABLED")
           \/ /\ pstate[p] # "ON"
              /\ pstate' = [pstate EXCEPT ![p] = "OFF"]
              /\ DropTimers({p})
              /\ UNCHANGED <<relay, ison, empty, lockout>>
     \/ /\ pstate[p] \in {"OFF", "ENABLED"} \/ ~Accepted(Pump, p, "OFF")
        /\ DropTimers({p})
        /\ UNCHANGED <<pstate, relay, ison, empty, lockout>>
  /\ UNCHANGED <<master, scope, condVars, ostate, sstate, faulted, errs, pollVars, checked>>

OutputTimerExpires(o) ==
  /\ o \in timers /\ worker[o] = "counting"
  /\ DropTimers({o})
  /\ IF ostate[o] # "OFF" /\ Accepted(Output, o, "OFF")
     THEN /\ ostate' = [ostate EXCEPT ![o] = "OFF"]
          /\ IF ostate[o] = "ON"
             THEN relay' = relay \ {o} /\ ison' = ison \ {o}
             ELSE UNCHANGED <<relay, ison>>
     ELSE UNCHANGED <<ostate, relay, ison>>
  /\ UNCHANGED <<master, scope, condVars, pstate, sstate, empty, lockout, faulted, errs,
                 pollVars, checked>>

\* The condition's input is looked at again when the delay is over.
PromotedState(c) == IF c \in met THEN "ON" ELSE "OFF"

\* Mutation: nobody acts on the end of a delay.
DelayForgotten(c) ==
  /\ c \in delays
  /\ delays' = delays \ {c}
  /\ UNCHANGED <<master, scope, met, cstate, pstate, ostate, sstate, relay, ison, timers,
                 worker, empty, lockout, faulted, errs, pollVars, checked>>

DelayExpires(c) ==
  /\ c \in delays
  /\ delays' = delays \ {c}
  /\ IF cstate[c] = "DELAY" /\ master # "OFF"
     THEN /\ cstate' = [cstate EXCEPT ![c] = PromotedState(c)]
          /\ met' = met
          /\ \E drained \in SUBSET TankPumps : CheckMaster(master, drained)
          /\ UNCHANGED <<errs, pollVars>>
     ELSE UNCHANGED <<master, scope, met, cstate, pstate, ostate, sstate, relay, ison,
                      timers, worker, empty, lockout, faulted, errs, pollVars, checked>>
-----------------------------------------------------------------------------
(***************************************************************************)
(* A condition input: the pin changes (gpio_monitor_worker, or the main    *)
(* loop's second look) or a message arrives on the topic                   *)
(* (action_mqtt_condition_message), and set_cond_state() follows.          *)
(***************************************************************************)
SetCondState(c, s) ==
  \/ \* met, with a delay: start it, and trust nothing yet
     /\ s = "ON" /\ c \in DelayedConds /\ cstate[c] = "OFF"
     /\ cstate' = [cstate EXCEPT ![c] = "DELAY"]
     /\ delays' = delays \cup {c}
     /\ UNCHANGED <<master, scope, pstate, ostate, sstate, relay, ison, timers, worker,
                    empty, lockout, faulted, checked>>
  \/ \* met again while the delay is running
     /\ s = "ON" /\ c \in DelayedConds /\ cstate[c] # "OFF" /\ c \in delays
     /\ UNCHANGED <<master, scope, cstate, delays, pstate, ostate, sstate, relay, ison,
                    timers, worker, empty, lockout, faulted, checked>>
  \/ /\ \/ s = "OFF"
        \/ s = "ON" /\ ~(c \in DelayedConds /\ (cstate[c] = "OFF" \/ c \in delays))
     /\ cstate' = [cstate EXCEPT ![c] = s]
     /\ delays' = IF s = "OFF" /\ cstate[c] = "DELAY" THEN delays \ {c} ELSE delays
     /\ \E drained \in SUBSET TankPumps : CheckMaster(master, drained)

ConditionInput(c, safe) ==
  /\ c \in GpioConds => safe # (c \in met)
  /\ met' = IF safe THEN met \cup {c} ELSE met \ {c}
  /\ SetCondState(c, IF safe THEN "ON" ELSE "OFF")
  /\ UNCHANGED <<errs, pollVars>>
-----------------------------------------------------------------------------
(***************************************************************************)
(* The polling cycle of the main loop.  The test for master OFF is made    *)
(* once per cycle; each key is tested as its turn comes.                   *)
(***************************************************************************)
deviceVars == <<pstate, ostate, relay, ison, timers, worker, empty, lockout>>

StartCycle ==
  /\ ~polling /\ master # "OFF"
  /\ polling' = TRUE
  /\ UNCHANGED <<master, scope, condVars, deviceVars, sstate, faulted, errs, reading, checked>>

EndCycle ==
  /\ polling /\ reading = {}
  /\ polling' = FALSE
  /\ UNCHANGED <<master, scope, condVars, deviceVars, sstate, faulted, errs, reading, checked>>

BeginReading(s) ==
  /\ polling /\ reading = {}
  /\ Permitted(Sensor, Scope[s], "ON", scope)
  /\ s \notin faulted /\ sstate[s] # "DISABLED"
  /\ reading' = {s}
  /\ UNCHANGED <<master, scope, condVars, deviceVars, sstate, faulted, errs, polling, checked>>

\* Mutation: the master is not asked when a reading ends.
SensorOnAlways(s) == sstate' = [sstate EXCEPT ![s] = "ON"] /\ faulted' = faulted \ {s}

\* set_key_state(key, ON): a Global sensor is refused unless the master is ON.
SensorOn(s) ==
  IF Scope[s] = ScopeGlobal /\ master # "ON"
  THEN UNCHANGED <<sstate, faulted>>
  ELSE sstate' = [sstate EXCEPT ![s] = "ON"] /\ faulted' = faulted \ {s}

ReadingOk(s) ==
  /\ s \in reading
  /\ reading' = {}
  /\ SensorOn(s)
  /\ errs' = [errs EXCEPT ![s] = 0]
  /\ UNCHANGED <<master, scope, condVars, deviceVars, polling, checked>>

\* sensor_read_error()
ReadingFails(s) ==
  /\ s \in reading
  /\ reading' = {}
  /\ IF errs[s] >= FaultThreshold
     THEN /\ sstate' = [sstate EXCEPT ![s] = "DISABLED"]
          /\ faulted' = faulted \cup {s}
          /\ errs' = [errs EXCEPT ![s] = 0]
     ELSE /\ sstate' = [sstate EXCEPT ![s] = "OFF"]
          /\ errs' = [errs EXCEPT ![s] = @ + 1]
          /\ UNCHANGED faulted
  /\ UNCHANGED <<master, scope, condVars, deviceVars, polling, checked>>

\* No temperature to compensate with, or one out of range.
ReadingSkipped(s) ==
  /\ s \in reading /\ s \in CompensatedSensors
  /\ reading' = {}
  /\ sstate' = [sstate EXCEPT ![s] = "OFF"]
  /\ UNCHANGED <<master, scope, condVars, deviceVars, faulted, errs, polling, checked>>

\* action_mqtt_sensor_message(), on the network thread.
SensorMessage(s) ==
  /\ SensorOn(s)
  /\ UNCHANGED <<master, scope, condVars, deviceVars, errs, pollVars, checked>>

\* An input pin changes level.  The monitor thread reports it to
\* set_key_state() whatever the severity; the main loop looks at it only
\* behind the tests of a reading.
InputEdge(s, on) ==
  /\ sstate' = [sstate EXCEPT ![s] = IF on THEN "ON" ELSE "OFF"]
  /\ faulted' = IF on THEN faulted \ {s} ELSE faulted
  /\ UNCHANGED <<master, scope, condVars, deviceVars, errs, pollVars, checked>>

\* Somebody else drives the output's pin.
SwitchedByHand(o) ==
  /\ relay' = IF o \in relay THEN relay \ {o} ELSE relay \cup {o}
  /\ UNCHANGED <<master, scope, condVars, pstate, ostate, sstate, ison, timers, worker,
                 empty, lockout, faulted, errs, pollVars, checked>>

\* check_gpio_output_state(), behind the same tests as a reading.
NoticeOutput(o) ==
  /\ polling /\ reading = {}
  /\ Permitted(Output, Scope[o], "ON", scope)
  /\ ostate[o] # "DISABLED"
  /\ (o \in relay) # (o \in ison)
  /\ ison' = IF o \in relay THEN ison \cup {o} ELSE ison \ {o}
  /\ ostate' = [ostate EXCEPT ![o] =
       IF o \in relay THEN "ON" ELSE OutputRestingState(Scope[o], scope)]
  /\ UNCHANGED <<master, scope, condVars, pstate, sstate, relay, timers, worker, empty,
                 lockout, faulted, errs, pollVars, checked>>
-----------------------------------------------------------------------------
(***************************************************************************)
(* A tank level set by the user, and validate_pumps_against_tanks() after  *)
(* it, over all the pumps.                                                 *)
(***************************************************************************)
SetTankLevel(p, low) ==
  LET levels == IF low THEN empty \cup {p} ELSE empty \ {p}
      dry    == {q \in LockoutPumps \cap levels : pstate[q] \in {"ENABLED", "ON"}}
      refill == (LockoutPumps \cap lockout) \ levels
      stop   == {q \in dry : pstate[q] = "ON"}
  IN /\ empty' = levels
     /\ relay' = relay \ stop
     /\ DropTimers(stop)
     /\ lockout' = (lockout \cup dry) \ refill
     /\ pstate' = [q \in Pumps |->
          IF q \in dry THEN "OFF"
          ELSE IF q \in refill THEN Settle("ENABLED", master) ELSE pstate[q]]
     /\ UNCHANGED <<master, scope, condVars, ostate, sstate, ison, faulted, errs,
                    pollVars, checked>>
-----------------------------------------------------------------------------
(***************************************************************************)
(* The keys as the initialisation loop of main() leaves them.  Neither the *)
(* severity (the master key is malloc'ed) nor the flags of the keys are    *)
(* initialised; tank levels come from the journal.                         *)
(***************************************************************************)
Init ==
  /\ master = "ENABLED"
  /\ scope \in Severity
  /\ met = {}
  /\ cstate = [c \in Conds |-> "OFF"]
  /\ delays = {}
  /\ empty \in SUBSET TankPumps
  /\ lockout = empty \cap LockoutPumps
  /\ pstate = [p \in Pumps |-> IF p \in lockout THEN "OFF" ELSE "ENABLED"]
  /\ ostate = [o \in Outputs |-> "OFF"]
  /\ sstate = [s \in Sensors |-> "DISABLED"]
  /\ relay = {}
  /\ ison = {}
  /\ timers = {}
  /\ worker = [d \in Timed |-> "none"]
  /\ faulted \in SUBSET Sensors
  /\ errs = [s \in Sensors |-> 0]
  /\ polling = FALSE
  /\ reading = {}
  /\ checked = FALSE

UserRequest ==
  \/ \E s \in MasterStates : RequestMaster(s)
  \/ \E p \in Pumps, s \in {"OFF", "ON", "ENABLED"}, timed \in BOOLEAN : RequestPump(p, s, timed)
  \/ \E o \in Outputs, s \in {"OFF", "ON"}, timed \in BOOLEAN : RequestOutput(o, s, timed)
  \/ \E p \in TankPumps, low \in BOOLEAN : SetTankLevel(p, low)

TimerWorkers ==
  \/ \E d \in Timed : WorkerLooks(d)
  \/ \E p \in Pumps : PumpWorkerAsks(p)
  \/ \E o \in Outputs : OutputWorkerAsks(o)

TimerExpiry ==
  \/ \E p \in Pumps : PumpTimerExpires(p)
  \/ \E o \in Outputs : OutputTimerExpires(o)
  \/ \E c \in Conds : DelayExpires(c)

Environment ==
  \/ \E c \in Conds, safe \in BOOLEAN : ConditionInput(c, safe)
  \/ \E s \in MqttSensors : SensorMessage(s)
  \/ \E s \in InputPins, on \in BOOLEAN : InputEdge(s, on)
  \/ \E o \in Outputs : SwitchedByHand(o)

PollingCycle ==
  \/ StartCycle
  \/ EndCycle
  \/ \E s \in Polled : BeginReading(s)
  \/ \E s \in Polled : ReadingOk(s) \/ ReadingFails(s) \/ ReadingSkipped(s)
  \/ \E o \in Outputs : NoticeOutput(o)

Next == UserRequest \/ TimerWorkers \/ TimerExpiry \/ Environment \/ PollingCycle

Spec == Init /\ [][Next]_vars

(***************************************************************************)
(* The daemon runs its timers and its main loop whatever else happens; the *)
(* user and the pins owe it nothing.                                       *)
(***************************************************************************)
Fairness ==
  /\ \A d \in Timed : WF_vars(WorkerLooks(d))
  /\ \A p \in Pumps : WF_vars(PumpWorkerAsks(p))
  /\ \A o \in Outputs : WF_vars(OutputWorkerAsks(o))
  /\ \A p \in Pumps : WF_vars(PumpTimerExpires(p))
  /\ \A o \in Outputs : WF_vars(OutputTimerExpires(o))
  /\ \A c \in Conds : WF_vars(DelayExpires(c))

FairSpec == Spec /\ Fairness
=============================================================================
