--------------------------- MODULE DoseAccounting ---------------------------
(***************************************************************************)
(* How much a doser has dosed: its run times, the total of the period and  *)
(* its cap, the level of its tank and the journal the level is restored    *)
(* from (turn_pump_on() and turn_pump_off() of source/state_manager.c,     *)
(* source/sensor_stats.c, the tank events of source/utils.c).              *)
(*                                                                         *)
(* One pH doser with a tracked tank; handlers are single steps, as in      *)
(* StateManager, and the interlocks are one switch.  Volumes are whole     *)
(* millilitres and time whole seconds: floats, their rounding and the      *)
(* clock's fractions are left out.  Next to what the daemon keeps, the     *)
(* module follows what really flows: pumped and tank.                      *)
(*                                                                         *)
(* The total is a field of a key that is malloc'ed and that nothing writes *)
(* before the first reset: a start finds any of StartTotals in it.  NaN    *)
(* stands for what no addition changes and no cap is reached by: a float   *)
(* that is not a number, or minus infinity.                                *)
(***************************************************************************)
EXTENDS DoseTable

CONSTANTS
  DoseLines,    \* the tables that may be configured: sequences of lines
  Readings,     \* pH readings
  DefaultTime,  \* ph_default_dose_time
  MaxDoseTime,  \* ph_max_dose_time
  FlowRate,     \* ml per second
  TotalMax,     \* running_total_max_ml; 0 is none
  StartTotals,  \* what may be in the unwritten running_total_ml of a new key
  NaN,          \* the one of them that is no number
  Volume,       \* tank_total_volume
  MinVolume,    \* tank_min_volume; 0 is none
  PumpedMax,    \* bound on the history: the ml after which pumped is no longer counted up
  Untimed,      \* may a request for ON come without a run time?
  MayRestart    \* does the daemon stop and start again?

ASSUME AccountingAssumption ==
  /\ DefaultTime \in Nat /\ MaxDoseTime \in Nat /\ FlowRate \in Nat \ {0}
  /\ TotalMax \in Nat /\ PumpedMax \in Nat /\ Volume \in Nat \ {0} /\ MinVolume \in 0..Volume
  /\ Untimed \in BOOLEAN /\ MayRestart \in BOOLEAN
  /\ NaN \notin Int /\ StartTotals \subseteq Int \cup {NaN}

ASSUME LinesAssumption == DoseLines \subseteq Seq(DoseLine) /\ Readings \subseteq Nat

VARIABLES
  lines,    \* the configured table, as the file has it
  state,    \* of the doser
  permit,   \* the interlocks let it run
  relay,    \* energised
  timed,    \* it has a timer
  left,     \* seconds left on that timer
  since,    \* seconds since started_at of that timer
  total,    \* running_total_ml
  found,    \* history: the total at the start of the daemon, or at the reset after it
  level,    \* remaining_volume
  journal,  \* the last level event, if there is one
  flagged,  \* SET_OFF_DUE_TO_TANK_VOLUME
  pumped,   \* history: ml the pump has moved, by its flow rate, in this period
  tank,     \* history: ml left in the real tank
  missed,   \* history: since the reset of the total, a dose was disturbed
  drifted   \* history: since the level was set, a dose was disturbed

doseVars == <<state, relay, timed, left, since>>
bookVars == <<total, level, journal, flagged>>
realVars == <<pumped, tank, missed, drifted>>
vars == <<lines, found, permit, doseVars, bookVars, realVars>>

Steps == DoseTableOf(lines, TRUE)

\* No single run of the pump is given more than this.
LongestRun ==
  LET times == {MaxDoseTime, DefaultTime} \cup {Steps[i].seconds : i \in DOMAIN Steps}
  IN CHOOSE t \in times : \A u \in times : t >= u

Counted(ml) == IF ml > PumpedMax THEN PumpedMax ELSE ml
-----------------------------------------------------------------------------
\* What a request may ask for: also more than the maximum, and nothing.
RunTimes == (1..(MaxDoseTime + 1)) \cup IF Untimed THEN {0} ELSE {}

\* get_pump_runtime()
PumpRunTime(reading) == GetDoseTime(Steps, reading, TRUE, DefaultTime)

Capped(d) == IF d > MaxDoseTime THEN MaxDoseTime ELSE d

\* Mutation: the cap is never reached.
CapIgnored == FALSE

\* The period's total has reached its cap.
CapReached == TotalMax > 0 /\ total # NaN /\ total >= TotalMax

(***************************************************************************)
(* turn_pump_on() with the run time d of the request, 0 if it has none.    *)
(* The maximum is applied to what the request says, not to what the table  *)
(* says; a running timer is set to the request's time even if that is 0,   *)
(* and its started_at to now.                                              *)
(***************************************************************************)
TurnPumpOn(d, reading) ==
  LET runtime == IF d = 0 THEN PumpRunTime(reading) ELSE d
  IN /\ runtime > 0 /\ ~CapReached
     /\ since' = 0
     /\ IF timed /\ state = "ON"
        THEN /\ timed' = (Capped(d) > 0)
             /\ left' = Capped(d)
             /\ missed' = TRUE /\ drifted' = TRUE
             /\ UNCHANGED <<state, relay>>
        ELSE /\ state' = "ON" /\ relay' = TRUE /\ timed' = TRUE
             /\ left' = IF Capped(d) = 0 THEN runtime ELSE Capped(d)
             /\ UNCHANGED <<missed, drifted>>
     /\ UNCHANGED <<bookVars, pumped, tank>>

\* actual_runtime times flow_rate; nothing without a timer to ask.
DoseMl == IF timed THEN since * FlowRate ELSE 0

\* Mutation: no clamp at an empty tank.
DrawnWrapped(l, ml) == (l + Volume + 1 - ml) % (Volume + 1)

\* calculate_tank_volume_after_dose()
Drawn(l, ml) == IF ml > l THEN 0 ELSE l - ml

TankIsEmpty(l) == l <= MinVolume

\* calculate_dose_running_total(); its stop at FLT_MAX is left out.
Plus(t, ml) == IF t = NaN THEN NaN ELSE t + ml

\* The dose is drawn from a tank at level l and, if there is a cap, added to
\* the total.
Book(l, ml) ==
  /\ level' = Drawn(l, ml)
  /\ total' = IF TotalMax > 0 THEN Plus(total, ml) ELSE total

StopPump(desired) ==
  /\ relay' = FALSE /\ timed' = FALSE /\ left' = 0 /\ since' = 0
  /\ state' = IF TankIsEmpty(level') THEN "OFF" ELSE desired
  /\ flagged' = (flagged \/ TankIsEmpty(level'))

\* Mutation: the timer is cleared before it is asked.
TurnPumpOffTooLate(desired) == Book(level, 0) /\ StopPump(desired) /\ UNCHANGED journal

\* Mutation: the new level is not logged.
TurnPumpOffUnlogged(desired) == Book(level, DoseMl) /\ StopPump(desired) /\ UNCHANGED journal

\* turn_pump_off(), and LOG_TANK_LEVEL() if there was a dose.
TurnPumpOff(desired) ==
  /\ Book(level, DoseMl)
  /\ StopPump(desired)
  /\ journal' = IF DoseMl > 0 THEN {level'} ELSE journal
-----------------------------------------------------------------------------
\* _state_change_request() for ON, and for OFF and ENABLED.
RequestOn(d, reading) ==
  /\ permit
  /\ TurnPumpOn(d, reading)
  /\ UNCHANGED <<lines, found, permit>>

RequestOff(s) ==
  /\ s = "ENABLED" => permit
  /\ \/ state = "ON" /\ TurnPumpOff("ENABLED")
     \/ state # "ON" /\ state' = s /\ UNCHANGED <<relay, timed, left, since, bookVars>>
  /\ UNCHANGED <<lines, found, permit, realVars>>

\* timer_worker() at the end of its time: unless the doser is at rest it is
\* asked to be OFF.
TimerExpires ==
  /\ timed /\ left = 0
  /\ \/ state = "ON" /\ TurnPumpOff("ENABLED")
     \/ /\ state # "ON"
        /\ state' = IF state = "DISABLED" THEN "OFF" ELSE state
        /\ timed' = FALSE /\ since' = 0
        /\ UNCHANGED <<relay, left, bookVars>>
  /\ UNCHANGED <<lines, found, permit, realVars>>

\* check_master() finds that the doser may not run, or that it may again.
Block ==
  /\ permit' = FALSE
  /\ \/ state = "ON" /\ TurnPumpOff("DISABLED")
     \/ /\ state # "ON"
        /\ state' = IF state = "OFF" THEN "OFF" ELSE "DISABLED"
        /\ UNCHANGED <<relay, timed, left, since, bookVars>>
  /\ UNCHANGED <<lines, found, realVars>>

Unblock ==
  /\ permit' = TRUE
  /\ state' = IF state = "DISABLED" THEN "ENABLED" ELSE state
  /\ UNCHANGED <<lines, found, relay, timed, left, since, bookVars, realVars>>

(***************************************************************************)
(* set_tank_volume() with the level the user has filled the tank to, and   *)
(* validate_pumps_against_tanks() after it: a doser with a lockout is      *)
(* turned OFF if that is too little, and ENABLED if its lockout is over.   *)
(* A dose that is stopped here is drawn from the new level.                *)
(***************************************************************************)
SetTankVolume(v) ==
  LET lockout == MinVolume > 0
      stop    == lockout /\ TankIsEmpty(v) /\ state = "ON"
  IN /\ Book(v, IF stop THEN DoseMl ELSE 0)
     /\ journal' = {level'}
     /\ IF lockout /\ TankIsEmpty(v) /\ state \in {"ENABLED", "ON"}
        THEN /\ state' = "OFF" /\ flagged' = TRUE
             /\ relay' = (relay /\ ~stop)
             /\ timed' = (timed /\ ~stop)
             /\ left' = (IF stop THEN 0 ELSE left)
             /\ since' = (IF stop THEN 0 ELSE since)
        ELSE /\ flagged' = (flagged /\ ~(lockout /\ ~TankIsEmpty(v)))
             /\ state' \in IF ~(flagged /\ ~flagged') THEN {state}
                           ELSE IF permit THEN {"ENABLED"} ELSE {"ENABLED", "DISABLED"}
             /\ UNCHANGED <<relay, timed, left, since>>
     /\ tank' = v
     /\ drifted' = relay
     /\ missed' = (missed \/ (relay' /\ state' # "ON"))
     /\ UNCHANGED <<lines, found, permit, pumped>>

\* reset_dose_running_total(), asked for at the end of a period.
ResetDoseTotal ==
  /\ total' = IF TotalMax > 0 THEN 0 ELSE total
  /\ pumped' = Counted(DoseMl)
  /\ found' = total'
  /\ missed' = (relay /\ missed)
  /\ UNCHANGED <<lines, permit, doseVars, level, journal, flagged, tank, drifted>>

(***************************************************************************)
(* The daemon dies or is stopped, and starts again.  Relays are opened on  *)
(* either side; the level comes from the journal or else is half; the      *)
(* total is what the memory of the new key holds.                          *)
(***************************************************************************)
StartLevel == IF journal = {} THEN Volume \div 2 ELSE CHOOSE l \in journal : TRUE

Restart ==
  /\ MayRestart
  /\ relay' = FALSE /\ timed' = FALSE /\ left' = 0 /\ since' = 0
  /\ level' = StartLevel
  /\ flagged' = (MinVolume > 0 /\ TankIsEmpty(level'))
  /\ state' = IF flagged' THEN "OFF" ELSE "ENABLED"
  /\ permit' = TRUE
  /\ total' \in StartTotals
  /\ found' = total'
  /\ missed' = TRUE
  /\ drifted' = (drifted \/ relay)
  /\ UNCHANGED <<lines, journal, pumped, tank>>

\* A second passes: an energised pump moves what the tank still has.
Second ==
  /\ relay
  /\ timed => left > 0
  /\ left' = IF timed THEN left - 1 ELSE 0
  /\ since' = IF timed THEN since + 1 ELSE 0
  /\ pumped' = Counted(pumped + FlowRate)
  /\ tank' = IF tank < FlowRate THEN 0 ELSE tank - FlowRate
  /\ UNCHANGED <<lines, found, permit, state, relay, timed, bookVars, missed, drifted>>
-----------------------------------------------------------------------------
Init ==
  /\ lines \in DoseLines
  /\ permit = TRUE
  /\ relay = FALSE /\ timed = FALSE /\ left = 0 /\ since = 0
  /\ journal = {}
  /\ level = StartLevel
  /\ flagged = (MinVolume > 0 /\ TankIsEmpty(level))
  /\ state = IF flagged THEN "OFF" ELSE "ENABLED"
  /\ total \in StartTotals
  /\ found = total
  /\ pumped = 0
  /\ tank = level
  /\ missed = TRUE /\ drifted = TRUE

Next ==
  \/ \E d \in RunTimes, r \in Readings : RequestOn(d, r)
  \/ \E s \in {"OFF", "ENABLED"} : RequestOff(s)
  \/ TimerExpires
  \/ Block
  \/ Unblock
  \/ \E v \in 0..Volume : SetTankVolume(v)
  \/ ResetDoseTotal
  \/ Restart
  \/ Second

Spec == Init /\ [][Next]_vars
-----------------------------------------------------------------------------
(***************************************************************************)
(* The table that is built means the lines it was built from, in whatever  *)
(* order they are written, lines of one threshold among them, and for both *)
(* chemicals: a reading gets the run time of the line whose threshold it   *)
(* has reached, and a reading that has reached none the run time of the    *)
(* line that comes last, the smallest dose (source/state_manager.c,        *)
(* 221-256, and its comment at 233).  The README of the program (line 226) *)
(* has the default dose time there, as "fallback dose time if no threshold *)
(* matches"; the code takes the default only if there are no lines at all. *)
(***************************************************************************)
TableMeansItsLines ==
  \A descending \in BOOLEAN, reading \in Readings :
    LET steps == DoseTableOf(lines, descending)
        kept  == {lines[i] : i \in 1..Len(steps)}
    IN steps # <<>> =>
         \E l \in Bracket(kept, reading, descending) :
           GetDoseTime(steps, reading, descending, DefaultTime) = l.seconds

(***************************************************************************)
(* The period's total is what was pumped, the dose in flight apart: every  *)
(* way a dose ends books it, once.  The one thing that disturbs it is a    *)
(* request that resets the timer of a running dose (or a restart, or a     *)
(* level set while it runs), until the next period.                        *)
(***************************************************************************)
TotalIsPumped == TotalMax > 0 /\ ~missed => pumped = Counted(total + DoseMl)

(***************************************************************************)
(* The tracked level, less the dose in flight, is what the tank holds,     *)
(* down to a tank that has run dry.                                        *)
(***************************************************************************)
LevelIsTank == ~drifted => tank = Drawn(level, DoseMl)

(***************************************************************************)
(* The cap is looked at when a dose starts, so doses take the total over   *)
(* it by less than one run of the pump: after a reset, and after a start   *)
(* that finds anything in the unwritten total.  A total that is found at   *)
(* or over the cap stays as it is, with no dose, until the reset; one that *)
(* is found far below 0 lets more be pumped than the cap says, and one     *)
(* that is no number is never added to: the total is then no account of    *)
(* what was pumped, and the cap none of what may be.                       *)
(***************************************************************************)
OvershootIsOneDose ==
  TotalMax > 0 => total = found \/ total < TotalMax + LongestRun * FlowRate

(***************************************************************************)
(* A restart at any moment finds the level the daemon had: the journal has *)
(* the last of them.                                                       *)
(***************************************************************************)
RestartKeepsLevel == [][Restart => level' = level]_vars
=============================================================================
