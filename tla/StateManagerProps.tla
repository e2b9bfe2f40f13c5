-------------------------- MODULE StateManagerProps --------------------------
(***************************************************************************)
(* What the state manager has to get right, stated over StateManager.      *)
(***************************************************************************)
EXTENDS StateManager

(***************************************************************************)
(* Every variable stays in its type: the states each kind of key may take  *)
(* in set_key_state(), severity in the range of the permission table.      *)
(***************************************************************************)
TypeOK ==
  /\ master \in MasterStates
  /\ scope \in Severity
  /\ met \subseteq Conds
  /\ cstate \in [Conds -> CondStates]
  /\ delays \subseteq DelayedConds
  /\ pstate \in [Pumps -> DeviceStates]
  /\ ostate \in [Outputs -> {"OFF", "ON", "DISABLED"}]
  /\ sstate \in [Sensors -> DeviceStates]
  /\ relay \subseteq Pumps \cup Outputs
  /\ ison \subseteq Outputs
  /\ timers \subseteq Timed
  /\ worker \in [Timed -> WorkerPhases]
  /\ empty \subseteq TankPumps
  /\ lockout \subseteq TankPumps
  /\ faulted \subseteq Sensors
  /\ errs \in [Sensors -> 0..FaultThreshold]
  /\ polling \in BOOLEAN
  /\ reading \in SUBSET Polled
  /\ checked \in BOOLEAN

\* Mode A leaves the severity alone while the master is OFF.
Suspended == master = "OFF" /\ ~MasterOffAsInterlock

(***************************************************************************)
(* The severity the permission checks read is the one the conditions call  *)
(* for, although it is cached on the master key and recomputed only by     *)
(* check_master(): no handler changes a condition's met or DELAY without   *)
(* it.  (A doser asks the cache, never the conditions.)                    *)
(***************************************************************************)
SeverityIsWorstFailure ==
  checked /\ ~Suspended =>
    /\ scope = IF master = "OFF" THEN Block ELSE WorstFailure(met, cstate)
    /\ master = "ON" <=> (master # "OFF" /\ scope # Block)

\* A condition that gates a doser, by the scopes of the two.
Gates(c, p) ==
  \/ Scope[c] = ScopeGlobal
  \/ Scope[c] = ScopeLocal /\ Scope[p] = ScopeGlobal

\* A doser with a lockout can lose track of its relay: a tank level that ends
\* the lockout sets it ENABLED even while it runs (SetTankLevel).
Dosing(p) == pstate[p] = "ON" \/ (p \in relay /\ p \notin LockoutPumps)

(***************************************************************************)
(* The interlock: once check_master() has run, no doser runs while a       *)
(* condition that gates it is unmet or still in its met-delay, or while    *)
(* the master is OFF.                                                      *)
(***************************************************************************)
DosesOnlyWhenSafe ==
  checked => \A p \in Pumps : Dosing(p) =>
    /\ master # "OFF"
    /\ \A c \in Conds : Gates(c, p) => c \in met /\ cstate[c] = "ON"

(***************************************************************************)
(* A Global sensor is not trusted unless the master is ON, even when the   *)
(* reading was begun before an interlock failed and ends after it.  Input  *)
(* pins are the exception: their monitor does not ask (see InputEdge).     *)
(***************************************************************************)
GlobalSensorsStop ==
  master # "ON" =>
    \A s \in Sensors \ InputPins : Scope[s] = ScopeGlobal => sstate[s] # "ON"

(***************************************************************************)
(* OFF is sticky for a pump: whatever the conditions and the master do,    *)
(* and whenever a timer ends, only a request to that pump or a new tank    *)
(* level clears it, with one exception.  The worker of a timer that was    *)
(* started but had not begun when the pump was turned off misses that, and *)
(* asks for the pump to be turned on again (source/acd_timer.c:250-261).   *)
(***************************************************************************)
StickyOff ==
  [][\A p \in Pumps : pstate[p] = "OFF" /\ pstate'[p] # "OFF" =>
       \/ \E s \in {"ON", "ENABLED"}, timed \in BOOLEAN : RequestPump(p, s, timed)
       \/ \E q \in TankPumps, low \in BOOLEAN : SetTankLevel(q, low)
       \/ PumpWorkerAsks(p)]_vars

(***************************************************************************)
(* When a dose empties the tank the doser ends up OFF, whoever ended the   *)
(* dose: a request, its timer or a failed interlock.                       *)
(***************************************************************************)
LockoutForcesOff ==
  [][\A p \in Pumps : p \in lockout' \ lockout => pstate'[p] = "OFF"]_vars

(***************************************************************************)
(* A running doser keeps the timer that will stop it, except for one       *)
(* caller: a request for ON without a run time while it is running, or     *)
(* with one that a maximum dose time of zero has taken away.               *)
(***************************************************************************)
TimerLostByZeroRequestOnly ==
  [][\A p \in Pumps :
       (pstate[p] = "ON" /\ p \in timers) /\ (pstate'[p] = "ON" /\ p \notin timers')
         => \E timed \in BOOLEAN : ~HasRunTime(p, timed) /\ RequestPump(p, "ON", timed)]_vars

(***************************************************************************)
(* A condition in its met-delay has a timer that will end it, unless that  *)
(* timer ran out while the master was OFF.                                 *)
(***************************************************************************)
DelayLostOnlyWhileOff ==
  [][\A c \in Conds :
       cstate'[c] = "DELAY" /\ c \notin delays' =>
         cstate[c] = "DELAY" /\ (c \notin delays \/ master = "OFF")]_vars

(***************************************************************************)
(* While nobody turns the master OFF, a condition that stays met comes to  *)
(* count as safe.                                                          *)
(***************************************************************************)
MetIsTrustedWhileOn ==
  [](master # "OFF") =>
    \A c \in Conds : <>[](c \in met) => <>[](cstate[c] = "ON")

(***************************************************************************)
(* Refinement: the severity on the master key and the devices whose state  *)
(* is ON implement Interlock.                                              *)
(***************************************************************************)
Devices == Pumps \cup Outputs

MayRun(d, sev) == Permitted(IF d \in Pumps THEN Pump ELSE Output, Scope[d], "ON", sev)

Running == {p \in Pumps : pstate[p] = "ON"} \cup {o \in Outputs : ostate[o] = "ON"}

Promise == INSTANCE Interlock WITH
  Severities <- Severity, Tolerates <- MayRun, severity <- scope, running <- Running

ImplementsInterlock == Promise!Spec

(***************************************************************************)
(* The interlock as an inductive invariant.  A doser asks the severity     *)
(* cached on the master key, so besides that cache being right, whatever   *)
(* runs must be permitted by it; the cache is right because a condition's  *)
(* state says whether it is met; and a relay is followed by its pump's     *)
(* state except where a lockout is configured.                             *)
(***************************************************************************)
CondStateFollowsMet == \A c \in Conds : c \in met <=> cstate[c] # "OFF"

RunningIsPermitted == \A d \in Running : MayRun(d, scope)

MasterOffStopsDosers == master = "OFF" => \A p \in Pumps : pstate[p] # "ON"

RelayFollowsState == \A p \in Pumps \ LockoutPumps : p \in relay => pstate[p] = "ON"

SafetyInv ==
  /\ TypeOK
  /\ SeverityIsWorstFailure
  /\ CondStateFollowsMet
  /\ RunningIsPermitted
  /\ MasterOffStopsDosers
  /\ RelayFollowsState
-----------------------------------------------------------------------------
(***************************************************************************)
(* The documentation, where the code does something else.                  *)
(***************************************************************************)

\* README: every dose has a "hard ceiling on how long [it] can run" -- so it
\* ends, once nobody asks for the doser to be ON any more.
EveryDoseEnds ==
  \A p \in Pumps :
    <>[][\A timed \in BOOLEAN : ~RequestPump(p, "ON", timed)]_vars
      => (pstate[p] = "ON" ~> pstate[p] # "ON")
=============================================================================
