----------------------------- MODULE DelayTimer -----------------------------
(***************************************************************************)
(* A condition with a met-delay, the timer of that delay and the threads   *)
(* that see its input change: set_cond_state() of source/state_manager.c   *)
(* taken apart where the worker of the timer, or another thread, can come  *)
(* between.  An input bounces: it may change again before the worker has   *)
(* heard of the last change.                                               *)
(***************************************************************************)
EXTENDS TimerThread

CONSTANTS
  Monitors,  \* threads that see the input: gpio_monitor_worker, the main loop, MQTT
  Repeats,   \* may the input repeat itself?  A topic may, a pin only changes
  MaxInputs  \* bound on the events of the input

ASSUME DelayAssumption == MaxInputs \in Nat /\ Repeats \in BOOLEAN

\* The worker is a thread of its own.
ASSUME WorkerAssumption == "worker" \notin Monitors

VARIABLES
  met,      \* key->met
  state,    \* of the condition
  trusted,  \* what check_master() last made of it
  pc, want, \* of each thread: place, and the state set_cond_state() is called with
  inputs,   \* events of the input so far
  metFor,   \* history: seconds since the input became met
  reused    \* history: a delay was started for an entry that was still linked

vars == <<timerVars, met, state, trusted, pc, want, inputs, metFor, reused>>

Worker1 == "worker"
Threads == Monitors \cup {Worker1}

\* met_delay of the condition
Delay == MaxSeconds

Goto(t, place) == pc' = [pc EXCEPT ![t] = place]
-----------------------------------------------------------------------------
\* The input says safe or unsafe: key->met, then set_cond_state().
Input(t, safe) ==
  /\ pc[t] = "idle" /\ inputs < MaxInputs
  /\ ~Repeats => safe # met
  /\ met' = safe
  /\ metFor' = IF safe /\ met THEN metFor ELSE 0
  /\ want' = [want EXCEPT ![t] = IF safe THEN "ON" ELSE "OFF"]
  /\ Goto(t, "enter")
  /\ inputs' = inputs + 1
  /\ UNCHANGED <<timerVars, state, trusted, reused>>

Enter(t) ==
  /\ pc[t] = "enter"
  /\ \/ want[t] = "ON" /\ state = "OFF" /\ state' = "DELAY" /\ Goto(t, "start")
     \/ want[t] = "ON" /\ (state = "DELAY" \/ (state = "ON" /\ flag))
          /\ Goto(t, IF TimeLeft > 0 THEN "idle" ELSE "set") /\ UNCHANGED state
     \/ want[t] = "OFF" /\ state = "DELAY" /\ Goto(t, "clear") /\ UNCHANGED state
     \/ /\ \/ want[t] = "ON" /\ state = "ON" /\ ~flag
           \/ want[t] = "OFF" /\ state # "DELAY"
        /\ Goto(t, "set") /\ UNCHANGED state
  /\ UNCHANGED <<timerVars, met, trusted, want, inputs, metFor, reused>>

StartDelay(t) ==
  /\ pc[t] = "start"
  /\ StartTimer(Delay)
  /\ reused' = (reused \/ linked)
  /\ Goto(t, "idle")
  /\ UNCHANGED <<met, state, trusted, want, inputs, metFor>>

ClearDelay(t) ==
  /\ pc[t] = "clear"
  /\ ClearTimer
  /\ Goto(t, "set")
  /\ UNCHANGED <<met, state, trusted, want, inputs, metFor, reused>>

SetState(t) ==
  /\ pc[t] = "set"
  /\ state' = want[t]
  /\ Goto(t, "check")
  /\ UNCHANGED <<timerVars, met, trusted, want, inputs, metFor, reused>>

\* Mutation: the input is not asked, only the state.
CheckStateOnly(t) ==
  /\ pc[t] = "check"
  /\ trusted' = (state = "ON")
  /\ Goto(t, "idle")
  /\ UNCHANGED <<timerVars, met, state, want, inputs, metFor, reused>>

\* check_master(), reduced to this condition.
CheckMaster(t) ==
  /\ pc[t] = "check"
  /\ trusted' = (met /\ state # "DELAY")
  /\ Goto(t, "idle")
  /\ UNCHANGED <<timerVars, met, state, want, inputs, metFor, reused>>

Continue(t) ==
  Enter(t) \/ StartDelay(t) \/ ClearDelay(t) \/ SetState(t) \/ CheckMaster(t)
-----------------------------------------------------------------------------
(***************************************************************************)
(* The worker of a delay goes straight to its wait.  After it, a condition *)
(* found in DELAY is set to what its input says, whether the wait ended by *)
(* itself or was cut short.                                                *)
(***************************************************************************)
Startup ==
  /\ wpc = "startup"
  /\ wpc' = "arm"
  /\ UNCHANGED <<linked, ctl, dur, left, elapsed, flag, met, state, trusted, pc, want, inputs,
                 metFor, reused>>

Decide ==
  /\ wpc = "ended"
  /\ IF state = "DELAY"
     THEN /\ wpc' = "acting"
          /\ want' = [want EXCEPT ![Worker1] = IF met THEN "ON" ELSE "OFF"]
          /\ Goto(Worker1, "enter")
     ELSE wpc' = "tail" /\ UNCHANGED <<pc, want>>
  /\ UNCHANGED <<linked, ctl, dur, left, elapsed, flag, met, state, trusted, inputs, metFor,
                 reused>>

Acted ==
  /\ wpc = "acting" /\ pc[Worker1] = "idle"
  /\ wpc' = "tail"
  /\ UNCHANGED <<linked, ctl, dur, left, elapsed, flag, met, state, trusted, pc, want, inputs,
                 metFor, reused>>

WorkerStep ==
  \/ Worker /\ UNCHANGED <<met, state, trusted, pc, want, inputs, metFor, reused>>
  \/ Startup \/ Decide \/ Acted

Second ==
  /\ Tick
  /\ metFor' = IF met /\ metFor < Delay THEN metFor + 1 ELSE metFor
  /\ UNCHANGED <<met, state, trusted, pc, want, inputs, reused>>
-----------------------------------------------------------------------------
Init ==
  /\ TimerInit
  /\ met = FALSE
  /\ state = "OFF"
  /\ trusted = FALSE
  /\ pc = [t \in Threads |-> "idle"]
  /\ want = [t \in Threads |-> "OFF"]
  /\ inputs = 0
  /\ metFor = 0
  /\ reused = FALSE

Next ==
  \/ \E t \in Monitors, safe \in BOOLEAN : Input(t, safe)
  \/ \E t \in Threads : Continue(t)
  \/ WorkerStep
  \/ Second

Spec == Init /\ [][Next]_vars

\* Threads are scheduled and time passes; inputs owe nothing.
Fairness ==
  /\ \A t \in Threads : WF_vars(Continue(t))
  /\ WF_vars(WorkerStep)
  /\ WF_vars(Second)

FairSpec == Spec /\ Fairness
-----------------------------------------------------------------------------
TypeOK ==
  /\ TimerTypeOK
  /\ met \in BOOLEAN /\ trusted \in BOOLEAN /\ reused \in BOOLEAN
  /\ state \in {"OFF", "ON", "DELAY"}
  /\ pc \in [Threads -> {"idle", "enter", "start", "clear", "set", "check"}]
  /\ want \in [Threads -> {"OFF", "ON"}]
  /\ inputs \in 0..MaxInputs
  /\ metFor \in Seconds

Quiet == \A t \in Threads : pc[t] = "idle"

NoOverlap == \A t, u \in Threads : pc[t] # "idle" /\ pc[u] # "idle" => t = u

(***************************************************************************)
(* However threads interleave, a condition is not left trusted when its    *)
(* input says otherwise: the last handler to finish sees it.               *)
(***************************************************************************)
TrustedIsMet == Quiet /\ trusted => met

DelayInv == TypeOK /\ TrustedIsMet

\* acd_types.h: a condition in its delay is not trusted; "only when that timer
\* expires" is it promoted -- its input has been met for the whole delay.
TrustIsEarned == Quiet /\ trusted => metFor = Delay

\* acd_types.h: and then set_cond_state() does "promote it to ACD_LED_ON".
MetIsTrustedInTheEnd == <>[]met => <>[]trusted

(***************************************************************************)
(* A condition is trusted only after its input has been met for the whole  *)
(* delay, as long as handlers do not overlap and no delay is started on an *)
(* entry left from the last one.                                           *)
(***************************************************************************)
FullDelayUnlessReused == [](NoOverlap /\ ~reused) => []TrustIsEarned

(***************************************************************************)
(* Then a condition that stays met comes to be trusted, too.               *)
(***************************************************************************)
TrustedInTheEndUnlessReused == [](NoOverlap /\ ~reused) => MetIsTrustedInTheEnd
=============================================================================
