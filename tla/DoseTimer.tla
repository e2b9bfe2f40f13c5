----------------------------- MODULE DoseTimer -----------------------------
(***************************************************************************)
(* A doser, its timer and the threads that switch it.  The handlers of     *)
(* source/state_manager.c that StateManager takes as one step are taken    *)
(* apart here where another thread can come between: no lock is held from  *)
(* the test of a key's state to the relay, to the state and to the timer.  *)
(*                                                                         *)
(* Callers are threads that make requests (web and MQTT, the scheduler);   *)
(* Monitors are threads that find a condition changed and run              *)
(* check_master(); the timer's own worker makes requests too.  The doser   *)
(* is Global, so it may run only while the severity is Allow.              *)
(***************************************************************************)
EXTENDS TimerThread

CONSTANTS
  Callers,      \* threads that make requests
  Monitors,     \* threads that run check_master()
  MaxRequests,  \* bound on the requests and condition changes, all together
  Untimed       \* may a request come without a run time?

ASSUME DoseAssumption == MaxRequests \in Nat /\ Untimed \in BOOLEAN

\* The worker is a thread of its own.
ASSUME WorkerAssumption == "worker" \notin Callers \cup Monitors

VARIABLES
  state,     \* of the doser
  relay,     \* energised
  allowed,   \* the severity on the master key is Allow
  pc, sec, to,  \* of each thread: place, run time, target state
  requests,  \* made so far
  lost       \* history: a timer was started that no worker will count

threadVars == <<pc, sec, to>>
vars == <<timerVars, state, relay, allowed, threadVars, requests, lost>>

Worker1 == "worker"
Threads == Callers \cup Monitors \cup {Worker1}

RunTimes == IF Untimed THEN Seconds ELSE Seconds \ {0}

\* get_pump_runtime(), for a request without a run time.
DefaultTime == MaxSeconds

Goto(t, place) == pc' = [pc EXCEPT ![t] = place]
-----------------------------------------------------------------------------
(***************************************************************************)
(* Requests begin with the permission check of _state_change_request().    *)
(***************************************************************************)
RequestOn(t, d) ==
  /\ pc[t] = "idle" /\ requests < MaxRequests /\ allowed
  /\ Goto(t, "on")
  /\ sec' = [sec EXCEPT ![t] = d]
  /\ requests' = requests + 1
  /\ UNCHANGED <<timerVars, state, relay, allowed, to, lost>>

RequestOff(t, s) ==
  /\ pc[t] = "idle" /\ requests < MaxRequests
  /\ s = "ENABLED" => allowed
  /\ Goto(t, "off")
  /\ to' = [to EXCEPT ![t] = s]
  /\ requests' = requests + 1
  /\ UNCHANGED <<timerVars, state, relay, allowed, sec, lost>>

\* turn_pump_on(): a running timer is only reset, to the run time asked for.
TurnOn(t) ==
  /\ pc[t] = "on"
  /\ IF flag /\ state = "ON"
     THEN Goto(t, "start") /\ UNCHANGED <<relay, sec>>
     ELSE /\ relay' = TRUE
          /\ Goto(t, "on2")
          /\ sec' = [sec EXCEPT ![t] = IF @ = 0 THEN DefaultTime ELSE @]
  /\ UNCHANGED <<timerVars, state, allowed, to, requests, lost>>

SetOn(t) ==
  /\ pc[t] = "on2"
  /\ state' = "ON"
  /\ Goto(t, "start")
  /\ UNCHANGED <<timerVars, relay, allowed, sec, to, requests, lost>>

Start(t) ==
  /\ pc[t] = "start"
  /\ StartTimer(sec[t])
  /\ lost' = (lost \/ Leaving \/ (linked /\ sec[t] = 0))
  /\ Goto(t, "idle")
  /\ UNCHANGED <<state, relay, allowed, sec, to, requests>>

\* The pump branch of _state_change_request() for OFF and ENABLED.
TestOn(t) ==
  /\ pc[t] = "off"
  /\ IF state = "ON"
     THEN Goto(t, "cut") /\ to' = [to EXCEPT ![t] = "ENABLED"] /\ UNCHANGED state
     ELSE Goto(t, "idle") /\ state' = to[t] /\ UNCHANGED to
  /\ UNCHANGED <<timerVars, relay, allowed, sec, requests, lost>>

\* turn_pump_off()
Cut(t) ==
  /\ pc[t] = "cut"
  /\ relay' = FALSE
  /\ Goto(t, "off2")
  /\ UNCHANGED <<timerVars, state, allowed, sec, to, requests, lost>>

SetOff(t) ==
  /\ pc[t] = "off2"
  /\ state' = to[t]
  /\ Goto(t, "clear")
  /\ UNCHANGED <<timerVars, relay, allowed, sec, to, requests, lost>>

Clear(t) ==
  /\ pc[t] = "clear"
  /\ ClearTimer
  /\ Goto(t, "idle")
  /\ UNCHANGED <<state, relay, allowed, sec, to, requests, lost>>
-----------------------------------------------------------------------------
(***************************************************************************)
(* check_master() on a Monitor.  It resets the severity before it looks at *)
(* the conditions; then it comes to the doser.                             *)
(***************************************************************************)
ConditionChange(t, verdict) ==
  /\ pc[t] = "idle" /\ requests < MaxRequests
  /\ allowed' = TRUE
  /\ to' = [to EXCEPT ![t] = verdict]
  /\ Goto(t, "rate")
  /\ requests' = requests + 1
  /\ UNCHANGED <<timerVars, state, relay, sec, lost>>

Rate(t) ==
  /\ pc[t] = "rate"
  /\ allowed' = (to[t] = "ENABLED")
  /\ Goto(t, "settle")
  /\ UNCHANGED <<timerVars, state, relay, sec, to, requests, lost>>

\* Mutation: a running doser is not stopped.
SettleIdleDoser(t) ==
  /\ pc[t] = "settle"
  /\ Goto(t, "idle")
  /\ state' = IF state \in {"OFF", "ON"} THEN state ELSE to[t]
  /\ UNCHANGED <<timerVars, relay, allowed, sec, to, requests, lost>>

SettleDoser(t) ==
  /\ pc[t] = "settle"
  /\ IF state = "ON" /\ to[t] = "DISABLED"
     THEN Goto(t, "cut") /\ UNCHANGED state
     ELSE /\ Goto(t, "idle")
          /\ state' = IF state \in {"OFF", "ON"} THEN state ELSE to[t]
  /\ UNCHANGED <<timerVars, relay, allowed, sec, to, requests, lost>>
-----------------------------------------------------------------------------
(***************************************************************************)
(* The worker of a doser.  Before its wait it watches for a doser that is  *)
(* OFF and, after five seconds of that, asks for it to be turned on; it    *)
(* gives up after ten.                                                     *)
(***************************************************************************)
Startup ==
  /\ wpc = "startup"
  /\ \/ /\ state # "OFF"
        /\ wpc' = "arm"
        /\ UNCHANGED <<pc, sec>>
     \/ /\ state = "OFF" /\ ctl = "CLEANUP"
        /\ wpc' = "tail"
        /\ UNCHANGED <<pc, sec>>
     \/ /\ state = "OFF" /\ ctl # "CLEANUP"
        /\ wpc' = "asking"
        /\ IF allowed
           THEN Goto(Worker1, "on") /\ sec' = [sec EXCEPT ![Worker1] = 0]
           ELSE UNCHANGED <<pc, sec>>
  /\ UNCHANGED <<linked, ctl, dur, left, elapsed, flag, state, relay, allowed, to,
                 requests, lost>>

Asked ==
  /\ wpc = "asking" /\ pc[Worker1] = "idle"
  /\ wpc' = IF state = "OFF" /\ ctl = "CLEANUP" THEN "tail" ELSE "arm"
  /\ UNCHANGED <<linked, ctl, dur, left, elapsed, flag, state, relay, allowed, threadVars,
                 requests, lost>>

\* Mutation: the test for a cleared timer inverted.
DecideIfCleared ==
  /\ wpc = "ended"
  /\ IF dur = 0 /\ state \notin {"OFF", "ENABLED"}
     THEN wpc' = "acting" /\ Goto(Worker1, "off") /\ to' = [to EXCEPT ![Worker1] = "OFF"]
     ELSE wpc' = "tail" /\ UNCHANGED <<pc, to>>
  /\ UNCHANGED <<linked, ctl, dur, left, elapsed, flag, state, relay, allowed, sec,
                 requests, lost>>

\* After the wait: was this the end of the dose, or was the timer cleared?
Decide ==
  /\ wpc = "ended"
  /\ IF dur # 0 /\ state \notin {"OFF", "ENABLED"}
     THEN /\ wpc' = "acting"
          /\ Goto(Worker1, "off")
          /\ to' = [to EXCEPT ![Worker1] = "OFF"]
     ELSE wpc' = "tail" /\ UNCHANGED <<pc, to>>
  /\ UNCHANGED <<linked, ctl, dur, left, elapsed, flag, state, relay, allowed, sec,
                 requests, lost>>

Acted ==
  /\ wpc = "acting" /\ pc[Worker1] = "idle"
  /\ wpc' = "tail"
  /\ UNCHANGED <<linked, ctl, dur, left, elapsed, flag, state, relay, allowed, threadVars,
                 requests, lost>>

WorkerStep ==
  \/ Worker /\ UNCHANGED <<state, relay, allowed, threadVars, requests, lost>>
  \/ Startup \/ Asked \/ Decide \/ Acted

Second == Tick /\ UNCHANGED <<state, relay, allowed, threadVars, requests, lost>>
-----------------------------------------------------------------------------
Init ==
  /\ TimerInit
  /\ state = "ENABLED"
  /\ relay = FALSE
  /\ allowed = TRUE
  /\ pc = [t \in Threads |-> "idle"]
  /\ sec = [t \in Threads |-> 0]
  /\ to = [t \in Threads |-> "OFF"]
  /\ requests = 0
  /\ lost = FALSE

\* A handler a thread is in goes on.
Continue(t) ==
  \/ TurnOn(t) \/ SetOn(t) \/ Start(t)
  \/ TestOn(t) \/ Cut(t) \/ SetOff(t) \/ Clear(t)
  \/ Rate(t) \/ SettleDoser(t)

Next ==
  \/ \E t \in Callers, d \in RunTimes : RequestOn(t, d)
  \/ \E t \in Callers, s \in {"OFF", "ENABLED"} : RequestOff(t, s)
  \/ \E t \in Monitors, verdict \in {"ENABLED", "DISABLED"} : ConditionChange(t, verdict)
  \/ \E t \in Threads : Continue(t)
  \/ WorkerStep
  \/ Second

Spec == Init /\ [][Next]_vars

\* Threads are scheduled and time passes; nobody has to make requests.
Fairness ==
  /\ \A t \in Threads : WF_vars(Continue(t))
  /\ WF_vars(WorkerStep)
  /\ WF_vars(Second)

FairSpec == Spec /\ Fairness
-----------------------------------------------------------------------------
TypeOK ==
  /\ TimerTypeOK
  /\ state \in {"OFF", "ON", "ENABLED", "DISABLED"}
  /\ relay \in BOOLEAN /\ allowed \in BOOLEAN /\ lost \in BOOLEAN
  /\ pc \in [Threads -> {"idle", "on", "on2", "start", "off", "cut", "off2", "clear",
                         "rate", "settle"}]
  /\ sec \in [Threads -> Seconds]
  /\ to \in [Threads -> {"OFF", "ENABLED", "DISABLED"}]
  /\ requests \in 0..MaxRequests

Quiet == \A t \in Threads : pc[t] = "idle"

\* Running with nothing left that will stop it.
Runaway == state = "ON" /\ Quiet /\ ~linked

(***************************************************************************)
(* Handlers do not overlap, the timer's own included.  The worker's other  *)
(* steps, the clock and the conditions may still come in between.          *)
(***************************************************************************)
NoOverlap == \A t, u \in Threads : pc[t] # "idle" /\ pc[u] # "idle" => t = u

(***************************************************************************)
(* As long as handlers do not overlap, a relay is never left closed behind *)
(* a state that says otherwise, nor under a failed interlock.              *)
(***************************************************************************)
SerialHandlersAreSafe ==
  []NoOverlap => [](Quiet /\ relay => state = "ON" /\ allowed)

(***************************************************************************)
(* As long as handlers do not overlap, a doser that is ON with no timer    *)
(* was started while the worker of its last dose was leaving, or had its   *)
(* timer reset to zero seconds: there is no third way.                     *)
(***************************************************************************)
RunawayOnlyIfLost == []NoOverlap => [](Runaway => lost)

(***************************************************************************)
(* Then every dose ends too: a reset, a clear or a request at any other    *)
(* moment does no harm, a missed broadcast included.                       *)
(***************************************************************************)
DosesEndUnlessLost == [](NoOverlap /\ ~lost) => <>[](state # "ON")
=============================================================================
