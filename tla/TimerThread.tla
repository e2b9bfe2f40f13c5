---------------------------- MODULE TimerThread ----------------------------
(***************************************************************************)
(* One entry of the timer list of AquachemD and the thread that serves it  *)
(* (source/acd_timer.c), for one key.  Every thread of the daemon starts   *)
(* and clears timers; the entry is found by its key for as long as its     *)
(* worker has not unlinked it, so there is at most one entry to a key.     *)
(*                                                                         *)
(* A step is what runs between two points where another thread can get in: *)
(* the fields of the entry are read and written under its mutex up to the  *)
(* end of the wait, and without it from there on.  What the key is (a      *)
(* doser, a condition) and what the worker does to it before and after the *)
(* wait is left to the modules that extend this one.                       *)
(*                                                                         *)
(* Time passes in whole seconds, as in the code: the worker's wait times   *)
(* out at every tick.  Durations are bounded by MaxSeconds.                *)
(***************************************************************************)
EXTENDS Naturals

CONSTANTS MaxSeconds

ASSUME MaxSecondsAssumption == MaxSeconds \in Nat \ {0}

VARIABLES
  linked,   \* the entry is in _timerthread_ll
  ctl,      \* control.state
  dur,      \* duration_sec (duration_min is always 0)
  left,     \* end_time minus now, as the worker computed end_time
  elapsed,  \* now minus started_at
  flag,     \* TIMER_ACTIVE or DELAY_ACTIVE in the flags of the key
  wpc       \* where the worker is

timerVars == <<linked, ctl, dur, left, elapsed, flag, wpc>>

WorkerPlaces == {"none", "begin", "mark", "startup", "asking", "asked", "arm", "wait",
                 "signalled", "timedout", "ended", "acting", "tail", "unlink"}

Seconds == 0..MaxSeconds

TimerTypeOK ==
  /\ linked \in BOOLEAN
  /\ ctl \in {"STARTING", "KEEPRUNNING", "CLEANUP"}
  /\ dur \in Seconds /\ left \in Seconds /\ elapsed \in Seconds
  /\ flag \in BOOLEAN
  /\ wpc \in WorkerPlaces

TimerInit ==
  /\ linked = FALSE
  /\ ctl = "STARTING"
  /\ dur = 0 /\ left = 0 /\ elapsed = 0
  /\ flag = FALSE
  /\ wpc = "none"
-----------------------------------------------------------------------------
(***************************************************************************)
(* What the other threads call.  The broadcast reaches the worker only in  *)
(* its wait: nothing remembers it for a worker that is elsewhere.          *)
(***************************************************************************)
Broadcast == wpc' = IF wpc = "wait" THEN "signalled" ELSE wpc

\* Mutation: a linked entry is not given the new duration.
StartIfNew(d) ==
  IF linked THEN UNCHANGED timerVars
  ELSE /\ linked' = TRUE /\ ctl' = "STARTING" /\ dur' = d /\ elapsed' = 0 /\ wpc' = "begin"
       /\ UNCHANGED <<left, flag>>

\* _start_timer(): an entry that is still linked is given the new duration
\* and nothing else, whatever its worker is doing.
StartTimer(d) ==
  IF linked
  THEN dur' = d /\ Broadcast /\ UNCHANGED <<linked, ctl, left, elapsed, flag>>
  ELSE /\ linked' = TRUE
       /\ ctl' = "STARTING"
       /\ dur' = d
       /\ elapsed' = 0
       /\ wpc' = "begin"
       /\ UNCHANGED <<left, flag>>

ClearTimer ==
  IF linked
  THEN ctl' = "CLEANUP" /\ dur' = 0 /\ Broadcast /\ UNCHANGED <<linked, left, elapsed, flag>>
  ELSE UNCHANGED timerVars

\* Mutation: a running delay always looks over.
NoTimeLeft == 0

\* get_timer_left_sec()
TimeLeft == IF linked /\ elapsed < dur THEN dur - elapsed ELSE 0
-----------------------------------------------------------------------------
(***************************************************************************)
(* timer_worker().                                                         *)
(***************************************************************************)
RaiseFlag ==
  /\ wpc = "begin"
  /\ flag' = TRUE
  /\ wpc' = "mark"
  /\ UNCHANGED <<linked, ctl, dur, left, elapsed>>

\* Overwrites whatever a clear_timer() has written since the thread was made.
MarkRunning ==
  /\ wpc = "mark"
  /\ ctl' = "KEEPRUNNING"
  /\ wpc' = "startup"
  /\ UNCHANGED <<linked, dur, left, elapsed, flag>>

Arm ==
  /\ wpc = "arm"
  /\ left' = dur
  /\ elapsed' = 0
  /\ wpc' = IF dur = 0 THEN "ended" ELSE "wait"
  /\ UNCHANGED <<linked, ctl, dur, flag>>

\* pthread_cond_timedwait() returned 0.
WakeBySignal ==
  /\ wpc = "signalled"
  /\ IF ctl = "CLEANUP" \/ dur = 0
     THEN wpc' = "ended" /\ UNCHANGED <<left, elapsed>>
     ELSE wpc' = "wait" /\ left' = dur /\ elapsed' = 0
  /\ UNCHANGED <<linked, ctl, dur, flag>>

\* Mutation: the wait ends a second early.
WakeEarly ==
  /\ wpc = "timedout"
  /\ wpc' = IF left <= 1 THEN "ended" ELSE "wait"
  /\ UNCHANGED <<linked, ctl, dur, left, elapsed, flag>>

\* pthread_cond_timedwait() returned ETIMEDOUT: only the clock is looked at.
WakeByTimeout ==
  /\ wpc = "timedout"
  /\ wpc' = IF left = 0 THEN "ended" ELSE "wait"
  /\ UNCHANGED <<linked, ctl, dur, left, elapsed, flag>>

LowerFlag ==
  /\ wpc = "tail"
  /\ flag' = FALSE
  /\ wpc' = "unlink"
  /\ UNCHANGED <<linked, ctl, dur, left, elapsed>>

\* The entry is unlinked and freed (its fields are reset here only to keep
\* states few).
Unlink ==
  /\ wpc = "unlink"
  /\ linked' = FALSE
  /\ wpc' = "none"
  /\ ctl' = "STARTING" /\ dur' = 0 /\ left' = 0 /\ elapsed' = 0
  /\ UNCHANGED flag

Worker == RaiseFlag \/ MarkRunning \/ Arm \/ WakeBySignal \/ WakeByTimeout \/ LowerFlag \/ Unlink

\* A second passes.
Tick ==
  /\ linked
  /\ left' = IF left > 0 THEN left - 1 ELSE 0
  /\ elapsed' = IF elapsed < MaxSeconds THEN elapsed + 1 ELSE elapsed
  /\ wpc' = IF wpc = "wait" THEN "timedout" ELSE wpc
  /\ UNCHANGED <<linked, ctl, dur, flag>>

\* The worker has left its wait for good: what is written to the entry now
\* no worker will read as a timer.
Leaving == wpc \in {"ended", "acting", "tail", "unlink"}
=============================================================================
