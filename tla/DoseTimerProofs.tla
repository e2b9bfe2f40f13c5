-------------------------- MODULE DoseTimerProofs --------------------------
(***************************************************************************)
(* What serial handlers guarantee of a doser and its timer, for any number *)
(* of threads, run times and requests, whatever the worker's other steps   *)
(* and the clock do in between.                                            *)
(***************************************************************************)
EXTENDS DoseTimer, TLAPS

Places == {"idle", "on", "on2", "start", "off", "cut", "off2", "clear", "rate", "settle"}

Verdicts == {"ENABLED", "DISABLED"}

FlagsTypeOK == relay \in BOOLEAN /\ allowed \in BOOLEAN /\ lost \in BOOLEAN

HandlerTypeOK ==
  /\ state \in {"OFF", "ON", "ENABLED", "DISABLED"}
  /\ pc \in [Threads -> Places]
  /\ sec \in [Threads -> Seconds]
  /\ to \in [Threads -> {"OFF", "ENABLED", "DISABLED"}]
  /\ requests \in 0..MaxRequests

\* An entry is in the list for as long as it has a worker, which is in a
\* handler only between asking for it and having it answered.
WorkerInStep ==
  /\ linked <=> wpc # "none"
  /\ pc[Worker1] # "idle" => wpc \in {"asking", "acting"}

\* The entry has a run time, and a worker that will still look at it.
Counted == linked /\ dur # 0 /\ wpc \notin {"none", "acting", "tail", "unlink"}

ClosedOnlyOn == relay => state = "ON"

\* What the handler a thread is in has established so far.
Established(t) ==
  /\ pc[t] = "on" => allowed /\ ClosedOnlyOn
  /\ pc[t] = "on2" => allowed /\ sec[t] # 0
  /\ pc[t] = "start" => state = "ON" /\ allowed /\ (sec[t] = 0 => Counted \/ lost)
  /\ pc[t] = "off" => ClosedOnlyOn /\ (relay => allowed)
  /\ pc[t] = "off2" => ~relay
  /\ pc[t] = "clear" => ~relay /\ state # "ON"
  /\ pc[t] = "rate" => ClosedOnlyOn /\ to[t] \in Verdicts
  /\ pc[t] = "settle" => ClosedOnlyOn /\ to[t] \in Verdicts /\ (allowed <=> to[t] = "ENABLED")

SafeWhenQuiet == Quiet /\ relay => state = "ON" /\ allowed

\* Places from which a doser found ON is left ON.
Keeping == {"idle", "on", "rate", "settle"}

CountedOrLost == state = "ON" /\ (\A t \in Threads : pc[t] \in Keeping) => Counted \/ lost

IndInv ==
  /\ TimerTypeOK
  /\ FlagsTypeOK
  /\ HandlerTypeOK
  /\ WorkerInStep
  /\ \A t \in Threads : Established(t)
  /\ SafeWhenQuiet
  /\ CountedOrLost

LEMMA TypeOKInParts == TypeOK <=> TimerTypeOK /\ FlagsTypeOK /\ HandlerTypeOK
  BY Zenon DEF TypeOK, FlagsTypeOK, HandlerTypeOK, Places

LEMMA ThreadsDiffer ==
  /\ Worker1 \in Threads
  /\ \A t \in Callers \cup Monitors : t \in Threads /\ t # Worker1
  BY WorkerAssumption DEF Threads, Worker1

LEMMA DefaultTimeIsPositive == DefaultTime \in Seconds /\ DefaultTime # 0
  BY MaxSecondsAssumption DEF DefaultTime, Seconds

LEMMA InitInd == Init => IndInv
<1> SUFFICES ASSUME Init PROVE IndInv
  OBVIOUS
<1>1. linked \in BOOLEAN /\ flag \in BOOLEAN /\ ~linked
  BY Zenon DEF Init, TimerInit
<1>2. FlagsTypeOK /\ ~relay
  BY Zenon DEF Init, FlagsTypeOK
<1>3. TimerTypeOK
  BY <1>1, MaxSecondsAssumption DEF Init, TimerInit, TimerTypeOK, Seconds, WorkerPlaces
<1>4. HandlerTypeOK
  BY DoseAssumption, MaxSecondsAssumption DEF Init, HandlerTypeOK, Places, Seconds
<1>5. \A t \in Threads : pc[t] = "idle"
  BY DEF Init
<1>6. WorkerInStep
  BY <1>1, <1>5, ThreadsDiffer DEF Init, TimerInit, WorkerInStep
<1>7. \A t \in Threads : Established(t)
  BY <1>5 DEF Established
<1>8. SafeWhenQuiet /\ CountedOrLost
  BY <1>2 DEF Init, SafeWhenQuiet, CountedOrLost
<1> QED
  BY <1>2, <1>3, <1>4, <1>6, <1>7, <1>8 DEF IndInv
-----------------------------------------------------------------------------
(***************************************************************************)
(* The entry and its worker.                                               *)
(***************************************************************************)
LEMMA TimerKeepsType ==
  ASSUME TimerTypeOK, NEW d \in Seconds,
         \/ StartTimer(d) \/ ClearTimer \/ Worker \/ Tick
         \/ UNCHANGED timerVars
         \/ wpc' \in WorkerPlaces /\ UNCHANGED <<linked, ctl, dur, left, elapsed, flag>>
  PROVE  TimerTypeOK'
<1> USE MaxSecondsAssumption DEF Seconds, WorkerPlaces
<1>1. CASE StartTimer(d)
  <2>1. linked' \in BOOLEAN /\ flag' \in BOOLEAN
    BY <1>1, Zenon DEF StartTimer, TimerTypeOK
  <2> QED
    BY <1>1, <2>1 DEF StartTimer, Broadcast, TimerTypeOK
<1>2. CASE ClearTimer
  <2>1. linked' \in BOOLEAN /\ flag' \in BOOLEAN
    BY <1>2, Zenon DEF ClearTimer, timerVars, TimerTypeOK
  <2> QED
    BY <1>2, <2>1 DEF ClearTimer, Broadcast, timerVars, TimerTypeOK
<1>3. CASE Worker
  <2> USE DEF Worker, RaiseFlag, MarkRunning, Arm, WakeBySignal, WakeByTimeout, LowerFlag, Unlink
  <2>1. linked' \in BOOLEAN /\ flag' \in BOOLEAN
    BY <1>3, Zenon DEF TimerTypeOK
  <2>2. ctl' \in {"STARTING", "KEEPRUNNING", "CLEANUP"} /\ wpc' \in WorkerPlaces
    BY <1>3 DEF TimerTypeOK
  <2>3. dur' \in Seconds /\ left' \in Seconds /\ elapsed' \in Seconds
    BY <1>3 DEF TimerTypeOK
  <2> QED
    BY <2>1, <2>2, <2>3 DEF TimerTypeOK
<1>4. CASE Tick
  BY <1>4 DEF Tick, TimerTypeOK
<1>5. CASE UNCHANGED timerVars
  BY <1>5 DEF timerVars, TimerTypeOK
<1>6. CASE wpc' \in WorkerPlaces /\ UNCHANGED <<linked, ctl, dur, left, elapsed, flag>>
  BY <1>6 DEF TimerTypeOK
<1> QED
  BY <1>1, <1>2, <1>3, <1>4, <1>5, <1>6

\* What neither starts nor decides leaves a worker that counts counting.
LEMMA WorkerKeepsCounting ==
  ASSUME TimerTypeOK, linked <=> wpc # "none", Worker \/ Tick
  PROVE  /\ Counted => Counted'
         /\ linked' <=> wpc' # "none"
         /\ wpc \in {"asking", "acting"} => wpc' = wpc
<1>1. CASE RaiseFlag \/ MarkRunning \/ WakeBySignal \/ WakeByTimeout
  <2>1. linked' = linked
    BY <1>1, Zenon DEF RaiseFlag, MarkRunning, WakeBySignal, WakeByTimeout
  <2> QED
    BY <1>1, <2>1 DEF RaiseFlag, MarkRunning, WakeBySignal, WakeByTimeout, Counted
<1>2. CASE Arm \/ LowerFlag
  <2>1. linked' = linked
    BY <1>2, Zenon DEF Arm, LowerFlag
  <2> QED
    BY <1>2, <2>1 DEF Arm, LowerFlag, Counted
<1>3. CASE Unlink
  <2>1. ~linked' /\ wpc' = "none" /\ wpc = "unlink"
    BY <1>3, Zenon DEF Unlink
  <2> QED
    BY <2>1 DEF Counted
<1>4. CASE Tick
  <2>1. linked' = linked /\ dur' = dur /\ wpc' = IF wpc = "wait" THEN "timedout" ELSE wpc
    BY <1>4, Zenon DEF Tick
  <2> QED
    BY <2>1 DEF Counted
<1> QED
  BY <1>1, <1>2, <1>3, <1>4 DEF Worker

\* A run time given to an entry that is not being left is counted.
LEMMA StartIsCounted ==
  ASSUME TimerTypeOK, linked <=> wpc # "none", NEW d \in Seconds, StartTimer(d)
  PROVE  /\ d # 0 /\ ~Leaving => Counted'
         /\ linked' <=> wpc' # "none"
         /\ wpc \in {"asking", "acting"} => wpc' = wpc
<1>1. CASE linked
  <2>1. linked' = linked /\ dur' = d /\ wpc' = IF wpc = "wait" THEN "signalled" ELSE wpc
    BY <1>1, Zenon DEF StartTimer, Broadcast
  <2> QED
    BY <1>1, <2>1 DEF Counted, Leaving
<1>2. CASE ~linked
  <2>1. linked' /\ dur' = d /\ wpc' = "begin"
    BY <1>2, Zenon DEF StartTimer
  <2> QED
    BY <1>2, <2>1 DEF Counted
<1> QED
  BY <1>1, <1>2
-----------------------------------------------------------------------------
(***************************************************************************)
(* A step of the thread that has the floor.                                *)
(***************************************************************************)
LEMMA Alone ==
  ASSUME HandlerTypeOK, NoOverlap, NoOverlap', NEW t \in Threads, NEW place \in Places,
         Goto(t, place), pc[t] # "idle" \/ place # "idle"
  PROVE  /\ pc'[t] = place
         /\ \A u \in Threads : u # t => pc[u] = "idle" /\ pc'[u] = "idle"
BY DEF HandlerTypeOK, NoOverlap, Goto

\* What is left to show of such a step.
FloorStep(t, place) ==
  /\ place = "idle" => (relay' => state' = "ON" /\ allowed')
  /\ state' = "ON" /\ place \in Keeping => Counted' \/ lost'

LEMMA FloorSuffices ==
  ASSUME NEW t \in Threads, NEW place \in Places, pc'[t] = place,
         \A u \in Threads : u # t => pc'[u] = "idle",
         Established(t)', FloorStep(t, place)
  PROVE  (\A u \in Threads : Established(u))' /\ SafeWhenQuiet' /\ CountedOrLost'
<1>1. ASSUME NEW u \in Threads PROVE Established(u)'
  BY DEF Established
<1>2. SafeWhenQuiet'
  BY Zenon DEF SafeWhenQuiet, Quiet, FloorStep
<1>3. CountedOrLost'
  BY Zenon DEF CountedOrLost, FloorStep
<1> QED
  BY <1>1, <1>2, <1>3

\* The timer is not touched.
LEMMA TimerUntouched ==
  ASSUME TimerTypeOK, UNCHANGED timerVars
  PROVE  TimerTypeOK' /\ (Counted' <=> Counted)
BY DEF timerVars, TimerTypeOK, Counted

LEMMA RequestOnKeepsInd ==
  ASSUME IndInv, NoOverlap, NoOverlap', NEW t \in Callers, NEW d \in RunTimes, RequestOn(t, d)
  PROVE  IndInv'
<1> USE DEF IndInv
<1>1. t \in Threads /\ t # Worker1 /\ d \in Seconds
  BY ThreadsDiffer DEF RunTimes
<1>2. UNCHANGED <<state, relay, allowed, to, lost>> /\ UNCHANGED timerVars /\ allowed
  BY Zenon DEF RequestOn
<1>3. pc'[t] = "on" /\ \A u \in Threads : u # t => pc[u] = "idle" /\ pc'[u] = "idle"
  BY <1>1, Alone DEF RequestOn, Places
<1>4. pc[t] = "idle"
  BY DEF RequestOn
<1>5. TimerTypeOK' /\ (Counted' <=> Counted)
  BY <1>2, TimerUntouched
<1>6. FlagsTypeOK'
  BY <1>2 DEF FlagsTypeOK
<1>7. HandlerTypeOK'
  BY <1>1, <1>2, DoseAssumption DEF HandlerTypeOK, RequestOn, Goto, Places
<1>8. WorkerInStep'
  BY <1>1, <1>2, <1>3, <1>4, ThreadsDiffer DEF WorkerInStep, timerVars
<1>9. relay => state = "ON"
  BY <1>3, <1>4 DEF SafeWhenQuiet, Quiet
<1>10. Established(t)'
  BY <1>2, <1>3, <1>9 DEF Established, ClosedOnlyOn
<1>11. state = "ON" => Counted \/ lost
  BY <1>3, <1>4 DEF CountedOrLost, Keeping
<1>12. FloorStep(t, "on")
  BY <1>2, <1>5, <1>11, Zenon DEF FloorStep
<1> QED
  BY <1>1, <1>3, <1>5, <1>6, <1>7, <1>8, <1>10, <1>12, FloorSuffices DEF Places

LEMMA RequestOffKeepsInd ==
  ASSUME IndInv, NoOverlap, NoOverlap', NEW t \in Callers, NEW s \in {"OFF", "ENABLED"},
         RequestOff(t, s)
  PROVE  IndInv'
<1> USE DEF IndInv
<1>1. t \in Threads /\ t # Worker1
  BY ThreadsDiffer
<1>2. UNCHANGED <<state, relay, allowed, sec, lost>> /\ UNCHANGED timerVars
  BY Zenon DEF RequestOff
<1>3. pc'[t] = "off" /\ \A u \in Threads : u # t => pc[u] = "idle" /\ pc'[u] = "idle"
  BY <1>1, Alone DEF RequestOff, Places
<1>4. pc[t] = "idle"
  BY DEF RequestOff
<1>5. TimerTypeOK' /\ (Counted' <=> Counted)
  BY <1>2, TimerUntouched
<1>6. FlagsTypeOK'
  BY <1>2 DEF FlagsTypeOK
<1>7. HandlerTypeOK'
  BY <1>1, <1>2, DoseAssumption DEF HandlerTypeOK, RequestOff, Goto, Places
<1>8. WorkerInStep'
  BY <1>1, <1>2, <1>3, <1>4, ThreadsDiffer DEF WorkerInStep, timerVars
<1>9. relay => state = "ON" /\ allowed
  BY <1>3, <1>4, Zenon DEF SafeWhenQuiet, Quiet
<1>10. Established(t)'
  BY <1>2, <1>3, <1>9 DEF Established, ClosedOnlyOn
<1>11. FloorStep(t, "off")
  BY DEF FloorStep, Keeping
<1> QED
  BY <1>1, <1>3, <1>5, <1>6, <1>7, <1>8, <1>10, <1>11, FloorSuffices DEF Places

LEMMA ConditionChangeKeepsInd ==
  ASSUME IndInv, NoOverlap, NoOverlap', NEW t \in Monitors, NEW verdict \in Verdicts,
         ConditionChange(t, verdict)
  PROVE  IndInv'
<1> USE DEF IndInv
<1>1. t \in Threads /\ t # Worker1
  BY ThreadsDiffer
<1>2. UNCHANGED <<state, relay, sec, lost>> /\ UNCHANGED timerVars /\ allowed' = TRUE
  BY Zenon DEF ConditionChange
<1>3. pc'[t] = "rate" /\ \A u \in Threads : u # t => pc[u] = "idle" /\ pc'[u] = "idle"
  BY <1>1, Alone DEF ConditionChange, Places
<1>4. pc[t] = "idle"
  BY DEF ConditionChange
<1>5. TimerTypeOK' /\ (Counted' <=> Counted)
  BY <1>2, TimerUntouched
<1>6. FlagsTypeOK'
  BY <1>2 DEF FlagsTypeOK
<1>7. HandlerTypeOK'
  BY <1>1, <1>2, DoseAssumption DEF HandlerTypeOK, ConditionChange, Goto, Places, Verdicts
<1>8. WorkerInStep'
  BY <1>1, <1>2, <1>3, <1>4, ThreadsDiffer DEF WorkerInStep, timerVars
<1>9. relay => state = "ON"
  BY <1>3, <1>4 DEF SafeWhenQuiet, Quiet
<1>10. to'[t] = verdict
  BY <1>1 DEF ConditionChange, HandlerTypeOK
<1>11. Established(t)'
  BY <1>2, <1>3, <1>9, <1>10 DEF Established, ClosedOnlyOn
<1>12. state = "ON" => Counted \/ lost
  BY <1>3, <1>4 DEF CountedOrLost, Keeping
<1>13. FloorStep(t, "rate")
  BY <1>2, <1>5, <1>12, Zenon DEF FloorStep
<1> QED
  BY <1>1, <1>3, <1>5, <1>6, <1>7, <1>8, <1>11, <1>13, FloorSuffices DEF Places

(***************************************************************************)
(* A handler goes on.  What every step of one has in common:               *)
(***************************************************************************)
HandlerStep(t, place) ==
  /\ pc[t] # "idle"
  /\ Goto(t, place)

LEMMA HandlerFrame ==
  ASSUME IndInv, NoOverlap, NoOverlap', NEW t \in Threads, NEW place \in Places,
         HandlerStep(t, place), TimerTypeOK', FlagsTypeOK', HandlerTypeOK',
         linked' <=> wpc' # "none", wpc \in {"asking", "acting"} => wpc' = wpc,
         Established(t)', FloorStep(t, place)
  PROVE  IndInv'
<1> USE DEF IndInv
<1>1. pc'[t] = place /\ \A u \in Threads : u # t => pc[u] = "idle" /\ pc'[u] = "idle"
  BY Alone DEF HandlerStep
<1>2. pc'[Worker1] # "idle" => wpc' \in {"asking", "acting"}
  BY <1>1, ThreadsDiffer DEF WorkerInStep, HandlerStep
<1>3. WorkerInStep'
  BY <1>2, Zenon DEF WorkerInStep
<1> QED
  BY <1>1, <1>3, FloorSuffices

\* The steps that leave the timer alone.
LEMMA HandlerFrameNoTimer ==
  ASSUME IndInv, NoOverlap, NoOverlap', NEW t \in Threads, NEW place \in Places,
         HandlerStep(t, place), UNCHANGED timerVars, FlagsTypeOK', HandlerTypeOK',
         Established(t)', FloorStep(t, place)
  PROVE  IndInv'
<1>1. TimerTypeOK'
  BY TimerUntouched DEF IndInv
<1>2. linked' <=> wpc' # "none"
  BY DEF IndInv, WorkerInStep, timerVars
<1>3. wpc' = wpc
  BY DEF timerVars
<1> QED
  BY <1>1, <1>2, <1>3, HandlerFrame

LEMMA TurnOnKeepsInd ==
  ASSUME IndInv, NoOverlap, NoOverlap', NEW t \in Threads, TurnOn(t) PROVE IndInv'
<1>1. UNCHANGED <<state, allowed, to, lost>> /\ UNCHANGED timerVars /\ allowed /\ ClosedOnlyOn
  BY Zenon DEF TurnOn, IndInv, Established
<1>2. \A u \in Threads : u # t => pc[u] = "idle"
  BY DEF TurnOn, NoOverlap
<1>3. Counted' <=> Counted
  BY <1>1, TimerUntouched DEF IndInv
<1>4. CASE flag /\ state = "ON"
  <2>1. HandlerStep(t, "start") /\ UNCHANGED <<relay, sec>>
    BY <1>4, Zenon DEF TurnOn, HandlerStep
  <2>2. FlagsTypeOK'
    BY <1>1, <2>1 DEF FlagsTypeOK, IndInv
  <2>3. HandlerTypeOK'
    BY <1>1, <2>1 DEF HandlerTypeOK, IndInv, HandlerStep, Goto, Places, TurnOn
  <2>4. Counted \/ lost
    BY <1>2, <1>4 DEF IndInv, CountedOrLost, Keeping, TurnOn
  <2>5. pc'[t] = "start"
    BY <2>1 DEF HandlerStep, Goto, IndInv, HandlerTypeOK
  <2>6. Established(t)'
    BY <1>1, <1>3, <1>4, <2>4, <2>5 DEF Established
  <2>7. FloorStep(t, "start")
    BY DEF FloorStep, Keeping
  <2> QED
    BY <1>1, <2>1, <2>2, <2>3, <2>6, <2>7, HandlerFrameNoTimer DEF Places
<1>5. CASE ~(flag /\ state = "ON")
  <2>1. /\ HandlerStep(t, "on2") /\ relay' = TRUE
        /\ sec' = [sec EXCEPT ![t] = IF @ = 0 THEN DefaultTime ELSE @]
    BY <1>5 DEF TurnOn, HandlerStep
  <2>2. FlagsTypeOK'
    BY <1>1, <2>1 DEF FlagsTypeOK, IndInv
  <2>3. HandlerTypeOK' /\ sec'[t] # 0
    BY <1>1, <2>1, DefaultTimeIsPositive DEF HandlerTypeOK, IndInv, HandlerStep, Goto, Places, TurnOn
  <2>4. pc'[t] = "on2"
    BY <2>1 DEF HandlerStep, Goto, IndInv, HandlerTypeOK
  <2>5. Established(t)'
    BY <1>1, <2>3, <2>4 DEF Established
  <2>6. FloorStep(t, "on2")
    BY DEF FloorStep, Keeping
  <2> QED
    BY <1>1, <2>1, <2>2, <2>3, <2>5, <2>6, HandlerFrameNoTimer DEF Places
<1> QED
  BY <1>4, <1>5

LEMMA SetOnKeepsInd ==
  ASSUME IndInv, NoOverlap, NoOverlap', NEW t \in Threads, SetOn(t) PROVE IndInv'
<1>1. /\ UNCHANGED <<relay, allowed, sec, to, lost>> /\ UNCHANGED timerVars
      /\ allowed /\ state' = "ON" /\ sec[t] # 0
  BY Zenon DEF SetOn, IndInv, Established
<1>2. HandlerStep(t, "start")
  BY DEF SetOn, HandlerStep
<1>3. FlagsTypeOK'
  BY <1>1 DEF FlagsTypeOK, IndInv
<1>4. HandlerTypeOK' /\ pc'[t] = "start"
  BY <1>1 DEF HandlerTypeOK, IndInv, SetOn, Goto, Places
<1>5. Established(t)'
  BY <1>1, <1>4 DEF Established
<1>6. FloorStep(t, "start")
  BY DEF FloorStep, Keeping
<1> QED
  BY <1>1, <1>2, <1>3, <1>4, <1>5, <1>6, HandlerFrameNoTimer DEF Places

\* The one step of turning on that touches the timer.
LEMMA StartKeepsInd ==
  ASSUME IndInv, NoOverlap, NoOverlap', NEW t \in Threads, Start(t) PROVE IndInv'
<1> USE DEF IndInv
<1>1. /\ UNCHANGED <<state, relay, allowed, sec, to, requests>>
      /\ state = "ON" /\ allowed /\ (sec[t] = 0 => Counted \/ lost)
  BY Zenon DEF Start, Established
<1>2. HandlerStep(t, "idle")
  BY DEF Start, HandlerStep
<1>3. sec[t] \in Seconds /\ StartTimer(sec[t])
  BY DEF HandlerTypeOK, Start
<1>4. (lost' <=> (lost \/ Leaving \/ (linked /\ sec[t] = 0))) /\ lost' \in BOOLEAN
  BY Zenon DEF Start
<1>5. FlagsTypeOK'
  BY <1>1, <1>4 DEF FlagsTypeOK
<1>6. HandlerTypeOK' /\ pc'[t] = "idle"
  BY <1>1 DEF HandlerTypeOK, Start, Goto, Places
<1>7. TimerTypeOK'
  BY <1>3, TimerKeepsType
<1>8. /\ sec[t] # 0 /\ ~Leaving => Counted'
      /\ linked' <=> wpc' # "none"
      /\ wpc \in {"asking", "acting"} => wpc' = wpc
  BY <1>3, StartIsCounted DEF WorkerInStep
<1>9. Counted => linked
  BY DEF Counted
<1>10. FloorStep(t, "idle")
  BY <1>1, <1>4, <1>8, <1>9, Zenon DEF FloorStep
<1>11. Established(t)'
  BY <1>6 DEF Established
<1> QED
  BY <1>2, <1>5, <1>6, <1>7, <1>8, <1>10, <1>11, HandlerFrame DEF Places

LEMMA TestOnKeepsInd ==
  ASSUME IndInv, NoOverlap, NoOverlap', NEW t \in Threads, TestOn(t) PROVE IndInv'
<1>1. /\ UNCHANGED <<relay, allowed, sec, lost>> /\ UNCHANGED timerVars
      /\ ClosedOnlyOn /\ (relay => allowed)
  BY Zenon DEF TestOn, IndInv, Established
<1>2. FlagsTypeOK'
  BY <1>1 DEF FlagsTypeOK, IndInv
<1>3. CASE state = "ON"
  <2>1. HandlerStep(t, "cut") /\ state' = state
    BY <1>3 DEF TestOn, HandlerStep
  <2>2. HandlerTypeOK' /\ pc'[t] = "cut"
    BY <1>1, <1>3 DEF HandlerTypeOK, IndInv, TestOn, Goto, Places
  <2>3. Established(t)'
    BY <2>2 DEF Established
  <2>4. FloorStep(t, "cut")
    BY DEF FloorStep, Keeping
  <2> QED
    BY <1>1, <1>2, <2>1, <2>2, <2>3, <2>4, HandlerFrameNoTimer DEF Places
<1>4. CASE state # "ON"
  <2>1. HandlerStep(t, "idle") /\ state' = to[t]
    BY <1>4 DEF TestOn, HandlerStep
  <2>2. HandlerTypeOK' /\ pc'[t] = "idle" /\ state' # "ON"
    BY <1>1, <1>4 DEF HandlerTypeOK, IndInv, TestOn, Goto, Places
  <2>3. Established(t)'
    BY <2>2 DEF Established
  <2>4. ~relay'
    BY <1>1, <1>4, Zenon DEF ClosedOnlyOn
  <2>5. FloorStep(t, "idle")
    BY <2>2, <2>4, Zenon DEF FloorStep
  <2> QED
    BY <1>1, <1>2, <2>1, <2>2, <2>3, <2>5, HandlerFrameNoTimer DEF Places
<1> QED
  BY <1>3, <1>4

LEMMA CutKeepsInd ==
  ASSUME IndInv, NoOverlap, NoOverlap', NEW t \in Threads, Cut(t) PROVE IndInv'
<1>1. UNCHANGED <<state, allowed, sec, to, lost>> /\ UNCHANGED timerVars /\ relay' = FALSE
  BY Zenon DEF Cut
<1>2. HandlerStep(t, "off2")
  BY DEF Cut, HandlerStep
<1>3. FlagsTypeOK' /\ ~relay'
  BY <1>1 DEF FlagsTypeOK, IndInv
<1>4. HandlerTypeOK' /\ pc'[t] = "off2"
  BY <1>1 DEF HandlerTypeOK, IndInv, Cut, Goto, Places
<1>5. Established(t)'
  BY <1>3, <1>4 DEF Established
<1>6. FloorStep(t, "off2")
  BY DEF FloorStep, Keeping
<1> QED
  BY <1>1, <1>2, <1>3, <1>4, <1>5, <1>6, HandlerFrameNoTimer DEF Places

LEMMA SetOffKeepsInd ==
  ASSUME IndInv, NoOverlap, NoOverlap', NEW t \in Threads, SetOff(t) PROVE IndInv'
<1>1. UNCHANGED <<relay, allowed, sec, to, lost>> /\ UNCHANGED timerVars /\ ~relay
  BY Zenon DEF SetOff, IndInv, Established
<1>2. HandlerStep(t, "clear")
  BY DEF SetOff, HandlerStep
<1>3. FlagsTypeOK' /\ ~relay'
  BY <1>1 DEF FlagsTypeOK, IndInv
<1>4. HandlerTypeOK' /\ pc'[t] = "clear" /\ state' # "ON"
  BY <1>1 DEF HandlerTypeOK, IndInv, SetOff, Goto, Places
<1>5. Established(t)'
  BY <1>3, <1>4 DEF Established
<1>6. FloorStep(t, "clear")
  BY DEF FloorStep, Keeping
<1> QED
  BY <1>1, <1>2, <1>3, <1>4, <1>5, <1>6, HandlerFrameNoTimer DEF Places

\* The one step of turning off that touches the timer: the state is no
\* longer ON, so nothing has to count any more.
LEMMA ClearKeepsInd ==
  ASSUME IndInv, NoOverlap, NoOverlap', NEW t \in Threads, Clear(t) PROVE IndInv'
<1> USE DEF IndInv
<1>1. UNCHANGED <<state, relay, allowed, sec, to, lost>> /\ ~relay /\ state # "ON"
  BY Zenon DEF Clear, Established
<1>2. HandlerStep(t, "idle")
  BY DEF Clear, HandlerStep
<1>3. FlagsTypeOK' /\ ~relay'
  BY <1>1 DEF FlagsTypeOK
<1>4. HandlerTypeOK' /\ pc'[t] = "idle"
  BY <1>1 DEF HandlerTypeOK, Clear, Goto, Places
<1>5. TimerTypeOK'
  BY DefaultTimeIsPositive, TimerKeepsType DEF Clear
<1>6. (linked' <=> wpc' # "none") /\ (wpc \in {"asking", "acting"} => wpc' = wpc)
  <2>1. linked' = linked /\ (wpc' = wpc \/ (wpc = "wait" /\ wpc' = "signalled"))
    BY Zenon DEF Clear, ClearTimer, Broadcast, timerVars
  <2> QED
    BY <2>1 DEF WorkerInStep
<1>7. FloorStep(t, "idle")
  BY <1>1, <1>3, Zenon DEF FloorStep
<1>8. Established(t)'
  BY <1>4 DEF Established
<1> QED
  BY <1>2, <1>3, <1>4, <1>5, <1>6, <1>7, <1>8, HandlerFrame DEF Places

LEMMA RateKeepsInd ==
  ASSUME IndInv, NoOverlap, NoOverlap', NEW t \in Threads, Rate(t) PROVE IndInv'
<1>1. /\ UNCHANGED <<state, relay, sec, to, lost>> /\ UNCHANGED timerVars
      /\ ClosedOnlyOn /\ to[t] \in Verdicts
      /\ (allowed' <=> to[t] = "ENABLED") /\ allowed' \in BOOLEAN
  BY Zenon DEF Rate, IndInv, Established
<1>2. HandlerStep(t, "settle")
  BY DEF Rate, HandlerStep
<1>3. FlagsTypeOK'
  BY <1>1 DEF FlagsTypeOK, IndInv
<1>4. HandlerTypeOK' /\ pc'[t] = "settle"
  BY <1>1 DEF HandlerTypeOK, IndInv, Rate, Goto, Places
<1>5. Established(t)'
  BY <1>1, <1>4 DEF Established, ClosedOnlyOn
<1>6. state = "ON" => Counted \/ lost
  BY DEF Rate, NoOverlap, IndInv, CountedOrLost, Keeping
<1>7. FloorStep(t, "settle")
  BY <1>1, <1>6, TimerUntouched, Zenon DEF FloorStep, IndInv
<1> QED
  BY <1>1, <1>2, <1>3, <1>4, <1>5, <1>7, HandlerFrameNoTimer DEF Places

LEMMA SettleDoserKeepsInd ==
  ASSUME IndInv, NoOverlap, NoOverlap', NEW t \in Threads, SettleDoser(t) PROVE IndInv'
<1>1. /\ UNCHANGED <<relay, allowed, sec, to, lost>> /\ UNCHANGED timerVars
      /\ ClosedOnlyOn /\ to[t] \in Verdicts /\ (allowed <=> to[t] = "ENABLED")
  BY Zenon DEF SettleDoser, IndInv, Established
<1>2. FlagsTypeOK'
  BY <1>1 DEF FlagsTypeOK, IndInv
<1>3. CASE state = "ON" /\ to[t] = "DISABLED"
  <2>1. HandlerStep(t, "cut") /\ state' = state
    BY <1>3 DEF SettleDoser, HandlerStep
  <2>2. HandlerTypeOK' /\ pc'[t] = "cut"
    BY <1>1, <1>3 DEF HandlerTypeOK, IndInv, SettleDoser, Goto, Places
  <2>3. Established(t)'
    BY <2>2 DEF Established
  <2>4. FloorStep(t, "cut")
    BY DEF FloorStep, Keeping
  <2> QED
    BY <1>1, <1>2, <2>1, <2>2, <2>3, <2>4, HandlerFrameNoTimer DEF Places
<1>4. CASE ~(state = "ON" /\ to[t] = "DISABLED")
  <2>1. HandlerStep(t, "idle") /\ state' = IF state \in {"OFF", "ON"} THEN state ELSE to[t]
    BY <1>4 DEF SettleDoser, HandlerStep
  <2>2. HandlerTypeOK' /\ pc'[t] = "idle"
    BY <1>1, <2>1 DEF HandlerTypeOK, IndInv, SettleDoser, HandlerStep, Goto, Places
  <2>3. Established(t)'
    BY <2>2 DEF Established
  <2>4. state' = "ON" <=> state = "ON"
    BY <1>1, <2>1 DEF Verdicts
  <2>5. state = "ON" => Counted \/ lost
    BY DEF SettleDoser, NoOverlap, IndInv, CountedOrLost, Keeping
  <2>6. state = "ON" => allowed
    BY <1>1, <1>4 DEF Verdicts
  <2>7. FloorStep(t, "idle")
    BY <1>1, <2>4, <2>5, <2>6, TimerUntouched, Zenon DEF FloorStep, ClosedOnlyOn, IndInv
  <2> QED
    BY <1>1, <1>2, <2>1, <2>2, <2>3, <2>7, HandlerFrameNoTimer DEF Places
<1> QED
  BY <1>3, <1>4
-----------------------------------------------------------------------------
(***************************************************************************)
(* The worker and the clock.                                               *)
(***************************************************************************)
LEMMA OutsideHandlersKeepsInd ==
  ASSUME IndInv, UNCHANGED <<state, relay, allowed, threadVars, requests, lost>>,
         TimerTypeOK', linked' <=> wpc' # "none",
         wpc \in {"asking", "acting"} => wpc' = wpc \/ pc[Worker1] = "idle",
         state = "ON" /\ Counted => Counted'
  PROVE  IndInv'
<1> USE DEF IndInv
<1>1. UNCHANGED <<state, relay, allowed, pc, sec, to, requests, lost>>
  BY DEF threadVars
<1>2. FlagsTypeOK' /\ HandlerTypeOK'
  BY <1>1 DEF FlagsTypeOK, HandlerTypeOK
<1>3. WorkerInStep'
  BY <1>1 DEF WorkerInStep
<1>4. ASSUME NEW t \in Threads PROVE Established(t)'
  BY <1>1 DEF Established, ClosedOnlyOn
<1>5. (Quiet' => Quiet) /\ ((\A t \in Threads : pc'[t] \in Keeping) => \A t \in Threads : pc[t] \in Keeping)
  BY <1>1 DEF Quiet, Keeping
<1>6. SafeWhenQuiet'
  BY <1>1, <1>5 DEF SafeWhenQuiet
<1>7. CountedOrLost'
  BY <1>1, <1>5 DEF CountedOrLost
<1> QED
  BY <1>2, <1>3, <1>4, <1>6, <1>7

\* The worker starts a request of its own: it had none under way.
LEMMA OwnRequestKeepsInd ==
  ASSUME IndInv, NoOverlap, NoOverlap', NEW place \in {"on", "off"}, Goto(Worker1, place),
         wpc' \in {"asking", "acting"}, wpc \notin {"none", "asking", "acting"},
         UNCHANGED <<linked, ctl, dur, left, elapsed, flag, state, relay, allowed, requests, lost>>,
         HandlerTypeOK',
         place = "on" => allowed /\ state # "ON"
  PROVE  IndInv'
<1> USE DEF IndInv
<1>1. Worker1 \in Threads /\ pc[Worker1] = "idle"
  BY ThreadsDiffer DEF WorkerInStep
<1>2. pc'[Worker1] = place /\ \A u \in Threads : u # Worker1 => pc[u] = "idle" /\ pc'[u] = "idle"
  BY <1>1, Alone DEF Places
<1>3. TimerTypeOK'
  BY DefaultTimeIsPositive, TimerKeepsType DEF WorkerPlaces
<1>4. FlagsTypeOK'
  BY DEF FlagsTypeOK
<1>5. WorkerInStep'
  BY <1>2 DEF WorkerInStep
<1>6. relay => state = "ON" /\ allowed
  BY <1>1, <1>2, Zenon DEF SafeWhenQuiet, Quiet
<1>7. Established(Worker1)'
  BY <1>2, <1>6 DEF Established, ClosedOnlyOn
<1>8. FloorStep(Worker1, place)
  BY DEF FloorStep, Keeping
<1> QED
  BY <1>1, <1>2, <1>3, <1>4, <1>5, <1>7, <1>8, FloorSuffices DEF Places

LEMMA StartupKeepsInd ==
  ASSUME IndInv, NoOverlap, NoOverlap', Startup PROVE IndInv'
<1>1. /\ wpc = "startup"
      /\ UNCHANGED <<linked, ctl, dur, left, elapsed, flag, state, relay, allowed, to, requests, lost>>
  BY Zenon DEF Startup
<1>2. CASE wpc' \in {"arm", "tail", "asking"} /\ (wpc' # "arm" => state # "ON") /\ UNCHANGED <<pc, sec>>
  <2>1. TimerTypeOK'
    BY <1>1, <1>2, DefaultTimeIsPositive, TimerKeepsType DEF IndInv, WorkerPlaces
  <2>2. linked' <=> wpc' # "none"
    BY <1>1, <1>2 DEF IndInv, WorkerInStep
  <2>3. state = "ON" /\ Counted => Counted'
    BY <1>1, <1>2 DEF Counted
  <2> QED
    BY <1>1, <1>2, <2>1, <2>2, <2>3, OutsideHandlersKeepsInd DEF threadVars
<1>3. CASE /\ wpc' = "asking" /\ state = "OFF" /\ allowed
           /\ Goto(Worker1, "on") /\ sec' = [sec EXCEPT ![Worker1] = 0]
  <2>1. HandlerTypeOK'
    BY <1>1, <1>3, ThreadsDiffer, MaxSecondsAssumption
       DEF IndInv, HandlerTypeOK, Goto, Places, Seconds
  <2> QED
    BY <1>1, <1>3, <2>1, OwnRequestKeepsInd
<1> QED
  BY <1>2, <1>3 DEF Startup

LEMMA DecideKeepsInd ==
  ASSUME IndInv, NoOverlap, NoOverlap', Decide PROVE IndInv'
<1>1. /\ wpc = "ended"
      /\ UNCHANGED <<linked, ctl, dur, left, elapsed, flag, state, relay, allowed, sec, requests, lost>>
  BY Zenon DEF Decide
<1>2. CASE dur # 0 /\ state \notin {"OFF", "ENABLED"}
  <2>1. /\ wpc' = "acting" /\ Goto(Worker1, "off")
        /\ to' = [to EXCEPT ![Worker1] = "OFF"]
    BY <1>2 DEF Decide
  <2>2. HandlerTypeOK'
    BY <1>1, <2>1, ThreadsDiffer DEF IndInv, HandlerTypeOK, Goto, Places
  <2> QED
    BY <1>1, <2>1, <2>2, OwnRequestKeepsInd
<1>3. CASE ~(dur # 0 /\ state \notin {"OFF", "ENABLED"})
  <2>1. wpc' = "tail" /\ UNCHANGED <<pc, to>>
    BY <1>3 DEF Decide
  <2>2. TimerTypeOK'
    BY <1>1, <2>1, DefaultTimeIsPositive, TimerKeepsType DEF IndInv, WorkerPlaces
  <2>3. linked' <=> wpc' # "none"
    BY <1>1, <2>1 DEF IndInv, WorkerInStep
  <2>4. ~(state = "ON" /\ Counted)
    BY <1>3 DEF Counted
  <2> QED
    BY <1>1, <2>1, <2>2, <2>3, <2>4, OutsideHandlersKeepsInd DEF threadVars
<1> QED
  BY <1>2, <1>3

\* The worker's request has been answered.
LEMMA AnsweredKeepsInd ==
  ASSUME IndInv, Asked \/ Acted PROVE IndInv'
<1>1. /\ wpc \in {"asking", "acting"} /\ pc[Worker1] = "idle"
      /\ wpc' \in {"arm", "tail"} /\ (wpc = "asking" /\ state = "ON" => wpc' = "arm")
      /\ UNCHANGED <<linked, ctl, dur, left, elapsed, flag>>
      /\ UNCHANGED <<state, relay, allowed, threadVars, requests, lost>>
  BY DEF Asked, Acted
<1>2. TimerTypeOK'
  BY <1>1, DefaultTimeIsPositive, TimerKeepsType DEF IndInv, WorkerPlaces
<1>3. linked' <=> wpc' # "none"
  BY <1>1 DEF IndInv, WorkerInStep
<1>4. state = "ON" /\ Counted => Counted'
  BY <1>1 DEF Counted
<1> QED
  BY <1>1, <1>2, <1>3, <1>4, OutsideHandlersKeepsInd

LEMMA WaitingKeepsInd ==
  ASSUME IndInv, Worker \/ Tick, UNCHANGED <<state, relay, allowed, threadVars, requests, lost>>
  PROVE  IndInv'
BY WorkerKeepsCounting, DefaultTimeIsPositive, TimerKeepsType, OutsideHandlersKeepsInd
   DEF IndInv, WorkerInStep

LEMMA StutterKeepsInd == ASSUME IndInv, UNCHANGED vars PROVE IndInv'
<1>1. UNCHANGED timerVars /\ UNCHANGED <<state, relay, allowed, threadVars, requests, lost>>
  BY DEF vars
<1>2. UNCHANGED <<linked, ctl, dur, left, elapsed, flag, wpc>>
  BY <1>1 DEF timerVars
<1>3. (Counted' <=> Counted) /\ TimerTypeOK'
  BY <1>1, TimerUntouched DEF IndInv
<1>4. linked' <=> wpc' # "none"
  BY <1>2 DEF IndInv, WorkerInStep
<1> QED
  BY <1>1, <1>2, <1>3, <1>4, OutsideHandlersKeepsInd
-----------------------------------------------------------------------------
LEMMA StepKeepsInd == IndInv /\ NoOverlap /\ NoOverlap' /\ [Next]_vars => IndInv'
<1> SUFFICES ASSUME IndInv, NoOverlap, NoOverlap', [Next]_vars PROVE IndInv'
  OBVIOUS
<1>1. ASSUME NEW t \in Threads, Continue(t) PROVE IndInv'
  BY <1>1, TurnOnKeepsInd, SetOnKeepsInd, StartKeepsInd, TestOnKeepsInd, CutKeepsInd,
     SetOffKeepsInd, ClearKeepsInd, RateKeepsInd, SettleDoserKeepsInd DEF Continue
<1>2. ASSUME WorkerStep PROVE IndInv'
  BY <1>2, WaitingKeepsInd, StartupKeepsInd, AnsweredKeepsInd, DecideKeepsInd DEF WorkerStep
<1>3. ASSUME Second PROVE IndInv'
  BY <1>3, WaitingKeepsInd DEF Second
<1> QED
  BY <1>1, <1>2, <1>3, RequestOnKeepsInd, RequestOffKeepsInd, ConditionChangeKeepsInd,
     StutterKeepsInd DEF Next, Verdicts

LEMMA IndHolds == Spec => ([]NoOverlap => []IndInv)
  BY InitInd, StepKeepsInd, PTL DEF Spec

(***************************************************************************)
(* For any number of callers, monitors and requests and any run time: as   *)
(* long as handlers of state_manager.c do not overlap, once they have      *)
(* ended no relay is closed unless its doser is ON and may run.            *)
(***************************************************************************)
THEOREM SerialHandlersAreSafeAlways == Spec => SerialHandlersAreSafe
<1>1. IndInv => (Quiet /\ relay => state = "ON" /\ allowed)
  BY Zenon DEF IndInv, SafeWhenQuiet
<1> QED
  BY <1>1, IndHolds, PTL DEF SerialHandlersAreSafe

(***************************************************************************)
(* And a doser that is ON without a timer was started while the worker of  *)
(* its last dose was leaving, or had its timer reset to zero seconds: the  *)
(* other ways a timer of acd_timer.c can be cleared, reset or signalled,   *)
(* a broadcast nobody heard included, leave one that ends the dose.        *)
(***************************************************************************)
THEOREM RunawayOnlyIfLostAlways == Spec => RunawayOnlyIfLost
<1>1. IndInv => (Runaway => lost)
  <2>1. Quiet => \A t \in Threads : pc[t] \in Keeping
    BY DEF Quiet, Keeping
  <2> QED
    BY <2>1, Zenon DEF IndInv, Runaway, CountedOrLost, Counted
<1> QED
  BY <1>1, IndHolds, PTL DEF RunawayOnlyIfLost
=============================================================================
