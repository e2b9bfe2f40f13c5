-------------------------- MODULE DelayTimerProofs --------------------------
(***************************************************************************)
(* What a met-delay guarantees however its threads interleave, for any     *)
(* number of threads, any delay and any number of inputs.                  *)
(***************************************************************************)
EXTENDS DelayTimer, TLAPS

USE MaxSecondsAssumption, DelayAssumption

\* A handler that will still look at the input before it ends.
WillLook(t) == pc[t] \in {"clear", "set", "check"} \/ (pc[t] = "enter" /\ want[t] = "OFF")

\* Trust in an input that is not met is about to be withdrawn.
WithdrawnInTime == trusted /\ ~met => \E t \in Threads : WillLook(t)

ConditionTypeOK ==
  /\ met \in BOOLEAN /\ trusted \in BOOLEAN /\ reused \in BOOLEAN
  /\ state \in {"OFF", "ON", "DELAY"}

HandlerTypeOK ==
  /\ pc \in [Threads -> {"idle", "enter", "start", "clear", "set", "check"}]
  /\ want \in [Threads -> {"OFF", "ON"}]
  /\ inputs \in 0..MaxInputs
  /\ metFor \in Seconds

IndInv == TimerTypeOK /\ ConditionTypeOK /\ HandlerTypeOK /\ WithdrawnInTime

LEMMA TypeOKInParts == TypeOK <=> TimerTypeOK /\ ConditionTypeOK /\ HandlerTypeOK
  BY Zenon DEF TypeOK, ConditionTypeOK, HandlerTypeOK

LEMMA InitInd == Init => IndInv
<1> SUFFICES ASSUME Init PROVE IndInv
  OBVIOUS
<1>1. linked \in BOOLEAN /\ flag \in BOOLEAN /\ ConditionTypeOK
  <2>1. met \in BOOLEAN /\ trusted \in BOOLEAN /\ reused \in BOOLEAN
    BY Zenon DEF Init
  <2>2. linked \in BOOLEAN /\ flag \in BOOLEAN
    BY Zenon DEF Init, TimerInit
  <2>3. state \in {"OFF", "ON", "DELAY"}
    BY DEF Init
  <2> QED
    BY <2>1, <2>2, <2>3 DEF ConditionTypeOK
<1>2. TimerTypeOK
  BY <1>1 DEF Init, TimerInit, TimerTypeOK, Seconds, WorkerPlaces
<1>3. HandlerTypeOK
  BY DEF Init, HandlerTypeOK, Seconds
<1>4. WithdrawnInTime
  BY DEF Init, WithdrawnInTime
<1> QED
  BY <1>1, <1>2, <1>3, <1>4 DEF IndInv

\* What any thread does to the timer keeps its entry well-formed.
LEMMA TimerKeepsType ==
  ASSUME TimerTypeOK,
         \/ StartTimer(Delay) \/ ClearTimer \/ Worker \/ Tick
         \/ UNCHANGED timerVars
         \/ wpc' \in WorkerPlaces /\ UNCHANGED <<linked, ctl, dur, left, elapsed, flag>>
  PROVE  TimerTypeOK'
<1> USE DEF Seconds, WorkerPlaces
<1>1. CASE StartTimer(Delay)
  <2>1. linked' \in BOOLEAN /\ flag' \in BOOLEAN
    BY <1>1, Zenon DEF StartTimer, TimerTypeOK
  <2> QED
    BY <1>1, <2>1 DEF StartTimer, Broadcast, Delay, TimerTypeOK
<1>2. CASE ClearTimer
  <2>1. linked' \in BOOLEAN /\ flag' \in BOOLEAN
    BY <1>2, Zenon DEF ClearTimer, timerVars, TimerTypeOK
  <2> QED
    BY <1>2, <2>1 DEF ClearTimer, Broadcast, timerVars, TimerTypeOK
<1>3. CASE Worker
  <2>1. linked' \in BOOLEAN /\ flag' \in BOOLEAN
    BY <1>3, Zenon DEF Worker, RaiseFlag, MarkRunning, Arm, WakeBySignal, WakeByTimeout, LowerFlag,
       Unlink, TimerTypeOK
  <2>2. ctl' \in {"STARTING", "KEEPRUNNING", "CLEANUP"} /\ wpc' \in WorkerPlaces
    BY <1>3 DEF Worker, RaiseFlag, MarkRunning, Arm, WakeBySignal, WakeByTimeout, LowerFlag, Unlink,
       TimerTypeOK
  <2>3. dur' \in Seconds /\ left' \in Seconds /\ elapsed' \in Seconds
    BY <1>3 DEF Worker, RaiseFlag, MarkRunning, Arm, WakeBySignal, WakeByTimeout, LowerFlag, Unlink,
       TimerTypeOK
  <2> QED
    BY <2>1, <2>2, <2>3 DEF TimerTypeOK
<1>4. CASE Tick
  BY <1>4 DEF Tick, TimerTypeOK
<1>5. CASE UNCHANGED timerVars
  BY <1>5 DEF timerVars, TimerTypeOK
<1>6. CASE wpc' \in WorkerPlaces /\ UNCHANGED <<linked, ctl, dur, left, elapsed, flag>>
  BY <1>6 DEF TimerTypeOK
<1> QED
  BY <1>1, <1>2, <1>3, <1>4, <1>5, <1>6

\* An input that fails has a handler under way from that moment.
LEMMA InputKeepsInd ==
  ASSUME IndInv, NEW t \in Monitors, NEW safe \in BOOLEAN, Input(t, safe) PROVE IndInv'
<1> USE DEF IndInv, Input, Goto
<1>1. t \in Threads
  BY DEF Threads
<1>2. met' \in BOOLEAN /\ (met' <=> safe)
  BY Zenon
<1>3. TimerTypeOK'
  BY TimerKeepsType
<1>4. ConditionTypeOK'
  BY <1>2 DEF ConditionTypeOK
<1>5. HandlerTypeOK'
  BY <1>1 DEF HandlerTypeOK, Seconds
<1>6. WithdrawnInTime'
  <2>1. ~safe => WillLook(t)'
    BY <1>1 DEF WillLook, HandlerTypeOK
  <2> QED
    BY <1>1, <1>2, <2>1 DEF WithdrawnInTime
<1> QED
  BY <1>3, <1>4, <1>5, <1>6

\* A handler that must look does so before it ends.
LEMMA HandlerKeepsInd == ASSUME IndInv, NEW t \in Threads, Continue(t) PROVE IndInv'
<1> USE DEF IndInv, Goto
<1>1. TimerTypeOK'
  BY TimerKeepsType DEF Continue, Enter, StartDelay, ClearDelay, SetState, CheckMaster
<1>2. HandlerTypeOK'
  BY DEF Continue, Enter, StartDelay, ClearDelay, SetState, CheckMaster, HandlerTypeOK
<1>3. CASE CheckMaster(t)
  <2>1. met' = met /\ (trusted' => met) /\ trusted' \in BOOLEAN
    BY <1>3, Zenon DEF CheckMaster
  <2>2. ConditionTypeOK'
    BY <1>3, <2>1 DEF CheckMaster, ConditionTypeOK
  <2>3. WithdrawnInTime'
    BY <2>1 DEF WithdrawnInTime
  <2> QED
    BY <1>1, <1>2, <2>2, <2>3
<1>4. CASE Enter(t) \/ StartDelay(t) \/ ClearDelay(t) \/ SetState(t)
  <2>1. UNCHANGED <<met, trusted, want>>
    BY <1>4, Zenon DEF Enter, StartDelay, ClearDelay, SetState
  <2>2. reused' \in BOOLEAN
    BY <1>4, Zenon DEF Enter, StartDelay, ClearDelay, SetState, ConditionTypeOK, TimerTypeOK
  <2>3. state' \in {"OFF", "ON", "DELAY"}
    BY <1>4 DEF Enter, StartDelay, ClearDelay, SetState, ConditionTypeOK, HandlerTypeOK
  <2>4. ConditionTypeOK'
    BY <2>1, <2>2, <2>3 DEF ConditionTypeOK
  <2>5. WillLook(t) => WillLook(t)'
    BY <1>4, <2>1 DEF Enter, StartDelay, ClearDelay, SetState, WillLook, HandlerTypeOK
  <2>6. \A u \in Threads : u # t => pc'[u] = pc[u]
    BY <1>4 DEF Enter, StartDelay, ClearDelay, SetState, HandlerTypeOK
  <2>7. WithdrawnInTime'
    BY <2>1, <2>5, <2>6 DEF WithdrawnInTime, WillLook
  <2> QED
    BY <1>1, <1>2, <2>4, <2>7
<1> QED
  BY <1>3, <1>4 DEF Continue

\* The worker asks the input, and looks when it is not met.
LEMMA WorkerKeepsInd == ASSUME IndInv, WorkerStep PROVE IndInv'
<1> USE DEF IndInv, Goto
<1>1. UNCHANGED <<met, trusted, state, reused, inputs, metFor>>
  BY Zenon DEF WorkerStep, Startup, Decide, Acted
<1>2. TimerTypeOK'
  BY TimerKeepsType DEF WorkerStep, Startup, Decide, Acted, WorkerPlaces
<1>3. ConditionTypeOK'
  BY <1>1 DEF ConditionTypeOK
<1>4. Worker1 \in Threads
  BY DEF Threads
<1>5. CASE UNCHANGED <<pc, want>>
  BY <1>1, <1>2, <1>3, <1>5 DEF HandlerTypeOK, WithdrawnInTime, WillLook
<1>6. CASE /\ want' = [want EXCEPT ![Worker1] = IF met THEN "ON" ELSE "OFF"]
           /\ pc' = [pc EXCEPT ![Worker1] = "enter"]
  <2>1. HandlerTypeOK'
    BY <1>1, <1>4, <1>6 DEF HandlerTypeOK
  <2>2. ~met => WillLook(Worker1)'
    BY <1>4, <1>6 DEF WillLook, HandlerTypeOK
  <2>3. WithdrawnInTime'
    BY <1>1, <1>4, <2>2 DEF WithdrawnInTime
  <2> QED
    BY <1>2, <1>3, <2>1, <2>3
<1> QED
  BY <1>5, <1>6 DEF WorkerStep, Startup, Decide, Acted

LEMMA TimeKeepsInd == ASSUME IndInv, Second \/ UNCHANGED vars PROVE IndInv'
<1> USE DEF IndInv, Second, vars
<1>1. UNCHANGED <<met, trusted, state, reused, inputs, pc, want>>
  BY Zenon
<1>2. TimerTypeOK'
  BY TimerKeepsType
<1>3. ConditionTypeOK'
  BY <1>1 DEF ConditionTypeOK
<1>4. HandlerTypeOK'
  BY <1>1 DEF HandlerTypeOK, Seconds, Delay
<1>5. WithdrawnInTime'
  BY <1>1 DEF WithdrawnInTime, WillLook
<1> QED
  BY <1>2, <1>3, <1>4, <1>5

LEMMA StepKeepsInd == IndInv /\ [Next]_vars => IndInv'
BY InputKeepsInd, HandlerKeepsInd, WorkerKeepsInd, TimeKeepsInd DEF Next

(***************************************************************************)
(* However set_cond_state() calls of any number of threads and the timer   *)
(* of a delay interleave, whatever their length, once they have ended a    *)
(* condition that check_master() trusts is met.                            *)
(***************************************************************************)
THEOREM TrustedIsAlwaysMet == Spec => []DelayInv
<1>1. IndInv => DelayInv
  BY TypeOKInParts DEF IndInv, DelayInv, TrustedIsMet, Quiet, WithdrawnInTime, WillLook
<1> QED
  BY InitInd, StepKeepsInd, <1>1, PTL DEF Spec
-----------------------------------------------------------------------------
(***************************************************************************)
(* The second half: trust is earned.  The worker of a delay is in a        *)
(* handler only between deciding to act and having acted.                  *)
(***************************************************************************)
WorkerInStep ==
  /\ linked <=> wpc # "none"
  /\ pc[Worker1] # "idle" => wpc = "acting"

Expired == dur = Delay /\ elapsed = Delay /\ metFor = Delay

\* The delay of an input that has been met at least since its timer started.
Timing ==
  /\ linked /\ dur = Delay /\ met /\ elapsed <= metFor
  /\ \/ wpc \in {"begin", "mark", "startup", "arm"}
     \/ wpc \in {"wait", "timedout"} /\ left + elapsed = Delay
     \/ wpc = "ended" /\ elapsed = Delay

\* What the handler a thread is in has established so far.
Established(t) ==
  /\ pc[t] \in {"enter", "clear", "set", "check"} => (want[t] = "ON" <=> met)
  /\ pc[t] = "enter" /\ met =>
       /\ state = "ON" => metFor = Delay
       /\ state # "ON" => ~trusted
       /\ state = "DELAY" /\ t # Worker1 => Timing
       /\ t = Worker1 => state = "DELAY" /\ Expired
  /\ pc[t] = "start" => met /\ state = "DELAY" /\ ~trusted
  /\ pc[t] = "clear" => ~met
  /\ pc[t] \in {"set", "check"} /\ met => metFor = Delay
  /\ pc[t] = "check" => state = want[t]

\* Between handlers the state tells what the input has been.
Settled ==
  Quiet => \/ state = "OFF" /\ ~met /\ ~trusted
           \/ state = "DELAY" /\ ~trusted /\ Timing
           \/ state = "ON" /\ met /\ metFor = Delay

EarnedInv ==
  /\ WorkerInStep
  /\ \A t \in Threads : Established(t)
  /\ Settled

LEMMA ThreadsDiffer ==
  Worker1 \in Threads /\ \A t \in Monitors : t \in Threads /\ t # Worker1
BY WorkerAssumption DEF Threads, Worker1

LEMMA DelayIsPositive == Delay \in Nat /\ Delay > 0 /\ Delay \in Seconds
BY DEF Delay, Seconds

LEMMA InitEarned == Init => EarnedInv
<1> SUFFICES ASSUME Init PROVE EarnedInv
  OBVIOUS
<1>1. \A t \in Threads : pc[t] = "idle"
  BY DEF Init
<1>2. ~linked /\ ~met /\ ~trusted /\ state = "OFF" /\ wpc = "none"
  BY Zenon DEF Init, TimerInit
<1>3. WorkerInStep
  BY <1>1, <1>2, ThreadsDiffer DEF WorkerInStep
<1>4. \A t \in Threads : Established(t)
  BY <1>1 DEF Established
<1> QED
  BY <1>2, <1>3, <1>4 DEF EarnedInv, Settled

(***************************************************************************)
(* A step of the thread that has the floor.                                *)
(***************************************************************************)
LEMMA Alone ==
  ASSUME HandlerTypeOK, NoOverlap, NoOverlap', NEW t \in Threads, NEW place, Goto(t, place),
         pc[t] # "idle" \/ place # "idle"
  PROVE  /\ pc'[t] = place
         /\ \A u \in Threads : u # t => pc[u] = "idle" /\ pc'[u] = "idle"
BY DEF HandlerTypeOK, NoOverlap, Goto

LEMMA FloorSuffices ==
  ASSUME NEW t \in Threads, NEW place, pc'[t] = place,
         \A u \in Threads : u # t => pc'[u] = "idle",
         WorkerInStep', Established(t)', place = "idle" => Settled'
  PROVE  EarnedInv'
<1>1. ASSUME NEW u \in Threads PROVE Established(u)'
  BY DEF Established
<1>2. place # "idle" => Settled'
  BY DEF Settled, Quiet
<1> QED
  BY <1>1, <1>2 DEF EarnedInv

\* Nothing the timer's entry holds is touched.
LEMMA TimerUntouched ==
  ASSUME UNCHANGED timerVars
  PROVE  /\ (linked' <=> linked) /\ wpc' = wpc /\ dur' = dur /\ elapsed' = elapsed
         /\ UNCHANGED <<met, metFor>> => ((Timing' <=> Timing) /\ (Expired' <=> Expired))
BY DEF timerVars, Timing, Expired

LEMMA InputKeepsEarned ==
  ASSUME IndInv, EarnedInv, NoOverlap, NoOverlap', NEW t \in Monitors, NEW safe \in BOOLEAN,
         Input(t, safe)
  PROVE  EarnedInv'
<1> USE DEF IndInv, EarnedInv
<1>1. t \in Threads /\ t # Worker1
  BY ThreadsDiffer
<1>2. UNCHANGED <<state, trusted>> /\ UNCHANGED timerVars
  BY Zenon DEF Input
<1>3. (met' <=> safe) /\ met' \in BOOLEAN
  BY Zenon DEF Input
<1>4. pc'[t] = "enter" /\ \A u \in Threads : u # t => pc[u] = "idle" /\ pc'[u] = "idle"
  BY <1>1, Alone DEF Input
<1>5. pc[t] = "idle" /\ Quiet
  BY <1>4 DEF Input, Quiet
<1>6. want'[t] = IF safe THEN "ON" ELSE "OFF"
  BY <1>1 DEF Input, HandlerTypeOK
<1>7. WorkerInStep'
  BY <1>1, <1>2, <1>4, TimerUntouched, ThreadsDiffer DEF WorkerInStep
<1>8. met /\ met' => metFor' = metFor
  BY <1>3 DEF Input
<1>9. ASSUME met' PROVE /\ state' = "ON" => metFor' = Delay
                        /\ state' # "ON" => ~trusted'
                        /\ state' = "DELAY" => Timing'
  <2>1. CASE met
    <3>1. metFor' = metFor /\ (met' <=> met)
      BY <1>8, <1>9, <2>1
    <3>2. Timing' <=> Timing
      BY <1>2, <3>1 DEF timerVars, Timing
    <3> QED
      BY <1>2, <1>5, <2>1, <3>1, <3>2 DEF Settled
  <2>2. CASE ~met
    <3>1. state = "OFF" /\ ~trusted
      BY <1>5, <2>2 DEF Settled, Timing
    <3> QED
      BY <1>2, <3>1
  <2> QED
    BY <2>1, <2>2
<1>10. Established(t)'
  BY <1>1, <1>3, <1>4, <1>6, <1>9 DEF Established
<1> QED
  BY <1>1, <1>4, <1>7, <1>10, FloorSuffices

(***************************************************************************)
(* A handler goes on without touching the timer.                           *)
(***************************************************************************)
LEMMA HandlerFrame ==
  ASSUME IndInv, EarnedInv, NoOverlap, NoOverlap', NEW t \in Threads, NEW place,
         pc[t] # "idle", Goto(t, place), UNCHANGED timerVars,
         Established(t)', place = "idle" => Settled'
  PROVE  EarnedInv'
<1> USE DEF IndInv, EarnedInv
<1>1. pc'[t] = place /\ \A u \in Threads : u # t => pc[u] = "idle" /\ pc'[u] = "idle"
  BY Alone
<1>2. WorkerInStep'
  BY <1>1, TimerUntouched, ThreadsDiffer DEF WorkerInStep
<1> QED
  BY <1>1, <1>2, FloorSuffices

LEMMA EnterKeepsEarned ==
  ASSUME IndInv, EarnedInv, NoOverlap, NoOverlap', NEW t \in Threads, Enter(t)
  PROVE  EarnedInv'
<1> USE DEF IndInv, EarnedInv
<1>1. UNCHANGED <<met, trusted, want, metFor>> /\ UNCHANGED timerVars /\ pc[t] = "enter"
  BY Zenon DEF Enter
<1>2. (Timing' <=> Timing) /\ (Expired' <=> Expired) /\ (met' <=> met)
  BY <1>1, TimerUntouched
<1>3. /\ want[t] = "ON" <=> met
      /\ met => /\ state = "ON" => metFor = Delay
                /\ state # "ON" => ~trusted
                /\ state = "DELAY" /\ t # Worker1 => Timing
                /\ t = Worker1 => state = "DELAY" /\ Expired
  BY <1>1 DEF Established
<1>4. TimeLeft > 0 => ~Expired
  BY DelayIsPositive DEF TimeLeft, Expired
<1>5. Timing /\ ~(TimeLeft > 0) => metFor = Delay
  BY DelayIsPositive DEF TimeLeft, Timing, TimerTypeOK, HandlerTypeOK, Seconds, Delay
<1>6. ASSUME NEW place, Goto(t, place)
      PROVE  pc'[t] = place /\ \A u \in Threads : u # t => pc[u] = "idle" /\ pc'[u] = "idle"
  BY <1>1, <1>6, Alone
<1>7. CASE want[t] = "ON" /\ state = "OFF" /\ state' = "DELAY" /\ Goto(t, "start")
  <2>1. Established(t)' /\ t # Worker1
    BY <1>1, <1>2, <1>3, <1>6, <1>7 DEF Established
  <2> QED
    BY <1>1, <1>7, <2>1, HandlerFrame
<1>8. CASE /\ want[t] = "ON" /\ (state = "DELAY" \/ (state = "ON" /\ flag)) /\ TimeLeft > 0
           /\ Goto(t, "idle") /\ UNCHANGED state
  <2>1. Established(t)'
    BY <1>6, <1>8 DEF Established
  <2>2. t # Worker1
    BY <1>3, <1>4, <1>8
  <2>3. Settled'
    BY <1>1, <1>2, <1>3, <1>8, <2>2 DEF Settled
  <2> QED
    BY <1>1, <1>8, <2>1, <2>3, HandlerFrame
<1>9. CASE /\ want[t] = "ON" /\ (state = "DELAY" \/ (state = "ON" /\ flag)) /\ ~(TimeLeft > 0)
           /\ Goto(t, "set") /\ UNCHANGED state
  <2>1. metFor = Delay
    BY <1>3, <1>5, <1>9 DEF Expired
  <2>2. Established(t)'
    BY <1>1, <1>2, <1>3, <1>6, <1>9, <2>1 DEF Established
  <2> QED
    BY <1>1, <1>9, <2>2, HandlerFrame
<1>10. CASE want[t] = "OFF" /\ state = "DELAY" /\ Goto(t, "clear") /\ UNCHANGED state
  <2>1. Established(t)'
    BY <1>1, <1>2, <1>3, <1>6, <1>10 DEF Established
  <2> QED
    BY <1>1, <1>10, <2>1, HandlerFrame
<1>11. CASE /\ (want[t] = "ON" /\ state = "ON" /\ ~flag) \/ (want[t] = "OFF" /\ state # "DELAY")
            /\ Goto(t, "set") /\ UNCHANGED state
  <2>1. Established(t)'
    BY <1>1, <1>2, <1>3, <1>6, <1>11 DEF Established
  <2> QED
    BY <1>1, <1>11, <2>1, HandlerFrame
<1> QED
  BY <1>7, <1>8, <1>9, <1>10, <1>11 DEF Enter

\* The one step that starts a delay: on an entry of its own.
LEMMA StartDelayKeepsEarned ==
  ASSUME IndInv, EarnedInv, NoOverlap, NoOverlap', ~reused', NEW t \in Threads, StartDelay(t)
  PROVE  EarnedInv'
<1> USE DEF IndInv, EarnedInv
<1>1. UNCHANGED <<met, state, trusted, want, metFor>> /\ pc[t] = "start" /\ ~linked
  BY Zenon DEF StartDelay
<1>2. linked' /\ dur' = Delay /\ elapsed' = 0 /\ wpc' = "begin"
  BY <1>1, Zenon DEF StartDelay, StartTimer
<1>3. pc'[t] = "idle" /\ \A u \in Threads : u # t => pc[u] = "idle" /\ pc'[u] = "idle"
  BY Alone DEF StartDelay
<1>4. pc[Worker1] = "idle" /\ t # Worker1
  BY <1>1, ThreadsDiffer DEF WorkerInStep
<1>5. WorkerInStep'
  BY <1>2, <1>3, <1>4, ThreadsDiffer DEF WorkerInStep
<1>6. met /\ state = "DELAY" /\ ~trusted
  BY <1>1 DEF Established
<1>7. metFor \in Nat
  BY DEF HandlerTypeOK, Seconds
<1>8. Timing'
  BY <1>1, <1>2, <1>6, <1>7 DEF Timing, Delay
<1>9. Settled'
  BY <1>1, <1>6, <1>8 DEF Settled
<1>10. Established(t)'
  BY <1>3 DEF Established
<1> QED
  BY <1>3, <1>5, <1>9, <1>10, FloorSuffices

LEMMA ClearDelayKeepsEarned ==
  ASSUME IndInv, EarnedInv, NoOverlap, NoOverlap', NEW t \in Threads, ClearDelay(t)
  PROVE  EarnedInv'
<1> USE DEF IndInv, EarnedInv
<1>1. UNCHANGED <<met, state, trusted, want, metFor>> /\ pc[t] = "clear"
  BY Zenon DEF ClearDelay
<1>2. pc'[t] = "set" /\ \A u \in Threads : u # t => pc[u] = "idle" /\ pc'[u] = "idle"
  BY Alone DEF ClearDelay
<1>3. linked' = linked /\ (wpc' = wpc \/ (wpc = "wait" /\ wpc' = "signalled"))
  BY Zenon DEF ClearDelay, ClearTimer, Broadcast, timerVars
<1>4. pc[Worker1] # "idle" => wpc = "acting"
  BY DEF WorkerInStep
<1>5. linked' <=> wpc' # "none"
  BY <1>3 DEF WorkerInStep
<1>6. pc'[Worker1] # "idle" => wpc' = "acting"
  BY <1>1, <1>2, <1>3, <1>4, ThreadsDiffer
<1>7. WorkerInStep'
  BY <1>5, <1>6, Zenon DEF WorkerInStep
<1>8. (want[t] = "ON" <=> met) /\ ~met
  BY <1>1 DEF Established
<1>9. Established(t)'
  BY <1>1, <1>2, <1>8 DEF Established
<1> QED
  BY <1>2, <1>7, <1>9, FloorSuffices

LEMMA SetStateKeepsEarned ==
  ASSUME IndInv, EarnedInv, NoOverlap, NoOverlap', NEW t \in Threads, SetState(t)
  PROVE  EarnedInv'
<1>1. UNCHANGED <<met, trusted, want, metFor>> /\ UNCHANGED timerVars /\ pc[t] = "set"
  BY Zenon DEF SetState
<1>2. state' = want[t] /\ Goto(t, "check") /\ pc'[t] = "check"
  BY DEF SetState, Goto, IndInv, HandlerTypeOK
<1>3. Established(t)
  BY DEF EarnedInv
<1>4. Established(t)'
  BY <1>1, <1>2, <1>3 DEF Established
<1> QED
  BY <1>1, <1>2, <1>4, HandlerFrame

LEMMA CheckMasterKeepsEarned ==
  ASSUME IndInv, EarnedInv, NoOverlap, NoOverlap', NEW t \in Threads, CheckMaster(t)
  PROVE  EarnedInv'
<1>1. UNCHANGED <<met, state, want, metFor>> /\ UNCHANGED timerVars /\ pc[t] = "check"
  BY Zenon DEF CheckMaster
<1>2. Goto(t, "idle") /\ pc'[t] = "idle"
  BY DEF CheckMaster, Goto, IndInv, HandlerTypeOK
<1>3. trusted' <=> met /\ state # "DELAY"
  BY Zenon DEF CheckMaster
<1>4. (want[t] = "ON" <=> met) /\ (met => metFor = Delay) /\ state = want[t]
  BY <1>1 DEF EarnedInv, Established
<1>5. want[t] \in {"OFF", "ON"}
  BY DEF IndInv, HandlerTypeOK
<1>6. Settled'
  BY <1>1, <1>3, <1>4, <1>5 DEF Settled
<1>7. Established(t)'
  BY <1>2 DEF Established
<1> QED
  BY <1>1, <1>2, <1>6, <1>7, HandlerFrame
-----------------------------------------------------------------------------
(***************************************************************************)
(* The worker and the clock.  A delay under way stays under way until its  *)
(* worker finds it over and takes the floor itself.                        *)
(***************************************************************************)
LEMMA OutsideHandlersKeepsEarned ==
  ASSUME IndInv, EarnedInv, UNCHANGED <<met, state, trusted, pc, want>>,
         linked' <=> wpc' # "none", wpc = "acting" => wpc' = "acting" \/ pc[Worker1] = "idle",
         metFor = Delay => metFor' = Delay, Timing => Timing',
         wpc = "acting" /\ Expired => Expired'
  PROVE  EarnedInv'
<1> USE DEF EarnedInv
<1>1. WorkerInStep'
  BY DEF WorkerInStep
<1>2. ASSUME NEW t \in Threads PROVE Established(t)'
  BY DEF Established, WorkerInStep
<1>3. Settled'
  BY DEF Settled, Quiet
<1> QED
  BY <1>1, <1>2, <1>3

LEMMA WorkerKeepsTiming ==
  ASSUME TimerTypeOK, linked <=> wpc # "none", Worker, UNCHANGED <<met, metFor>>, metFor \in Nat
  PROVE  /\ Timing => Timing'
         /\ linked' <=> wpc' # "none"
         /\ wpc # "acting"
<1> USE DelayIsPositive
<1>1. CASE RaiseFlag \/ MarkRunning
  <2>1. linked' = linked
    BY <1>1, Zenon DEF RaiseFlag, MarkRunning
  <2> QED
    BY <1>1, <2>1 DEF RaiseFlag, MarkRunning, Timing
<1>2. CASE Arm
  <2>1. linked' = linked
    BY <1>2, Zenon DEF Arm
  <2> QED
    BY <1>2, <2>1 DEF Arm, Timing
<1>3. CASE WakeByTimeout
  <2>1. linked' = linked
    BY <1>3, Zenon DEF WakeByTimeout
  <2> QED
    BY <1>3, <2>1 DEF WakeByTimeout, Timing, TimerTypeOK, Seconds
<1>4. CASE WakeBySignal \/ LowerFlag
  <2>1. linked' = linked
    BY <1>4, Zenon DEF WakeBySignal, LowerFlag
  <2> QED
    BY <1>4, <2>1 DEF WakeBySignal, LowerFlag, Timing
<1>5. CASE Unlink
  <2>1. ~linked' /\ wpc' = "none" /\ wpc = "unlink"
    BY <1>5, Zenon DEF Unlink
  <2> QED
    BY <2>1 DEF Timing
<1> QED
  BY <1>1, <1>2, <1>3, <1>4, <1>5 DEF Worker

\* A second that passes for the entry passes for the input that is met.
LEMMA SecondKeepsEarned == ASSUME IndInv, EarnedInv, Second PROVE EarnedInv'
<1> USE DelayIsPositive
<1>1. UNCHANGED <<met, state, trusted, pc, want, dur>> /\ linked /\ linked' = linked
  BY Zenon DEF Second, Tick
<1>2. wpc' = IF wpc = "wait" THEN "timedout" ELSE wpc
  BY DEF Second, Tick
<1>3. left \in Nat /\ elapsed \in 0..Delay /\ metFor \in 0..Delay
  BY DEF IndInv, TimerTypeOK, HandlerTypeOK, Seconds, Delay
<1>4. /\ elapsed' = IF elapsed < Delay THEN elapsed + 1 ELSE elapsed
      /\ left' = IF left > 0 THEN left - 1 ELSE 0
      /\ metFor' = IF met /\ metFor < Delay THEN metFor + 1 ELSE metFor
  BY DEF Second, Tick, Delay
<1>5. metFor = Delay => metFor' = Delay
  BY <1>3, <1>4
<1>6. Expired => Expired'
  BY <1>1, <1>3, <1>4 DEF Expired
<1>7. ASSUME Timing PROVE Timing'
  <2>1. metFor' = IF metFor < Delay THEN metFor + 1 ELSE metFor
    BY <1>4, <1>7 DEF Timing
  <2>2. elapsed' <= metFor'
    BY <1>3, <1>4, <1>7, <2>1 DEF Timing
  <2>3. wpc \in {"wait", "timedout"} /\ left + elapsed = Delay => left' + elapsed' = Delay
    BY <1>3, <1>4
  <2>4. elapsed = Delay => elapsed' = Delay
    BY <1>3, <1>4
  <2> QED
    BY <1>1, <1>2, <1>7, <2>2, <2>3, <2>4 DEF Timing
<1>8. linked' <=> wpc' # "none"
  BY <1>1, <1>2 DEF EarnedInv, WorkerInStep
<1> QED
  BY <1>1, <1>2, <1>5, <1>6, <1>7, <1>8, OutsideHandlersKeepsEarned

LEMMA DecideKeepsEarned ==
  ASSUME IndInv, EarnedInv, NoOverlap, NoOverlap', Decide PROVE EarnedInv'
<1> USE DEF IndInv, EarnedInv
<1>1. wpc = "ended" /\ UNCHANGED <<linked, dur, elapsed, met, state, trusted, metFor>>
  BY Zenon DEF Decide
<1>2. CASE state = "DELAY"
  <2>1. /\ wpc' = "acting" /\ Goto(Worker1, "enter")
        /\ want' = [want EXCEPT ![Worker1] = IF met THEN "ON" ELSE "OFF"]
    BY <1>2 DEF Decide
  <2>2. /\ Worker1 \in Threads /\ pc'[Worker1] = "enter"
        /\ \A u \in Threads : u # Worker1 => pc[u] = "idle" /\ pc'[u] = "idle"
    BY <2>1, Alone, ThreadsDiffer
  <2>3. Quiet
    BY <1>1, <2>2 DEF Quiet, WorkerInStep
  <2>4. Timing /\ ~trusted
    BY <1>2, <2>3 DEF Settled
  <2>5. Expired'
    BY <1>1, <2>4, DelayIsPositive DEF Timing, Expired, HandlerTypeOK, Seconds, Delay
  <2>6. want'[Worker1] = "ON" <=> met
    BY <2>1, <2>2 DEF HandlerTypeOK
  <2>7. Established(Worker1)'
    BY <1>1, <1>2, <2>2, <2>4, <2>5, <2>6 DEF Established
  <2>8. WorkerInStep'
    BY <1>1, <2>1 DEF WorkerInStep
  <2> QED
    BY <2>2, <2>7, <2>8, FloorSuffices
<1>3. CASE state # "DELAY"
  <2>1. wpc' = "tail" /\ UNCHANGED <<pc, want>>
    BY <1>3 DEF Decide
  <2>2. WorkerInStep'
    BY <1>1, <2>1 DEF WorkerInStep
  <2>3. ASSUME NEW t \in Threads PROVE Established(t)'
    BY <1>1, <1>3, <2>1 DEF Established, Expired
  <2>4. Settled'
    BY <1>1, <1>3, <2>1 DEF Settled, Quiet
  <2> QED
    BY <2>2, <2>3, <2>4
<1> QED
  BY <1>2, <1>3

LEMMA WorkerStepKeepsEarned ==
  ASSUME IndInv, EarnedInv, NoOverlap, NoOverlap', WorkerStep PROVE EarnedInv'
<1> USE DEF IndInv, EarnedInv
<1>1. metFor \in Nat /\ (linked <=> wpc # "none")
  BY DEF HandlerTypeOK, Seconds, WorkerInStep
<1>2. CASE Worker /\ UNCHANGED <<met, state, trusted, pc, want, inputs, metFor, reused>>
  BY <1>1, <1>2, WorkerKeepsTiming, OutsideHandlersKeepsEarned
<1>3. CASE Startup
  <2>1. /\ wpc = "startup" /\ wpc' = "arm"
        /\ UNCHANGED <<linked, dur, elapsed, met, state, trusted, pc, want, metFor>>
    BY <1>3, Zenon DEF Startup
  <2> QED
    BY <1>1, <2>1, OutsideHandlersKeepsEarned DEF Timing
<1>4. CASE Acted
  <2>1. /\ wpc = "acting" /\ wpc' = "tail" /\ pc[Worker1] = "idle"
        /\ UNCHANGED <<linked, dur, elapsed, met, state, trusted, pc, want, metFor>>
    BY <1>4, Zenon DEF Acted
  <2> QED
    BY <1>1, <2>1, OutsideHandlersKeepsEarned DEF Timing, Expired
<1> QED
  BY <1>2, <1>3, <1>4, DecideKeepsEarned DEF WorkerStep

LEMMA StutterKeepsEarned == ASSUME IndInv, EarnedInv, UNCHANGED vars PROVE EarnedInv'
<1>1. UNCHANGED timerVars /\ UNCHANGED <<met, state, trusted, pc, want, metFor>>
  BY DEF vars
<1>2. linked' <=> wpc' # "none"
  BY <1>1 DEF timerVars, EarnedInv, WorkerInStep
<1> QED
  BY <1>1, <1>2, TimerUntouched, OutsideHandlersKeepsEarned
-----------------------------------------------------------------------------
LEMMA StepKeepsEarned ==
  IndInv /\ EarnedInv /\ (NoOverlap /\ ~reused) /\ (NoOverlap /\ ~reused)' /\ [Next]_vars => EarnedInv'
<1> SUFFICES ASSUME IndInv, EarnedInv, NoOverlap, NoOverlap', ~reused', [Next]_vars PROVE EarnedInv'
  OBVIOUS
<1>1. ASSUME NEW t \in Threads, Continue(t) PROVE EarnedInv'
  BY <1>1, EnterKeepsEarned, StartDelayKeepsEarned, ClearDelayKeepsEarned, SetStateKeepsEarned,
     CheckMasterKeepsEarned DEF Continue
<1> QED
  BY <1>1, InputKeepsEarned, WorkerStepKeepsEarned, SecondKeepsEarned, StutterKeepsEarned DEF Next

(***************************************************************************)
(* For any number of threads, any delay and any inputs: as long as the     *)
(* set_cond_state() calls do not overlap and no delay is started on an     *)
(* entry left from the last one, a condition is trusted only when its      *)
(* input has been met for the whole met_delay.                             *)
(***************************************************************************)
THEOREM FullDelayUnlessReusedAlways == Spec => FullDelayUnlessReused
<1>1. IndInv /\ EarnedInv => TrustIsEarned
  BY DEF EarnedInv, Settled, TrustIsEarned
<1> QED
  BY <1>1, InitInd, InitEarned, StepKeepsInd, StepKeepsEarned, PTL DEF Spec, FullDelayUnlessReused
=============================================================================
