-------------------------- MODULE LifecycleProofs --------------------------
(***************************************************************************)
(* What a stop of the daemon guarantees, for any number of signals and     *)
(* requests, under systemd or not; and what the files it is started from   *)
(* keep over stops and saves, for any rows and any number of saves.        *)
(***************************************************************************)
EXTENDS Lifecycle, MCConfig, WellFoundedInduction, FiniteSetTheorems, SequenceTheorems, TLAPS

USE LimitsAssumption

LEMMA InitStop == Init => StopInv
<1> SUFFICES ASSUME Init PROVE StopInv
  OBVIOUS
<1>1. MainTypeOK
  BY DEF Init, MainTypeOK, Startup, RunStates
<1>2. SignalTypeOK
  BY DEF Init, SignalTypeOK, Signals, Hosts
<1>3. NetTypeOK
  BY DEF Init, NetTypeOK, RunStates
<1>4. MonitorTypeOK /\ PumpTypeOK /\ KeysTypeOK
  BY DEF Init, MonitorTypeOK, PumpTypeOK, KeysTypeOK, RunStates
<1>5. MonitorEndsFirst /\ KeysGoLast /\ LateIsRaised
  BY DEF Init, MonitorEndsFirst, KeysGoLast, LateIsRaised
<1> QED
  BY <1>1, <1>2, <1>3, <1>4, <1>5 DEF StopInv, TypeOK

\* The main thread takes its places in order, and passes the join without the monitor.
LEMMA MainKeepsStop == ASSUME StopInv, Main PROVE StopInv'
<1> USE DEF StopInv, TypeOK, Main, MainMoves,
            StartNetServices, InitialiseKeys, StartMonitor, EnterLoop, TestLoop, LockForWait,
            WaitForPoll, PollIsDue, LeaveWait, StopAllTimers, StopPumps, StopNetServices,
            StopMonitor, JoinMonitor, FreeKeys, Exit
<1>1. MainTypeOK'
  BY DEF MainTypeOK, Startup, Loop, Teardown, RunStates
<1>2. SignalTypeOK'
  BY DEF SignalTypeOK, sigVars
<1>3. NetTypeOK'
  BY DEF NetTypeOK, netVars, RunStates
<1>4. MonitorTypeOK'
  BY DEF MonitorTypeOK, gpioVars, RunStates
<1>5. PumpTypeOK'
  <2>1. CASE StopAllTimers
    BY <2>1 DEF PumpTypeOK, TellWorker
  <2>2. CASE InitialiseKeys
    BY <2>2 DEF PumpTypeOK
  <2>3. CASE StopPumps
    BY <2>3 DEF PumpTypeOK, EmergencyStop
  <2>4. CASE UNCHANGED pumpVars
    BY <2>4 DEF PumpTypeOK, pumpVars
  <2> QED
    BY <2>1, <2>2, <2>3, <2>4
<1>6. KeysTypeOK'
  BY DEF KeysTypeOK, memVars
<1>7. MonitorEndsFirst'
  BY DEF MonitorEndsFirst, gpioVars
<1>8. KeysGoLast'
  BY DEF KeysGoLast, memVars
<1>9. LateIsRaised'
  <2>1. CASE StopPumps
    BY <2>1 DEF LateIsRaised, KeysGoLast, EmergencyStop, KeysTypeOK
  <2>2. CASE ~StopPumps
    BY <2>2 DEF LateIsRaised, BehindEmergencyStop, pumpVars
  <2> QED
    BY <2>1, <2>2
<1> QED
  BY <1>1, <1>2, <1>3, <1>4, <1>5, <1>6, <1>7, <1>8, <1>9

\* A signal that arrives changes nothing but the handler.
LEMMA SignalKeepsStop ==
  ASSUME StopInv, NEW kind \in Signals, NEW host \in Hosts, SignalArrives(kind, host)
  PROVE  StopInv'
<1>1. SignalTypeOK'
  BY DEF SignalArrives, StopInv, TypeOK, SignalTypeOK
<1>2. UNCHANGED <<mainVars, netVars, gpioVars, pumpVars, memVars>>
  BY DEF SignalArrives
<1> QED
  BY <1>1, <1>2
  DEF StopInv, TypeOK, MainTypeOK, NetTypeOK, MonitorTypeOK, PumpTypeOK, KeysTypeOK,
      MonitorEndsFirst, KeysGoLast, LateIsRaised, BehindEmergencyStop,
      mainVars, netVars, gpioVars, pumpVars, memVars

\* A forced poll moves the main thread from its wait only.
LEMMA WakeStaysInLoop ==
  ASSUME MainTypeOK, Wake
  PROVE  /\ main' \in Startup \cup Loop \cup Teardown \cup {"free", "exit", "finished"}
         /\ main' \in {"free", "exit", "finished"} <=> main \in {"free", "exit", "finished"}
         /\ main' \in {"exit", "finished"} <=> main \in {"exit", "finished"}
         /\ BehindEmergencyStop' <=> BehindEmergencyStop
  BY DEF MainTypeOK, Wake, Loop, BehindEmergencyStop

\* The handler wakes the main thread, and opens relays.
LEMMA HandlerKeepsStop == ASSUME StopInv, Handler PROVE StopInv'
<1> USE DEF StopInv, TypeOK, Handler, HandlerMarksCleanup, HandlerStopsPumps, HandlerWakesMain
<1>1. MainTypeOK'
  BY WakeStaysInLoop DEF MainTypeOK, RunStates, mainVars
<1>2. SignalTypeOK'
  BY DEF SignalTypeOK, HandlerReturns, Hosts
<1>3. NetTypeOK' /\ MonitorTypeOK' /\ KeysTypeOK'
  BY DEF NetTypeOK, MonitorTypeOK, KeysTypeOK, netVars, gpioVars, memVars
<1>4. PumpTypeOK'
  BY DEF PumpTypeOK, EmergencyStop, pumpVars
<1>5. MonitorEndsFirst' /\ KeysGoLast'
  BY WakeStaysInLoop DEF MonitorEndsFirst, KeysGoLast, mainVars, gpioVars, memVars
<1>6. LateIsRaised'
  <2>1. BehindEmergencyStop' => BehindEmergencyStop
    BY WakeStaysInLoop DEF BehindEmergencyStop, mainVars
  <2>2. (relay' => relay) /\ late' = late
    <3>1. CASE HandlerStopsPumps
      BY <3>1, Zenon DEF EmergencyStop, HandlerStopsPumps
    <3>2. CASE ~HandlerStopsPumps
      BY <3>2 DEF pumpVars
    <3> QED
      BY <3>1, <3>2
  <2> QED
    BY <2>1, <2>2 DEF LateIsRaised
<1> QED
  BY <1>1, <1>2, <1>3, <1>4, <1>5, <1>6

\* Closing the relay raises late if the pumps had been stopped.
LEMMA RelayIsLate ==
  ASSUME PumpTypeOK', PumpTypeOK, LateIsRaised, main' = main,
         ((relay' => relay) /\ late' = late) \/ CloseRelay
  PROVE  LateIsRaised'
<1>1. BehindEmergencyStop' = BehindEmergencyStop
  BY DEF BehindEmergencyStop
<1>2. CASE CloseRelay
  <2>1. late' = IF BehindEmergencyStop THEN TRUE ELSE late
    BY <1>2 DEF CloseRelay
  <2> QED
    BY <1>1, <2>1 DEF LateIsRaised
<1>3. CASE (relay' => relay) /\ late' = late
  BY <1>1, <1>3 DEF LateIsRaised
<1> QED
  BY <1>2, <1>3

LEMMA PumpOnIsLate ==
  ASSUME PumpTypeOK, LateIsRaised, NEW timed \in BOOLEAN, TurnPumpOn(timed), main' = main
  PROVE  PumpTypeOK' /\ LateIsRaised'
<1>1. PumpTypeOK'
  BY DEF PumpTypeOK, TurnPumpOn, StartTimer, CloseRelay, Reaches
<1>2. ((relay' => relay) /\ late' = late) \/ CloseRelay
  BY DEF TurnPumpOn
<1> QED
  BY <1>1, <1>2, RelayIsLate

\* Stopping the doser only ever opens the relay.
LEMMA PumpOffStaysOff ==
  ASSUME PumpTypeOK, LateIsRaised, main' = main, TurnPumpOff
  PROVE  PumpTypeOK' /\ LateIsRaised'
<1>1. CASE StopDose
  <2>1. relay' \in {FALSE, relay} /\ late' = late /\ acts' = FALSE /\ doser' \in {"REST", "OFF"}
    BY <1>1 DEF StopDose, Reaches
  <2>2. worker' \in {worker, "ending"} /\ told' \in BOOLEAN
    BY <1>1 DEF StopDose, TellWorker
  <2>3. PumpTypeOK'
    BY <2>1, <2>2 DEF PumpTypeOK
  <2>4. (relay' => relay) /\ late' = late
    <3>1. CASE relay' = FALSE
      BY <2>1, <3>1
    <3>2. CASE relay' = relay
      BY <2>1, <3>2
    <3> QED
      BY <2>1, <3>1, <3>2
  <2> QED
    BY <2>3, <2>4, RelayIsLate
<1>2. CASE UNCHANGED <<worker, told, acts, relay, late>> /\ doser' \in {"REST", "OFF"}
  <2>1. PumpTypeOK'
    BY <1>2 DEF PumpTypeOK
  <2> QED
    BY <1>2, <2>1, RelayIsLate
<1> QED
  BY <1>1, <1>2 DEF TurnPumpOff

\* The worker opens the relay, or closes it as any request does.
LEMMA WorkerStaysOff ==
  ASSUME PumpTypeOK, LateIsRaised, main' = main, Worker
  PROVE  PumpTypeOK' /\ LateIsRaised'
<1>1. CASE WorkerBegins \/ WorkerIsCancelled \/ WorkerArms \/ WorkerExpires
  <2>1. PumpTypeOK'
    BY <1>1
    DEF PumpTypeOK, WorkerBegins, WorkerIsCancelled, WorkerArms, WorkerExpires, Armed
  <2>2. UNCHANGED <<relay, late>>
    BY <1>1 DEF WorkerBegins, WorkerIsCancelled, WorkerArms, WorkerExpires
  <2> QED
    BY <2>1, <2>2, RelayIsLate
<1>2. CASE WorkerAsks
  <2>1. PumpTypeOK'
    BY <1>2 DEF PumpTypeOK, WorkerAsks, CloseRelay, Reaches
  <2>2. UNCHANGED <<relay, late>> \/ CloseRelay
    BY <1>2 DEF WorkerAsks
  <2> QED
    BY <2>1, <2>2, RelayIsLate
<1>3. CASE WorkerEnds
  <2>1. PumpTypeOK'
    BY <1>3 DEF PumpTypeOK, WorkerEnds, Reaches
  <2>2. (relay' => relay) /\ late' = late
    BY <1>3 DEF PumpTypeOK, WorkerEnds, Reaches
  <2> QED
    BY <2>1, <2>2, RelayIsLate
<1> QED
  BY <1>1, <1>2, <1>3 DEF Worker

LEMMA NetKeepsStop == ASSUME StopInv, Net PROVE StopInv'
<1> USE DEF StopInv, TypeOK, Net, NetMoves, Runs, NetBegins, NetListens, NetPolls, NetLeavesLoop,
            NetServes, NetLocksToForce, NetForcesPoll, NetEnds
<1>1. MainTypeOK'
  BY WakeStaysInLoop DEF MainTypeOK, mainVars
<1>2. NetTypeOK'
  BY DEF NetTypeOK, RunStates
<1>3. SignalTypeOK' /\ MonitorTypeOK' /\ KeysTypeOK'
  BY DEF SignalTypeOK, MonitorTypeOK, KeysTypeOK, sigVars, gpioVars, memVars
<1>4. MonitorEndsFirst' /\ KeysGoLast'
  BY WakeStaysInLoop DEF MonitorEndsFirst, KeysGoLast, mainVars, gpioVars, memVars
<1>5. PumpTypeOK' /\ LateIsRaised'
  <2>1. CASE NetServes /\ ~UNCHANGED pumpVars
    BY <2>1, PumpOnIsLate, PumpOffStaysOff DEF mainVars
  <2>2. CASE UNCHANGED pumpVars
    BY <2>2, WakeStaysInLoop
    DEF PumpTypeOK, LateIsRaised, pumpVars, mainVars, BehindEmergencyStop
  <2> QED
    BY <2>1, <2>2
<1> QED
  BY <1>1, <1>2, <1>3, <1>4, <1>5

\* A monitor that is gone does nothing any more.
LEMMA MonitorKeepsStop ==
  ASSUME StopInv, MonitorGoesOn \/ ConditionFails \/ ConditionMet
  PROVE  StopInv'
<1> USE DEF StopInv, TypeOK, MonitorGoesOn, MonitorMoves, Runs, MonitorBegins, MonitorTests,
            MonitorIsStopped, ConditionFails, ConditionMet, MonitorForcesPoll, MonitorEnds
<1>1. MainTypeOK'
  BY WakeStaysInLoop DEF MainTypeOK, mainVars
<1>2. MonitorTypeOK'
  BY DEF MonitorTypeOK, RunStates
<1>3. SignalTypeOK' /\ NetTypeOK' /\ KeysTypeOK'
  BY DEF SignalTypeOK, NetTypeOK, KeysTypeOK, sigVars, netVars, memVars
<1>4. MonitorEndsFirst' /\ KeysGoLast'
  BY WakeStaysInLoop DEF MonitorEndsFirst, KeysGoLast, mainVars, memVars
<1>5. PumpTypeOK' /\ LateIsRaised'
  <2>1. CASE ConditionFails /\ StopDose
    BY <2>1, PumpOffStaysOff DEF mainVars, TurnPumpOff
  <2>2. CASE ~(ConditionFails /\ StopDose)
    BY <2>2, WakeStaysInLoop
    DEF PumpTypeOK, LateIsRaised, pumpVars, mainVars, BehindEmergencyStop
  <2> QED
    BY <2>1, <2>2
<1> QED
  BY <1>1, <1>2, <1>3, <1>4, <1>5

LEMMA WorkerKeepsStop == ASSUME StopInv, Worker PROVE StopInv'
<1>1. PumpTypeOK' /\ LateIsRaised'
  <2>1. main' = main
    BY DEF Worker, mainVars
  <2> QED
    BY <2>1, WorkerStaysOff DEF StopInv, TypeOK
<1> QED
  BY <1>1
  DEF StopInv, TypeOK, MainTypeOK, SignalTypeOK, NetTypeOK, MonitorTypeOK, KeysTypeOK,
      MonitorEndsFirst, KeysGoLast, Worker, mainVars, sigVars, netVars, gpioVars, memVars

LEMMA StutterKeepsStop == ASSUME StopInv, UNCHANGED vars PROVE StopInv'
  BY DEF StopInv, TypeOK, MainTypeOK, SignalTypeOK, NetTypeOK, MonitorTypeOK, PumpTypeOK,
         KeysTypeOK, MonitorEndsFirst, KeysGoLast, LateIsRaised, BehindEmergencyStop, vars,
         mainVars, sigVars, netVars, gpioVars, pumpVars, memVars

\* From the join on the monitor is gone, the keys are freed last, and a pump that runs
\* behind the emergency stop was started there: for any number of signals and requests.
THEOREM StopInvariant == Spec => []StopInv
<1>1. Init => StopInv
  BY InitStop
<1>2. StopInv /\ [Next]_vars => StopInv'
  BY MainKeepsStop, SignalKeepsStop, HandlerKeepsStop, NetKeepsStop, MonitorKeepsStop,
     WorkerKeepsStop, StutterKeepsStop DEF Next
<1> QED
  BY <1>1, <1>2, PTL DEF Spec

\* free_config() never frees a key that the GPIO monitor may still walk to.
THEOREM MonitorNeverOnFreedKeys == Spec => []KeysOutliveMonitor
<1>1. StopInv => KeysOutliveMonitor
  BY DEF StopInv, KeysGoLast, MonitorEndsFirst, KeysOutliveMonitor
<1> QED
  BY <1>1, StopInvariant, PTL

\* A pump that is left running by a stop was started by a request behind the emergency stop.
THEOREM LeftOnIsLate == Spec => []PumpLeftOnByLateRequestOnly
<1>1. StopInv => PumpLeftOnByLateRequestOnly
  BY DEF StopInv, LateIsRaised, BehindEmergencyStop, PumpLeftOnByLateRequestOnly
<1> QED
  BY <1>1, StopInvariant, PTL

\* Whatever signals come, the main loop is not asleep over one whose handler has returned,
\* unless that handler does not wake it.  The property is its own invariant.
THEOREM NeverAsleepOverStop == Spec => []StopNeverSleepsThrough
<1> USE DEF StopNeverSleepsThrough
<1>1. Init => StopNeverSleepsThrough
  BY DEF Init
<1>2. ASSUME StopNeverSleepsThrough, [Next]_vars PROVE StopNeverSleepsThrough'
  <2>1. CASE Main
    BY <1>2, <2>1
    DEF Main, MainMoves, StartNetServices, InitialiseKeys, StartMonitor, EnterLoop, TestLoop,
        LockForWait, WaitForPoll, PollIsDue, LeaveWait, StopAllTimers, StopPumps,
        StopNetServices, StopMonitor, JoinMonitor, FreeKeys, Exit
  <2>2. ASSUME NEW kind \in Signals, NEW host \in Hosts, SignalArrives(kind, host)
        PROVE  StopNeverSleepsThrough'
    BY <2>2 DEF SignalArrives
  <2>3. CASE HandlerMarksCleanup
    BY <1>2, <2>3 DEF HandlerMarksCleanup
  <2>4. CASE HandlerStopsPumps
    BY <1>2, <2>4 DEF HandlerStopsPumps, HandlerReturns
  <2>5. CASE HandlerWakesMain
    BY <2>5 DEF HandlerWakesMain, Wake
  <2>6. CASE Net \/ MonitorGoesOn \/ ConditionFails \/ ConditionMet \/ Worker \/ UNCHANGED vars
    <3>1. UNCHANGED <<runState, sig>> /\ (main' = main \/ Wake)
      BY <2>6
      DEF Net, NetBegins, NetListens, NetPolls, NetLeavesLoop, NetServes, NetLocksToForce,
          NetForcesPoll, NetEnds, MonitorGoesOn, MonitorBegins, MonitorTests, MonitorIsStopped,
          ConditionFails, ConditionMet, MonitorForcesPoll, MonitorEnds, Worker, vars,
          mainVars, sigVars
    <3> QED
      BY <1>2, <3>1 DEF Wake
  <2> QED
    BY <1>2, <2>1, <2>2, <2>3, <2>4, <2>5, <2>6 DEF Next, Handler
<1> QED
  BY <1>1, <1>2, PTL DEF Spec
-----------------------------------------------------------------------------
(***************************************************************************)
(* Numbers, positions and sequences, what the files need of them.          *)
(***************************************************************************)

\* A set of numbers that is not empty has a least one.
LEMMA NatLeast ==
  ASSUME NEW T \in SUBSET Nat, T # {} PROVE \E n \in T : \A m \in T : n <= m
<1>1. \E R : IsWellFoundedOn(R, Nat) /\ \A m, n \in Nat : m < n => <<m, n>> \in R
  <2> DEFINE R == OpToRel(<, Nat)
  <2>1. IsWellFoundedOn(R, Nat)
    BY NatLessThanWellFounded
  <2>2. \A m, n \in Nat : m < n => <<m, n>> \in R
    BY DEF OpToRel
  <2> HIDE DEF R
  <2> QED
    BY <2>1, <2>2, Zenon
<1>2. PICK R : IsWellFoundedOn(R, Nat) /\ \A m, n \in Nat : m < n => <<m, n>> \in R
  BY <1>1, Zenon
<1>3. \E n \in T : \A m \in T : ~(<<m, n>> \in R)
  <2>1. T \subseteq Nat /\ IsWellFoundedOn(R, Nat)
    BY <1>2
  <2> QED
    BY <2>1, WFMin, Zenon
<1>4. PICK n \in T : \A m \in T : ~(<<m, n>> \in R)
  BY <1>3
<1>5. \A m \in T : ~(m < n)
  BY <1>2, <1>4
<1> QED
  BY <1>5

\* Induction, said so that no operator is a parameter: what fails for some
\* number up to n, and not for 0, fails somewhere for the first time.
LEMMA FirstFailure ==
  ASSUME NEW n \in Nat, NEW T \in SUBSET (0..n), 0 \notin T, T # {}
  PROVE  \E k \in 1..n : k \in T /\ k - 1 \in 0..n /\ k - 1 \notin T
<1>1. PICK k \in T : \A m \in T : k <= m
  BY NatLeast
<1>2. k \in 1..n /\ k - 1 \in 0..n /\ ~(k <= k - 1)
  BY <1>1
<1> QED
  BY <1>1, <1>2

\* Max and Min are what they are called.
LEMMA GreatestOf ==
  ASSUME NEW n \in Nat, NEW S \in SUBSET (1..n), S # {}
  PROVE  Max(S) \in S /\ \A m \in S : m <= Max(S)
<1>1. PICK u \in {m \in Nat : \A s \in S : s <= m} :
         \A m \in {m \in Nat : \A s \in S : s <= m} : u <= m
  <2>1. n \in {m \in Nat : \A s \in S : s <= m}
    OBVIOUS
  <2> QED
    BY <2>1, NatLeast
<1>2. u \in S
  <2>1. SUFFICES ASSUME u \notin S PROVE FALSE
    OBVIOUS
  <2>2. \A s \in S : s <= u - 1 /\ 1 <= s
    BY <1>1, <2>1
  <2>3. u - 1 \in Nat
    <3>1. PICK s \in S : TRUE
      OBVIOUS
    <3> QED
      BY <2>2, <3>1, <1>1
  <2>4. u <= u - 1
    BY <1>1, <2>2, <2>3
  <2> QED
    BY <1>1, <2>4
<1>3. \E x \in S : \A y \in S : x >= y
  BY <1>1, <1>2
<1>4. Max(S) \in S /\ \A y \in S : Max(S) >= y
  BY <1>3 DEF Max
<1> QED
  BY <1>4

-----------------------------------------------------------------------------
(***************************************************************************)
(* Folds over the elements of a sequence.                                  *)
(***************************************************************************)

\* g folds n steps from base, last position first, as MapThenFoldSet does;
\* effect[i] is what the i-th element does to what has been folded.
IsFold(g, effect, base, n) ==
  \A s \in SUBSET (1..n) : g[s] = IF s = {} THEN base ELSE effect[Max(s)][g[s \ {Max(s)}]]

LEMMA FoldExists ==
  ASSUME NEW S, NEW base \in S, NEW n \in Nat, NEW effect \in [1..n -> [S -> S]]
  PROVE  \E g \in [SUBSET (1..n) -> S] : IsFold(g, effect, base, n)
<1> DEFINE T == {k \in 0..n : ~\E g \in [SUBSET (1..k) -> S] : IsFold(g, effect, base, k)}
<1>1. SUFFICES T = {}
  <2>1. n \in 0..n
    OBVIOUS
  <2> QED
    BY <2>1, Zenon
<1>2. 0 \notin T
  <2> DEFINE g == [s \in SUBSET (1..0) |-> base]
  <2>1. SUBSET (1..0) = {{}}
    OBVIOUS
  <2>2. g \in [SUBSET (1..0) -> S] /\ IsFold(g, effect, base, 0)
    BY <2>1 DEF IsFold
  <2> QED
    BY <2>2, Zenon
<1>3. ASSUME NEW k \in 1..n, NEW h \in [SUBSET (1..(k - 1)) -> S], IsFold(h, effect, base, k - 1)
      PROVE  \E g \in [SUBSET (1..k) -> S] : IsFold(g, effect, base, k)
  <2> DEFINE g == [s \in SUBSET (1..k) |-> IF k \in s THEN effect[k][h[s \ {k}]] ELSE h[s]]
  <2>1. ASSUME NEW s \in SUBSET (1..k), k \in s PROVE Max(s) = k
    <3>1. k \in Nat /\ s # {}
      BY <2>1
    <3>2. Max(s) \in s /\ \A m \in s : m <= Max(s)
      BY <3>1, GreatestOf, Zenon
    <3>3. k <= Max(s) /\ Max(s) \in 1..k
      BY <2>1, <3>2
    <3> QED
      BY <3>1, <3>3
  <2>2. ASSUME NEW s \in SUBSET (1..k)
        PROVE  /\ g[s] \in S
               /\ g[s] = IF s = {} THEN base ELSE effect[Max(s)][g[s \ {Max(s)}]]
    <3>1. CASE k \in s
      <4>1. Max(s) = k /\ s # {} /\ k \notin s \ {k} /\ s \ {k} \in SUBSET (1..k)
        BY <2>1, <3>1
      <4>2. s \ {k} \in SUBSET (1..(k - 1)) /\ k \in 1..n
        BY <3>1
      <4>3. g[s] = effect[k][h[s \ {k}]] /\ g[s \ {k}] = h[s \ {k}]
        BY <3>1, <4>1
      <4>4. h[s \ {k}] \in S /\ effect[k] \in [S -> S]
        BY <4>2, <1>3
      <4> HIDE DEF g
      <4> QED
        BY <4>1, <4>3, <4>4
    <3>2. CASE k \notin s
      <4>1. s \in SUBSET (1..(k - 1))
        BY <3>2
      <4>2. g[s] = h[s] /\ h[s] \in S
        BY <1>3, <3>2, <4>1
      <4>3. h[s] = IF s = {} THEN base ELSE effect[Max(s)][h[s \ {Max(s)}]]
        BY <1>3, <4>1 DEF IsFold
      <4>4. s \ {Max(s)} \in SUBSET (1..k) /\ k \notin s \ {Max(s)}
        BY <3>2
      <4>5. g[s \ {Max(s)}] = h[s \ {Max(s)}]
        BY <4>4
      <4> HIDE DEF g
      <4> QED
        BY <4>2, <4>3, <4>5
    <3> QED
      BY <3>1, <3>2
  <2>3. g \in [SUBSET (1..k) -> S] /\ IsFold(g, effect, base, k)
    BY <2>2 DEF IsFold
  <2> HIDE DEF g
  <2> QED
    BY <2>3, Zenon
<1>4. \A k \in 1..n : k - 1 \in 0..n /\ k - 1 \notin T => k \notin T
  BY <1>3
<1> HIDE DEF T
<1>5. T \in SUBSET (0..n)
  BY DEF T
<1> QED
  BY <1>2, <1>4, <1>5, FirstFailure

\* What such a fold does last to the first k elements is the k-th effect.
LEMMA UpTo ==
  ASSUME NEW n \in Nat, NEW k \in 1..n
  PROVE  /\ 1..k \in SUBSET (1..n) /\ 1..k # {}
         /\ Max(1..k) = k /\ (1..k) \ {Max(1..k)} = 1..(k - 1)
<1>1. k \in Nat /\ k <= n /\ 1 \in 1..k /\ 1..k \in SUBSET (1..k)
  OBVIOUS
<1>2. \A i \in 1..k : i \in 1..n
  BY <1>1
<1>3. Max(1..k) \in 1..k /\ \A m \in 1..k : m <= Max(1..k)
  BY <1>1, GreatestOf, Zenon
<1>4. Max(1..k) = k
  BY <1>1, <1>3
<1>5. (1..k) \ {k} = 1..(k - 1)
  BY <1>1
<1> QED
  BY <1>1, <1>2, <1>4, <1>5, Zenon

-----------------------------------------------------------------------------
(***************************************************************************)
(* The schedules.                                                          *)
(***************************************************************************)

\* A line of the cron file: a row as it was entered, or as the page found it.
Line == [enabled : BOOLEAN, when : Whens, value : RowValues \cup {"1"}]

FoundSoFar(found, l) == IF IsFound(l) THEN Append(found, RowOf(l)) ELSE found

LEMMA RowOfFacts ==
  ASSUME NEW l \in Line
  PROVE  RowOf(l) \in Line /\ RowOf(RowOf(l)) = RowOf(l) /\ (IsFound(l) => IsFound(RowOf(l)))
BY DEF Line, RowOf, IsFound, Whens, RowValues

\* build_schedules_js() shows every row the expression finds.
LEMMA PageHasWhatIsFound ==
  ASSUME NEW ls \in Seq(Line)
  PROVE  /\ BuildSchedules(ls) \in Seq(Line)
         /\ \A i \in 1..Len(ls) : IsFound(ls[i]) =>
              \E j \in 1..Len(BuildSchedules(ls)) : BuildSchedules(ls)[j] = RowOf(ls[i])
<1> DEFINE n == Len(ls)
           effect == [i \in 1..n |-> [found \in Seq(Line) |-> FoundSoFar(found, ls[i])]]
           IsIter(g) == g = [s \in SUBSET (1..n) |->
                              IF s = {} THEN <<>> ELSE FoundSoFar(g[s \ {Max(s)}], ls[Max(s)])]
           g == CHOOSE h : IsIter(h)
<1>1. n \in Nat /\ DOMAIN ls = 1..n /\ \A i \in 1..n : ls[i] \in Line
  OBVIOUS
<1>2. BuildSchedules(ls) = g[1..n]
  BY <1>1, Zenon DEF BuildSchedules, FoldLeft, MapThenFoldSet, FoundSoFar
<1>3. ASSUME NEW found \in Seq(Line), NEW i \in 1..n
      PROVE  /\ FoundSoFar(found, ls[i]) \in Seq(Line)
             /\ Len(found) <= Len(FoundSoFar(found, ls[i]))
             /\ \A j \in 1..Len(found) : FoundSoFar(found, ls[i])[j] = found[j]
             /\ IsFound(ls[i]) =>
                  LET m == Len(FoundSoFar(found, ls[i])) IN m >= 1 /\ FoundSoFar(found, ls[i])[m] = RowOf(ls[i])
  <2>1. ls[i] \in Line /\ RowOf(ls[i]) \in Line
    BY <1>1, RowOfFacts
  <2> HIDE DEF n
  <2> QED
    BY <2>1, AppendProperties DEF FoundSoFar
<1>4. effect \in [1..n -> [Seq(Line) -> Seq(Line)]]
  BY <1>3
<1>5. <<>> \in Seq(Line)
  OBVIOUS
<1>6. \E h : IsIter(h)
  <2>1. PICK h \in [SUBSET (1..n) -> Seq(Line)] : IsFold(h, effect, <<>>, n)
    BY <1>1, <1>4, <1>5, FoldExists
  <2>2. ASSUME NEW s \in SUBSET (1..n), s # {}
        PROVE  h[s] = FoundSoFar(h[s \ {Max(s)}], ls[Max(s)])
    <3>1. Max(s) \in 1..n /\ s \ {Max(s)} \in SUBSET (1..n)
      BY <1>1, <2>2, GreatestOf
    <3>2. h[s] = effect[Max(s)][h[s \ {Max(s)}]]
      BY <2>1, <2>2 DEF IsFold
    <3>3. h[s \ {Max(s)}] \in Seq(Line)
      BY <2>1, <3>1
    <3> QED
      BY <3>1, <3>2, <3>3
  <2>3. ASSUME NEW s \in SUBSET (1..n), s = {} PROVE h[s] = <<>>
    BY <2>1, <2>3 DEF IsFold
  <2>4. h = [s \in SUBSET (1..n) |-> h[s]]
    BY <2>1
  <2> QED
    BY <2>2, <2>3, <2>4
<1>7. IsIter(g)
  BY <1>6, Zenon
<1>8. g[1..0] = <<>> /\ \A k \in 1..n : g[1..k] = FoundSoFar(g[1..(k - 1)], ls[k])
  <2>1. {} \in SUBSET (1..n) /\ 1..0 = {}
    OBVIOUS
  <2>2. g[1..0] = <<>>
    BY <1>7, <2>1
  <2>3. ASSUME NEW k \in 1..n PROVE g[1..k] = FoundSoFar(g[1..(k - 1)], ls[k])
    <3>1. 1..k \in SUBSET (1..n) /\ 1..k # {} /\ Max(1..k) = k /\ (1..k) \ {Max(1..k)} = 1..(k - 1)
      BY <1>1, UpTo
    <3>2. g[1..k] = FoundSoFar(g[(1..k) \ {Max(1..k)}], ls[Max(1..k)])
      BY <1>7, <3>1, Zenon
    <3> QED
      BY <3>1, <3>2, Zenon
  <2> QED
    BY <2>2, <2>3
<1> HIDE DEF g
<1> DEFINE Displayed(k) == /\ g[1..k] \in Seq(Line)
                       /\ \A i \in 1..k : IsFound(ls[i]) =>
                            \E j \in 1..Len(g[1..k]) : g[1..k][j] = RowOf(ls[i])
           T == {k \in 0..n : ~Displayed(k)}
<1>9. Displayed(0)
  BY <1>5, <1>8
<1>10. ASSUME NEW k \in 1..n, Displayed(k - 1) PROVE Displayed(k)
  <2> DEFINE old == g[1..(k - 1)]
             new == g[1..k]
  <2>1. old \in Seq(Line) /\ new = FoundSoFar(old, ls[k])
    BY <1>8, <1>10
  <2>2. \A i \in 1..(k - 1) : IsFound(ls[i]) => \E j \in 1..Len(old) : old[j] = RowOf(ls[i])
    BY <1>10
  <2> HIDE DEF old, new
  <2>3. /\ new \in Seq(Line) /\ Len(old) <= Len(new)
        /\ \A j \in 1..Len(old) : new[j] = old[j]
        /\ IsFound(ls[k]) => Len(new) >= 1 /\ new[Len(new)] = RowOf(ls[k])
    BY <1>3, <2>1
  <2>4. ASSUME NEW i \in 1..k, IsFound(ls[i]) PROVE \E j \in 1..Len(new) : new[j] = RowOf(ls[i])
    <3>1. CASE i = k
      BY <2>3, <2>4, <3>1
    <3>2. CASE i # k
      <4>1. i \in 1..(k - 1)
        BY <3>2
      <4>2. PICK j \in 1..Len(old) : old[j] = RowOf(ls[i])
        BY <2>2, <2>4, <4>1
      <4> QED
        BY <2>1, <2>3, <4>2
    <3> QED
      BY <3>1, <3>2
  <2> QED
    BY <2>3, <2>4 DEF new
<1> HIDE DEF Displayed
<1>11. 0 \notin T /\ T \in SUBSET (0..n) /\ \A k \in 1..n : k - 1 \in 0..n /\ k - 1 \notin T => k \notin T
  BY <1>9, <1>10
<1> HIDE DEF T
<1>12. T = {}
  BY <1>1, <1>11, FirstFailure
<1>13. Displayed(n)
  BY <1>1, <1>12 DEF T
<1> QED
  BY <1>2, <1>13 DEF Displayed

-----------------------------------------------------------------------------
(***************************************************************************)
(* A row that is wanted and that the expression finds is a line of the     *)
(* file, or one that is about to be written, and a row of whatever page    *)
(* the user looks at.                                                      *)
(***************************************************************************)
Among(row, list) == \E i \in 1..Len(list) : list[i] \in {row, RowOf(row)}

RowsTypeOK ==
  /\ cron \in Seq(Line) /\ pending \in Seq(Line) /\ wanted \subseteq Line /\ cut \in BOOLEAN
  /\ rows = NoRows \/ rows \in [shown : {TRUE}, list : Seq(Line)]

WantedIsKept == \A row \in wanted : IsFound(row) => Among(row, cron) \/ Among(row, pending)
WantedIsShown == rows.shown => \A row \in wanted : IsFound(row) => Among(row, rows.list)

SchedulesInv == RowsTypeOK /\ (~cut => WantedIsKept /\ WantedIsShown)

LEMMA HiddenRows == NoRows.shown = FALSE
BY DEF NoRows

LEMMA ShownRows ==
  ASSUME RowsTypeOK, rows.shown
  PROVE  /\ rows \in [shown : {TRUE}, list : Seq(Line)] /\ rows.list \in Seq(Line)
         /\ rows = [shown |-> TRUE, list |-> rows.list]
<1>1. rows # NoRows
  BY HiddenRows, Zenon
<1>2. rows \in [shown : {TRUE}, list : Seq(Line)]
  BY <1>1, Zenon DEF RowsTypeOK
<1> QED
  BY <1>2

LEMMA PageWith ==
  ASSUME NEW r \in [shown : {TRUE}, list : Seq(Line)], NEW l \in Seq(Line)
  PROVE  [r EXCEPT !.list = l] \in [shown : {TRUE}, list : Seq(Line)] /\ [r EXCEPT !.list = l].list = l
OBVIOUS

LEMMA InitSchedules == SchedulesInit => SchedulesInv
<1> SUFFICES ASSUME SchedulesInit PROVE SchedulesInv
  OBVIOUS
<1>1. cron = <<>> /\ pending = <<>> /\ rows = NoRows /\ wanted = {} /\ cut = FALSE
  BY DEF SchedulesInit
<1>2. cron \in Seq(Line) /\ pending \in Seq(Line)
  BY <1>1, EmptySeq, Zenon
<1> QED
  BY <1>1, <1>2, HiddenRows DEF SchedulesInv, RowsTypeOK, WantedIsKept, WantedIsShown

LEMMA RowsAreLines == Rows \subseteq Line
BY RowsAssumption DEF Line

LEMMA LoadKeepsSchedules == ASSUME SchedulesInv, LoadSchedules PROVE SchedulesInv'
<1> USE DEF SchedulesInv
<1>1. /\ pending = <<>> /\ rows' = [shown |-> TRUE, list |-> BuildSchedules(cron)]
      /\ UNCHANGED <<cron, pending, wanted, cut>>
  BY DEF LoadSchedules
<1>2. cron \in Seq(Line) /\ wanted \subseteq Line
  BY DEF RowsTypeOK
<1>3. /\ BuildSchedules(cron) \in Seq(Line)
      /\ \A i \in 1..Len(cron) : IsFound(cron[i]) =>
           \E j \in 1..Len(BuildSchedules(cron)) : BuildSchedules(cron)[j] = RowOf(cron[i])
  BY <1>2, PageHasWhatIsFound
<1>4. RowsTypeOK'
  BY <1>1, <1>3 DEF RowsTypeOK
<1>5. ASSUME ~cut PROVE WantedIsShown'
  <2>1. ASSUME NEW row \in wanted, IsFound(row) PROVE Among(row, BuildSchedules(cron))
    <3>1. Among(row, cron)
      BY <1>1, <1>5, <2>1 DEF WantedIsKept, Among
    <3>2. PICK i \in 1..Len(cron) : cron[i] \in {row, RowOf(row)}
      BY <3>1 DEF Among
    <3>3. IsFound(cron[i]) /\ RowOf(cron[i]) = RowOf(row)
      BY <1>2, <2>1, <3>2, RowOfFacts
    <3> QED
      BY <1>3, <3>3 DEF Among
  <2> QED
    BY <1>1, <2>1 DEF WantedIsShown
<1>6. ASSUME ~cut PROVE WantedIsKept'
  BY <1>1, <1>6 DEF WantedIsKept
<1> QED
  BY <1>1, <1>4, <1>5, <1>6

LEMMA AddKeepsSchedules == ASSUME SchedulesInv, AddRow PROVE SchedulesInv'
<1> USE DEF SchedulesInv
<1>1. PICK row \in Rows : rows' = [rows EXCEPT !.list = Append(@, row)]
  BY DEF AddRow
<1>2. rows.shown /\ UNCHANGED <<cron, pending, wanted, cut>>
  BY DEF AddRow
<1>3. rows \in [shown : {TRUE}, list : Seq(Line)] /\ rows.list \in Seq(Line) /\ row \in Line
  BY <1>2, ShownRows, RowsAreLines
<1>5. /\ Append(rows.list, row) \in Seq(Line)
      /\ \A i \in 1..Len(rows.list) : i \in 1..Len(Append(rows.list, row)) /\ Append(rows.list, row)[i] = rows.list[i]
  BY <1>3, AppendProperties
<1>4. rows' \in [shown : {TRUE}, list : Seq(Line)] /\ rows'.list = Append(rows.list, row)
  BY <1>1, <1>3, <1>5, PageWith, Zenon
<1>6. RowsTypeOK'
  BY <1>2, <1>4, <1>5 DEF RowsTypeOK
<1>7. ASSUME ~cut PROVE WantedIsShown'
  BY <1>2, <1>4, <1>5, <1>7 DEF WantedIsShown, Among
<1>8. ASSUME ~cut PROVE WantedIsKept'
  BY <1>2, <1>8 DEF WantedIsKept
<1> QED
  BY <1>2, <1>6, <1>7, <1>8
LEMMA RemoveAtFacts ==
  ASSUME NEW S, NEW s \in Seq(S), NEW i \in 1..Len(s)
  PROVE  /\ RemoveAt(s, i) \in Seq(S)
         /\ \A j \in 1..Len(s) : j # i => \E k \in 1..Len(RemoveAt(s, i)) : RemoveAt(s, i)[k] = s[j]
<1> DEFINE before == SubSeq(s, 1, i - 1)
           after == SubSeq(s, i + 1, Len(s))
<1>1. RemoveAt(s, i) = before \o after
  BY Zenon DEF RemoveAt
<1>2. Len(s) \in Nat /\ i \in Nat /\ i >= 1 /\ i <= Len(s)
  OBVIOUS
<1>3. before \in Seq(S) /\ Len(before) = i - 1 /\ \A j \in 1..(i - 1) : before[j] = s[j]
  BY <1>2
<1>4. after \in Seq(S) /\ Len(after) = Len(s) - i /\ \A j \in 1..(Len(s) - i) : after[j] = s[i + j]
  BY <1>2
<1> HIDE DEF before, after
<1>5. /\ before \o after \in Seq(S) /\ Len(before \o after) = Len(before) + Len(after)
      /\ \A k \in 1..(Len(before) + Len(after)) :
           (before \o after)[k] = IF k <= Len(before) THEN before[k] ELSE after[k - Len(before)]
  BY <1>3, <1>4, ConcatProperties, Zenon
<1>6. ASSUME NEW j \in 1..Len(s), j # i
      PROVE  \E k \in 1..Len(before \o after) : (before \o after)[k] = s[j]
  <2>1. CASE j < i
    <3>1. j \in 1..Len(before \o after) /\ j <= Len(before) /\ j \in 1..(i - 1)
      BY <1>2, <1>3, <1>4, <1>5, <2>1
    <3>2. (before \o after)[j] = s[j]
      BY <1>3, <1>5, <3>1
    <3> QED
      BY <3>1, <3>2
  <2>2. CASE j > i
    <3>1. PICK k \in Nat : k = j - 1
      BY <1>2, <2>2
    <3>2. /\ k \in 1..Len(before \o after) /\ ~(k <= Len(before)) /\ k - Len(before) \in 1..(Len(s) - i)
          /\ i + (k - Len(before)) = j
      BY <1>2, <1>3, <1>4, <1>5, <2>2, <3>1
    <3>3. (before \o after)[k] = s[j]
      BY <1>4, <1>5, <3>2
    <3> QED
      BY <3>2, <3>3
  <2> QED
    BY <1>2, <1>6, <2>1, <2>2
<1> QED
  BY <1>1, <1>5, <1>6

LEMMA DeleteKeepsSchedules == ASSUME SchedulesInv, DeleteRow PROVE SchedulesInv'
<1> USE DEF SchedulesInv
<1>1. PICK i \in 1..Len(rows.list) :
        /\ rows' = [rows EXCEPT !.list = RemoveAt(@, i)]
        /\ wanted' = {row \in wanted : RowOf(row) # RowOf(rows.list[i])}
  BY DEF DeleteRow
<1>2. rows.shown /\ UNCHANGED <<cron, pending, cut>>
  BY DEF DeleteRow
<1> DEFINE left == RemoveAt(rows.list, i)
<1>3. rows \in [shown : {TRUE}, list : Seq(Line)] /\ rows.list \in Seq(Line)
  BY <1>2, ShownRows
<1>5. /\ left \in Seq(Line)
      /\ \A j \in 1..Len(rows.list) : j # i => \E k \in 1..Len(left) : left[k] = rows.list[j]
  BY <1>3, RemoveAtFacts
<1>4. rows' \in [shown : {TRUE}, list : Seq(Line)] /\ rows'.list = left
  BY <1>1, <1>3, <1>5, PageWith, Zenon
<1> HIDE DEF left
<1>6. RowsTypeOK'
  <2>1. wanted' \subseteq Line /\ cron' \in Seq(Line) /\ pending' \in Seq(Line)
    BY <1>1, <1>2 DEF RowsTypeOK
  <2>2. rows' \in [shown : {TRUE}, list : Seq(Line)] /\ cut' \in BOOLEAN
    BY <1>2, <1>4, <1>5 DEF RowsTypeOK
  <2> QED
    BY <2>1, <2>2, Zenon DEF RowsTypeOK
<1>7. ASSUME ~cut PROVE WantedIsShown'
  <2>1. ASSUME NEW row \in wanted', IsFound(row) PROVE Among(row, left)
    <3>1. row \in wanted /\ RowOf(row) # RowOf(rows.list[i]) /\ row \in Line
      BY <1>1, <2>1 DEF RowsTypeOK
    <3>2. PICK j \in 1..Len(rows.list) : rows.list[j] \in {row, RowOf(row)}
      BY <1>2, <1>7, <2>1, <3>1 DEF WantedIsShown, Among
    <3>3. j # i
      BY <3>1, <3>2, RowOfFacts
    <3> QED
      BY <1>5, <3>2, <3>3 DEF Among
  <2> QED
    BY <1>4, <2>1 DEF WantedIsShown
<1>8. ASSUME ~cut PROVE WantedIsKept'
  BY <1>1, <1>2, <1>8 DEF WantedIsKept
<1> QED
  BY <1>2, <1>6, <1>7, <1>8

LEMMA SaveKeepsSchedules == ASSUME SchedulesInv, SaveSchedules PROVE SchedulesInv'
<1> USE DEF SchedulesInv
<1>1. /\ rows.shown /\ cron' = <<>> /\ pending' = rows.list
      /\ wanted' = wanted \cup ToSet(rows.list) /\ UNCHANGED <<rows, cut>>
  BY DEF SaveSchedules
<1>2. rows.list \in Seq(Line)
  BY <1>1, ShownRows
<1>3. ToSet(rows.list) = {rows.list[i] : i \in 1..Len(rows.list)}
  BY <1>2 DEF ToSet
<1>4. RowsTypeOK'
  <2>1. ToSet(rows.list) \subseteq Line
    BY <1>2, <1>3
  <2>2. cron' \in Seq(Line) /\ pending' \in Seq(Line)
    BY <1>1, <1>2, EmptySeq
  <2> QED
    BY <1>1, <2>1, <2>2 DEF RowsTypeOK
<1>5. ASSUME ~cut, NEW row \in wanted', IsFound(row) PROVE Among(row, rows.list)
  BY <1>1, <1>3, <1>5 DEF WantedIsShown, Among
<1> QED
  BY <1>1, <1>4, <1>5 DEF WantedIsShown, WantedIsKept

LEMMA WriteKeepsSchedules == ASSUME SchedulesInv, WriteLine PROVE SchedulesInv'
<1> USE DEF SchedulesInv
<1>1. /\ pending # <<>> /\ cron' = Append(cron, Head(pending)) /\ pending' = Tail(pending)
      /\ UNCHANGED <<rows, wanted, cut>>
  BY DEF WriteLine
<1>2. cron \in Seq(Line) /\ pending \in Seq(Line)
  BY DEF RowsTypeOK
<1>3. /\ Len(pending) \in Nat /\ Len(pending) >= 1
      /\ Head(pending) = pending[1] /\ Head(pending) \in Line
      /\ Tail(pending) \in Seq(Line) /\ Len(Tail(pending)) = Len(pending) - 1
      /\ \A i \in 1..(Len(pending) - 1) : Tail(pending)[i] = pending[i + 1]
  BY <1>1, <1>2
<1>4. /\ Append(cron, Head(pending)) \in Seq(Line)
      /\ Len(Append(cron, Head(pending))) = Len(cron) + 1
      /\ \A i \in 1..Len(cron) : Append(cron, Head(pending))[i] = cron[i]
      /\ Append(cron, Head(pending))[Len(cron) + 1] = Head(pending)
  BY <1>2, <1>3, AppendProperties
<1>5. RowsTypeOK'
  BY <1>1, <1>3, <1>4 DEF RowsTypeOK
<1>6. ASSUME ~cut PROVE WantedIsKept'
  <2>1. ASSUME NEW row \in wanted, IsFound(row) PROVE Among(row, cron') \/ Among(row, pending')
    <3>1. CASE Among(row, cron)
      BY <1>1, <1>2, <1>4, <3>1 DEF Among
    <3>2. CASE Among(row, pending)
      <4>1. PICK i \in 1..Len(pending) : pending[i] \in {row, RowOf(row)}
        BY <3>2 DEF Among
      <4>2. CASE i = 1
        <5>1. Len(cron) + 1 \in 1..Len(cron') /\ cron'[Len(cron) + 1] \in {row, RowOf(row)}
          BY <1>1, <1>2, <1>3, <1>4, <4>1, <4>2
        <5> QED
          BY <5>1 DEF Among
      <4>3. CASE i # 1
        <5>1. i - 1 \in 1..Len(pending') /\ pending'[i - 1] \in {row, RowOf(row)}
          BY <1>1, <1>3, <4>1, <4>3
        <5> QED
          BY <5>1 DEF Among
      <4> QED
        BY <4>2, <4>3
    <3> QED
      BY <1>6, <2>1, <3>1, <3>2 DEF WantedIsKept
  <2> QED
    BY <1>1, <2>1 DEF WantedIsKept
<1>7. ASSUME ~cut PROVE WantedIsShown'
  BY <1>1, <1>7 DEF WantedIsShown
<1> QED
  BY <1>1, <1>5, <1>6, <1>7

LEMMA CrashKeepsSchedules == ASSUME SchedulesInv, Crash PROVE SchedulesInv'
<1> USE DEF SchedulesInv
<1>1. /\ pending' = <<>> /\ rows' = NoRows /\ cut' = (cut \/ pending # <<>>)
      /\ UNCHANGED <<cron, wanted>>
  BY DEF Crash
<1>2. RowsTypeOK'
  <2>1. pending' \in Seq(Line)
    BY <1>1, EmptySeq
  <2>2. cut' \in BOOLEAN
    BY <1>1, Zenon
  <2> QED
    BY <1>1, <2>1, <2>2, Zenon DEF RowsTypeOK
<1>3. ASSUME ~cut' PROVE WantedIsKept' /\ WantedIsShown'
  <2>1. ~cut /\ pending = <<>>
    BY <1>1, <1>3, Zenon
  <2>2. WantedIsKept'
    BY <1>1, <2>1 DEF WantedIsKept
  <2>3. WantedIsShown'
    BY <1>1, HiddenRows DEF WantedIsShown
  <2> QED
    BY <2>2, <2>3
<1> QED
  BY <1>2, <1>3

LEMMA SchedulesStep == ASSUME SchedulesInv, SchedulesNext PROVE SchedulesInv'
BY LoadKeepsSchedules, AddKeepsSchedules, DeleteKeepsSchedules, SaveKeepsSchedules,
   WriteKeepsSchedules, CrashKeepsSchedules DEF SchedulesNext


(***************************************************************************)
(* For any rows a user may enter, any number of them and of saves: a       *)
(* schedule that the expression of build_schedules_js() finds is in the    *)
(* cron file until it is removed on a page, unless the daemon ended while  *)
(* save_schedules_js() was writing.                                        *)
(***************************************************************************)
THEOREM SchedulesAlwaysSurvive == MCSpec => []SchedulesSurvive
<1>1. MCInit => SchedulesInv
  BY InitSchedules DEF MCInit
<1>2. SchedulesInv /\ [MCNext]_fileVars => SchedulesInv'
  <2>1. ASSUME SchedulesInv, UNCHANGED scheduleVars PROVE SchedulesInv'
    BY <2>1 DEF SchedulesInv, RowsTypeOK, WantedIsKept, WantedIsShown, scheduleVars
  <2>2. [MCNext]_fileVars => SchedulesNext \/ UNCHANGED scheduleVars
    BY Zenon DEF MCNext, fileVars
  <2> QED
    BY <2>1, <2>2, SchedulesStep
<1>3. SchedulesInv => SchedulesSurvive
  <2> SUFFICES ASSUME SchedulesInv, pending = <<>>, ~cut, NEW row \in wanted, IsFound(row)
               PROVE  Among(row, cron)
    BY DEF SchedulesSurvive, Among
  <2> QED
    BY DEF SchedulesInv, WantedIsKept, Among
<1> QED
  BY <1>1, <1>2, <1>3, PTL DEF MCSpec

\* InsertAt puts e at q and moves the rest up by one.
LEMMA InsertAtFacts ==
  ASSUME NEW S, NEW s \in Seq(S), NEW e \in S, NEW q \in 1..(Len(s) + 1)
  PROVE  /\ InsertAt(s, q, e) \in Seq(S) /\ Len(InsertAt(s, q, e)) = Len(s) + 1
         /\ \A i \in 1..(Len(s) + 1) :
              InsertAt(s, q, e)[i] = IF i < q THEN s[i] ELSE IF i = q THEN e ELSE s[i - 1]
<1> DEFINE front == SubSeq(s, 1, q - 1)
           rest == SubSeq(s, q, Len(s))
<1>1. Len(s) \in Nat /\ \A i \in 1..Len(s) : s[i] \in S
  BY LenProperties, ElementOfSeq
<1>2. InsertAt(s, q, e) = (front \o <<e>>) \o rest
  BY DEF InsertAt
<1>3. front \in Seq(S) /\ Len(front) = q - 1 /\ \A i \in 1..(q - 1) : front[i] = s[i]
  <2>1. \A i \in 1..(q - 1) : s[i] \in S
    BY <1>1
  <2>2. front \in Seq(S) /\ Len(front) = (IF 1 <= q - 1 THEN q - 1 - 1 + 1 ELSE 0)
    BY <2>1, SubSeqProperties
  <2>3. \A i \in 1..(q - 1 - 1 + 1) : front[i] = s[1 + i - 1]
    BY <2>1, SubSeqProperties
  <2> HIDE DEF front
  <2> QED
    BY <1>1, <2>2, <2>3
<1>4. /\ rest \in Seq(S) /\ Len(rest) = Len(s) + 1 - q
      /\ \A i \in 1..(Len(s) + 1 - q) : rest[i] = s[q + i - 1]
  <2>1. \A i \in q..Len(s) : s[i] \in S
    BY <1>1
  <2>2. rest \in Seq(S) /\ Len(rest) = (IF q <= Len(s) THEN Len(s) - q + 1 ELSE 0)
    BY <1>1, <2>1, SubSeqProperties
  <2>3. \A i \in 1..(Len(s) - q + 1) : rest[i] = s[q + i - 1]
    BY <1>1, <2>1, SubSeqProperties
  <2> HIDE DEF rest
  <2> QED
    BY <1>1, <2>2, <2>3
<1> HIDE DEF front, rest
<1>5. PICK one \in Seq(S) : one = <<e>> /\ Len(one) = 1 /\ one[1] = e
  <2>1. <<e>> \in Seq(S) /\ Len(<<e>>) = 1 /\ <<e>>[1] = e
    OBVIOUS
  <2> QED
    BY <2>1, Zenon
<1>6. PICK both \in Seq(S) :
        /\ both = front \o one /\ Len(both) = q
        /\ \A i \in 1..q : both[i] = IF i < q THEN s[i] ELSE e
  <2>1. /\ front \o one \in Seq(S) /\ Len(front \o one) = Len(front) + Len(one)
        /\ \A i \in 1..(Len(front) + Len(one)) :
             (front \o one)[i] = IF i <= Len(front) THEN front[i] ELSE one[i - Len(front)]
    BY <1>3, <1>5, ConcatProperties
  <2>2. \A i \in 1..q : (front \o one)[i] = IF i < q THEN s[i] ELSE e
    BY <1>3, <1>5, <2>1
  <2>3. front \o one \in Seq(S) /\ Len(front \o one) = q
    BY <1>3, <1>5, <2>1
  <2> QED
    BY <2>2, <2>3, Zenon
<1>7. PICK new \in Seq(S) :
        /\ new = both \o rest /\ Len(new) = Len(s) + 1
        /\ \A i \in 1..(Len(s) + 1) : new[i] = IF i <= q THEN both[i] ELSE rest[i - q]
  <2>1. /\ both \o rest \in Seq(S) /\ Len(both \o rest) = Len(both) + Len(rest)
        /\ \A i \in 1..(Len(both) + Len(rest)) :
             (both \o rest)[i] = IF i <= Len(both) THEN both[i] ELSE rest[i - Len(both)]
    BY <1>4, <1>6, ConcatProperties
  <2>2. both \o rest \in Seq(S) /\ Len(both \o rest) = Len(s) + 1
    BY <1>1, <1>4, <1>6, <2>1
  <2>3. \A i \in 1..(Len(s) + 1) : (both \o rest)[i] = IF i <= q THEN both[i] ELSE rest[i - q]
    BY <1>1, <1>4, <1>6, <2>1
  <2> QED
    BY <2>2, <2>3, Zenon
<1>8. ASSUME NEW i \in 1..(Len(s) + 1)
      PROVE  new[i] = IF i < q THEN s[i] ELSE IF i = q THEN e ELSE s[i - 1]
  <2>1. CASE i <= q
    BY <1>1, <1>6, <1>7, <2>1
  <2>2. CASE i > q
    <3>1. i - q \in 1..(Len(s) + 1 - q) /\ q + (i - q) - 1 = i - 1
      BY <1>1, <2>2
    <3> QED
      BY <1>1, <1>4, <1>7, <2>2, <3>1
  <2> QED
    BY <1>1, <2>1, <2>2
<1>9. InsertAt(s, q, e) = new
  BY <1>2, <1>5, <1>6, <1>7, Zenon
<1> QED
  BY <1>7, <1>8, <1>9

-----------------------------------------------------------------------------
(***************************************************************************)
(* The folds of the configuration: of lines by the parser, of blocks and   *)
(* fields by the writer, and of keys by the page.                          *)
(***************************************************************************)
LineOf(b, n) == [pre |-> Prefix[b.type], name |-> n, val |-> b.at[n]]

StepOf(fold, x, y) ==
  IF fold.kind = "lines" THEN SetConfigValue(x, y)
  ELSE IF fold.kind = "parameters" THEN SetParameter(x, y)
  ELSE IF fold.kind = "blocks" THEN x \o BlockLines(y)
  ELSE IF fold.kind = "fields" THEN IF IsWritten(fold.of, y) THEN Append(x, LineOf(fold.of, y)) ELSE x
  ELSE IF IsPaged(fold.of, y) THEN Append(x, fold.of.keys[y]) ELSE x

\* g folds n elements from base, the last position first, as MapThenFoldSet does.
Folds(g, fold, base, s, n) ==
  g = [t \in SUBSET (1..n) |-> IF t = {} THEN base ELSE StepOf(fold, g[t \ {Max(t)}], s[Max(t)])]

LEMMA FoldingExists ==
  ASSUME NEW fold, NEW base, NEW s, NEW n \in Nat
  PROVE  \E g : Folds(g, fold, base, s, n)
<1> DEFINE Made(k) == \E g : Folds(g, fold, base, s, k)
           T == {k \in 0..n : ~Made(k)}
<1>1. 0 \notin T
  <2> DEFINE g == [t \in SUBSET (1..0) |-> base]
  <2>1. SUBSET (1..0) = {{}}
    OBVIOUS
  <2>2. Folds(g, fold, base, s, 0)
    BY <2>1 DEF Folds
  <2> QED
    BY <2>2, Zenon
<1>2. ASSUME NEW k \in 1..n, NEW h, Folds(h, fold, base, s, k - 1) PROVE Made(k)
  <2> DEFINE g == [t \in SUBSET (1..k) |-> IF k \in t THEN StepOf(fold, h[t \ {k}], s[k]) ELSE h[t]]
  <2>1. ASSUME NEW t \in SUBSET (1..k), k \in t PROVE Max(t) = k
    <3>1. k \in Nat /\ t # {}
      BY <2>1
    <3>2. Max(t) \in t /\ \A m \in t : m <= Max(t)
      BY <3>1, GreatestOf, Zenon
    <3>3. k <= Max(t) /\ Max(t) \in 1..k
      BY <2>1, <3>2
    <3> QED
      BY <3>1, <3>3
  <2>2. ASSUME NEW t \in SUBSET (1..k)
        PROVE  g[t] = IF t = {} THEN base ELSE StepOf(fold, g[t \ {Max(t)}], s[Max(t)])
    <3>1. CASE k \in t
      <4>1. Max(t) = k /\ t # {} /\ k \notin t \ {k} /\ t \ {k} \in SUBSET (1..k)
        BY <2>1, <3>1
      <4>2. g[t] = StepOf(fold, h[t \ {k}], s[k]) /\ g[t \ {k}] = h[t \ {k}]
        BY <3>1, <4>1
      <4> HIDE DEF g
      <4> QED
        BY <4>1, <4>2
    <3>2. CASE k \notin t
      <4>1. t \in SUBSET (1..(k - 1))
        BY <3>2
      <4>2. g[t] = h[t]
        BY <3>2
      <4>3. h[t] = IF t = {} THEN base ELSE StepOf(fold, h[t \ {Max(t)}], s[Max(t)])
        BY <1>2, <4>1, Zenon DEF Folds
      <4>4. t \ {Max(t)} \in SUBSET (1..k) /\ k \notin t \ {Max(t)}
        BY <3>2
      <4>5. g[t \ {Max(t)}] = h[t \ {Max(t)}]
        BY <4>4
      <4> HIDE DEF g
      <4> QED
        BY <4>2, <4>3, <4>5
    <3> QED
      BY <3>1, <3>2
  <2>3. Folds(g, fold, base, s, k)
    BY <2>2, Zenon DEF Folds
  <2> HIDE DEF g
  <2> QED
    BY <2>3, Zenon
<1>3. \A k \in 1..n : k - 1 \in 0..n /\ k - 1 \notin T => k \notin T
  BY <1>2
<1>4. n \in 0..n
  OBVIOUS
<1> HIDE DEF Made
<1>5. T \in SUBSET (0..n)
  OBVIOUS
<1>6. T = {}
  <2> HIDE DEF T
  <2> QED
    BY <1>1, <1>3, <1>5, FirstFailure
<1> QED
  BY <1>4, <1>6 DEF Made

\* The steps of a fold, one element after the other.
Steps(path, fold, base, s, n) ==
  path[0] = base /\ \A k \in 1..n : path[k] = StepOf(fold, path[k - 1], s[k])

HasSteps(last, fold, base, s, n) == \E path : Steps(path, fold, base, s, n) /\ path[n] = last

LEMMA FoldBySteps ==
  ASSUME NEW fold, NEW base, NEW s, NEW n \in Nat, NEW g, Folds(g, fold, base, s, n)
  PROVE  HasSteps(g[1..n], fold, base, s, n)
<1> DEFINE path == [k \in 0..n |-> g[1..k]]
<1>3. path[0] = base
  <2>1. {} \in SUBSET (1..n) /\ 1..0 = {} /\ 0 \in 0..n
    OBVIOUS
  <2>2. g[{}] = base
    BY <2>1, Zenon DEF Folds
  <2> QED
    BY <2>1, <2>2
<1>4. ASSUME NEW k \in 1..n PROVE path[k] = StepOf(fold, path[k - 1], s[k])
  <2>1. 1..k \in SUBSET (1..n) /\ 1..k # {} /\ Max(1..k) = k /\ (1..k) \ {Max(1..k)} = 1..(k - 1)
    BY UpTo
  <2>2. g[1..k] = StepOf(fold, g[(1..k) \ {Max(1..k)}], s[Max(1..k)])
    BY <2>1, Zenon DEF Folds
  <2>3. g[1..k] = StepOf(fold, g[1..(k - 1)], s[k])
    BY <2>1, <2>2, Zenon
  <2>4. k \in 0..n /\ k - 1 \in 0..n
    OBVIOUS
  <2>5. path[k] = g[1..k] /\ path[k - 1] = g[1..(k - 1)]
    BY <2>4, Zenon
  <2> QED
    BY <2>3, <2>5, Zenon
<1>5. path[n] = g[1..n]
  OBVIOUS
<1> HIDE DEF path
<1> QED
  BY <1>3, <1>4, <1>5, Zenon DEF Steps, HasSteps

\* The parser, line by line.
LEMMA LinesFold ==
  ASSUME NEW base, NEW S, NEW ls \in Seq(S)
  PROVE  \E path : /\ path[0] = base
                   /\ \A k \in 1..Len(ls) : path[k] = SetConfigValue(path[k - 1], ls[k])
                   /\ path[Len(ls)] = FoldLeft(SetConfigValue, base, ls)
<1> DEFINE fold == [kind |-> "lines"]
           n == Len(ls)
           IsIter(g) == g = [t \in SUBSET (1..n) |->
                              IF t = {} THEN base ELSE SetConfigValue(g[t \ {Max(t)}], ls[Max(t)])]
           g == CHOOSE h : IsIter(h)
<1>1. DOMAIN ls = 1..n /\ n \in Nat
  OBVIOUS
<1>2. \A x, y : StepOf(fold, x, y) = SetConfigValue(x, y)
  BY DEF StepOf
<1> HIDE DEF fold
<1>3. FoldLeft(SetConfigValue, base, ls) = g[1..n]
  BY <1>1, Zenon DEF FoldLeft, MapThenFoldSet
<1>4. \A h : Folds(h, fold, base, ls, n) <=> IsIter(h)
  BY <1>2, Zenon DEF Folds
<1>5. \E h : IsIter(h)
  BY <1>1, <1>4, FoldingExists, Zenon
<1>6. Folds(g, fold, base, ls, n)
  BY <1>4, <1>5, Zenon
<1> HIDE DEF g, IsIter
<1>7. HasSteps(g[1..n], fold, base, ls, n)
  BY <1>1, <1>6, FoldBySteps, Zenon
<1>8. PICK path : Steps(path, fold, base, ls, n) /\ path[n] = g[1..n]
  BY <1>7, Zenon DEF HasSteps
<1>9. \A k \in 1..n : path[k] = StepOf(fold, path[k - 1], ls[k])
  BY <1>8, Zenon DEF Steps
<1>10. path[0] = base
  BY <1>8, Zenon DEF Steps
<1> QED
  BY <1>2, <1>3, <1>8, <1>9, <1>10, Zenon

\* The same for the system's parameters.
LEMMA ParametersFold ==
  ASSUME NEW base, NEW S, NEW ls \in Seq(S)
  PROVE  \E path : /\ path[0] = base
                   /\ \A k \in 1..Len(ls) : path[k] = SetParameter(path[k - 1], ls[k])
                   /\ path[Len(ls)] = FoldLeft(SetParameter, base, ls)
<1> DEFINE fold == [kind |-> "parameters"]
           n == Len(ls)
           IsIter(g) == g = [t \in SUBSET (1..n) |->
                              IF t = {} THEN base ELSE SetParameter(g[t \ {Max(t)}], ls[Max(t)])]
           g == CHOOSE h : IsIter(h)
<1>1. DOMAIN ls = 1..n /\ n \in Nat
  OBVIOUS
<1>2. \A x, y : StepOf(fold, x, y) = SetParameter(x, y)
  BY DEF StepOf
<1> HIDE DEF fold
<1>3. FoldLeft(SetParameter, base, ls) = g[1..n]
  BY <1>1, Zenon DEF FoldLeft, MapThenFoldSet
<1>4. \A h : Folds(h, fold, base, ls, n) <=> IsIter(h)
  BY <1>2, Zenon DEF Folds
<1>5. \E h : IsIter(h)
  BY <1>1, <1>4, FoldingExists, Zenon
<1>6. Folds(g, fold, base, ls, n)
  BY <1>4, <1>5, Zenon
<1> HIDE DEF g, IsIter
<1>7. HasSteps(g[1..n], fold, base, ls, n)
  BY <1>1, <1>6, FoldBySteps, Zenon
<1>8. PICK path : Steps(path, fold, base, ls, n) /\ path[n] = g[1..n]
  BY <1>7, Zenon DEF HasSteps
<1>9. \A k \in 1..n : path[k] = StepOf(fold, path[k - 1], ls[k])
  BY <1>8, Zenon DEF Steps
<1>10. path[0] = base
  BY <1>8, Zenon DEF Steps
<1> QED
  BY <1>2, <1>3, <1>8, <1>9, <1>10, Zenon

\* The writer, block by block.
LEMMA BlocksFold ==
  ASSUME NEW S, NEW bs \in Seq(S)
  PROVE  \E path : /\ path[0] = <<>>
                   /\ \A k \in 1..Len(bs) : path[k] = path[k - 1] \o BlockLines(bs[k])
                   /\ path[Len(bs)] = BlocksLines(bs)
<1> DEFINE fold == [kind |-> "blocks"]
           n == Len(bs)
           IsIter(g) == g = [t \in SUBSET (1..n) |->
                              IF t = {} THEN <<>> ELSE g[t \ {Max(t)}] \o BlockLines(bs[Max(t)])]
           g == CHOOSE h : IsIter(h)
<1>1. DOMAIN bs = 1..n /\ n \in Nat
  OBVIOUS
<1>2. \A x, y : StepOf(fold, x, y) = x \o BlockLines(y)
  BY DEF StepOf
<1> HIDE DEF fold
<1>3. BlocksLines(bs) = g[1..n]
  BY <1>1, Zenon DEF BlocksLines, FoldLeft, MapThenFoldSet
<1>4. \A h : Folds(h, fold, <<>>, bs, n) <=> IsIter(h)
  BY <1>2, Zenon DEF Folds
<1>5. \E h : IsIter(h)
  BY <1>1, <1>4, FoldingExists, Zenon
<1>6. Folds(g, fold, <<>>, bs, n)
  BY <1>4, <1>5, Zenon
<1> HIDE DEF g, IsIter
<1>7. HasSteps(g[1..n], fold, <<>>, bs, n)
  BY <1>1, <1>6, FoldBySteps, Zenon
<1>8. PICK path : Steps(path, fold, <<>>, bs, n) /\ path[n] = g[1..n]
  BY <1>7, Zenon DEF HasSteps
<1>9. \A k \in 1..n : path[k] = StepOf(fold, path[k - 1], bs[k])
  BY <1>8, Zenon DEF Steps
<1>10. path[0] = <<>>
  BY <1>8, Zenon DEF Steps
<1> QED
  BY <1>2, <1>3, <1>8, <1>9, <1>10, Zenon

\* The lines of one block, field by field.
LEMMA FieldsFold ==
  ASSUME NEW S, NEW b, b.names \in Seq(S)
  PROVE  \E path : /\ path[0] = <<>>
                   /\ \A k \in 1..Len(b.names) :
                        path[k] = IF IsWritten(b, b.names[k]) THEN Append(path[k - 1], LineOf(b, b.names[k]))
                                  ELSE path[k - 1]
                   /\ path[Len(b.names)] = FieldLines(b)
<1> DEFINE fold == [kind |-> "fields", of |-> b]
           ns == b.names
           n == Len(b.names)
           IsIter(g) == g = [t \in SUBSET (1..n) |->
                              IF t = {} THEN <<>>
                              ELSE IF IsWritten(b, ns[Max(t)])
                                   THEN Append(g[t \ {Max(t)}], LineOf(b, ns[Max(t)]))
                                   ELSE g[t \ {Max(t)}]]
           g == CHOOSE h : IsIter(h)
<1>1. DOMAIN ns = 1..n /\ n \in Nat
  OBVIOUS
<1>2. \A x, y : StepOf(fold, x, y) = IF IsWritten(b, y) THEN Append(x, LineOf(b, y)) ELSE x
  BY DEF StepOf
<1> HIDE DEF fold
<1>3. FieldLines(b) = g[1..n]
  BY <1>1, Zenon DEF FieldLines, FoldLeft, MapThenFoldSet, LineOf
<1>4. \A h : Folds(h, fold, <<>>, ns, n) <=> IsIter(h)
  BY <1>2, Zenon DEF Folds
<1>5. \E h : IsIter(h)
  BY <1>1, <1>4, FoldingExists, Zenon
<1>6. Folds(g, fold, <<>>, ns, n)
  BY <1>4, <1>5, Zenon
<1> HIDE DEF g, IsIter
<1>7. HasSteps(g[1..n], fold, <<>>, ns, n)
  BY <1>1, <1>6, FoldBySteps, Zenon
<1>8. PICK path : Steps(path, fold, <<>>, ns, n) /\ path[n] = g[1..n]
  BY <1>7, Zenon DEF HasSteps
<1>9. \A k \in 1..n : path[k] = StepOf(fold, path[k - 1], ns[k])
  BY <1>8, Zenon DEF Steps
<1>10. path[0] = <<>>
  BY <1>8, Zenon DEF Steps
<1> QED
  BY <1>2, <1>3, <1>8, <1>9, <1>10, Zenon

\* The keys of a page, one after the other.
LEMMA PagedFold ==
  ASSUME NEW m, Len(m.keys) \in Nat
  PROVE  \E path : /\ path[0] = <<>>
                   /\ \A k \in 1..Len(m.keys) :
                        path[k] = IF IsPaged(m, k) THEN Append(path[k - 1], m.keys[k]) ELSE path[k - 1]
                   /\ path[Len(m.keys)] = PagedKeys(m)
<1> DEFINE fold == [kind |-> "paged", of |-> m]
           n == Len(m.keys)
           is == [i \in 1..n |-> i]
           IsIter(g) == g = [t \in SUBSET (1..n) |->
                              IF t = {} THEN <<>>
                              ELSE IF IsPaged(m, is[Max(t)])
                                   THEN Append(g[t \ {Max(t)}], m.keys[is[Max(t)]])
                                   ELSE g[t \ {Max(t)}]]
           g == CHOOSE h : IsIter(h)
<1>1. DOMAIN is = 1..n /\ n \in Nat /\ \A k \in 1..n : is[k] = k
  OBVIOUS
<1>2. \A x, y : StepOf(fold, x, y) = IF IsPaged(m, y) THEN Append(x, m.keys[y]) ELSE x
  BY DEF StepOf
<1> HIDE DEF fold
<1>3. PagedKeys(m) = g[1..n]
  BY <1>1, Zenon DEF PagedKeys, FoldLeft, MapThenFoldSet
<1> HIDE DEF is
<1>4. \A h : Folds(h, fold, <<>>, is, n) <=> IsIter(h)
  BY <1>2, Zenon DEF Folds
<1>5. \E h : IsIter(h)
  BY <1>1, <1>4, FoldingExists, Zenon
<1>6. Folds(g, fold, <<>>, is, n)
  BY <1>4, <1>5, Zenon
<1> HIDE DEF g, IsIter
<1>7. HasSteps(g[1..n], fold, <<>>, is, n)
  BY <1>1, <1>6, FoldBySteps, Zenon
<1>8. PICK path : Steps(path, fold, <<>>, is, n) /\ path[n] = g[1..n]
  BY <1>7, Zenon DEF HasSteps
<1>9. \A k \in 1..n : path[k] = StepOf(fold, path[k - 1], is[k])
  BY <1>8, Zenon DEF Steps
<1>10. path[0] = <<>>
  BY <1>8, Zenon DEF Steps
<1>11. ASSUME NEW k \in 1..n
       PROVE  path[k] = IF IsPaged(m, k) THEN Append(path[k - 1], m.keys[k]) ELSE path[k - 1]
  <2>1. is[k] = k /\ path[k] = StepOf(fold, path[k - 1], is[k])
    BY <1>1, <1>9, Zenon
  <2> QED
    BY <1>2, <2>1, Zenon
<1> QED
  BY <1>3, <1>8, <1>10, <1>11, Zenon

-----------------------------------------------------------------------------
(***************************************************************************)
(* The IDs.                                                                *)
(***************************************************************************)
Roles == {"pH", "ORP", "H2O"}

IsList(s) == \E S : s \in Seq(S)

\* What a device of type t may hold for a field that has its values listed.
Scopes(t) == {"Local", "Global"} \cup {v \in {"Allow"} : t = "GPIO_OUTPUT"}
Fits(t, n, v) ==
  /\ n \in ScopeNames => v \in Scopes(t)
  /\ n = "tank_uom" => v \in {"gallons", "liters", Unset}

\* A device holds what its constructor takes from the staging area.
HoldsTaken(d) ==
  DOMAIN d.at = DOMAIN Taken[d.type] /\ \A n \in DOMAIN d.at : Fits(d.type, n, d.at[n])

IsDevice(d) ==
  /\ d = [label |-> d.label, type |-> d.type, id |-> d.id, at |-> d.at]
  /\ d.type \in Types \cup VirtualTypes /\ IsId(d.id)
  /\ d.type = "GPIO_PMP" => "type" \in DOMAIN d.at /\ d.at["type"] \in Roles
  /\ d.type = "I2C_PRS" => "type" \in DOMAIN d.at /\ d.at["type"] = "PTE7300"
  /\ d.type \in Types => HoldsTaken(d)

AreDevices(ks) == IsList(ks) /\ \A i \in 1..Len(ks) : IsDevice(ks[i])

\* No two devices of ks, or blocks, have the same ID.
ToldApart(ks) == \A i, j \in 1..Len(ks) : ks[i].id = ks[j].id => i = j \/ ks[i].id = NoId

LEMMA ListFacts ==
  ASSUME NEW s, IsList(s)
  PROVE  Len(s) \in Nat /\ DOMAIN s = 1..Len(s) /\ s \in Seq({s[i] : i \in 1..Len(s)})
<1>1. PICK S : s \in Seq(S)
  BY DEF IsList
<1>2. Len(s) \in Nat /\ DOMAIN s = 1..Len(s)
  BY <1>1
<1>3. s = [i \in 1..Len(s) |-> s[i]]
  BY <1>1
<1> QED
  BY <1>2, <1>3

LEMMA FamilyFacts ==
  ASSUME NEW t \in Types \cup VirtualTypes PROVE Family(t) # ""
BY DEF Types, VirtualTypes, EzoTypes, Family

LEMMA IdFacts ==
  ASSUME NEW family, NEW number \in Nat, family # "", NEW id, id = <<family, number>>
  PROVE  IsId(id) /\ id # NoId /\ id[1] = family /\ id[2] = number
BY DEF IsId, NoId

\* The number of a family's highest ID is none below any that was kept.
LEMMA HighestFacts ==
  ASSUME NEW ks, AreDevices(ks), NEW family
  PROVE  /\ HighestKept(ks, family) \in Nat
         /\ \A i \in 1..Len(ks) : KeepsId(ks, i) /\ ks[i].id[1] = family => ks[i].id[2] <= HighestKept(ks, family)
<1> DEFINE n == Len(ks)
           is == {j \in 1..n : KeepsId(ks, j) /\ ks[j].id[1] = family}
           kept == {ks[i].id[2] : i \in is}
           Bounded(k) == \E u \in Nat : \A i \in 1..k : i \in is => ks[i].id[2] <= u
           T == {k \in 0..n : ~Bounded(k)}
<1>1. n \in Nat /\ \A i \in 1..n : ks[i].id[2] \in Nat
  BY ListFacts DEF AreDevices, IsDevice, IsId
<1>2. HighestKept(ks, family) = IF kept = {} THEN 0 ELSE CHOOSE m \in kept : \A l \in kept : l <= m
  BY Zenon DEF HighestKept
<1>3. is \subseteq 1..n /\ \A i \in is : ks[i].id[2] \in Nat
  BY <1>1
<1> HIDE DEF is, n
<1>4. kept \subseteq Nat
  BY <1>3
<1>5. Bounded(n)
  <2>1. Bounded(0)
    BY <1>1
  <2>2. ASSUME NEW k \in 1..n, Bounded(k - 1) PROVE Bounded(k)
    <3>1. PICK u \in Nat : \A i \in 1..(k - 1) : i \in is => ks[i].id[2] <= u
      BY <2>2
    <3>2. PICK w \in Nat : u <= w /\ ks[k].id[2] <= w
      <4>1. ks[k].id[2] \in Nat
        BY <1>1
      <4>2. \E w \in Nat : u <= w /\ ks[k].id[2] <= w
        <5>1. CASE u <= ks[k].id[2]
          BY <4>1, <5>1
        <5>2. CASE ~(u <= ks[k].id[2])
          BY <4>1, <5>2
        <5> QED
          BY <5>1, <5>2
      <4> QED
        BY <4>2
    <3>3. ASSUME NEW i \in 1..k, i \in is PROVE ks[i].id[2] <= w
      <4>1. CASE i = k
        BY <3>2, <4>1
      <4>2. CASE i # k
        <5>1. i \in 1..(k - 1)
          BY <4>2, <1>1
        <5>2. ks[i].id[2] \in Nat /\ ks[i].id[2] <= u
          BY <1>3, <3>1, <3>3, <5>1
        <5> QED
          BY <3>2, <5>2
      <4> QED
        BY <4>1, <4>2
    <3> QED
      BY <3>3
  <2> HIDE DEF Bounded
  <2>3. 0 \notin T /\ T \in SUBSET (0..n) /\ \A k \in 1..n : k - 1 \in 0..n /\ k - 1 \notin T => k \notin T
    BY <1>1, <2>1, <2>2
  <2> HIDE DEF T
  <2>4. T = {}
    BY <1>1, <2>3, FirstFailure
  <2> QED
    BY <1>1, <2>4 DEF T
<1>6. CASE kept = {}
  <2>1. HighestKept(ks, family) = 0
    BY <1>2, <1>6
  <2>2. \A i \in is : ks[i].id[2] \in kept
    OBVIOUS
  <2>3. \A i \in 1..n : i \notin is
    BY <1>6, <2>2
  <2> QED
    BY <2>1, <2>3 DEF is, n
<1>7. CASE kept # {}
  <2>1. \A v \in kept : \E i \in is : v = ks[i].id[2]
    OBVIOUS
  <2>2. PICK u \in Nat : \A v \in kept : v <= u
    BY <1>3, <1>5, <2>1
  <2> HIDE DEF kept
  <2> DEFINE U == {m \in Nat : \A v \in kept : v <= m}
  <2>3. PICK w \in U : \A m \in U : w <= m
    <3>1. U \in SUBSET Nat /\ U # {}
      BY <2>2
    <3> QED
      BY <3>1, NatLeast
  <2>4. w \in kept
    <3>1. SUFFICES ASSUME w \notin kept PROVE FALSE
      OBVIOUS
    <3>2. PICK v \in kept : TRUE
      BY <1>7
    <3>3. w - 1 \in Nat /\ \A l \in kept : l <= w - 1
      BY <1>4, <2>3, <3>1, <3>2
    <3>4. w - 1 \in U
      BY <3>3
    <3> QED
      BY <2>3, <3>3, <3>4
  <2>5. \A l \in kept : l <= w
    BY <2>3
  <2>6. HighestKept(ks, family) \in kept /\ \A l \in kept : l <= HighestKept(ks, family)
    BY <1>2, <1>7, <2>4, <2>5
  <2>7. \A i \in is : ks[i].id[2] \in kept
    BY DEF kept
  <2> QED
    BY <1>4, <2>6, <2>7 DEF is, n
<1> QED
  BY <1>6, <1>7

\* assign_missing_ids(): every device gets an ID of its family, none that another has.
LEMMA AssignFacts ==
  ASSUME NEW ks, AreDevices(ks)
  PROVE  LET new == AssignMissingIds(ks)
         IN  /\ AreDevices(new) /\ Len(new) = Len(ks)
             /\ \A i \in 1..Len(ks) :
                  /\ new[i].label = ks[i].label /\ new[i].type = ks[i].type
                  /\ new[i].id # NoId /\ new[i].id[1] = Family(new[i].type)
                  /\ KeepsId(ks, i) => new[i].id = ks[i].id
             /\ \A i, j \in 1..Len(ks) : new[i].id = new[j].id => i = j
<1> DEFINE new == AssignMissingIds(ks)
           n == Len(ks)
           F(i) == Family(ks[i].type)
           Before(i) == {j \in 1..i : ~KeepsId(ks, j) /\ F(j) = F(i)}
<1>0. n \in Nat /\ n = Len(ks)
  BY ListFacts DEF AreDevices
<1>1. n \in Nat /\ \A i \in 1..n : IsDevice(ks[i]) /\ F(i) # ""
  BY ListFacts, FamilyFacts DEF AreDevices, IsDevice
<1>2. \A i \in 1..n : new[i] = IF KeepsId(ks, i) THEN ks[i]
                               ELSE [ks[i] EXCEPT !.id = <<F(i), HighestKept(ks, F(i)) + Cardinality(Before(i))>>]
  BY DEF AssignMissingIds
<1>3. new = [i \in 1..n |-> new[i]]
  BY DEF AssignMissingIds
<1>4. \A i \in 1..n : HighestKept(ks, F(i)) \in Nat
  BY HighestFacts
<1>5. ASSUME NEW i \in 1..n
      PROVE  IsFiniteSet(Before(i)) /\ Cardinality(Before(i)) \in Nat
  <2>1. IsFiniteSet(1..i)
    BY FS_Interval
  <2>2. Before(i) \subseteq 1..i
    OBVIOUS
  <2> QED
    BY <2>1, <2>2, FS_Subset, FS_CardinalityType
<1>6. \A i \in 1..n : KeepsId(ks, i) => ks[i].id # NoId /\ ks[i].id[1] = F(i)
  BY DEF KeepsId
<1>7. ASSUME NEW i \in 1..n, ~KeepsId(ks, i) PROVE Cardinality(Before(i)) >= 1
  <2>1. i \in Before(i)
    BY <1>7
  <2>2. Cardinality(Before(i)) # 0
    BY <1>5, <2>1, FS_EmptySet
  <2> QED
    BY <1>5, <2>2
<1>8. ASSUME NEW i \in 1..n, NEW j \in 1..n, i < j, ~KeepsId(ks, i), ~KeepsId(ks, j), F(i) = F(j)
      PROVE  Cardinality(Before(i)) < Cardinality(Before(j))
  <2>1. Before(i) \subseteq Before(j)
    BY <1>8
  <2>2. j \in Before(j) /\ j \notin Before(i)
    BY <1>8
  <2> HIDE DEF Before
  <2>3. Before(i) # Before(j)
    BY <2>2
  <2>4. Cardinality(Before(i)) <= Cardinality(Before(j))
        /\ (Cardinality(Before(i)) = Cardinality(Before(j)) => Before(i) = Before(j))
    BY <1>5, <2>1, FS_Subset
  <2> QED
    BY <1>5, <2>3, <2>4
<1> HIDE DEF new, F, Before
<1>9. ASSUME NEW i \in 1..n
      PROVE  /\ new[i] = [label |-> ks[i].label, type |-> ks[i].type, id |-> new[i].id, at |-> ks[i].at]
             /\ new[i].id = IF KeepsId(ks, i) THEN ks[i].id
                            ELSE <<F(i), HighestKept(ks, F(i)) + Cardinality(Before(i))>>
  <2>1. ks[i] = [label |-> ks[i].label, type |-> ks[i].type, id |-> ks[i].id, at |-> ks[i].at]
    BY <1>1 DEF IsDevice
  <2>2. CASE KeepsId(ks, i)
    <3>1. new[i] = ks[i]
      BY <1>2, <2>2
    <3> QED
      BY <2>1, <2>2, <3>1
  <2>3. CASE ~KeepsId(ks, i)
    <3> DEFINE fresh == <<F(i), HighestKept(ks, F(i)) + Cardinality(Before(i))>>
    <3>1. new[i] = [ks[i] EXCEPT !.id = fresh]
      BY <1>2, <2>3
    <3> HIDE DEF fresh
    <3>2. [ks[i] EXCEPT !.id = fresh] = [label |-> ks[i].label, type |-> ks[i].type, id |-> fresh, at |-> ks[i].at]
      BY <2>1
    <3>3. new[i].id = fresh
      BY <3>1, <3>2
    <3> QED
      BY <2>3, <3>1, <3>2, <3>3 DEF fresh
  <2> QED
    BY <2>2, <2>3
<1>10. ASSUME NEW i \in 1..n
       PROVE  /\ IsDevice(new[i]) /\ new[i].label = ks[i].label /\ new[i].type = ks[i].type
              /\ new[i].id # NoId /\ new[i].id[1] = F(i)
  <2>1. /\ new[i].label = ks[i].label /\ new[i].type = ks[i].type /\ new[i].at = ks[i].at
        /\ new[i] = [label |-> new[i].label, type |-> new[i].type, id |-> new[i].id, at |-> new[i].at]
    <3> DEFINE d == [label |-> ks[i].label, type |-> ks[i].type, id |-> new[i].id, at |-> ks[i].at]
    <3>1. new[i] = d /\ d.label = ks[i].label /\ d.type = ks[i].type /\ d.at = ks[i].at
      BY <1>9
    <3>2. new[i].label = ks[i].label /\ new[i].type = ks[i].type /\ new[i].at = ks[i].at
      BY <3>1, Zenon
    <3> QED
      BY <1>9, <3>2, Zenon
  <2>2. IsId(new[i].id) /\ new[i].id # NoId /\ new[i].id[1] = F(i)
    <3>1. CASE KeepsId(ks, i)
      BY <1>1, <1>6, <1>9, <3>1 DEF IsDevice
    <3>2. CASE ~KeepsId(ks, i)
      <4>1. HighestKept(ks, F(i)) + Cardinality(Before(i)) \in Nat
        BY <1>4, <1>5
      <4>2. new[i].id = <<F(i), HighestKept(ks, F(i)) + Cardinality(Before(i))>>
        BY <1>9, <3>2, Zenon
      <4>3. F(i) # ""
        BY <1>1
      <4>4. PICK k \in Nat : new[i].id = <<F(i), k>>
        BY <4>1, <4>2, Zenon
      <4> QED
        BY <4>3, <4>4, IdFacts
    <3> QED
      BY <3>1, <3>2
  <2>3. IsDevice(ks[i])
    BY <1>1
  <2> QED
    BY <2>1, <2>2, <2>3, Zenon DEF IsDevice, HoldsTaken
<1>11. ASSUME NEW i \in 1..n, NEW j \in 1..n, i < j PROVE new[i].id # new[j].id
  <2> SUFFICES ASSUME new[i].id = new[j].id PROVE FALSE
    OBVIOUS
  <2>1. F(i) = F(j)
    BY <1>10
  <2>2. CASE KeepsId(ks, i) /\ KeepsId(ks, j)
    <3>1. j \in (i + 1)..Len(ks)
      BY <1>0, <1>11
    <3>2. ks[i].id # ks[j].id
      BY <2>2, <3>1 DEF KeepsId
    <3> QED
      BY <1>9, <2>2, <3>2
  <2>3. ASSUME NEW k \in 1..n, NEW l \in 1..n, F(k) = F(l), new[k].id = new[l].id, KeepsId(ks, k), ~KeepsId(ks, l)
        PROVE  FALSE
    <3>1. ks[k].id[2] <= HighestKept(ks, F(l))
      <4>1. ks[k].id[1] = F(l)
        BY <1>6, <2>3
      <4> QED
        BY <2>3, <4>1, HighestFacts DEF n
    <3>2. ks[k].id = <<F(l), HighestKept(ks, F(l)) + Cardinality(Before(l))>>
      BY <1>9, <2>3
    <3>3. ks[k].id[2] = HighestKept(ks, F(l)) + Cardinality(Before(l))
      BY <3>2
    <3> QED
      BY <1>4, <1>5, <1>7, <2>3, <3>1, <3>3
  <2>4. CASE ~KeepsId(ks, i) /\ ~KeepsId(ks, j)
    <3>1. /\ new[i].id[2] = HighestKept(ks, F(i)) + Cardinality(Before(i))
          /\ new[j].id[2] = HighestKept(ks, F(i)) + Cardinality(Before(j))
      <4>1. new[i].id = <<F(i), HighestKept(ks, F(i)) + Cardinality(Before(i))>>
        BY <1>9, <2>4, Zenon
      <4>2. new[j].id = <<F(i), HighestKept(ks, F(i)) + Cardinality(Before(j))>>
        BY <1>9, <2>1, <2>4, Zenon
      <4>3. \A a, b : <<a, b>>[2] = b
        BY Zenon
      <4> QED
        BY <4>1, <4>2, <4>3, Zenon
    <3>2. Cardinality(Before(i)) < Cardinality(Before(j))
      BY <1>8, <1>11, <2>1, <2>4
    <3> QED
      BY <1>4, <1>5, <3>1, <3>2
  <2> QED
    BY <2>1, <2>2, <2>3, <2>4
<1>12. Len(new) = n /\ IsList(new)
  <2> DEFINE S == {new[i] : i \in 1..n}
             f == [i \in 1..n |-> new[i]]
  <2>1. f \in Seq(S) /\ Len(f) = n
    BY <1>0
  <2> QED
    BY <1>3, <2>1, Zenon DEF IsList
<1>13. AreDevices(new)
  BY <1>10, <1>12 DEF AreDevices
<1>14. \A i, j \in 1..n : new[i].id = new[j].id => i = j
  <2> SUFFICES ASSUME NEW i \in 1..n, NEW j \in 1..n, new[i].id = new[j].id PROVE i = j
    OBVIOUS
  <2> QED
    BY <1>0, <1>11
<1> QED
  BY <1>9, <1>10, <1>12, <1>13, <1>14 DEF new, n, F

-----------------------------------------------------------------------------
(***************************************************************************)
(* The list of keys.                                                       *)
(***************************************************************************)

\* append_to_key_list() puts d somewhere, and leaves the others in their order.
LEMMA AppendedAt ==
  ASSUME NEW ks, AreDevices(ks), NEW d
  PROVE  LET new == AppendToKeyList(ks, d)
         IN  /\ IsList(new) /\ Len(new) = Len(ks) + 1
             /\ \E q \in 1..(Len(ks) + 1) : \A i \in 1..(Len(ks) + 1) :
                  new[i] = IF i < q THEN ks[i] ELSE IF i = q THEN d ELSE ks[i - 1]
<1> DEFINE n == Len(ks)
           behind == {i \in 1..n : NodePriority(ks[i].type) > NodePriority(d.type)}
           places == behind \cup {n + 1}
           q == Min(places)
           S == {ks[i] : i \in 1..n} \cup {d}
<1>1. n \in Nat /\ n = Len(ks)
  BY ListFacts DEF AreDevices
<1>2. ks \in Seq(S) /\ d \in S
  <2>1. ks \in Seq({ks[i] : i \in 1..n})
    BY ListFacts DEF AreDevices
  <2>2. ks = [i \in 1..n |-> ks[i]]
    BY <2>1
  <2> QED
    BY <1>1, <2>2
<1>3. q \in 1..(n + 1)
  <2>1. places \in SUBSET Nat /\ n + 1 \in places /\ \A p \in places : p \in 1..(n + 1)
    BY <1>1
  <2> HIDE DEF places
  <2>2. \E p \in places : \A m \in places : p <= m
    BY <2>1, NatLeast
  <2>3. q \in places
    BY <2>2 DEF Min
  <2> QED
    BY <2>1, <2>3
<1>4. AppendToKeyList(ks, d) = InsertAt(ks, q, d)
  BY Zenon DEF AppendToKeyList
<1> HIDE DEF q, S, n
<1>5. /\ InsertAt(ks, q, d) \in Seq(S) /\ Len(InsertAt(ks, q, d)) = n + 1
      /\ \A i \in 1..(n + 1) :
           InsertAt(ks, q, d)[i] = IF i < q THEN ks[i] ELSE IF i = q THEN d ELSE ks[i - 1]
  <2>1. q \in 1..(Len(ks) + 1)
    BY <1>1, <1>3
  <2>2. /\ InsertAt(ks, q, d) \in Seq(S) /\ Len(InsertAt(ks, q, d)) = Len(ks) + 1
        /\ \A i \in 1..(Len(ks) + 1) :
             InsertAt(ks, q, d)[i] = IF i < q THEN ks[i] ELSE IF i = q THEN d ELSE ks[i - 1]
    BY <1>2, <2>1, InsertAtFacts
  <2> QED
    BY <1>1, <2>2
<1>6. IsList(AppendToKeyList(ks, d))
  BY <1>4, <1>5 DEF IsList
<1> QED
  BY <1>1, <1>3, <1>4, <1>5, <1>6

\* new has the devices of ks and d, and besides these only keys without an ID.
Extends(new, ks, d) ==
  /\ AreDevices(new) /\ ToldApart(new)
  /\ \A j \in 1..Len(ks) : \E i \in 1..Len(new) : new[i] = ks[j]
  /\ \E i \in 1..Len(new) : new[i] = d
  /\ \A i \in 1..Len(new) : new[i] = d \/ new[i].id = NoId \/ \E j \in 1..Len(ks) : new[i] = ks[j]

LEMMA AppendFacts ==
  ASSUME NEW ks, AreDevices(ks), ToldApart(ks), NEW d, IsDevice(d),
         d.id = NoId \/ \A j \in 1..Len(ks) : ks[j].id # d.id
  PROVE  Extends(AppendToKeyList(ks, d), ks, d)
<1> DEFINE n == Len(ks)
           new == AppendToKeyList(ks, d)
<1>1. n \in Nat /\ IsList(new) /\ Len(new) = n + 1
  BY ListFacts, AppendedAt DEF AreDevices
<1>2. PICK q \in 1..(n + 1) : \A i \in 1..(n + 1) :
         new[i] = IF i < q THEN ks[i] ELSE IF i = q THEN d ELSE ks[i - 1]
  BY AppendedAt
<1>3. /\ \A i \in 1..n : IsDevice(ks[i])
      /\ \A i, j \in 1..n : ks[i].id = ks[j].id => i = j \/ ks[i].id = NoId
      /\ d.id = NoId \/ \A j \in 1..n : ks[j].id # d.id
  BY DEF AreDevices, ToldApart
<1> HIDE DEF new, n
<1> DEFINE From(i) == IF i < q THEN i ELSE i - 1
<1>4. \A i \in 1..(n + 1) : i # q => From(i) \in 1..n /\ new[i] = ks[From(i)]
  <2> TAKE i \in 1..(n + 1)
  <2>1. CASE i < q
    BY <1>1, <1>2, <2>1
  <2>2. CASE i > q
    <3>1. i - 1 \in 1..n /\ ~(i < q) /\ i # q
      BY <1>1, <2>2
    <3> QED
      BY <1>2, <3>1
  <2> QED
    BY <1>1, <2>1, <2>2
<1>5. new[q] = d
  BY <1>2
<1>6. \A i, j \in 1..(n + 1) : i # q /\ j # q /\ From(i) = From(j) => i = j
  BY <1>1
<1>7. \A j \in 1..n : \E i \in 1..(n + 1) : i # q /\ From(i) = j
  <2> TAKE j \in 1..n
  <2>1. CASE j < q
    BY <1>1, <2>1
  <2>2. CASE j >= q
    <3>1. PICK i \in 1..(n + 1) : i = j + 1
      BY <1>1
    <3> QED
      BY <1>1, <2>2, <3>1
  <2> QED
    BY <1>1, <2>1, <2>2
<1> HIDE DEF From
<1>8. \A i \in 1..(n + 1) : new[i] = d \/ \E j \in 1..n : new[i] = ks[j]
  BY <1>4, <1>5
<1>9. \A i \in 1..(n + 1) : IsDevice(new[i])
  BY <1>3, <1>8
<1>10. ToldApart(new)
  <2> SUFFICES ASSUME NEW i \in 1..(n + 1), NEW j \in 1..(n + 1), new[i].id = new[j].id, new[i].id # NoId
               PROVE  i = j
    BY <1>1 DEF ToldApart
  <2>1. CASE i = q /\ j # q
    BY <1>3, <1>4, <1>5, <2>1
  <2>2. CASE i # q /\ j = q
    BY <1>3, <1>4, <1>5, <2>2
  <2>3. CASE i # q /\ j # q
    BY <1>3, <1>4, <1>6, <2>3
  <2> QED
    BY <2>1, <2>2, <2>3
<1>11. \A j \in 1..n : \E i \in 1..(n + 1) : new[i] = ks[j]
  BY <1>4, <1>7
<1> QED
  BY <1>1, <1>5, <1>8, <1>9, <1>10, <1>11 DEF AreDevices, Extends, new, n

\* The keys that are devices of the page; what a device brings along is none.
Devices(ks) == {i \in 1..Len(ks) : ks[i].type \notin VirtualTypes}

LEMMA AppendCounts ==
  ASSUME NEW ks, AreDevices(ks), NEW d
  PROVE  /\ IsFiniteSet(Devices(ks))
         /\ Cardinality(Devices(AppendToKeyList(ks, d))) =
              IF d.type \in VirtualTypes THEN Cardinality(Devices(ks)) ELSE Cardinality(Devices(ks)) + 1
<1>1. PICK n \in Nat : n = Len(ks)
  BY ListFacts DEF AreDevices
<1>2. PICK new : new = AppendToKeyList(ks, d)
  OBVIOUS
<1>3. Len(new) = n + 1
  BY <1>1, <1>2, AppendedAt
<1>4. PICK q \in 1..(n + 1) : \A i \in 1..(n + 1) :
         new[i] = IF i < q THEN ks[i] ELSE IF i = q THEN d ELSE ks[i - 1]
  <2>1. \E q \in 1..(Len(ks) + 1) : \A i \in 1..(Len(ks) + 1) :
          new[i] = IF i < q THEN ks[i] ELSE IF i = q THEN d ELSE ks[i - 1]
    BY <1>2, AppendedAt
  <2> QED
    BY <1>1, <2>1, Zenon
<1>5. PICK A : A = Devices(ks)
  OBVIOUS
<1>6. A \subseteq 1..n /\ \A i \in 1..n : i \in A <=> ks[i].type \notin VirtualTypes
  BY <1>1, <1>5 DEF Devices
<1>7. PICK N : N = Devices(new)
  OBVIOUS
<1>8. N \subseteq 1..(n + 1) /\ \A i \in 1..(n + 1) : i \in N <=> new[i].type \notin VirtualTypes
  BY <1>3, <1>7 DEF Devices
<1>9. IsFiniteSet(A)
  <2>1. IsFiniteSet(1..n)
    BY <1>1, FS_Interval
  <2> QED
    BY <1>6, <2>1, FS_Subset
<1>10. PICK M : M = N \ {q}
  OBVIOUS
<1>11. PICK f : f = [i \in A |-> IF i < q THEN i ELSE i + 1]
  OBVIOUS
<1>12. ASSUME NEW i \in A PROVE f[i] \in M
  <2>1. i \in 1..n /\ ks[i].type \notin VirtualTypes
    BY <1>6
  <2>2. PICK j : j = f[i]
    OBVIOUS
  <2>3. j \in 1..(n + 1) /\ j # q /\ new[j] = ks[i]
    <3>1. CASE i < q
      <4>1. j = i /\ i \in 1..(n + 1)
        BY <1>1, <1>11, <2>1, <2>2, <3>1
      <4> QED
        BY <1>4, <3>1, <4>1
    <3>2. CASE ~(i < q)
      <4>1. j = i + 1 /\ j \in 1..(n + 1) /\ j - 1 = i /\ ~(j < q) /\ j # q
        BY <1>1, <1>11, <2>1, <2>2, <3>2
      <4> QED
        BY <1>4, <4>1
    <3> QED
      BY <3>1, <3>2
  <2> QED
    BY <1>8, <1>10, <2>1, <2>2, <2>3
<1>13. f \in [A -> M]
  BY <1>11, <1>12
<1>14. \A i, j \in A : f[i] = f[j] => i = j
  <2> SUFFICES ASSUME NEW i \in A, NEW j \in A, f[i] = f[j] PROVE i = j
    OBVIOUS
  <2>1. i \in 1..n /\ j \in 1..n
    BY <1>6
  <2>2. (IF i < q THEN i ELSE i + 1) = (IF j < q THEN j ELSE j + 1)
    BY <1>11
  <2>3. i \in Int /\ j \in Int /\ q \in Int
    BY <1>1, <2>1
  <2> QED
    BY <2>2, <2>3
<1>15. \A j \in M : \E i \in A : f[i] = j
  <2> TAKE j \in M
  <2>1. j \in 1..(n + 1) /\ j # q /\ new[j].type \notin VirtualTypes
    BY <1>8, <1>10
  <2>2. CASE j < q
    <3>1. j \in 1..n /\ new[j] = ks[j]
      BY <1>1, <1>4, <2>1, <2>2
    <3>2. j \in A
      BY <1>6, <2>1, <3>1
    <3>3. f[j] = j
      BY <1>11, <2>2, <3>2
    <3> QED
      BY <3>2, <3>3
  <2>3. CASE ~(j < q)
    <3>1. PICK i \in 1..n : i = j - 1
      BY <1>1, <2>1, <2>3
    <3>2. new[j] = ks[i]
      BY <1>4, <2>1, <2>3, <3>1
    <3>3. i \in A
      BY <1>6, <2>1, <3>2
    <3>4. ~(i < q) /\ i + 1 = j
      BY <1>1, <2>1, <2>3, <3>1
    <3>5. f[i] = j
      BY <1>11, <3>3, <3>4
    <3> QED
      BY <3>3, <3>5
  <2> QED
    BY <2>2, <2>3
<1>16. f \in Bijection(A, M)
  BY <1>13, <1>14, <1>15 DEF Bijection, Injection, Surjection, IsInjective
<1>17. ExistsBijection(A, M)
  BY <1>16 DEF ExistsBijection
<1>18. IsFiniteSet(M) /\ Cardinality(M) = Cardinality(A)
  BY <1>9, <1>17, FS_Bijection, Zenon
<1>19. CASE d.type \in VirtualTypes
  <2>1. q \notin N
    BY <1>4, <1>8, <1>19
  <2>2. M = N
    BY <1>10, <2>1
  <2> QED
    BY <1>2, <1>5, <1>7, <1>9, <1>18, <1>19, <2>2
<1>20. CASE d.type \notin VirtualTypes
  <2>1. q \in N
    BY <1>4, <1>8, <1>20
  <2>2. N = M \cup {q} /\ q \notin M
    BY <1>10, <2>1
  <2>3. Cardinality(N) = Cardinality(M) + 1
    BY <1>18, <2>2, FS_AddElement
  <2> QED
    BY <1>2, <1>5, <1>7, <1>9, <1>18, <1>20, <2>3
<1> QED
  BY <1>19, <1>20

LEMMA TypesApart == Types \cap VirtualTypes = {}
BY DEF Types, EzoTypes, VirtualTypes

LEMMA ChildFacts ==
  ASSUME NEW d, ChildType(d) # "NONE" PROVE IsDevice(ChildOf(d)) /\ ChildOf(d).id = NoId
<1>1. ChildType(d) \in VirtualTypes
  BY DEF ChildType, VirtualTypes
<1> QED
  BY <1>1, TypesApart DEF IsDevice, ChildOf, IsId, NoId, VirtualTypes

\* A device, and the key it brings along, which has no ID yet.
LEMMA WithDeviceFacts ==
  ASSUME NEW ks, AreDevices(ks), ToldApart(ks), NEW d, IsDevice(d),
         d.id = NoId \/ \A j \in 1..Len(ks) : ks[j].id # d.id
  PROVE  Extends(WithDevice(ks, d), ks, d)
<1> DEFINE added == AppendToKeyList(ks, d)
<1>1. Extends(added, ks, d)
  BY AppendFacts
<1> HIDE DEF added
<1>2. CASE ChildType(d) = "NONE"
  <2>1. WithDevice(ks, d) = added
    BY <1>2, Zenon DEF WithDevice, added
  <2> QED
    BY <1>1, <2>1
<1>3. CASE ChildType(d) # "NONE"
  <2>1. PICK c : c = ChildOf(d)
    OBVIOUS
  <2>3. IsDevice(c) /\ c.id = NoId
    BY <1>3, <2>1, ChildFacts
  <2>4. PICK both : both = AppendToKeyList(added, c)
    OBVIOUS
  <2>5. WithDevice(ks, d) = both
    BY <1>3, <2>1, <2>4, Zenon DEF WithDevice, added
  <2>6. AreDevices(added) /\ ToldApart(added)
    BY <1>1 DEF Extends
  <2>7. Extends(both, added, c)
    BY <2>3, <2>4, <2>6, AppendFacts, Zenon
  <2>8. AreDevices(both) /\ ToldApart(both)
    BY <2>7 DEF Extends
  <2>9. \A j \in 1..Len(ks) : \E i \in 1..Len(both) : both[i] = ks[j]
    BY <1>1, <2>7 DEF Extends
  <2>10. \E i \in 1..Len(both) : both[i] = d
    BY <1>1, <2>7 DEF Extends
  <2>11. \A i \in 1..Len(both) : both[i] = d \/ both[i].id = NoId \/ \E j \in 1..Len(ks) : both[i] = ks[j]
    <3> TAKE i \in 1..Len(both)
    <3>1. both[i] = c \/ both[i].id = NoId \/ \E j \in 1..Len(added) : both[i] = added[j]
      BY <2>7 DEF Extends
    <3>2. ASSUME NEW j \in 1..Len(added)
          PROVE  added[j] = d \/ added[j].id = NoId \/ \E k \in 1..Len(ks) : added[j] = ks[k]
      BY <1>1 DEF Extends
    <3> QED
      BY <2>3, <3>1, <3>2, Zenon
  <2> QED
    BY <2>5, <2>8, <2>9, <2>10, <2>11 DEF Extends
<1> QED
  BY <1>2, <1>3

LEMMA AppendIsTyped ==
  ASSUME NEW ks, AreDevices(ks), NEW d, IsDevice(d)
  PROVE  AreDevices(AppendToKeyList(ks, d))
<1>1. PICK new : new = AppendToKeyList(ks, d)
  OBVIOUS
<1>2. Len(ks) \in Nat /\ IsList(new) /\ Len(new) = Len(ks) + 1
  BY <1>1, ListFacts, AppendedAt DEF AreDevices
<1>3. PICK q \in 1..(Len(ks) + 1) : \A i \in 1..(Len(ks) + 1) :
         new[i] = IF i < q THEN ks[i] ELSE IF i = q THEN d ELSE ks[i - 1]
  BY <1>1, AppendedAt
<1>4. ASSUME NEW i \in 1..(Len(ks) + 1) PROVE IsDevice(new[i])
  <2>1. CASE i < q
    <3>1. i \in 1..Len(ks)
      BY <1>2, <2>1
    <3> QED
      BY <1>3, <2>1, <3>1 DEF AreDevices
  <2>2. CASE i = q
    BY <1>3, <2>2
  <2>3. CASE i > q
    <3>1. i - 1 \in 1..Len(ks) /\ ~(i < q) /\ i # q
      BY <1>2, <2>3
    <3> QED
      BY <1>3, <3>1 DEF AreDevices
  <2> QED
    BY <1>2, <2>1, <2>2, <2>3
<1> QED
  BY <1>1, <1>2, <1>4 DEF AreDevices

LEMMA WithDeviceIsTyped ==
  ASSUME NEW ks, AreDevices(ks), NEW d, IsDevice(d)
  PROVE  AreDevices(WithDevice(ks, d))
<1>1. PICK added : added = AppendToKeyList(ks, d)
  OBVIOUS
<1>2. AreDevices(added)
  BY <1>1, AppendIsTyped
<1>3. WithDevice(ks, d) = IF ChildType(d) = "NONE" THEN added ELSE AppendToKeyList(added, ChildOf(d))
  BY <1>1, Zenon DEF WithDevice
<1>4. ASSUME ChildType(d) # "NONE" PROVE AreDevices(AppendToKeyList(added, ChildOf(d)))
  <2>1. PICK c : c = ChildOf(d)
    OBVIOUS
  <2>2. IsDevice(c)
    BY <1>4, <2>1, ChildFacts
  <2> QED
    BY <1>2, <2>1, <2>2, AppendIsTyped
<1> QED
  BY <1>2, <1>3, <1>4

LEMMA WithDeviceCounts ==
  ASSUME NEW ks, AreDevices(ks), NEW d, IsDevice(d), d.type \in Types
  PROVE  IsFiniteSet(Devices(ks)) /\ Cardinality(Devices(WithDevice(ks, d))) = Cardinality(Devices(ks)) + 1
<1>1. PICK added : added = AppendToKeyList(ks, d)
  OBVIOUS
<1>2. AreDevices(added)
  BY <1>1, AppendIsTyped
<1>3. WithDevice(ks, d) = IF ChildType(d) = "NONE" THEN added ELSE AppendToKeyList(added, ChildOf(d))
  BY <1>1, Zenon DEF WithDevice
<1>4. d.type \notin VirtualTypes
  BY TypesApart
<1>5. IsFiniteSet(Devices(ks)) /\ Cardinality(Devices(added)) = Cardinality(Devices(ks)) + 1
  BY <1>1, <1>4, AppendCounts
<1>6. ASSUME ChildType(d) # "NONE"
      PROVE  Cardinality(Devices(AppendToKeyList(added, ChildOf(d)))) = Cardinality(Devices(added))
  <2>1. PICK c : c = ChildOf(d)
    OBVIOUS
  <2>2. c.type \in VirtualTypes
    BY <1>6, <2>1 DEF ChildOf, ChildType, VirtualTypes
  <2>3. Cardinality(Devices(AppendToKeyList(added, c))) = Cardinality(Devices(added))
    BY <1>2, <2>2, AppendCounts
  <2> QED
    BY <2>1, <2>3
<1> QED
  BY <1>3, <1>5, <1>6
-----------------------------------------------------------------------------
(***************************************************************************)
(* The parser.                                                             *)
(***************************************************************************)
AllSlots == Slots \cup {"role", "driver", "none"}

LEMMA SlotsHave == {"address", "role", "driver"} \subseteq AllSlots
BY DEF AllSlots, Slots, SlotOf

IsStaging(st) ==
  /\ st = [label |-> st.label, pending |-> st.pending, id |-> st.id, slot |-> st.slot]
  /\ st.pending \in Types \cup {"NONE"} /\ IsId(st.id)
  /\ DOMAIN st.slot = AllSlots
  /\ st.pending = "GPIO_PMP" => st.slot["role"] \in Roles
  /\ st.pending = "I2C_PRS" => st.slot["driver"] = "PTE7300"

IsParser(p) ==
  /\ p = [keys |-> p.keys, st |-> p.st, dead |-> p.dead] /\ p.dead \in BOOLEAN
  /\ AreDevices(p.keys) /\ IsStaging(p.st)

LEMMA NoStagingFacts ==
  /\ IsStaging(NoStaging) /\ NoStaging.label = NoLabel /\ NoStaging.id = NoId /\ NoStaging.pending = "NONE"
  /\ \A s \in AllSlots : NoStaging.slot[s] = Unset
<1>2. PICK none : none = [s \in AllSlots |-> Unset]
  OBVIOUS
<1>3. DOMAIN none = AllSlots /\ \A s \in AllSlots : none[s] = Unset
  BY <1>2
<1>4. NoStaging = [label |-> NoLabel, pending |-> "NONE", id |-> NoId, slot |-> none]
  BY <1>2 DEF NoStaging, AllSlots
<1>5. IsId(NoId)
  BY DEF IsId, NoId
<1> QED
  BY <1>3, <1>4, <1>5 DEF IsStaging

LEMMA ClearFacts ==
  ASSUME NEW st, IsStaging(st)
  PROVE  LET clear == ClearStaging(st)
         IN  /\ IsStaging(clear) /\ clear.label = NoLabel /\ clear.id = NoId /\ clear.pending = "NONE"
             /\ \A s \in AllSlots \ {"address"} : clear.slot[s] = Unset
<1>1. PICK none : none = NoStaging
  OBVIOUS
<1>2. /\ IsStaging(none) /\ none.label = NoLabel /\ none.id = NoId /\ none.pending = "NONE"
      /\ \A s \in AllSlots : none.slot[s] = Unset
  BY <1>1, NoStagingFacts
<1>3. PICK clear : clear = ClearStaging(st)
  OBVIOUS
<1>4. clear = [none EXCEPT !.slot["address"] = st.slot["address"]]
  BY <1>1, <1>3 DEF ClearStaging
<1>5. none = [label |-> none.label, pending |-> none.pending, id |-> none.id, slot |-> none.slot]
  BY <1>2 DEF IsStaging
<1>6. PICK slot : slot = [none.slot EXCEPT !["address"] = st.slot["address"]]
  OBVIOUS
<1>7. clear = [label |-> none.label, pending |-> none.pending, id |-> none.id, slot |-> slot]
  BY <1>4, <1>5, <1>6
<1>8. DOMAIN slot = AllSlots /\ \A s \in AllSlots \ {"address"} : slot[s] = Unset
  BY <1>2, <1>6 DEF IsStaging
<1>9. clear.label = NoLabel /\ clear.id = NoId /\ clear.pending = "NONE" /\ clear.slot = slot
  BY <1>2, <1>7
<1>10. IsStaging(clear)
  BY <1>2, <1>7, <1>8, <1>9 DEF IsStaging
<1> QED
  BY <1>3, <1>8, <1>9, <1>10

LEMMA TakenAre ==
  /\ \A t \in EzoTypes : Taken[t] = TakenByEzo[t]
  /\ Taken["MQTT_COND"] = TakenByConditions["MQTT_COND"]
  /\ Taken["GPIO_COND"] = TakenByConditions["GPIO_COND"]
  /\ Taken["I2C_PRS"] = TakenByI2c["I2C_PRS"]
  /\ Taken["MQTT_TEMP"] = TakenByMqtt["MQTT_TEMP"]
  /\ Taken["MQTT_VALUE"] = TakenByMqtt["MQTT_VALUE"]
  /\ Taken["D1W_TEMP"] = TakenByD1w["D1W_TEMP"]
  /\ Taken["GPIO_PMP"] = TakenByDoser["GPIO_PMP"]
  /\ Taken["GPIO_OUTPUT"] = TakenByGpio["GPIO_OUTPUT"]
  /\ Taken["GPIO_INPUT"] = TakenByGpio["GPIO_INPUT"]
  /\ Taken["SYSFS_VALUE"] = TakenBySysfs["SYSFS_VALUE"]
BY DEF Taken, TakenByConditions, TakenByEzo, TakenByI2c, TakenByMqtt, TakenByD1w, TakenByDoser,
       TakenByGpio, TakenBySysfs, EzoTypes, Types

\* Only a pump has a tank.
LEMMA TakenHasTank ==
  ASSUME NEW t \in Types, "tank_uom" \in DOMAIN Taken[t] PROVE t = "GPIO_PMP"
<1>1. PICK taken : taken = Taken[t]
  OBVIOUS
<1>2. CASE t \in EzoTypes
  BY <1>1, <1>2, TakenAre DEF TakenByEzo
<1>3. CASE t \notin EzoTypes
  BY <1>1, <1>3, TakenAre DEF TakenByConditions, TakenByI2c, TakenByMqtt, TakenByD1w, TakenByDoser, TakenByGpio,
                              TakenBySysfs, Types, EzoTypes
<1> QED
  BY <1>2, <1>3

LEMMA NewDeviceFacts ==
  ASSUME NEW st, IsStaging(st), st.pending # "NONE"
  PROVE  LET d == NewDevice(st)
         IN  /\ IsDevice(d) /\ d.label = st.label /\ d.type = st.pending /\ d.id = st.id
             /\ \A n \in DOMAIN Taken[st.pending] : d.at[n] = Held(st.pending, st, n)
<1>1. PICK at : at = [n \in DOMAIN Taken[st.pending] |-> Held(st.pending, st, n)]
  OBVIOUS
<1>2. NewDevice(st) = [label |-> st.label, type |-> st.pending, id |-> st.id, at |-> at]
  BY <1>1 DEF NewDevice
<1>3. ASSUME st.pending = "GPIO_PMP" PROVE "type" \in DOMAIN at /\ at["type"] \in Roles
  <2>1. Taken["GPIO_PMP"] = TakenByDoser["GPIO_PMP"]
    BY TakenAre
  <2>2. "type" \in DOMAIN Taken["GPIO_PMP"] /\ Taken["GPIO_PMP"]["type"] = "role"
    BY <2>1 DEF TakenByDoser
  <2>3. at["type"] = Held("GPIO_PMP", st, "type") /\ "type" \in DOMAIN at
    BY <1>1, <1>3, <2>2
  <2>4. Held("GPIO_PMP", st, "type") = st.slot["role"]
    BY <2>2 DEF Held, ScopeNames
  <2> QED
    BY <1>3, <2>3, <2>4 DEF IsStaging
<1>4. ASSUME st.pending = "I2C_PRS" PROVE "type" \in DOMAIN at /\ at["type"] = "PTE7300"
  <2>1. Taken["I2C_PRS"] = TakenByI2c["I2C_PRS"]
    BY TakenAre
  <2>2. "type" \in DOMAIN Taken["I2C_PRS"] /\ Taken["I2C_PRS"]["type"] = "driver"
    BY <2>1 DEF TakenByI2c
  <2>3. at["type"] = Held("I2C_PRS", st, "type") /\ "type" \in DOMAIN at
    BY <1>1, <1>4, <2>2
  <2>4. Held("I2C_PRS", st, "type") = st.slot["driver"]
    BY <2>2 DEF Held, ScopeNames
  <2> QED
    BY <1>4, <2>3, <2>4 DEF IsStaging
<1>5. PICK t \in Types : t = st.pending
  BY DEF IsStaging
<1>6. \A n \in DOMAIN at : Fits(t, n, at[n])
  <2> TAKE n \in DOMAIN at
  <2>1. PICK v : v = st.slot[Taken[t][n]]
    OBVIOUS
  <2>2. at[n] = Held(t, st, n)
    BY <1>1, <1>5
  <2>3. CASE n \in ScopeNames
    <3>1. at[n] = ValidScope(t, v)
      BY <2>1, <2>2, <2>3 DEF Held, ScopeNames
    <3>2. ValidScope(t, v) \in Scopes(t)
      BY DEF ValidScope, Scopes
    <3> QED
      BY <2>3, <3>1, <3>2 DEF Fits, ScopeNames
  <2>4. CASE n = "tank_uom"
    <3>1. t = "GPIO_PMP"
      <4>1. "tank_uom" \in DOMAIN Taken[t]
        BY <1>1, <1>5, <2>4
      <4> QED
        BY <4>1, TakenHasTank
    <3>2. at[n] \in {"gallons", "liters", Unset}
      BY <2>1, <2>2, <2>4, <3>1 DEF Held, ScopeNames
    <3> QED
      BY <2>4, <3>2 DEF Fits, ScopeNames
  <2>5. CASE n \notin ScopeNames /\ n # "tank_uom"
    BY <2>5 DEF Fits
  <2> QED
    BY <2>3, <2>4, <2>5
<1>7. PICK d : d = NewDevice(st)
  OBVIOUS
<1>8. /\ d = [label |-> d.label, type |-> d.type, id |-> d.id, at |-> d.at]
      /\ d.label = st.label /\ d.type = t /\ d.id = st.id /\ d.at = at
  BY <1>2, <1>5, <1>7
<1>9. HoldsTaken(d)
  BY <1>1, <1>5, <1>6, <1>8 DEF HoldsTaken
<1>10. IsDevice(d)
  BY <1>3, <1>4, <1>5, <1>8, <1>9 DEF IsDevice, IsStaging
<1> QED
  BY <1>1, <1>5, <1>7, <1>8, <1>10

-----------------------------------------------------------------------------
(***************************************************************************)
(* The parser reads one line after the other.                              *)
(***************************************************************************)
Read(p, ls) == FoldLeft(SetConfigValue, p, ls)

IsPath(path, p, ls) ==
  path[0] = p /\ \A k \in 1..Len(ls) : path[k] = SetConfigValue(path[k - 1], ls[k])

LEMMA ReadFacts ==
  ASSUME NEW ls, IsList(ls), NEW p
  PROVE  \E path : IsPath(path, p, ls) /\ path[Len(ls)] = Read(p, ls)
<1>1. PICK S : ls \in Seq(S)
  BY DEF IsList
<1>2. PICK path : /\ path[0] = p
                  /\ \A k \in 1..Len(ls) : path[k] = SetConfigValue(path[k - 1], ls[k])
                  /\ path[Len(ls)] = FoldLeft(SetConfigValue, p, ls)
  BY <1>1, LinesFold, Zenon
<1> QED
  BY <1>2, Zenon DEF IsPath, Read

LEMMA ReadIsPath ==
  ASSUME NEW ls, IsList(ls), NEW p, NEW path, IsPath(path, p, ls)
  PROVE  path[Len(ls)] = Read(p, ls)
<1>1. PICK own : IsPath(own, p, ls) /\ own[Len(ls)] = Read(p, ls)
  BY ReadFacts
<1>2. Len(ls) \in Nat
  BY ListFacts
<1> DEFINE T == {k \in 0..Len(ls) : own[k] # path[k]}
<1>3. 0 \notin T /\ T \in SUBSET (0..Len(ls))
  BY <1>1 DEF IsPath
<1>4. ASSUME NEW k \in 1..Len(ls), k - 1 \in 0..Len(ls), k - 1 \notin T PROVE k \notin T
  <2>1. own[k - 1] = path[k - 1]
    BY <1>4
  <2>2. own[k] = SetConfigValue(own[k - 1], ls[k]) /\ path[k] = SetConfigValue(path[k - 1], ls[k])
    BY <1>1, Zenon DEF IsPath
  <2>3. own[k] = path[k]
    BY <2>1, <2>2, Zenon
  <2> QED
    BY <2>3
<1> HIDE DEF T
<1>5. T = {}
  BY <1>2, <1>3, <1>4, FirstFailure
<1>6. Len(ls) \in 0..Len(ls)
  BY <1>2
<1> QED
  BY <1>1, <1>5, <1>6 DEF T

LEMMA ReadNone ==
  ASSUME NEW p PROVE Read(p, <<>>) = p
<1>1. PICK none : none = <<>>
  OBVIOUS
<1>2. IsList(none) /\ Len(none) = 0
  BY <1>1 DEF IsList
<1> DEFINE path == [k \in 0..0 |-> p]
<1>3. path[0] = p
  OBVIOUS
<1> HIDE DEF path
<1>4. IsPath(path, p, none)
  BY <1>2, <1>3 DEF IsPath
<1>5. path[Len(none)] = Read(p, none)
  BY <1>2, <1>4, ReadIsPath, Zenon
<1> QED
  BY <1>1, <1>2, <1>3, <1>5

LEMMA ReadOne ==
  ASSUME NEW p, NEW ls, IsList(ls), NEW l
  PROVE  Read(p, Append(ls, l)) = SetConfigValue(Read(p, ls), l) /\ IsList(Append(ls, l))
<1>1. PICK S : ls \in Seq(S)
  BY DEF IsList
<1>2. PICK n \in Nat : n = Len(ls)
  BY <1>1
<1>3. PICK old : IsPath(old, p, ls) /\ old[n] = Read(p, ls)
  BY <1>2, ReadFacts
<1>4. PICK all : all = Append(ls, l)
  OBVIOUS
<1>5. all \in Seq(S \cup {l}) /\ Len(all) = n + 1 /\ all[n + 1] = l /\ \A k \in 1..n : all[k] = ls[k]
  BY <1>1, <1>2, <1>4
<1> DEFINE last == SetConfigValue(old[n], l)
           path == [k \in 0..(n + 1) |-> IF k <= n THEN old[k] ELSE last]
<1>6. /\ path[0] = old[0] /\ path[n] = old[n] /\ path[n + 1] = last
      /\ \A k \in 1..n : path[k] = old[k] /\ path[k - 1] = old[k - 1]
  OBVIOUS
<1>7. last = SetConfigValue(old[n], l)
  OBVIOUS
<1> HIDE DEF path, last
<1>8. path[0] = p
  BY <1>3, <1>6 DEF IsPath
<1>9. ASSUME NEW k \in 1..(n + 1) PROVE path[k] = SetConfigValue(path[k - 1], all[k])
  <2>1. CASE k = n + 1
    <3>1. k - 1 = n
      BY <2>1
    <3> QED
      BY <1>5, <1>6, <1>7, <2>1, <3>1, Zenon
  <2>2. CASE k # n + 1
    <3>1. k \in 1..n /\ k \in 1..Len(ls)
      BY <1>2, <2>2
    <3>2. old[k] = SetConfigValue(old[k - 1], ls[k])
      BY <1>3, <3>1 DEF IsPath
    <3> QED
      BY <1>5, <1>6, <3>1, <3>2, Zenon
  <2> QED
    BY <2>1, <2>2
<1>10. IsPath(path, p, all) /\ IsList(all)
  BY <1>5, <1>8, <1>9 DEF IsPath, IsList
<1>11. path[Len(all)] = Read(p, all)
  BY <1>10, ReadIsPath
<1> QED
  BY <1>3, <1>4, <1>5, <1>6, <1>7, <1>10, <1>11, Zenon

LEMMA ReadBoth ==
  ASSUME NEW p, NEW a, IsList(a), NEW b, IsList(b)
  PROVE  Read(p, a \o b) = Read(Read(p, a), b) /\ IsList(a \o b)
<1>1. PICK S : a \in Seq(S)
  BY DEF IsList
<1>2. PICK T : b \in Seq(T)
  BY DEF IsList
<1>3. PICK m \in Nat : m = Len(a)
  BY <1>1
<1>4. PICK n \in Nat : n = Len(b)
  BY <1>2
<1>5. PICK one : IsPath(one, p, a) /\ one[m] = Read(p, a)
  BY <1>3, ReadFacts
<1>6. PICK two : IsPath(two, one[m], b) /\ two[n] = Read(one[m], b)
  BY <1>4, ReadFacts
<1>7. PICK all : all = a \o b
  OBVIOUS
<1>8. /\ all \in Seq(S \cup T) /\ Len(all) = m + n
      /\ \A k \in 1..(m + n) : all[k] = IF k <= m THEN a[k] ELSE b[k - m]
  <2>1. a \in Seq(S \cup T) /\ b \in Seq(S \cup T)
    BY <1>1, <1>2
  <2> QED
    BY <1>3, <1>4, <1>7, <2>1
<1> DEFINE path == [k \in 0..(m + n) |-> IF k <= m THEN one[k] ELSE two[k - m]]
<1>9. \A k \in 0..(m + n) : path[k] = IF k <= m THEN one[k] ELSE two[k - m]
  OBVIOUS
<1> HIDE DEF path
<1>10. path[0] = p
  BY <1>5, <1>9 DEF IsPath
<1>11. two[0] = one[m]
  BY <1>6 DEF IsPath
<1>12. ASSUME NEW k \in 1..(m + n) PROVE path[k] = SetConfigValue(path[k - 1], all[k])
  <2>1. CASE k <= m
    <3>1. k \in 1..Len(a) /\ k - 1 \in 0..(m + n) /\ k - 1 <= m
      BY <1>3, <2>1
    <3>2. one[k] = SetConfigValue(one[k - 1], a[k])
      BY <1>5, <3>1 DEF IsPath
    <3>3. path[k] = one[k] /\ path[k - 1] = one[k - 1] /\ all[k] = a[k]
      BY <1>8, <1>9, <2>1, <3>1
    <3> QED
      BY <3>2, <3>3, Zenon
  <2>2. CASE ~(k <= m)
    <3>1. k - m \in 1..Len(b) /\ k - 1 \in 0..(m + n)
      BY <1>4, <2>2
    <3>2. two[k - m] = SetConfigValue(two[(k - m) - 1], b[k - m])
      BY <1>6, <3>1 DEF IsPath
    <3>3. path[k] = two[k - m] /\ all[k] = b[k - m]
      BY <1>8, <1>9, <2>2
    <3>4. path[k - 1] = two[(k - m) - 1]
      <4>1. CASE k = m + 1
        <5>1. k - 1 = m /\ (k - m) - 1 = 0
          BY <4>1
        <5>2. path[m] = one[m]
          BY <1>9
        <5> QED
          BY <1>11, <5>1, <5>2
      <4>2. CASE k # m + 1
        <5>1. ~(k - 1 <= m) /\ (k - 1) - m = (k - m) - 1
          BY <2>2, <4>2
        <5> QED
          BY <1>9, <3>1, <5>1
      <4> QED
        BY <4>1, <4>2
    <3> QED
      BY <3>2, <3>3, <3>4, Zenon
  <2> QED
    BY <2>1, <2>2
<1>13. IsPath(path, p, all) /\ IsList(all)
  BY <1>8, <1>10, <1>12 DEF IsPath, IsList
<1>14. path[Len(all)] = Read(p, all)
  BY <1>13, ReadIsPath
<1>15. path[m + n] = two[n]
  <2>1. CASE n = 0
    BY <1>9, <1>11, <2>1
  <2>2. CASE n # 0
    <3>1. ~(m + n <= m) /\ (m + n) - m = n
      BY <2>2
    <3> QED
      BY <1>9, <3>1
  <2> QED
    BY <2>1, <2>2
<1> QED
  BY <1>5, <1>6, <1>7, <1>8, <1>13, <1>14, <1>15, Zenon

LEMMA ParserWith ==
  ASSUME NEW p, IsParser(p), NEW st, IsStaging(st), NEW q, q = [p EXCEPT !.st = st]
  PROVE  IsParser(q) /\ q.st = st /\ q.keys = p.keys /\ q.dead = p.dead
<1>1. q = [keys |-> p.keys, st |-> st, dead |-> p.dead]
  BY DEF IsParser
<1>2. q.st = st /\ q.keys = p.keys /\ q.dead = p.dead
  BY <1>1
<1> QED
  BY <1>1, <1>2 DEF IsParser

\* action_staging() leaves nothing staged, or the daemon dead.
LEMMA ActionFacts ==
  ASSUME NEW p, IsParser(p)
  PROVE  LET q == ActionStaging(p)
         IN  IsParser(q) /\ (p.dead => q = p) /\ (~q.dead => q.st.label = NoLabel)
<1>1. PICK clear : clear = ClearStaging(p.st)
  OBVIOUS
<1>2. IsStaging(clear) /\ clear.label = NoLabel
  BY <1>1, ClearFacts DEF IsParser
<1>3. CASE p.dead \/ p.st.label = NoLabel
  <2>1. ActionStaging(p) = p
    BY <1>3 DEF ActionStaging
  <2> QED
    BY <1>3, <2>1
<1>4. CASE ~(p.dead \/ p.st.label = NoLabel) /\ p.st.pending = "NONE"
  <2>1. PICK q : q = [p EXCEPT !.st = clear]
    OBVIOUS
  <2>2. ActionStaging(p) = q
    BY <1>1, <1>4, <2>1 DEF ActionStaging
  <2>3. IsParser(q) /\ q.st = clear
    BY <1>2, <2>1, ParserWith
  <2> QED
    BY <1>2, <1>4, <2>2, <2>3
<1>5. CASE ~(p.dead \/ p.st.label = NoLabel) /\ p.st.pending # "NONE" /\ EndsTheDaemon(p.st)
  <2>1. ActionStaging(p) = [p EXCEPT !.dead = TRUE]
    BY <1>5 DEF ActionStaging
  <2>2. PICK q : q = [p EXCEPT !.dead = TRUE]
    OBVIOUS
  <2>3. q = [keys |-> p.keys, st |-> p.st, dead |-> TRUE]
    BY <2>2 DEF IsParser
  <2>4. q.keys = p.keys /\ q.st = p.st /\ q.dead = TRUE
    BY <2>3
  <2>5. IsParser(q)
    BY <2>3, <2>4 DEF IsParser
  <2> QED
    BY <1>5, <2>1, <2>2, <2>4, <2>5
<1>6. CASE ~(p.dead \/ p.st.label = NoLabel) /\ p.st.pending # "NONE" /\ ~EndsTheDaemon(p.st)
  <2>1. PICK keysNow : keysNow = WithDevice(p.keys, NewDevice(p.st))
    OBVIOUS
  <2>2. PICK d : d = NewDevice(p.st)
    OBVIOUS
  <2>3. IsDevice(d)
    BY <1>6, <2>2, NewDeviceFacts DEF IsParser
  <2>4. AreDevices(keysNow)
    BY <2>1, <2>2, <2>3, WithDeviceIsTyped DEF IsParser
  <2>5. ActionStaging(p) = [p EXCEPT !.keys = keysNow, !.st = clear]
    BY <1>1, <1>6, <2>1 DEF ActionStaging
  <2>6. PICK q : q = [p EXCEPT !.keys = keysNow, !.st = clear]
    OBVIOUS
  <2>7. q = [keys |-> keysNow, st |-> clear, dead |-> p.dead]
    BY <2>6 DEF IsParser
  <2>8. q.keys = keysNow /\ q.st = clear /\ q.dead = p.dead
    BY <2>7
  <2>9. IsParser(q)
    BY <1>2, <2>4, <2>7, <2>8 DEF IsParser
  <2> QED
    BY <1>2, <1>6, <2>5, <2>6, <2>8, <2>9
<1> QED
  BY <1>3, <1>4, <1>5, <1>6

LEMMA KnownFacts ==
  ASSUME NEW line, Known(line)
  PROVE  /\ line.name \in {"label", "type", "ID"} \/ line.name \in DOMAIN SlotOf
         /\ line.name = "type" =>
              line.pre \in {"ph_sensor", "orp_sensor", "prs_sensor", "temp_sensor", "gpio_doser"}
<1>1. PICK pre : pre = line.pre
  OBVIOUS
<1>2. PICK name : name = line.name
  OBVIOUS
<1>3. pre \in DOMAIN KnownNames /\ name \in KnownNames[pre]
  BY <1>1, <1>2 DEF Known
<1>4. pre \in {"mqtt_condition", "gpio_condition", "ph_sensor", "orp_sensor", "prs_sensor", "mqtt_sensor",
               "temp_sensor", "gpio_doser", "gpio_input", "gpio_output", "sysfs_sensor"}
  BY <1>3 DEF KnownNames
<1>5. name = "type" => pre \in {"ph_sensor", "orp_sensor", "prs_sensor", "temp_sensor", "gpio_doser"}
  BY <1>3, <1>4 DEF KnownNames
<1>6. name \in {"label", "type", "ID"} \/ name \in DOMAIN SlotOf
  BY <1>3, <1>4 DEF KnownNames, SlotOf
<1> QED
  BY <1>1, <1>2, <1>5, <1>6

LEMMA SlotFacts ==
  ASSUME NEW name \in DOMAIN SlotOf PROVE SlotOf[name] \notin {"role", "driver"}
BY DEF SlotOf

\* The slots that only the line of a field writes.
FieldSlots == AllSlots \ {"address", "role", "driver"}

\* What a line of a type says, by its word.
TypedBy(r, st, line) ==
  /\ line.val = "d1w" => r.pending = "D1W_TEMP"
  /\ line.val = "mqtt" => r.pending = "MQTT_TEMP"
  /\ line.val = "ezo" => \A t \in EzoTypes : Prefix[t] = line.pre => r.pending = t
  /\ line.pre = "gpio_doser" /\ line.val \notin {"ezo", "d1w", "mqtt"} => r.pending = "GPIO_PMP"
  /\ line.pre # "gpio_doser" /\ line.val = "PTE7300" => r.pending = "I2C_PRS"
  /\ line.pre # "gpio_doser" /\ line.val = "HSC/SSC" => r.pending = st.pending
  /\ line.pre = "gpio_doser" /\ line.val \in Roles => r.slot["role"] = line.val
  /\ \A s \in FieldSlots : r.slot[s] = st.slot[s]

LEMMA EzoPrefix ==
  /\ Prefix["EZO_PH"] = "ph_sensor" /\ Prefix["EZO_ORP"] = "orp_sensor"
  /\ Prefix["EZO_PRS"] = "prs_sensor" /\ Prefix["EZO_TEMP"] = "temp_sensor"
BY DEF Prefix, Types, EzoTypes

Restaged(st, type, slot) == [st EXCEPT !.pending = type, !.slot = slot]

MayStage(st, type, slot) ==
  /\ type \in Types \cup {"NONE"} /\ DOMAIN slot = DOMAIN st.slot
  /\ type = "GPIO_PMP" => slot["role"] \in Roles
  /\ type = "I2C_PRS" => slot["driver"] = "PTE7300"

StagedAs(r, st, type, slot) ==
  IsStaging(r) /\ r.label = st.label /\ r.id = st.id /\ r.pending = type /\ r.slot = slot

LEMMA StagedWith ==
  ASSUME NEW st, IsStaging(st), NEW type, NEW slot, MayStage(st, type, slot)
  PROVE  StagedAs(Restaged(st, type, slot), st, type, slot)
<1>1. PICK r : r = Restaged(st, type, slot)
  OBVIOUS
<1>2. r = [label |-> st.label, pending |-> type, id |-> st.id, slot |-> slot]
  BY <1>1 DEF Restaged, IsStaging
<1>3. r.label = st.label /\ r.id = st.id /\ r.pending = type /\ r.slot = slot
  BY <1>2
<1>4. IsStaging(r)
  BY <1>2, <1>3 DEF IsStaging, MayStage
<1> QED
  BY <1>1, <1>3, <1>4 DEF StagedAs

LEMMA TypeLineFacts ==
  ASSUME NEW st, IsStaging(st), NEW line, Known(line), line.name = "type"
  PROVE  LET r == TypeLine(st, line)
         IN  IsStaging(r) /\ r.label = st.label /\ r.id = st.id /\ TypedBy(r, st, line)
<1>1. line.pre \in {"ph_sensor", "orp_sensor", "prs_sensor", "temp_sensor", "gpio_doser"}
  BY KnownFacts
<1>2. st = [label |-> st.label, pending |-> st.pending, id |-> st.id, slot |-> st.slot]
      /\ st.pending \in Types \cup {"NONE"}
  BY DEF IsStaging
<1>3. \A t \in EzoTypes : Prefix[t] = line.pre => line.pre # "gpio_doser"
  BY EzoPrefix DEF EzoTypes
<1>4. CASE line.val = "ezo" /\ line.pre = "gpio_doser"
  <2>1. TypeLine(st, line) = st
    BY <1>4 DEF TypeLine
  <2> QED
    BY <1>3, <1>4, <2>1 DEF TypedBy, Roles
<1>5. CASE line.val = "ezo" /\ line.pre # "gpio_doser"
  <2> DEFINE type == CHOOSE t \in EzoTypes : Prefix[t] = line.pre
  <2>1. \E t \in EzoTypes : Prefix[t] = line.pre
    BY <1>1, <1>5, EzoPrefix DEF EzoTypes
  <2>2. type \in EzoTypes /\ Prefix[type] = line.pre
    BY <2>1
  <2>3. PICK slot : slot = [st.slot EXCEPT !["address"] = Unset]
    OBVIOUS
  <2>4. DOMAIN slot = DOMAIN st.slot /\ \A s \in FieldSlots : slot[s] = st.slot[s]
    BY <2>3 DEF FieldSlots, IsStaging
  <2>5. TypeLine(st, line) = [st EXCEPT !.pending = type, !.slot["address"] = Unset]
    BY <1>5 DEF TypeLine
  <2> HIDE DEF type
  <2>6. PICK r : r = Restaged(st, type, slot)
    OBVIOUS
  <2>7. TypeLine(st, line) = r
    BY <1>2, <2>3, <2>5, <2>6 DEF Restaged
  <2>8. type \in Types /\ type # "GPIO_PMP" /\ type # "I2C_PRS"
    BY <2>2 DEF Types, EzoTypes
  <2>9. MayStage(st, type, slot)
    BY <2>4, <2>8 DEF MayStage
  <2>11. StagedAs(r, st, type, slot)
    BY <2>6, <2>9, StagedWith
  <2>10. \A t \in EzoTypes : Prefix[t] = line.pre => type = t
    BY <2>2, EzoPrefix DEF EzoTypes
  <2> QED
    BY <1>5, <2>4, <2>7, <2>10, <2>11 DEF TypedBy, StagedAs
<1>6. ASSUME NEW type \in {"D1W_TEMP", "MQTT_TEMP"},
             type = IF line.val = "d1w" THEN "D1W_TEMP" ELSE "MQTT_TEMP",
             line.val \in {"d1w", "mqtt"}
      PROVE  IsStaging(TypeLine(st, line)) /\ TypeLine(st, line).label = st.label
             /\ TypeLine(st, line).id = st.id /\ TypedBy(TypeLine(st, line), st, line)
  <2>1. TypeLine(st, line) = [st EXCEPT !.pending = type]
    BY <1>6 DEF TypeLine
  <2>2. PICK r : r = Restaged(st, type, st.slot)
    OBVIOUS
  <2>3. TypeLine(st, line) = r
    BY <1>2, <2>1, <2>2 DEF Restaged
  <2>4. type \in Types /\ type # "GPIO_PMP" /\ type # "I2C_PRS"
    BY DEF Types
  <2>5. MayStage(st, type, st.slot)
    BY <2>4 DEF MayStage
  <2>6. StagedAs(r, st, type, st.slot)
    BY <2>2, <2>5, StagedWith
  <2> QED
    BY <1>6, <2>3, <2>6 DEF TypedBy, StagedAs, Roles
<1>7. CASE line.pre = "gpio_doser" /\ line.val \notin {"ezo", "d1w", "mqtt"}
  <2>1. PICK role : role = IF line.val \in {"ORP", "H2O"} THEN line.val ELSE "pH"
    OBVIOUS
  <2>2. role \in Roles
    BY <2>1 DEF Roles
  <2>3. PICK slot : slot = [st.slot EXCEPT !["role"] = role]
    OBVIOUS
  <2>4. DOMAIN slot = DOMAIN st.slot /\ slot["role"] = role /\ \A s \in FieldSlots : slot[s] = st.slot[s]
    BY <2>3, SlotsHave DEF IsStaging, FieldSlots
  <2>5. TypeLine(st, line) = [st EXCEPT !.pending = "GPIO_PMP", !.slot["role"] = role]
    BY <1>7, <2>1 DEF TypeLine
  <2>6. PICK r : r = Restaged(st, "GPIO_PMP", slot)
    OBVIOUS
  <2>7. TypeLine(st, line) = r
    BY <1>2, <2>3, <2>5, <2>6 DEF Restaged
  <2>8. "GPIO_PMP" \in Types
    BY DEF Types
  <2>9. MayStage(st, "GPIO_PMP", slot)
    BY <2>2, <2>4, <2>8 DEF MayStage
  <2>10. StagedAs(r, st, "GPIO_PMP", slot)
    BY <2>6, <2>9, StagedWith
  <2> QED
    BY <1>7, <2>1, <2>4, <2>7, <2>10 DEF TypedBy, StagedAs, Roles
<1>8. CASE line.pre # "gpio_doser" /\ line.val = "PTE7300"
  <2>1. PICK slot : slot = [st.slot EXCEPT !["driver"] = "PTE7300", !["address"] = Unset]
    OBVIOUS
  <2>2. DOMAIN slot = DOMAIN st.slot /\ slot["driver"] = "PTE7300" /\ \A s \in FieldSlots : slot[s] = st.slot[s]
    BY <2>1, SlotsHave DEF IsStaging, FieldSlots
  <2>3. TypeLine(st, line) =
          [st EXCEPT !.pending = "I2C_PRS", !.slot["driver"] = "PTE7300", !.slot["address"] = Unset]
    BY <1>8 DEF TypeLine
  <2>4. PICK r : r = Restaged(st, "I2C_PRS", slot)
    OBVIOUS
  <2>5. TypeLine(st, line) = r
    BY <1>2, <2>1, <2>3, <2>4 DEF Restaged
  <2>6. "I2C_PRS" \in Types
    BY DEF Types
  <2>7. MayStage(st, "I2C_PRS", slot)
    BY <2>2, <2>6 DEF MayStage
  <2>8. StagedAs(r, st, "I2C_PRS", slot)
    BY <2>4, <2>7, StagedWith
  <2> QED
    BY <1>8, <2>2, <2>5, <2>8 DEF TypedBy, StagedAs
<1>9. CASE line.pre # "gpio_doser" /\ line.val \notin {"ezo", "d1w", "mqtt", "PTE7300"}
  <2>1. TypeLine(st, line) = st
    BY <1>9 DEF TypeLine
  <2> QED
    BY <1>9, <2>1 DEF TypedBy
<1>10. CASE line.val \in {"d1w", "mqtt"}
  BY <1>6, <1>10
<1> QED
  BY <1>4, <1>5, <1>7, <1>8, <1>9, <1>10

LEMMA FieldLineFacts ==
  ASSUME NEW st, IsStaging(st), NEW line, Known(line), line.name \notin {"label", "type", "ID"}
  PROVE  LET r == FieldLine(st, line)
         IN  /\ IsStaging(r) /\ r.label = st.label /\ r.id = st.id /\ r.pending = PendingBy(st, line)
             /\ r.slot = [st.slot EXCEPT ![SlotOf[line.name]] = line.val]
<1>1. PICK type : type = PendingBy(st, line)
  OBVIOUS
<1>2. PICK s : s = SlotOf[line.name]
  OBVIOUS
<1>3. s \notin {"role", "driver"}
  BY <1>2, KnownFacts, SlotFacts
<1>4. PICK slot : slot = [st.slot EXCEPT ![s] = line.val]
  OBVIOUS
<1>5. DOMAIN slot = DOMAIN st.slot /\ slot["role"] = st.slot["role"] /\ slot["driver"] = st.slot["driver"]
  BY <1>3, <1>4, SlotsHave DEF IsStaging
<1>6. /\ st = [label |-> st.label, pending |-> st.pending, id |-> st.id, slot |-> st.slot]
      /\ st.pending \in Types \cup {"NONE"}
  BY DEF IsStaging
<1>7. type = st.pending \/ type \in {"MQTT_VALUE", "MQTT_COND", "SYSFS_VALUE", "GPIO_COND"}
  BY <1>1 DEF PendingBy
<1>8. type \in Types \cup {"NONE"}
  BY <1>6, <1>7 DEF Types
<1>9. type = "GPIO_PMP" => slot["role"] \in Roles
  BY <1>5, <1>7 DEF IsStaging
<1>10. type = "I2C_PRS" => slot["driver"] = "PTE7300"
  BY <1>5, <1>7 DEF IsStaging
<1>11. PICK r : r = Restaged(st, type, slot)
  OBVIOUS
<1>12. FieldLine(st, line) = [st EXCEPT !.slot[s] = line.val, !.pending = type]
  BY <1>1, <1>2 DEF FieldLine
<1>13. FieldLine(st, line) = r
  BY <1>4, <1>6, <1>11, <1>12 DEF Restaged
<1>14. MayStage(st, type, slot)
  BY <1>5, <1>8, <1>9, <1>10 DEF MayStage
<1>15. StagedAs(r, st, type, slot)
  BY <1>11, <1>14, StagedWith
<1> QED
  BY <1>1, <1>2, <1>4, <1>13, <1>15 DEF StagedAs

LEMMA LabelLineFacts ==
  ASSUME NEW p, IsParser(p), NEW line
  PROVE  LET q == LabelLine(p, line)
         IN  /\ IsParser(q) /\ q.keys = ActionStaging(p).keys /\ q.dead = ActionStaging(p).dead
             /\ q.st.label = line.val /\ q.st.id = NoId /\ q.st.pending = LabelType(line.pre)
             /\ \A s \in AllSlots \ {"address"} : q.st.slot[s] = Unset
<1>1. PICK a : a = ActionStaging(p)
  OBVIOUS
<1>2. IsParser(a)
  BY <1>1, ActionFacts
<1>3. PICK clear : clear = ClearStaging(a.st)
  OBVIOUS
<1>4. IsStaging(clear) /\ clear.id = NoId /\ \A s \in AllSlots \ {"address"} : clear.slot[s] = Unset
  BY <1>2, <1>3, ClearFacts DEF IsParser
<1>5. PICK type : type = LabelType(line.pre)
  OBVIOUS
<1>6. type \in Types \cup {"NONE"} /\ type # "GPIO_PMP" /\ type # "I2C_PRS"
  BY <1>5 DEF LabelType, Types
<1>7. PICK st : st = [clear EXCEPT !.label = line.val, !.pending = type]
  OBVIOUS
<1>8. st = [label |-> line.val, pending |-> type, id |-> clear.id, slot |-> clear.slot]
  BY <1>4, <1>7 DEF IsStaging
<1>9. st.label = line.val /\ st.pending = type /\ st.id = NoId /\ st.slot = clear.slot
  BY <1>4, <1>8
<1>10. IsStaging(st)
  BY <1>4, <1>6, <1>8, <1>9 DEF IsStaging
<1>11. PICK q : q = [a EXCEPT !.st = st]
  OBVIOUS
<1>12. LabelLine(p, line) = q
  BY <1>1, <1>3, <1>5, <1>7, <1>11 DEF LabelLine
<1>13. IsParser(q) /\ q.st = st /\ q.keys = a.keys /\ q.dead = a.dead
  BY <1>2, <1>10, <1>11, ParserWith
<1> QED
  BY <1>1, <1>4, <1>5, <1>9, <1>12, <1>13

\* The ID of a line is the number of a family, or nothing.
GoodLine(line) == line.name = "ID" => line.val = Unset \/ IsId(line.val)

LEMMA IdLineFacts ==
  ASSUME NEW st, IsStaging(st), NEW id, IsId(id)
  PROVE  LET r == [st EXCEPT !.id = id]
         IN  IsStaging(r) /\ r.label = st.label /\ r.id = id /\ r.pending = st.pending /\ r.slot = st.slot
<1>1. PICK r : r = [st EXCEPT !.id = id]
  OBVIOUS
<1>2. r = [label |-> st.label, pending |-> st.pending, id |-> id, slot |-> st.slot]
  BY <1>1 DEF IsStaging
<1>3. r.label = st.label /\ r.id = id /\ r.pending = st.pending /\ r.slot = st.slot
  BY <1>2
<1>4. IsStaging(r)
  BY <1>2, <1>3 DEF IsStaging
<1> QED
  BY <1>1, <1>3, <1>4

LEMMA LineIsTyped ==
  ASSUME NEW p, IsParser(p), NEW line, GoodLine(line)
  PROVE  IsParser(SetConfigValue(p, line))
<1>1. CASE p.dead \/ ~Known(line) \/ (line.val = Unset /\ line.name \notin Numbers)
  <2>1. SetConfigValue(p, line) = p
    BY <1>1 DEF SetConfigValue
  <2> QED
    BY <2>1
<1>2. CASE ~(p.dead \/ ~Known(line) \/ (line.val = Unset /\ line.name \notin Numbers))
  <2>1. CASE line.name = "label"
    <3>1. SetConfigValue(p, line) = LabelLine(p, line)
      BY <1>2, <2>1 DEF SetConfigValue
    <3> QED
      BY <3>1, LabelLineFacts
  <2>2. CASE line.name = "type"
    <3>1. PICK st : st = TypeLine(p.st, line)
      OBVIOUS
    <3>2. IsStaging(st)
      BY <1>2, <2>2, <3>1, TypeLineFacts DEF IsParser
    <3>3. PICK q : q = [p EXCEPT !.st = st]
      OBVIOUS
    <3>4. SetConfigValue(p, line) = q
      BY <1>2, <2>2, <3>1, <3>3 DEF SetConfigValue
    <3> QED
      BY <3>2, <3>3, <3>4, ParserWith
  <2>3. CASE line.name = "ID"
    <3>1. PICK st : st = [p.st EXCEPT !.id = line.val]
      OBVIOUS
    <3>2. IsId(line.val)
      BY <1>2, <2>3 DEF GoodLine, Numbers
    <3>3. IsStaging(st)
      BY <3>1, <3>2, IdLineFacts DEF IsParser
    <3>4. PICK q : q = [p EXCEPT !.st = st]
      OBVIOUS
    <3>5. SetConfigValue(p, line) = q
      <4>1. SetConfigValue(p, line) = [p EXCEPT !.st.id = line.val]
        BY <1>2, <2>3 DEF SetConfigValue
      <4>2. p = [keys |-> p.keys, st |-> p.st, dead |-> p.dead]
        BY DEF IsParser
      <4> QED
        BY <3>1, <3>4, <4>1, <4>2
    <3> QED
      BY <3>3, <3>4, <3>5, ParserWith
  <2>4. CASE line.name \notin {"label", "type", "ID"}
    <3>1. PICK st : st = FieldLine(p.st, line)
      OBVIOUS
    <3>2. IsStaging(st)
      BY <1>2, <2>4, <3>1, FieldLineFacts DEF IsParser
    <3>3. PICK q : q = [p EXCEPT !.st = st]
      OBVIOUS
    <3>4. SetConfigValue(p, line) = q
      BY <1>2, <2>4, <3>1, <3>3 DEF SetConfigValue
    <3> QED
      BY <3>2, <3>3, <3>4, ParserWith
  <2> QED
    BY <2>1, <2>2, <2>3, <2>4
<1> QED
  BY <1>1, <1>2

\* What holds of the parser before some lines, and after each of them, holds when they are read.
\* `rule' says what that is; it is no operator, so that it can be cited.
Ruled(rule, p, of) ==
  IF rule = "typed" THEN IsParser(p) ELSE p = of
LineRule(rule, p, line, of) ==
  CASE rule = "typed" -> GoodLine(line)
    [] rule = "dead" -> of.dead
    [] rule = "parameters" -> line.pre = ""

LEMMA ReadRule ==
  ASSUME NEW rule \in {"typed", "dead", "parameters"}, NEW p, Ruled(rule, p, p), NEW ls, IsList(ls),
         \A k \in 1..Len(ls) : LineRule(rule, p, ls[k], p)
  PROVE  Ruled(rule, Read(p, ls), p)
<1>1. PICK n \in Nat : n = Len(ls)
  BY ListFacts
<1>2. PICK path : IsPath(path, p, ls) /\ path[n] = Read(p, ls)
  BY <1>1, ReadFacts
<1> DEFINE T == {k \in 0..n : ~Ruled(rule, path[k], p)}
<1>3. 0 \notin T /\ T \in SUBSET (0..n)
  BY <1>2 DEF IsPath
<1>4. ASSUME NEW k \in 1..n, k - 1 \in 0..n, k - 1 \notin T PROVE k \notin T
  <2>1. PICK line : line = ls[k]
    OBVIOUS
  <2>2. PICK old : old = path[k - 1]
    OBVIOUS
  <2>3. path[k] = SetConfigValue(old, line) /\ LineRule(rule, p, line, p)
    BY <1>1, <1>2, <2>1, <2>2 DEF IsPath
  <2>4. Ruled(rule, old, p)
    BY <1>4, <2>2
  <2>5. CASE rule = "typed"
    <3>1. IsParser(old) /\ GoodLine(line)
      BY <2>3, <2>4, <2>5 DEF Ruled, LineRule
    <3>2. IsParser(SetConfigValue(old, line))
      BY <3>1, LineIsTyped
    <3> QED
      BY <2>3, <2>5, <3>2 DEF Ruled
  <2>6. CASE rule = "dead"
    <3>1. old = p /\ p.dead
      BY <2>3, <2>4, <2>6 DEF Ruled, LineRule
    <3>2. SetConfigValue(old, line) = p
      BY <3>1 DEF SetConfigValue
    <3> QED
      BY <2>3, <2>6, <3>2 DEF Ruled
  <2>7. CASE rule = "parameters"
    <3>1. old = p /\ line.pre = ""
      BY <2>3, <2>4, <2>7 DEF Ruled, LineRule
    <3>2. ~Known(line)
      BY <3>1 DEF Known, KnownNames
    <3>3. SetConfigValue(old, line) = p
      BY <3>1, <3>2 DEF SetConfigValue
    <3> QED
      BY <2>3, <2>7, <3>3 DEF Ruled
  <2> QED
    BY <2>5, <2>6, <2>7
<1> HIDE DEF T
<1>5. T = {}
  BY <1>1, <1>3, <1>4, FirstFailure
<1>6. n \in 0..n
  OBVIOUS
<1> QED
  BY <1>2, <1>5, <1>6 DEF T

-----------------------------------------------------------------------------
(***************************************************************************)
(* The lines of a block make the device of the block.                      *)
(***************************************************************************)
\* The parser knows field n of a type, and the constructor takes it.
IsKept(t, n) ==
  /\ n \in KnownNames[Prefix[t]] \ {"label", "ID", "type"}
  /\ t \in {"I2C_PRS", "MQTT_TEMP"} => n # "statistics"
  /\ t = "MQTT_TEMP" => n # "interlock_scope"

\* The constructor finds field i in its slot: no field after it goes there too, and one before it only
\* where field i is written in any case.
IsPlaced(t, names, i) ==
  LET n == names[i]
  IN /\ n \in DOMAIN SlotOf /\ n \in DOMAIN Taken[t] /\ Taken[t][n] = SlotOf[n]
     /\ n = "address" => t # "GPIO_PMP"
     /\ \A j \in 1..Len(names) :
          j # i /\ names[j] \in DOMAIN SlotOf /\ SlotOf[names[j]] = SlotOf[n]
            => j < i /\ n \in Numbers /\ t # "GPIO_PMP"

ArePlaced(t, names) ==
  /\ \A i \in 1..Len(names) : names[i] = "type" => i = 1
  /\ \A i \in 1..Len(names) : IsKept(t, names[i]) => IsPlaced(t, names, i)

LEMMA Placed ==
  /\ ArePlaced("MQTT_COND", <<"topic", "value", "severity", "met_delay">>)
  /\ ArePlaced("GPIO_COND", <<"pin", "pin_mode", "required_state", "severity", "met_delay">>)
  /\ ArePlaced("I2C_PRS", <<"type", "address", "interlock_scope", "statistics", "min_value", "max_value">>)
  /\ ArePlaced("MQTT_TEMP", <<"topic", "interlock_scope", "statistics">>)
  /\ ArePlaced("D1W_TEMP", <<"path", "offset", "scale", "interlock_scope", "statistics">>)
  /\ ArePlaced("GPIO_PMP", <<"type", "pin", "pin_mode", "ml_per_second", "running_dose_max_ml",
                  "tank_total_volume", "tank_uom", "tank_min_volume", "interlock_scope">>)
  /\ ArePlaced("GPIO_OUTPUT", <<"pin", "pin_mode", "interlock_scope">>)
  /\ ArePlaced("GPIO_INPUT", <<"pin", "pin_mode", "required_state", "interlock_scope">>)
  /\ ArePlaced("SYSFS_VALUE", <<"path", "offset", "scale", "regex", "uom", "interlock_scope">>)
  /\ ArePlaced("MQTT_VALUE", <<"topic", "uom">>)
  /\ \A t \in EzoTypes : ArePlaced(t, <<"address", "interlock_scope", "statistics">>)
  /\ ArePlaced("MQTT_COND", <<"topic", "value", "interlock_scope", "met_delay">>)
  /\ ArePlaced("GPIO_COND", <<"pin", "pin_mode", "required_state", "met_delay">>)
  /\ ArePlaced("I2C_PRS", <<"type", "interlock_scope", "statistics">>)
  /\ ArePlaced("MQTT_TEMP", <<"topic", "uom">>)
  /\ ArePlaced("D1W_TEMP", <<"path", "offset", "scale">>)
  /\ ArePlaced("GPIO_INPUT", <<"type", "pin", "pin_mode", "required_state", "interlock_scope">>)
  /\ \A t \in EzoTypes : ArePlaced(t, <<"interlock_scope", "statistics">>)
<1>1. ASSUME NEW names, names = <<"topic", "value", "severity", "met_delay">>
      PROVE  ArePlaced("MQTT_COND", names)
  <2>1. PICK taken : taken = Taken["MQTT_COND"]
    OBVIOUS
  <2>2. \A i \in 1..Len(names) :
          IsKept("MQTT_COND", names[i]) => names[i] \in DOMAIN taken /\ taken[names[i]] = SlotOf[names[i]]
    BY <1>1, <2>1, TakenAre DEF IsKept, SlotOf, Prefix, Types, KnownNames, TakenByConditions
  <2> QED
    BY <1>1, <2>1, <2>2 DEF ArePlaced, IsPlaced, IsKept, SlotOf, Numbers
<1>2. ASSUME NEW names, names = <<"pin", "pin_mode", "required_state", "severity", "met_delay">>
      PROVE  ArePlaced("GPIO_COND", names)
  <2>1. PICK taken : taken = Taken["GPIO_COND"]
    OBVIOUS
  <2>2. \A i \in 1..Len(names) :
          IsKept("GPIO_COND", names[i]) => names[i] \in DOMAIN taken /\ taken[names[i]] = SlotOf[names[i]]
    BY <1>2, <2>1, TakenAre DEF IsKept, SlotOf, Prefix, Types, KnownNames, TakenByConditions
  <2> QED
    BY <1>2, <2>1, <2>2 DEF ArePlaced, IsPlaced, IsKept, SlotOf, Numbers
<1>3. ASSUME NEW names, names = <<"type", "address", "interlock_scope", "statistics", "min_value", "max_value">>
      PROVE  ArePlaced("I2C_PRS", names)
  <2>1. PICK taken : taken = Taken["I2C_PRS"]
    OBVIOUS
  <2>2. \A i \in 1..Len(names) :
          IsKept("I2C_PRS", names[i]) => names[i] \in DOMAIN taken /\ taken[names[i]] = SlotOf[names[i]]
    BY <1>3, <2>1, TakenAre DEF IsKept, SlotOf, Prefix, Types, KnownNames, TakenByI2c
  <2> QED
    BY <1>3, <2>1, <2>2 DEF ArePlaced, IsPlaced, IsKept, SlotOf, Numbers
<1>4. ASSUME NEW names, names = <<"topic", "interlock_scope", "statistics">>
      PROVE  ArePlaced("MQTT_TEMP", names)
  <2>1. PICK taken : taken = Taken["MQTT_TEMP"]
    OBVIOUS
  <2>2. \A i \in 1..Len(names) :
          IsKept("MQTT_TEMP", names[i]) => names[i] \in DOMAIN taken /\ taken[names[i]] = SlotOf[names[i]]
    BY <1>4, <2>1, TakenAre DEF IsKept, SlotOf, Prefix, Types, KnownNames, TakenByMqtt
  <2> QED
    BY <1>4, <2>1, <2>2 DEF ArePlaced, IsPlaced, IsKept, SlotOf, Numbers
<1>5. ASSUME NEW names, names = <<"path", "offset", "scale", "interlock_scope", "statistics">>
      PROVE  ArePlaced("D1W_TEMP", names)
  <2>1. PICK taken : taken = Taken["D1W_TEMP"]
    OBVIOUS
  <2>2. \A i \in 1..Len(names) :
          IsKept("D1W_TEMP", names[i]) => names[i] \in DOMAIN taken /\ taken[names[i]] = SlotOf[names[i]]
    BY <1>5, <2>1, TakenAre DEF IsKept, SlotOf, Prefix, Types, KnownNames, TakenByD1w
  <2> QED
    BY <1>5, <2>1, <2>2 DEF ArePlaced, IsPlaced, IsKept, SlotOf, Numbers
<1>6. ASSUME NEW names, names = <<"type", "pin", "pin_mode", "ml_per_second", "running_dose_max_ml",
                   "tank_total_volume", "tank_uom", "tank_min_volume", "interlock_scope">>
      PROVE  ArePlaced("GPIO_PMP", names)
  <2>1. PICK taken : taken = Taken["GPIO_PMP"]
    OBVIOUS
  <2>2. \A i \in 1..Len(names) :
          IsKept("GPIO_PMP", names[i]) => names[i] \in DOMAIN taken /\ taken[names[i]] = SlotOf[names[i]]
    BY <1>6, <2>1, TakenAre DEF IsKept, SlotOf, Prefix, Types, KnownNames, TakenByDoser
  <2> QED
    BY <1>6, <2>1, <2>2 DEF ArePlaced, IsPlaced, IsKept, SlotOf, Numbers
<1>7. ASSUME NEW names, names = <<"pin", "pin_mode", "interlock_scope">>
      PROVE  ArePlaced("GPIO_OUTPUT", names)
  <2>1. PICK taken : taken = Taken["GPIO_OUTPUT"]
    OBVIOUS
  <2>2. \A i \in 1..Len(names) :
          IsKept("GPIO_OUTPUT", names[i]) => names[i] \in DOMAIN taken /\ taken[names[i]] = SlotOf[names[i]]
    BY <1>7, <2>1, TakenAre DEF IsKept, SlotOf, Prefix, Types, KnownNames, TakenByGpio
  <2> QED
    BY <1>7, <2>1, <2>2 DEF ArePlaced, IsPlaced, IsKept, SlotOf, Numbers
<1>8. ASSUME NEW names, names = <<"pin", "pin_mode", "required_state", "interlock_scope">>
      PROVE  ArePlaced("GPIO_INPUT", names)
  <2>1. PICK taken : taken = Taken["GPIO_INPUT"]
    OBVIOUS
  <2>2. \A i \in 1..Len(names) :
          IsKept("GPIO_INPUT", names[i]) => names[i] \in DOMAIN taken /\ taken[names[i]] = SlotOf[names[i]]
    BY <1>8, <2>1, TakenAre DEF IsKept, SlotOf, Prefix, Types, KnownNames, TakenByGpio
  <2> QED
    BY <1>8, <2>1, <2>2 DEF ArePlaced, IsPlaced, IsKept, SlotOf, Numbers
<1>9. ASSUME NEW names, names = <<"path", "offset", "scale", "regex", "uom", "interlock_scope">>
      PROVE  ArePlaced("SYSFS_VALUE", names)
  <2>1. PICK taken : taken = Taken["SYSFS_VALUE"]
    OBVIOUS
  <2>2. \A i \in 1..Len(names) :
          IsKept("SYSFS_VALUE", names[i]) => names[i] \in DOMAIN taken /\ taken[names[i]] = SlotOf[names[i]]
    BY <1>9, <2>1, TakenAre DEF IsKept, SlotOf, Prefix, Types, KnownNames, TakenBySysfs
  <2> QED
    BY <1>9, <2>1, <2>2 DEF ArePlaced, IsPlaced, IsKept, SlotOf, Numbers
<1>10. ASSUME NEW names, names = <<"topic", "uom">>
      PROVE  ArePlaced("MQTT_VALUE", names)
  <2>1. PICK taken : taken = Taken["MQTT_VALUE"]
    OBVIOUS
  <2>2. \A i \in 1..Len(names) :
          IsKept("MQTT_VALUE", names[i]) => names[i] \in DOMAIN taken /\ taken[names[i]] = SlotOf[names[i]]
    BY <1>10, <2>1, TakenAre DEF IsKept, SlotOf, Prefix, Types, KnownNames, TakenByMqtt
  <2> QED
    BY <1>10, <2>1, <2>2 DEF ArePlaced, IsPlaced, IsKept, SlotOf, Numbers
<1>11. ASSUME NEW t \in EzoTypes, NEW names, names = <<"address", "interlock_scope", "statistics">>
      PROVE  ArePlaced(t, names)
  <2>1. Taken[t] = TakenByEzo[t]
    BY TakenAre
  <2>2. \A i \in 1..Len(names) : IsKept(t, names[i]) => names[i] \in DOMAIN Taken[t] /\ Taken[t][names[i]] = SlotOf[names[i]]
    BY <1>11, <2>1 DEF SlotOf, TakenByEzo
  <2>3. t \notin {"I2C_PRS", "MQTT_TEMP", "GPIO_PMP"}
    BY DEF EzoTypes
  <2> QED
    BY <1>11, <2>2, <2>3 DEF ArePlaced, IsPlaced, IsKept, SlotOf, Numbers
<1>12. ASSUME NEW names, names = <<"topic", "value", "interlock_scope", "met_delay">>
      PROVE  ArePlaced("MQTT_COND", names)
  <2>1. PICK taken : taken = Taken["MQTT_COND"]
    OBVIOUS
  <2>2. \A i \in 1..Len(names) :
          IsKept("MQTT_COND", names[i]) => names[i] \in DOMAIN taken /\ taken[names[i]] = SlotOf[names[i]]
    BY <1>12, <2>1, TakenAre DEF IsKept, SlotOf, Prefix, Types, KnownNames, TakenByConditions
  <2> QED
    BY <1>12, <2>1, <2>2 DEF ArePlaced, IsPlaced, IsKept, SlotOf, Numbers
<1>13. ASSUME NEW names, names = <<"pin", "pin_mode", "required_state", "met_delay">>
      PROVE  ArePlaced("GPIO_COND", names)
  <2>1. PICK taken : taken = Taken["GPIO_COND"]
    OBVIOUS
  <2>2. \A i \in 1..Len(names) :
          IsKept("GPIO_COND", names[i]) => names[i] \in DOMAIN taken /\ taken[names[i]] = SlotOf[names[i]]
    BY <1>13, <2>1, TakenAre DEF IsKept, SlotOf, Prefix, Types, KnownNames, TakenByConditions
  <2> QED
    BY <1>13, <2>1, <2>2 DEF ArePlaced, IsPlaced, IsKept, SlotOf, Numbers
<1>14. ASSUME NEW names, names = <<"type", "interlock_scope", "statistics">>
      PROVE  ArePlaced("I2C_PRS", names)
  <2>1. PICK taken : taken = Taken["I2C_PRS"]
    OBVIOUS
  <2>2. \A i \in 1..Len(names) :
          IsKept("I2C_PRS", names[i]) => names[i] \in DOMAIN taken /\ taken[names[i]] = SlotOf[names[i]]
    BY <1>14, <2>1, TakenAre DEF IsKept, SlotOf, Prefix, Types, KnownNames, TakenByI2c
  <2> QED
    BY <1>14, <2>1, <2>2 DEF ArePlaced, IsPlaced, IsKept, SlotOf, Numbers
<1>15. ASSUME NEW names, names = <<"topic", "uom">>
      PROVE  ArePlaced("MQTT_TEMP", names)
  <2>1. PICK taken : taken = Taken["MQTT_TEMP"]
    OBVIOUS
  <2>2. \A i \in 1..Len(names) :
          IsKept("MQTT_TEMP", names[i]) => names[i] \in DOMAIN taken /\ taken[names[i]] = SlotOf[names[i]]
    BY <1>15, <2>1, TakenAre DEF IsKept, SlotOf, Prefix, Types, KnownNames, TakenByMqtt
  <2> QED
    BY <1>15, <2>1, <2>2 DEF ArePlaced, IsPlaced, IsKept, SlotOf, Numbers
<1>16. ASSUME NEW names, names = <<"path", "offset", "scale">>
      PROVE  ArePlaced("D1W_TEMP", names)
  <2>1. PICK taken : taken = Taken["D1W_TEMP"]
    OBVIOUS
  <2>2. \A i \in 1..Len(names) :
          IsKept("D1W_TEMP", names[i]) => names[i] \in DOMAIN taken /\ taken[names[i]] = SlotOf[names[i]]
    BY <1>16, <2>1, TakenAre DEF IsKept, SlotOf, Prefix, Types, KnownNames, TakenByD1w
  <2> QED
    BY <1>16, <2>1, <2>2 DEF ArePlaced, IsPlaced, IsKept, SlotOf, Numbers
<1>17. ASSUME NEW names, names = <<"type", "pin", "pin_mode", "required_state", "interlock_scope">>
      PROVE  ArePlaced("GPIO_INPUT", names)
  <2>1. PICK taken : taken = Taken["GPIO_INPUT"]
    OBVIOUS
  <2>2. \A i \in 1..Len(names) :
          IsKept("GPIO_INPUT", names[i]) => names[i] \in DOMAIN taken /\ taken[names[i]] = SlotOf[names[i]]
    BY <1>17, <2>1, TakenAre DEF IsKept, SlotOf, Prefix, Types, KnownNames, TakenByGpio
  <2> QED
    BY <1>17, <2>1, <2>2 DEF ArePlaced, IsPlaced, IsKept, SlotOf, Numbers
<1>18. ASSUME NEW t \in EzoTypes, NEW names, names = <<"interlock_scope", "statistics">>
      PROVE  ArePlaced(t, names)
  <2>1. Taken[t] = TakenByEzo[t]
    BY TakenAre
  <2>2. \A i \in 1..Len(names) : IsKept(t, names[i]) => names[i] \in DOMAIN Taken[t] /\ Taken[t][names[i]] = SlotOf[names[i]]
    BY <1>18, <2>1 DEF SlotOf, TakenByEzo
  <2>3. t \notin {"I2C_PRS", "MQTT_TEMP", "GPIO_PMP"}
    BY DEF EzoTypes
  <2> QED
    BY <1>18, <2>2, <2>3 DEF ArePlaced, IsPlaced, IsKept, SlotOf, Numbers
<1> QED
  BY <1>1, <1>2, <1>3, <1>4, <1>5, <1>6, <1>7, <1>8, <1>9, <1>10, <1>11, <1>12, <1>13, <1>14, <1>15, <1>16, <1>17, <1>18, Zenon

AreFieldNames(t, names) ==
  /\ IsList(names)
  /\ \A k \in 1..Len(names) :
       names[k] \notin {"label", "ID"} /\ (names[k] = "type" => t \in {"GPIO_PMP", "I2C_PRS", "GPIO_INPUT"})
  /\ t \in {"GPIO_PMP", "I2C_PRS"} => names # <<>> /\ names[1] = "type"
  /\ t = "MQTT_VALUE" => names # <<>> /\ names[1] = "topic"
  /\ ArePlaced(t, names)

LEMMA TypesAre ==
  Types = {"MQTT_COND", "GPIO_COND", "I2C_PRS", "MQTT_TEMP", "D1W_TEMP", "GPIO_PMP", "GPIO_OUTPUT", "GPIO_INPUT",
           "SYSFS_VALUE", "MQTT_VALUE", "EZO_PH", "EZO_ORP", "EZO_TEMP", "EZO_PRS"}
BY DEF Types, EzoTypes

\* The fields of a list written out.
IsListed(s, first, items) == s \in Seq(items) /\ s # <<>> /\ s[1] = first

LEMMA Listed ==
  /\ \A a, b : IsListed(<<a, b>>, a, {a, b})
  /\ \A a, b, c : IsListed(<<a, b, c>>, a, {a, b, c})
  /\ \A a, b, c, d : IsListed(<<a, b, c, d>>, a, {a, b, c, d})
  /\ \A a, b, c, d, e : IsListed(<<a, b, c, d, e>>, a, {a, b, c, d, e})
  /\ \A a, b, c, d, e, f : IsListed(<<a, b, c, d, e, f>>, a, {a, b, c, d, e, f})
  /\ \A a, b, c, d, e, f, g, h, i : IsListed(<<a, b, c, d, e, f, g, h, i>>, a, {a, b, c, d, e, f, g, h, i})
<1>1. ASSUME NEW a, NEW b PROVE IsListed(<<a, b>>, a, {a, b})
  BY DEF IsListed
<1>2. ASSUME NEW a, NEW b, NEW c PROVE IsListed(<<a, b, c>>, a, {a, b, c})
  BY DEF IsListed
<1>3. ASSUME NEW a, NEW b, NEW c, NEW d PROVE IsListed(<<a, b, c, d>>, a, {a, b, c, d})
  BY DEF IsListed
<1>4. ASSUME NEW a, NEW b, NEW c, NEW d, NEW e PROVE IsListed(<<a, b, c, d, e>>, a, {a, b, c, d, e})
  BY DEF IsListed
<1>5. ASSUME NEW a, NEW b, NEW c, NEW d, NEW e, NEW f PROVE IsListed(<<a, b, c, d, e, f>>, a, {a, b, c, d, e, f})
  BY DEF IsListed
<1>6. ASSUME NEW a, NEW b, NEW c, NEW d, NEW e, NEW f, NEW g, NEW h, NEW i PROVE IsListed(<<a, b, c, d, e, f, g, h, i>>, a, {a, b, c, d, e, f, g, h, i})
  BY DEF IsListed
<1> QED
  BY <1>1, <1>2, <1>3, <1>4, <1>5, <1>6

Suits(t, first, items) ==
  /\ \A n \in items : n \notin {"label", "ID"} /\ (n = "type" => t \in {"GPIO_PMP", "I2C_PRS", "GPIO_INPUT"})
  /\ t \in {"GPIO_PMP", "I2C_PRS"} => first = "type"
  /\ t = "MQTT_VALUE" => first = "topic"

LEMMA FieldNames ==
  ASSUME NEW t, NEW names, NEW first, NEW items, IsListed(names, first, items), Suits(t, first, items),
         ArePlaced(t, names)
  PROVE  AreFieldNames(t, names)
BY DEF AreFieldNames, IsListed, IsList, Suits

LEMMA PageFieldsAreNames ==
  ASSUME NEW t \in Types PROVE AreFieldNames(t, PageFields[t])
<1>1. AreFieldNames("MQTT_COND", PageFields["MQTT_COND"])
  <2>1. PageFields["MQTT_COND"] = ConditionFields["MQTT_COND"]
    BY DEF PageFields, Types, EzoTypes, ConditionFields, EzoFields, I2cFields, TempFields, DoserFields, GpioFields, ValueFields
  <2>2. ConditionFields["MQTT_COND"] = <<"topic", "value", "severity", "met_delay">>
    BY Zenon DEF ConditionFields
  <2>3. IsListed(<<"topic", "value", "severity", "met_delay">>, "topic", {"topic", "value", "severity", "met_delay"})
    BY Listed, Zenon
  <2>4. Suits("MQTT_COND", "topic", {"topic", "value", "severity", "met_delay"})
    BY DEF Suits
  <2>5. ArePlaced("MQTT_COND", <<"topic", "value", "severity", "met_delay">>)
    BY Placed, Zenon
  <2> QED
    BY <2>1, <2>2, <2>3, <2>4, <2>5, FieldNames, Zenon
<1>2. AreFieldNames("GPIO_COND", PageFields["GPIO_COND"])
  <2>1. PageFields["GPIO_COND"] = ConditionFields["GPIO_COND"]
    BY DEF PageFields, Types, EzoTypes, ConditionFields, EzoFields, I2cFields, TempFields, DoserFields, GpioFields, ValueFields
  <2>2. ConditionFields["GPIO_COND"] = <<"pin", "pin_mode", "required_state", "severity", "met_delay">>
    BY Zenon DEF ConditionFields
  <2>3. IsListed(<<"pin", "pin_mode", "required_state", "severity", "met_delay">>, "pin", {"pin", "pin_mode", "required_state", "severity", "met_delay"})
    BY Listed, Zenon
  <2>4. Suits("GPIO_COND", "pin", {"pin", "pin_mode", "required_state", "severity", "met_delay"})
    BY DEF Suits
  <2>5. ArePlaced("GPIO_COND", <<"pin", "pin_mode", "required_state", "severity", "met_delay">>)
    BY Placed, Zenon
  <2> QED
    BY <2>1, <2>2, <2>3, <2>4, <2>5, FieldNames, Zenon
<1>3. AreFieldNames("I2C_PRS", PageFields["I2C_PRS"])
  <2>1. PageFields["I2C_PRS"] = I2cFields["I2C_PRS"]
    BY DEF PageFields, Types, EzoTypes, ConditionFields, EzoFields, I2cFields, TempFields, DoserFields, GpioFields, ValueFields
  <2>2. I2cFields["I2C_PRS"] = <<"type", "address", "interlock_scope", "statistics", "min_value", "max_value">>
    BY Zenon DEF I2cFields
  <2>3. IsListed(<<"type", "address", "interlock_scope", "statistics", "min_value", "max_value">>, "type", {"type", "address", "interlock_scope", "statistics", "min_value", "max_value"})
    BY Listed, Zenon
  <2>4. Suits("I2C_PRS", "type", {"type", "address", "interlock_scope", "statistics", "min_value", "max_value"})
    BY DEF Suits
  <2>5. ArePlaced("I2C_PRS", <<"type", "address", "interlock_scope", "statistics", "min_value", "max_value">>)
    BY Placed, Zenon
  <2> QED
    BY <2>1, <2>2, <2>3, <2>4, <2>5, FieldNames, Zenon
<1>4. AreFieldNames("MQTT_TEMP", PageFields["MQTT_TEMP"])
  <2>1. PageFields["MQTT_TEMP"] = TempFields["MQTT_TEMP"]
    BY DEF PageFields, Types, EzoTypes, ConditionFields, EzoFields, I2cFields, TempFields, DoserFields, GpioFields, ValueFields
  <2>2. TempFields["MQTT_TEMP"] = <<"topic", "interlock_scope", "statistics">>
    BY Zenon DEF TempFields
  <2>3. IsListed(<<"topic", "interlock_scope", "statistics">>, "topic", {"topic", "interlock_scope", "statistics"})
    BY Listed, Zenon
  <2>4. Suits("MQTT_TEMP", "topic", {"topic", "interlock_scope", "statistics"})
    BY DEF Suits
  <2>5. ArePlaced("MQTT_TEMP", <<"topic", "interlock_scope", "statistics">>)
    BY Placed, Zenon
  <2> QED
    BY <2>1, <2>2, <2>3, <2>4, <2>5, FieldNames, Zenon
<1>5. AreFieldNames("D1W_TEMP", PageFields["D1W_TEMP"])
  <2>1. PageFields["D1W_TEMP"] = TempFields["D1W_TEMP"]
    BY DEF PageFields, Types, EzoTypes, ConditionFields, EzoFields, I2cFields, TempFields, DoserFields, GpioFields, ValueFields
  <2>2. TempFields["D1W_TEMP"] = <<"path", "offset", "scale", "interlock_scope", "statistics">>
    BY Zenon DEF TempFields
  <2>3. IsListed(<<"path", "offset", "scale", "interlock_scope", "statistics">>, "path", {"path", "offset", "scale", "interlock_scope", "statistics"})
    BY Listed, Zenon
  <2>4. Suits("D1W_TEMP", "path", {"path", "offset", "scale", "interlock_scope", "statistics"})
    BY DEF Suits
  <2>5. ArePlaced("D1W_TEMP", <<"path", "offset", "scale", "interlock_scope", "statistics">>)
    BY Placed, Zenon
  <2> QED
    BY <2>1, <2>2, <2>3, <2>4, <2>5, FieldNames, Zenon
<1>6. AreFieldNames("GPIO_PMP", PageFields["GPIO_PMP"])
  <2>1. PageFields["GPIO_PMP"] = DoserFields["GPIO_PMP"]
    BY DEF PageFields, Types, EzoTypes, ConditionFields, EzoFields, I2cFields, TempFields, DoserFields, GpioFields, ValueFields
  <2>2. DoserFields["GPIO_PMP"] = <<"type", "pin", "pin_mode", "ml_per_second", "running_dose_max_ml", "tank_total_volume", "tank_uom", "tank_min_volume", "interlock_scope">>
    BY Zenon DEF DoserFields
  <2>3. IsListed(<<"type", "pin", "pin_mode", "ml_per_second", "running_dose_max_ml", "tank_total_volume", "tank_uom", "tank_min_volume", "interlock_scope">>, "type", {"type", "pin", "pin_mode", "ml_per_second", "running_dose_max_ml", "tank_total_volume",
                   "tank_uom", "tank_min_volume", "interlock_scope"})
    BY Listed, Zenon
  <2>4. Suits("GPIO_PMP", "type", {"type", "pin", "pin_mode", "ml_per_second", "running_dose_max_ml", "tank_total_volume",
                   "tank_uom", "tank_min_volume", "interlock_scope"})
    BY DEF Suits
  <2>5. ArePlaced("GPIO_PMP", <<"type", "pin", "pin_mode", "ml_per_second", "running_dose_max_ml", "tank_total_volume", "tank_uom", "tank_min_volume", "interlock_scope">>)
    BY Placed, Zenon
  <2> QED
    BY <2>1, <2>2, <2>3, <2>4, <2>5, FieldNames, Zenon
<1>7. AreFieldNames("GPIO_OUTPUT", PageFields["GPIO_OUTPUT"])
  <2>1. PageFields["GPIO_OUTPUT"] = GpioFields["GPIO_OUTPUT"]
    BY DEF PageFields, Types, EzoTypes, ConditionFields, EzoFields, I2cFields, TempFields, DoserFields, GpioFields, ValueFields
  <2>2. GpioFields["GPIO_OUTPUT"] = <<"pin", "pin_mode", "interlock_scope">>
    BY Zenon DEF GpioFields
  <2>3. IsListed(<<"pin", "pin_mode", "interlock_scope">>, "pin", {"pin", "pin_mode", "interlock_scope"})
    BY Listed, Zenon
  <2>4. Suits("GPIO_OUTPUT", "pin", {"pin", "pin_mode", "interlock_scope"})
    BY DEF Suits
  <2>5. ArePlaced("GPIO_OUTPUT", <<"pin", "pin_mode", "interlock_scope">>)
    BY Placed, Zenon
  <2> QED
    BY <2>1, <2>2, <2>3, <2>4, <2>5, FieldNames, Zenon
<1>8. AreFieldNames("GPIO_INPUT", PageFields["GPIO_INPUT"])
  <2>1. PageFields["GPIO_INPUT"] = GpioFields["GPIO_INPUT"]
    BY DEF PageFields, Types, EzoTypes, ConditionFields, EzoFields, I2cFields, TempFields, DoserFields, GpioFields, ValueFields
  <2>2. GpioFields["GPIO_INPUT"] = <<"pin", "pin_mode", "required_state", "interlock_scope">>
    BY Zenon DEF GpioFields
  <2>3. IsListed(<<"pin", "pin_mode", "required_state", "interlock_scope">>, "pin", {"pin", "pin_mode", "required_state", "interlock_scope"})
    BY Listed, Zenon
  <2>4. Suits("GPIO_INPUT", "pin", {"pin", "pin_mode", "required_state", "interlock_scope"})
    BY DEF Suits
  <2>5. ArePlaced("GPIO_INPUT", <<"pin", "pin_mode", "required_state", "interlock_scope">>)
    BY Placed, Zenon
  <2> QED
    BY <2>1, <2>2, <2>3, <2>4, <2>5, FieldNames, Zenon
<1>9. AreFieldNames("SYSFS_VALUE", PageFields["SYSFS_VALUE"])
  <2>1. PageFields["SYSFS_VALUE"] = ValueFields["SYSFS_VALUE"]
    BY DEF PageFields, Types, EzoTypes, ConditionFields, EzoFields, I2cFields, TempFields, DoserFields, GpioFields, ValueFields
  <2>2. ValueFields["SYSFS_VALUE"] = <<"path", "offset", "scale", "regex", "uom", "interlock_scope">>
    BY Zenon DEF ValueFields
  <2>3. IsListed(<<"path", "offset", "scale", "regex", "uom", "interlock_scope">>, "path", {"path", "offset", "scale", "regex", "uom", "interlock_scope"})
    BY Listed, Zenon
  <2>4. Suits("SYSFS_VALUE", "path", {"path", "offset", "scale", "regex", "uom", "interlock_scope"})
    BY DEF Suits
  <2>5. ArePlaced("SYSFS_VALUE", <<"path", "offset", "scale", "regex", "uom", "interlock_scope">>)
    BY Placed, Zenon
  <2> QED
    BY <2>1, <2>2, <2>3, <2>4, <2>5, FieldNames, Zenon
<1>10. AreFieldNames("MQTT_VALUE", PageFields["MQTT_VALUE"])
  <2>1. PageFields["MQTT_VALUE"] = ValueFields["MQTT_VALUE"]
    BY DEF PageFields, Types, EzoTypes, ConditionFields, EzoFields, I2cFields, TempFields, DoserFields, GpioFields, ValueFields
  <2>2. ValueFields["MQTT_VALUE"] = <<"topic", "uom">>
    BY Zenon DEF ValueFields
  <2>3. IsListed(<<"topic", "uom">>, "topic", {"topic", "uom"})
    BY Listed, Zenon
  <2>4. Suits("MQTT_VALUE", "topic", {"topic", "uom"})
    BY DEF Suits
  <2>5. ArePlaced("MQTT_VALUE", <<"topic", "uom">>)
    BY Placed, Zenon
  <2> QED
    BY <2>1, <2>2, <2>3, <2>4, <2>5, FieldNames, Zenon
<1>11. AreFieldNames("EZO_PH", PageFields["EZO_PH"])
  <2>1. PageFields["EZO_PH"] = EzoFields["EZO_PH"]
    BY DEF PageFields, Types, EzoTypes, ConditionFields, EzoFields, I2cFields, TempFields, DoserFields, GpioFields, ValueFields
  <2>2. EzoFields["EZO_PH"] = <<"address", "interlock_scope", "statistics">>
    BY DEF EzoFields, EzoTypes
  <2>3. IsListed(<<"address", "interlock_scope", "statistics">>, "address", {"address", "interlock_scope", "statistics"})
    BY Listed, Zenon
  <2>4. Suits("EZO_PH", "address", {"address", "interlock_scope", "statistics"})
    BY DEF Suits
  <2>5. ArePlaced("EZO_PH", <<"address", "interlock_scope", "statistics">>)
    BY Placed DEF EzoTypes
  <2> QED
    BY <2>1, <2>2, <2>3, <2>4, <2>5, FieldNames, Zenon
<1>12. AreFieldNames("EZO_ORP", PageFields["EZO_ORP"])
  <2>1. PageFields["EZO_ORP"] = EzoFields["EZO_ORP"]
    BY DEF PageFields, Types, EzoTypes, ConditionFields, EzoFields, I2cFields, TempFields, DoserFields, GpioFields, ValueFields
  <2>2. EzoFields["EZO_ORP"] = <<"address", "interlock_scope", "statistics">>
    BY DEF EzoFields, EzoTypes
  <2>3. IsListed(<<"address", "interlock_scope", "statistics">>, "address", {"address", "interlock_scope", "statistics"})
    BY Listed, Zenon
  <2>4. Suits("EZO_ORP", "address", {"address", "interlock_scope", "statistics"})
    BY DEF Suits
  <2>5. ArePlaced("EZO_ORP", <<"address", "interlock_scope", "statistics">>)
    BY Placed DEF EzoTypes
  <2> QED
    BY <2>1, <2>2, <2>3, <2>4, <2>5, FieldNames, Zenon
<1>13. AreFieldNames("EZO_TEMP", PageFields["EZO_TEMP"])
  <2>1. PageFields["EZO_TEMP"] = EzoFields["EZO_TEMP"]
    BY DEF PageFields, Types, EzoTypes, ConditionFields, EzoFields, I2cFields, TempFields, DoserFields, GpioFields, ValueFields
  <2>2. EzoFields["EZO_TEMP"] = <<"address", "interlock_scope", "statistics">>
    BY DEF EzoFields, EzoTypes
  <2>3. IsListed(<<"address", "interlock_scope", "statistics">>, "address", {"address", "interlock_scope", "statistics"})
    BY Listed, Zenon
  <2>4. Suits("EZO_TEMP", "address", {"address", "interlock_scope", "statistics"})
    BY DEF Suits
  <2>5. ArePlaced("EZO_TEMP", <<"address", "interlock_scope", "statistics">>)
    BY Placed DEF EzoTypes
  <2> QED
    BY <2>1, <2>2, <2>3, <2>4, <2>5, FieldNames, Zenon
<1>14. AreFieldNames("EZO_PRS", PageFields["EZO_PRS"])
  <2>1. PageFields["EZO_PRS"] = EzoFields["EZO_PRS"]
    BY DEF PageFields, Types, EzoTypes, ConditionFields, EzoFields, I2cFields, TempFields, DoserFields, GpioFields, ValueFields
  <2>2. EzoFields["EZO_PRS"] = <<"address", "interlock_scope", "statistics">>
    BY DEF EzoFields, EzoTypes
  <2>3. IsListed(<<"address", "interlock_scope", "statistics">>, "address", {"address", "interlock_scope", "statistics"})
    BY Listed, Zenon
  <2>4. Suits("EZO_PRS", "address", {"address", "interlock_scope", "statistics"})
    BY DEF Suits
  <2>5. ArePlaced("EZO_PRS", <<"address", "interlock_scope", "statistics">>)
    BY Placed DEF EzoTypes
  <2> QED
    BY <2>1, <2>2, <2>3, <2>4, <2>5, FieldNames, Zenon
<1> QED
  BY TypesAre, <1>1, <1>2, <1>3, <1>4, <1>5, <1>6, <1>7, <1>8, <1>9, <1>10, <1>11, <1>12, <1>13, <1>14

LEMMA TemplatesAreNames ==
  ASSUME NEW t \in Types PROVE AreFieldNames(t, Templates[t])
<1>1. AreFieldNames("MQTT_COND", Templates["MQTT_COND"])
  <2>1. Templates["MQTT_COND"] = ConditionTemplates["MQTT_COND"]
    BY DEF Templates, Types, EzoTypes, ConditionTemplates, EzoTemplates, I2cTemplates, TempTemplates, DoserTemplates, GpioTemplates, ValueTemplates
  <2>2. ConditionTemplates["MQTT_COND"] = <<"topic", "value", "interlock_scope", "met_delay">>
    BY Zenon DEF ConditionTemplates
  <2>3. IsListed(<<"topic", "value", "interlock_scope", "met_delay">>, "topic", {"topic", "value", "interlock_scope", "met_delay"})
    BY Listed, Zenon
  <2>4. Suits("MQTT_COND", "topic", {"topic", "value", "interlock_scope", "met_delay"})
    BY DEF Suits
  <2>5. ArePlaced("MQTT_COND", <<"topic", "value", "interlock_scope", "met_delay">>)
    BY Placed, Zenon
  <2> QED
    BY <2>1, <2>2, <2>3, <2>4, <2>5, FieldNames, Zenon
<1>2. AreFieldNames("GPIO_COND", Templates["GPIO_COND"])
  <2>1. Templates["GPIO_COND"] = ConditionTemplates["GPIO_COND"]
    BY DEF Templates, Types, EzoTypes, ConditionTemplates, EzoTemplates, I2cTemplates, TempTemplates, DoserTemplates, GpioTemplates, ValueTemplates
  <2>2. ConditionTemplates["GPIO_COND"] = <<"pin", "pin_mode", "required_state", "met_delay">>
    BY Zenon DEF ConditionTemplates
  <2>3. IsListed(<<"pin", "pin_mode", "required_state", "met_delay">>, "pin", {"pin", "pin_mode", "required_state", "met_delay"})
    BY Listed, Zenon
  <2>4. Suits("GPIO_COND", "pin", {"pin", "pin_mode", "required_state", "met_delay"})
    BY DEF Suits
  <2>5. ArePlaced("GPIO_COND", <<"pin", "pin_mode", "required_state", "met_delay">>)
    BY Placed, Zenon
  <2> QED
    BY <2>1, <2>2, <2>3, <2>4, <2>5, FieldNames, Zenon
<1>3. AreFieldNames("I2C_PRS", Templates["I2C_PRS"])
  <2>1. Templates["I2C_PRS"] = I2cTemplates["I2C_PRS"]
    BY DEF Templates, Types, EzoTypes, ConditionTemplates, EzoTemplates, I2cTemplates, TempTemplates, DoserTemplates, GpioTemplates, ValueTemplates
  <2>2. I2cTemplates["I2C_PRS"] = <<"type", "interlock_scope", "statistics">>
    BY Zenon DEF I2cTemplates
  <2>3. IsListed(<<"type", "interlock_scope", "statistics">>, "type", {"type", "interlock_scope", "statistics"})
    BY Listed, Zenon
  <2>4. Suits("I2C_PRS", "type", {"type", "interlock_scope", "statistics"})
    BY DEF Suits
  <2>5. ArePlaced("I2C_PRS", <<"type", "interlock_scope", "statistics">>)
    BY Placed, Zenon
  <2> QED
    BY <2>1, <2>2, <2>3, <2>4, <2>5, FieldNames, Zenon
<1>4. AreFieldNames("MQTT_TEMP", Templates["MQTT_TEMP"])
  <2>1. Templates["MQTT_TEMP"] = TempTemplates["MQTT_TEMP"]
    BY DEF Templates, Types, EzoTypes, ConditionTemplates, EzoTemplates, I2cTemplates, TempTemplates, DoserTemplates, GpioTemplates, ValueTemplates
  <2>2. TempTemplates["MQTT_TEMP"] = <<"topic", "uom">>
    BY Zenon DEF TempTemplates
  <2>3. IsListed(<<"topic", "uom">>, "topic", {"topic", "uom"})
    BY Listed, Zenon
  <2>4. Suits("MQTT_TEMP", "topic", {"topic", "uom"})
    BY DEF Suits
  <2>5. ArePlaced("MQTT_TEMP", <<"topic", "uom">>)
    BY Placed, Zenon
  <2> QED
    BY <2>1, <2>2, <2>3, <2>4, <2>5, FieldNames, Zenon
<1>5. AreFieldNames("D1W_TEMP", Templates["D1W_TEMP"])
  <2>1. Templates["D1W_TEMP"] = TempTemplates["D1W_TEMP"]
    BY DEF Templates, Types, EzoTypes, ConditionTemplates, EzoTemplates, I2cTemplates, TempTemplates, DoserTemplates, GpioTemplates, ValueTemplates
  <2>2. TempTemplates["D1W_TEMP"] = <<"path", "offset", "scale">>
    BY Zenon DEF TempTemplates
  <2>3. IsListed(<<"path", "offset", "scale">>, "path", {"path", "offset", "scale"})
    BY Listed, Zenon
  <2>4. Suits("D1W_TEMP", "path", {"path", "offset", "scale"})
    BY DEF Suits
  <2>5. ArePlaced("D1W_TEMP", <<"path", "offset", "scale">>)
    BY Placed, Zenon
  <2> QED
    BY <2>1, <2>2, <2>3, <2>4, <2>5, FieldNames, Zenon
<1>6. AreFieldNames("GPIO_PMP", Templates["GPIO_PMP"])
  <2>1. Templates["GPIO_PMP"] = DoserTemplates["GPIO_PMP"]
    BY DEF Templates, Types, EzoTypes, ConditionTemplates, EzoTemplates, I2cTemplates, TempTemplates, DoserTemplates, GpioTemplates, ValueTemplates
  <2>2. DoserTemplates["GPIO_PMP"] = <<"type", "pin", "pin_mode", "ml_per_second", "running_dose_max_ml", "tank_total_volume", "tank_uom", "tank_min_volume", "interlock_scope">>
    BY Zenon DEF DoserTemplates
  <2>3. IsListed(<<"type", "pin", "pin_mode", "ml_per_second", "running_dose_max_ml", "tank_total_volume", "tank_uom", "tank_min_volume", "interlock_scope">>, "type", {"type", "pin", "pin_mode", "ml_per_second", "running_dose_max_ml", "tank_total_volume",
                   "tank_uom", "tank_min_volume", "interlock_scope"})
    BY Listed, Zenon
  <2>4. Suits("GPIO_PMP", "type", {"type", "pin", "pin_mode", "ml_per_second", "running_dose_max_ml", "tank_total_volume",
                   "tank_uom", "tank_min_volume", "interlock_scope"})
    BY DEF Suits
  <2>5. ArePlaced("GPIO_PMP", <<"type", "pin", "pin_mode", "ml_per_second", "running_dose_max_ml", "tank_total_volume", "tank_uom", "tank_min_volume", "interlock_scope">>)
    BY Placed, Zenon
  <2> QED
    BY <2>1, <2>2, <2>3, <2>4, <2>5, FieldNames, Zenon
<1>7. AreFieldNames("GPIO_OUTPUT", Templates["GPIO_OUTPUT"])
  <2>1. Templates["GPIO_OUTPUT"] = GpioTemplates["GPIO_OUTPUT"]
    BY DEF Templates, Types, EzoTypes, ConditionTemplates, EzoTemplates, I2cTemplates, TempTemplates, DoserTemplates, GpioTemplates, ValueTemplates
  <2>2. GpioTemplates["GPIO_OUTPUT"] = <<"pin", "pin_mode", "interlock_scope">>
    BY Zenon DEF GpioTemplates
  <2>3. IsListed(<<"pin", "pin_mode", "interlock_scope">>, "pin", {"pin", "pin_mode", "interlock_scope"})
    BY Listed, Zenon
  <2>4. Suits("GPIO_OUTPUT", "pin", {"pin", "pin_mode", "interlock_scope"})
    BY DEF Suits
  <2>5. ArePlaced("GPIO_OUTPUT", <<"pin", "pin_mode", "interlock_scope">>)
    BY Placed, Zenon
  <2> QED
    BY <2>1, <2>2, <2>3, <2>4, <2>5, FieldNames, Zenon
<1>8. AreFieldNames("GPIO_INPUT", Templates["GPIO_INPUT"])
  <2>1. Templates["GPIO_INPUT"] = GpioTemplates["GPIO_INPUT"]
    BY DEF Templates, Types, EzoTypes, ConditionTemplates, EzoTemplates, I2cTemplates, TempTemplates, DoserTemplates, GpioTemplates, ValueTemplates
  <2>2. GpioTemplates["GPIO_INPUT"] = <<"type", "pin", "pin_mode", "required_state", "interlock_scope">>
    BY Zenon DEF GpioTemplates
  <2>3. IsListed(<<"type", "pin", "pin_mode", "required_state", "interlock_scope">>, "type", {"type", "pin", "pin_mode", "required_state", "interlock_scope"})
    BY Listed, Zenon
  <2>4. Suits("GPIO_INPUT", "type", {"type", "pin", "pin_mode", "required_state", "interlock_scope"})
    BY DEF Suits
  <2>5. ArePlaced("GPIO_INPUT", <<"type", "pin", "pin_mode", "required_state", "interlock_scope">>)
    BY Placed, Zenon
  <2> QED
    BY <2>1, <2>2, <2>3, <2>4, <2>5, FieldNames, Zenon
<1>9. AreFieldNames("SYSFS_VALUE", Templates["SYSFS_VALUE"])
  <2>1. Templates["SYSFS_VALUE"] = ValueTemplates["SYSFS_VALUE"]
    BY DEF Templates, Types, EzoTypes, ConditionTemplates, EzoTemplates, I2cTemplates, TempTemplates, DoserTemplates, GpioTemplates, ValueTemplates
  <2>2. ValueTemplates["SYSFS_VALUE"] = <<"path", "offset", "scale", "regex", "uom", "interlock_scope">>
    BY Zenon DEF ValueTemplates
  <2>3. IsListed(<<"path", "offset", "scale", "regex", "uom", "interlock_scope">>, "path", {"path", "offset", "scale", "regex", "uom", "interlock_scope"})
    BY Listed, Zenon
  <2>4. Suits("SYSFS_VALUE", "path", {"path", "offset", "scale", "regex", "uom", "interlock_scope"})
    BY DEF Suits
  <2>5. ArePlaced("SYSFS_VALUE", <<"path", "offset", "scale", "regex", "uom", "interlock_scope">>)
    BY Placed, Zenon
  <2> QED
    BY <2>1, <2>2, <2>3, <2>4, <2>5, FieldNames, Zenon
<1>10. AreFieldNames("MQTT_VALUE", Templates["MQTT_VALUE"])
  <2>1. Templates["MQTT_VALUE"] = ValueTemplates["MQTT_VALUE"]
    BY DEF Templates, Types, EzoTypes, ConditionTemplates, EzoTemplates, I2cTemplates, TempTemplates, DoserTemplates, GpioTemplates, ValueTemplates
  <2>2. ValueTemplates["MQTT_VALUE"] = <<"topic", "uom">>
    BY Zenon DEF ValueTemplates
  <2>3. IsListed(<<"topic", "uom">>, "topic", {"topic", "uom"})
    BY Listed, Zenon
  <2>4. Suits("MQTT_VALUE", "topic", {"topic", "uom"})
    BY DEF Suits
  <2>5. ArePlaced("MQTT_VALUE", <<"topic", "uom">>)
    BY Placed, Zenon
  <2> QED
    BY <2>1, <2>2, <2>3, <2>4, <2>5, FieldNames, Zenon
<1>11. AreFieldNames("EZO_PH", Templates["EZO_PH"])
  <2>1. Templates["EZO_PH"] = EzoTemplates["EZO_PH"]
    BY DEF Templates, Types, EzoTypes, ConditionTemplates, EzoTemplates, I2cTemplates, TempTemplates, DoserTemplates, GpioTemplates, ValueTemplates
  <2>2. EzoTemplates["EZO_PH"] = <<"interlock_scope", "statistics">>
    BY DEF EzoTemplates, EzoTypes
  <2>3. IsListed(<<"interlock_scope", "statistics">>, "interlock_scope", {"interlock_scope", "statistics"})
    BY Listed, Zenon
  <2>4. Suits("EZO_PH", "interlock_scope", {"interlock_scope", "statistics"})
    BY DEF Suits
  <2>5. ArePlaced("EZO_PH", <<"interlock_scope", "statistics">>)
    BY Placed DEF EzoTypes
  <2> QED
    BY <2>1, <2>2, <2>3, <2>4, <2>5, FieldNames, Zenon
<1>12. AreFieldNames("EZO_ORP", Templates["EZO_ORP"])
  <2>1. Templates["EZO_ORP"] = EzoTemplates["EZO_ORP"]
    BY DEF Templates, Types, EzoTypes, ConditionTemplates, EzoTemplates, I2cTemplates, TempTemplates, DoserTemplates, GpioTemplates, ValueTemplates
  <2>2. EzoTemplates["EZO_ORP"] = <<"interlock_scope", "statistics">>
    BY DEF EzoTemplates, EzoTypes
  <2>3. IsListed(<<"interlock_scope", "statistics">>, "interlock_scope", {"interlock_scope", "statistics"})
    BY Listed, Zenon
  <2>4. Suits("EZO_ORP", "interlock_scope", {"interlock_scope", "statistics"})
    BY DEF Suits
  <2>5. ArePlaced("EZO_ORP", <<"interlock_scope", "statistics">>)
    BY Placed DEF EzoTypes
  <2> QED
    BY <2>1, <2>2, <2>3, <2>4, <2>5, FieldNames, Zenon
<1>13. AreFieldNames("EZO_TEMP", Templates["EZO_TEMP"])
  <2>1. Templates["EZO_TEMP"] = EzoTemplates["EZO_TEMP"]
    BY DEF Templates, Types, EzoTypes, ConditionTemplates, EzoTemplates, I2cTemplates, TempTemplates, DoserTemplates, GpioTemplates, ValueTemplates
  <2>2. EzoTemplates["EZO_TEMP"] = <<"interlock_scope", "statistics">>
    BY DEF EzoTemplates, EzoTypes
  <2>3. IsListed(<<"interlock_scope", "statistics">>, "interlock_scope", {"interlock_scope", "statistics"})
    BY Listed, Zenon
  <2>4. Suits("EZO_TEMP", "interlock_scope", {"interlock_scope", "statistics"})
    BY DEF Suits
  <2>5. ArePlaced("EZO_TEMP", <<"interlock_scope", "statistics">>)
    BY Placed DEF EzoTypes
  <2> QED
    BY <2>1, <2>2, <2>3, <2>4, <2>5, FieldNames, Zenon
<1>14. AreFieldNames("EZO_PRS", Templates["EZO_PRS"])
  <2>1. Templates["EZO_PRS"] = EzoTemplates["EZO_PRS"]
    BY DEF Templates, Types, EzoTypes, ConditionTemplates, EzoTemplates, I2cTemplates, TempTemplates, DoserTemplates, GpioTemplates, ValueTemplates
  <2>2. EzoTemplates["EZO_PRS"] = <<"interlock_scope", "statistics">>
    BY DEF EzoTemplates, EzoTypes
  <2>3. IsListed(<<"interlock_scope", "statistics">>, "interlock_scope", {"interlock_scope", "statistics"})
    BY Listed, Zenon
  <2>4. Suits("EZO_PRS", "interlock_scope", {"interlock_scope", "statistics"})
    BY DEF Suits
  <2>5. ArePlaced("EZO_PRS", <<"interlock_scope", "statistics">>)
    BY Placed DEF EzoTypes
  <2> QED
    BY <2>1, <2>2, <2>3, <2>4, <2>5, FieldNames, Zenon
<1> QED
  BY TypesAre, <1>1, <1>2, <1>3, <1>4, <1>5, <1>6, <1>7, <1>8, <1>9, <1>10, <1>11, <1>12, <1>13, <1>14

\* A type by its prefix.
LEMMA PrefixFacts ==
  ASSUME NEW t \in Types
  PROVE  /\ Prefix[t] \in DOMAIN KnownNames /\ {"label", "ID"} \subseteq KnownNames[Prefix[t]]
         /\ TypeWord(t) # Unset => "type" \in KnownNames[Prefix[t]]
         /\ Prefix[t] = "gpio_doser" <=> t = "GPIO_PMP"
         /\ Prefix[t] = "mqtt_sensor" <=> t = "MQTT_VALUE"
         /\ Prefix[t] = "mqtt_condition" <=> t = "MQTT_COND"
         /\ Prefix[t] = "gpio_condition" <=> t = "GPIO_COND"
         /\ Prefix[t] = "sysfs_sensor" <=> t = "SYSFS_VALUE"
         /\ Prefix[t] = "gpio_input" <=> t = "GPIO_INPUT"
         /\ Prefix[t] = "gpio_output" <=> t = "GPIO_OUTPUT"
         /\ Prefix[t] = "prs_sensor" <=> t \in {"I2C_PRS", "EZO_PRS"}
         /\ t \in {"MQTT_TEMP", "D1W_TEMP"} => Prefix[t] = "temp_sensor"
<1>1. t \in {"MQTT_COND", "GPIO_COND", "I2C_PRS", "MQTT_TEMP", "D1W_TEMP", "GPIO_PMP", "GPIO_OUTPUT", "GPIO_INPUT",
             "SYSFS_VALUE", "MQTT_VALUE", "EZO_PH", "EZO_ORP", "EZO_TEMP", "EZO_PRS"}
  BY TypesAre
<1>2. PICK pre : pre = Prefix[t]
  OBVIOUS
<1>3. pre = CASE t = "MQTT_COND" -> "mqtt_condition"
              [] t = "GPIO_COND" -> "gpio_condition"
              [] t = "EZO_PH" -> "ph_sensor"
              [] t = "EZO_ORP" -> "orp_sensor"
              [] t \in {"EZO_PRS", "I2C_PRS"} -> "prs_sensor"
              [] t \in {"EZO_TEMP", "MQTT_TEMP", "D1W_TEMP"} -> "temp_sensor"
              [] t = "SYSFS_VALUE" -> "sysfs_sensor"
              [] t = "GPIO_PMP" -> "gpio_doser"
              [] t = "GPIO_OUTPUT" -> "gpio_output"
              [] t = "GPIO_INPUT" -> "gpio_input"
              [] t = "MQTT_VALUE" -> "mqtt_sensor"
  BY <1>2 DEF Prefix
<1>4. pre \in {"mqtt_condition", "gpio_condition", "ph_sensor", "orp_sensor", "prs_sensor", "mqtt_sensor",
               "temp_sensor", "gpio_doser", "gpio_input", "gpio_output", "sysfs_sensor"}
  BY <1>1, <1>3
<1>5. pre \in DOMAIN KnownNames /\ {"label", "ID"} \subseteq KnownNames[pre]
  BY <1>4 DEF KnownNames
<1>6. t \in EzoTypes \cup {"MQTT_TEMP", "D1W_TEMP"} => "type" \in KnownNames[pre]
  BY <1>1, <1>3 DEF KnownNames, EzoTypes
<1>7. TypeWord(t) # Unset => t \in EzoTypes \cup {"MQTT_TEMP", "D1W_TEMP"}
  BY DEF TypeWord
<1> QED
  BY <1>1, <1>2, <1>3, <1>5, <1>6, <1>7

LEMMA PrefixGiven ==
  ASSUME NEW t \in Types PROVE Prefix[t] # ""
<1>1. PICK pre : pre = Prefix[t]
  OBVIOUS
<1>2. pre \in DOMAIN KnownNames
  BY <1>1, PrefixFacts
<1>3. "" \notin DOMAIN KnownNames
  BY DEF KnownNames
<1> QED
  BY <1>1, <1>2, <1>3

IsBlock(b) ==
  /\ b = [label |-> b.label, type |-> b.type, id |-> b.id, names |-> b.names, at |-> b.at]
  /\ b.type \in Types /\ IsId(b.id) /\ (b.id # NoId => b.id[1] = Family(b.type))
  /\ b.names \in {PageFields[b.type], Templates[b.type]} /\ DOMAIN b.at = ToSet(b.names)
  /\ b.type = "GPIO_PMP" => b.at["type"] \in Roles \cup {"gpio", "Active High", "Active Low"}
  /\ b.type = "I2C_PRS" => b.at["type"] \in {"PTE7300", "HSC/SSC"}
  /\ \A n \in DOMAIN b.at \cap DOMAIN Taken[b.type] : Fits(b.type, n, b.at[n])

LEMMA BlockNames ==
  ASSUME NEW b, IsBlock(b)
  PROVE  AreFieldNames(b.type, b.names) /\ Len(b.names) \in Nat /\ DOMAIN b.at = {b.names[i] : i \in 1..Len(b.names)}
<1>1. PICK names : names = b.names
  OBVIOUS
<1>2. AreFieldNames(b.type, names)
  BY <1>1, PageFieldsAreNames, TemplatesAreNames DEF IsBlock
<1>3. IsList(names)
  BY <1>2 DEF AreFieldNames
<1>4. Len(names) \in Nat /\ DOMAIN names = 1..Len(names)
  BY <1>3, ListFacts
<1>5. DOMAIN b.at = {names[i] : i \in 1..Len(names)}
  BY <1>1, <1>4 DEF IsBlock, ToSet
<1> QED
  BY <1>1, <1>2, <1>4, <1>5

LEMMA PumpNames ==
  ASSUME NEW b, IsBlock(b), b.type = "GPIO_PMP" PROVE \E i \in 1..Len(b.names) : b.names[i] = "tank_total_volume"
<1>1. PICK names : names = <<"type", "pin", "pin_mode", "ml_per_second", "running_dose_max_ml",
                            "tank_total_volume", "tank_uom", "tank_min_volume", "interlock_scope">>
  OBVIOUS
<1>2. PageFields["GPIO_PMP"] = names
  <2>1. PageFields["GPIO_PMP"] = DoserFields["GPIO_PMP"]
    BY DEF PageFields, Types, EzoTypes, ConditionFields, EzoFields, I2cFields, TempFields, DoserFields, GpioFields, ValueFields
  <2> QED
    BY <1>1, <2>1, Zenon DEF DoserFields
<1>3. Templates["GPIO_PMP"] = names
  <2>1. Templates["GPIO_PMP"] = DoserTemplates["GPIO_PMP"]
    BY DEF Templates, Types, EzoTypes, ConditionTemplates, EzoTemplates, I2cTemplates, TempTemplates, DoserTemplates, GpioTemplates, ValueTemplates
  <2> QED
    BY <1>1, <2>1, Zenon DEF DoserTemplates
<1>4. b.names = names
  BY <1>2, <1>3 DEF IsBlock
<1>5. 6 \in 1..Len(names) /\ names[6] = "tank_total_volume"
  BY <1>1
<1> QED
  BY <1>4, <1>5

LEMMA KeptFacts ==
  ASSUME NEW b, IsBlock(b), NEW i \in 1..Len(b.names), IsKept(b.type, b.names[i])
  PROVE  LET s == SlotOf[b.names[i]]
         IN  /\ IsPlaced(b.type, b.names, i) /\ s \in FieldSlots \cup {"address"}
             /\ s = "address" => b.names[i] \in Numbers /\ b.type # "GPIO_PMP"
<1>1. PICK n : n = b.names[i]
  OBVIOUS
<1>2. IsPlaced(b.type, b.names, i)
  BY BlockNames DEF AreFieldNames, ArePlaced
<1>3. n \in DOMAIN SlotOf /\ (n = "address" => b.type # "GPIO_PMP")
  BY <1>1, <1>2 DEF IsPlaced
<1>4. SlotOf[n] \in FieldSlots \cup {"address"}
  BY <1>3, SlotFacts DEF FieldSlots, AllSlots, Slots, SlotOf
<1>5. SlotOf[n] = "address" => n = "address"
  BY <1>3 DEF SlotOf
<1> QED
  BY <1>1, <1>2, <1>3, <1>4, <1>5 DEF Numbers

\* The value that the slot of a field has after the lines of a block.
ValueOf(b, n) == IF HasNoValue(b, n) THEN Unset ELSE b.at[n]

\* The slots after the first k fields of b: those have their values, and the others none, or one that is overwritten.
Stored(slot, b, k) ==
  /\ \A i \in 1..Len(b.names) : IsKept(b.type, b.names[i]) =>
       /\ i <= k => slot[SlotOf[b.names[i]]] = ValueOf(b, b.names[i])
       /\ i > k => slot[SlotOf[b.names[i]]] = Unset \/ (b.names[i] \in Numbers /\ b.type # "GPIO_PMP")
  /\ k >= 1 /\ b.type = "GPIO_PMP" /\ b.at["type"] \in Roles => slot["role"] = b.at["type"]

\* The label clears the slots.
LEMMA NothingStored ==
  ASSUME NEW b, IsBlock(b), NEW slot, \A s \in FieldSlots : slot[s] = Unset
  PROVE  Stored(slot, b, 0)
<1>1. ASSUME NEW i \in 1..Len(b.names), IsKept(b.type, b.names[i])
      PROVE  slot[SlotOf[b.names[i]]] = Unset \/ (b.names[i] \in Numbers /\ b.type # "GPIO_PMP")
  BY <1>1, KeptFacts
<1> QED
  BY <1>1, BlockNames DEF Stored

\* The word of a type leaves the slots of the fields as they are.
LEMMA WordStored ==
  ASSUME NEW b, IsBlock(b), NEW slot, Stored(slot, b, 0), NEW new, \A s \in FieldSlots : new[s] = slot[s]
  PROVE  Stored(new, b, 0)
<1>1. ASSUME NEW i \in 1..Len(b.names), IsKept(b.type, b.names[i])
      PROVE  new[SlotOf[b.names[i]]] = Unset \/ (b.names[i] \in Numbers /\ b.type # "GPIO_PMP")
  <2>1. i > 0
    BY BlockNames
  <2>2. slot[SlotOf[b.names[i]]] = Unset \/ (b.names[i] \in Numbers /\ b.type # "GPIO_PMP")
    BY <1>1, <2>1 DEF Stored
  <2> QED
    BY <1>1, <2>2, KeptFacts
<1> QED
  BY <1>1, BlockNames DEF Stored

\* The field `type' is the first.
LEMMA TypeStored ==
  ASSUME NEW b, IsBlock(b), NEW k \in 1..Len(b.names), b.names[k] = "type", NEW slot, Stored(slot, b, k - 1),
         NEW new, \A s \in FieldSlots : new[s] = slot[s],
         b.type = "GPIO_PMP" /\ b.at["type"] \in Roles => new["role"] = b.at["type"]
  PROVE  Stored(new, b, k)
<1>1. k = 1 /\ k - 1 = 0
  BY BlockNames DEF AreFieldNames, ArePlaced
<1>2. Stored(new, b, 0)
  BY <1>1, WordStored
<1>3. ASSUME NEW i \in 1..Len(b.names), IsKept(b.type, b.names[i])
      PROVE  i > 1 /\ (new[SlotOf[b.names[i]]] = Unset \/ (b.names[i] \in Numbers /\ b.type # "GPIO_PMP"))
  <2>1. i # 1
    BY <1>1, <1>3 DEF IsKept
  <2>2. i > 0 /\ i > 1
    BY <2>1, BlockNames
  <2> QED
    BY <1>2, <1>3, <2>2 DEF Stored
<1>4. ASSUME NEW i \in 1..Len(b.names), IsKept(b.type, b.names[i]) PROVE ~(i <= 1)
  BY <1>3, <1>4, BlockNames
<1> QED
  BY <1>1, <1>3, <1>4 DEF Stored

LEMMA FieldStored ==
  ASSUME NEW b, IsBlock(b), NEW k \in 1..Len(b.names), NEW n, n = b.names[k], n \in DOMAIN SlotOf, ~HasNoValue(b, n),
         NEW slot, DOMAIN slot = AllSlots, Stored(slot, b, k - 1),
         NEW new, new = [slot EXCEPT ![SlotOf[n]] = b.at[n]]
  PROVE  Stored(new, b, k)
<1>1. PICK s : s = SlotOf[n]
  OBVIOUS
<1>2. s \in AllSlots /\ s # "role"
  BY <1>1, SlotFacts DEF AllSlots, Slots
<1>3. new[s] = b.at[n] /\ \A r \in AllSlots : r # s => new[r] = slot[r]
  BY <1>1, <1>2
<1>4. ASSUME NEW i \in 1..Len(b.names), IsKept(b.type, b.names[i])
      PROVE  /\ i <= k => new[SlotOf[b.names[i]]] = ValueOf(b, b.names[i])
             /\ i > k => new[SlotOf[b.names[i]]] = Unset \/ (b.names[i] \in Numbers /\ b.type # "GPIO_PMP")
  <2>1. PICK r : r = SlotOf[b.names[i]]
    OBVIOUS
  <2>2. /\ IsPlaced(b.type, b.names, i) /\ r \in FieldSlots \cup {"address"}
    BY <1>4, <2>1, KeptFacts
  <2>3. r \in AllSlots
    BY <2>2, SlotsHave DEF FieldSlots
  <2>4. k # i /\ s = r => k < i /\ b.names[i] \in Numbers /\ b.type # "GPIO_PMP"
    BY <1>1, <2>1, <2>2 DEF IsPlaced
  <2>5. CASE i = k
    <3>1. new[r] = ValueOf(b, b.names[i])
      BY <1>1, <1>3, <2>1, <2>5 DEF ValueOf
    <3> QED
      BY <2>1, <2>5, <3>1, BlockNames
  <2>6. CASE i < k
    <3>1. i <= k - 1 /\ ~(k < i)
      BY <2>6, BlockNames
    <3>2. new[r] = slot[r]
      BY <1>3, <2>3, <2>4, <2>6, <3>1
    <3>3. slot[r] = ValueOf(b, b.names[i])
      BY <1>4, <2>1, <3>1 DEF Stored
    <3> QED
      BY <2>1, <2>6, <3>1, <3>2, <3>3
  <2>7. CASE i > k
    <3>1. i > k - 1 /\ ~(i <= k)
      BY <2>7, BlockNames
    <3>2. slot[r] = Unset \/ (b.names[i] \in Numbers /\ b.type # "GPIO_PMP")
      BY <1>4, <2>1, <3>1 DEF Stored
    <3>3. r # s => new[r] = slot[r]
      BY <1>3, <2>3
    <3> QED
      BY <2>1, <2>4, <2>7, <3>1, <3>2, <3>3
  <2> QED
    BY <2>5, <2>6, <2>7, BlockNames
<1>5. ASSUME b.type = "GPIO_PMP", b.at["type"] \in Roles PROVE new["role"] = b.at["type"]
  <2>1. b.names[1] = "type" /\ "type" \notin DOMAIN SlotOf
    BY <1>5, BlockNames DEF AreFieldNames, SlotOf
  <2>2. k # 1
    BY <2>1
  <2>3. k - 1 >= 1
    BY <2>2, BlockNames
  <2>4. slot["role"] = b.at["type"]
    BY <1>5, <2>3 DEF Stored
  <2> QED
    BY <1>2, <1>3, <2>4, SlotsHave
<1> QED
  BY <1>4, <1>5 DEF Stored

\* A field that is not written, or whose line is passed over, has nothing to store.
Passed(b, n) ==
  \/ ~IsWritten(b, n)
  \/ ~Known(LineOf(b, n))
  \/ b.at[n] = Unset /\ n \notin Numbers

LEMMA PassedStored ==
  ASSUME NEW b, IsBlock(b), NEW k \in 1..Len(b.names), NEW n, n = b.names[k], Passed(b, n),
         NEW slot, Stored(slot, b, k - 1)
  PROVE  Stored(slot, b, k)
<1>1. ASSUME NEW i \in 1..Len(b.names), IsKept(b.type, b.names[i])
      PROVE  /\ i <= k => slot[SlotOf[b.names[i]]] = ValueOf(b, b.names[i])
             /\ i > k => slot[SlotOf[b.names[i]]] = Unset \/ (b.names[i] \in Numbers /\ b.type # "GPIO_PMP")
  <2>1. PICK r : r = SlotOf[b.names[i]]
    OBVIOUS
  <2>2. CASE i = k
    <3>1. Known(LineOf(b, n))
      BY <1>1, <2>2, PrefixFacts DEF IsKept, Known, LineOf, IsBlock
    <3>2. HasNoValue(b, n) \/ (b.at[n] = Unset /\ n \notin Numbers)
      BY <3>1 DEF Passed, IsWritten
    <3>3. ValueOf(b, n) = Unset
      BY <3>2 DEF ValueOf
    <3>4. i > k - 1
      BY <2>2, BlockNames
    <3>5. slot[r] = Unset \/ (n \in Numbers /\ b.type # "GPIO_PMP")
      BY <1>1, <2>1, <2>2, <3>4 DEF Stored
    <3>6. slot[r] = Unset
      BY <3>2, <3>5 DEF HasNoValue
    <3> QED
      BY <2>1, <2>2, <3>3, <3>6, BlockNames
  <2>3. CASE i < k
    <3>1. i <= k - 1 /\ ~(i > k)
      BY <2>3, BlockNames
    <3> QED
      BY <1>1, <3>1 DEF Stored
  <2>4. CASE i > k
    <3>1. i > k - 1 /\ ~(i <= k)
      BY <2>4, BlockNames
    <3> QED
      BY <1>1, <3>1 DEF Stored
  <2> QED
    BY <2>2, <2>3, <2>4, BlockNames
<1>2. ASSUME b.type = "GPIO_PMP", b.at["type"] \in Roles PROVE slot["role"] = b.at["type"]
  <2>1. b.names[1] = "type"
    BY <1>2, BlockNames DEF AreFieldNames
  <2>2. k # 1
    <3> SUFFICES ASSUME k = 1 PROVE FALSE
      OBVIOUS
    <3>1. n = "type"
      BY <2>1
    <3>2. b.at[n] # Unset
      BY <1>2, <3>1, UnsetAssumption DEF Roles
    <3>3. Prefix[b.type] = "gpio_doser"
      BY <1>2, PrefixFacts DEF IsBlock
    <3>4. Known(LineOf(b, n))
      BY <3>1, <3>3 DEF Known, LineOf, KnownNames
    <3>5. IsWritten(b, n)
      BY <3>1, <3>2 DEF IsWritten, HasNoValue
    <3> QED
      BY <3>2, <3>4, <3>5 DEF Passed
  <2>3. k - 1 >= 1
    BY <2>2, BlockNames
  <2> QED
    BY <1>2, <2>3 DEF Stored
<1> QED
  BY <1>1, <1>2 DEF Stored

\* The parser within the lines of b, after ks and the first k fields; it knows the type when it is sure.
Reading(p, b, ks, id, sure, k) ==
  /\ IsParser(p) /\ p.keys = ks /\ ~p.dead
  /\ p.st.label = b.label /\ p.st.id = id /\ Stored(p.st.slot, b, k)
  /\ sure => p.st.pending = b.type
  /\ ~sure => p.st.pending = "NONE"

LEMMA LabelRead ==
  ASSUME NEW p, IsParser(p), ~p.dead, NEW b, IsBlock(b), b.label # NoLabel,
         NEW line, line = [pre |-> Prefix[b.type], name |-> "label", val |-> b.label]
  PROVE  LET q == SetConfigValue(p, line)
             a == ActionStaging(p)
         IN  /\ q.dead = a.dead
             /\ ~a.dead =>
                  Reading(q, b, a.keys, NoId,
                          b.type \in {"MQTT_COND", "GPIO_COND", "SYSFS_VALUE", "GPIO_INPUT", "GPIO_OUTPUT"}, 0)
<1>1. line.pre = Prefix[b.type] /\ line.name = "label" /\ line.val = b.label /\ b.type \in Types
  BY DEF IsBlock
<1>2. Known(line) /\ line.val # Unset
  BY <1>1, PrefixFacts DEF Known, NoLabel
<1>3. PICK q : q = LabelLine(p, line)
  OBVIOUS
<1>4. SetConfigValue(p, line) = q
  BY <1>1, <1>2, <1>3 DEF SetConfigValue
<1>5. PICK a : a = ActionStaging(p)
  OBVIOUS
<1>6. /\ IsParser(q) /\ q.keys = a.keys /\ q.dead = a.dead
      /\ q.st.label = b.label /\ q.st.id = NoId /\ q.st.pending = LabelType(Prefix[b.type])
      /\ \A s \in AllSlots \ {"address"} : q.st.slot[s] = Unset
  BY <1>1, <1>3, <1>5, LabelLineFacts
<1>7. LabelType(Prefix[b.type]) =
        IF b.type \in {"MQTT_COND", "GPIO_COND", "SYSFS_VALUE", "GPIO_INPUT", "GPIO_OUTPUT"} THEN b.type ELSE "NONE"
  BY <1>1, PrefixFacts DEF LabelType
<1>8. IsParser(a)
  BY <1>5, ActionFacts
<1>9. Stored(q.st.slot, b, 0)
  <2>1. \A s \in FieldSlots : q.st.slot[s] = Unset
    BY <1>6 DEF FieldSlots
  <2> QED
    BY <2>1, NothingStored
<1> QED
  BY <1>4, <1>5, <1>6, <1>7, <1>8, <1>9 DEF Reading, IsParser

\* A line that changes the staging only.
LEMMA StagedRead ==
  ASSUME NEW p, NEW b, NEW ks, NEW id, NEW sure, NEW j, Reading(p, b, ks, id, sure, j),
         NEW st, IsStaging(st), NEW now, NEW known, NEW k,
         st.label = b.label, st.id = now, known => st.pending = b.type, ~known => st.pending = "NONE",
         Stored(st.slot, b, k)
  PROVE  Reading([p EXCEPT !.st = st], b, ks, now, known, k)
<1>1. PICK q : q = [p EXCEPT !.st = st]
  OBVIOUS
<1>2. IsParser(q) /\ q.st = st /\ q.keys = p.keys /\ q.dead = p.dead
  BY <1>1, ParserWith DEF Reading
<1> QED
  BY <1>1, <1>2 DEF Reading

LEMMA IdRead ==
  ASSUME NEW p, NEW b, IsBlock(b), NEW ks, NEW id, NEW sure, Reading(p, b, ks, id, sure, 0), b.id # NoId,
         NEW line, line = [pre |-> Prefix[b.type], name |-> "ID", val |-> b.id]
  PROVE  Reading(SetConfigValue(p, line), b, ks, b.id, sure, 0)
<1>1. line.pre = Prefix[b.type] /\ line.name = "ID" /\ line.val = b.id /\ b.type \in Types /\ IsId(b.id)
  BY DEF IsBlock
<1>2. b.id # Unset
  <2>1. PICK family, number : family = b.id[1] /\ number = b.id[2]
    OBVIOUS
  <2>2. b.id = <<family, number>> /\ number \in Nat /\ family \in {Family(t) : t \in Types}
    BY <1>1, <2>1 DEF IsBlock, IsId
  <2>3. b.id \in {Family(t) : t \in Types} \X Nat
    BY <2>2
  <2> QED
    BY <2>3, UnsetAssumption
<1>3. Known(line)
  BY <1>1, PrefixFacts DEF Known
<1>4. PICK st : st = [p.st EXCEPT !.id = b.id]
  OBVIOUS
<1>5. IsStaging(st) /\ st.label = p.st.label /\ st.id = b.id /\ st.pending = p.st.pending /\ st.slot = p.st.slot
  BY <1>1, <1>4, IdLineFacts DEF Reading, IsParser
<1>6. SetConfigValue(p, line) = [p EXCEPT !.st = st]
  <2>1. SetConfigValue(p, line) = [p EXCEPT !.st.id = b.id]
    BY <1>1, <1>2, <1>3 DEF SetConfigValue, Reading
  <2>2. p = [keys |-> p.keys, st |-> p.st, dead |-> p.dead]
    BY DEF Reading, IsParser
  <2> QED
    BY <1>4, <2>1, <2>2
<1>7. /\ st.label = b.label /\ (sure => st.pending = b.type) /\ (~sure => st.pending = "NONE")
      /\ Stored(st.slot, b, 0)
  BY <1>5 DEF Reading
<1>8. Reading([p EXCEPT !.st = st], b, ks, b.id, sure, 0)
  BY <1>5, <1>7, StagedRead
<1> QED
  BY <1>6, <1>8

LEMMA WordRead ==
  ASSUME NEW p, NEW b, IsBlock(b), NEW ks, NEW id, NEW sure, Reading(p, b, ks, id, sure, 0), TypeWord(b.type) # Unset,
         NEW line, line = [pre |-> Prefix[b.type], name |-> "type", val |-> TypeWord(b.type)]
  PROVE  Reading(SetConfigValue(p, line), b, ks, id, TRUE, 0)
<1>1. line.pre = Prefix[b.type] /\ line.name = "type" /\ line.val = TypeWord(b.type) /\ b.type \in Types
  BY DEF IsBlock
<1>2. Known(line)
  BY <1>1, PrefixFacts DEF Known
<1>3. PICK st : st = TypeLine(p.st, line)
  OBVIOUS
<1>4. IsStaging(st) /\ st.label = p.st.label /\ st.id = p.st.id /\ TypedBy(st, p.st, line)
  BY <1>1, <1>2, <1>3, TypeLineFacts DEF Reading, IsParser
<1>5. SetConfigValue(p, line) = [p EXCEPT !.st = st]
  BY <1>1, <1>2, <1>3 DEF SetConfigValue, Reading
<1>6. st.pending = b.type
  <2>1. b.type \in EzoTypes => line.val = "ezo"
    BY <1>1 DEF TypeWord, EzoTypes
  <2>2. b.type = "MQTT_TEMP" => line.val = "mqtt"
    BY <1>1 DEF TypeWord, EzoTypes
  <2>3. b.type = "D1W_TEMP" => line.val = "d1w"
    BY <1>1 DEF TypeWord, EzoTypes
  <2>4. b.type \in EzoTypes \cup {"MQTT_TEMP", "D1W_TEMP"}
    BY DEF TypeWord
  <2> QED
    BY <1>1, <1>4, <2>1, <2>2, <2>3, <2>4 DEF TypedBy
<1>7. st.label = b.label /\ st.id = id
  BY <1>4 DEF Reading
<1>9. Stored(st.slot, b, 0)
  BY <1>4, WordStored DEF Reading, TypedBy
<1>8. Reading([p EXCEPT !.st = st], b, ks, id, TRUE, 0)
  BY <1>4, <1>6, <1>7, <1>9, StagedRead
<1> QED
  BY <1>5, <1>8

\* The types that the first lines of a block say, without its fields.
SaysType(t) == t \notin {"GPIO_PMP", "I2C_PRS", "MQTT_VALUE"}

\* The field that says of which type the device is, where neither label nor type's word does.
Decides(b, n) ==
  \/ n = "type" /\ (b.type = "GPIO_PMP" \/ (b.type = "I2C_PRS" /\ b.at["type"] = "PTE7300"))
  \/ n = "topic" /\ b.type = "MQTT_VALUE" /\ b.at["topic"] # Unset

LEMMA FieldRead ==
  ASSUME NEW p, NEW b, IsBlock(b), NEW ks, NEW id, NEW k \in 1..Len(b.names),
         NEW sure, SaysType(b.type) => sure, Reading(p, b, ks, id, sure, k - 1),
         NEW n, n = b.names[k], IsWritten(b, n)
  PROVE  Reading(SetConfigValue(p, LineOf(b, n)), b, ks, id, sure \/ Decides(b, n), k)
<1>0. n \notin {"label", "ID"} /\ (n = "type" => b.type \in {"GPIO_PMP", "I2C_PRS", "GPIO_INPUT"})
  BY BlockNames DEF AreFieldNames
<1>1. PICK line : line = LineOf(b, n)
  OBVIOUS
<1>2. line.pre = Prefix[b.type] /\ line.name = n /\ line.val = b.at[n] /\ b.type \in Types
  BY <1>1 DEF LineOf, IsBlock
<1>3. ASSUME Decides(b, n)
      PROVE  Known(line) /\ line.val # Unset
  <2>1. CASE n = "type"
    <3>1. line.val # Unset
      <4>1. b.at["type"] \in Roles \cup {"gpio", "Active High", "Active Low", "PTE7300"}
        BY <1>3, <2>1 DEF Decides, IsBlock
      <4> QED
        BY <1>2, <2>1, <4>1, UnsetAssumption DEF Roles
    <3>2. line.pre \in {"gpio_doser", "prs_sensor"}
      BY <1>2, <1>3, <2>1, PrefixFacts DEF Decides
    <3>3. Known(line)
      BY <1>2, <2>1, <3>2 DEF Known, KnownNames
    <3> QED
      BY <3>1, <3>3
  <2>2. CASE n # "type"
    <3>1. n = "topic" /\ b.type = "MQTT_VALUE" /\ b.at["topic"] # Unset
      BY <1>3, <2>2 DEF Decides
    <3>2. line.pre = "mqtt_sensor"
      BY <1>2, <3>1, PrefixFacts
    <3> QED
      BY <1>2, <3>1, <3>2 DEF Known, KnownNames
  <2> QED
    BY <2>1, <2>2
<1>4. CASE ~Known(line) \/ (line.val = Unset /\ line.name \notin Numbers)
  <2>1. SetConfigValue(p, line) = p
    BY <1>4 DEF SetConfigValue
  <2>2. ~Decides(b, n)
    BY <1>3, <1>4
  <2>3. Passed(b, n)
    BY <1>1, <1>2, <1>4 DEF Passed
  <2>4. Stored(p.st.slot, b, k)
    BY <2>3, PassedStored DEF Reading
  <2> QED
    BY <1>1, <2>1, <2>2, <2>4 DEF Reading
<1>5. CASE Known(line) /\ ~(line.val = Unset /\ line.name \notin Numbers) /\ n = "type"
  <2>1. PICK st : st = TypeLine(p.st, line)
    OBVIOUS
  <2>2. IsStaging(st) /\ st.label = p.st.label /\ st.id = p.st.id /\ TypedBy(st, p.st, line)
    BY <1>2, <1>5, <2>1, TypeLineFacts DEF Reading, IsParser
  <2>3. SetConfigValue(p, line) = [p EXCEPT !.st = st]
    BY <1>2, <1>5, <2>1 DEF SetConfigValue, Reading
  <2>4. b.type \in {"GPIO_PMP", "I2C_PRS"}
    <3>1. b.type # "GPIO_INPUT"
      BY <1>2, <1>5, PrefixFacts, KnownFacts
    <3> QED
      BY <1>0, <1>5, <3>1
  <2>7. Stored(st.slot, b, k)
    <3>1. b.type = "GPIO_PMP" => line.pre = "gpio_doser"
      BY <1>2, PrefixFacts
    <3>2. b.type = "GPIO_PMP" /\ b.at["type"] \in Roles => st.slot["role"] = b.at["type"]
      BY <1>2, <1>5, <2>2, <3>1 DEF TypedBy
    <3>3. \A s \in FieldSlots : st.slot[s] = p.st.slot[s]
      BY <2>2 DEF TypedBy
    <3>4. Stored(p.st.slot, b, k - 1) /\ b.names[k] = "type"
      BY <1>5 DEF Reading
    <3> QED
      BY <3>2, <3>3, <3>4, TypeStored
  <2>5. CASE b.type = "GPIO_PMP"
    <3>1. line.pre = "gpio_doser" /\ line.val \notin {"ezo", "d1w", "mqtt"}
      BY <1>2, <1>5, <2>5, PrefixFacts DEF IsBlock, Roles
    <3>2. st.pending = b.type
      BY <2>2, <2>5, <3>1 DEF TypedBy
    <3>3. st.label = b.label /\ st.id = id
      BY <2>2 DEF Reading
    <3>5. Decides(b, n)
      BY <1>5, <2>5 DEF Decides
    <3>4. Reading([p EXCEPT !.st = st], b, ks, id, sure \/ Decides(b, n), k)
      BY <2>2, <2>7, <3>2, <3>3, <3>5, StagedRead
    <3> QED
      BY <1>1, <2>3, <3>4
  <2>6. CASE b.type = "I2C_PRS"
    <3>1. line.pre # "gpio_doser" /\ line.val \in {"PTE7300", "HSC/SSC"}
      BY <1>2, <1>5, <2>6, PrefixFacts DEF IsBlock
    <3>2. (sure \/ Decides(b, n) => st.pending = b.type) /\ (~(sure \/ Decides(b, n)) => st.pending = "NONE")
      <4>1. CASE line.val = "PTE7300"
        <5>1. st.pending = b.type
          BY <2>2, <2>6, <3>1, <4>1 DEF TypedBy
        <5>2. Decides(b, n)
          BY <1>2, <1>5, <2>6, <4>1 DEF Decides
        <5> QED
          BY <5>1, <5>2
      <4>2. CASE line.val = "HSC/SSC"
        <5>1. st.pending = p.st.pending
          BY <2>2, <3>1, <4>2 DEF TypedBy
        <5>2. ~Decides(b, n)
          BY <1>2, <1>5, <2>6, <4>2 DEF Decides
        <5> QED
          BY <5>1, <5>2 DEF Reading
      <4> QED
        BY <3>1, <4>1, <4>2
    <3>3. st.label = b.label /\ st.id = id
      BY <2>2 DEF Reading
    <3>4. Reading([p EXCEPT !.st = st], b, ks, id, sure \/ Decides(b, n), k)
      BY <2>2, <2>7, <3>2, <3>3, StagedRead
    <3> QED
      BY <1>1, <2>3, <3>4
  <2> QED
    BY <2>4, <2>5, <2>6
<1>6. CASE Known(line) /\ ~(line.val = Unset /\ line.name \notin Numbers) /\ n # "type"
  <2>1. PICK st : st = FieldLine(p.st, line)
    OBVIOUS
  <2>2. line.name \notin {"label", "type", "ID"}
    BY <1>0, <1>2, <1>6
  <2>3. /\ IsStaging(st) /\ st.label = p.st.label /\ st.id = p.st.id /\ st.pending = PendingBy(p.st, line)
        /\ st.slot = [p.st.slot EXCEPT ![SlotOf[n]] = b.at[n]]
    BY <1>2, <1>6, <2>1, <2>2, FieldLineFacts DEF Reading, IsParser
  <2>4. SetConfigValue(p, line) = [p EXCEPT !.st = st]
    BY <1>6, <2>1, <2>2 DEF SetConfigValue, Reading
  <2>5. ~(sure \/ Decides(b, n)) => PendingBy(p.st, line) = p.st.pending
    <3> SUFFICES ASSUME ~sure, ~Decides(b, n) PROVE PendingBy(p.st, line) = p.st.pending
      OBVIOUS
    <3>1. b.type \in {"GPIO_PMP", "I2C_PRS", "MQTT_VALUE"}
      BY DEF SaysType
    <3>2. line.pre \in {"gpio_doser", "prs_sensor", "mqtt_sensor"} /\ (line.pre = "mqtt_sensor" => b.type = "MQTT_VALUE")
      BY <1>2, <3>1, PrefixFacts
    <3>3. ~(line.pre = "mqtt_sensor" /\ line.name = "topic")
      BY <1>2, <1>6, <3>2 DEF Decides, Numbers
    <3> QED
      BY <3>2, <3>3 DEF PendingBy
  <2>10. sure => PendingBy(p.st, line) = b.type
    BY <1>2, PrefixFacts DEF PendingBy, Reading
  <2>6. Decides(b, n) => PendingBy(p.st, line) = b.type
    BY <1>2, <1>6, PrefixFacts DEF Decides, PendingBy
  <2>7. (sure \/ Decides(b, n) => st.pending = b.type) /\ (~(sure \/ Decides(b, n)) => st.pending = "NONE")
    BY <2>3, <2>5, <2>6, <2>10 DEF Reading
  <2>11. Stored(st.slot, b, k)
    <3>1. n \in DOMAIN SlotOf
      BY <1>2, <1>6, <2>2, KnownFacts
    <3>2. DOMAIN p.st.slot = AllSlots
      BY DEF Reading, IsParser, IsStaging
    <3>3. ~HasNoValue(b, n)
      BY DEF IsWritten
    <3> QED
      BY <2>3, <3>1, <3>2, <3>3, FieldStored DEF Reading
  <2>8. st.label = b.label /\ st.id = id
    BY <2>3 DEF Reading
  <2>9. Reading([p EXCEPT !.st = st], b, ks, id, sure \/ Decides(b, n), k)
    BY <2>3, <2>7, <2>8, <2>11, StagedRead
  <2> QED
    BY <1>1, <2>4, <2>9
<1> QED
  BY <1>4, <1>5, <1>6

OneLine(line) == <<line>>

LEMMA ReadOneLine ==
  ASSUME NEW p, NEW line PROVE Read(p, OneLine(line)) = SetConfigValue(p, line) /\ IsList(OneLine(line))
<1>1. PICK none : none = <<>>
  OBVIOUS
<1>2. IsList(none) /\ Append(none, line) = OneLine(line)
  BY <1>1 DEF IsList, OneLine
<1>3. Read(p, none) = p
  BY <1>1, ReadNone
<1>4. Read(p, Append(none, line)) = SetConfigValue(Read(p, none), line) /\ IsList(Append(none, line))
  BY <1>2, ReadOne
<1> QED
  BY <1>2, <1>3, <1>4

LEMMA HeadRead ==
  ASSUME NEW p, IsParser(p), ~p.dead, NEW b, IsBlock(b), b.label # NoLabel
  PROVE  LET q == Read(p, HeadLines(b))
             a == ActionStaging(p)
         IN  /\ IsList(HeadLines(b)) /\ q.dead = a.dead
             /\ ~a.dead => Reading(q, b, a.keys, b.id, SaysType(b.type), 0)
<1>1. PICK a : a = ActionStaging(p)
  OBVIOUS
<1> DEFINE labelLine == [pre |-> Prefix[b.type], name |-> "label", val |-> b.label]
           idLine == [pre |-> Prefix[b.type], name |-> "ID", val |-> b.id]
           wordLine == [pre |-> Prefix[b.type], name |-> "type", val |-> TypeWord(b.type)]
           idLines == IF b.id = NoId THEN <<>> ELSE OneLine(idLine)
           wordLines == IF TypeWord(b.type) = Unset THEN <<>> ELSE OneLine(wordLine)
           early == b.type \in {"MQTT_COND", "GPIO_COND", "SYSFS_VALUE", "GPIO_INPUT", "GPIO_OUTPUT"}
<1>2. HeadLines(b) = (OneLine(labelLine) \o idLines) \o wordLines
  BY Zenon DEF HeadLines, OneLine
<1>3. PICK p1 : p1 = SetConfigValue(p, labelLine)
  OBVIOUS
<1>4. p1.dead = a.dead /\ (~a.dead => Reading(p1, b, a.keys, NoId, early, 0))
  BY <1>1, <1>3, LabelRead
<1>5. \A q : ~a.dead /\ Reading(q, b, a.keys, NoId, early, 0) /\ b.id # NoId =>
               Reading(SetConfigValue(q, idLine), b, a.keys, b.id, early, 0)
  BY IdRead
<1>6. \A q : ~a.dead /\ Reading(q, b, a.keys, b.id, early, 0) /\ TypeWord(b.type) # Unset =>
               Reading(SetConfigValue(q, wordLine), b, a.keys, b.id, TRUE, 0)
  BY WordRead
<1>7. /\ Read(p, OneLine(labelLine)) = p1 /\ IsList(OneLine(labelLine))
      /\ \A q : Read(q, OneLine(idLine)) = SetConfigValue(q, idLine) /\ IsList(OneLine(idLine))
      /\ \A q : Read(q, OneLine(wordLine)) = SetConfigValue(q, wordLine) /\ IsList(OneLine(wordLine))
  BY <1>3, ReadOneLine
<1>8. \A q : Read(q, <<>>) = q
  BY ReadNone
<1>9. IsList(<<>>)
  BY DEF IsList
<1>10. IsList(idLines) /\ IsList(wordLines)
  BY <1>7, <1>9
<1> HIDE DEF labelLine, idLine, wordLine
<1>11. PICK p2 : p2 = Read(p1, idLines)
  OBVIOUS
<1>12. PICK p3 : p3 = Read(p2, wordLines)
  OBVIOUS
<1>13. \A q : q.dead => \A line : SetConfigValue(q, line) = q
  BY DEF SetConfigValue
<1>14. CASE a.dead
  <2>1. p2 = p1
    BY <1>4, <1>7, <1>8, <1>11, <1>13, <1>14
  <2>2. p3 = p1
    BY <1>4, <1>7, <1>8, <1>12, <1>13, <1>14, <2>1
  <2> QED
    <3>1. IsList(OneLine(labelLine) \o idLines) /\ Read(p, OneLine(labelLine) \o idLines) = p2
      BY <1>7, <1>10, <1>11, ReadBoth
    <3>2. IsList(HeadLines(b)) /\ Read(p, HeadLines(b)) = p3
      BY <1>2, <1>10, <1>12, <3>1, ReadBoth
    <3> QED
      BY <1>1, <1>4, <1>14, <2>2, <3>2
<1>15. CASE ~a.dead
  <2>1. Reading(p2, b, a.keys, b.id, early, 0)
    BY <1>4, <1>5, <1>7, <1>8, <1>11, <1>15
  <2>2. TypeWord(b.type) = Unset => (SaysType(b.type) => early)
    <3>1. TypeWord(b.type) = Unset => b.type \notin EzoTypes \cup {"MQTT_TEMP", "D1W_TEMP"}
      BY UnsetAssumption DEF TypeWord, EzoTypes
    <3>2. b.type \in Types
      BY DEF IsBlock
    <3> QED
      BY <3>1, <3>2, TypesAre DEF SaysType, EzoTypes
  <2>3. TypeWord(b.type) # Unset => SaysType(b.type)
    BY DEF TypeWord, SaysType, EzoTypes
  <2>4. early => SaysType(b.type)
    BY DEF SaysType
  <2>5. Reading(p3, b, a.keys, b.id, SaysType(b.type), 0)
    <3>1. CASE TypeWord(b.type) = Unset
      <4>1. p3 = p2
        BY <1>8, <1>12, <3>1
      <4> QED
        BY <2>1, <2>2, <2>4, <3>1, <4>1 DEF Reading
    <3>2. CASE TypeWord(b.type) # Unset
      <4>1. p3 = SetConfigValue(p2, wordLine)
        BY <1>7, <1>12, <3>2
      <4>2. Reading(p3, b, a.keys, b.id, TRUE, 0)
        BY <1>6, <1>15, <2>1, <3>2, <4>1
      <4> QED
        BY <2>3, <3>2, <4>2 DEF Reading
    <3> QED
      BY <3>1, <3>2
  <2>6. IsList(OneLine(labelLine) \o idLines) /\ Read(p, OneLine(labelLine) \o idLines) = p2
    BY <1>7, <1>10, <1>11, ReadBoth
  <2>7. IsList(HeadLines(b)) /\ Read(p, HeadLines(b)) = p3
    BY <1>2, <1>10, <1>12, <2>6, ReadBoth
  <2>8. a.dead = FALSE /\ p3.dead = FALSE
    BY <1>1, <1>15, <2>5, ActionFacts DEF Reading, IsParser
  <2> QED
    BY <1>1, <1>15, <2>5, <2>7, <2>8
<1> QED
  BY <1>14, <1>15

LEMMA FieldsRead ==
  ASSUME NEW p, NEW b, IsBlock(b), NEW ks, NEW id, Reading(p, b, ks, id, SaysType(b.type), 0)
  PROVE  /\ IsList(FieldLines(b))
         /\ Reading(Read(p, FieldLines(b)), b, ks, id, MakesADevice(b), Len(b.names))
<1>1. PICK names : names = b.names
  OBVIOUS
<1>2. AreFieldNames(b.type, names)
  BY <1>1, PageFieldsAreNames, TemplatesAreNames DEF IsBlock
<1>3. PICK S : names \in Seq(S)
  BY <1>2 DEF AreFieldNames, IsList
<1>4. PICK n \in Nat : n = Len(names)
  BY <1>3
<1>5. PICK path : /\ path[0] = <<>>
                  /\ \A k \in 1..n : path[k] = IF IsWritten(b, names[k]) THEN Append(path[k - 1], LineOf(b, names[k]))
                                               ELSE path[k - 1]
                  /\ path[n] = FieldLines(b)
  BY <1>1, <1>3, <1>4, FieldsFold
<1> DEFINE Sure(k) == SaysType(b.type) \/ (k >= 1 /\ MakesADevice(b))
           Done(k) == IsList(path[k]) /\ Reading(Read(p, path[k]), b, ks, id, Sure(k), k)
           T == {k \in 0..n : ~Done(k)}
<1>6. 0 \notin T
  <2>1. IsList(path[0])
    BY <1>5 DEF IsList
  <2>2. Read(p, path[0]) = p
    BY <1>5, ReadNone
  <2> QED
    BY <2>1, <2>2 DEF Reading
<1>7. ASSUME NEW k \in 1..n, k - 1 \in 0..n, k - 1 \notin T PROVE k \notin T
  <2>1. PICK name : name = names[k]
    OBVIOUS
  <2>2. k \in 1..Len(b.names) /\ name = b.names[k]
    BY <1>1, <1>4, <2>1
  <2>3. PICK ls : ls = path[k - 1]
    OBVIOUS
  <2>4. PICK q : q = Read(p, ls)
    OBVIOUS
  <2>5. IsList(ls) /\ Reading(q, b, ks, id, Sure(k - 1), k - 1)
    BY <1>7, <2>3, <2>4
  <2>6. ~SaysType(b.type) /\ MakesADevice(b) /\ k = 1 => IsWritten(b, name) /\ Decides(b, name)
    <3> SUFFICES ASSUME ~SaysType(b.type), MakesADevice(b), k = 1 PROVE IsWritten(b, name) /\ Decides(b, name)
      OBVIOUS
    <3>1. b.type \in {"GPIO_PMP", "I2C_PRS"} => name = "type"
      BY <1>2, <2>1 DEF AreFieldNames
    <3>2. b.type = "MQTT_VALUE" => name = "topic"
      BY <1>2, <2>1 DEF AreFieldNames
    <3>3. Decides(b, name)
      BY <3>1, <3>2 DEF Decides, MakesADevice, SaysType
    <3>4. b.at[name] # Unset
      BY <3>1, <3>2, UnsetAssumption DEF MakesADevice, SaysType, IsBlock, Roles
    <3>5. ~HasNoValue(b, name)
      BY <3>1, <3>2 DEF HasNoValue, SaysType
    <3> QED
      BY <3>3, <3>4, <3>5 DEF IsWritten
  <2>9. Decides(b, name) => MakesADevice(b)
    BY DEF Decides, MakesADevice
  <2>7. CASE IsWritten(b, name)
    <3>1. path[k] = Append(ls, LineOf(b, name))
      BY <1>5, <2>1, <2>3, <2>7
    <3>2. PICK line : line = LineOf(b, name)
      OBVIOUS
    <3>3. Read(p, path[k]) = SetConfigValue(q, line) /\ IsList(path[k])
      BY <2>4, <2>5, <3>1, <3>2, ReadOne
    <3>4. Reading(SetConfigValue(q, line), b, ks, id, Sure(k - 1) \/ Decides(b, name), k)
      BY <2>2, <2>5, <2>7, <3>2, FieldRead
    <3>5. Sure(k) <=> Sure(k - 1) \/ Decides(b, name)
      BY <2>6, <2>9
    <3>6. Reading(SetConfigValue(q, line), b, ks, id, Sure(k), k)
      BY <3>4, <3>5 DEF Reading
    <3> QED
      BY <3>3, <3>6
  <2>8. CASE ~IsWritten(b, name)
    <3>1. path[k] = ls
      BY <1>5, <2>1, <2>3, <2>8
    <3>2. Sure(k) <=> Sure(k - 1)
      BY <2>6, <2>8
    <3>4. Stored(q.st.slot, b, k)
      BY <2>2, <2>5, <2>8, PassedStored DEF Passed, Reading
    <3>3. Reading(q, b, ks, id, Sure(k), k)
      BY <2>5, <3>2, <3>4 DEF Reading
    <3> QED
      BY <2>4, <2>5, <3>1, <3>3
  <2> QED
    BY <2>7, <2>8
<1>8. T \in SUBSET (0..n)
  OBVIOUS
<1> HIDE DEF T, Done
<1>9. T = {}
  BY <1>6, <1>7, <1>8, FirstFailure
<1>10. Done(n)
  BY <1>9 DEF T
<1>11. IsList(FieldLines(b)) /\ Reading(Read(p, FieldLines(b)), b, ks, id, Sure(n), n)
  BY <1>5, <1>10 DEF Done
<1>12. MakesADevice(b) <=> Sure(n)
  <2>1. ~SaysType(b.type) => names # <<>>
    BY <1>2 DEF SaysType, AreFieldNames, IsBlock
  <2>2. names # <<>> => n >= 1
    BY <1>3, <1>4
  <2>3. SaysType(b.type) => MakesADevice(b)
    BY DEF SaysType, MakesADevice
  <2> QED
    BY <2>1, <2>2, <2>3
<1> HIDE DEF Sure
<1> QED
  BY <1>1, <1>4, <1>11, <1>12 DEF Reading

\* What the parser has staged after the lines of b.
Staged(p, b) ==
  /\ p.st.label = b.label /\ p.st.id = b.id /\ Stored(p.st.slot, b, Len(b.names))
  /\ MakesADevice(b) => p.st.pending = b.type
  /\ ~MakesADevice(b) => p.st.pending = "NONE"

FirstParser == [keys |-> <<>>, st |-> NoStaging, dead |-> FALSE]

\* What the constructor takes is what the page meant.
LEMMA HeldIsMeant ==
  ASSUME NEW b, IsBlock(b), NEW st, IsStaging(st), st.label = b.label, st.id = b.id, st.pending = b.type,
         Stored(st.slot, b, Len(b.names)), NEW d, d = NewDevice(st)
  PROVE  IsMadeFrom(d, b)
<1>1. PICK t \in Types : t = b.type
  BY DEF IsBlock
<1>2. t # "NONE"
  BY TypesAre
<1>3. /\ IsDevice(d) /\ d.label = b.label /\ d.type = b.type /\ d.id = b.id
      /\ \A n \in DOMAIN Taken[t] : d.at[n] = Held(t, st, n)
  BY <1>1, <1>2, NewDeviceFacts
<1>4. ASSUME NEW i \in 1..Len(b.names), IsKept(t, b.names[i])
      PROVE  /\ b.names[i] \in DOMAIN Taken[t] /\ Taken[t][b.names[i]] = SlotOf[b.names[i]]
             /\ st.slot[SlotOf[b.names[i]]] = ValueOf(b, b.names[i])
  <2>1. IsPlaced(t, b.names, i)
    BY <1>1, <1>4, KeptFacts
  <2>2. i <= Len(b.names)
    BY BlockNames
  <2> QED
    BY <1>1, <1>4, <2>1, <2>2 DEF Stored, IsPlaced
<1>5. t = "GPIO_PMP" => st.slot["value2"] = b.at["tank_total_volume"]
  <2> SUFFICES ASSUME t = "GPIO_PMP" PROVE st.slot["value2"] = b.at["tank_total_volume"]
    OBVIOUS
  <2>1. PICK i \in 1..Len(b.names) : b.names[i] = "tank_total_volume"
    BY <1>1, PumpNames
  <2>2. IsKept(t, b.names[i])
    <3>1. Prefix[t] = "gpio_doser"
      BY PrefixFacts
    <3> QED
      BY <2>1, <3>1 DEF IsKept, KnownNames
  <2>3. st.slot[SlotOf[b.names[i]]] = ValueOf(b, b.names[i])
    BY <1>4, <2>2
  <2>4. SlotOf["tank_total_volume"] = "value2"
    BY DEF SlotOf
  <2> QED
    BY <2>1, <2>3, <2>4 DEF ValueOf, HasNoValue
<1>6. ASSUME NEW n \in ToSet(b.names), ~NotKept(b, n) PROVE d.at[n] = Meant(b, n)
  <2>1. PICK i \in 1..Len(b.names) : n = b.names[i]
    <3>1. n \in DOMAIN b.at
      BY DEF IsBlock
    <3> QED
      BY <3>1, BlockNames
  <2>2. n \notin {"label", "ID"} /\ n \in KnownNames[Prefix[t]]
    BY <1>1, <1>6, <2>1, BlockNames DEF AreFieldNames, NotKept
  <2>3. CASE n = "type"
    <3>1. b.at["type"] \in {"pH", "ORP", "H2O", "PTE7300"}
      BY <1>6, <2>3 DEF NotKept
    <3>2. Meant(b, n) = b.at["type"]
      BY <2>3 DEF Meant, HasNoValue
    <3>3. t \in {"GPIO_PMP", "I2C_PRS"}
      <4>1. Known([pre |-> Prefix[t], name |-> "type", val |-> Unset])
        BY <2>2, <2>3, PrefixFacts DEF Known
      <4>2. Prefix[t] # "gpio_input"
        BY <4>1, KnownFacts
      <4>3. t # "GPIO_INPUT"
        BY <4>2, PrefixFacts
      <4> QED
        BY <1>1, <2>1, <2>3, <4>3, BlockNames DEF AreFieldNames
    <3>4. CASE t = "GPIO_PMP"
      <4>1. b.at["type"] \in Roles
        BY <1>1, <3>1, <3>4 DEF IsBlock, Roles
      <4>2. st.slot["role"] = b.at["type"]
        <5>1. Len(b.names) >= 1
          BY BlockNames
        <5> QED
          BY <1>1, <3>4, <4>1, <5>1 DEF Stored
      <4>3. Taken[t] = TakenByDoser["GPIO_PMP"]
        BY <3>4, TakenAre
      <4>4. "type" \in DOMAIN Taken[t] /\ Taken[t]["type"] = "role"
        BY <4>3 DEF TakenByDoser
      <4>5. d.at["type"] = Held(t, st, "type")
        BY <1>3, <4>4
      <4>6. Held(t, st, "type") = st.slot["role"]
        BY <4>4 DEF Held, ScopeNames
      <4> QED
        BY <2>3, <3>2, <4>2, <4>5, <4>6
    <3>5. CASE t = "I2C_PRS"
      <4>1. b.at["type"] = "PTE7300"
        BY <1>1, <3>1, <3>5 DEF IsBlock
      <4>2. d.at["type"] = "PTE7300"
        BY <1>1, <1>3, <3>5 DEF IsDevice
      <4> QED
        BY <2>3, <3>2, <4>1, <4>2
    <3> QED
      BY <3>3, <3>4, <3>5
  <2>4. CASE n # "type"
    <3>1. IsKept(t, n)
      BY <1>1, <1>6, <2>2, <2>4 DEF IsKept, NotKept
    <3>2. PICK v : v = ValueOf(b, n)
      OBVIOUS
    <3>3. n \in DOMAIN Taken[t] /\ st.slot[Taken[t][n]] = v
      BY <1>4, <2>1, <3>1, <3>2
    <3>4. d.at[n] = Held(t, st, n)
      BY <1>3, <3>3
    <3>5. n \in DOMAIN b.at /\ Fits(t, n, b.at[n])
      BY <1>1, <3>3 DEF IsBlock
    <3>6. CASE n \in ScopeNames
      <4>1. d.at[n] = ValidScope(t, v)
        BY <3>3, <3>4, <3>6 DEF Held, ScopeNames
      <4>2. v = b.at[n] /\ Meant(b, n) = b.at[n]
        BY <3>2, <3>6 DEF ValueOf, HasNoValue, Meant, ScopeNames
      <4>3. b.at[n] \in Scopes(t)
        BY <3>5, <3>6 DEF Fits
      <4> QED
        BY <4>1, <4>2, <4>3 DEF ValidScope, Scopes
    <3>7. CASE n = "uom"
      <4>1. d.at[n] = UnitOf(t, v)
        BY <3>3, <3>4, <3>7 DEF Held, ScopeNames
      <4>2. v = b.at[n] /\ Meant(b, n) = UnitOf(t, b.at[n])
        BY <1>1, <3>2, <3>7 DEF ValueOf, HasNoValue, Meant
      <4> QED
        BY <4>1, <4>2
    <3>8. CASE n = "tank_uom"
      <4>1. t = "GPIO_PMP"
        BY <3>3, <3>8, TakenHasTank
      <4>2. v = b.at[n] /\ b.at[n] \in {"gallons", "liters", Unset}
        BY <3>2, <3>5, <3>8 DEF ValueOf, HasNoValue, Fits
      <4>3. Unset \notin {"gallons", "liters"}
        BY UnsetAssumption
      <4>4. CASE b.at["tank_total_volume"] = Unset
        <5>1. Held(t, st, n) = Unset
          BY <1>5, <3>8, <4>1, <4>4 DEF Held, ScopeNames
        <5>2. Meant(b, n) = Unset
          BY <3>8, <4>4 DEF Meant
        <5> QED
          BY <3>4, <5>1, <5>2
      <4>5. CASE b.at["tank_total_volume"] # Unset
        <5>1. Held(t, st, n) = IF v # "gallons" THEN "liters" ELSE v
          BY <1>5, <3>3, <3>8, <4>1, <4>5 DEF Held, ScopeNames
        <5>2. Meant(b, n) = IF b.at[n] = Unset THEN "liters" ELSE b.at[n]
          BY <3>8, <4>5 DEF Meant, HasNoValue
        <5> QED
          BY <3>4, <4>2, <4>3, <5>1, <5>2
      <4> QED
        BY <4>4, <4>5
    <3>9. CASE n = "tank_min_volume" /\ t = "GPIO_PMP"
      <4>1. Meant(b, n) = v
        BY <1>1, <3>2, <3>9 DEF Meant, ValueOf
      <4>2. Held(t, st, n) = IF st.slot["value2"] = Unset THEN Unset ELSE v
        BY <3>3, <3>9 DEF Held, ScopeNames
      <4>3. st.slot["value2"] = Unset => v = Unset
        BY <1>1, <1>5, <3>2, <3>9 DEF ValueOf, HasNoValue
      <4> QED
        BY <3>4, <4>1, <4>2, <4>3
    <3>10. CASE /\ n \notin ScopeNames /\ n # "uom" /\ n # "tank_uom"
                /\ ~(n = "tank_min_volume" /\ t = "GPIO_PMP")
      <4>3. ~(t = "SYSFS_VALUE" /\ n = "regex" /\ v = Unset)
        BY <1>1, <1>6, <3>2 DEF ValueOf, HasNoValue, NotKept
      <4>1. Held(t, st, n) = v
        BY <3>3, <3>10, <4>3 DEF Held
      <4>2. Meant(b, n) = v
        BY <3>2, <3>10 DEF Meant, ValueOf
      <4> QED
        BY <3>4, <4>1, <4>2
    <3> QED
      BY <3>6, <3>7, <3>8, <3>9, <3>10
  <2> QED
    BY <2>3, <2>4
<1> QED
  BY <1>3, <1>6 DEF IsMadeFrom

LEMMA FirstParserFacts ==
  IsParser(FirstParser) /\ FirstParser.dead = FALSE /\ FirstParser.keys = <<>> /\ ActionStaging(FirstParser) = FirstParser
<1>1. PICK none : none = NoStaging
  OBVIOUS
<1>2. IsStaging(none) /\ none.label = NoLabel
  BY <1>1, NoStagingFacts
<1>3. PICK p : p = [keys |-> <<>>, st |-> none, dead |-> FALSE]
  OBVIOUS
<1>4. p.keys = <<>> /\ p.st = none /\ p.dead = FALSE
  BY <1>3
<1>5. AreDevices(<<>>)
  <2>1. Len(<<>>) = 0 /\ IsList(<<>>)
    BY DEF IsList
  <2> QED
    BY <2>1 DEF AreDevices
<1>6. IsParser(p)
  BY <1>2, <1>3, <1>4, <1>5 DEF IsParser
<1>7. ActionStaging(p) = p
  BY <1>2, <1>4 DEF ActionStaging
<1>8. FirstParser = p
  BY <1>1, <1>3 DEF FirstParser
<1> QED
  BY <1>4, <1>6, <1>7, <1>8

LEMMA ReadDead ==
  ASSUME NEW p, p.dead, NEW ls, IsList(ls) PROVE Read(p, ls) = p
<1>1. \A k \in 1..Len(ls) : LineRule("dead", p, ls[k], p)
  BY DEF LineRule
<1>2. Ruled("dead", p, p)
  BY DEF Ruled
<1>3. Ruled("dead", Read(p, ls), p)
  BY <1>1, <1>2, ReadRule
<1> QED
  BY <1>3 DEF Ruled

\* The lines of a block name its ID, or none.
GoodLines(ls) == IsList(ls) /\ \A k \in 1..Len(ls) : GoodLine(ls[k])

LEMMA GoodBoth ==
  ASSUME NEW a, GoodLines(a), NEW b, GoodLines(b) PROVE GoodLines(a \o b)
<1>1. PICK S : a \in Seq(S)
  BY DEF GoodLines, IsList
<1>2. PICK T : b \in Seq(T)
  BY DEF GoodLines, IsList
<1>3. PICK m \in Nat : m = Len(a)
  BY <1>1
<1>4. PICK n \in Nat : n = Len(b)
  BY <1>2
<1>5. a \in Seq(S \cup T) /\ b \in Seq(S \cup T)
  BY <1>1, <1>2
<1>6. PICK all : all = a \o b
  OBVIOUS
<1>7. /\ all \in Seq(S \cup T) /\ Len(all) = m + n
      /\ \A k \in 1..(m + n) : all[k] = IF k <= m THEN a[k] ELSE b[k - m]
  BY <1>3, <1>4, <1>5, <1>6
<1>8. ASSUME NEW k \in 1..(m + n) PROVE GoodLine(all[k])
  <2>1. CASE k <= m
    <3>1. k \in 1..Len(a) /\ all[k] = a[k]
      BY <1>3, <1>7, <2>1
    <3> QED
      BY <3>1 DEF GoodLines
  <2>2. CASE ~(k <= m)
    <3>1. k - m \in 1..Len(b) /\ all[k] = b[k - m]
      BY <1>4, <1>7, <2>2
    <3> QED
      BY <3>1 DEF GoodLines
  <2> QED
    BY <2>1, <2>2
<1> QED
  BY <1>6, <1>7, <1>8 DEF GoodLines, IsList

\* And they have a prefix, which the lines of the system's parameters have not.
IsOwned(line) == GoodLine(line) /\ line.pre # ""

Owned(ls) == \E S : ls \in Seq(S) /\ \A line \in S : IsOwned(line)

LEMMA OwnedFacts ==
  ASSUME NEW ls, Owned(ls) PROVE GoodLines(ls) /\ \A k \in 1..Len(ls) : ls[k].pre # ""
<1>1. PICK S : ls \in Seq(S) /\ \A line \in S : IsOwned(line)
  BY DEF Owned
<1>2. \A k \in 1..Len(ls) : ls[k] \in S
  BY <1>1
<1> QED
  BY <1>1, <1>2 DEF GoodLines, IsList, IsOwned

LEMMA OwnedBoth ==
  ASSUME NEW a, Owned(a), NEW b, Owned(b) PROVE Owned(a \o b)
<1>1. PICK S : a \in Seq(S) /\ \A line \in S : IsOwned(line)
  BY DEF Owned
<1>2. PICK T : b \in Seq(T) /\ \A line \in T : IsOwned(line)
  BY DEF Owned
<1>3. a \in Seq(S \cup T) /\ b \in Seq(S \cup T)
  BY <1>1, <1>2
<1>4. a \o b \in Seq(S \cup T)
  BY <1>3
<1>5. \A line \in S \cup T : IsOwned(line)
  BY <1>1, <1>2
<1> QED
  BY <1>4, <1>5 DEF Owned

LEMMA OwnedAnd ==
  ASSUME NEW ls, Owned(ls), NEW line, IsOwned(line) PROVE Owned(Append(ls, line))
<1>1. PICK S : ls \in Seq(S) /\ \A l \in S : IsOwned(l)
  BY DEF Owned
<1>2. Append(ls, line) \in Seq(S \cup {line})
  BY <1>1
<1>3. \A l \in S \cup {line} : IsOwned(l)
  BY <1>1
<1> QED
  BY <1>2, <1>3 DEF Owned

LEMMA OwnedNone == Owned(<<>>)
<1>1. PICK none : none = <<>>
  OBVIOUS
<1>2. PICK S : S = {}
  OBVIOUS
<1>3. none \in Seq(S) /\ \A line \in S : IsOwned(line)
  BY <1>1, <1>2
<1>4. Owned(none)
  BY <1>3 DEF Owned
<1> QED
  BY <1>1, <1>4

LEMMA HeadIsOwned ==
  ASSUME NEW b, IsBlock(b) PROVE Owned(HeadLines(b))
<1> DEFINE labelLine == [pre |-> Prefix[b.type], name |-> "label", val |-> b.label]
           idLine == [pre |-> Prefix[b.type], name |-> "ID", val |-> b.id]
           wordLine == [pre |-> Prefix[b.type], name |-> "type", val |-> TypeWord(b.type)]
           idLines == IF b.id = NoId THEN <<>> ELSE OneLine(idLine)
           wordLines == IF TypeWord(b.type) = Unset THEN <<>> ELSE OneLine(wordLine)
<1>1. HeadLines(b) = (OneLine(labelLine) \o idLines) \o wordLines
  BY Zenon DEF HeadLines, OneLine
<1>2. ASSUME NEW line, IsOwned(line) PROVE Owned(OneLine(line))
  <2>1. OneLine(line) \in Seq({line})
    BY DEF OneLine
  <2>2. \A l \in {line} : IsOwned(l)
    BY <1>2
  <2> QED
    BY <2>1, <2>2 DEF Owned
<1>3. IsOwned(labelLine) /\ IsOwned(idLine) /\ IsOwned(wordLine)
  <2>1. Prefix[b.type] # ""
    BY PrefixGiven DEF IsBlock
  <2> QED
    BY <2>1 DEF IsOwned, GoodLine, IsBlock
<1> HIDE DEF labelLine, idLine, wordLine
<1>5. Owned(OneLine(labelLine)) /\ Owned(idLines) /\ Owned(wordLines)
  BY <1>2, <1>3, OwnedNone
<1> HIDE DEF idLines, wordLines
<1>6. Owned(OneLine(labelLine) \o idLines)
  BY <1>5, OwnedBoth
<1> QED
  BY <1>1, <1>5, <1>6, OwnedBoth

LEMMA FieldsAreOwned ==
  ASSUME NEW b, IsBlock(b) PROVE Owned(FieldLines(b))
<1>1. PICK names : names = b.names
  OBVIOUS
<1>2. AreFieldNames(b.type, names)
  BY <1>1, PageFieldsAreNames, TemplatesAreNames DEF IsBlock
<1>3. PICK S : names \in Seq(S)
  BY <1>2 DEF AreFieldNames, IsList
<1>4. PICK n \in Nat : n = Len(names)
  BY <1>3
<1>5. PICK path : /\ path[0] = <<>>
                  /\ \A k \in 1..n : path[k] = IF IsWritten(b, names[k]) THEN Append(path[k - 1], LineOf(b, names[k]))
                                               ELSE path[k - 1]
                  /\ path[n] = FieldLines(b)
  BY <1>1, <1>3, <1>4, FieldsFold
<1> DEFINE T == {k \in 0..n : ~Owned(path[k])}
<1>6. 0 \notin T
  BY <1>5, OwnedNone
<1>7. ASSUME NEW k \in 1..n, k - 1 \in 0..n, k - 1 \notin T PROVE k \notin T
  <2>1. PICK line : line = LineOf(b, names[k])
    OBVIOUS
  <2>2. IsOwned(line)
    <3>1. Prefix[b.type] # ""
      BY PrefixGiven DEF IsBlock
    <3> QED
      BY <1>2, <1>4, <2>1, <3>1 DEF AreFieldNames, IsOwned, GoodLine, LineOf
  <2>3. PICK ls : ls = path[k - 1]
    OBVIOUS
  <2>4. Owned(ls)
    BY <1>7, <2>3
  <2>5. Owned(Append(ls, line))
    BY <2>2, <2>4, OwnedAnd
  <2> QED
    BY <1>5, <2>1, <2>3, <2>4, <2>5
<1> HIDE DEF T
<1>8. T \in SUBSET (0..n)
  BY DEF T
<1>9. T = {}
  BY <1>6, <1>7, <1>8, FirstFailure
<1> QED
  BY <1>5, <1>9 DEF T

LEMMA BlockRead ==
  ASSUME NEW p, IsParser(p), NEW b, IsBlock(b), b.label # NoLabel
  PROVE  LET q == Read(p, BlockLines(b))
             a == ActionStaging(p)
         IN  /\ IsParser(q) /\ q.dead = a.dead
             /\ ~a.dead => q.keys = a.keys /\ Staged(q, b)
<1>1. PICK a : a = ActionStaging(p)
  OBVIOUS
<1>2. IsParser(a) /\ (p.dead => a = p)
  BY <1>1, ActionFacts
<1>3. IsList(HeadLines(b)) /\ IsList(FieldLines(b)) /\ IsList(BlockLines(b))
  BY HeadIsOwned, FieldsAreOwned, OwnedFacts, GoodBoth DEF BlockLines, GoodLines
<1>4. PICK half : half = Read(p, HeadLines(b))
  OBVIOUS
<1>5. PICK q : q = Read(half, FieldLines(b))
  OBVIOUS
<1>6. Read(p, BlockLines(b)) = q
  BY <1>3, <1>4, <1>5, ReadBoth DEF BlockLines
<1>7. CASE p.dead
  <2>1. half = p
    BY <1>3, <1>4, <1>7, ReadDead
  <2>2. q = p
    BY <1>3, <1>5, <1>7, <2>1, ReadDead
  <2> QED
    BY <1>1, <1>2, <1>6, <1>7, <2>2
<1>8. CASE ~p.dead /\ a.dead
  <2>1. half.dead
    BY <1>1, <1>4, <1>8, HeadRead
  <2>2. q = half
    BY <1>3, <1>5, <2>1, ReadDead
  <2>3. half.dead = a.dead
    BY <1>1, <1>4, <1>8, HeadRead
  <2>4. IsParser(half)
    <3>1. \A k \in 1..Len(HeadLines(b)) : LineRule("typed", p, HeadLines(b)[k], p)
      BY HeadIsOwned, OwnedFacts DEF LineRule, GoodLines
    <3>2. Ruled("typed", p, p)
      BY DEF Ruled
    <3>3. Ruled("typed", half, p)
      BY <1>3, <1>4, <3>1, <3>2, ReadRule
    <3> QED
      BY <3>3 DEF Ruled
  <2> QED
    BY <1>1, <1>6, <1>8, <2>2, <2>3, <2>4
<1>9. CASE ~p.dead /\ ~a.dead
  <2>1. Reading(half, b, a.keys, b.id, SaysType(b.type), 0)
    BY <1>1, <1>4, <1>9, HeadRead
  <2>2. Reading(q, b, a.keys, b.id, MakesADevice(b), Len(b.names))
    BY <1>5, <2>1, FieldsRead
  <2>3. q.dead = a.dead
    BY <1>2, <1>9, <2>2 DEF Reading, IsParser
  <2> QED
    BY <1>1, <1>6, <1>9, <2>2, <2>3 DEF Reading, Staged
<1> QED
  BY <1>7, <1>8, <1>9

\* The lines of several blocks.
AreBlocks(bs) == IsList(bs) /\ ToldApart(bs) /\ \A i \in 1..Len(bs) : IsBlock(bs[i])

Labelled(bs) == \A i \in 1..Len(bs) : bs[i].label # NoLabel

\* The first k blocks of which the parser makes a device.
MadeOf(bs, k) == {j \in 1..k : MakesADevice(bs[j])}

LEMMA MadeOfFacts ==
  ASSUME NEW bs, NEW k \in Nat, k - 1 \in Nat
  PROVE  /\ IsFiniteSet(MadeOf(bs, k - 1))
         /\ Cardinality(MadeOf(bs, k)) = Cardinality(MadeOf(bs, k - 1)) + (IF MakesADevice(bs[k]) THEN 1 ELSE 0)
<1>1. PICK M : M = MadeOf(bs, k - 1)
  OBVIOUS
<1>2. PICK N : N = MadeOf(bs, k)
  OBVIOUS
<1>3. \A j : j \in 1..k <=> j \in 1..(k - 1) \/ j = k
  OBVIOUS
<1>4. k \notin 1..(k - 1)
  OBVIOUS
<1>5. IsFiniteSet(M)
  <2>1. IsFiniteSet(1..(k - 1))
    BY FS_Interval
  <2>2. M \subseteq 1..(k - 1)
    BY <1>1 DEF MadeOf
  <2> QED
    BY <2>1, <2>2, FS_Subset
<1>6. Cardinality(M) \in Nat
  BY <1>5, FS_CardinalityType
<1>7. CASE MakesADevice(bs[k])
  <2>1. N = M \cup {k} /\ k \notin M
    BY <1>1, <1>2, <1>3, <1>4, <1>7, Zenon DEF MadeOf
  <2>2. Cardinality(N) = Cardinality(M) + 1
    BY <1>5, <2>1, FS_AddElement
  <2> QED
    BY <1>1, <1>2, <1>5, <1>7, <2>2
<1>8. CASE ~MakesADevice(bs[k])
  <2>1. N = M
    BY <1>1, <1>2, <1>3, <1>8, Zenon DEF MadeOf
  <2>2. Cardinality(N) = Cardinality(M) + 0
    BY <1>6, <2>1
  <2> QED
    BY <1>1, <1>2, <1>5, <1>8, <2>2
<1> QED
  BY <1>7, <1>8

\* The devices of the first k blocks are there, and no other is; none but theirs has an ID.
Holds(p, bs, k) ==
  /\ ToldApart(p.keys)
  /\ \A i \in 1..Len(p.keys) : p.keys[i].id = NoId \/ \E j \in 1..k : p.keys[i].id = bs[j].id
  /\ \A j \in 1..k : MakesADevice(bs[j]) => \E i \in 1..Len(p.keys) : IsMadeFrom(p.keys[i], bs[j])
  /\ Cardinality(Devices(p.keys)) = Cardinality(MadeOf(bs, k))

LEMMA ActionHolds ==
  ASSUME NEW p, IsParser(p), NEW bs, AreBlocks(bs), NEW k \in 1..Len(bs), NEW b, b = bs[k], b.label # NoLabel,
         Staged(p, b), Holds(p, bs, k - 1), ~p.dead, NEW q, q = ActionStaging(p), ~q.dead
  PROVE  Holds(q, bs, k)
<1>1. Len(bs) \in Nat /\ k - 1 \in 0..Len(bs) /\ IsBlock(b)
  BY ListFacts DEF AreBlocks
<1>2. PICK clear : clear = ClearStaging(p.st)
  OBVIOUS
<1>3. p = [keys |-> p.keys, st |-> p.st, dead |-> p.dead] /\ p.st.label # NoLabel
  BY DEF IsParser, Staged
<1>10. /\ IsFiniteSet(MadeOf(bs, k - 1))
       /\ Cardinality(MadeOf(bs, k)) = Cardinality(MadeOf(bs, k - 1)) + (IF MakesADevice(b) THEN 1 ELSE 0)
  <2>1. k \in Nat /\ k - 1 \in Nat
    BY <1>1
  <2> QED
    BY <2>1, MadeOfFacts
<1>11. Cardinality(MadeOf(bs, k - 1)) \in Nat
  BY <1>10, FS_CardinalityType
<1>4. CASE p.st.pending = "NONE"
  <2>1. q = [p EXCEPT !.st = clear]
    BY <1>2, <1>3, <1>4 DEF ActionStaging
  <2>2. q.keys = p.keys
    BY <1>3, <2>1
  <2>3. ~MakesADevice(b)
    BY <1>1, <1>4, TypesAre DEF Staged, IsBlock
  <2>4. \A j \in 1..k : j = k \/ j \in 1..(k - 1)
    BY <1>1
  <2>5. \A j \in 1..(k - 1) : j \in 1..k
    BY <1>1
  <2>6. Cardinality(MadeOf(bs, k)) = Cardinality(MadeOf(bs, k - 1))
    BY <1>10, <1>11, <2>3
  <2> QED
    BY <2>2, <2>3, <2>4, <2>5, <2>6 DEF Holds
<1>5. CASE p.st.pending # "NONE"
  <2>1. PICK d : d = NewDevice(p.st)
    OBVIOUS
  <2>12. MakesADevice(b) /\ p.st.pending = b.type
    BY <1>5 DEF Staged
  <2>13. IsMadeFrom(d, b)
    <3>1. PICK st : st = p.st
      OBVIOUS
    <3>2. IsStaging(st) /\ st.label = b.label /\ st.id = b.id /\ st.pending = b.type /\ Stored(st.slot, b, Len(b.names))
      BY <2>12, <3>1 DEF IsParser, Staged
    <3>3. d = NewDevice(st)
      BY <2>1, <3>1
    <3> QED
      BY <1>1, <3>2, <3>3, HeldIsMeant
  <2>2. IsDevice(d) /\ d.label = b.label /\ d.type = b.type /\ d.id = b.id
    BY <1>5, <2>1, <2>12, NewDeviceFacts DEF IsParser, Staged
  <2>3. PICK ks : ks = WithDevice(p.keys, d)
    OBVIOUS
  <2>4. ~EndsTheDaemon(p.st)
    <3>1. SUFFICES ASSUME EndsTheDaemon(p.st) PROVE FALSE
      OBVIOUS
    <3>2. q = [p EXCEPT !.dead = TRUE]
      BY <1>3, <1>5, <3>1 DEF ActionStaging
    <3>3. q.dead
      BY <1>3, <3>2
    <3> QED
      BY <3>3
  <2>5. q = [p EXCEPT !.keys = ks, !.st = clear]
    BY <1>2, <1>3, <1>5, <2>1, <2>3, <2>4 DEF ActionStaging
  <2>6. q.keys = ks
    BY <1>3, <2>5
  <2>7. d.id = NoId \/ \A i \in 1..Len(p.keys) : p.keys[i].id # d.id
    <3> SUFFICES ASSUME NEW i \in 1..Len(p.keys), d.id # NoId, p.keys[i].id = d.id PROVE FALSE
      OBVIOUS
    <3>1. PICK j \in 1..(k - 1) : p.keys[i].id = bs[j].id
      BY DEF Holds
    <3>2. j \in 1..Len(bs) /\ j # k /\ bs[j].id = bs[k].id /\ bs[j].id # NoId
      BY <1>1, <2>2, <3>1
    <3> QED
      BY <3>2 DEF AreBlocks, ToldApart
  <2>8. Extends(ks, p.keys, d)
    BY <2>2, <2>3, <2>7, WithDeviceFacts DEF IsParser, Holds
  <2>9. ToldApart(ks)
    BY <2>8 DEF Extends
  <2>10. ASSUME NEW i \in 1..Len(ks) PROVE ks[i].id = NoId \/ \E j \in 1..k : ks[i].id = bs[j].id
    <3>1. CASE ks[i] = d
      BY <2>2, <3>1
    <3>2. ASSUME NEW l \in 1..Len(p.keys), ks[i] = p.keys[l]
          PROVE  ks[i].id = NoId \/ \E j \in 1..k : ks[i].id = bs[j].id
      <4>1. p.keys[l].id = NoId \/ \E j \in 1..(k - 1) : p.keys[l].id = bs[j].id
        BY DEF Holds
      <4>2. \A j \in 1..(k - 1) : j \in 1..k
        BY <1>1
      <4> QED
        BY <3>2, <4>1, <4>2
    <3> QED
      BY <2>8, <3>1, <3>2 DEF Extends
  <2>11. ASSUME NEW j \in 1..k, MakesADevice(bs[j])
         PROVE  \E i \in 1..Len(ks) : IsMadeFrom(ks[i], bs[j])
    <3>1. CASE j = k
      <4>1. PICK i \in 1..Len(ks) : ks[i] = d
        BY <2>8 DEF Extends
      <4> QED
        BY <2>13, <3>1, <4>1
    <3>2. CASE j # k
      <4>1. j \in 1..(k - 1)
        BY <1>1, <3>2
      <4>2. PICK l \in 1..Len(p.keys) : IsMadeFrom(p.keys[l], bs[j])
        BY <2>11, <4>1 DEF Holds
      <4>3. PICK i \in 1..Len(ks) : ks[i] = p.keys[l]
        BY <2>8 DEF Extends
      <4> QED
        BY <4>2, <4>3
    <3> QED
      BY <3>1, <3>2
  <2>14. Cardinality(Devices(ks)) = Cardinality(MadeOf(bs, k))
    <3>1. b.type \in Types /\ AreDevices(p.keys)
      BY <1>1 DEF IsBlock, IsParser
    <3>2. Cardinality(Devices(ks)) = Cardinality(Devices(p.keys)) + 1
      BY <2>2, <2>3, <3>1, WithDeviceCounts
    <3>3. Cardinality(Devices(p.keys)) = Cardinality(MadeOf(bs, k - 1))
      BY DEF Holds
    <3> QED
      BY <1>10, <2>12, <3>2, <3>3
  <2> QED
    BY <2>6, <2>9, <2>10, <2>11, <2>14 DEF Holds
<1> QED
  BY <1>4, <1>5

\* After the lines of the first k blocks: the daemon is dead, or will have them when the k-th is acted on.
Made(p, bs, k) ==
  LET a == ActionStaging(p)
  IN IsParser(p) /\ (~a.dead => Holds(a, bs, k))

LEMMA BlocksMade ==
  ASSUME NEW bs, AreBlocks(bs)
  PROVE  /\ Owned(BlocksLines(bs))
         /\ Labelled(bs) => Made(Read(FirstParser, BlocksLines(bs)), bs, Len(bs))
<1>1. PICK S : bs \in Seq(S)
  BY DEF AreBlocks, IsList
<1>2. PICK n \in Nat : n = Len(bs)
  BY <1>1
<1>3. PICK path : /\ path[0] = <<>>
                  /\ \A k \in 1..n : path[k] = path[k - 1] \o BlockLines(bs[k])
                  /\ path[n] = BlocksLines(bs)
  BY <1>1, <1>2, BlocksFold
<1> DEFINE Good(k) == Owned(path[k]) /\ (Labelled(bs) => Made(Read(FirstParser, path[k]), bs, k))
           T == {k \in 0..n : ~Good(k)}
<1>4. 0 \notin T
  <2>1. IsList(<<>>) /\ Len(<<>>) = 0
    BY DEF IsList
  <2>2. PICK p : p = FirstParser
    OBVIOUS
  <2>3. IsParser(p) /\ p.keys = <<>> /\ ActionStaging(p) = p
    BY <2>2, FirstParserFacts
  <2>7. Devices(p.keys) = {} /\ MadeOf(bs, 0) = {}
    <3>1. \A i : i \notin 1..0
      OBVIOUS
    <3>2. PICK ks : ks = p.keys
      OBVIOUS
    <3>3. Len(ks) = 0
      BY <2>1, <2>3, <3>2
    <3>4. Devices(ks) = {}
      BY <3>1, <3>3, Zenon DEF Devices
    <3>5. MadeOf(bs, 0) = {}
      BY <3>1, Zenon DEF MadeOf
    <3> QED
      BY <3>2, <3>4, <3>5
  <2>4. Holds(p, bs, 0)
    <3>1. \A i : i \notin 1..0
      OBVIOUS
    <3>2. PICK ks : ks = p.keys
      OBVIOUS
    <3>3. Len(ks) = 0
      BY <2>1, <2>3, <3>2
    <3>4. Cardinality(Devices(p.keys)) = Cardinality(MadeOf(bs, 0))
      BY <2>7
    <3> QED
      BY <3>1, <3>2, <3>3, <3>4, Zenon DEF Holds, ToldApart
  <2>5. Read(p, path[0]) = p
    BY <1>3, ReadNone
  <2>6. Owned(path[0])
    BY <1>3, OwnedNone
  <2> QED
    BY <2>2, <2>3, <2>4, <2>5, <2>6 DEF Made
<1>5. ASSUME NEW k \in 1..n, k - 1 \in 0..n, k - 1 \notin T PROVE k \notin T
  <2>1. PICK b : b = bs[k]
    OBVIOUS
  <2>2. IsBlock(b) /\ k \in 1..Len(bs)
    BY <1>2, <2>1 DEF AreBlocks
  <2>3. PICK before : before = path[k - 1]
    OBVIOUS
  <2>4. Owned(before) /\ (Labelled(bs) => Made(Read(FirstParser, before), bs, k - 1))
    BY <1>5, <2>3
  <2>5. path[k] = before \o BlockLines(b)
    BY <1>3, <2>1, <2>3
  <2>6. Owned(BlockLines(b))
    BY <2>2, HeadIsOwned, FieldsAreOwned, OwnedBoth DEF BlockLines
  <2>7. Owned(path[k])
    BY <2>4, <2>5, <2>6, OwnedBoth
  <2>8. ASSUME Labelled(bs) PROVE Made(Read(FirstParser, path[k]), bs, k)
    <3>1. PICK p : p = Read(FirstParser, before)
      OBVIOUS
    <3>2. PICK a : a = ActionStaging(p)
      OBVIOUS
    <3>3. IsParser(p) /\ (~a.dead => Holds(a, bs, k - 1))
      BY <2>4, <2>8, <3>1, <3>2 DEF Made
    <3>4. PICK q : q = Read(p, BlockLines(b))
      OBVIOUS
    <3>5. Read(FirstParser, path[k]) = q
      <4>1. IsList(before) /\ IsList(BlockLines(b))
        BY <2>4, <2>6, OwnedFacts DEF GoodLines
      <4>2. Read(FirstParser, before \o BlockLines(b)) = Read(p, BlockLines(b))
        BY <3>1, <4>1, ReadBoth
      <4> QED
        BY <2>5, <3>4, <4>2
    <3>6. b.label # NoLabel
      BY <2>1, <2>2, <2>8 DEF Labelled
    <3>7. IsParser(q) /\ q.dead = a.dead /\ (~a.dead => q.keys = a.keys /\ Staged(q, b))
      BY <2>2, <3>2, <3>3, <3>4, <3>6, BlockRead
    <3>8. PICK c : c = ActionStaging(q)
      OBVIOUS
    <3>9. IsParser(c) /\ (q.dead => c = q)
      BY <3>7, <3>8, ActionFacts
    <3>10. ASSUME ~c.dead PROVE Holds(c, bs, k)
      <4>1. ~q.dead /\ ~a.dead
        BY <3>7, <3>9, <3>10
      <4>2. Holds(q, bs, k - 1) /\ Staged(q, b)
        BY <3>3, <3>7, <4>1 DEF Holds
      <4> QED
        BY <2>1, <2>2, <3>6, <3>7, <3>8, <3>10, <4>1, <4>2, ActionHolds
    <3> QED
      BY <3>5, <3>7, <3>8, <3>10 DEF Made
  <2> QED
    BY <2>7, <2>8
<1>6. T \in SUBSET (0..n)
  OBVIOUS
<1> HIDE DEF T, Good
<1>7. T = {}
  BY <1>4, <1>5, <1>6, FirstFailure
<1>8. Good(n)
  BY <1>7 DEF T
<1> QED
  BY <1>2, <1>3, <1>8 DEF Good

\* A file that was saved: the parameters, then the blocks.
LineFor(params, n) == [pre |-> "", name |-> n, val |-> params[n]]
LinesFor(params) ==
  <<LineFor(params, "mqtt_passwd"), LineFor(params, "mqtt_aquachemd_topic"), LineFor(params, "web_directory")>>

IsSavedFile(lines, bs, params) == lines = LinesFor(params) \o BlocksLines(bs)

LEMMA LinesForFacts ==
  ASSUME NEW params
  PROVE  /\ GoodLines(LinesFor(params)) /\ Len(LinesFor(params)) = 3
         /\ \A k \in 1..3 : LinesFor(params)[k].pre = ""
         /\ LinesFor(params)[1] = LineFor(params, "mqtt_passwd")
         /\ LinesFor(params)[2] = LineFor(params, "mqtt_aquachemd_topic")
         /\ LinesFor(params)[3] = LineFor(params, "web_directory")
<1>1. PICK a : a = LineFor(params, "mqtt_passwd")
  OBVIOUS
<1>2. PICK b : b = LineFor(params, "mqtt_aquachemd_topic")
  OBVIOUS
<1>3. PICK c : c = LineFor(params, "web_directory")
  OBVIOUS
<1>4. PICK ls : ls = <<a, b, c>>
  OBVIOUS
<1>5. LinesFor(params) = ls
  BY <1>1, <1>2, <1>3, <1>4, Zenon DEF LinesFor
<1>6. a.pre = "" /\ b.pre = "" /\ c.pre = "" /\ a.name # "ID" /\ b.name # "ID" /\ c.name # "ID"
  BY <1>1, <1>2, <1>3 DEF LineFor
<1>7. PICK S : S = {a, b, c}
  OBVIOUS
<1>12. ls \in Seq({a, b, c})
  BY <1>4
<1>8. ls \in Seq(S) /\ \A l \in S : l.pre = "" /\ l.name # "ID"
  BY <1>6, <1>7, <1>12
<1>9. Len(ls) = 3 /\ ls[1] = a /\ ls[2] = b /\ ls[3] = c
  BY <1>4
<1>10. \A k \in 1..Len(ls) : ls[k] \in S
  BY <1>8, ElementOfSeq
<1>11. GoodLines(ls)
  BY <1>8, <1>10 DEF GoodLines, GoodLine, IsList
<1> QED
  BY <1>1, <1>2, <1>3, <1>5, <1>8, <1>9, <1>10, <1>11

\* What a line does to the parameters.
LEMMA ParameterSet ==
  ASSUME NEW q, DOMAIN q = DOMAIN Defaults, NEW params, NEW n \in DOMAIN Defaults,
         NEW r, r = SetParameter(q, LineFor(params, n))
  PROVE  /\ DOMAIN r = DOMAIN Defaults
         /\ r[n] = IF params[n] = Unset THEN q[n] ELSE params[n]
         /\ \A m \in DOMAIN Defaults \ {n} : r[m] = q[m]
<1>1. PICK line : line = LineFor(params, n)
  OBVIOUS
<1>2. line.pre = "" /\ line.name = n /\ line.val = params[n]
  BY <1>1 DEF LineFor
<1>3. r = IF params[n] # Unset THEN [q EXCEPT ![n] = params[n]] ELSE q
  BY <1>1, <1>2 DEF SetParameter
<1> QED
  BY <1>3

LEMMA ParameterLeft ==
  ASSUME NEW q, NEW line, line.pre # "" PROVE SetParameter(q, line) = q
BY DEF SetParameter

\* A start gives the parameters that were saved, and the others their defaults.
LEMMA ParametersKept ==
  ASSUME NEW params, NEW bs, AreBlocks(bs), NEW lines, IsSavedFile(lines, bs, params)
  PROVE  \A n \in DOMAIN Defaults : ParametersOf(lines)[n] = IF params[n] = Unset THEN Defaults[n] ELSE params[n]
<1>1. PICK ps : ps = LinesFor(params)
  OBVIOUS
<1>2. PICK bls : bls = BlocksLines(bs)
  OBVIOUS
<1>3. /\ GoodLines(ps) /\ Len(ps) = 3
      /\ ps[1] = LineFor(params, "mqtt_passwd") /\ ps[2] = LineFor(params, "mqtt_aquachemd_topic")
      /\ ps[3] = LineFor(params, "web_directory")
  BY <1>1, LinesForFacts
<1>4. GoodLines(bls) /\ \A k \in 1..Len(bls) : bls[k].pre # ""
  BY <1>2, BlocksMade, OwnedFacts
<1>5. PICK S : ps \in Seq(S)
  BY <1>3 DEF GoodLines, IsList
<1>6. PICK T : bls \in Seq(T)
  BY <1>4 DEF GoodLines, IsList
<1>7. PICK m \in Nat : m = Len(bls)
  BY <1>6
<1>8. lines = ps \o bls
  BY <1>1, <1>2 DEF IsSavedFile
<1>9. ps \in Seq(S \cup T) /\ bls \in Seq(S \cup T)
  BY <1>5, <1>6
<1>10. /\ lines \in Seq(S \cup T) /\ Len(lines) = m + 3
       /\ \A k \in 1..(m + 3) : lines[k] = IF k <= 3 THEN ps[k] ELSE bls[k - 3]
  <2>1. /\ ps \o bls \in Seq(S \cup T) /\ Len(ps \o bls) = Len(ps) + Len(bls)
        /\ \A k \in 1..(Len(ps) + Len(bls)) :
             (ps \o bls)[k] = IF k <= Len(ps) THEN ps[k] ELSE bls[k - Len(ps)]
    BY <1>9, ConcatProperties
  <2>2. Len(ps) = 3 /\ Len(bls) = m /\ 3 + m = m + 3
    BY <1>3, <1>7
  <2> QED
    BY <1>8, <2>1, <2>2, Zenon
<1>11. PICK n \in Nat : n = m + 3
  BY <1>7
<1>12. PICK path : /\ path[0] = Defaults
                   /\ \A k \in 1..n : path[k] = SetParameter(path[k - 1], lines[k])
                   /\ path[n] = ParametersOf(lines)
  <2>1. n = Len(lines)
    BY <1>10, <1>11
  <2> QED
    BY <1>10, <2>1, ParametersFold, Zenon DEF ParametersOf
<1>13. PICK p1 : p1 = path[1]
  OBVIOUS
<1>14. PICK p2 : p2 = path[2]
  OBVIOUS
<1>15. PICK p3 : p3 = path[3]
  OBVIOUS
<1>16. /\ p1 = SetParameter(Defaults, LineFor(params, "mqtt_passwd"))
       /\ p2 = SetParameter(p1, LineFor(params, "mqtt_aquachemd_topic"))
       /\ p3 = SetParameter(p2, LineFor(params, "web_directory"))
  <2>1. 1 \in 1..n /\ 2 \in 1..n /\ 3 \in 1..n /\ 1 - 1 = 0 /\ 2 - 1 = 1 /\ 3 - 1 = 2
    BY <1>7, <1>11
  <2>2. lines[1] = ps[1] /\ lines[2] = ps[2] /\ lines[3] = ps[3]
    BY <1>10, <1>11, <2>1
  <2>3. path[1] = SetParameter(path[1 - 1], lines[1]) /\ path[2] = SetParameter(path[2 - 1], lines[2])
        /\ path[3] = SetParameter(path[3 - 1], lines[3])
    BY <1>12, <2>1
  <2> QED
    BY <1>3, <1>12, <1>13, <1>14, <1>15, <2>1, <2>2, <2>3
<1>17. DOMAIN Defaults = {"mqtt_passwd", "mqtt_aquachemd_topic", "web_directory"}
  BY DEF Defaults
<1>18. /\ DOMAIN p1 = DOMAIN Defaults
       /\ p1["mqtt_passwd"] = IF params["mqtt_passwd"] = Unset THEN Defaults["mqtt_passwd"] ELSE params["mqtt_passwd"]
       /\ \A k \in DOMAIN Defaults \ {"mqtt_passwd"} : p1[k] = Defaults[k]
  BY <1>16, <1>17, ParameterSet
<1>19. /\ DOMAIN p2 = DOMAIN Defaults
       /\ p2["mqtt_aquachemd_topic"] =
            IF params["mqtt_aquachemd_topic"] = Unset THEN p1["mqtt_aquachemd_topic"] ELSE params["mqtt_aquachemd_topic"]
       /\ \A k \in DOMAIN Defaults \ {"mqtt_aquachemd_topic"} : p2[k] = p1[k]
  BY <1>16, <1>17, <1>18, ParameterSet
<1>20. /\ p3["web_directory"] = IF params["web_directory"] = Unset THEN p2["web_directory"] ELSE params["web_directory"]
       /\ \A k \in DOMAIN Defaults \ {"web_directory"} : p3[k] = p2[k]
  BY <1>16, <1>17, <1>19, ParameterSet
<1>21. \A k \in DOMAIN Defaults : p3[k] = IF params[k] = Unset THEN Defaults[k] ELSE params[k]
  BY <1>17, <1>18, <1>19, <1>20
<1> DEFINE Late == {k \in 0..n : k >= 3 /\ path[k] # p3}
<1>22. 0 \notin Late
  OBVIOUS
<1>23. ASSUME NEW k \in 1..n, k - 1 \in 0..n, k - 1 \notin Late PROVE k \notin Late
  <2>1. CASE k <= 3
    <3>1. k < 3 \/ k = 3
      BY <2>1
    <3> QED
      BY <1>15, <3>1
  <2>2. CASE k > 3
    <3>1. path[k - 1] = p3
      BY <1>23, <2>2
    <3>2. k \in 1..(m + 3) /\ ~(k <= 3) /\ k - 3 \in 1..m
      BY <1>7, <1>11, <2>2
    <3>3. lines[k].pre # ""
      BY <1>4, <1>7, <1>10, <3>2
    <3>4. path[k] = p3
      BY <1>12, <3>1, <3>3, ParameterLeft
    <3> QED
      BY <3>4
  <2> QED
    BY <2>1, <2>2
<1>24. Late \in SUBSET (0..n)
  OBVIOUS
<1> HIDE DEF Late
<1>25. Late = {}
  BY <1>22, <1>23, <1>24, FirstFailure
<1>26. path[n] = p3
  <2>1. n \in 0..n /\ n >= 3
    BY <1>7, <1>11
  <2> QED
    BY <1>25, <2>1 DEF Late
<1> QED
  BY <1>12, <1>21, <1>26

LEMMA ParsedIsTyped ==
  ASSUME NEW lines, GoodLines(lines) PROVE IsParser(Parsed(lines))
<1>1. PICK p : p = FirstParser
  OBVIOUS
<1>2. IsParser(p)
  BY <1>1, FirstParserFacts
<1>3. \A k \in 1..Len(lines) : LineRule("typed", p, lines[k], p)
  BY DEF LineRule, GoodLines
<1>4. Ruled("typed", p, p)
  BY <1>2 DEF Ruled
<1>5. IsList(lines)
  BY DEF GoodLines
<1>6. Ruled("typed", Read(p, lines), p)
  BY <1>3, <1>4, <1>5, ReadRule
<1>7. IsParser(Read(p, lines))
  BY <1>6 DEF Ruled
<1>8. Parsed(lines) = ActionStaging(Read(p, lines))
  BY <1>1, Zenon DEF Parsed, Read, FirstParser
<1> QED
  BY <1>7, <1>8, ActionFacts

LEMMA ParsedHolds ==
  ASSUME NEW lines, NEW bs, AreBlocks(bs), NEW params, IsSavedFile(lines, bs, params)
  PROVE  GoodLines(lines) /\ (Labelled(bs) /\ ~Parsed(lines).dead => Holds(Parsed(lines), bs, Len(bs)))
<1>1. PICK ps : /\ GoodLines(ps) /\ \A k \in 1..Len(ps) : ps[k].pre = ""
                /\ lines = ps \o BlocksLines(bs)
  <2>1. PICK ps : ps = LinesFor(params)
    OBVIOUS
  <2>2. GoodLines(ps) /\ Len(ps) = 3 /\ \A k \in 1..3 : ps[k].pre = ""
    BY <2>1, LinesForFacts
  <2>3. lines = ps \o BlocksLines(bs)
    BY <2>1 DEF IsSavedFile
  <2> QED
    BY <2>2, <2>3
<1>2. PICK p : p = FirstParser
  OBVIOUS
<1>3. PICK bls : bls = BlocksLines(bs)
  OBVIOUS
<1>4. GoodLines(bls) /\ (Labelled(bs) => Made(Read(p, bls), bs, Len(bs)))
  BY <1>2, <1>3, BlocksMade, OwnedFacts
<1>5. GoodLines(lines)
  BY <1>1, <1>3, <1>4, GoodBoth
<1>6. Read(p, ps) = p
  <2>1. \A k \in 1..Len(ps) : LineRule("parameters", p, ps[k], p)
    BY <1>1 DEF LineRule
  <2>2. Ruled("parameters", p, p) /\ IsList(ps)
    BY <1>1 DEF Ruled, GoodLines
  <2>3. Ruled("parameters", Read(p, ps), p)
    BY <2>1, <2>2, ReadRule
  <2> QED
    BY <2>3 DEF Ruled
<1>7. Read(p, lines) = Read(p, bls)
  <2>1. IsList(ps) /\ IsList(bls)
    BY <1>1, <1>4 DEF GoodLines
  <2>2. Read(p, ps \o bls) = Read(Read(p, ps), bls)
    BY <2>1, ReadBoth
  <2> QED
    BY <1>1, <1>3, <1>6, <2>2
<1>8. Parsed(lines) = ActionStaging(Read(p, bls))
  BY <1>2, <1>7, Zenon DEF Parsed, Read, FirstParser
<1> QED
  BY <1>4, <1>5, <1>8 DEF Made

\* The device of a block keeps the ID of the block.
LEMMA PinnedKept ==
  ASSUME NEW p, IsParser(p), NEW bs, AreBlocks(bs), Holds(p, bs, Len(bs)),
         NEW i \in 1..Len(bs), bs[i].id # NoId, MakesADevice(bs[i])
  PROVE  \E j \in 1..Len(AssignMissingIds(p.keys)) :
           /\ AssignMissingIds(p.keys)[j].label = bs[i].label
           /\ AssignMissingIds(p.keys)[j].id = bs[i].id
<1>1. PICK b : b = bs[i]
  OBVIOUS
<1>2. PICK ks : ks = p.keys
  OBVIOUS
<1>3. IsBlock(b) /\ b.id # NoId /\ AreDevices(ks) /\ ToldApart(ks)
  BY <1>1, <1>2 DEF AreBlocks, IsParser, Holds
<1>4. PICK j \in 1..Len(ks) : ks[j].label = b.label /\ ks[j].type = b.type /\ ks[j].id = b.id
  <2>1. PICK j \in 1..Len(ks) : IsMadeFrom(ks[j], b)
    BY <1>1, <1>2 DEF Holds
  <2> QED
    BY <1>3, <2>1 DEF IsMadeFrom
<1>5. Len(ks) \in Nat
  BY <1>3, ListFacts DEF AreDevices
<1>6. KeepsId(ks, j)
  <2>1. ks[j].id # NoId /\ ks[j].id[1] = Family(ks[j].type)
    BY <1>3, <1>4 DEF IsBlock
  <2>2. \A l \in (j + 1)..Len(ks) : l \in 1..Len(ks) /\ l # j
    BY <1>5
  <2>3. \A l \in (j + 1)..Len(ks) : ks[l].id # ks[j].id
    BY <1>3, <2>1, <2>2 DEF ToldApart
  <2> QED
    BY <2>1, <2>3 DEF KeepsId
<1>7. PICK new : new = AssignMissingIds(ks)
  OBVIOUS
<1>8. /\ Len(new) = Len(ks)
      /\ \A l \in 1..Len(ks) : new[l].label = ks[l].label /\ (KeepsId(ks, l) => new[l].id = ks[l].id)
  BY <1>3, <1>7, AssignFacts
<1>9. j \in 1..Len(new) /\ new[j].label = b.label /\ new[j].id = b.id
  BY <1>4, <1>6, <1>8
<1> QED
  BY <1>1, <1>2, <1>7, <1>9

-----------------------------------------------------------------------------
(***************************************************************************)
(* The page.                                                               *)
(***************************************************************************)
IsDistinct(ks) == \A i, j \in 1..Len(ks) : ks[i].id = ks[j].id => i = j

LEMMA AtLeastOneField ==
  ASSUME NEW t \in {"GPIO_PMP", "I2C_PRS"}, NEW names, names \in {PageFields[t], Templates[t]}
  PROVE  "type" \in ToSet(names)
<1>1. t \in Types
  BY TypesAre
<1>2. AreFieldNames(t, names)
  BY <1>1, PageFieldsAreNames, TemplatesAreNames
<1>3. PICK S : names \in Seq(S)
  BY <1>2 DEF AreFieldNames, IsList
<1>4. names # <<>> /\ names[1] = "type"
  BY <1>2 DEF AreFieldNames
<1>5. 1 \in DOMAIN names
  BY <1>3, <1>4
<1> QED
  BY <1>4, <1>5 DEF ToSet

LEMMA BlockOfFacts ==
  ASSUME NEW d, IsDevice(d), d.type \in Types, d.id # NoId => d.id[1] = Family(d.type), NEW found
  PROVE  IsBlock(BlockOf(d, found)) /\ BlockOf(d, found).id = d.id
<1>1. PICK names : names = PageFields[d.type]
  OBVIOUS
<1>2. PICK at : at = [n \in ToSet(names) |-> IF IsLeftOver(d, n) THEN found[n] ELSE Readable(n, d.at[n])]
  OBVIOUS
<1>3. PICK b : b = [label |-> d.label, type |-> d.type, id |-> d.id, names |-> names, at |-> at]
  OBVIOUS
<1>4. BlockOf(d, found) = b
  BY <1>1, <1>2, <1>3 DEF BlockOf
<1>5. b.label = d.label /\ b.type = d.type /\ b.id = d.id /\ b.names = names /\ b.at = at
  BY <1>3
<1>6. ASSUME d.type \in {"GPIO_PMP", "I2C_PRS"} PROVE at["type"] = d.at["type"]
  <2>1. "type" \in ToSet(names)
    BY <1>1, <1>6, AtLeastOneField
  <2>2. ~IsLeftOver(d, "type")
    BY <1>6, UnsetAssumption DEF IsDevice, Roles, IsLeftOver
  <2>3. at["type"] = Readable("type", d.at["type"])
    BY <1>2, <2>1, <2>2
  <2> QED
    BY <2>3 DEF Readable
<1>7. DOMAIN at = ToSet(names)
  BY <1>2
<1>8. b.type = "GPIO_PMP" => b.at["type"] \in Roles
  BY <1>5, <1>6 DEF IsDevice
<1>9. b.type = "I2C_PRS" => b.at["type"] = "PTE7300"
  BY <1>5, <1>6 DEF IsDevice
<1>11. ASSUME NEW n \in DOMAIN at \cap DOMAIN Taken[d.type] PROVE Fits(d.type, n, at[n])
  <2>1. n \in DOMAIN d.at /\ Fits(d.type, n, d.at[n])
    BY <1>11 DEF IsDevice, HoldsTaken
  <2>3. CASE n \notin ScopeNames /\ n # "tank_uom"
    BY <2>3 DEF Fits
  <2>4. CASE n \in ScopeNames \/ n = "tank_uom"
    <3>1. ~IsLeftOver(d, n)
      BY <2>1, <2>4, UnsetAssumption DEF IsLeftOver, Fits, Scopes
    <3>2. at[n] = Readable(n, d.at[n])
      BY <1>2, <1>7, <3>1
    <3>3. at[n] = d.at[n]
      BY <2>4, <3>2 DEF Readable, ScopeNames
    <3> QED
      BY <2>1, <3>3
  <2> QED
    BY <2>3, <2>4
<1>10. IsBlock(b)
  BY <1>1, <1>3, <1>5, <1>7, <1>8, <1>9, <1>11 DEF IsBlock, IsDevice
<1> QED
  BY <1>4, <1>5, <1>10

\* The keys of the page are those of the memory, in their order.
LEMMA PagedFacts ==
  ASSUME NEW m, AreDevices(m.keys), IsDistinct(m.keys)
  PROVE  /\ IsList(PagedKeys(m)) /\ IsDistinct(PagedKeys(m))
         /\ \A i \in 1..Len(PagedKeys(m)) :
              \E j \in 1..Len(m.keys) : PagedKeys(m)[i] = m.keys[j] /\ IsPaged(m, j)
<1>1. PICK n \in Nat : n = Len(m.keys)
  BY ListFacts DEF AreDevices
<1>2. PICK path : /\ path[0] = <<>>
                  /\ \A k \in 1..n :
                       path[k] = IF IsPaged(m, k) THEN Append(path[k - 1], m.keys[k]) ELSE path[k - 1]
                  /\ path[n] = PagedKeys(m)
  BY <1>1, PagedFold
<1> DEFINE From(k) == /\ IsList(path[k]) /\ IsDistinct(path[k])
                      /\ \A i \in 1..Len(path[k]) : \E j \in 1..k : path[k][i] = m.keys[j] /\ IsPaged(m, j)
           T == {k \in 0..n : ~From(k)}
<1>3. 0 \notin T
  <2>1. IsList(<<>>) /\ Len(<<>>) = 0
    BY DEF IsList
  <2> QED
    BY <1>2, <2>1 DEF IsDistinct
<1>4. ASSUME NEW k \in 1..n, k - 1 \in 0..n, k - 1 \notin T PROVE k \notin T
  <2>1. PICK old : old = path[k - 1]
    OBVIOUS
  <2>2. /\ IsList(old) /\ IsDistinct(old)
        /\ \A i \in 1..Len(old) : \E j \in 1..(k - 1) : old[i] = m.keys[j] /\ IsPaged(m, j)
    BY <1>4, <2>1
  <2>3. \A j \in 1..(k - 1) : j \in 1..k /\ j \in 1..n /\ j # k
    OBVIOUS
  <2>4. CASE ~IsPaged(m, k)
    <3>1. path[k] = old
      BY <1>2, <2>1, <2>4
    <3> QED
      BY <2>2, <2>3, <3>1
  <2>5. CASE IsPaged(m, k)
    <3>1. PICK new : new = Append(old, m.keys[k])
      OBVIOUS
    <3>2. path[k] = new
      BY <1>2, <2>1, <2>5, <3>1
    <3>3. PICK S : old \in Seq(S)
      BY <2>2 DEF IsList
    <3>4. PICK l \in Nat : l = Len(old)
      BY <3>3
    <3>5. /\ new \in Seq(S \cup {m.keys[k]}) /\ Len(new) = l + 1 /\ new[l + 1] = m.keys[k]
          /\ \A i \in 1..l : new[i] = old[i]
      BY <3>1, <3>3, <3>4
    <3>6. \A i \in 1..l : old[i].id # m.keys[k].id
      <4> SUFFICES ASSUME NEW i \in 1..l, old[i].id = m.keys[k].id PROVE FALSE
        OBVIOUS
      <4>1. PICK j \in 1..(k - 1) : old[i] = m.keys[j]
        BY <2>2, <3>4
      <4> QED
        BY <1>1, <2>3, <4>1 DEF IsDistinct
    <3>7. \A i \in 1..(l + 1) : i = l + 1 \/ i \in 1..l
      OBVIOUS
    <3>8. IsDistinct(new)
      BY <2>2, <3>4, <3>5, <3>6, <3>7 DEF IsDistinct
    <3>9. \A i \in 1..(l + 1) : \E j \in 1..k : new[i] = m.keys[j] /\ IsPaged(m, j)
      <4> TAKE i \in 1..(l + 1)
      <4>1. CASE i = l + 1
        <5>1. k \in 1..k /\ new[i] = m.keys[k]
          BY <3>4, <3>5, <4>1
        <5> QED
          BY <2>5, <5>1
      <4>2. CASE i # l + 1
        <5>1. i \in 1..l
          BY <3>7, <4>2
        <5>2. new[i] = old[i]
          BY <3>5, <4>2
        <5>3. PICK j \in 1..(k - 1) : old[i] = m.keys[j] /\ IsPaged(m, j)
          BY <2>2, <3>4, <5>1
        <5> QED
          BY <2>3, <5>2, <5>3
      <4> QED
        BY <4>1, <4>2
    <3> QED
      BY <3>2, <3>5, <3>8, <3>9 DEF IsList
  <2> QED
    BY <2>4, <2>5
<1>5. T \in SUBSET (0..n)
  OBVIOUS
<1> HIDE DEF T, From
<1>6. T = {}
  BY <1>3, <1>4, <1>5, FirstFailure
<1>7. From(n)
  BY <1>6 DEF T
<1> QED
  BY <1>1, <1>2, <1>7 DEF From

LEMMA PageBlocks ==
  ASSUME NEW m, AreDevices(m.keys), IsDistinct(m.keys), \A i \in 1..Len(m.keys) : m.keys[i].id[1] = Family(m.keys[i].type),
         NEW found
  PROVE  AreBlocks([i \in 1..Len(PagedKeys(m)) |-> BlockOf(PagedKeys(m)[i], found)])
<1>1. PICK ks : ks = PagedKeys(m)
  OBVIOUS
<1>2. /\ IsList(ks) /\ IsDistinct(ks)
      /\ \A i \in 1..Len(ks) : \E j \in 1..Len(m.keys) : ks[i] = m.keys[j] /\ IsPaged(m, j)
  BY <1>1, PagedFacts
<1>3. PICK n \in Nat : n = Len(ks)
  BY <1>2, ListFacts
<1>4. ASSUME NEW i \in 1..n PROVE IsBlock(BlockOf(ks[i], found)) /\ BlockOf(ks[i], found).id = ks[i].id
  <2>1. PICK j \in 1..Len(m.keys) : ks[i] = m.keys[j] /\ IsPaged(m, j)
    BY <1>2, <1>3
  <2>2. PICK d : d = ks[i]
    OBVIOUS
  <2>3. IsDevice(d) /\ d.type \in Types /\ d.id[1] = Family(d.type)
    BY <2>1, <2>2 DEF AreDevices, IsDevice, IsPaged
  <2> QED
    BY <2>2, <2>3, BlockOfFacts
<1>5. PICK bs : bs = [i \in 1..n |-> BlockOf(ks[i], found)]
  OBVIOUS
<1>6. bs \in Seq({BlockOf(ks[i], found) : i \in 1..n}) /\ Len(bs) = n /\ \A i \in 1..n : bs[i] = BlockOf(ks[i], found)
  BY <1>5
<1>7. ToldApart(bs)
  <2>1. \A i \in 1..n : bs[i].id = ks[i].id
    BY <1>4, <1>6
  <2>2. \A i, j \in 1..n : ks[i].id = ks[j].id => i = j
    BY <1>2, <1>3 DEF IsDistinct
  <2> QED
    BY <1>6, <2>1, <2>2 DEF ToldApart
<1> QED
  BY <1>1, <1>3, <1>4, <1>5, <1>6, <1>7 DEF AreBlocks, IsList

\* What the client makes of the blocks.
LEMMA BlocksWith ==
  ASSUME NEW bs, AreBlocks(bs), NEW i \in 1..Len(bs), NEW b, IsBlock(b), b.id = bs[i].id
  PROVE  AreBlocks([bs EXCEPT ![i] = b])
<1>1. PICK S : bs \in Seq(S)
  BY DEF AreBlocks, IsList
<1>2. PICK n \in Nat : n = Len(bs)
  BY <1>1
<1>3. PICK new : new = [bs EXCEPT ![i] = b]
  OBVIOUS
<1>4. new \in Seq(S \cup {b}) /\ Len(new) = n /\ \A j \in 1..n : new[j] = IF j = i THEN b ELSE bs[j]
  BY <1>1, <1>2, <1>3
<1>5. \A j \in 1..n : new[j].id = bs[j].id /\ IsBlock(new[j])
  BY <1>2, <1>4 DEF AreBlocks
<1>6. ToldApart(new)
  BY <1>2, <1>4, <1>5 DEF AreBlocks, ToldApart
<1> QED
  BY <1>3, <1>4, <1>5, <1>6 DEF AreBlocks, IsList

LEMMA BlocksWithout ==
  ASSUME NEW bs, AreBlocks(bs), NEW i \in 1..Len(bs)
  PROVE  AreBlocks(RemoveAt(bs, i))
<1>1. PICK S : bs \in Seq(S)
  BY DEF AreBlocks, IsList
<1>2. PICK n \in Nat : n = Len(bs)
  BY <1>1
<1>3. PICK a : a = SubSeq(bs, 1, i - 1)
  OBVIOUS
<1>4. PICK z : z = SubSeq(bs, i + 1, n)
  OBVIOUS
<1>5. a \in Seq(S) /\ Len(a) = i - 1 /\ \A j \in 1..(i - 1) : a[j] = bs[j]
  BY <1>1, <1>2, <1>3
<1>6. z \in Seq(S) /\ Len(z) = n - i /\ \A j \in 1..(n - i) : z[j] = bs[i + j]
  BY <1>1, <1>2, <1>4
<1>7. PICK new : new = a \o z
  OBVIOUS
<1>8. RemoveAt(bs, i) = new
  BY <1>2, <1>3, <1>4, <1>7 DEF RemoveAt
<1>9. new \in Seq(S) /\ Len(new) = n - 1 /\ \A j \in 1..(n - 1) : new[j] = IF j < i THEN a[j] ELSE z[j - (i - 1)]
  <2>1. PICK m \in Nat : m = i - 1
    BY <1>2
  <2>2. PICK l \in Nat : l = n - i
    <3>1. n - i \in Nat
      BY <1>2
    <3> QED
      BY <3>1
  <2>3. a \in Seq(S) /\ z \in Seq(S) /\ Len(a) = m /\ Len(z) = l
    BY <1>5, <1>6, <2>1, <2>2
  <2>4. new \in Seq(S) /\ Len(new) = m + l /\ \A j \in 1..(m + l) : new[j] = IF j <= m THEN a[j] ELSE z[j - m]
    <3>1. /\ a \o z \in Seq(S) /\ Len(a \o z) = Len(a) + Len(z)
          /\ \A j \in 1..(Len(a) + Len(z)) :
               (a \o z)[j] = IF j <= Len(a) THEN a[j] ELSE z[j - Len(a)]
      BY <2>3, ConcatProperties
    <3> QED
      BY <1>7, <2>3, <3>1, Zenon
  <2>5. i \in Nat /\ i = m + 1 /\ n \in Nat /\ n - 1 \in Nat /\ m + l = n - 1
    BY <1>2, <2>1, <2>2
  <2>6. \A j \in 1..(n - 1) : j < i <=> j <= m
    BY <2>5
  <2>7. i - 1 = m
    BY <2>1
  <2>8. new \in Seq(S) /\ Len(new) = n - 1
    BY <2>4, <2>5
  <2>9. \A j \in 1..(n - 1) : new[j] = IF j < i THEN a[j] ELSE z[j - (i - 1)]
    <3> TAKE j \in 1..(n - 1)
    <3>1. j \in 1..(m + l) /\ j - (i - 1) = j - m
      BY <2>5, <2>7
    <3> QED
      BY <2>4, <2>6, <3>1
  <2> QED
    BY <2>8, <2>9
<1>10. \A j \in 1..(n - 1) : new[j] = bs[IF j < i THEN j ELSE j + 1]
  <2> TAKE j \in 1..(n - 1)
  <2>1. CASE j < i
    <3>1. j \in 1..(i - 1)
      BY <1>2, <2>1
    <3> QED
      BY <1>5, <1>9, <2>1, <3>1
  <2>2. CASE ~(j < i)
    <3>1. j - (i - 1) \in 1..(n - i) /\ i + (j - (i - 1)) = j + 1
      BY <1>2, <2>2
    <3> QED
      BY <1>6, <1>9, <2>2, <3>1
  <2> QED
    BY <2>1, <2>2
<1> DEFINE From(j) == IF j < i THEN j ELSE j + 1
<1>11. \A j \in 1..(n - 1) : From(j) \in 1..n /\ new[j] = bs[From(j)]
  BY <1>2, <1>10
<1>12. \A j, k \in 1..(n - 1) : From(j) = From(k) => j = k
  BY <1>2
<1> HIDE DEF From
<1>13. \A j \in 1..(n - 1) : IsBlock(new[j])
  BY <1>2, <1>11 DEF AreBlocks
<1>14. ToldApart(new)
  <2> SUFFICES ASSUME NEW j \in 1..(n - 1), NEW k \in 1..(n - 1), new[j].id = new[k].id, new[j].id # NoId
               PROVE  j = k
    BY <1>9 DEF ToldApart
  <2>1. From(j) = From(k)
    BY <1>2, <1>11 DEF AreBlocks, ToldApart
  <2> QED
    BY <1>12, <2>1
<1> QED
  BY <1>8, <1>9, <1>13, <1>14 DEF AreBlocks, IsList

LEMMA BlocksAnd ==
  ASSUME NEW bs, AreBlocks(bs), NEW b, IsBlock(b), b.id = NoId
  PROVE  AreBlocks(Append(bs, b))
<1>1. PICK S : bs \in Seq(S)
  BY DEF AreBlocks, IsList
<1>2. PICK n \in Nat : n = Len(bs)
  BY <1>1
<1>3. PICK new : new = Append(bs, b)
  OBVIOUS
<1>4. new \in Seq(S \cup {b}) /\ Len(new) = n + 1 /\ \A j \in 1..(n + 1) : new[j] = IF j = n + 1 THEN b ELSE bs[j]
  BY <1>1, <1>2, <1>3
<1>5. \A j \in 1..(n + 1) : j = n + 1 \/ j \in 1..n
  BY <1>2
<1>6. \A j \in 1..(n + 1) : IsBlock(new[j])
  BY <1>2, <1>4, <1>5 DEF AreBlocks
<1>7. ToldApart(new)
  BY <1>2, <1>4, <1>5 DEF AreBlocks, ToldApart
<1> QED
  BY <1>3, <1>4, <1>6, <1>7 DEF AreBlocks, IsList

\* A field that is given one of its values.
LEMMA FieldWith ==
  ASSUME NEW b, IsBlock(b), NEW n \in ToSet(b.names), NEW v,
         n = "type" /\ b.type = "GPIO_PMP" => v \in Roles \cup {"gpio", "Active High", "Active Low"},
         n = "type" /\ b.type = "I2C_PRS" => v \in {"PTE7300", "HSC/SSC"},
         Fits(b.type, n, v)
  PROVE  IsBlock([b EXCEPT !.at[n] = v]) /\ [b EXCEPT !.at[n] = v].id = b.id
<1>1. PICK at : at = [b.at EXCEPT ![n] = v]
  OBVIOUS
<1>2. PICK c : c = [label |-> b.label, type |-> b.type, id |-> b.id, names |-> b.names, at |-> at]
  OBVIOUS
<1>3. [b EXCEPT !.at[n] = v] = c
  <2>1. b = [label |-> b.label, type |-> b.type, id |-> b.id, names |-> b.names, at |-> b.at]
    BY DEF IsBlock
  <2>2. PICK e : e = [b EXCEPT !.at = at]
    OBVIOUS
  <2>3. [b EXCEPT !.at[n] = v] = e
    BY <1>1, <2>1, <2>2
  <2>4. e = [label |-> b.label, type |-> b.type, id |-> b.id, names |-> b.names, at |-> at]
    BY <2>1, <2>2
  <2> QED
    BY <1>2, <2>3, <2>4
<1>4. c.label = b.label /\ c.type = b.type /\ c.id = b.id /\ c.names = b.names /\ c.at = at
  BY <1>2
<1>5. /\ DOMAIN at = DOMAIN b.at
      /\ b.type \in {"GPIO_PMP", "I2C_PRS"} => at["type"] = IF n = "type" THEN v ELSE b.at["type"]
  <2>1. DOMAIN b.at = ToSet(b.names) /\ (b.type \in {"GPIO_PMP", "I2C_PRS"} => "type" \in ToSet(b.names))
    BY AtLeastOneField DEF IsBlock
  <2> QED
    BY <1>1, <2>1
<1>6. c.type = "GPIO_PMP" => c.at["type"] \in Roles \cup {"gpio", "Active High", "Active Low"}
  BY <1>4, <1>5 DEF IsBlock
<1>7. c.type = "I2C_PRS" => c.at["type"] \in {"PTE7300", "HSC/SSC"}
  BY <1>4, <1>5 DEF IsBlock
<1>9. ASSUME NEW k \in DOMAIN at \cap DOMAIN Taken[b.type] PROVE Fits(b.type, k, at[k])
  <2>1. k \in DOMAIN b.at
    BY <1>5
  <2>2. at[k] = IF k = n THEN v ELSE b.at[k]
    BY <1>1, <2>1
  <2>3. Fits(b.type, k, b.at[k])
    BY <2>1 DEF IsBlock
  <2> QED
    BY <2>2, <2>3
<1>8. IsBlock(c)
  BY <1>2, <1>4, <1>5, <1>6, <1>7, <1>9 DEF IsBlock
<1> QED
  BY <1>3, <1>4, <1>8

LEMMA LabelWith ==
  ASSUME NEW b, IsBlock(b), NEW label
  PROVE  IsBlock([b EXCEPT !.label = label]) /\ [b EXCEPT !.label = label].id = b.id
<1>1. PICK c : c = [b EXCEPT !.label = label]
  OBVIOUS
<1>2. c = [label |-> label, type |-> b.type, id |-> b.id, names |-> b.names, at |-> b.at]
  BY <1>1 DEF IsBlock
<1>3. c.label = label /\ c.type = b.type /\ c.id = b.id /\ c.names = b.names /\ c.at = b.at
  BY <1>2
<1>4. IsBlock(c)
  BY <1>2, <1>3 DEF IsBlock
<1> QED
  BY <1>1, <1>3, <1>4

LEMMA NewBlockFacts ==
  ASSUME NEW t \in Types, NEW label
  PROVE  IsBlock(NewBlock(t, label)) /\ NewBlock(t, label).id = NoId /\ NewBlock(t, label).names = Templates[t]
         /\ NewBlock(t, label).type = t
<1>1. PICK names : names = Templates[t]
  OBVIOUS
<1>2. PICK at : at = [n \in ToSet(names) |-> IF n \in {"topic", "path", "statistics"} THEN Unset ELSE Preset(t, n)]
  OBVIOUS
<1>3. PICK b : b = [label |-> label, type |-> t, id |-> NoId, names |-> names, at |-> at]
  OBVIOUS
<1>4. NewBlock(t, label) = b
  BY <1>1, <1>2, <1>3 DEF NewBlock
<1>5. b.label = label /\ b.type = t /\ b.id = NoId /\ b.names = names /\ b.at = at
  BY <1>3
<1>6. DOMAIN at = ToSet(names)
  BY <1>2
<1>7. t \in {"GPIO_PMP", "I2C_PRS"} => at["type"] = Preset(t, "type")
  BY <1>1, <1>2, AtLeastOneField
<1>8. t = "GPIO_PMP" => Preset(t, "type") \in {"gpio", "Active High", "Active Low"}
  BY DEF Preset, NewlyOffered
<1>9. t = "I2C_PRS" => Preset(t, "type") \in {"PTE7300", "HSC/SSC"}
  <2>1. PICK b0 : b0 = [type |-> "I2C_PRS"]
    OBVIOUS
  <2>2. NewlyOffered(b0, "type") = {"PTE7300", "HSC/SSC"}
    BY <2>1 DEF NewlyOffered, Offered, ScopeNames, Numbers
  <2>3. Preset("I2C_PRS", "type") \in NewlyOffered(b0, "type")
    BY <2>1, <2>2 DEF Preset
  <2> QED
    BY <2>2, <2>3
<1>10. IsId(NoId)
  BY DEF IsId, NoId
<1>12. ASSUME NEW n \in DOMAIN at PROVE Fits(t, n, at[n])
  <2>1. CASE n \in ScopeNames
    <3>1. at[n] = Preset(t, n)
      BY <1>2, <1>6, <2>1 DEF ScopeNames
    <3>2. PICK b0 : b0 = [type |-> t]
      OBVIOUS
    <3>3. "Local" \in NewlyOffered(b0, n) /\ NewlyOffered(b0, n) \subseteq Scopes(t)
      BY <2>1, <3>2 DEF NewlyOffered, Offered, ScopeNames, Scopes, Numbers
    <3>4. Preset(t, n) \in NewlyOffered(b0, n)
      BY <3>2, <3>3 DEF Preset
    <3> QED
      BY <2>1, <3>1, <3>3, <3>4 DEF Fits, ScopeNames
  <2>2. CASE n = "tank_uom"
    <3>1. at[n] = Preset(t, n)
      BY <1>2, <1>6, <2>2
    <3>2. PICK b0 : b0 = [type |-> t]
      OBVIOUS
    <3>3. NewlyOffered(b0, n) = {"gallons", "liters", Unset}
      BY <2>2 DEF NewlyOffered, Offered, ScopeNames, Numbers
    <3>4. Preset(t, n) \in NewlyOffered(b0, n)
      BY <3>2, <3>3 DEF Preset
    <3> QED
      BY <2>2, <3>1, <3>3, <3>4 DEF Fits, ScopeNames
  <2>3. CASE n \notin ScopeNames /\ n # "tank_uom"
    BY <2>3 DEF Fits
  <2> QED
    BY <2>1, <2>2, <2>3
<1>11. IsBlock(b)
  BY <1>1, <1>3, <1>5, <1>6, <1>7, <1>8, <1>9, <1>10, <1>12 DEF IsBlock
<1> QED
  BY <1>1, <1>4, <1>5, <1>11

-----------------------------------------------------------------------------
(***************************************************************************)
(* The configuration from one start to the next.                           *)
(***************************************************************************)
KeysTellApart ==
  mem.up => /\ AreDevices(mem.keys) /\ IsDistinct(mem.keys)
            /\ \A i \in 1..Len(mem.keys) : mem.keys[i].id[1] = Family(mem.keys[i].type)

IsPage(p) ==
  p.shown => p = [shown |-> TRUE, params |-> p.params, blocks |-> p.blocks] /\ AreBlocks(p.blocks)

PagesTellApart == IsPage(page) /\ IsPage(saved)

FilesAreGood == GoodLines(disk) /\ (step = "written" => GoodLines(tmp) /\ (partial \/ IsSavedFile(tmp, page.blocks, MeantParameters(page, mem))))

FileIsSaved == saved.shown /\ ~partial => IsSavedFile(disk, saved.blocks, saved.params)

SavingHasPage == step # "idle" => mem.up /\ page.shown

ConfigInv == KeysTellApart /\ PagesTellApart /\ FilesAreGood /\ FileIsSaved /\ SavingHasPage

LEMMA DownFacts == Down.up = FALSE /\ NoPage.shown = FALSE
BY DEF Down, NoPage

LEMMA ConfigInitially ==
  ASSUME MCInit PROVE ConfigInv
<1>1. ~mem.up /\ ~page.shown /\ ~saved.shown /\ step = "idle"
  BY DownFacts DEF MCInit, ConfigInit, NoConfig
<1>2. GoodLines(disk)
  <2>1. CASE disk \in Files
    <3>1. disk \in Seq(ToSet(disk))
          /\ \A i \in 1..Len(disk) : disk[i].name = "ID" => disk[i].val = Unset \/ IsId(disk[i].val)
      BY <2>1, FilesAssumption
    <3> QED
      BY <3>1 DEF GoodLines, GoodLine, IsList
  <2>2. CASE disk = <<>>
    <3>1. IsList(<<>>) /\ Len(<<>>) = 0
      BY DEF IsList
    <3> QED
      BY <2>2, <3>1 DEF GoodLines
  <2> QED
    BY <2>1, <2>2 DEF MCInit, ConfigInit, NoConfig
<1> QED
  BY <1>1, <1>2 DEF ConfigInv, KeysTellApart, PagesTellApart, IsPage, FilesAreGood, FileIsSaved, SavingHasPage

LEMMA StartKeeps ==
  ASSUME ConfigInv, Start PROVE ConfigInv'
<1>1. PICK ks : ks = AssignMissingIds(Parsed(disk).keys)
  OBVIOUS
<1>2. mem'.up /\ mem'.keys = ks /\ UNCHANGED <<disk, tmp, step, page, saved, partial>> /\ ~mem.up
  <2>1. PICK m : m = mem'
    OBVIOUS
  <2>2. \E virtual, found : m = [up |-> TRUE, keys |-> ks, params |-> ParametersOf(disk), virtual |-> virtual,
                                 found |-> found]
    BY <1>1, <2>1 DEF Start
  <2>3. m.up /\ m.keys = ks
    BY <2>2
  <2> QED
    BY <2>1, <2>3 DEF Start
<1>3. PICK p : p = Parsed(disk)
  OBVIOUS
<1>4. AreDevices(p.keys)
  BY <1>3, ParsedIsTyped DEF ConfigInv, FilesAreGood, IsParser
<1>5. PICK old : old = p.keys
  OBVIOUS
<1>6. ks = AssignMissingIds(old) /\ AreDevices(old)
  BY <1>1, <1>3, <1>4, <1>5
<1>7. /\ AreDevices(ks) /\ Len(ks) = Len(old)
      /\ \A i \in 1..Len(old) : ks[i].id[1] = Family(ks[i].type)
      /\ \A i, j \in 1..Len(old) : ks[i].id = ks[j].id => i = j
  BY <1>6, AssignFacts
<1>8. IsDistinct(ks)
  BY <1>7 DEF IsDistinct
<1>9. KeysTellApart'
  BY <1>2, <1>7, <1>8 DEF KeysTellApart
<1>10. (PagesTellApart /\ FilesAreGood /\ FileIsSaved)'
  BY <1>2 DEF ConfigInv, PagesTellApart, FilesAreGood, FileIsSaved, SavingHasPage
<1>11. SavingHasPage'
  BY <1>2 DEF ConfigInv, SavingHasPage
<1> QED
  BY <1>9, <1>10, <1>11 DEF ConfigInv

\* A step of the client, or a page that is shown: only the page changes.
LEMMA PageKeeps ==
  ASSUME ConfigInv, step = "idle", UNCHANGED <<mem, disk, tmp, step, saved, partial>>, IsPage(page')
  PROVE  ConfigInv'
BY DEF ConfigInv, KeysTellApart, PagesTellApart, FilesAreGood, FileIsSaved, SavingHasPage

LEMMA LoadPageKeeps ==
  ASSUME ConfigInv, LoadPage PROVE ConfigInv'
<1>1. PICK bs : bs = [i \in 1..Len(PagedKeys(mem)) |-> BlockOf(PagedKeys(mem)[i], mem.found)]
  OBVIOUS
<1>2. PICK m : m = mem
  OBVIOUS
<1>3. AreDevices(m.keys) /\ IsDistinct(m.keys) /\ \A i \in 1..Len(m.keys) : m.keys[i].id[1] = Family(m.keys[i].type)
  BY <1>2 DEF LoadPage, ConfigInv, KeysTellApart
<1>4. AreBlocks(bs)
  BY <1>1, <1>2, <1>3, PageBlocks
<1>5. PICK p : p = [shown |-> TRUE, params |-> PagedParameters(mem), blocks |-> bs]
  OBVIOUS
<1>6. page' = p
  BY <1>1, <1>5 DEF LoadPage
<1>7. IsPage(p)
  BY <1>4, <1>5 DEF IsPage
<1> QED
  BY <1>6, <1>7, PageKeeps DEF LoadPage

LEMMA PageWithBlocks ==
  ASSUME NEW p, IsPage(p), p.shown, NEW bs, AreBlocks(bs)
  PROVE  IsPage([p EXCEPT !.blocks = bs])
<1>1. PICK q : q = [p EXCEPT !.blocks = bs]
  OBVIOUS
<1>2. q = [shown |-> TRUE, params |-> p.params, blocks |-> bs]
  BY <1>1 DEF IsPage
<1>3. q.shown = TRUE /\ q.params = p.params /\ q.blocks = bs
  BY <1>2
<1> QED
  BY <1>1, <1>2, <1>3 DEF IsPage

LEMMA PageAfter ==
  ASSUME ConfigInv, Edited, NEW bs, AreBlocks(bs), page' = [page EXCEPT !.blocks = bs]
  PROVE  ConfigInv'
<1>1. IsPage(page) /\ page.shown
  BY DEF ConfigInv, PagesTellApart, Edited
<1>2. IsPage(page')
  BY <1>1, PageWithBlocks
<1> QED
  BY <1>2, PageKeeps DEF Edited

LEMMA OfferedFacts ==
  ASSUME NEW b, NEW n, NEW v \in Offered(b, n)
  PROVE  /\ n = "type" /\ b.type = "GPIO_PMP" => v \in Roles
         /\ n = "type" /\ b.type = "I2C_PRS" => v \in {"PTE7300", "HSC/SSC"}
         /\ Fits(b.type, n, v)
<1>1. /\ n = "type" /\ b.type = "GPIO_PMP" => v \in Roles
      /\ n = "type" /\ b.type = "I2C_PRS" => v \in {"PTE7300", "HSC/SSC"}
  BY DEF Offered, ScopeNames, Numbers, Roles
<1>2. n \in ScopeNames => v \in Scopes(b.type)
  BY DEF Offered, ScopeNames, Scopes, Numbers
<1>3. n = "tank_uom" => v \in {"gallons", "liters", Unset}
  BY DEF Offered, ScopeNames, Numbers
<1> QED
  BY <1>1, <1>2, <1>3 DEF Fits

LEMMA EditsKeep ==
  ASSUME ConfigInv, EditField \/ EditLabel \/ DeleteBlock \/ AddBlock \/ EditParameter
  PROVE  ConfigInv'
<1>1. Edited
  BY DEF EditField, EditLabel, DeleteBlock, AddBlock, EditParameter
<1>2. PICK bs : bs = page.blocks
  OBVIOUS
<1>3. PICK p : p = page
  OBVIOUS
<1>4. p.shown /\ IsPage(p) /\ AreBlocks(bs) /\ bs = p.blocks
  BY <1>1, <1>2, <1>3 DEF Edited, ConfigInv, PagesTellApart, IsPage
<1>5. p = [shown |-> TRUE, params |-> p.params, blocks |-> bs]
  BY <1>4 DEF IsPage
<1>6. PICK S : bs \in Seq(S)
  BY <1>4 DEF AreBlocks, IsList
<1>7. CASE EditField
  <2>1. PICK i \in 1..Len(bs) : \E n \in ToSet(bs[i].names) : \E v \in Offered(bs[i], n) :
          page' = [page EXCEPT !.blocks[i].at[n] = v]
    BY <1>2, <1>7 DEF EditField
  <2>2. PICK n \in ToSet(bs[i].names) : \E v \in Offered(bs[i], n) : page' = [page EXCEPT !.blocks[i].at[n] = v]
    BY <2>1
  <2>3. PICK v \in Offered(bs[i], n) : page' = [page EXCEPT !.blocks[i].at[n] = v]
    BY <2>2
  <2>4. PICK b : b = bs[i]
    OBVIOUS
  <2>5. PICK c : c = [b EXCEPT !.at[n] = v]
    OBVIOUS
  <2>6. IsBlock(b)
    BY <1>4, <2>4 DEF AreBlocks
  <2>11. /\ n \in ToSet(b.names)
         /\ n = "type" /\ b.type = "GPIO_PMP" => v \in Roles \cup {"gpio", "Active High", "Active Low"}
         /\ n = "type" /\ b.type = "I2C_PRS" => v \in {"PTE7300", "HSC/SSC"}
         /\ Fits(b.type, n, v)
    BY <2>4, OfferedFacts
  <2>7. IsBlock(c) /\ c.id = b.id
    BY <2>5, <2>6, <2>11, FieldWith
  <2>8. PICK new : new = [bs EXCEPT ![i] = c]
    OBVIOUS
  <2>9. AreBlocks(new)
    BY <1>4, <2>4, <2>7, <2>8, BlocksWith
  <2>10. page' = [page EXCEPT !.blocks = new]
    <3>2. [p EXCEPT !.blocks[i].at[n] = v] =
            [p EXCEPT !.blocks = [p.blocks EXCEPT ![i] = [p.blocks[i] EXCEPT !.at[n] = v]]]
      OBVIOUS
    <3>1. [p EXCEPT !.blocks[i].at[n] = v] = [p EXCEPT !.blocks = new]
      BY <1>4, <2>4, <2>5, <2>8, <3>2, Zenon
    <3> QED
      BY <1>3, <2>3, <3>1
  <2> QED
    BY <1>1, <2>9, <2>10, PageAfter
<1>8. CASE EditLabel
  <2>1. PICK i \in 1..Len(bs) : page' = [page EXCEPT !.blocks[i].label = NoLabel]
    BY <1>2, <1>8 DEF EditLabel
  <2>2. PICK b : b = bs[i]
    OBVIOUS
  <2>3. PICK c : c = [b EXCEPT !.label = NoLabel]
    OBVIOUS
  <2>4. IsBlock(b)
    BY <1>4, <2>2 DEF AreBlocks
  <2>5. IsBlock(c) /\ c.id = b.id
    BY <2>3, <2>4, LabelWith
  <2>6. PICK new : new = [bs EXCEPT ![i] = c]
    OBVIOUS
  <2>7. AreBlocks(new)
    BY <1>4, <2>2, <2>5, <2>6, BlocksWith
  <2>8. page' = [page EXCEPT !.blocks = new]
    <3>2. [p EXCEPT !.blocks[i].label = NoLabel] =
            [p EXCEPT !.blocks = [p.blocks EXCEPT ![i] = [p.blocks[i] EXCEPT !.label = NoLabel]]]
      OBVIOUS
    <3>1. [p EXCEPT !.blocks[i].label = NoLabel] = [p EXCEPT !.blocks = new]
      BY <1>4, <2>2, <2>3, <2>6, <3>2, Zenon
    <3> QED
      BY <1>3, <2>1, <3>1
  <2> QED
    BY <1>1, <2>7, <2>8, PageAfter
<1>9. CASE DeleteBlock
  <2>1. PICK i \in 1..Len(bs) : page' = [page EXCEPT !.blocks = RemoveAt(@, i)]
    BY <1>2, <1>9 DEF DeleteBlock
  <2>2. PICK new : new = RemoveAt(bs, i)
    OBVIOUS
  <2>3. AreBlocks(new)
    BY <1>4, <2>2, BlocksWithout
  <2>4. page' = [page EXCEPT !.blocks = new]
    BY <1>2, <2>1, <2>2
  <2> QED
    BY <1>1, <2>3, <2>4, PageAfter
<1>10. CASE AddBlock
  <2>1. PICK t \in Types :
          \/ page' = [page EXCEPT !.blocks = Append(@, NewBlock(t, "new"))]
          \/ \E n \in {"topic", "path", "statistics"} \cap ToSet(Templates[t]) :
               page' = [page EXCEPT !.blocks = Append(@, [NewBlock(t, "new") EXCEPT !.at[n] = <<n, 20>>])]
    BY <1>10 DEF AddBlock
  <2>2. PICK b : b = NewBlock(t, "new")
    OBVIOUS
  <2>3. IsBlock(b) /\ b.id = NoId /\ b.names = Templates[t]
    BY <2>2, NewBlockFacts
  <2>4. PICK c : IsBlock(c) /\ c.id = NoId /\ page' = [page EXCEPT !.blocks = Append(@, c)]
    <3>1. CASE page' = [page EXCEPT !.blocks = Append(@, NewBlock(t, "new"))]
      BY <2>2, <2>3, <3>1
    <3>2. CASE \E n \in {"topic", "path", "statistics"} \cap ToSet(Templates[t]) :
                 page' = [page EXCEPT !.blocks = Append(@, [NewBlock(t, "new") EXCEPT !.at[n] = <<n, 20>>])]
      <4>1. PICK n \in {"topic", "path", "statistics"} \cap ToSet(Templates[t]) :
              page' = [page EXCEPT !.blocks = Append(@, [NewBlock(t, "new") EXCEPT !.at[n] = <<n, 20>>])]
        BY <3>2
      <4>2. PICK v : v = <<n, 20>>
        OBVIOUS
      <4>3. PICK d : d = [b EXCEPT !.at[n] = v]
        OBVIOUS
      <4>4. n \in ToSet(b.names) /\ n # "type"
        BY <2>3
      <4>6. Fits(b.type, n, v)
        BY DEF Fits, ScopeNames
      <4>5. IsBlock(d) /\ d.id = b.id
        BY <2>3, <4>3, <4>4, <4>6, FieldWith
      <4> QED
        BY <2>2, <2>3, <4>1, <4>2, <4>3, <4>5
    <3> QED
      BY <2>1, <3>1, <3>2
  <2>5. PICK new : new = Append(bs, c)
    OBVIOUS
  <2>6. AreBlocks(new)
    BY <1>4, <2>4, <2>5, BlocksAnd
  <2>7. page' = [page EXCEPT !.blocks = new]
    BY <1>2, <2>4, <2>5
  <2> QED
    BY <1>1, <2>6, <2>7, PageAfter
<1>11. CASE EditParameter
  <2>1. PICK q : q = page'
    OBVIOUS
  <2>2. \/ q = [p EXCEPT !.params.mqtt_passwd = "another"]
        \/ \E v : q = [p EXCEPT !.params.mqtt_aquachemd_topic = v]
    BY <1>3, <1>11, <2>1 DEF EditParameter
  <2>3. \E params : q = [shown |-> TRUE, params |-> params, blocks |-> bs]
    BY <1>5, <2>2
  <2>4. IsPage(q)
    BY <1>4, <2>3 DEF IsPage
  <2> QED
    BY <1>1, <2>1, <2>4, PageKeeps DEF Edited
<1> QED
  BY <1>7, <1>8, <1>9, <1>10, <1>11

LEMMA ParameterLinesFacts ==
  ASSUME NEW p, NEW m PROVE ParameterLines(p, m) = LinesFor(MeantParameters(p, m))
BY Zenon DEF ParameterLines, LinesFor, LineFor

LEMMA HalfIsGood ==
  ASSUME NEW ls, GoodLines(ls)
  PROVE  GoodLines(SubSeq(ls, 1, Len(ls) \div 2))
<1>1. PICK S : ls \in Seq(S)
  BY DEF GoodLines, IsList
<1>2. PICK n \in Nat : n = Len(ls)
  BY <1>1
<1>3. PICK h : h = n \div 2
  OBVIOUS
<1>4. h \in 0..n
  BY <1>3
<1>5. PICK half : half = SubSeq(ls, 1, h)
  OBVIOUS
<1>6. half \in Seq(S) /\ Len(half) = h /\ \A k \in 1..h : half[k] = ls[k]
  BY <1>1, <1>2, <1>4, <1>5
<1>7. \A k \in 1..h : k \in 1..n
  BY <1>4
<1> QED
  BY <1>2, <1>3, <1>5, <1>6, <1>7 DEF GoodLines, IsList

LEMMA SaveWritesKeeps ==
  ASSUME ConfigInv, SaveWrites PROVE ConfigInv'
<1>1. mem.up /\ page.shown /\ UNCHANGED <<mem, disk, page, saved>> /\ step = "opened"
  BY DEF ConfigInv, SavingHasPage, SaveWrites
<1>2. PICK bs : bs = page.blocks
  OBVIOUS
<1>3. AreBlocks(bs)
  BY <1>1, <1>2 DEF ConfigInv, PagesTellApart, IsPage
<1>4. PICK ps : ps = ParameterLines(page, mem)
  OBVIOUS
<1>5. PICK lines : lines = ps \o BlocksLines(bs)
  OBVIOUS
<1>6. ps = LinesFor(MeantParameters(page, mem))
  BY <1>4, ParameterLinesFacts
<1>7. IsSavedFile(lines, bs, MeantParameters(page, mem))
  BY <1>5, <1>6 DEF IsSavedFile
<1>8. GoodLines(lines)
  BY <1>3, <1>7, ParsedHolds
<1>9. \/ step' = "refused" /\ UNCHANGED <<tmp, partial>>
      \/ step' = "written" /\ tmp' = lines /\ UNCHANGED partial
      \/ step' = "written" /\ tmp' = SubSeq(lines, 1, Len(lines) \div 2) /\ partial' = TRUE
  BY <1>2, <1>4, <1>5 DEF SaveWrites
<1>10. FilesAreGood'
  <2>1. CASE step' = "refused"
    BY <1>1, <2>1 DEF ConfigInv, FilesAreGood
  <2>2. CASE step' = "written" /\ tmp' = lines
    BY <1>1, <1>2, <1>7, <1>8, <2>2 DEF ConfigInv, FilesAreGood
  <2>3. CASE step' = "written" /\ tmp' = SubSeq(lines, 1, Len(lines) \div 2) /\ partial' = TRUE
    <3>1. GoodLines(tmp')
      BY <1>8, <2>3, HalfIsGood
    <3> QED
      BY <1>1, <2>3, <3>1 DEF ConfigInv, FilesAreGood
  <2> QED
    BY <1>9, <2>1, <2>2, <2>3
<1>11. FileIsSaved'
  BY <1>1, <1>9 DEF ConfigInv, FileIsSaved
<1>12. (KeysTellApart /\ PagesTellApart /\ SavingHasPage)'
  BY <1>1 DEF ConfigInv, KeysTellApart, PagesTellApart, SavingHasPage
<1> QED
  BY <1>10, <1>11, <1>12 DEF ConfigInv

LEMMA PageWithParams ==
  ASSUME NEW p, IsPage(p), p.shown, NEW values
  PROVE  [p EXCEPT !.params = values] = [shown |-> TRUE, params |-> values, blocks |-> p.blocks]
<1>1. PICK q : q = [p EXCEPT !.params = values]
  OBVIOUS
<1>2. q = [shown |-> TRUE, params |-> values, blocks |-> p.blocks]
  BY <1>1 DEF IsPage
<1> QED
  BY <1>1, <1>2

LEMMA RenameKeeps ==
  ASSUME ConfigInv, Rename PROVE ConfigInv'
<1>1. page.shown /\ IsPage(page) /\ step = "written" /\ UNCHANGED <<mem, page, partial>>
  BY DEF ConfigInv, SavingHasPage, PagesTellApart, Rename
<1>2. PICK bs : bs = page.blocks
  OBVIOUS
<1>3. PICK values : values = MeantParameters(page, mem)
  OBVIOUS
<1>4. PICK p : p = [shown |-> TRUE, params |-> values, blocks |-> bs]
  OBVIOUS
<1>5. saved' = p
  <2>1. [page EXCEPT !.params = values] = p
    BY <1>1, <1>2, <1>4, PageWithParams
  <2>2. saved' = [page EXCEPT !.params = values]
    BY <1>3 DEF Rename
  <2> QED
    BY <2>1, <2>2
<1>6. p.shown = TRUE /\ p.params = values /\ p.blocks = bs /\ AreBlocks(bs)
  BY <1>1, <1>2, <1>4 DEF IsPage
<1>7. IsPage(p)
  BY <1>4, <1>6 DEF IsPage
<1>8. PagesTellApart'
  BY <1>1, <1>5, <1>7 DEF PagesTellApart
<1>9. disk' = tmp /\ GoodLines(tmp) /\ (partial \/ IsSavedFile(tmp, bs, values)) /\ step' = "idle"
  BY <1>1, <1>2, <1>3 DEF Rename, ConfigInv, FilesAreGood
<1>10. FilesAreGood'
  BY <1>9 DEF FilesAreGood
<1>11. FileIsSaved'
  BY <1>1, <1>5, <1>6, <1>9 DEF FileIsSaved
<1>12. (KeysTellApart /\ SavingHasPage)'
  BY <1>1, <1>9 DEF ConfigInv, KeysTellApart, SavingHasPage
<1> QED
  BY <1>8, <1>10, <1>11, <1>12 DEF ConfigInv

LEMMA ConfigStep ==
  ASSUME ConfigInv, ConfigNext PROVE ConfigInv'
<1>1. CASE Stop
  BY <1>1, DownFacts
     DEF Stop, ConfigInv, KeysTellApart, PagesTellApart, IsPage, FilesAreGood, FileIsSaved, SavingHasPage
<1>2. CASE SaveOpens
  BY <1>2 DEF SaveOpens, ConfigInv, KeysTellApart, PagesTellApart, FilesAreGood, FileIsSaved, SavingHasPage
<1>3. CASE Refuse
  BY <1>3 DEF Refuse, ConfigInv, KeysTellApart, PagesTellApart, FilesAreGood, FileIsSaved, SavingHasPage
<1>4. CASE PowerLoss
  <2>1. GoodLines(disk')
    BY <1>4, HalfIsGood DEF PowerLoss, ConfigInv, FilesAreGood
  <2> QED
    BY <1>4, <2>1, DownFacts
       DEF PowerLoss, ConfigInv, KeysTellApart, PagesTellApart, IsPage, FilesAreGood, FileIsSaved, SavingHasPage
<1> QED
  BY <1>1, <1>2, <1>3, <1>4, StartKeeps, LoadPageKeeps, EditsKeep, SaveWritesKeeps, RenameKeeps DEF ConfigNext

LEMMA ConfigFollows == ConfigInv /\ [MCNext]_fileVars => ConfigInv'
<1>1. ASSUME ConfigInv, UNCHANGED configVars PROVE ConfigInv'
  BY <1>1 DEF ConfigInv, KeysTellApart, PagesTellApart, IsPage, FilesAreGood, FileIsSaved, SavingHasPage, configVars
<1>2. [MCNext]_fileVars => ConfigNext \/ UNCHANGED configVars
  BY Zenon DEF MCNext, fileVars
<1> QED
  BY <1>1, <1>2, ConfigStep

LEMMA ConfigTellsApart ==
  ASSUME ConfigInv PROVE IdsTellDevicesApart
<1>1. ASSUME mem.up, NEW i \in 1..Len(mem.keys), NEW j \in 1..Len(mem.keys), i # j
      PROVE  mem.keys[i].id # mem.keys[j].id
  BY <1>1 DEF ConfigInv, KeysTellApart, IsDistinct
<1>2. ASSUME saved.shown, ~partial, AllLabelled(saved), ~Parsed(disk).dead,
             NEW i \in 1..Len(saved.blocks), saved.blocks[i].id # NoId, MakesADevice(saved.blocks[i])
      PROVE  \E j \in 1..Len(AssignMissingIds(Parsed(disk).keys)) :
               /\ AssignMissingIds(Parsed(disk).keys)[j].label = saved.blocks[i].label
               /\ AssignMissingIds(Parsed(disk).keys)[j].id = saved.blocks[i].id
  <2>1. PICK bs : bs = saved.blocks
    OBVIOUS
  <2>2. AreBlocks(bs) /\ IsSavedFile(disk, bs, saved.params) /\ Labelled(bs)
    BY <1>2, <2>1 DEF ConfigInv, PagesTellApart, IsPage, FileIsSaved, AllLabelled, Labelled
  <2>3. PICK p : p = Parsed(disk)
    OBVIOUS
  <2>4. GoodLines(disk) /\ Holds(p, bs, Len(bs))
    BY <1>2, <2>2, <2>3, ParsedHolds
  <2>5. IsParser(p)
    BY <2>3, <2>4, ParsedIsTyped
  <2>6. i \in 1..Len(bs) /\ bs[i].id # NoId /\ MakesADevice(bs[i])
    BY <1>2, <2>1
  <2>7. \E j \in 1..Len(AssignMissingIds(p.keys)) :
           /\ AssignMissingIds(p.keys)[j].label = bs[i].label
           /\ AssignMissingIds(p.keys)[j].id = bs[i].id
    BY <2>2, <2>4, <2>5, <2>6, PinnedKept
  <2> QED
    BY <2>1, <2>3, <2>7
<1> QED
  BY <1>1, <1>2, Zenon DEF IdsTellDevicesApart

(***************************************************************************)
(* For any configuration file whose IDs are numbers of a family, however   *)
(* many devices, and any pages saved from it, the daemon ending between    *)
(* any two steps: no two keys of assign_missing_ids() have the same ID,    *)
(* and the device of a block that was saved with an ID is found with it    *)
(* by the next start.                                                      *)
(***************************************************************************)
THEOREM IdsAlwaysTellDevicesApart == MCSpec => []IdsTellDevicesApart
<1>1. MCInit => ConfigInv
  BY ConfigInitially
<1>2. ConfigInv /\ [MCNext]_fileVars => ConfigInv'
  BY ConfigFollows
<1>3. ConfigInv => IdsTellDevicesApart
  BY ConfigTellsApart
<1> QED
  BY <1>1, <1>2, <1>3, PTL DEF MCSpec

LEMMA ConfigBoots ==
  ASSUME ConfigInv PROVE BootGivesLastSave
<1> DEFINE parsed == Parsed(disk)
           made == {i \in 1..Len(saved.blocks) : MakesADevice(saved.blocks[i])}
           devices == {i \in 1..Len(parsed.keys) : parsed.keys[i].type \notin VirtualTypes}
<1>1. ASSUME saved.shown, ~partial, AllLabelled(saved), ~parsed.dead
      PROVE  /\ Cardinality(devices) = Cardinality(made)
             /\ \A i \in made : \E j \in devices : IsMadeFrom(parsed.keys[j], saved.blocks[i])
             /\ \A n \in DOMAIN Defaults :
                  ParametersOf(disk)[n] = IF saved.params[n] = Unset THEN Defaults[n] ELSE saved.params[n]
  <2>1. PICK bs : bs = saved.blocks
    OBVIOUS
  <2>2. AreBlocks(bs) /\ IsSavedFile(disk, bs, saved.params) /\ Labelled(bs)
    BY <1>1, <2>1 DEF ConfigInv, PagesTellApart, IsPage, FileIsSaved, AllLabelled, Labelled
  <2>3. PICK p : p = parsed
    OBVIOUS
  <2>4. Holds(p, bs, Len(bs))
    BY <1>1, <2>2, <2>3, ParsedHolds
  <2>5. devices = Devices(p.keys) /\ made = MadeOf(bs, Len(bs))
    BY <2>1, <2>3, Zenon DEF Devices, MadeOf
  <2>6. Cardinality(devices) = Cardinality(made)
    BY <2>4, <2>5 DEF Holds
  <2>7. ASSUME NEW i \in made PROVE \E j \in devices : IsMadeFrom(parsed.keys[j], saved.blocks[i])
    <3>1. i \in 1..Len(bs) /\ MakesADevice(bs[i])
      BY <2>1
    <3>2. PICK j \in 1..Len(p.keys) : IsMadeFrom(p.keys[j], bs[i])
      BY <2>4, <3>1 DEF Holds
    <3>3. p.keys[j].type = bs[i].type
      BY <3>2 DEF IsMadeFrom
    <3>4. bs[i].type \in Types
      BY <2>2, <3>1 DEF AreBlocks, IsBlock
    <3>5. j \in devices
      BY <2>3, <3>3, <3>4, TypesApart
    <3> QED
      BY <2>1, <2>3, <3>2, <3>5
  <2>8. \A n \in DOMAIN Defaults :
          ParametersOf(disk)[n] = IF saved.params[n] = Unset THEN Defaults[n] ELSE saved.params[n]
    BY <2>2, ParametersKept
  <2> QED
    BY <2>6, <2>7, <2>8
<1> QED
  BY <1>1, Zenon DEF BootGivesLastSave

(***************************************************************************)
(* For any configuration file, any number of devices, edits and saves, the *)
(* daemon ending between any two steps, in the middle of a save too: what  *)
(* the file gives when it is read is the page that was saved last.  Every  *)
(* block the parser makes a device of has one, of its type, with its label *)
(* and ID and each of its fields, although the devices share the slots of  *)
(* the staging area; there is no other device; and the parameters are      *)
(* those of the page.  Left out, as in the property, are a page that came  *)
(* to the disk in part, one with a block without a label, and one that no  *)
(* start survives; and of the fields those that NotKept names, among them  *)
(* an empty unit or pattern whose memory no constructor writes.            *)
(***************************************************************************)
THEOREM BootAlwaysGivesLastSave == MCSpec => []BootGivesLastSave
<1>1. MCInit => ConfigInv
  BY ConfigInitially
<1>2. ConfigInv /\ [MCNext]_fileVars => ConfigInv'
  BY ConfigFollows
<1>3. ConfigInv => BootGivesLastSave
  BY ConfigBoots
<1> QED
  BY <1>1, <1>2, <1>3, PTL DEF MCSpec

============================================================================
