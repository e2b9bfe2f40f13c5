----------------------------- MODULE Lifecycle -----------------------------
(***************************************************************************)
(* How AquachemD starts and stops: the main thread (aquachemd.c), the      *)
(* signal handler, the thread of the network services (net_services.c),    *)
(* the GPIO monitor (gpio_monitor.c), and one doser with the worker of its *)
(* timer (acd_timer.c).  The threads are told to stop by run states of     *)
(* their own; the monitor is joined, the network thread and the workers    *)
(* are detached and get a tenth of a second, which promises nothing and is *)
(* no step here.                                                           *)
(*                                                                         *)
(* A signal is handled on a thread the kernel chooses, which goes on when  *)
(* the handler returns; one is handled at a time, and MaxSignals come in   *)
(* all.  Threads can always be created.  Nobody calls                      *)
(* aquachemd_request_reload() (config.c 859), so that there is no reload.  *)
(***************************************************************************)
EXTENDS Naturals

CONSTANTS
  MaxSignals,
  MaxRequests,  \* requests the network thread serves
  Systemd       \* is_running_under_systemd()

ASSUME LimitsAssumption == MaxSignals \in Nat /\ MaxRequests \in Nat
ASSUME SystemdAssumption == Systemd \in BOOLEAN

VARIABLES
  main,       \* where the main thread is
  runState,   \* _thread_control.state
  mutex,      \* who holds _thread_control.mutex
  sig,        \* the signal handler: where it is, for which signal, on which thread
  asked,      \* history: a signal wrote CLEANUP, before or after the main loop began
  netAt,      \* where the network thread is
  netState,   \* _netsrunstate.state
  gpioAt,     \* where the GPIO monitor is
  gpioState,  \* _gpiomrunstate.state
  event,      \* shutdown_fd has been written
  worker,     \* where the worker of the doser's timer is
  told,       \* the run state of the worker is CLEANUP
  acts,       \* the timer has a duration: it was not cleared, nor reset to zero seconds
  doser,      \* the doser's state: ON, OFF, or at REST (ENABLED or DISABLED)
  relay,      \* its relay is closed
  pins,       \* gpio_open() has been called
  keys,       \* the list of keys is allocated
  late,       \* history: a request closed the relay after the last emergency stop
  signals,    \* signals that came
  requests    \* requests served

mainVars == <<main, runState, mutex>>
sigVars  == <<sig, asked, signals>>
netVars  == <<netAt, netState, requests>>
gpioVars == <<gpioAt, gpioState, event>>
pumpVars == <<worker, told, acts, doser, relay, late>>
memVars  == <<pins, keys>>
vars == <<mainVars, sigVars, netVars, gpioVars, pumpVars, memVars>>

RunStates == {"STARTING", "KEEPRUNNING", "CLEANUP", "FINISHED", "FAILED"}
Startup   == {"startnet", "initkeys", "startgpio", "enter"}
Loop      == {"test", "lock", "locked", "waiting", "woken"}
Teardown  == {"stoptimers", "estop", "stopnet", "stopgpio", "join"}
Signals   == {"SIGTERM", "SIGRESTART", "SIGRUPGRADE"}
Hosts     == {"main", "net", "gpio", "other"}

MainTypeOK ==
  /\ main \in Startup \cup Loop \cup Teardown \cup {"free", "exit", "finished"}
  /\ runState \in RunStates
  /\ mutex \in {"none", "main", "net", "gpio"}

SignalTypeOK ==
  /\ sig \in [at : {"idle", "lock", "estop", "wake"}, kind : Signals, host : Hosts]
  /\ asked \in {"no", "early", "inLoop"}
  /\ signals \in 0..MaxSignals

NetTypeOK ==
  /\ netAt \in {"none", "begin", "service", "loop", "serving", "forcing", "ending", "gone"}
  /\ netState \in RunStates
  /\ requests \in 0..MaxRequests

MonitorTypeOK ==
  /\ gpioAt \in {"none", "begin", "loop", "polling", "forcing", "ending", "gone"}
  /\ gpioState \in RunStates
  /\ event \in BOOLEAN

PumpTypeOK ==
  /\ worker \in {"none", "begin", "delay", "tried", "waiting", "ending"}
  /\ doser \in {"ON", "OFF", "REST"}
  /\ told \in BOOLEAN /\ acts \in BOOLEAN /\ relay \in BOOLEAN /\ late \in BOOLEAN

KeysTypeOK == pins \in BOOLEAN /\ keys \in BOOLEAN

TypeOK ==
  MainTypeOK /\ SignalTypeOK /\ NetTypeOK /\ MonitorTypeOK /\ PumpTypeOK /\ KeysTypeOK

Init ==
  /\ main = "startnet" /\ runState = "STARTING" /\ mutex = "none"
  /\ sig = [at |-> "idle", kind |-> "SIGTERM", host |-> "other"]
  /\ asked = "no" /\ signals = 0
  /\ netAt = "none" /\ netState = "STARTING" /\ requests = 0
  /\ gpioAt = "none" /\ gpioState = "STARTING" /\ event = FALSE
  /\ worker = "none" /\ told = FALSE /\ acts = FALSE
  /\ doser = "REST" /\ relay = FALSE /\ late = FALSE
  /\ pins = FALSE /\ keys = TRUE

\* A thread does nothing while it runs the signal handler, nor when main() has returned.
Runs(thread) ==
  /\ main # "finished"
  /\ ~(sig.at # "idle" /\ sig.host = thread)
-----------------------------------------------------------------------------
(***************************************************************************)
(* The doser.  What a thread does to a key that has been freed may or may  *)
(* not reach the relay.                                                    *)
(***************************************************************************)
Reaches(value) == relay' \in {value} \cup (IF keys THEN {} ELSE {relay})

BehindEmergencyStop == main \in {"stopnet", "stopgpio", "join", "free", "exit", "finished"}

\* devices_emergency_stop(): the relays of the keys in the list, and nothing else.
EmergencyStop == relay' = IF keys THEN FALSE ELSE relay

\* A relay that is not open yet does not answer.
CloseRelay ==
  /\ IF pins THEN Reaches(TRUE) ELSE UNCHANGED relay
  /\ late' = IF BehindEmergencyStop THEN TRUE ELSE late

\* CLEANUP is written for the worker and its condition broadcast: a wait ends, and one that
\* watches its doser may read it.
TellWorker ==
  /\ told' = (worker \in {"delay", "tried"})
  /\ worker' = IF worker = "waiting" THEN "ending" ELSE worker

\* A timer started or reset: an entry that is still linked is used again, and a worker
\* that waits is woken.
StartTimer(timed) ==
  /\ acts' = timed
  /\ worker' = CASE worker = "none" -> "begin"
                 [] worker = "waiting" /\ (told \/ ~timed) -> "ending"
                 [] OTHER -> worker
  /\ UNCHANGED told

\* A request for ON, with a run time or without: a running doser with a timer has it reset
\* to what the request says, any other is given a run time.
TurnPumpOn(timed) ==
  /\ doser' = "ON"
  /\ IF doser = "ON" /\ worker \notin {"none", "begin"}
     THEN StartTimer(timed) /\ UNCHANGED <<relay, late>>
     ELSE /\ StartTimer(TRUE)
          /\ CloseRelay

\* turn_pump_off(), and the timer cleared; a doser whose tank is empty is OFF then.
StopDose ==
  /\ doser = "ON"
  /\ doser' \in {"REST", "OFF"}
  /\ Reaches(FALSE)
  /\ acts' = FALSE /\ TellWorker
  /\ UNCHANGED late

\* A request for OFF or ENABLED.
TurnPumpOff ==
  \/ StopDose
  \/ /\ doser # "ON" /\ doser' \in {"REST", "OFF"}
     /\ UNCHANGED <<worker, told, acts, relay, late>>

\* The wait begins; a timer without a duration is over at once.
Armed == IF acts THEN "waiting" ELSE "ending"

\* timer_worker() says it runs, over a CLEANUP that came before, and finds its doser OFF or not.
WorkerBegins ==
  /\ worker = "begin" /\ worker' = IF doser = "OFF" THEN "delay" ELSE Armed
  /\ UNCHANGED <<told, acts, doser, relay, late>>

\* While the doser is OFF it looks again every second; once, after a delay in which anything
\* may have changed, it asks for ON itself,
WorkerAsks ==
  /\ worker = "delay" /\ worker' = "tried"
  /\ \/ /\ doser' = "ON" /\ acts' = (doser # "ON")
        /\ IF doser = "ON" THEN UNCHANGED <<relay, late>> ELSE CloseRelay
     \/ UNCHANGED <<acts, doser, relay, late>>
  /\ UNCHANGED told

WorkerIsCancelled ==
  /\ worker \in {"delay", "tried"} /\ doser = "OFF" /\ told
  /\ worker' = "none" /\ told' = FALSE /\ acts' = FALSE
  /\ UNCHANGED <<doser, relay, late>>

\* and it goes on when the doser is not OFF, or gives up.
WorkerArms ==
  /\ worker \in {"delay", "tried"} /\ (doser = "OFF" => worker = "tried")
  /\ worker' = Armed
  /\ UNCHANGED <<told, acts, doser, relay, late>>

WorkerExpires ==
  /\ worker = "waiting" /\ worker' = "ending"
  /\ UNCHANGED <<told, acts, doser, relay, late>>

\* A request for OFF, unless the timer has no duration; it turns a doser that is DISABLED OFF.
WorkerEnds ==
  /\ worker = "ending"
  /\ IF acts /\ doser # "OFF"
     THEN doser' \in {"REST", "OFF"} /\ (IF doser = "ON" THEN Reaches(FALSE) ELSE UNCHANGED relay)
     ELSE UNCHANGED <<doser, relay>>
  /\ worker' = "none" /\ told' = FALSE /\ acts' = FALSE
  /\ UNCHANGED late

Worker ==
  /\ main # "finished"
  /\ \/ WorkerBegins \/ WorkerAsks \/ WorkerIsCancelled \/ WorkerArms
     \/ WorkerExpires \/ WorkerEnds
  /\ UNCHANGED <<mainVars, sigVars, netVars, gpioVars, memVars>>
-----------------------------------------------------------------------------
(***************************************************************************)
(* The main thread: main() from the start of the network services on.      *)
(***************************************************************************)
MainMoves(from, to) == main = from /\ Runs("main") /\ main' = to

\* start_net_services(): the thread is made; its state is STARTING.
StartNetServices ==
  /\ MainMoves("startnet", "initkeys")
  /\ netState' = "STARTING" /\ netAt' = "begin"
  /\ UNCHANGED <<runState, mutex, sigVars, requests, gpioVars, pumpVars, memVars>>

\* Every relay is opened and written 0, every doser is ENABLED.
InitialiseKeys ==
  /\ MainMoves("initkeys", "startgpio")
  /\ pins' = TRUE /\ relay' = FALSE /\ doser' = "REST"
  /\ UNCHANGED <<runState, mutex, sigVars, netVars, gpioVars, worker, told, acts, late, keys>>

\* start_gpio_monitor()
StartMonitor ==
  /\ MainMoves("startgpio", "enter")
  /\ gpioState' = "STARTING" /\ gpioAt' = "begin" /\ event' = FALSE
  /\ UNCHANGED <<runState, mutex, sigVars, netVars, pumpVars, memVars>>

\* KEEPRUNNING is stored over whatever a signal has written.
EnterLoop ==
  /\ MainMoves("enter", "test")
  /\ runState' = "KEEPRUNNING"
  /\ UNCHANGED <<mutex, sigVars, netVars, gpioVars, pumpVars, memVars>>

\* The condition of the loop, and the readings.
TestLoop ==
  /\ MainMoves("test", IF runState = "KEEPRUNNING" THEN "lock" ELSE "stoptimers")
  /\ UNCHANGED <<runState, mutex, sigVars, netVars, gpioVars, pumpVars, memVars>>

LockForWait ==
  /\ MainMoves("lock", "locked")
  /\ mutex = "none" /\ mutex' = "main"
  /\ UNCHANGED <<runState, sigVars, netVars, gpioVars, pumpVars, memVars>>

\* Mutation: the wait begins without another look at the state.
WaitAnyway ==
  /\ MainMoves("locked", "waiting")
  /\ mutex' = "none"
  /\ UNCHANGED <<runState, sigVars, netVars, gpioVars, pumpVars, memVars>>

\* The state is looked at again with the mutex held; the wait releases it.
WaitForPoll ==
  /\ MainMoves("locked", IF runState = "KEEPRUNNING" THEN "waiting" ELSE "test")
  /\ mutex' = "none"
  /\ UNCHANGED <<runState, sigVars, netVars, gpioVars, pumpVars, memVars>>

PollIsDue ==
  /\ MainMoves("waiting", "woken")
  /\ UNCHANGED <<runState, mutex, sigVars, netVars, gpioVars, pumpVars, memVars>>

\* pthread_cond_timedwait() takes the mutex before it returns.
LeaveWait ==
  /\ MainMoves("woken", "test")
  /\ mutex = "none"
  /\ UNCHANGED <<runState, mutex, sigVars, netVars, gpioVars, pumpVars, memVars>>

\* stop_all_timers(): the broadcast reaches a worker in its wait; one that has
\* not begun will store KEEPRUNNING over the CLEANUP, and one before its wait looks
\* at it only while the doser is OFF.  Durations are left, so the workers that wake
\* turn their pumps off.
StopAllTimers ==
  /\ MainMoves("stoptimers", "estop")
  /\ TellWorker
  /\ UNCHANGED <<runState, mutex, sigVars, netVars, gpioVars, acts, doser, relay, late, memVars>>

\* Mutation: the main thread leaves the pumps to the workers.
StopWithoutPumps ==
  /\ MainMoves("estop", "stopnet")
  /\ UNCHANGED <<runState, mutex, sigVars, netVars, gpioVars, pumpVars, memVars>>

StopPumps ==
  /\ MainMoves("estop", "stopnet")
  /\ EmergencyStop
  /\ UNCHANGED <<runState, mutex, sigVars, netVars, gpioVars, worker, told, acts, doser, late, memVars>>

\* stop_net_services(): nothing is written for a thread that has not said it runs.
StopNetServices ==
  /\ MainMoves("stopnet", "stopgpio")
  /\ netState' = IF netState = "KEEPRUNNING" THEN "CLEANUP" ELSE netState
  /\ UNCHANGED <<runState, mutex, sigVars, netAt, requests, gpioVars, pumpVars, memVars>>

\* Mutation: the state is set and the eventfd is not written.
StopMonitorQuietly ==
  /\ MainMoves("stopgpio", "join")
  /\ gpioState' = IF gpioState = "KEEPRUNNING" THEN "CLEANUP" ELSE gpioState
  /\ UNCHANGED <<runState, mutex, sigVars, netVars, gpioAt, event, pumpVars, memVars>>

\* stop_gpio_monitor() up to its join, likewise.
StopMonitor ==
  /\ MainMoves("stopgpio", "join")
  /\ IF gpioState = "KEEPRUNNING"
     THEN gpioState' = "CLEANUP" /\ event' = TRUE
     ELSE UNCHANGED <<gpioState, event>>
  /\ UNCHANGED <<runState, mutex, sigVars, netVars, gpioAt, pumpVars, memVars>>

\* Mutation: the monitor is detached, like the others.
DetachMonitor ==
  /\ MainMoves("join", "free")
  /\ UNCHANGED <<runState, mutex, sigVars, netVars, gpioVars, pumpVars, memVars>>

JoinMonitor ==
  /\ MainMoves("join", "free")
  /\ gpioAt = "gone"
  /\ UNCHANGED <<runState, mutex, sigVars, netVars, gpioVars, pumpVars, memVars>>

\* free_config()
FreeKeys ==
  /\ MainMoves("free", "exit")
  /\ keys' = FALSE
  /\ UNCHANGED <<runState, mutex, sigVars, netVars, gpioVars, pumpVars, pins>>

\* main() returns, and the process ends with whatever threads are left.
Exit ==
  /\ MainMoves("exit", "finished")
  /\ runState' = "FINISHED"
  /\ UNCHANGED <<mutex, sigVars, netVars, gpioVars, pumpVars, memVars>>

Main ==
  \/ StartNetServices \/ InitialiseKeys \/ StartMonitor \/ EnterLoop
  \/ TestLoop \/ LockForWait \/ WaitForPoll \/ PollIsDue \/ LeaveWait
  \/ StopAllTimers \/ StopPumps \/ StopNetServices \/ StopMonitor \/ JoinMonitor
  \/ FreeKeys \/ Exit
-----------------------------------------------------------------------------
(***************************************************************************)
(* intHandler().  A restart and an upgrade are raised by the network       *)
(* thread while it serves a request.                                       *)
(***************************************************************************)
SignalArrives(kind, host) ==
  /\ main # "finished" /\ sig.at = "idle" /\ signals < MaxSignals
  /\ IF kind = "SIGTERM"
     THEN /\ host = "net" => netAt \notin {"none", "gone"}
          /\ host = "gpio" => gpioAt \notin {"none", "gone"}
     ELSE host = "net" /\ netAt = "serving"
  /\ sig' = [at |-> "lock", kind |-> kind, host |-> host]
  /\ signals' = signals + 1
  /\ UNCHANGED <<asked, mainVars, netVars, gpioVars, pumpVars, memVars>>

HandlerMarksCleanup ==
  /\ main # "finished" /\ sig.at = "lock" /\ mutex = "none"
  /\ runState' = "CLEANUP"
  /\ asked' = IF main \in Startup THEN "early" ELSE "inLoop"
  /\ sig' = [sig EXCEPT !.at = "estop"]
  /\ UNCHANGED <<main, mutex, signals, netVars, gpioVars, pumpVars, memVars>>

\* Signals after which the handler returns without waking the main loop.
Quiet == {"SIGRUPGRADE"} \cup (IF Systemd THEN {} ELSE {"SIGRESTART"})

HandlerReturns == [sig EXCEPT !.at = "idle", !.host = "other"]

HandlerStopsPumps ==
  /\ main # "finished" /\ sig.at = "estop"
  /\ IF pins THEN EmergencyStop ELSE UNCHANGED relay
  /\ sig' = IF sig.kind \in Quiet THEN HandlerReturns ELSE [sig EXCEPT !.at = "wake"]
  /\ UNCHANGED <<mainVars, asked, signals, netVars, gpioVars, worker, told, acts, doser, late, memVars>>

\* aquachemd_force_sensor_poll(): the signal is lost on a main loop that does not wait.
Wake == main' = IF main = "waiting" THEN "woken" ELSE main

HandlerWakesMain ==
  /\ main # "finished" /\ sig.at = "wake" /\ mutex = "none"
  /\ Wake
  /\ sig' = HandlerReturns
  /\ UNCHANGED <<runState, mutex, asked, signals, netVars, gpioVars, pumpVars, memVars>>

Handler == HandlerMarksCleanup \/ HandlerStopsPumps \/ HandlerWakesMain
-----------------------------------------------------------------------------
(***************************************************************************)
(* net_services_thread().                                                  *)
(***************************************************************************)
NetMoves(from, to) == netAt = from /\ Runs("net") /\ netAt' = to

\* Says it runs, over whatever was written since it was made.
NetBegins ==
  /\ NetMoves("begin", "service")
  /\ netState' = "KEEPRUNNING"
  /\ UNCHANGED <<mainVars, sigVars, requests, gpioVars, pumpVars, memVars>>

\* network_service(): the port may be taken.
NetListens ==
  /\ \/ NetMoves("service", "loop") /\ UNCHANGED netState
     \/ NetMoves("service", "ending") /\ netState' = "FAILED"
  /\ UNCHANGED <<mainVars, sigVars, requests, gpioVars, pumpVars, memVars>>

NetPolls ==
  /\ netState = "KEEPRUNNING" /\ requests < MaxRequests
  /\ NetMoves("loop", "serving")
  /\ requests' = requests + 1
  /\ UNCHANGED <<mainVars, sigVars, netState, gpioVars, pumpVars, memVars>>

NetLeavesLoop ==
  /\ netState # "KEEPRUNNING"
  /\ NetMoves("loop", "ending")
  /\ UNCHANGED <<mainVars, sigVars, netState, requests, gpioVars, pumpVars, memVars>>

\* A request for the doser, or one that changes nothing here.
NetServes ==
  /\ NetMoves("serving", "loop")
  /\ (\E timed \in BOOLEAN : TurnPumpOn(timed)) \/ TurnPumpOff \/ UNCHANGED pumpVars
  /\ UNCHANGED <<mainVars, sigVars, netState, requests, gpioVars, memVars>>

\* A request for the master forces a poll, whose lock a signal may find taken.
NetLocksToForce ==
  /\ NetMoves("serving", "forcing")
  /\ mutex = "none" /\ mutex' = "net"
  /\ UNCHANGED <<main, runState, sigVars, netState, requests, gpioVars, pumpVars, memVars>>

NetForcesPoll ==
  /\ NetMoves("forcing", "loop")
  /\ Wake /\ mutex' = "none"
  /\ UNCHANGED <<runState, sigVars, netState, requests, gpioVars, pumpVars, memVars>>

NetEnds ==
  /\ NetMoves("ending", "gone")
  /\ netState' = "FINISHED"
  /\ UNCHANGED <<mainVars, sigVars, requests, gpioVars, pumpVars, memVars>>

Net ==
  \/ NetBegins \/ NetListens \/ NetPolls \/ NetLeavesLoop
  \/ NetServes \/ NetLocksToForce \/ NetForcesPoll \/ NetEnds
-----------------------------------------------------------------------------
(***************************************************************************)
(* gpio_monitor_worker().                                                  *)
(***************************************************************************)
MonitorMoves(from, to) == gpioAt = from /\ Runs("gpio") /\ gpioAt' = to

MonitorBegins ==
  /\ MonitorMoves("begin", "loop")
  /\ gpioState' = "KEEPRUNNING"
  /\ UNCHANGED <<mainVars, sigVars, netVars, event, pumpVars, memVars>>

MonitorTests ==
  /\ MonitorMoves("loop", IF gpioState = "KEEPRUNNING" THEN "polling" ELSE "ending")
  /\ UNCHANGED <<mainVars, sigVars, netVars, gpioState, event, pumpVars, memVars>>

\* The eventfd is looked at before the pins.
MonitorIsStopped ==
  /\ event
  /\ MonitorMoves("polling", "ending")
  /\ UNCHANGED <<mainVars, sigVars, netVars, gpioState, event, pumpVars, memVars>>

\* A condition fails, and check_master() stops the doser if it runs.
ConditionFails ==
  /\ ~event
  /\ MonitorMoves("polling", "loop")
  /\ StopDose \/ (doser # "ON" /\ UNCHANGED pumpVars)
  /\ UNCHANGED <<mainVars, sigVars, netVars, gpioState, event, memVars>>

\* A condition becomes met, and set_cond_state() forces a poll.
ConditionMet ==
  /\ ~event
  /\ MonitorMoves("polling", "forcing")
  /\ mutex = "none" /\ mutex' = "gpio"
  /\ UNCHANGED <<main, runState, sigVars, netVars, gpioState, event, pumpVars, memVars>>

MonitorForcesPoll ==
  /\ MonitorMoves("forcing", "loop")
  /\ Wake /\ mutex' = "none"
  /\ UNCHANGED <<runState, sigVars, netVars, gpioState, event, pumpVars, memVars>>

MonitorEnds ==
  /\ MonitorMoves("ending", "gone")
  /\ gpioState' = "FINISHED"
  /\ UNCHANGED <<mainVars, sigVars, netVars, event, pumpVars, memVars>>

\* What the monitor does unless it waits for a pin.
MonitorGoesOn ==
  \/ MonitorBegins \/ MonitorTests \/ MonitorIsStopped \/ MonitorForcesPoll \/ MonitorEnds
-----------------------------------------------------------------------------
Next ==
  \/ Main
  \/ \E kind \in Signals, host \in Hosts : SignalArrives(kind, host)
  \/ Handler
  \/ Net
  \/ MonitorGoesOn \/ ConditionFails \/ ConditionMet
  \/ Worker

Spec == Init /\ [][Next]_vars

\* Threads are scheduled, and one that waits for a mutex that is released again and
\* again gets it in the end; no signal, request or edge has to come.
Fairness ==
  /\ WF_vars(Main) /\ WF_vars(Handler) /\ WF_vars(MonitorGoesOn) /\ WF_vars(NetForcesPoll)
  /\ SF_vars(LockForWait) /\ SF_vars(LeaveWait)
  /\ SF_vars(HandlerMarksCleanup) /\ SF_vars(HandlerWakesMain)

FairSpec == Spec /\ Fairness
-----------------------------------------------------------------------------
(***************************************************************************)
(* Properties.                                                             *)
(***************************************************************************)
\* The handler waits for a lock that the thread it interrupted holds.
HandlerLocksUp == sig.at \in {"lock", "wake"} /\ sig.host = mutex

\* The monitor had not said it ran when it was told to stop, and runs on.
StopMissedMonitor == main = "join" /\ gpioState = "KEEPRUNNING"

\* The keys are freed only when the GPIO monitor is gone: of the threads that
\* walk the list it is the one that stop_gpio_monitor() joins.
KeysOutliveMonitor == ~keys => gpioAt = "gone"

\* The main loop does not sleep through a stop until its next poll, unless the
\* signal was one whose handler returns before it forces a poll: the state is
\* looked at with the mutex held, and the handler writes it with the mutex held.
StopNeverSleepsThrough ==
  main = "waiting" /\ runState = "CLEANUP" => sig.at # "idle" \/ sig.kind \in Quiet

\* If a pump still runs when the daemon has stopped, it was a request made after the
\* emergency stop that started it, by a client or by a timer's worker that had found its
\* doser OFF: the network thread is told to stop after the pumps, the workers are not waited for.
PumpLeftOnByLateRequestOnly == main = "finished" /\ relay => late

\* The inductive invariant behind the two above: the monitor is gone from its join on,
\* the keys go last, and late is raised by whatever starts a pump behind the emergency stop.
MonitorEndsFirst == main \in {"free", "exit", "finished"} => gpioAt = "gone"

KeysGoLast == ~keys => main \in {"exit", "finished"}

LateIsRaised == BehindEmergencyStop /\ relay => late

StopInv == TypeOK /\ MonitorEndsFirst /\ KeysGoLast /\ LateIsRaised

\* A stop that is asked for once the main loop has begun completes, unless the handler
\* locks itself out or the monitor missed its own stop.
StopCompletes ==
  asked = "inLoop" ~> (main = "finished" \/ HandlerLocksUp \/ StopMissedMonitor)
=============================================================================
