# A verification model of AquachemD

AquachemD (`src/`) is a daemon in C that watches a swimming pool (pH, ORP,
temperature, pressure) and doses acid, chlorine and water through relays. What
must not go wrong is small to say: a pump runs only while its interlocks are
met, every dose ends, the books (totals, tank levels) say what was dosed, what
is shown is what is, and the settings are what the user saved. What makes that
hard is that half a dozen threads share one list of keys with few locks, that
state is cached, that timers act by themselves, and that the same fields are
spelled out in several places of the code that have to agree.

This directory holds TLA+ modules of those parts, TLC runs over small
instances, and proofs, checked with TLAPS, that hold for every instance.

## 1. Inventory

Line numbers are of `src/source/`.

| Component | State it keeps | Operations | Correct when | Modelled in |
| --- | --- | --- | --- | --- |
| Permission table (`state_manager.c` 34-138, `acd_types.h`) | none | which state a kind of key may take under a severity | see the state manager | `AcdTypes` |
| State manager (`state_manager.c`) | state, scope, flags, relay of every key; severity on the master key | requests, `set_cond_state`, `check_master`, pumps and outputs on and off, `set_key_state`, tank lockout | dosers run only while safe; OFF of a pump is sticky; lockout wins | `StateManager`, `Interlock` |
| Timers (`acd_timer.c` 1-378; the rest is commented out) | a linked list of entries, one thread each | start, clear, wait, expire, unlink | a dose ends; a delay is counted in full and ends | `TimerThread`, `DoseTimer`, `DelayTimer` |
| Main loop (`aquachemd.c` 487-855) | readings, error counts, the poll's clock | initialise keys, poll, compensate, fault | a reading taken before an interlock failed does no harm after it; a failed read is not taken for a value | `StateManager`, `SensorDrivers` |
| GPIO monitor (`gpio_monitor.c`) | last level of each pin, its run state | edges of conditions and inputs; start, poll, stop | every change of a condition is rated; it is gone before keys are freed | `StateManager`, `DelayTimer`, `Lifecycle` |
| Network requests (`net_services.c` 130-780) | none of its own | set, timer, level, reset, calibration, configuration, schedules, messages of topics | requests go through the permission check | `StateManager`, `DoseAccounting`, `ProbeBus`, `ConfigFile`, `Schedules` |
| Dose accounting (`sensor_stats.c` 270-484, `utils.c` 160-290) | running total, tank level, the journal | book a dose, set a level, reset a period, restore at start | total and level are what was pumped; cap and maximum hold | `DoseAccounting` |
| Dose tables (`config.c` 202-222, `state_manager.c` 221-295) | ordered steps | insert a line, look a reading up | a reading gets the run time of its bracket | `DoseTable` |
| Probe bus (`ezo.c`, `i2c.c`, `1wire.c`, `sysfs.c`) | the probe's pending command, temperature and calibration | command, wait, response; one poll of each driver | an answer belongs to its command; a value was read | `ProbeBus`, `SensorDrivers` |
| Publishing (`net_services.c` 80-130, 790-1730; `mqtt_discovery.c`; `json_messages.c`) | dirty flags, one slot for a dose event, heartbeat, sockets, the log's place, a kept list of devices | broadcast, publish, announce, stream the log, summarise doses | every change reaches a client in the end; the log comes in order; events are whole; what is announced exists | `NetPublish`, `NetSessions`, `Announcements`, `DevicesPage`, `DoseSummary` |
| Lifecycle (`aquachemd.c` 100-190, 487-591, 831-905; `net_services.c`; `gpio_monitor.c`; `acd_timer.c` 51-72) | run state of each thread, the signal handler | start, stop, signals, forced polls | a stop completes and stops pumps and threads; no thread is on freed keys | `Lifecycle` |
| Configuration (`config.c`, the page in `web/manager.html`) | the keys, the parameters, the file | parse, build the page, edit, save, draw IDs | a start finds the page that was last saved; IDs tell devices apart | `ConfigBlocks`, `ConfigFile`, `DoseTable` |
| Scheduler (`acd_scheduler.c`) | the cron file | list, write | a schedule is kept until it is removed | `Schedules` |
| Sensor statistics (`sensor_stats.c` 1-270) | running averages | update, reset | numeric | no |
| Units, GPIO, logging (`uom.c`, `gpio.c`, `utils.c`, `net_interface.c`) | none | wrappers | - | where others depend on them |

**How they interact.** Requests (web, WebSocket, MQTT, cron through the HTTP
API, and the timers' own threads) enter at `_state_change_request()`. It asks
the severity cached on the master key, `key->scope` of the first key, and
switches the device. Conditions enter at `set_cond_state()`, from the monitor
thread or the network thread, and end in `check_master()`, which rates them,
writes the severity and brings every device to where the severity allows it.
Turning a pump on starts a timer thread; at its end that thread makes a
request. Turning a pump off asks the timer when the dose began, books it, and
may lock the doser out because its tank is empty; the thread that does so posts
a dose event. The main loop reads sensors, a second each, between a test of the
severity and the use of the result; clients read and calibrate the same probes.
Whoever changes a key marks it, and the network thread sends what is marked to
the MQTT broker, AqualinkD and the web clients. The web page of the
configuration is built from memory, saved to the file, and read at the next
start.

**What is hard.** No lock is held across a handler: the permission check, the
relay, the state and the timer are separate steps of several threads. An entry
of the timer list outlives its wait, and is found by the next start. The
severity is a cached value. A duration of zero has two meanings. The time of a
dose is kept by the timer, which may be reset. Marks are taken off by a thread
that may not have seen what they mark. A probe does not say whose answer it
gives. Fields of a device are named in a template, a page, a writer and a
parser. `PROJECT.json` lists these hazards line by line, with the properties
that cover each.

## 2. Plan

1. `AcdTypes`: the vocabulary and the permission table. *Done.*
2. `StateManager`, `StateManagerProps`, `MCStateManager`, the abstract
   `Interlock`, and their proofs. *Done, proved but for liveness.*
3. `TimerThread`, `DoseTimer`, `DelayTimer`: the threads under it. *Done, proved
   but for liveness.*
4. `DoseTable`, `DoseAccounting`. *Done for pH dosers, tables, books and cap
   proved.*
5. `Lifecycle`: start and stop of the threads, signals, `stop_all_timers()` and
   freed keys. *Done, proved but for liveness.*
6. `NetPublish`, `NetSessions`: marks, broadcasts, heartbeat, sockets, log and
   the slot of dose events. *Done, proved but for liveness.*
7. `ProbeBus`, `SensorDrivers`: the probe and its callers, and the drivers.
   *Done, proved.*
8. `Announcements`, `DevicesPage`, `DoseSummary`: what clients are shown. *Done;
   proved.*
9. `ConfigBlocks`, `ConfigFile`, `Schedules`: the settings and their files.
   *Done for the devices of every type, proved.*

What is left: the averages; `print_config()` and the command line's scan and
calibration modes.

## 3. The modules

**`AcdTypes`** has no state. `TransitionPermission` is the table
`transition_permission[][]` row by row, a permission mask being the set of
severities it contains; `Permitted` is `is_transition_permitted()`. Severity
and scope are one enum in the code, and are here.

**`StateManager`** takes each handler as one step, with all the calls it makes.
Booleans of a key are sets of keys (`met`, `relay`, `timers`, `lockout`,
`faulted`), states are functions. `worker` is where the thread of a timer is:
it has not begun and a clear is lost on it, it waits for a device that is OFF
and may ask for ON itself, or it counts; `timers` are those with time to run. A request that is rejected, or that changes
nothing, is a stutter. Volumes are abstracted to "this dose emptied the tank"
(`drained`), readings to success or failure; `DoseAccounting` has the volumes.
The configuration is in constants: which keys exist, their scopes, which
conditions have a met-delay or sit on a pin, which dosers have a maximum dose
time of zero, and whether master OFF shuts everything down (mode A) or is an interlock (mode B). `Init` leaves severity
and sensor flags open: the keys come from `malloc()`. One reading is two steps,
`BeginReading` and one of three endings, because everything else goes on in
between.

**`Interlock`** is what the state manager promises, in two variables: devices
start only under a severity they tolerate, one at a time, and whenever the
severity is rated, whatever no longer tolerates it stops in that step.
`StateManagerProps` maps the severity on the master key and the devices in
state ON to it.

**`TimerThread`** is one entry of the timer list and its worker, cut where
another thread can come between: `wpc` is the place in `timer_worker()`. A
broadcast reaches the worker only in its wait. `DoseTimer` adds a doser, the
callers and monitors that switch it and the severity, with
`_state_change_request()`, `turn_pump_on()`, `turn_pump_off()` and
`check_master()` cut statement by statement; `DelayTimer` adds a condition with
a met-delay and `set_cond_state()`. Threads have a place (`pc`) and what they
carry in local variables (`sec`, `to`, `want`).

**`DoseTable`** is pure: `parse_dose_range()` as an insertion into a sequence,
the two lookups as one with a direction, and `Bracket`, what a table means said
without an order.

**`DoseAccounting`** follows one pH doser through requests, its timer, an
interlock, tank levels, resets of the period and restarts. Beside what the
daemon keeps (`total`, `level`, `journal`) it follows what really happens:
`tank`, what the real tank holds, and `pumped`, what the pump has moved in the
period. `missed` and `drifted` record that a running dose was disturbed (its
timer reset, its level set, the daemon restarted), which the properties need to
say when the books are exact. Nothing initialises the total, so a start finds
any of `StartTotals` in it, which the theorems take as any set of integers and
"no number"; `found` is what it found.

**`Lifecycle`** is the start and the stop. Each thread has a place (`main`,
`netAt`, `gpioAt`, `worker`, and `sig.at` for the signal handler, which runs on
`sig.host` and suspends it) and, where the code has one, a run state written
under its mutex. A step is what lies between two points where another thread
can get in; the tenths of a second for which the code sleeps between the steps
of a stop are no steps, since a sleep makes nobody do anything. `mutex` is
`_thread_control.mutex`, which the main loop, forced polls and the handler
share. One doser stands for the pumps: `doser` is its state (ON, OFF, or at rest),
`relay` its relay, and they part when an emergency stop opens the relay only. Its timer's worker goes through
its startup loop, in which it may ask for ON itself. What a thread does
to freed keys may or may not reach the relay.

**`NetPublish`** is how a change reaches the broker and AqualinkD. A change of
a key is its next version; the value, the global mark and the key's mark are
three writes of the changing thread (`work`). The network thread's `pc` goes
from its poll through the reconnection and the walk of the keys to the two
places that clear the global mark. What was sent is in flight until it arrives;
a connection that closes loses it. `missed` is a history variable: the keys
whose change met a broadcast, or was lost with a connection.

**`NetSessions`** is what the network thread keeps between polls besides:
which WebSockets are open and which of them watch the log, the place in the
systemd journal and its saved cursor, and `_dose_event`, one slot that dosing
threads fill field by field (`post`) and the network thread sends and resets
field by field (`pc`). The journal grows, is vacuumed, fails to open and is
invalidated. `streamed` is the history of the entries sent in a session,
`overlap` that two posts, or a post and a sending, met.

**`Announcements`** is pure: for a key of each type, the topics and the
entities that are announced for it, topic by topic, the topics a broadcast
sends and those a request may come by, if the permission table lets it through
while nothing is wrong. **`DevicesPage`** is the kept list of
devices: built at the first request, refreshed field by field at the later
ones, with the threads that change the key in between; the two writers use
different words for a condition. **`DoseSummary`** reads
a journal of doses entry by entry into the table of pumps and the ring of the
history, and drains the ring.

**`ProbeBus`** is one EZO probe with its callers: a command is a write, a wait
and a read, and the probe answers whoever reads with what it has: an answer,
"pending", or nothing. The poll of the main loop may send a temperature first;
a client may calibrate and read. `trouble` is what befell a caller since it
began: a transfer that failed, an answer lost, an overlap with another caller.
**`SensorDrivers`** says of each driver, for every outcome of its transfers,
the status it returns and the value it leaves, and what the poll makes of it.
A file of `sysfs.c` may have no number, or a pattern that matches without one.

**`ConfigBlocks`** is the device blocks of the configuration: for each of the
device types the template of a new device, the fields the page shows, the
lines a saved page becomes, and the parser with the staging area its fields
share, its constructors, IDs and virtual keys. A value knows which field it
was given to, so one that lands elsewhere is seen. A field that a constructor
leaves as `malloc()` gave it is `Unwritten`. **`ConfigFile`** is the
life of the file: starts, which find anything in such fields (`found`), pages,
edits, the steps of `save_aquachem_config_json()`, stops between any two, a disk
that may be full and a loss of power that leaves a part of what was never
flushed (`PowerLoss`; `partial` remembers both). **`Schedules`** is the cron file: the rows the expression finds, the page,
and the file written in place, line by line.

Properties that are about one module stand at its end; those of `StateManager`
have `StateManagerProps`. `MCStateManager`, `MCDoseAccounting` and `MCConfig`
give constants values that a configuration file cannot write. `MCClientViews`,
`MCProbeBus` and `MCConfig` put parts that share nothing into one run: a
behaviour of their `MCSpec` has one of them. The theorems about those parts are
about `MCSpec`, so that what is proved is what the run checks; the module of a
proof extends the MC module then.

## 4. The runs

For every property below `PROJECT.json` names a mutation of the modelled code
that breaks it in its run; the mutated definitions stand in the modules, marked
*Mutation*, and nothing else uses them.

| Run | Instance | What it shows |
| --- | --- | --- |
| `sm_dosers_b` | a hard delayed pin condition, a soft topic condition, a Global and a Local doser, both with tanks, one with a lockout and the other with a maximum dose time of zero, mode B | the severity cached is the one the conditions call for; no doser runs while a condition that gates it is unmet or delayed; OFF is sticky but for the worker of a timer that had not begun; the lockout wins over every way a dose ends; a doser loses its timer and a condition its delay in one way each; a condition that stays met is trusted in the end while the master is not OFF; the state manager implements `Interlock` |
| `sm_devices` | an output with its timer, a topic, a polled and a pin sensor, one condition, a doser with a lockout, mode A | the inductive invariant of the proofs; a Global sensor whose reading was in flight is not set ON behind an interlock |
| `sm_v_endless` | one doser, one condition, requests without a run time | a violation: see below |
| `dt_threads` | two callers, a monitor, the worker; doses up to two seconds, three requests | if handlers do not overlap the relay never disagrees with state and severity; a dose without a timer has one of two causes; without these every dose ends |
| `dl_two` | a pin's monitor and the main loop, a delay of two seconds, four inputs with repeats | however they interleave, what is trusted in the end is met; unless an old entry is reused a delay is counted in full and ends |
| `da_books` | a tank of 4 ml, lockout at 1 ml, cap of 3 ml, doses up to 3 s, tables in every order of lines, one with two lines of one threshold and one line too many; a start finds a total below zero, above the cap, or no number | tables mean their lines; total and level are what was pumped unless a running dose is disturbed; the total stays what was found or passes the cap by less than one run; restarts keep the level |
| `lc_stop` | main thread, network thread, GPIO monitor, a dosing timer; two signals of any kind on any thread, two requests | keys are not freed under the monitor; the main loop does not sleep through a stop; a pump left on was started behind the emergency stop; a stop completes but for two ways to hang |
| `np_publish` | the master key and a probe, two changes, a heartbeat at every second poll, a connection that comes and goes | a change that is not shown is still marked, or met a broadcast, or was lost with its connection; the heartbeat repairs these; a lost connection is taken up again |
| `np_sessions` | two WebSockets, two threads that end doses, a journal of up to three entries that is vacuumed and fails | the log is read exactly while a manager watches; managers get each line once and in order; events are whole unless two meet |
| `client_views` | a key of every type with two values of each field; every journal of up to three events of three pumps on two days, room for two pumps and two events | a list of devices that is kept says of the device as it is what a new one would, a condition's status in other words; whatever is announced is sent and can be asked for, but for a long average; a summary is exact |
| `bus_probe` | the main loop and one client, two temperatures, four commands, transfers that fail; every answer to every driver | whoever had the probe to itself took its own answer, for the temperature and under the calibration it had set; a driver that reports success has read what it reports, but in three ways |
| `cfg_edit` | files of one device of every type and of two with the IDs a user may write; one edit, two saves, two starts, a full disk, a loss of power; schedules of up to two rows, saved twice | at any moment the file gives the last page that was saved, if all of it came to the disk; IDs tell devices apart and stay; a schedule stays until it is removed |

`sm_v_endless` shows a disagreement between the code and what the repository
says of it; the finding in `PROJECT.json` quotes both. A request for ON without
a run time resets the timer of a running doser to zero seconds, which the
worker takes for a clear, so nothing ends the dose (`state_manager.c:389`
against README.md:72).

**Bounds.** Keys: two conditions and two dosers are enough for every pair of
scopes that the severity distinguishes; devices of one kind do not look at one
another. `FaultThreshold` is 1, so a fault takes two errors. Seconds: at 2 a
timer can be in its first, its last and no second. `MaxRequests` and
`MaxInputs` bound the histories of the timer modules: a lost timer takes two
requests, so three let a third interfere; with one caller seven requests and
with two four show nothing else, and the same holds of five inputs. These two
modules may come to rest once the bound is used up, which is why their runs do
not check deadlock. `StateManager` and `DoseAccounting` need no bound on steps.
`StartTotals` has a total that no dose of the run brings to the cap at once, one
beyond the cap, and `NaN`, which no addition changes.
In `DoseAccounting` a run of the pump is at most 3 ml, so a cap of 3 is reached
by one dose or by several, and the tank of 4 runs dry in the middle of one.
`PumpedMax`, at 9, stops the counter of what is pumped by a doser that never
stops; it is beyond any total the cap lets the doses of a period reach.

`MaxSignals` and `MaxRequests` at 2 let a second signal find the first one's
handler gone or the main thread anywhere in its stop, and let a request find
the doser running from another; the proofs hold for any number. In `NetPublish`
`MaxChanges` at 2 lets a second change meet the broadcast of the first, and
`HeartbeatTicks` at 2 (3000 in the code) gives turns with and without a
heartbeat. In `NetSessions` a journal of three entries with the startup message
second has an entry before, at and after every cursor; two sockets let a manager
leave while another stays. In `ProbeBus` four commands are a compensated reading
(two) crossed by a calibration and its reading (two). In `DoseSummary` a third
pump finds the table full and a third event overwrites the ring. `MaxEdits` at 1,
`MaxSaves` and `MaxStarts` at 2 let a page be saved, read again and saved again;
what one edit does to a field does not depend on the edits of others, since
every type has all its fields set at the start.

`np_sessions`, `client_views`, `bus_probe`, `cfg_edit`, `lc_stop` and the two
timer runs come to rest when a bound is used up or the daemon has stopped, and
do not check deadlock.

**Exceptions.** Some code is correct only as long as nothing overlaps, and the
property says just that: what the overlap itself does is a step of the model and
is described in section 6, but no property calls it right. So it is with
`SerialHandlersAreSafe` (two handlers at once), `EventsAreTrueUnlessOverlapped`
(two posts to one slot), `ReadingsAreOwn` (two callers of a probe, or a transfer
that failed) and `SchedulesSurvive` (a crash in the middle of a file that is
written in place). `KeysOutliveMonitor` is about the one thread that is joined;
the network thread and the timers' workers do walk freed keys.

**Fairness.** Liveness assumes that a thread that can go on does (the operating
system schedules it), that a timer's worker runs and that seconds pass: weak
fairness of `Continue(t)`, `WorkerStep` and `Second`, and in `StateManager` of
each worker's steps and each timer's expiry. `Lifecycle` adds strong fairness of the steps that take
`_thread_control.mutex`: it is held for moments, and a thread that waits for it
while others take and release it gets it in the end. `NetPublish` assumes that
the network thread goes on (`NetStep`), that a thread that has written a value
goes on to its marks, and that what was sent on a connection that stays open
arrives (`Arrives(t)`); nothing is assumed of when a connection opens or
closes, which is why `HeartbeatRepairs` speaks of one that stays. Nothing is
assumed of users, pins and topics.

## 5. The proofs

| Theorem | Module | Says |
| --- | --- | --- |
| `TypeCorrect` | `StateManagerProofs` | `Spec => []TypeOK` |
| `SafetyInvariant` | `StateManagerProofs` | `Spec => []SafetyInv` |
| `SeverityNeverStale` | `StateManagerProofs` | `Spec => []SeverityIsWorstFailure` |
| `DosesOnlyWhenSafeAlways` | `StateManagerProofs` | `Spec => []DosesOnlyWhenSafe` |
| `Refinement` | `StateManagerProofs` | `Spec => ImplementsInterlock` |
| `StickyOffAlways` | `StateManagerProofs` | `Spec => StickyOff` |
| `LockoutForcesOffAlways` | `StateManagerProofs` | `MasterOffAsInterlock => (Spec => LockoutForcesOff)` |
| `TimerLostByZeroRequestAlways` | `StateManagerProofs` | `Spec => TimerLostByZeroRequestOnly` |
| `DelayLostOnlyWhileOffAlways` | `StateManagerProofs` | `Spec => DelayLostOnlyWhileOff` |
| `GlobalSensorsAlwaysStop` | `StateManagerProofs` | `Spec => []GlobalSensorsStop` |
| `SerialHandlersAreSafeAlways` | `DoseTimerProofs` | `Spec => SerialHandlersAreSafe` |
| `RunawayOnlyIfLostAlways` | `DoseTimerProofs` | `Spec => RunawayOnlyIfLost` |
| `TrustedIsAlwaysMet` | `DelayTimerProofs` | `Spec => []DelayInv` |
| `FullDelayUnlessReusedAlways` | `DelayTimerProofs` | `Spec => FullDelayUnlessReused` |
| `TablesAlwaysMeanTheirLines` | `DoseAccountingProofs` | `Spec => []TableMeansItsLines` |
| `TotalAlwaysPumped` | `DoseAccountingProofs` | `Spec => []TotalIsPumped` |
| `LevelAlwaysTank` | `DoseAccountingProofs` | `Spec => []LevelIsTank` |
| `RestartAlwaysKeepsLevel` | `DoseAccountingProofs` | `Spec => RestartKeepsLevel` |
| `OvershootAlwaysOneDose` | `DoseAccountingProofs` | `MaxDoseTime > 0 => (Spec => []OvershootIsOneDose)` |
| `StopInvariant` | `LifecycleProofs` | `Spec => []StopInv` |
| `MonitorNeverOnFreedKeys` | `LifecycleProofs` | `Spec => []KeysOutliveMonitor` |
| `LeftOnIsLate` | `LifecycleProofs` | `Spec => []PumpLeftOnByLateRequestOnly` |
| `NeverAsleepOverStop` | `LifecycleProofs` | `Spec => []StopNeverSleepsThrough` |
| `PublishInvariant` | `NetPublishProofs` | `Spec => []PublishInv` |
| `WatchedWhileManaged` | `NetSessionsProofs` | `Spec => []WatchingForManagers` |
| `LogAlwaysInOrder` | `NetSessionsProofs` | `Spec => []LogInOrder` |
| `EventsTrueWithoutOverlap` | `NetSessionsProofs` | `Spec => []EventsAreTrueUnlessOverlapped` |
| `KeptListAlwaysCurrent` | `NetSessionsProofs` | `MCSpec => []KeptListIsCurrent` |
| `EntitiesAlwaysAlive` | `NetSessionsProofs` | `MCSpec => []AllEntitiesAlive` |
| `SummaryAlwaysExact` | `NetSessionsProofs` | `MCSpec => []SummaryIsExact` |
| `ReadingsAlwaysOwn` | `ProbeBusProofs` | `Spec => []ReadingsAreOwn` |
| `DriversAlwaysReportWhatTheyRead` | `ProbeBusProofs` | `MCSpec => []DriversReportWhatTheyRead` |
| `SchedulesAlwaysSurvive` | `LifecycleProofs` | `MCSpec => []SchedulesSurvive` |
| `IdsAlwaysTellDevicesApart` | `LifecycleProofs` | `MCSpec => []IdsTellDevicesApart` |
| `BootAlwaysGivesLastSave` | `LifecycleProofs` | `MCSpec => []BootGivesLastSave` |

Each holds for every value of the constants that the named assumption of its
module admits: `ConfigAssumption` and `KindsAssumption` (which sets of keys are
subsets of which, scopes are scopes, a key has one kind), `AccountingAssumption`
(volumes and rates are natural, the minimum is not above the volume, a start
finds a total that is an integer or none) and
`LinesAssumption` (a table is a sequence of lines of numbers),
`MaxSecondsAssumption`, `DoseAssumption` and `DelayAssumption`, and a
`WorkerAssumption` for each (the timer's thread is none of its callers),
`LimitsAssumption` and `SystemdAssumption`, `PublishAssumption` (finitely many
keys, whose topics are told apart), `SessionAssumption`, `BusAssumption`,
`RawAssumption` and `ValuesAssumption`, `SummaryAssumption` (there is room for a
pump and an event), `RowsAssumption` (rows that the expression finds and rows
that it does not), `UnsetAssumption` (no value, and what was never
written, are none of the words the parser and the constructors look for, and no
ID) and `FilesAssumption` (files are lists of lines, and the
line of an ID has one or nothing). The bounds of the runs are such
constants, so the theorems do without them. Two theorems have a hypothesis:
`LockoutForcesOff` is about mode B, and a maximum dose time of zero is none
(`acd_timer.c` takes zero seconds for a clear), so that a total is bounded by one
dose only where there is one.

**The interlock.** `DosesOnlyWhenSafe` is not inductive. A doser asks the cached
severity, never the conditions, so the invariant has to say that the cache is
right (`SeverityIsWorstFailure`). The cache stays right because a condition
changes only through handlers that recompute it, with one exception: a
condition that becomes met and enters its delay does so without
`check_master()`. That is harmless only because a condition not in OFF is one
that is met (`CondStateFollowsMet`), so that entering the delay moves it from
one way of failing to another. On the side of the devices, whatever is ON is
permitted by the cache (`RunningIsPermitted`), in mode A nothing doses while the
master is OFF although the cache is not renewed then (`MasterOffStopsDosers`),
and a relay follows its pump's state where no lockout is configured
(`RelayFollowsState`). The conjunction with the types is `SafetyInv`;
`sm_devices` checks it as an invariant before it is proved.

`CheckMasterInterlock` shows once that `check_master()` restores all of it from
any severity; each action that ends in it cites that lemma, and the others have
a lemma of their own. The refinement comes from the same lemmas: every step
leaves a subset of the devices running, or starts one that is permitted under
an unchanged severity. The action properties rest on one division of the steps
(`StepsOfPumps`): a step runs `check_master()`, or is a request to a pump, by a
user or by the worker of its timer, that timer's end or a tank level, or spares
the pumps. `StickyOff` holds of each but the worker's request, which it names;
that request goes through the permission check like any other, so the interlock
holds over it. `TimerLostByZeroRequestOnly` needs
`SafetyInv` besides: a timer that ends could lose its request only to a master
that is OFF, and then no doser runs. A worker asks only for a pump that is OFF,
whose timer is not the one of a running dose. `LockoutForcesOff` is proved for mode B; in
mode A it is false (section 6).

**A stop.** `KeysOutliveMonitor` and `PumpLeftOnByLateRequestOnly` follow from
`StopInv`. The first needs that the monitor is gone at every place of the main
thread behind the join (`MonitorEndsFirst`) and that keys go only there
(`KeysGoLast`). The second needs to be said of every place behind the emergency
stop, not of the end (`LateIsRaised`), and that relays are closed by requests
alone, users' (`PumpOnIsLate`) or the worker's (`RelayIsLate`). Forced polls and the handler move the main thread too, but only from its
wait to the loop: `WakeStaysInLoop`, which each actor's lemma cites.
`StopNeverSleepsThrough` needs no help: every step that could put the main
thread to sleep looks at the state the handler writes.

**A delay.** A condition may be trusted for a moment after its input went, since
handlers interleave. What is invariant is that somebody will still look
(`WithdrawnInTime`): while trust and input disagree, some handler is before its
`check_master()`, or has yet to write OFF. When all are quiet the two agree.

A delay is counted in full (`FullDelayUnlessReused`) while no two handlers overlap:
`EarnedInv` says what the handler at each place has established
(`Established`), that a delay under way has counted no longer than its input has
been met (`Timing`), that the worker promotes only after the whole of it
(`Expired`), and what follows between handlers (`Settled`).

**A dose.** `DoseTimerProofs` has the same shape: `Established` says for each place
of a handler what its steps so far have brought about, which the next one relies
on and another handler would undo; `SafeWhenQuiet` and `CountedOrLost` say what
is left when all are through. The properties have the form
`[]NoOverlap => []P`, so the lemma of a step assumes `NoOverlap` on both sides of
it and nothing of the past. A running dose is counted as long as its entry has a
run time and a worker that will still look at it (`Counted`), which an entry in the
list alone does not say.

**Tables.** A table is built by folds over its lines, and the library proves facts
about folds with operators as parameters, which the prover cannot instantiate.
What is needed of a fold is got without: in a list of values of which one fails
there is a first that fails (`FirstFailure`, from the least natural number), and
the one before it does not. The lookup goes by the order of the sequence, the
property by the lines, so the middle of the proof is that an insertion keeps the
sequence ordered and keeps its lines.

**The books.** Total and level are right because a pump that runs is ON and has a
timer that knows when it began, or else the books are disturbed already
(`TimedOrDisturbed`). The journal holds the level at every step
(`JournalHasLevel`), so a restart cannot change it. The total either is still what the start
found, above the cap or no number, or passes the cap by less than one dose, because a dose is begun below it only, and what a timer has counted
and has left never exceeds the longest run a request can be given, which is the
maximum dose time, the default or a line's (`CapInv`). A total found below zero
lets the period have that much more; the property is of the total, as the code's
is.

**Publishing.** What the marks promise (`MissedOnlyInBroadcast`) needs the order
of the writes of a change, value, global mark, key's mark (`ChangesInOrder`), and
that the walk takes a mark off only from what it has just sent and clears the
global mark only when it has come to every key (`WalkInOrder`). In `NetSessions`
the log is in order because the saved cursor names the last entry sent and an
open journal stands there, or behind it if that entry is gone
(`CursorNamesLast`); the slot is whole because while no two posts meet it is
written by one thread at a time and is empty until its flag goes up
(`OneAtATime`).

**The probe.** A caller that met nobody and lost nothing finds in the probe only
its own command or its own answer (`OnlyMine`), and what the first of its two
commands was for, a temperature or a calibration, is still so at the second
(`StillPrepared`).

That a driver reports what it read (`DriversReportWhatTheyRead`) has no state in it:
each driver is a lemma with a case for each transfer that may fail. Only the
files of `sysfs.c` need more, that the pattern which stays compiled is the one of
the last file to have one (`LastPatternIsMine`). A reading that was not captured is
excepted by what the file held (`NoNumber`), not by what the driver returned.

**Pages and entities.** A kept list of devices is current at a request because the
refresh sets every field a new item of that key has (`RefreshSetsEveryField`), and
which fields those are depends on its kind alone, not on what the key holds
(`FieldsOfItem`), so that none is left as it was. Where the two writers differ
the property says what the refresh writes, of the key as it is
(`InOtherWords`). What is announced is a case for
each kind of entity and type of key (`EntitiesOfKey`).

**The summary.** `SummaryIsExact` is stated of positions in the journal, so that it
says what the reply should be without the loop that makes it: a pump is counted
if no more than `MaxPumps` pumps had dosed by one of its events, its total is the
number of its seconds, and an event of the history has behind it as many as in
the journal. `SummaryInv` says the same of the part read so far. Whether a pump
is counted is settled when it is first met (`CountedStays`, `CountedIfRoom`), so a
full table turns away the same pumps throughout; and each event of the ring is
in the slot of its number modulo the ring's size (`RingIsNewest`), so an event
that overwrites one (`RingGrows`) overwrites the oldest, and the drain that begins
at the head begins with the oldest that is left (`DrainIsNewest`).

**Schedules.** A row the user entered and the expression finds is in the file or
among the lines still to be written (`WantedIsKept`), and on every page
(`WantedIsShown`): the page is the fold of the file by what the expression finds,
and the fold has a row exactly for each line it finds.

**The configuration.** Of the IDs two things are proved: no two keys have the same ID, and the device of a
block saved with an ID is found with it by the next start. The invariant
(`ConfigInv`) says that the keys of a running daemon differ in their IDs, each of
its own family (`KeysTellApart`), that therefore the blocks of a page differ where
they have one (`PagesTellApart`), that what is on disk, or written and not yet
renamed, is a list of lines with IDs where IDs belong (`FilesAreGood`), and that
the disk has the lines of the last page saved, unless they came to it in part
(`FileIsSaved`). No edit can write an ID, and a new block has none, so pages keep
theirs. What is long is the second part, which is about the parser: for a file of
parameters and blocks, what the staging area and the list of keys hold behind the
lines of k blocks (`Holds`), from what they hold behind those of k - 1, by way of
the lines of a block one at a time. A block's lines come back as one device of its
type and with its ID because the first of them is its label, which hands in the
device before and clears the staging area; because every line behind it has the
block's prefix, so that no other type takes it; and because nothing but a line of
an ID changes the ID. Then `assign_missing_ids()` keeps every ID that is of its
device's family and the only one of its kind among the keys before it, which for
the lines of a page is all of them; and the children that the constructors add
come without.

That a start gives the page saved last (`BootGivesLastSave`) rests on the same
invariant, with two things more of a page: what it has for a field with listed
values is one of them (`Fits`: else `validate_interlock()` and the tank's unit
would replace it at the start), and what was written is the lines of what the
page meant by its parameters. Of the staging area it needs every slot, not the
ID alone. Behind the first k fields of a block (`Reading`, `Stored`) the slot of
each field that its type takes has the value of the page, and so has the slot of
a field that was not written, which is empty because the label cleared it. That a
slot filled by one field is not overwritten by a later one of the same block is
a fact about the tables, proved for each type and each of its two lists of
fields (`Placed`): no field behind it has its slot, and one before it only if the
later one is a number, which is written also when it is empty. So is the
address, which `clear_staging()` leaves as it was. What the constructor then takes is what the page meant
(`HeldIsMeant`), and the type is known when the block ends exactly if the parser
makes a device of it. That no other device is there is a count: a block that
makes one adds one key that is not virtual (`WithDeviceCounts`, by a bijection
between the places before and after an insertion), one that makes none adds
nothing. A field that the constructor then leaves
unwritten, the unit of an MQTT value or the pattern of a file when they are
empty, is excepted by name (`NotKept`): it comes back as anything. The
parameters are the fold of three lines, and the lines behind them,
which all have a prefix, leave them (`ParametersKept`).

**What is only model-checked.** Liveness (fairness is beyond the prover):
`DosesEndUnlessLost`, `TrustedInTheEndUnlessReused`, `MetIsTrustedWhileOn`,
`StopCompletes`, `HeartbeatRepairs` and `ReconnectsInTheEnd`. Every invariant and
every action property of a run is proved.

## 6. Divergences seen without a run

The models take these steps; the code is shown to do them by the same modules,
but no run is spent on them. Nothing here is more than what the code does where
a reader of it, of its comments or of its documentation would expect otherwise.

*State manager and main loop*

* Requests are judged by a severity nothing has computed, from the start to the
  first `check_master()` (`aquachemd.c:491`, against README.md:85).
* A tank level that ends a lockout sets a doser ENABLED even if it was started
  since: the relay stays closed, and its timer finds nothing to turn off
  (`state_manager.c:884`). It also sets it ENABLED under a soft interlock,
  where its row of the table has only DISABLED.
* A tank without a minimum volume locks its doser out at zero
  (`state_manager.c:449`, `sensor_stats.c:280`), where README.md:112 says there
  is no shutoff.
* A request for ON or ENABLED clears the lockout of an empty tank
  (`state_manager.c:524`), where README.md:112 says only a new level does.
* In mode A the dose that master OFF ends may empty the tank, and the doser is
  left DISABLED, not OFF (`state_manager.c:611`).
* In mode A a Local sensor whose reading was in flight is set ON after the
  shutdown (`state_manager.c:750`); the monitor sets a Global input pin ON under a
  hard interlock, past the tests of severity and fault (`gpio_monitor.c:241`).
* A sensor that was set aside as FAULTED is back after any `check_master()` that
  finds it permitted (`state_manager.c:803`).
* A met-delay that runs out while the master is OFF is not asked for again: the
  condition stays in DELAY (`state_manager.c:496`). `DelayLostOnlyWhileOff` says
  it is the only way.
* `turn_pump_on()` applies the maximum dose time to the time of the request; a
  line of the table that is longer runs to its end (`state_manager.c:376`), where
  README.md:72 and 228 call the maximum a hard ceiling. `DoseAccounting` does so.
* With a maximum dose time of zero the clamp takes away the time of a request, so
  that a running dose is reset to zero seconds and loses its timer, while a dose
  that begins has its own run time (`state_manager.c:376-390`).
* A reading that no line of a table matches gets the table's last line
  (`state_manager.c:232`, 253), where README.md:226 has the default run time for
  it; the default serves when there is no table. `TableMeansItsLines` is about
  the code's reading.
* A condition that fails between a request's permission check and the relay
  leaves the doser running under the interlock (`state_manager.c:496`).
  `SerialHandlersAreSafe` says it takes two handlers at once.
* A payload is compared by its beginning (`net_services.c:741`).
* The message on the display is set without a mark (`aquachemd.c:214`).

*Timers and books*

* A dose that starts while the last worker is leaving gets that worker's entry,
  and no timer ends it (`acd_timer.c:178`, against README.md:72).
* A timer that is cleared before its thread has begun forgets it
  (`acd_timer.c:246`); one cleared as its wait times out goes on waiting
  (`acd_timer.c:311`). Neither lets a dose go on (`DosesEndUnlessLost`), but see
  the next.
* A worker that has not begun when its doser is turned off misses that, waits for
  the doser to be ON, and after five seconds asks for ON itself
  (`acd_timer.c:250-261`): a doser that was turned OFF, also one locked out, starts
  again, and the request clears its lockout. It is the exception of `StickyOff`.
  The dose is a whole one, of the doser's own run time, and it ends.
* A cancelled delay promotes a condition whose input has come back before its
  worker has left (`acd_timer.c:341`), and a delay started on a leaving entry is
  never counted (`acd_timer.c:178`): what `reused` stands for in
  `FullDelayUnlessReused` and `TrustedInTheEndUnlessReused`.
* `get_timer_started_at()` reads an entry its worker may have freed
  (`acd_timer.c:135`).
* A running dose that is asked for again has its beginning moved; its first part
  is in no total, and the cap of README.md:80 does not see it (`acd_timer.c:322`).

*Start and stop*

* Pumps are stopped before, without waiting for it, the thread that serves
  requests; a pump started in between outlives the daemon (`aquachemd.c:886`,
  against the comment at `aquachemd.c:113`).
* A signal that comes before the main loop begins is overwritten by KEEPRUNNING
  (`aquachemd.c:591`); a restart without systemd is refused, with CLEANUP already
  written, and stops the daemon (`aquachemd.c:150`).
* The handler locks itself out if its thread holds the mutex
  (`aquachemd.c:108`), and `stop_gpio_monitor()` waits for ever for a monitor
  that had not begun (`gpio_monitor.c:101`): the two exceptions of
  `StopCompletes`. A third is not modelled: the handler calls LOG
  (`aquachemd.c:118`), which is not safe in a signal handler, and may wait for a
  lock of the C library that the thread it interrupted holds.
* Freed keys are walked by the network thread and by workers (`config.c:508`).

*Publishing*

* The count of failed openings of the journal is set anew in every turn, so that
  JOURNAL_FAIL_RETRY never gives up (`net_services.c:1367`). A saved cursor stays
  when the last manager leaves a journal that is closed, an invalidation right
  after the first opening loses the startup trace, and where the cursor's entry
  has been vacuumed one line is skipped.
* A post that overlaps the reset of the slot may have its key read as NULL
  (`net_services.c:1173`); an event posted without an MQTT connection is dropped.
* The value sent to AqualinkD is not repeated by the heartbeat
  (`net_services.c:1149`).
* The topic of a long average is cut (`mqtt_discovery.c:403`), so that its entity
  stays empty: the exception of `AllEntitiesAlive`.
* The status of a condition is ON or OFF in the first list of devices
  (`json_messages.c:174`) and SAFE, UNSAFE or DELAY in every later one
  (`json_messages.c:310-313`).
* The first list of devices shows a condition in its delay as met, and a doser's
  configured run time for the calculated one (`json_messages.c:180`, 223).

*Probes and drivers*

* A PTE7300 with a status word nobody knows is reported as 0.0 and success, where
  `i2c.h:145-152` lists the words; the result of `i2c_sensor_init()` is not looked
  at (`aquachemd.c:537`), nor are those of `ezo_send_cmd()` and of the T command.
* A stale HSC reading, which has been read before, counts as a failure.
* One compiled expression serves all files of `sysfs.c` (`sysfs.c:60`), so a file
  is read with the pattern that was compiled last. A pattern that matches without
  its group having caught a number is reported as 0.0 and success
  (`sysfs.c:109-122`). With the status word of the PTE7300 these are the
  exceptions of `DriversReportWhatTheyRead`.

*Configuration and schedules*

* The reply to a saved page says the daemon is restarting, while the reload is
  commented out (`config.c:855-861`). The page is built from memory, so a second
  save before a restart puts back what the first had changed, a masked password
  included.
* A save loses `temp_sensor_uom`, and a text that has a default cannot be emptied;
  `log_level` is written as a number.
* The validation takes words for Yes that the parser does not; a line is
  recognised by words anywhere in it, its value included (`config.c:249`); the
  fields of a block without label go to the block before it.
* A condition, thermometer or file without topic or path passes the validation
  and ends every later start.
* The template of a new doser offers the options of a pin for its type, so its
  role is always pH; two templates have fields the page or the parser does not
  know.
* The settings for statistics of an I2C sensor share a slot with its maximum; an
  I2C sensor of another driver, or without one, is dropped.
* Keys come from `malloc()` and some of their fields are never written. The total
  of a doser starts anywhere (`config.c:2629`): one below zero lets that much more
  be dosed in the first period, and one that is not a number is never at the cap.
  A flag may hide a device from the page (`config.c:2462`, 2517, 2553, 2583, 2793).
  The unit of an MQTT value (`config.c:2559`), the pattern of a file
  (`config.c:2748`) and the duration of the statistics of an MQTT thermometer or an
  I2C sensor (`config.c:1137`, 1180) are what the memory held, and the next save
  keeps it; such a pattern is a pointer, which may end the daemon
  (`config.c:1405`). The page also follows the `child` of a doser without a tank
  (`config.c:1292`), which nothing has written.
* Nothing looks at a full disk (`config.c:843`), and the file is renamed without
  being flushed (`config.c:842-854`), so a loss of power may leave a part of it
  (`PowerLoss`).
* IDs of tanks are drawn anew at every start, although their level is found in
  the journal by ID (`utils.c:256`); the ID of a deleted device may be given to
  another.
* The expression for schedules leaves out the letter s with the white space, so
  that rows with `sat` or `sun`, or with a word for a value, are not seen, and
  the next save removes them; a fraction is cut. The cron file is written in
  place. Two pages saved one after the other lose the first one's rows.

## 7. What is not modelled, and why

* Registers, checksums and linear scales of the drivers: numeric. `SensorDrivers`
  says which raw number a value was computed from.
* Wording, JSON syntax, logs, the style of the web pages, `print_config()`: nothing
  else depends on them. `web_config.c` keeps settings of the browser's page.
* Reload (`aquachemd.c` 859-879): nobody asks for it, see `config.c` 859. As it
  stands it would find its own singleton lock held (`aquachemd.c:505`).
* The singleton lock: an instance that does not get it exits before anything
  starts. The command line's scan and calibration modes are the callers of
  `ProbeBus` in a process of their own.
* `src/source/old/`: the Makefile compiles `source/*.c` only.
* Failures of a relay. The code does not look at what `relay_off()` returns, so
  every property about a relay holds on the condition that relays obey.
* Floats, volumes in gallons, and fractions of a second. `DoseAccounting` counts
  whole millilitres and seconds; dosers for chlorine and water differ in which
  run time they use and have the same accounting.
* The read-modify-write of a key's `flags`: flags are written as if alone.
* Of the parameters of the system three stand for all: a masked one, one with a
  default, one hidden from the page.
* Sensor averages, and time beyond seconds: the wall clock does not jump.
