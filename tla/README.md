# A TLA+ model of the ATI Axia80-M20 EtherCAT sensor for ros2_control

This directory holds TLA+ modules that model the sensor plugin and the monitor
node in `src/ati_axia80_m20_ethercat_sensor`, TLC configurations that check
them, and TLAPS proofs about them. It states what the code promises about its
EtherCAT session, its lock, its diagnostics, its configuration and its
dashboard, where that holds for every interleaving and every failure, and where
it does not.

Paths below are relative to `src/ati_axia80_m20_ethercat_sensor`; `driver.cpp`
is `src/axia80_ethercat_driver.cpp`, `sensor.cpp` is
`src/axia80_m20_ethercat_sensor.cpp`, `diagnostics.cpp` is
`src/axia80_diagnostics.cpp` and `monitor.py` is
`scripts/axia80_monitor_node.py`.

## 1. Inventory

| Component | State it keeps | Operations | What makes it correct |
|---|---|---|---|
| EtherCAT driver (`driver.cpp`) | the pointers `master_`, `domain_`, `slave_config_`, `domain_pd_`; `active_`, `state_check_required_`; the `last_*_state_` with `have_*_state_`; the scales in `parameters_` | `init`, `shutdown`, `set_bias`, `clear_bias`, `is_active`, `read_once`, `read_diagnostic_readings`, `state_snapshot` | no resource is used outside the session that owns it, whichever call fails; the master is given back; a read uses fresh state and usable scales; no control bit stays latched |
| Slave search (`driver.cpp:227-285`) | the slave count, the alias and position pinned in `parameters_` | the loop of `find_slave_`, once per activation | what is found is what is configured, at every activation |
| PDO tables (`axia80_ethercat_config.cpp`) | the offsets of eleven registrations | tables, `make_domain_regs`, the accesses to the image | every object is where it is read or written |
| Sensor plugin (`sensor.cpp`) | `driver_` under `driver_mutex_`, the state interfaces, `realtime_snapshot_`, the services and the timer, the future of the SDO worker | the lifecycle callbacks, `read`, two bias services, the diagnostics timer, the worker | one thread in the driver at a time; bias only when active; what is published belongs to the running session; callbacks return and services answer |
| Runtime SDO supervisor (`publish_diagnostics_`, `sensor.cpp:383-514`) | the future, its start time, the pause and its reason, the run of lock failures, three counters | one tick a second | one attempt at a time; every result collected once; a pause has a cause and stays; alarms are shown |
| Sample counter statistics (`diagnostics.cpp:221-308`) | `SampleCounterState` under `sample_counter_mutex_` | `observe`, `take`, reset | every sample accounted for over rollovers and windows; a stopped sensor reported, a steady one not |
| Diagnostic rows, status bits and their log (`diagnostics.cpp:150-219`, `sensor.cpp:262-382`, `562-583`) | the snapshot under its own mutex, `previous_status_code_`, the throttles of two log lines | `read`, the reset, the timer | the rows of an array agree; no bad window is lost; the log lags by its throttle; what a failed activation leaves behind is known |
| Hardware parameters (`diagnostics.cpp:20-166`) | none | parsing and range checks | nothing out of range reaches the driver, and nothing but what was written |
| Monitor node (`monitor.py`) | the last messages, checks and alerts under a lock; the last bias action and result; the websockets | topic callbacks, bias calls, checks on two threads, broadcasts | an answer belongs to its request and is true; alerts match checks; a page catches up |
| Dashboard (`dashboard/dashboard.js`) | what the page shows | connect, parse and apply a message | it shows what it was sent last |
| Launch files, URDF, tests | none of their own | | |

How they interact. The controller manager calls the lifecycle callbacks and, in
its control loop, `read()`. The node's executor runs the bias services and the
timer; the timer starts a `std::async` worker. All of them enter the driver
under `driver_mutex_`: the callbacks, `read()` and the services wait for it,
the worker only tries. The driver calls the IgH library. `read()` hands what it
read to the timer through `realtime_snapshot_` and the sample statistics, each
under a mutex of its own. The monitor is another process that subscribes to
`/diagnostics` and calls the bias services; in it a spin thread runs the ROS
callbacks and an asyncio loop the web server, with one lock between them.

What is hard here: a failed activation, which leaves the lock before it shuts
the driver down (`sensor.cpp:83-87`); the stages of `init`, each of which can
throw with more held than the one before; a worker that outlives its timeout,
the deactivation or the plugin; state kept from one session to the next; one
array put together from two locks; counters that roll over and windows that end
in the middle of a run; a search that pins what it found; bias requests that
overlap, time out and are answered late; broadcasts that wait at one page and
are overtaken on their way to the next. Each is a hazard in `PROJECT.json`, at
its line, with the properties that cover it or the reason why none does.

## 2. Modules

| Module | Models | Abstract specification or composition |
|---|---|---|
| `EtherCatSession` | what the driver promises the IgH master (external) | the abstract specification |
| `AxiaDriver` | `Axia80EtherCATDriver` | implements `EtherCatSession` (`SessionSpec`) |
| `AxiaSensor` | `Axia80M20EtherCATSensor`: lifecycle, `read()`, services, timer, worker, destructor | extends `AxiaDriver`: its threads take the driver's steps; implements `EtherCatSession` too |
| `RuntimeSdo` | the supervisor of the runtime SDO | |
| `RuntimeSdoHistory` | the same with its counters, beside a history of the attempts | extends `RuntimeSdo`, and implements it (a theorem) |
| `SensorDiagnostics` | `AxiaSensor` with the supervisor in its timer and real results from its worker | implements both `AxiaSensor` (`SensorSpec`) and `RuntimeSdo` (`SdoSpec`, with a refinement mapping) |
| `SampleCounter` | the sample counter statistics, beside what the sensor really did | |
| `SensorRows` | the snapshot and the counter level on their way into an array, under two locks | |
| `StatusLog` | `handle_status_code_`: the log of the status word behind its throttles | |
| `SensorReports` | the two together, fed by the same reads | extends `SensorRows`, instantiates `StatusLog` |
| `MCSensorReports` | what the reads find, for TLC | extends `SensorReports` |
| `HardwareParameters` | `parse_hardware_parameters` over small widths, and `control_word_` | |
| `SlaveSearch` | `find_slave_` on a bus that changes | |
| `PdoLayout` | the tables, the registration and the accesses to the image | |
| `MCConfiguration` | the instance of these three for TLC | |
| `MonitorBias` | `trigger_bias`: requests under way together, timeouts, late answers | |
| `MonitorChecks` | the checks and alerts that two threads store and an answer patches | |
| `MonitorPage` | payloads on their way from two threads through the loop to the pages | |
| `MCMonitor` | the instance of these three for TLC, with the fairness | |
| `AxiaDriverProofs`, `AxiaSensorProofs`, `SensorDiagnosticsProofs`, `RuntimeSdoProofs`, `SampleCounterProofs`, `SensorReportsProofs`, `ConfigurationProofs`, `MonitorProofs` | the theorems | each extends the module it is about |

**`AxiaDriver`.** A method is a sequence of steps, one for each call of the
library or access to the process image, because it is between them that another
thread may run and at them that `init` may fail. `call[t]` is the step thread
`t` takes next, so the same steps serve one caller (`DriverSpec`) or several
(`AxiaSensor`). The four pointers and `active_` are Booleans, one each. A step
that needs a resource which is not there (`Using`) sets `fault` and nothing is
said of what follows. The control word has three values: the stop word, the
configured word, that word with a bias bit. `check_ethercat_state_` is reduced
to *when* the kept state was read, and the scales to whether they are usable.

**`AxiaSensor`.** `pc[t]` says where thread `t` is in the plugin's code, and
`mutex` is the thread that holds `driver_mutex_`. Every place the code takes or
gives up the lock is a step of its own, apart from the return of the callback
and from what the controller manager then makes of the hardware's state: a
successful activation frees the mutex (`ActivateDone`) before `on_activate`
returns and the hardware is active (`ActivateReturn`), and so does a
deactivation, a configuration and a read that throws. The exception in
`on_activate` frees the mutex (`ActivateThrew`) before its handler shuts the
driver down (`ActivateShutdown`). Properties that speak of an active hardware
mean `Activated`: from the end of the locked block of an activation that
succeeds to the end of the locked block of the deactivation. `on_configure` destroys the driver of an
earlier configuration by assignment. `on_cleanup` and `on_shutdown` are not
overridden, so `Cleanup` and `Shutdown` only change the state the controller
manager keeps. The destructor is `Destroy`, `DestroyJoined` (the future waits
for its worker: it is declared after `driver_mutex_` and `driver_`, so it goes
first) and `DestroyDone`. The supervisor's decisions are a choice here.

**`RuntimeSdo`.** One action is one tick: poll, judge the result, pause, start.
It follows the order of the code, in which the last cause of a pause that a
tick meets is the reason published (`ReasonAfter`) and a pause found in the
tick that collects a result shows over that result (`RowAfter`).

**`SensorDiagnostics`.** The choice in `AxiaSensor`'s `Tick` is replaced by
`RuntimeSdo`'s decisions, and the results are those the worker's steps come to.
In the mapping to `RuntimeSdo` the future is valid while an attempt runs or its
result waits. Two history variables follow a reading across the end of its
session (`aged`, `agedRows`) and a read that gets in after a failed `init`
(`overtaken`).

**`SampleCounter`.** The difference of two unsigned counters is `Delta`. The
history variables `produced`, `reads` and `trail` record what the sensor did;
the properties relate the statistics to them.

**`SensorRows`, `StatusLog`.** `read()` takes the lock and samples, stores the
snapshot and then the counter (`Sample`, `Read`, `ReadCounter`); the reset
clears them in two steps as well (`Reset`, `ResetCounter`); the timer copies the
one, takes the other and publishes (`Copy`, `Take`, `Publish`). Only
`on_deactivate` runs the reset. A failed activation leaves the lock with the
driver active (`FailInit`; `state` is "failing") and shuts the driver down a
step later (`ActivateFailed`), and a read that gets in between stores its
snapshot and its word for good: the history variable `stray` of the array and
`late` of the log remember that one did. A shutdown from the active state
(`ShutdownActive`) resets nothing either. A status word is a set of bits; a bit
of the table `describe_status_bits` prints, one it leaves out, and the range
warning are what the levels and the texts tell apart. In the log a line is due
when the word differs from the one remembered, and the word is remembered
whether or not the throttle lets the line through (`Log`, `Swallow`).

**`HardwareParameters`.** A text is absent, a number, a Boolean or something
else; `std::stoul`'s wrapping of negative numbers is part of it (`Unsigned`),
and so is the rounding of `std::to_string` (`Printed`). The widths 16, 32 and
64 are constants.

**`SlaveSearch`.** A step of the loop passes a slave, skips one whose
information cannot be had, or finds it; slaves are plugged and unplugged at any
time. What `ecrt_master_slave_config` makes of the pinned alias and position is
`IsAddressed`.

**`PdoLayout`.** The registrations name a field of the offsets each; objects
get a place in the image when they are registered, with gaps; `read` and
`written_control` go to the place of their field. A sample is right if it is of
one frame and each value is of the object it is named for.

**`MonitorBias`.** A request is recorded, calls the service, and waits for its
answer or the end of its time. The answer goes through the spin thread
(`Complete`) to the loop (`Finish`, or `Drop` when it is too late). The sensor
is external: it serves calls in any order, and may go away with them.

**`MonitorChecks`, `MonitorPage`.** A run of the checks is a step for each time
it takes the lock, on the timer's thread or in the loop after a bias request.
A payload is made in one step and handed to the loop in another. The loop takes
it up (`Broadcast`), sends it to some of the pages that are connected, and is
suspended at a page that takes no message; it goes on with the others later
(`Resume`), and broadcasts behind it may have overtaken it by then. A page that
connects is among those that are sent payloads before it has its first message
(`Connect`, `FirstMessage`). `finite` says whether the last wrench and its
history are made of finite numbers; a payload made while they are not cannot be
parsed by a page (`Show`), which then shows what it did before.

## 3. Runs

| Run | What it asks | Bounds |
|---|---|---|
| `driver` | one method at a time, every library call failing or not | two callers, which is all it takes for one caller to meet what another left; the state space is finite without a bound |
| `sensor` | all four threads, calibration upload off, with fairness | none needed: 133 thousand states |
| `sensor_calibration` | the same with a calibration upload that may fail | none: 439 thousand states |
| `sensor_exclusive` | `read()` never during a callback; both automatic biases; shutdown from the active state; a library that overwrites outputs; with fairness | none: 141 thousand states |
| `sensor_bias` | expected violation, section 5 | the state space of `sensor_calibration` |
| `sensor_diagnostics` | the plugin with the supervisor in it | a limit of 2 lock failures, so that a run can be broken and completed across sessions: 1.1 million states |
| `runtime_sdo` | the supervisor against its history, and for ever | `MaxTicks` = 6 ticks are recorded, with a limit of 3, so that a run can be broken and completed; after the record the supervisor goes on without one, which is what liveness is checked on |
| `sample_counter` | the statistics | a counter of 16 values and at most `MaxReads` = 5 reads in a window, with advances of 0, 1, 2, 3 and 11, so that one window rolls over several times; `MaxRun` = 7 repeats, past both thresholds (3 and 6 in place of 10 and 50) and over several windows |
| `sensor_reports` | array and log, over deactivations, failed activations and a shutdown from active | three status words: none, the range warning, one that no text describes; a communication fault beside the first: 1.1 million states |
| `configuration` | parsing, search and layout | numbers on both sides of every bound, some of which wrap; a bus of at most 3 slaves with aliases 0 and 5; gaps of 0 to 2 in the image and 4 frames, so that two are between a read and the next |
| `monitor` | bias requests, checks, pages, with fairness | two requests; two changes outside, one call for interfaces in flight; two pages, one broadcast suspended while others go on, two versions of the wrench and of the rest, three payloads, one connection lost: 440 thousand states |
| `monitor_health` | expected violation, section 5 | as `monitor` |

`MCConfiguration` and `MCMonitor` each check three modules in one run. None of
the three reads a variable of another (they share no state in the code either:
`MonitorBias`, `MonitorChecks` and `MonitorPage` each model other members), so
`part` chooses one that goes on while the others rest. A property of one part is
violated in an interleaving of the three only if it is in a behaviour of that
part alone, so nothing is lost by it.

What the properties say is written above each of them in the modules. The ones
a reader should know first:

- `HeldIffKnown`, `NoFault`, `MasterGivenBack`: wherever `init` fails, nothing
  is used after it was given back and nothing held is forgotten.
- `BiasRefusedUnlessActive`, `QuietWhenFree`: a bias service that waited for the
  lock finds hardware that is set up completely, or is refused, where no
  activation fails with the driver active; the sensor is left as configured.
- `SessionSpec`: driver and plugin implement the session protocol. A session
  ends with a stop frame that was sent, and a pulse is followed by the plain
  word.
- `OneInDriver`, `FaultOnlyByRace`: the unlocked shutdown is the only hole in
  the lock, and it is harmful only when `init` can fail after it has made the
  driver active, that is with `read_calibration_sdo` on.
- `SampleIsSound`, `ShownIsOfSession`, `ActiveShownHasReason`,
  `AgedReadingOnce`: what is published belongs to the session there is; the two
  ways in which it does not are a read in that hole, and one array with a
  reading of the session before.
- `SensorSpec`, `SdoSpec`: plugin and supervisor, put together, are still what
  each was specified to be.
- `PausedIffCause`, `EveryAttemptCollected`, `CountersAddUp`: the supervisor
  against its history.
- `CountsAgree`, `StoppedIsReported`, `SteadyIsOk`: the statistics against the
  sensor.
- `WindowShown`, `LogLagsByThrottle`, `ArrayCatchesUp`: what the two locks, the
  throttle and a failed activation may lose or leave behind, and nothing else.
- `SearchIsTrue`, `SearchesAgree`: a driver finds what is configured, then the
  same slave again, or fails for a reason.
- `AnswersAreTrue`, `RecordsAreTrue`: what an operator is told of a bias is
  true; only a timeout leaves open what the sensor did.
- `ChecksFollow`, `PageFollows`: whatever overtakes what, checks and pages catch
  up when nothing changes any more (a page, when the wrench is finite), and a
  page goes back only by a race of the two threads, its first message, or a
  broadcast that was suspended.

### Fairness

`FairSpec` of `AxiaSensor`: a thread that is not waiting for the lock goes on
(weak fairness; no driver method loops, and the library's calls return). A
thread that waits for the lock gets it if it is free again and again (strong
fairness of each acquisition). The code justifies the latter by what else it
does: `read()` holds the lock for a part of its period, the worker for one
attempt, and `std::mutex` does not starve a waiter for ever on the platforms
this code is for. That is an assumption, and `BiasAnswered` and the first half
of `CallsReturn` rest on it; `AttemptEnds` does not, because the worker only
tries. No fairness is assumed of requests: no callback or service call has to
happen. `FairHistorySpec` of `RuntimeSdoHistory`: the timer goes on and uploads
end; the record ends. `FairReportsSpec` of `SensorReports`: the timer ticks for
ever. `MCSpec` of `MCMonitor`: the timers of the
monitor fire for ever, a run of the checks and a broadcast end, a payload made
is handed in, an answer of the controller manager that is ready is taken some
time though the timer is ready as often (strong fairness: the executor takes
all that is ready in turn), and a page that lost its connection connects again
(`dashboard.js` does so by itself). A suspended broadcast goes on: the page takes
the message, or loses its connection when the heartbeat of 30 seconds fails
(`monitor.py:630`). Wrenches, changes and lost connections need
not happen, and answers of the sensor need not come.

### Assumptions about what is outside

- The controller manager runs one lifecycle callback at a time, each in the
  state that allows it. Whether `read()` may overlap a callback is the constant
  `ReadsOverlap`; both values are checked.
- Services and timer share the node's default callback group, so the executor
  runs one of them at a time, and it has ended them when the plugin is
  destroyed.
- A read that throws may make the controller manager take the hardware out of
  the inactive state (`ReadFailed`). It is assumed not to do so to a hardware
  that it has activated since.
- Library calls fail or succeed in any combination. An upload ends.
- `ReceiveOverwritesOutputs`: `cycle_once_` and the pulse write the image
  *before* `ecrt_master_receive` (`driver.cpp:337-354`), `read_once` after it.
  If the library copies the outputs of a frame that came back over the image,
  as it may when one datagram carries inputs and outputs, the bit of a pulse
  can be lost or stay latched: `BiasOnWire` and `SessionSpec` fail for TRUE and
  are checked for FALSE. Which of the two a build of the library does is not to
  be told from this repository; a team that relies on the bias pulse should
  find out, or write after the receive as `read_once` does. The properties of
  `sensor_exclusive` do not depend on it and are checked for TRUE.
- `AliasIsRelative`: the library may count a position from the first slave with
  the alias asked for. `find_slave_` compares ring positions and then asks for
  the alias of what it found *and* that position. `SearchIsTrue` says exactly
  when this asks for the slave that was found: when it has no alias, or the
  first slave with its alias is the first of the ring.
- A registration places an object anywhere behind those before it (`Gaps`).
- A log line within a second of the last one of its place is swallowed.
- `ws.send_str` may suspend before or after it has written. The exception branch
  of the bias call (`monitor.py:177-178`) is left out of `Complete`: a future of
  a service client that is done holds an answer.
- The controller manager answers a call for the interfaces or not; topics and
  services come and go.

## 4. Proofs

| Theorem | Establishes | Argument |
|---|---|---|
| `AxiaDriverProofs!DriverInvariant` | an inductive invariant of `DriverSpec` | `Shape`: for each step of each method, what that step may rely on. No safety property is inductive alone: that `shutdown` may deactivate needs that `active_` implies a session, which each failing stage of `init` has to preserve |
| `DriverDefined`, `MasterHeldIffKnown`, `SamplesAreSound` | `NoFault`, `HeldIffKnown`, `SampleIsSound`, for any set of callers | consequences of it |
| `DriverImplementsSession`, `BiasIsOnePulse` | `SessionSpec` and `BiasOnWire`, for any set of callers and `ReceiveOverwritesOutputs` = FALSE, which the theorems assume | `FramesInv` says for each step what is in the image and on the wire; every step then maps to a step of the protocol or to none |
| `AxiaSensorProofs!SensorTyped`, `LockProtectsDriver` | `TypeOK` and `OneInDriver`, for every value of the constants | `LockHeld` (a thread is at a locked point exactly when the mutex is its own), `CallsAtCallPoints` (a thread is in the driver at certain points only) and `Ending` (the destructor is alone) |
| `AxiaSensorProofs!FaultNeedsRace` | `FaultOnlyByRace`, for every value of the constants | `SoundInv`, see below |
| `MasterIsGivenBack` | `MasterGivenBack`, for every value of the constants: the master is given back although the unlocked shutdown met another thread | `Life`, see below |
| `ShownWithoutOverlap` | `ShownIsOfSession` where `read()` does not overlap a callback, with or without a calibration upload | `AloneInv`: `Life`, `ShownBut(FALSE)`, and what a read that is alone has found (`ReadsAlone`) |
| `DefinedWithoutCalibration`, `BiasNeedsActive`, `PluginImplementsSession`, `ShownWithoutCalibration` | for `ReadCalibration` = FALSE: `NoFault`; `BiasRefusedUnlessActive` (if an active hardware is not shut down), the moments between the unlock and the return of a callback included; `SessionSpec` (if the library leaves the outputs alone); `ShownIsOfSession` | `FailsInactive`: without the upload `init` fails before the driver is active, so what meets the unlocked shutdown is a read that will be refused. `Running` and `Shown` tie what services and reads find to the state of the hardware |
| `QuietUnlessRaced` | `QuietWhenFree`, unless that race came first, if the library leaves the outputs alone | `Frames` of the step nobody takes, and `Settled` |
| `SensorDiagnosticsProofs!ImplementsSensor`, `ImplementsSdo` | `SensorSpec` and `SdoSpec`, for every limit and configuration | `Outstanding` ties the result to the future; each step is one of the abstract specification or none |
| `AgedReadingShownOnce` | `AgedReadingOnce` | `Readings`: only the reading that is outstanding is aged, and collecting it forgets that |
| `OnlyALateReadShows` | `ActiveShownHasReason`, for every value of the constants | `OvertakenInv`: `Life` with `ShownBut(overtaken)`. A read that finds the driver active is of an active hardware, or is the one that got the lock after the failed `init` |
| `RuntimeSdoProofs!AtMostOneAttempt`, `PauseStays`, `AlarmIsShown` | one worker at a time, `PauseIsFinal`, `AlarmShown`, for every limit | `SupervisorInv` ties the workers to the validity of the future and the run of failures to the pause |
| `RuntimeSdoProofs!HistoryImplementsSpec` | the supervisor that is recorded implements the supervisor | the record only watches |
| `RuntimeSdoProofs!PauseHasCause`, `AttemptsCollected`, `CountersRight` | `PausedIffCause`, `EveryAttemptCollected`, `CountersAddUp`, for every limit and a record of any length | `RecordInv`: the three together are inductive with `SupervisorInv`. The pause needs that the published run is the one at the end of the history, and that an outstanding result is one; `BusyAppended` and `FailuresAppended` say what a result more changes |
| `SampleCounterProofs!WindowsAgree`, `RunAcrossWindows`, `StoppedSensorReported`, `SteadySensorOk` | `CountsAgree`, the run of repeats, `StoppedIsReported`, `SteadyIsOk`, for every modulus, threshold and rate | `DeltaOfAfter`: the unsigned difference is the number of samples produced; `JumpsInv` bounds what jumps skip, `MarksInv` ties the maxima to the sums |
| `SensorReportsProofs!ReportsImplementRows`, `ReportsImplementLog` | the plugin that reports implements `SensorRows` and `StatusLog` | the log's steps are those of the reads, the array's those of the timer |
| `RowsOfArrayAgree`, `WindowIsShown`, `LogOnlyLags` | `RowsAgree`, `WindowShown`, `LogLagsByThrottle`, for any bits and any table of their names | `RowsInv`: outside of a reset, a snapshot that is inactive goes with counters that are reset (`SessionRows`), and so do the two copies of a tick that nothing came between (`TickRows`); `LogInv`: the word remembered is the one read last, in this session or by a failed activation before it, and only a line the throttle swallowed, or that of such a word, lets the log differ from it |
| `ConfigurationProofs!SearchStaysTrue`, `SearchHasReason`, `SetUpSearches` | `SearchIsTrue`, `SearchesAgree`, for any number of slaves, aliases and changes of the bus | `SearchInv`: none of the slaves passed over a bus at rest was the one looked for, and what is looked for is what was configured or a slave found in its place |
| `ParametersTrue`, `SetUpAsWritten` | `ParametersAsWritten`, for any numbers, any widths of the types that hold the ranges, any grain of a printed rate and any table of rates | `ParametersInv`: the outcome and the parameters are what the five parsers say of the texts; one lemma for each parser and one for each clause of the property. `ControlWordIs` takes the fields out of the control word again |
| `LayoutHolds`, `SetUpLaysOut` | `LayoutAgrees`, for any free words in the domain and any number of frames | `LayoutInv`. The tables are written out first (`EntriesAre`, `RegsAre`, `ContentIs`), then each object is at one place of one sync manager (`ObjectIsMapped`), the first registration lays out the control words and the third the readings behind them (`LayoutShape`), so every field has the place of its object (`PlacesInv`), no frame received touches a control word (`ReceivedIs`) and no write touches a reading (`WrittenIs`) |
| `MonitorProofs!AnswersTrue`, `RecordsTrue` | `AnswersAreTrue`, `RecordsAreTrue`, for any number of requests | `BiasInv`: an answer comes from the sensor and is used once; whoever begins while another waits overlaps with it; nobody's call is on its way beside that of a last request that did not |
| `AlertsAgree`, `TimerStoresCurrent` | `AlertsMatchChecks`, and the first half of `ChecksFollow`, for any graphs, arrays and numbers of changes and calls | `ChecksInv`: alerts and checks are stored together, and what the timer's run has taken is what the node has, as the callbacks are on its thread (`TimerSees`) |
| `PayloadsInOrder`, `BackOnlyByARace` | `QueueInOrder`, and the first half of `PageFollows`, for any pages and bounds, and any number of broadcasts suspended at once | `PageInv`: payloads are of states the node had, those of one thread are in order, what a page shows of a thread is no newer than what that thread holds or has in the queue, and what a suspended broadcast still has to send is no newer than either. The last is what makes `Resume` keep the rest, and why it alone may take a page back |
| `NodeAgrees`, `NodeSteps` | `MonitorAgrees`, and the safety halves of `ChecksFollow` and `PageFollows`, of the specification that is checked | the results above: by the way `MCNext` is put together every step of it is one of a part (`NodeImplementsParts`, a lemma) |

The driver's proofs come in three parts. The first lemmas of `AxiaDriverProofs`
say of every step that it keeps the types and moves no other thread, whatever
the others do. The second part adds what holds when methods are called one at a
time (`Shape`), the third what is in the frames (`Frames`). All are lemmas about
*one step of one thread*, so the plugin can use them too.

`AxiaSensorProofs` does. First comes the lock (`SensorInv`). Then `Rely`: a
thread in the driver that no other disturbs may rely on what `Shape` and
`Frames` say of its step, and when nobody is in the driver they hold of no
step. A read that has not begun disturbs nobody. The lock keeps every thread
undisturbed but for the shutdown of a failed activation, and there
`FailsInactive` says that the disturbance is a read that finds the driver
inactive, or that a calibration was uploaded. `Rest` is what the lifecycle knows
of the driver between its steps.

With a calibration upload that stops at the race: a thread that was disturbed
may rely on nothing more. Not so the lifecycle. Of the data that `init` and
`shutdown` are about (`lifeData`: the pointers, the session, whether there is a
slave) no read, pulse or upload changes any, so what `Shape` says of the step
of the lifecycle's own thread stays true whatever the others do, before, during
and after the race. `Life` is that, with `Rest`, and is inductive by itself:
`MasterIsGivenBack` and both results about what is published follow from it.
For the latter a read has to be told apart that finds the driver active although
the hardware is not. There is one way to become such a read (`ActiveIsShown`),
and `ShownBut(late)` says what is shown when `late` tells whether one did.

Two changes of the models came from the proofs. The assumption of
`MonitorChecks` now bounds the calls of the controller manager by one or more
(`MaxCalls`): with none no answer about the interfaces is ever taken, and the
properties would say nothing. `PdoLayout` writes a function with a place more as
`With`, because the provers do not know the operators `@@` and `:>`.

The proofs rest on the named assumptions of the modules (`DriverAssumption`,
`SensorAssumption`, `DiagnosticsAssumption`, `SdoAssumption`,
`HistoryAssumption`, `CounterAssumption`, `ThresholdAssumption`,
`BitsAssumption`, `SearchAssumption`, `NoRequestAssumption`, and in the two
`PartsAssumption`s those of the parts that are instantiated), which TLC
evaluates on every run. Where a theorem needs more (`ReadCalibration` = FALSE,
`ReceiveOverwritesOutputs` = FALSE, `ShutdownWhileActive` = FALSE) its statement
says so: these are the configurations and the library for which the property
holds, and section 5 and the assumptions above say what happens in the others.

Each invariant and each property of steps that a run checks is stated by a
theorem. Some hold for fewer values of the constants than the code allows:

- `SessionSpec`, `BiasOnWire` and `QuietWhenFree` are proved for a library that
  leaves the outputs alone.
- `NoFault` of the plugin and `BiasRefusedUnlessActive` are proved without a
  calibration upload, the second also without a shutdown from the active state.
  With the upload both are false; `FaultOnlyByRace` and section 5 say how far.
- `ShownIsOfSession` is proved without a calibration upload, or where `read()`
  does not overlap a callback.
- `SessionSpec` of the plugin with a calibration upload is asked by no run and
  not proved.

Only model-checked is liveness: `BiasAnswered`, `CallsReturn`,
`SupervisionGoesOn`, `ArrayCatchesUp`, and the second halves of `ChecksFollow`
and `PageFollows`. Liveness under fairness is out of the prover's reach, and so
is what a recursive definition computes for every input.

## 5. Where the code does not keep its word

`sensor_bias` expects a violation of `BiasRefusedUnlessActive`. The repository's
README says of the bias services: "If the driver is not configured or the
hardware is not active, the service returns `success=false` with an error
message." (`src/README.md:435-436`). `init` makes the driver active before it
uploads the calibration (`driver.cpp:90-96`). When that upload fails, the
exception leaves the block of the `lock_guard` before the handler calls
`shutdown` (`sensor.cpp:74-87`). A service that was waiting for the lock finds
`is_active()` true, pulses the bias and answers `success=true`, while
`on_activate` returns ERROR. (With an activation that succeeds, a service may
also be served between the unlock and the return of `on_activate`, when the
controller manager does not call the hardware active yet. That is no loss to
anybody: the driver is set up completely and the activation can only succeed,
and `Activated` counts it as active.)

The same hole lets `read()` be inside the driver while it is shut down: with
`read_calibration_sdo` on, `NoFault` does not hold of the plugin, and
`FaultOnlyByRace` says exactly how far that goes. And what such a read stores
stays: no reset follows, so the diagnostics array may go on showing the inactive
hardware as active (`ArrayCatchesUp` says: only then), and the next session logs
no line for a word that this read has remembered (`LogLagsByThrottle`). The code
becomes safe when the handler takes the lock, and consistent when it resets the
state as `on_deactivate` does.

`monitor_health` expects a violation of `HealthIncludesStatus`. The repository's
README lists what the EtherCAT health of the dashboard is derived from
(`src/README.md:331-334`), the status code and the runtime SDO state among it;
`_derive_ethercat_health` (`monitor.py:456-501`) looks at neither, so the health
is shown as good while the status code row is an error. By the same lines the
health is the driver's, while `_on_diagnostics` (222-258) takes the array of any
node on the topic for it.

No run of its own, but an exception in two properties:

- `src/README.md:345-346` has the page show a finite-value validation. The
  driver publishes NaN when it is deactivated (`sensor.cpp:183-191`);
  `json.dumps` writes it as `NaN`, which is no JSON, and `JSON.parse`
  (`dashboard.js:304`) throws. While such a wrench is the last one or in the
  history, the page shows nothing of any message, the failed validation
  included. So `PageCatchesUp` is of a wrench that stays finite.
- `BackOnlyByRace` lets a suspended broadcast take a page back: `_broadcast`
  waits for one page after the other (`monitor.py:590-592`) and nothing keeps a
  later one from getting to a page first. `_broadcast` would have to be run one
  at a time, or a page be sent only what is newer.

## 6. Not modelled, and the plan

Left out for good: the drawing of the dashboard, the launch and URDF files (they
choose constants the runs vary), the unit tests, the wording of messages and
logs, the histories and numbers the monitor keeps for its graphs, its HTTP
files, `mlockall` and the stack prefault.

Also abstracted: time. The once-a-second throttle of the state check is a
choice, and so is whether an attempt is overdue; a window of the statistics
lasts one second. Of a sample, only its counter is modelled, and in `PdoLayout`
the object each value is of. Two hazards have no property because nothing says
what the code should do: a ratio of rates that does not fit its cast
(`diagnostics.cpp:259`), and the age and the sender of the last array
(`monitor.py:462`).

The plan from here:

1. `SessionSpec` of the plugin with a calibration upload, up to the race: the
   session ends by the protocol as long as `raced` is FALSE.
2. What remains of `BiasRefusedUnlessActive` with a calibration upload: a success
   is of an active hardware, or of a service that got in between the failed
   `init` and the shutdown that follows it.
3. The lemmas that several proofs state for themselves (a sequence with an
   element more, a function changed at one point) in one place.
