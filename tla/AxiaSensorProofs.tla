---------------------------- MODULE AxiaSensorProofs ----------------------------
(***************************************************************************)
(* driver_mutex_ keeps the plugin's threads apart in the driver, for every *)
(* interleaving of callbacks, reads, services and workers, every failure   *)
(* of the library and every configuration, except while on_activate shuts  *)
(* the driver down after a failed activation.  Where they are kept apart,  *)
(* each step of the driver may rely on what AxiaDriverProofs proves of     *)
(* methods called one at a time: so the plugin uses no released master and *)
(* no dead process image, except after that shutdown met another thread in *)
(* a driver that reads its calibration.  The lifecycle's own thread may    *)
(* rely on it in every case, so the master is always given back.           *)
(***************************************************************************)
EXTENDS AxiaSensor, AxiaDriverProofs

----------------------------------------------------------------------------
(* The inductive invariant. *)

CallTyped == call \in [Callers -> Places]

PluginTyped ==
    /\ hw \in {"unconfigured", "inactive", "active", "finalized"}
    /\ mutex \in Callers \cup {"free"}
    /\ configured \in BOOLEAN /\ services \in BOOLEAN
    /\ interfaces \in {"nan", "sample"}
    /\ snapshot \in {"inactive", "never", "before", "now"}
    /\ future \in {"none", "running"} \cup Outcomes
    /\ paused \in BOOLEAN
    /\ reply \in {"none", "success", "refused"}

RacedTyped == raced \in BOOLEAN

PcTyped ==
    /\ pc \in [Callers -> LcPoints \cup RtPoints \cup ExPoints \cup WkPoints]
    /\ pc["lc"] \in LcPoints
    /\ pc["rt"] \in RtPoints
    /\ pc["ex"] \in ExPoints
    /\ pc["wk"] \in WkPoints

\* The points at which a thread holds driver_mutex_.
LockedPoints ==
    {"cfgOld", "cfgNew", "actInit", "actClear", "actSet", "deactStop",
     "reading", "bias", "pulsing", "ready", "uploading"}

\* The points at which it is in a method of the driver.  At two of them it
\* holds no lock.
CallPoints ==
    {"cfgOld", "actInit", "actClear", "actSet", "deactStop",
     "reading", "pulsing", "uploading", "actStop", "destroy"}

LockHeld == \A t \in Callers : pc[t] \in LockedPoints <=> mutex = t

CallsAtCallPoints == \A t \in Callers : call[t] # "none" => pc[t] \in CallPoints

\* The destructor is alone: the node's callbacks are over, and its worker is
\* waited for.
Ending ==
    /\ pc["lc"] \in {"join", "destroy", "gone"} =>
         ~services /\ hw = "finalized" /\ pc["rt"] = "idle" /\ pc["ex"] = "idle"
    /\ pc["lc"] \in {"destroy", "gone"} => pc["wk"] = "idle"
    /\ pc["wk"] # "idle" => future = "running"

Control == PcTyped /\ LockHeld /\ CallsAtCallPoints /\ Ending

\* What the plugin's own steps are about, and the whole.
PluginInv == CallTyped /\ PluginTyped /\ Control

SensorInv == DataTyped /\ RacedTyped /\ PluginInv

\* The threads, by name.
LEMMA ThreadsAre == Callers = {"lc", "rt", "ex", "wk"}
BY SensorAssumption

\* A step that leaves the driver's data alone keeps their type.
LEMMA DataStays == ASSUME DataTyped, UNCHANGED driverData PROVE DataTyped'
BY DEF DataTyped, driverData, pointers, bus

\* on_configure.
LEMMA LcConfigureKeeps ==
    ASSUME SensorInv, LcConfigure
    PROVE  PluginInv'
<1> USE ThreadsAre
    DEF SensorInv, PluginInv, CallTyped, PluginTyped, Control, PcTyped, LockHeld,
        CallsAtCallPoints, Ending, LcPoints, LockedPoints, CallPoints, Places,
        Steps, InitSteps, StopSteps, PulseSteps, Results, Outcomes, Errored, Is, LcMay,
        Move, Lock, Unlock, Enter, Leave, LeaveAndEnter, pluginVars, driverVars
<1>1. CASE Configure
    BY <1>1 DEF Configure
<1>2. CASE ConfigureLock
    BY <1>2 DEF ConfigureLock
<1>3. CASE ConfigureOldGone
    BY <1>3 DEF ConfigureOldGone
<1>4. CASE ConfigureDone
  <2>1. services' \in BOOLEAN /\ configured' \in BOOLEAN
      BY <1>4, Zenon DEF ConfigureDone
  <2>2. /\ pc["lc"] = "cfgNew"
        /\ \/ pc' = [pc EXCEPT !["lc"] = "cfgReturn"]
           \/ pc' = [pc EXCEPT !["lc"] = "cfgError"]
        /\ mutex' = "free"
        /\ UNCHANGED <<call, hw, interfaces, snapshot, future, paused, reply>>
      BY <1>4 DEF ConfigureDone
  <2> QED
      BY <2>1, <2>2
<1>5. CASE ConfigureReturn
    BY <1>5 DEF ConfigureReturn
<1> QED
    BY <1>1, <1>2, <1>3, <1>4, <1>5 DEF LcConfigure

\* on_activate.
LEMMA LcActivateKeeps ==
    ASSUME SensorInv, LcActivate
    PROVE  PluginInv'
<1> USE ThreadsAre
    DEF SensorInv, PluginInv, CallTyped, PluginTyped, Control, PcTyped, LockHeld,
        CallsAtCallPoints, Ending, LcPoints, LockedPoints, CallPoints, Places,
        Steps, InitSteps, StopSteps, PulseSteps, Results, Outcomes, Errored, Is, LcMay,
        Move, Lock, Unlock, Enter, Leave, LeaveAndEnter, pluginVars, driverVars
<1>1. CASE Activate
    BY <1>1 DEF Activate
<1>2. CASE ActivateLock
    BY <1>2 DEF ActivateLock
<1>3. CASE ActivateClear
    BY <1>3 DEF ActivateClear
<1>4. CASE ActivateSet
    BY <1>4 DEF ActivateSet
<1>5. CASE ActivateDone
    BY <1>5 DEF ActivateDone
<1>6. CASE ActivateThrew
    BY <1>6 DEF ActivateThrew
<1>7. CASE ActivateShutdown
    BY <1>7 DEF ActivateShutdown
<1>8. CASE ActivateFailed
    BY <1>8 DEF ActivateFailed
<1>9. CASE ActivateReturn
    BY <1>9 DEF ActivateReturn
<1> QED
    BY <1>1, <1>2, <1>3, <1>4, <1>5, <1>6, <1>7, <1>8, <1>9 DEF LcActivate

\* on_deactivate.
LEMMA LcDeactivateKeeps ==
    ASSUME SensorInv, LcDeactivate
    PROVE  PluginInv'
<1> USE ThreadsAre
    DEF SensorInv, PluginInv, CallTyped, PluginTyped, Control, PcTyped, LockHeld,
        CallsAtCallPoints, Ending, LcPoints, LockedPoints, CallPoints, Places,
        Steps, InitSteps, StopSteps, PulseSteps, Results, Outcomes, Errored, Is, LcMay,
        Move, Lock, Unlock, Enter, Leave, LeaveAndEnter, pluginVars, driverVars
<1>1. CASE Deactivate
    BY <1>1 DEF Deactivate
<1>2. CASE DeactivateLock
    BY <1>2 DEF DeactivateLock
<1>3. CASE DeactivateDone
    BY <1>3 DEF DeactivateDone
<1>4. CASE DeactivateReturn
    BY <1>4 DEF DeactivateReturn
<1> QED
    BY <1>1, <1>2, <1>3, <1>4 DEF LcDeactivate

\* The transitions without a callback, and the destructor.
LEMMA LcEndKeeps ==
    ASSUME SensorInv, LcEnd
    PROVE  PluginInv'
<1> USE ThreadsAre
    DEF SensorInv, PluginInv, CallTyped, PluginTyped, Control, PcTyped, LockHeld,
        CallsAtCallPoints, Ending, LcPoints, LockedPoints, CallPoints, Places,
        Steps, InitSteps, StopSteps, PulseSteps, Results, Outcomes, Errored, Is, LcMay,
        Move, Lock, Unlock, Enter, Leave, LeaveAndEnter, pluginVars, driverVars
<1>1. CASE Cleanup
    BY <1>1 DEF Cleanup
<1>2. CASE Shutdown
    BY <1>2 DEF Shutdown
<1>3. CASE Destroy
  <2>1. services' \in BOOLEAN /\ ~services'
      BY <1>3, Zenon DEF Destroy
  <2> QED
      BY <1>3, <2>1 DEF Destroy
<1>4. CASE DestroyJoined
  <2>1. CASE configured
      BY <1>4, <2>1 DEF DestroyJoined
  <2>2. CASE ~configured
      BY <1>4, <2>2 DEF DestroyJoined
  <2> QED
      BY <2>1, <2>2
<1>5. CASE DestroyDone
  <2>1. configured' \in BOOLEAN
      BY <1>5, Zenon DEF DestroyDone
  <2>2. /\ Move("lc", "destroy", "gone") /\ Leave("lc", "returned")
        /\ UNCHANGED <<hw, mutex, services, interfaces, snapshot, future, paused, reply>>
      BY <1>5 DEF DestroyDone
  <2>3. CallTyped' /\ PluginTyped'
      BY <2>1, <2>2
  <2>4. PcTyped' /\ Ending'
      BY <2>2
  <2>5. LockHeld' /\ CallsAtCallPoints'
      BY <2>2
  <2> QED
      BY <2>3, <2>4, <2>5 DEF PluginInv, Control
<1> QED
    BY <1>1, <1>2, <1>3, <1>4, <1>5 DEF LcEnd

\* read().
LEMMA RtReadKeeps ==
    ASSUME SensorInv, RtRead
    PROVE  PluginInv'
<1> USE ThreadsAre
    DEF SensorInv, PluginInv, CallTyped, PluginTyped, Control, PcTyped, LockHeld,
        CallsAtCallPoints, Ending, RtPoints, LockedPoints, CallPoints, Places,
        Steps, ReadSteps, Results, Outcomes, Errored, Is, LcMay,
        Move, Lock, Unlock, Enter, Leave, LeaveAndEnter, pluginVars, driverVars
<1>1. CASE Read
    BY <1>1 DEF Read
<1>2. CASE ReadLock
    BY <1>2 DEF ReadLock
<1>3. CASE ReadDone
  <2>1. seen \in {"never", "before", "now"}
      BY DEF DataTyped
  <2> QED
      BY <1>3, <2>1 DEF ReadDone
<1>4. CASE ReadThrew
    BY <1>4 DEF ReadThrew
<1>5. CASE ReadFailed
    BY <1>5 DEF ReadFailed
<1> QED
    BY <1>1, <1>2, <1>3, <1>4, <1>5 DEF RtRead

\* A bias service.
LEMMA ExBiasKeeps ==
    ASSUME SensorInv, ExBias
    PROVE  PluginInv'
<1> USE ThreadsAre
    DEF SensorInv, PluginInv, CallTyped, PluginTyped, Control, PcTyped, LockHeld,
        CallsAtCallPoints, Ending, ExPoints, LockedPoints, CallPoints, Places,
        Steps, PulseSteps, Results, Outcomes, Errored, Is, LcMay,
        Move, Lock, Unlock, Enter, Leave, LeaveAndEnter, pluginVars, driverVars
<1>1. CASE Bias
    BY <1>1 DEF Bias
<1>2. CASE BiasLock
    BY <1>2 DEF BiasLock
<1>3. CASE BiasRefused
    BY <1>3 DEF BiasRefused
<1>4. CASE BiasStart
    BY <1>4 DEF BiasStart
<1>5. CASE BiasDone
    BY <1>5 DEF BiasDone
<1> QED
    BY <1>1, <1>2, <1>3, <1>4, <1>5 DEF ExBias

\* A worker.
LEMMA WkAttemptKeeps ==
    ASSUME SensorInv, WkAttempt
    PROVE  PluginInv'
<1> USE ThreadsAre
    DEF SensorInv, PluginInv, CallTyped, PluginTyped, Control, PcTyped, LockHeld,
        CallsAtCallPoints, Ending, WkPoints, LockedPoints, CallPoints, Places,
        Steps, UploadSteps, Results, Outcomes, Errored, Is, LcMay,
        Move, Lock, Unlock, Enter, Leave, LeaveAndEnter, pluginVars, driverVars
<1>1. CASE TryLock
    BY <1>1 DEF TryLock
<1>2. CASE TryLockBusy
    BY <1>2 DEF TryLockBusy
<1>3. CASE WorkerNotReady
    BY <1>3 DEF WorkerNotReady
<1>4. CASE WorkerStart
    BY <1>4 DEF WorkerStart
<1>5. CASE WorkerDone
    BY <1>5 DEF WorkerDone
<1>6. CASE Deliver
    BY <1>6 DEF Deliver
<1> QED
    BY <1>1, <1>2, <1>3, <1>4, <1>5, <1>6 DEF WkAttempt

\* The diagnostics timer.
LEMMA TickKeeps ==
    ASSUME SensorInv, Tick
    PROVE  PluginInv'
<1> USE ThreadsAre
    DEF SensorInv, PluginInv, CallTyped, PluginTyped, Control, PcTyped, LockHeld,
        CallsAtCallPoints, Ending, Outcomes
<1>1. /\ services /\ pc["ex"] = "idle"
      /\ UNCHANGED <<call, hw, mutex, configured, services, interfaces, snapshot, reply>>
    BY DEF Tick, Is, driverVars
<1>2. paused' \in BOOLEAN
    BY Zenon DEF Tick
<1>3. CASE future # "running" /\ ~paused'
  <2>1. future' = "running" /\ Move("wk", "idle", "try")
      BY <1>3, Zenon DEF Tick
  <2> QED
      BY <1>1, <1>2, <2>1 DEF Move, WkPoints, Outcomes, LockedPoints, CallPoints
<1>4. CASE ~(future # "running" /\ ~paused')
  <2>1. pc' = pc
      BY <1>4, Zenon DEF Tick
  <2>2. future' = IF future = "running" THEN "running" ELSE "none"
      BY <1>4, Zenon DEF Tick
  <2> QED
      BY <1>1, <1>2, <2>1, <2>2
<1> QED
    BY <1>3, <1>4

\* A step of the plugin: everything but a step inside the driver.
PluginStep ==
    \/ LcConfigure \/ LcActivate \/ LcDeactivate \/ LcEnd
    \/ RtRead \/ ExBias \/ Tick \/ WkAttempt

\* It leaves the driver's data alone, but for the driver on_configure makes.
LEMMA PluginStepLeaves == ASSUME PluginStep PROVE UNCHANGED driverData \/ ConfigureDone
BY DEF Move, driverVars, driverData, pointers, bus,
       PluginStep, LcConfigure, Configure, ConfigureLock, ConfigureOldGone, ConfigureReturn,
       LcActivate, Activate, ActivateLock, ActivateClear, ActivateSet, ActivateDone,
       ActivateReturn,
       ActivateThrew, ActivateShutdown, ActivateFailed,
       LcDeactivate, Deactivate, DeactivateLock, DeactivateDone, DeactivateReturn,
       LcEnd, Cleanup, Shutdown, Destroy, DestroyJoined, DestroyDone,
       RtRead, Read, ReadLock, ReadDone, ReadThrew, ReadFailed,
       ExBias, Bias, BiasLock, BiasRefused, BiasStart, BiasDone, Tick,
       WkAttempt, TryLock, TryLockBusy, WorkerNotReady, WorkerStart, WorkerDone,
       Deliver

\* So the data keep their type.
LEMMA PluginStepData ==
    ASSUME SensorInv, PluginStep
    PROVE  DataTyped' /\ UNCHANGED raced
<1>1. UNCHANGED driverData \/ ConfigureDone
    BY PluginStepLeaves
<1>2. UNCHANGED raced
    BY DEF Move, driverVars, driverData, pointers, bus,
           PluginStep, LcConfigure, Configure, ConfigureLock, ConfigureOldGone,
           ConfigureDone, ConfigureReturn,
           LcActivate, Activate, ActivateLock, ActivateClear, ActivateSet, ActivateDone,
           ActivateReturn,
           ActivateThrew, ActivateShutdown, ActivateFailed,
           LcDeactivate, Deactivate, DeactivateLock, DeactivateDone, DeactivateReturn,
           LcEnd, Cleanup, Shutdown, Destroy, DestroyJoined, DestroyDone,
           RtRead, Read, ReadLock, ReadDone, ReadThrew, ReadFailed,
           ExBias, Bias, BiasLock, BiasRefused, BiasStart, BiasDone, Tick,
           WkAttempt, TryLock, TryLockBusy, WorkerNotReady, WorkerStart, WorkerDone,
           Deliver
<1>3. CASE ConfigureDone
    BY <1>2, <1>3 DEF ConfigureDone, SensorInv, DataTyped, bus
<1>4. CASE UNCHANGED driverData
    BY <1>2, <1>4, DataStays DEF SensorInv
<1> QED
    BY <1>1, <1>3, <1>4

\* A step inside the driver: the thread that takes it stays in its method, and
\* the plugin does not move.
LEMMA InsideDriverKeeps ==
    ASSUME SensorInv, NEW t \in Callers, InsideDriver(t)
    PROVE  SensorInv'
<1>1. DriverTypeOK
    BY TypeSplit DEF SensorInv, PluginInv, CallTyped
<1>2. DriverTypeOK' /\ Local(t)
    BY <1>1, DriverStepTyped DEF InsideDriver
<1>3. DataTyped' /\ CallTyped'
    BY <1>2 DEF DriverTypeOK, DataTyped, CallTyped, Places
<1>4. raced' \in BOOLEAN
    BY Zenon DEF InsideDriver
<1>5. UNCHANGED <<pc, pluginVars>>
    BY DEF InsideDriver
<1>6. CallsAtCallPoints'
    BY <1>2, <1>5, PlacesAre
       DEF SensorInv, PluginInv, Control, CallsAtCallPoints, Local, Places, Results
<1>7. (PluginTyped /\ PcTyped /\ LockHeld /\ Ending)'
    BY <1>5 DEF SensorInv, PluginInv, Control, PluginTyped, PcTyped, LockHeld, Ending,
                pluginVars
<1> QED
    BY <1>3, <1>4, <1>6, <1>7 DEF SensorInv, PluginInv, Control, RacedTyped

\* A step that changes nothing.
LEMMA StutterKeeps == ASSUME SensorInv, UNCHANGED vars PROVE SensorInv'
BY DEF vars, driverVars, pointers, bus, pluginVars, SensorInv, DataTyped, RacedTyped,
       PluginInv, CallTyped, PluginTyped, Control, PcTyped, LockHeld,
       CallsAtCallPoints, Ending

\* The plugin before on_configure.
LEMMA SensorInit == ASSUME Init PROVE SensorInv
<1> USE ThreadsAre DEF Init, DriverInit, Fresh
<1>1. DataTyped /\ CallTyped
    BY DEF DataTyped, CallTyped, Places, Results
<1>2. PluginTyped /\ RacedTyped
    BY DEF PluginTyped, RacedTyped
<1>3. Control
    BY DEF Control, PcTyped, LockHeld, CallsAtCallPoints, Ending, LockedPoints,
           LcPoints, RtPoints, ExPoints, WkPoints, Outcomes
<1> QED
    BY <1>1, <1>2, <1>3 DEF SensorInv, PluginInv

\* Any step.
LEMMA NextKeeps == ASSUME SensorInv, [Next]_vars PROVE SensorInv'
<1>1. CASE PluginStep
  <2>1. PluginInv'
      BY <1>1, LcConfigureKeeps, LcActivateKeeps, LcDeactivateKeeps, LcEndKeeps,
         RtReadKeeps, ExBiasKeeps, TickKeeps, WkAttemptKeeps DEF PluginStep
  <2>2. DataTyped' /\ RacedTyped'
      BY <1>1, PluginStepData DEF SensorInv, RacedTyped
  <2> QED
      BY <2>1, <2>2 DEF SensorInv
<1>2. CASE \E t \in Callers : InsideDriver(t)
    BY <1>2, InsideDriverKeeps
<1>3. CASE Over \/ UNCHANGED vars
    BY <1>3, StutterKeeps DEF Over
<1> QED
    BY <1>1, <1>2, <1>3 DEF Next, PluginStep

\* The invariant holds of every behaviour of the plugin: who is where holds the
\* lock or does not, and only a thread that is there is in the driver.
THEOREM SensorInvariant == Spec => []SensorInv
BY SensorInit, NextKeeps, PTL DEF Spec

\* The plugin's state has its type, whatever the threads do and whichever call
\* of the library fails.
THEOREM SensorTyped == Spec => []TypeOK
<1>1. SensorInv => TypeOK
  <2> SUFFICES ASSUME SensorInv PROVE TypeOK
      OBVIOUS
  <2>1. DriverTypeOK
      BY TypeSplit DEF SensorInv, PluginInv, CallTyped
  <2> QED
      BY <2>1 DEF SensorInv, PluginInv, PluginTyped, RacedTyped, Control, PcTyped, TypeOK
<1> QED
    BY <1>1, SensorInvariant, PTL

\* Two threads are in the driver only when one shuts it down without the lock.
LEMMA TwoInDriver == SensorInv => OneInDriver
<1> SUFFICES ASSUME SensorInv, NEW t \in Callers, NEW u \in Callers,
                    t # u, InDriver(t), InDriver(u)
             PROVE  "lc" \in {t, u} /\ Is("lc", "actStop")
    BY DEF OneInDriver
<1>1. pc[t] \in CallPoints /\ pc[u] \in CallPoints
    BY PlacesAre DEF InDriver, SensorInv, PluginInv, Control, CallsAtCallPoints
<1>2. pc[t] \notin LockedPoints \/ pc[u] \notin LockedPoints
    BY DEF SensorInv, PluginInv, Control, LockHeld
<1>3. \A v \in Callers : pc[v] \in CallPoints \ LockedPoints =>
        v = "lc" /\ pc[v] \in {"actStop", "destroy"}
    BY ThreadsAre DEF CallPoints, LockedPoints, SensorInv, PluginInv, Control, PcTyped,
                      RtPoints, ExPoints, WkPoints, Outcomes
<1>4. pc["lc"] # "destroy"
    BY <1>1, ThreadsAre DEF SensorInv, PluginInv, Control, Ending, CallPoints
<1> QED
    BY <1>1, <1>2, <1>3, <1>4 DEF Is

\* driver_mutex_ keeps two threads out of the driver at once, in every
\* interleaving of callbacks, reads, services, worker and destructor, but for
\* the shutdown that on_activate runs after it has lost the lock.
THEOREM LockProtectsDriver == Spec => []OneInDriver
BY TwoInDriver, SensorInvariant, PTL

----------------------------------------------------------------------------
(* What the driver's steps rely on when several threads take them.  A thread  *)
(* that no other disturbs relies on what Shape says of its step, and Frames   *)
(* of the last frame, as it does when the methods are called one at a time.   *)
(* Only the shutdown without the lock meets another thread, and no harm is    *)
(* done if the driver was not active any more.                                *)

StopPoints == {"cfgOld", "deactStop", "actStop", "destroy"}
ActivatePoints ==
    {"actInit", "actClear", "actSet", "actReturn", "actFailed", "actStop"}

\* The method each thread is in.
Methods ==
    /\ pc["lc"] \in StopPoints => call["lc"] \in StopSteps \cup {"returned"}
    /\ pc["lc"] = "actInit" => call["lc"] \in InitSteps \cup {"returned", "threw"}
    /\ pc["lc"] \in {"actClear", "actSet"} =>
         call["lc"] \in PulseSteps \cup {"returned", "threw"}
    /\ call["rt"] \in ReadSteps \cup Results
    /\ call["ex"] \in PulseSteps \cup Results
    /\ call["wk"] \in UploadSteps \cup Results

\* Where the lifecycle knows that the driver holds no master.
Masterless ==
    /\ pc["lc"] \in StopPoints /\ call["lc"] = "returned" => ~master
    /\ pc["lc"] \in {"cfgNew", "cfgReturn", "cfgError", "actLock", "deactReturn", "gone"} =>
         ~master
    /\ hw = "inactive" /\ pc["lc"] \notin ActivatePoints => ~master
    /\ ~configured => ~master
    /\ pc["lc"] \in ActivatePoints \cup {"actLock"} => configured

\* A read that has not begun does not disturb: it takes no step before it has
\* seen that the driver is active.
Undisturbed(t) == \A u \in Callers \ {t} : InDriver(u) => At(u, "read")

\* What a step of the driver may rely on: Frames only where the library leaves the
\* outputs alone.
Known(place) == Shape(place) /\ (~ReceiveOverwritesOutputs => Frames(place))

Rely ==
    /\ ~fault
    /\ (\A t \in Callers : ~InDriver(t)) => Known("none")
    /\ \A t \in Callers : InDriver(t) /\ Undisturbed(t) => Known(call[t])

\* An init that returned leaves a driver that pulses and reads.
InitEnds ==
    /\ pc["lc"] = "actInit" /\ call["lc"] = "returned" => active /\ scales = "positive"
    /\ pc["lc"] \in {"actClear", "actSet"} =>
         active /\ scales = "positive" /\ call["lc"] # "threw"

\* One that uploads no calibration fails before the driver is active.
FailsInactive ==
    ~ReadCalibration =>
        /\ scales = "positive" /\ call["lc"] # "calibrate"
        /\ pc["lc"] = "actInit" /\ call["lc"] = "threw" => ~active
        /\ pc["lc"] \in {"actFailed", "actStop"} =>
             ~active /\ \A u \in Callers \ {"lc"} : InDriver(u) => At(u, "read")

\* Between two callbacks, while one waits for the lock, and while it returns.
Between ==
    {"idle", "cfgLock", "cfgReturn", "cfgError", "actLock", "actReturn", "deactLock",
     "deactReturn"}

\* There the driver is active exactly when it holds a master and when the hardware
\* is active, and no read was refused by a driver that holds one.
Settled ==
    pc["lc"] \in Between =>
        /\ master => active /\ scales = "positive"
        /\ Activated => active
        /\ ~Activated /\ (hw = "finalized" => ~ShutdownWhileActive) => ~master
        /\ call["rt"] = "threw" => ~master

\* The hardware is active from the end of its activation to that of its deactivation,
\* and the driver of a bias service that found it active is that of an active hardware.
Running ==
    /\ hw = "active" => pc["lc"] \in {"idle", "deactLock", "deactStop", "deactReturn"}
    /\ pc["lc"] \in {"deactLock", "deactStop", "deactReturn"} => hw = "active"
    /\ pc["ex"] = "pulsing" /\ ~ReadCalibration /\ ~ShutdownWhileActive => Activated

Rest == Methods /\ Masterless /\ InitEnds /\ FailsInactive /\ Settled /\ Running

Sound == Rely /\ Rest

\* What is known is of the driver's data.
LEMMA KnownStays ==
    ASSUME UNCHANGED driverData PROVE \A place \in Places : Known(place)' <=> Known(place)
BY DEF driverData, pointers, bus, Known, Shape, ShapeOfInit, ShapeOfStop, ShapeOfRead,
       Consistent, Frames

\* The same is known before and after every method.
LEMMA KnownSteady == \A place \in SteadyPlaces : Known(place) <=> Known("none")
BY DEF Known, Shape, ShapeOfInit, ShapeOfStop, ShapeOfRead, SteadyPlaces, LiveSteps,
       UploadsLeft, Frames, QuietSteps, FramelessSteps

\* init begins without a master.
LEMMA KnownRequest == ASSUME Known("none"), ~master PROVE Known("request")
BY DEF Known, Shape, ShapeOfInit, ShapeOfStop, ShapeOfRead, SteadyPlaces, LiveSteps,
       UploadsLeft, Frames, QuietSteps, FramelessSteps

\* A step that may rely on what is known keeps to the protocol of the session.
LEMMA KnownStep ==
    ASSUME DriverTypeOK, NEW t \in Callers, Known(call[t]), DriverStep(t)
    PROVE  /\ Known(call[t])' /\ UNCHANGED fault
           /\ ~ReceiveOverwritesOutputs => SessionStep
<1>1. Shape(call[t])' /\ UNCHANGED fault
    BY DriverStepKeeps DEF Known
<1>2. CASE ReceiveOverwritesOutputs
    BY <1>1, <1>2 DEF Known
<1>3. CASE ReceiveOverwritesOutputs = FALSE
    BY <1>1, <1>3, DriverStepFrames DEF Known
<1> QED
    BY <1>2, <1>3, DriverAssumption

\* A method is called, or one that has ended is left: nobody else comes to rely on
\* less.
LEMMA RelyStays ==
    ASSUME CallTyped, Rely, UNCHANGED driverData, NEW t \in Callers, ~InDriver(t),
           NEW place \in Results \cup {"request", "stop", "pulse", "read", "upload"},
           place = "request" => ~master,
           call' = [call EXCEPT ![t] = place]
    PROVE  Rely'
<1>1. \A p \in Places : Known(p)' <=> Known(p)
    BY KnownStays
<1>2. call'[t] = place /\ \A u \in Callers \ {t} : call'[u] = call[u]
    BY DEF CallTyped
<1>3. ~fault'
    BY DEF Rely, driverData
<1>4. \A u \in Callers \ {t} : InDriver(u)' <=> InDriver(u)
    BY <1>2 DEF InDriver
<1>5. place \in Places /\ (place \in Steps /\ Known("none") => Known(place))
    BY PlacesAre, KnownSteady, KnownRequest
       DEF Places, Steps, InitSteps, StopSteps, PulseSteps, ReadSteps, UploadSteps, Results,
           SteadyPlaces
<1>6. Known("read") => Known("none")
    BY KnownSteady DEF SteadyPlaces
<1>7. "none" \in Places
    BY DEF Places, Results
<1>8. ASSUME \A u \in Callers : ~InDriver(u)' PROVE Known("none")'
    BY <1>1, <1>4, <1>7, <1>8 DEF Rely
<1>9. ASSUME NEW u \in Callers, InDriver(u)', Undisturbed(u)'
      PROVE  Known(call[u])'
  <2>1. CASE u # t
    <3>1. InDriver(u) /\ Undisturbed(u)
        BY <1>2, <1>4, <1>9, <2>1 DEF Undisturbed, At
    <3>2. Known(call[u])
        BY <3>1 DEF Rely
    <3> QED
        BY <1>1, <1>2, <2>1, <3>2 DEF CallTyped
  <2>2. CASE u = t
    <3>1. place \in Steps
        BY <1>2, <1>9, <2>2 DEF InDriver
    <3>2. Known("none")
      <4>1. CASE \A v \in Callers : ~InDriver(v)
          BY <4>1 DEF Rely
      <4>2. ASSUME NEW v \in Callers, InDriver(v) PROVE Known("none")
        <5>1. \A w \in Callers \ {t} : InDriver(w) => At(w, "read")
            BY <1>2, <1>4, <1>9, <2>2 DEF Undisturbed, At
        <5>2. At(v, "read") /\ Undisturbed(v)
            BY <4>2, <5>1 DEF Undisturbed
        <5> QED
            BY <1>6, <4>2, <5>2 DEF Rely, At
      <4> QED
          BY <4>1, <4>2
    <3> QED
        BY <1>1, <1>2, <1>5, <2>2, <3>1, <3>2
  <2> QED
      BY <2>1, <2>2
<1> QED
    BY <1>3, <1>8, <1>9 DEF Rely

\* Nothing moves in the driver.
LEMMA RelyRests ==
    ASSUME CallTyped, Rely, UNCHANGED <<driverData, call>>
    PROVE  Rely'
<1>1. \A p \in Places : Known(p)' <=> Known(p)
    BY KnownStays
<1>2. "none" \in Places
    BY DEF Places, Results
<1> QED
    BY <1>1, <1>2 DEF Rely, CallTyped, driverData, InDriver, Undisturbed, At

\* What a thread that is in the driver is at.
LEMMA PlaceInDriver ==
    ASSUME SensorInv, Methods, NEW t \in Callers, InDriver(t)
    PROVE  \/ t = "lc" /\ pc["lc"] \in StopPoints /\ call[t] \in StopSteps
           \/ t = "lc" /\ pc["lc"] = "actInit" /\ call[t] \in InitSteps
           \/ t = "lc" /\ pc["lc"] \in {"actClear", "actSet"} /\ call[t] \in PulseSteps
           \/ t = "rt" /\ call[t] \in ReadSteps
           \/ t = "ex" /\ call[t] \in PulseSteps
           \/ t = "wk" /\ call[t] \in UploadSteps
<1>1. call[t] \in Steps /\ call[t] \notin Results
    BY PlacesAre DEF InDriver
<1>2. pc[t] \in CallPoints
    BY <1>1 DEF SensorInv, PluginInv, Control, CallsAtCallPoints, Results
<1>3. CASE t = "lc"
  <2>1. pc["lc"] \in StopPoints \cup {"actInit", "actClear", "actSet"}
      BY <1>2, <1>3, ThreadsAre
         DEF CallPoints, StopPoints, SensorInv, PluginInv, Control, PcTyped, LcPoints
  <2> QED
      BY <1>1, <1>3, <2>1 DEF Methods, Results
<1>4. CASE t # "lc"
    BY <1>1, <1>4, ThreadsAre DEF Methods
<1> QED
    BY <1>3, <1>4

\* A step of the lifecycle's thread, where it may rely on the shape of the driver.
LEMMA LcStepRests ==
    ASSUME SensorInv, Rest, InsideDriver("lc"), Shape(call["lc"])
    PROVE  Rest'
<1>0. "lc" \in Callers
    BY ThreadsAre
<1>1. DriverTypeOK /\ DriverStep("lc")
    BY <1>0, TypeSplit DEF SensorInv, PluginInv, CallTyped, InsideDriver
<1>2. Local("lc") /\ InDriver("lc")
    BY <1>0, <1>1, DriverStepTyped DEF Local, InDriver
<1>5. /\ call' \in [Callers -> Places] /\ call'["lc"] # "none"
      /\ \A u \in Callers \ {"lc"} : call'[u] = call[u]
    BY <1>2 DEF Local, SensorInv, PluginInv, CallTyped
<1>6. UNCHANGED <<pc, hw, configured>>
    BY DEF InsideDriver, pluginVars
<1> USE ThreadsAre
    DEF Rest, Methods, Masterless, InitEnds, FailsInactive, Settled, Running, Activated
<1>8. (Methods /\ Masterless /\ InitEnds /\ FailsInactive /\ Settled)'
  <2>1. CASE pc["lc"] \in StopPoints /\ call["lc"] \in StopSteps
    <3>1. /\ call'["lc"] \in StopSteps \cup {"returned"}
          /\ call'["lc"] = "returned" => ~master'
          /\ master' => master
          /\ active' => active
          /\ UNCHANGED scales
        BY <1>0, <1>1, Shape(call["lc"]), <2>1, MethodIs, StopStays
    <3>2. pc["lc"] \notin {"actInit", "actClear", "actSet", "cfgNew", "actLock", "gone"} \cup Between
        BY <2>1 DEF StopPoints, Between
    <3>3. Methods' /\ InitEnds'
        BY <1>5, <1>6, <2>1, <3>1, <3>2
    <3>4. Masterless'
        BY <1>5, <1>6, <2>1, <3>1, <3>2
    <3>5. FailsInactive'
        BY <1>5, <1>6, <2>1, <3>1, <3>2 DEF InDriver, At, StopSteps
    <3> QED
        BY <1>6, <3>2, <3>3, <3>4, <3>5
  <2>2. CASE pc["lc"] = "actInit" /\ call["lc"] \in InitSteps
    <3>1. /\ call'["lc"] \in InitSteps \cup {"returned", "threw"}
          /\ call'["lc"] = "returned" => active' /\ scales' = "positive"
          /\ ~ReadCalibration => scales' = "positive" /\ call'["lc"] # "calibrate"
          /\ ~ReadCalibration /\ call'["lc"] = "threw" => ~active'
        BY <1>0, <1>1, Shape(call["lc"]), <2>2, MethodIs, InitStays
    <3> QED
        BY <1>5, <1>6, <2>2, <3>1 DEF StopPoints, ActivatePoints, Between
  <2>3. CASE pc["lc"] \in {"actClear", "actSet"} /\ call["lc"] \in PulseSteps
    <3>1. /\ call'["lc"] \in PulseSteps \cup {"returned", "threw"}
          /\ active => call'["lc"] # "threw"
          /\ UNCHANGED <<master, active, scales>>
        BY <1>0, <1>1, Shape(call["lc"]), <2>3, MethodIs, PulseStays
    <3> QED
        BY <1>5, <1>6, <2>3, <3>1 DEF StopPoints, ActivatePoints, Between, PulseSteps
  <2> QED
      BY <1>0, <1>2, <2>1, <2>2, <2>3, PlaceInDriver
<1>9. Running'
    BY <1>6
<1> QED
    BY <1>8, <1>9

\* A step of a thread that no other disturbs does what it does when the methods are
\* called one at a time.
LEMMA UndisturbedStep ==
    ASSUME SensorInv, Sound, NEW t \in Callers, InsideDriver(t), Undisturbed(t)
    PROVE  Sound'
<1>1. DriverTypeOK /\ DriverStep(t)
    BY TypeSplit DEF SensorInv, PluginInv, CallTyped, InsideDriver
<1>2. Local(t) /\ InDriver(t)
    BY <1>1, DriverStepTyped DEF Local, InDriver
<1>3. Known(call[t]) /\ Shape(call[t])
    BY <1>2 DEF Sound, Rely, Known
<1>4. Known(call[t])' /\ UNCHANGED fault
    BY <1>1, <1>3, KnownStep
<1>5. /\ call' \in [Callers -> Places] /\ call'[t] # "none"
      /\ \A u \in Callers \ {t} : call'[u] = call[u]
    BY <1>2 DEF Local, SensorInv, PluginInv, CallTyped
<1>6. UNCHANGED <<pc, hw, configured>>
    BY DEF InsideDriver, pluginVars
<1>7. Rely'
  <2>1. ~InDriver(t)' => call'[t] \in {"returned", "threw"}
      BY <1>5 DEF InDriver, Places, Results
  <2>2. call'[t] \in {"returned", "threw", "read"} => Known("none")' /\ Known("read")'
      BY <1>4
         DEF Known, Shape, ShapeOfInit, ShapeOfStop, ShapeOfRead, SteadyPlaces, LiveSteps,
             UploadsLeft, Frames, QuietSteps, FramelessSteps
  <2>3. ASSUME NEW u \in Callers, InDriver(u)', Undisturbed(u)' PROVE Known(call[u])'
    <3>1. CASE u = t
        BY <1>4, <3>1
    <3>2. CASE u # t
      <4>1. At(u, "read")'
          BY <1>5, <2>3, <3>2 DEF Undisturbed, InDriver, At
      <4>2. call'[t] \in {"returned", "threw", "read"}
          BY <2>1, <2>3, <3>2 DEF Undisturbed, At
      <4> QED
          BY <2>2, <4>1, <4>2 DEF At
    <3> QED
        BY <3>1, <3>2
  <2>4. ~fault'
      BY <1>4 DEF Sound, Rely
  <2>5. (\A u \in Callers : ~InDriver(u)') => Known("none")'
      BY <2>1, <2>2
  <2> QED
      BY <2>3, <2>4, <2>5 DEF Rely
<1> USE ThreadsAre
    DEF Sound, Rest, Methods, Masterless, InitEnds, FailsInactive, Settled, Running, Activated
<1>8. (Methods /\ Masterless /\ InitEnds /\ FailsInactive /\ Settled)'
  <2>1. CASE t = "lc"
      BY <1>3, <2>1, LcStepRests
  <2>4. CASE t = "rt" /\ call[t] \in ReadSteps
    <3>1. /\ call'[t] \in ReadSteps \cup {"returned", "threw"}
          /\ call'[t] = "threw" => ~(active /\ scales = "positive")
          /\ ~active => call'[t] = "threw"
          /\ UNCHANGED <<master, active, scales>>
        BY <1>1, <1>3, <2>4, MethodIs, ReadStays
    <3>2. Methods' /\ Masterless' /\ InitEnds' /\ Settled'
        BY <1>5, <1>6, <2>4, <3>1 DEF Results
    <3>3. FailsInactive'
        BY <1>5, <1>6, <2>4, <3>1, PlacesAre DEF InDriver, At, Results
    <3> QED
        BY <3>2, <3>3
  <2>5. CASE t = "ex" /\ call[t] \in PulseSteps
    <3>1. call'[t] \in PulseSteps \cup {"returned", "threw"} /\ UNCHANGED <<master, active, scales>>
        BY <1>1, <1>3, <2>5, MethodIs, PulseStays
    <3>2. Methods' /\ Masterless' /\ InitEnds' /\ Settled'
        BY <1>5, <1>6, <2>5, <3>1 DEF Results
    <3>3. FailsInactive'
        BY <1>2, <1>5, <1>6, <2>5, <3>1, PlacesAre DEF InDriver, At, PulseSteps
    <3> QED
        BY <3>2, <3>3
  <2>6. CASE t = "wk" /\ call[t] \in UploadSteps
    <3>1. call'[t] \in UploadSteps \cup {"returned", "threw"} /\ UNCHANGED <<master, active, scales>>
        BY <1>1, <1>3, <2>6, MethodIs, UploadStays
    <3>2. Methods' /\ Masterless' /\ InitEnds' /\ Settled'
        BY <1>5, <1>6, <2>6, <3>1 DEF Results
    <3>3. FailsInactive'
        BY <1>2, <1>5, <1>6, <2>6, <3>1, PlacesAre DEF InDriver, At, UploadSteps
    <3> QED
        BY <3>2, <3>3
  <2> QED
      BY <1>2, <2>1, <2>4, <2>5, <2>6, PlaceInDriver
<1>9. Running'
    BY <1>6
<1> QED
    BY <1>7, <1>8, <1>9

\* A thread that is disturbed races.  Without a calibration upload it is a read that
\* finds the driver inactive.
LEMMA DisturbedIsRefused ==
    ASSUME SensorInv, Sound, NEW t \in Callers, InsideDriver(t), ~Undisturbed(t),
           ~(raced' /\ ReadCalibration)
    PROVE  /\ ~ReadCalibration /\ ~active /\ pc["lc"] = "actStop"
           /\ t # "lc" /\ At(t, "read")
           /\ InDriver("lc") /\ ~At("lc", "read")
           /\ call' = [call EXCEPT ![t] = "threw"] /\ UNCHANGED driverData
<1>1. DriverTypeOK /\ DriverStep(t)
    BY TypeSplit DEF SensorInv, PluginInv, CallTyped, InsideDriver
<1>2. InDriver(t)
    BY <1>1, DriverStepTyped DEF Local, InDriver
<1>3. PICK u \in Callers \ {t} : InDriver(u) /\ ~At(u, "read")
    BY DEF Undisturbed
<1>4. "lc" \in {t, u} /\ pc["lc"] = "actStop"
    BY <1>2, <1>3, TwoInDriver DEF OneInDriver, Is
<1>5. ~ReadCalibration
    BY <1>2, <1>3, <1>4, ThreadsAre DEF InsideDriver, Racing, Is
<1>6. ~active /\ u = "lc" /\ At(t, "read")
    BY <1>2, <1>3, <1>4, <1>5 DEF Sound, Rest, FailsInactive
<1>7. ReadCheck(t)
    BY <1>1, <1>6, MethodIs
       DEF ReadStep, ReadReceive, CheckState, ReadSample, ReadWrite, ReadSend, WriteControl,
           At, ReadSteps
<1>8. /\ call' = [call EXCEPT ![t] = "threw"]
      /\ UNCHANGED driverData
    BY <1>6, <1>7 DEF ReadCheck, IsActive, Goto, driverData
<1> QED
    BY <1>3, <1>4, <1>5, <1>6, <1>8

\* So it does not matter to what the others rely on.
LEMMA DisturbedStep ==
    ASSUME SensorInv, Sound, NEW t \in Callers, InsideDriver(t), ~Undisturbed(t),
           ~(raced' /\ ReadCalibration)
    PROVE  Sound'
<1>1. InDriver(t)
    BY TypeSplit, DriverStepTyped
       DEF SensorInv, PluginInv, CallTyped, InsideDriver, Local, InDriver
<1>2. /\ ~ReadCalibration /\ ~active /\ pc["lc"] = "actStop"
      /\ t # "lc" /\ At(t, "read") /\ InDriver("lc") /\ ~At("lc", "read")
      /\ call' = [call EXCEPT ![t] = "threw"] /\ UNCHANGED driverData
    BY DisturbedIsRefused
<1>3. UNCHANGED <<pc, hw, configured, master, active, scales>>
    BY <1>2 DEF InsideDriver, pluginVars, driverData, pointers
<1>4. call'[t] = "threw" /\ \A v \in Callers \ {t} : call'[v] = call[v]
    BY <1>2 DEF SensorInv, PluginInv, CallTyped
<1>5. Rely'
  <2>1. \A p \in Places : Known(p)' <=> Known(p)
      BY <1>2, KnownStays
  <2>2. ~fault' /\ InDriver("lc")'
      BY <1>2, <1>4, ThreadsAre DEF Sound, Rely, InDriver, driverData
  <2>3. ASSUME NEW v \in Callers, InDriver(v)', Undisturbed(v)' PROVE Known(call[v])'
    <3>1. v # t
        BY <1>4, <2>3, PlacesAre DEF InDriver, Results
    <3>2. v = "lc"
        BY <1>2, <1>4, <2>2, <2>3, ThreadsAre DEF Undisturbed, At
    <3>3. Undisturbed(v)
        BY <1>2, <3>2 DEF Undisturbed, Sound, Rest, FailsInactive
    <3>4. InDriver(v) /\ call'[v] = call[v] /\ call[v] \in Places
        BY <1>2, <1>4, <3>1, <3>2 DEF SensorInv, PluginInv, CallTyped
    <3> QED
        BY <2>1, <3>3, <3>4 DEF Sound, Rely
  <2> QED
      BY <2>2, <2>3, ThreadsAre DEF Rely
<1>6. t = "rt"
    BY <1>1, <1>2, PlaceInDriver
       DEF Sound, Rest, At, PulseSteps, UploadSteps
<1>7. Rest'
  <2>1. /\ call'["rt"] = "threw" /\ call'["lc"] = call["lc"] /\ call'["ex"] = call["ex"]
        /\ call'["wk"] = call["wk"]
      BY <1>4, <1>6, ThreadsAre
  <2>2. (Methods /\ Masterless /\ InitEnds)'
      BY <1>3, <2>1 DEF Sound, Rest, Methods, Masterless, InitEnds, Results
  <2>3. FailsInactive'
      BY <1>3, <1>4, <2>1, ThreadsAre, PlacesAre
         DEF Sound, Rest, FailsInactive, InDriver, At, Results
  <2>4. Settled' /\ Running'
      BY <1>2, <1>3 DEF Sound, Rest, Settled, Between, Running, Activated
  <2> QED
      BY <2>2, <2>3, <2>4 DEF Rest
<1> QED
    BY <1>5, <1>7 DEF Sound

\* When no lifecycle callback is in it, the driver knows its session.
LEMMA ConsistentOutside ==
    ASSUME SensorInv, Sound, pc["lc"] \notin CallPoints
    PROVE  Consistent
<1>1. ~InDriver("lc")
    BY ThreadsAre, PlacesAre
       DEF InDriver, SensorInv, PluginInv, Control, CallsAtCallPoints, Results
<1>2. CASE \A t \in Callers : ~InDriver(t)
    BY <1>2 DEF Sound, Rely, Known, Shape, SteadyPlaces
<1>3. ASSUME NEW t \in Callers, InDriver(t) PROVE Consistent
  <2>1. Undisturbed(t)
      BY <1>1, <1>3, TwoInDriver DEF OneInDriver, Undisturbed
  <2>2. call[t] \in ReadSteps \cup PulseSteps \cup UploadSteps
      BY <1>1, <1>3, PlaceInDriver DEF Sound, Rest
  <2> QED
      BY <1>3, <2>1, <2>2
         DEF Sound, Rely, Known, Shape, SteadyPlaces, LiveSteps, UploadsLeft, ReadSteps,
             PulseSteps,
             UploadSteps
<1> QED
    BY <1>2, <1>3

\* A step of the plugin calls a method of the driver, leaves one that has ended, or
\* leaves the driver alone.
LEMMA PluginCalls ==
    ASSUME SensorInv, Masterless, PluginStep, ~ConfigureDone
    PROVE  \/ UNCHANGED call
           \/ \E t \in Callers, place \in {"none", "request", "stop", "pulse", "read", "upload"} :
                /\ call[t] \in Results
                /\ place = "request" => ~master
                /\ call' = [call EXCEPT ![t] = place]
<1> USE ThreadsAre DEF Enter, Leave, LeaveAndEnter, Move, Results, driverVars
<1>1. CASE LcConfigure
    BY <1>1
       DEF LcConfigure, Configure, ConfigureLock, ConfigureOldGone, ConfigureDone,
           ConfigureReturn
<1>2. CASE LcActivate
    BY <1>2
       DEF LcActivate, Activate, ActivateLock, ActivateClear, ActivateSet, ActivateDone,
           ActivateReturn, ActivateThrew, ActivateShutdown, ActivateFailed, Masterless
<1>3. CASE LcDeactivate
    BY <1>3 DEF LcDeactivate, Deactivate, DeactivateLock, DeactivateDone, DeactivateReturn
<1>4. CASE LcEnd
    BY <1>4 DEF LcEnd, Cleanup, Shutdown, Destroy, DestroyJoined, DestroyDone
<1>5. CASE RtRead
    BY <1>5 DEF RtRead, Read, ReadLock, ReadDone, ReadThrew, ReadFailed
<1>6. CASE ExBias
    BY <1>6 DEF ExBias, Bias, BiasLock, BiasRefused, BiasStart, BiasDone
<1>7. CASE WkAttempt
    BY <1>7
       DEF WkAttempt, TryLock, TryLockBusy, WorkerNotReady, WorkerStart, WorkerDone, Deliver
<1>8. CASE Tick
    BY <1>8 DEF Tick
<1> QED
    BY <1>1, <1>2, <1>3, <1>4, <1>5, <1>6, <1>7, <1>8 DEF PluginStep

\* Whatever the plugin does, the driver's steps rely on what they did.
LEMMA PluginRelies ==
    ASSUME SensorInv, Sound, PluginStep
    PROVE  Rely'
<1>1. CASE ConfigureDone
  <2>1. /\ pc["lc"] = "cfgNew" /\ UNCHANGED <<call, session, fault>>
        /\ ~master' /\ ~pd' /\ ~active' /\ check'
      BY <1>1 DEF ConfigureDone, Move, bus
  <2>2. \A t \in Callers : ~InDriver(t)
    <3> SUFFICES ASSUME NEW t \in Callers, InDriver(t) PROVE FALSE
        OBVIOUS
    <3>1. pc[t] \in CallPoints
        BY PlacesAre DEF InDriver, SensorInv, PluginInv, Control, CallsAtCallPoints, Results
    <3>2. mutex = "lc" /\ t # "lc"
        BY <2>1, <3>1, ThreadsAre
           DEF CallPoints, LockedPoints, SensorInv, PluginInv, Control, LockHeld
    <3>3. pc[t] \in LockedPoints
        BY <3>1, <3>2, ThreadsAre
           DEF SensorInv, PluginInv, Control, PcTyped, RtPoints, ExPoints, WkPoints, Outcomes,
               CallPoints, LockedPoints
    <3> QED
        BY <3>2, <3>3 DEF SensorInv, PluginInv, Control, LockHeld
  <2>3. session = "released"
      BY <2>1, <2>2 DEF Sound, Rest, Masterless, Rely, Known, Shape, SteadyPlaces, Consistent
  <2>4. Known("none")'
      BY <2>1, <2>3
         DEF Known, Shape, ShapeOfInit, ShapeOfStop, ShapeOfRead, SteadyPlaces, LiveSteps,
             UploadsLeft, Consistent, Frames, QuietSteps, FramelessSteps
  <2> QED
      BY <2>1, <2>2, <2>4 DEF Rely, Sound, InDriver
<1>2. CASE ~ConfigureDone
  <2>1. UNCHANGED driverData
      BY <1>2, PluginStepLeaves
  <2>2. CASE UNCHANGED call
      BY <2>1, <2>2, RelyRests DEF Sound, Rest, SensorInv, PluginInv
  <2>3. ASSUME NEW t \in Callers, NEW place \in {"none", "request", "stop", "pulse", "read", "upload"},
               call[t] \in Results, place = "request" => ~master,
               call' = [call EXCEPT ![t] = place]
        PROVE  Rely'
    <3>1. ~InDriver(t)
        BY <2>3, PlacesAre DEF InDriver
    <3>2. place \in Results \cup {"request", "stop", "pulse", "read", "upload"}
        BY DEF Results
    <3> QED
        BY <2>1, <2>3, <3>1, <3>2, RelyStays DEF Sound, Rest, SensorInv, PluginInv
  <2> QED
      BY <1>2, <2>2, <2>3, PluginCalls DEF Sound, Rest
<1> QED
    BY <1>1, <1>2

\* The lifecycle callback that holds the lock is alone in the driver.
LEMMA HolderAlone ==
    ASSUME SensorInv, pc["lc"] \in LockedPoints
    PROVE  /\ \A t \in Callers \ {"lc"} : call[t] = "none"
           /\ pc["ex"] # "pulsing"
<1>0. pc["ex"] # "pulsing"
    BY ThreadsAre DEF SensorInv, PluginInv, Control, LockHeld, LockedPoints
<1> SUFFICES ASSUME NEW t \in Callers \ {"lc"}, call[t] # "none" PROVE FALSE
    BY <1>0
<1>1. pc[t] \in CallPoints
    BY DEF SensorInv, PluginInv, Control, CallsAtCallPoints
<1>2. pc[t] \in LockedPoints
    BY <1>1, ThreadsAre
       DEF SensorInv, PluginInv, Control, PcTyped, RtPoints, ExPoints, WkPoints, Outcomes,
           CallPoints, LockedPoints
<1> QED
    BY <1>2, ThreadsAre DEF SensorInv, PluginInv, Control, LockHeld

\* on_configure.
LEMMA LcConfigureRests ==
    ASSUME SensorInv, Rest, LcConfigure
    PROVE  Rest'
<1> USE ThreadsAre
    DEF Rest, Methods, Masterless, InitEnds, FailsInactive, Settled, Running, Activated,
        Between,
        StopPoints, ActivatePoints, CallTyped, InDriver, At, Steps, InitSteps, StopSteps,
        PulseSteps, ReadSteps, UploadSteps, Results, Errored, Is, LcMay, Move, Lock, Unlock,
        Enter,
        Leave, LeaveAndEnter, driverVars, driverData, pointers, bus, pluginVars
<1>0. PcTyped /\ CallTyped
    BY DEF SensorInv, PluginInv, Control
<1>1. CASE Configure
    BY <1>0, <1>1 DEF Configure, PcTyped
<1>2. CASE ConfigureLock
    BY <1>0, <1>2 DEF ConfigureLock, PcTyped
<1>3. CASE ConfigureOldGone
    BY <1>0, <1>3 DEF ConfigureOldGone, PcTyped
<1>4. CASE ConfigureDone
    BY <1>0, <1>4, HolderAlone DEF ConfigureDone, PcTyped, LockedPoints
<1>5. CASE ConfigureReturn
    BY <1>0, <1>5 DEF ConfigureReturn, PcTyped
<1> QED
    BY <1>1, <1>2, <1>3, <1>4, <1>5 DEF LcConfigure

\* on_activate.
LEMMA LcActivateRests ==
    ASSUME SensorInv, Rest, LcActivate
    PROVE  Rest'
<1> USE ThreadsAre
    DEF Rest, Methods, Masterless, InitEnds, FailsInactive, Settled, Running, Activated,
        Between,
        StopPoints, ActivatePoints, CallTyped, InDriver, At, Steps, InitSteps, StopSteps,
        PulseSteps, ReadSteps, UploadSteps, Results, Errored, Is, LcMay, Move, Lock, Unlock,
        Enter,
        Leave, LeaveAndEnter, driverVars, driverData, pointers, bus, pluginVars
<1>0. PcTyped /\ CallTyped
    BY DEF SensorInv, PluginInv, Control
<1>1. CASE Activate
    BY <1>0, <1>1 DEF Activate, PcTyped
<1>2. CASE ActivateLock
    BY <1>0, <1>2 DEF ActivateLock, PcTyped
<1>3. CASE ActivateClear
    BY <1>0, <1>3 DEF ActivateClear, PcTyped
<1>4. CASE ActivateSet
    BY <1>0, <1>4 DEF ActivateSet, PcTyped
<1>5. CASE ActivateDone
    BY <1>0, <1>5, HolderAlone DEF ActivateDone, PcTyped, LockedPoints
<1>6. CASE ActivateThrew
    BY <1>0, <1>6, HolderAlone DEF ActivateThrew, PcTyped, LockedPoints
<1>7. CASE ActivateShutdown
    BY <1>0, <1>7 DEF ActivateShutdown, PcTyped
<1>8. CASE ActivateFailed
    BY <1>0, <1>8 DEF ActivateFailed, PcTyped
<1>9. CASE ActivateReturn
    BY <1>0, <1>9 DEF ActivateReturn, PcTyped
<1> QED
    BY <1>1, <1>2, <1>3, <1>4, <1>5, <1>6, <1>7, <1>8, <1>9 DEF LcActivate

\* on_deactivate.
LEMMA LcDeactivateRests ==
    ASSUME SensorInv, Rest, LcDeactivate
    PROVE  Rest'
<1> USE ThreadsAre
    DEF Rest, Methods, Masterless, InitEnds, FailsInactive, Settled, Running, Activated,
        Between,
        StopPoints, ActivatePoints, CallTyped, InDriver, At, Steps, InitSteps, StopSteps,
        PulseSteps, ReadSteps, UploadSteps, Results, Errored, Is, LcMay, Move, Lock, Unlock,
        Enter,
        Leave, LeaveAndEnter, driverVars, driverData, pointers, bus, pluginVars
<1>0. PcTyped /\ CallTyped
    BY DEF SensorInv, PluginInv, Control
<1>1. CASE Deactivate
    BY <1>0, <1>1 DEF Deactivate, PcTyped
<1>2. CASE DeactivateLock
    BY <1>0, <1>2 DEF DeactivateLock, PcTyped
<1>3. CASE DeactivateDone
    BY <1>0, <1>3, HolderAlone DEF DeactivateDone, PcTyped, LockedPoints
<1>4. CASE DeactivateReturn
    BY <1>0, <1>4 DEF DeactivateReturn, PcTyped
<1> QED
    BY <1>1, <1>2, <1>3, <1>4 DEF LcDeactivate

\* The transitions without a callback, and the destructor.
LEMMA LcEndRests ==
    ASSUME SensorInv, Rest, LcEnd
    PROVE  Rest'
<1> USE ThreadsAre
    DEF Rest, Methods, Masterless, InitEnds, FailsInactive, Settled, Running, Activated,
        Between,
        StopPoints, ActivatePoints, CallTyped, InDriver, At, Steps, InitSteps, StopSteps,
        PulseSteps, ReadSteps, UploadSteps, Results, Errored, Is, LcMay, Move, Lock, Unlock,
        Enter,
        Leave, LeaveAndEnter, driverVars, driverData, pointers, bus, pluginVars
<1>0. PcTyped /\ CallTyped
    BY DEF SensorInv, PluginInv, Control
<1>1. CASE Cleanup
    BY <1>0, <1>1 DEF Cleanup, PcTyped
<1>2. CASE Shutdown
    BY <1>0, <1>2 DEF Shutdown, PcTyped
<1>3. CASE Destroy
    BY <1>0, <1>3 DEF Destroy, PcTyped
<1>4. CASE DestroyJoined
    BY <1>0, <1>4 DEF DestroyJoined, PcTyped
<1>5. CASE DestroyDone
    BY <1>0, <1>5 DEF DestroyDone, PcTyped
<1> QED
    BY <1>1, <1>2, <1>3, <1>4, <1>5 DEF LcEnd

\* read().
LEMMA RtReadRests ==
    ASSUME SensorInv, Rest, RtRead
    PROVE  Rest'
<1> USE ThreadsAre
    DEF Rest, Methods, Masterless, InitEnds, FailsInactive, Settled, Running, Activated,
        Between,
        StopPoints, ActivatePoints, CallTyped, InDriver, At, Steps, InitSteps, StopSteps,
        PulseSteps, ReadSteps, UploadSteps, Results, Errored, Is, LcMay, Move, Lock, Unlock,
        Enter,
        Leave, LeaveAndEnter, driverVars, driverData, pointers, bus, pluginVars
<1>0. PcTyped /\ CallTyped
    BY DEF SensorInv, PluginInv, Control
<1>1. CASE Read
    BY <1>0, <1>1 DEF Read, PcTyped
<1>2. CASE ReadLock
    BY <1>0, <1>2 DEF ReadLock, PcTyped
<1>3. CASE ReadDone
    BY <1>0, <1>3 DEF ReadDone, PcTyped
<1>4. CASE ReadThrew
    BY <1>0, <1>4 DEF ReadThrew, PcTyped
<1>5. CASE ReadFailed
    BY <1>0, <1>5 DEF ReadFailed, PcTyped
<1> QED
    BY <1>1, <1>2, <1>3, <1>4, <1>5 DEF RtRead

\* A bias service.
LEMMA ExBiasRests ==
    ASSUME SensorInv, Rest, ReadCalibration \/ Sound, ExBias
    PROVE  Rest'
<1> USE ThreadsAre
    DEF Rest, Methods, Masterless, InitEnds, FailsInactive, Settled, Running, Activated,
        Between,
        StopPoints, ActivatePoints, CallTyped, InDriver, At, Steps, InitSteps, StopSteps,
        PulseSteps, ReadSteps, UploadSteps, Results, Errored, Is, LcMay, Move, Lock, Unlock,
        Enter,
        Leave, LeaveAndEnter, driverVars, driverData, pointers, bus, pluginVars
<1>0. PcTyped /\ CallTyped /\ Rest
    BY DEF SensorInv, PluginInv, Control
<1>1. CASE Bias
    BY <1>0, <1>1 DEF Bias, PcTyped
<1>2. CASE BiasLock
    BY <1>0, <1>2 DEF BiasLock, PcTyped
<1>3. CASE BiasRefused
    BY <1>0, <1>3 DEF BiasRefused, PcTyped
<1>4. CASE BiasStart
  <2>1. ASSUME ~ReadCalibration, ~ShutdownWhileActive PROVE Activated
    <3>1. pc["ex"] = "bias" /\ active
        BY <1>4 DEF BiasStart, IsActive
    <3>2. pc["lc"] \notin LockedPoints
        BY <3>1 DEF SensorInv, PluginInv, Control, LockHeld, LockedPoints
    <3>3. pc["lc"] \notin {"join", "destroy", "gone", "actFailed", "actStop"}
        BY <1>0, <2>1, <3>1 DEF SensorInv, PluginInv, Control, Ending
    <3>4. pc["lc"] \in Between
        BY <1>0, <3>2, <3>3 DEF PcTyped, LcPoints, LockedPoints
    <3>5. Consistent
        BY <2>1, <3>4, ConsistentOutside DEF CallPoints
    <3>6. master
        BY <3>1, <3>5 DEF Consistent
    <3> QED
        BY <1>0, <2>1, <3>4, <3>6 DEF SensorInv, PluginInv, PluginTyped
  <2>2. Running'
    <3>1. hw' = hw /\ pc'["lc"] = pc["lc"]
        BY <1>0, <1>4 DEF BiasStart, PcTyped
    <3> QED
        BY <1>0, <2>1, <3>1
  <2>3. (Methods /\ Masterless /\ InitEnds /\ FailsInactive /\ Settled)'
      BY <1>0, <1>4 DEF BiasStart, PcTyped, IsActive
  <2> QED
      BY <2>2, <2>3
<1>5. CASE BiasDone
    BY <1>0, <1>5 DEF BiasDone, PcTyped
<1> QED
    BY <1>1, <1>2, <1>3, <1>4, <1>5 DEF ExBias

\* A worker.
LEMMA WkAttemptRests ==
    ASSUME SensorInv, Rest, WkAttempt
    PROVE  Rest'
<1> USE ThreadsAre
    DEF Rest, Methods, Masterless, InitEnds, FailsInactive, Settled, Running, Activated,
        Between,
        StopPoints, ActivatePoints, CallTyped, InDriver, At, Steps, InitSteps, StopSteps,
        PulseSteps, ReadSteps, UploadSteps, Results, Errored, Is, LcMay, Move, Lock, Unlock,
        Enter,
        Leave, LeaveAndEnter, driverVars, driverData, pointers, bus, pluginVars
<1>0. PcTyped /\ CallTyped
    BY DEF SensorInv, PluginInv, Control
<1>1. CASE TryLock
    BY <1>0, <1>1 DEF TryLock, PcTyped
<1>2. CASE TryLockBusy
    BY <1>0, <1>2 DEF TryLockBusy, PcTyped
<1>3. CASE WorkerNotReady
    BY <1>0, <1>3 DEF WorkerNotReady, PcTyped
<1>4. CASE WorkerStart
    BY <1>0, <1>4 DEF WorkerStart, PcTyped, IsActive
<1>5. CASE WorkerDone
    BY <1>0, <1>5 DEF WorkerDone, PcTyped
<1>6. CASE Deliver
    BY <1>0, <1>6 DEF Deliver, PcTyped
<1> QED
    BY <1>1, <1>2, <1>3, <1>4, <1>5, <1>6 DEF WkAttempt

\* The diagnostics timer, and so every step of the plugin.
LEMMA PluginRests ==
    ASSUME SensorInv, Rest, ReadCalibration \/ Sound, PluginStep
    PROVE  Rest'
<1>1. CASE Tick
  <2>1. /\ UNCHANGED <<driverVars, hw, configured>>
        /\ pc'["lc"] = pc["lc"] /\ pc'["ex"] = pc["ex"]
    <3>1. UNCHANGED <<driverVars, hw, configured>>
        BY <1>1 DEF Tick
    <3>2. pc' = pc \/ pc' = [pc EXCEPT !["wk"] = "try"]
        BY <1>1, Zenon DEF Tick, Move
    <3> QED
        BY <3>1, <3>2, ThreadsAre DEF SensorInv, PluginInv, Control, PcTyped
  <2> QED
      BY <2>1
         DEF Rest, Methods, Masterless, InitEnds, FailsInactive, Settled, Running, Activated,
                  driverVars, pointers, bus, InDriver, At
<1> QED
    BY <1>1, LcConfigureRests, LcActivateRests, LcDeactivateRests, LcEndRests, RtReadRests,
       ExBiasRests, WkAttemptRests DEF PluginStep

\* The two together.  After the race of a driver that reads its calibration, nothing
\* is said.
SoundInv == SensorInv /\ ((raced /\ ReadCalibration) \/ Sound)

\* The plugin before on_configure.
LEMMA SoundInit == ASSUME Init PROVE SoundInv
<1> USE ThreadsAre DEF Init, DriverInit, Fresh
<1>1. Rest
    BY
       DEF Rest, Methods, Masterless, InitEnds, FailsInactive, Settled, Running, Activated,
           StopPoints,
           ActivatePoints, Between, Results
<1>2. Rely
    BY PlacesAre
       DEF Rely, InDriver, Results, Known, Shape, ShapeOfInit, ShapeOfStop, ShapeOfRead,
           SteadyPlaces, LiveSteps, UploadsLeft, Consistent, Frames, QuietSteps, FramelessSteps
<1> QED
    BY <1>1, <1>2, SensorInit DEF SoundInv, Sound

\* Any step.
LEMMA SoundNext == ASSUME SoundInv, [Next]_vars PROVE SoundInv'
<1>1. SensorInv'
    BY NextKeeps DEF SoundInv
<1>2. raced => raced'
  <2>1. PluginStep => UNCHANGED raced
      BY PluginStepData DEF SoundInv
  <2>2. ASSUME NEW t \in Callers, InsideDriver(t) PROVE raced => raced'
      BY <2>2 DEF InsideDriver
  <2>3. Over \/ UNCHANGED vars => UNCHANGED raced
      BY DEF Over, vars
  <2> QED
      BY <2>1, <2>2, <2>3 DEF Next, PluginStep
<1>3. ASSUME Sound, ~(raced' /\ ReadCalibration) PROVE Sound'
  <2>1. CASE PluginStep
      BY <1>3, <2>1, PluginRests, PluginRelies DEF SoundInv, Sound
  <2>2. ASSUME NEW t \in Callers, InsideDriver(t) PROVE Sound'
      BY <1>3, <2>2, UndisturbedStep, DisturbedStep DEF SoundInv
  <2>3. CASE Over \/ UNCHANGED vars
    <3>1. UNCHANGED vars
        BY <2>3 DEF Over
    <3>2. Rely'
        BY <1>3, <3>1, RelyRests DEF SoundInv, SensorInv, PluginInv, Sound, vars, driverVars,
                                     driverData
    <3>3. Rest'
        BY <1>3, <3>1 DEF Sound, Rest, Methods, Masterless, InitEnds, FailsInactive, Settled,
                          Running, Activated, vars, driverVars, pointers, bus, pluginVars,
                          InDriver, At
    <3> QED
        BY <3>2, <3>3 DEF Sound, Rest
  <2> QED
      BY <2>1, <2>2, <2>3 DEF Next, PluginStep
<1> QED
    BY <1>1, <1>2, <1>3 DEF SoundInv

LEMMA SoundInvariant == Spec => []SoundInv
BY SoundInit, SoundNext, PTL DEF Spec

\* A released master or a dead process image is used only after the shutdown
\* without the lock met another thread, and only with read_calibration_sdo: for
\* every interleaving and every failure of the library.
THEOREM FaultNeedsRace == Spec => []FaultOnlyByRace
<1>1. SoundInv => FaultOnlyByRace
    BY DEF SoundInv, Sound, Rely, FaultOnlyByRace
<1> QED
    BY <1>1, SoundInvariant, PTL

----------------------------------------------------------------------------
(* The lifecycle after the race.  What init and shutdown are about is changed *)
(* by the lifecycle's thread alone: it may rely on the shape of the driver    *)
(* whatever the other threads do, and however the race with a calibration     *)
(* upload ends.                                                               *)

Life == Rest /\ Shape(call["lc"])

\* The lifecycle's thread is never in a read or an upload.
LEMMA LifePlace ==
    ASSUME SensorInv, Methods
    PROVE  call["lc"] \in Results \cup InitSteps \cup StopSteps \cup PulseSteps
<1>1. CASE InDriver("lc")
    BY <1>1, ThreadsAre, PlaceInDriver
<1>2. CASE ~InDriver("lc")
    BY <1>2, ThreadsAre DEF InDriver, SensorInv, PluginInv, CallTyped, Places
<1> QED
    BY <1>1, <1>2

\* What is known at those places is about the data that another thread leaves.
LEMMA LifeStays ==
    ASSUME SensorInv, Life, call'["lc"] = call["lc"], UNCHANGED lifeData,
           (active /\ ~check => seen = "now") => (active /\ ~check => seen = "now")'
    PROVE  Shape(call["lc"])'
<1>1. call["lc"] \notin {"receive", "state", "sample"}
    BY LifePlace DEF Life, Rest, Results, InitSteps, StopSteps, PulseSteps
<1>2. active /\ ~check => seen = "now"
    BY DEF Life, Shape, ShapeOfRead
<1> QED
    BY <1>1, <1>2
       DEF Life, Shape, ShapeOfInit, ShapeOfStop, ShapeOfRead, Consistent, lifeData, pointers

\* The driver knows its session where no lifecycle callback is in it.
LEMMA LifeConsistent ==
    ASSUME SensorInv, Life, pc["lc"] \notin CallPoints
    PROVE  Consistent
<1>1. call["lc"] = "none"
    BY ThreadsAre DEF SensorInv, PluginInv, Control, CallsAtCallPoints
<1> QED
    BY <1>1 DEF Life, Shape, SteadyPlaces

\* A step inside the driver, of a thread that may be disturbed.
LEMMA LifeInside ==
    ASSUME SensorInv, Life, ReadCalibration, NEW t \in Callers, InsideDriver(t)
    PROVE  Life'
<1>1. DriverTypeOK /\ DriverStep(t)
    BY TypeSplit DEF SensorInv, PluginInv, CallTyped, InsideDriver
<1>2. Local(t) /\ InDriver(t)
    BY <1>1, DriverStepTyped DEF Local, InDriver
<1>3. CASE t = "lc"
    BY <1>1, <1>3, LcStepRests, DriverStepKeeps DEF Life
<1>4. CASE t # "lc"
  <2>1. \/ t = "rt" /\ call[t] \in ReadSteps /\ ReadStep(t)
        \/ t = "ex" /\ call[t] \in PulseSteps /\ PulseStep(t)
        \/ t = "wk" /\ call[t] \in UploadSteps /\ UploadStep(t)
      BY <1>1, <1>2, <1>4, PlaceInDriver, MethodIs DEF Life, Rest
  <2>2. /\ UNCHANGED lifeData
        /\ (active /\ ~check => seen = "now") => (active /\ ~check => seen = "now")'
    <3>1. CASE ReadStep(t)
        BY <1>1, <3>1, ReadLeaves
    <3>2. CASE PulseStep(t)
        BY <1>1, <3>2, PulseLeaves DEF lifeData
    <3>3. CASE UploadStep(t)
        BY <1>1, <3>3, UploadLeaves DEF lifeData
    <3> QED
        BY <2>1, <3>1, <3>2, <3>3
  <2>3. \A u \in Callers \ {t} : call'[u] = call[u]
      BY <1>2 DEF Local
  <2>4. UNCHANGED <<pc, hw, configured, master, active, scales>>
      BY <2>2 DEF InsideDriver, pluginVars, lifeData, pointers
  <2>5. Methods'
    <3>1. CASE t = "rt" /\ ReadStep(t)
        BY <1>1, <2>3, <2>4, <3>1, ReadLeaves, ThreadsAre DEF Life, Rest, Methods, Results
    <3>2. CASE t = "ex" /\ PulseStep(t)
        BY <1>1, <2>3, <2>4, <3>2, PulseLeaves, ThreadsAre DEF Life, Rest, Methods, Results
    <3>3. CASE t = "wk" /\ UploadStep(t)
        BY <1>1, <2>3, <2>4, <3>3, UploadLeaves, ThreadsAre DEF Life, Rest, Methods, Results
    <3> QED
        BY <2>1, <3>1, <3>2, <3>3
  <2>6. (Masterless /\ InitEnds /\ FailsInactive /\ Running)'
      BY <1>4, <2>3, <2>4, ThreadsAre
         DEF Life, Rest, Masterless, InitEnds, FailsInactive, Running, Activated, InsideDriver,
             pluginVars
  <2>7. Settled'
    <3>1. pc["lc"] \in Between => Consistent
        BY LifeConsistent DEF Between, CallPoints
    <3>2. pc["lc"] \in Between /\ call'["rt"] = "threw" => ~master
      <4>1. CASE t # "rt"
          BY <2>3, <4>1, ThreadsAre DEF Life, Rest, Settled
      <4>2. CASE t = "rt"
          BY <1>1, <2>1, <3>1, <4>2, ReadLeaves
             DEF Life, Rest, Settled, Consistent, IsActive
      <4> QED
          BY <4>1, <4>2
    <3> QED
        BY <2>4, <3>2 DEF Life, Rest, Settled, Activated
  <2>8. Shape(call["lc"])'
    <3>1. call'["lc"] = call["lc"]
        BY <1>4, <2>3, ThreadsAre
    <3> QED
        BY <2>2, <3>1, LifeStays
  <2> QED
      BY <2>5, <2>6, <2>7, <2>8 DEF Life, Rest
<1> QED
    BY <1>3, <1>4

\* A method is called by the lifecycle's thread, or left, on a driver whose data stay.
LEMMA LifeCalls ==
    ASSUME SensorInv, Life, PluginStep, ~ConfigureDone
    PROVE  Shape(call["lc"])'
<1>1. UNCHANGED driverData
    BY PluginStepLeaves
<1>2. \A place \in Places : Shape(place)' <=> Shape(place)
    BY <1>1 DEF driverData, pointers, bus, Shape, ShapeOfInit, ShapeOfStop, ShapeOfRead,
                Consistent
<1>3. call["lc"] \in Places
    BY ThreadsAre DEF SensorInv, PluginInv, CallTyped
<1>4. CASE call'["lc"] = call["lc"]
    BY <1>2, <1>3, <1>4 DEF Life
<1>5. ASSUME call["lc"] \in Results,
             NEW place \in {"none", "request", "stop", "pulse", "read", "upload"},
             place = "request" => ~master, call'["lc"] = place
      PROVE  Shape(call["lc"])'
  <2>1. place \in Places
      BY PlacesAre DEF Places, Steps, InitSteps, StopSteps, PulseSteps, ReadSteps, UploadSteps,
                       Results
  <2>2. Shape(place)
      BY <1>5 DEF Life, Shape, ShapeOfInit, ShapeOfStop, ShapeOfRead, SteadyPlaces, LiveSteps,
                  UploadsLeft, Results
  <2> QED
      BY <1>2, <1>5, <2>1, <2>2
<1>6. \/ UNCHANGED call
      \/ \E t \in Callers, place \in {"none", "request", "stop", "pulse", "read", "upload"} :
           /\ call[t] \in Results
           /\ place = "request" => ~master
           /\ call' = [call EXCEPT ![t] = place]
    BY PluginCalls DEF Life, Rest
<1>7. ASSUME NEW t \in Callers,
             NEW place \in {"none", "request", "stop", "pulse", "read", "upload"},
             call[t] \in Results, place = "request" => ~master,
             call' = [call EXCEPT ![t] = place]
      PROVE  Shape(call["lc"])'
  <2>1. call'["lc"] = IF t = "lc" THEN place ELSE call["lc"]
      BY <1>7, ThreadsAre DEF SensorInv, PluginInv, CallTyped
  <2> QED
      BY <1>4, <1>5, <1>7, <2>1
<1> QED
    BY <1>4, <1>6, <1>7

\* A step of the plugin.
LEMMA LifePlugin ==
    ASSUME SensorInv, Life, ReadCalibration, PluginStep
    PROVE  Life'
<1>1. Rest'
    BY PluginRests DEF Life
<1>2. CASE ConfigureDone
  <2>1. /\ pc["lc"] = "cfgNew" /\ UNCHANGED <<call, session>>
        /\ ~master' /\ ~pd' /\ ~active' /\ check'
      BY <1>2 DEF ConfigureDone, Move, bus
  <2>2. call["lc"] = "none" /\ Consistent
      BY <2>1, ThreadsAre, LifeConsistent
         DEF SensorInv, PluginInv, Control, CallsAtCallPoints, CallPoints
  <2>3. session = "released"
      BY <2>1, <2>2 DEF Life, Rest, Masterless, Consistent
  <2> QED
      BY <1>1, <2>1, <2>2, <2>3
         DEF Life, Shape, ShapeOfInit, ShapeOfStop, ShapeOfRead, SteadyPlaces, LiveSteps,
             UploadsLeft, Consistent
<1> QED
    BY <1>1, <1>2, LifeCalls DEF Life

\* Any step.
LEMMA LifeNext ==
    ASSUME SensorInv, Life, ReadCalibration, [Next]_vars
    PROVE  Life'
<1>1. CASE Over \/ UNCHANGED vars
  <2>1. UNCHANGED vars
      BY <1>1 DEF Over
  <2>2. Rest'
      BY <2>1
         DEF Life, Rest, Methods, Masterless, InitEnds, FailsInactive, Settled, Running,
             Activated,
                  vars, driverVars, pointers, bus, pluginVars, InDriver, At
  <2>3. Shape(call["lc"])'
      BY <2>1 DEF Life, Shape, ShapeOfInit, ShapeOfStop, ShapeOfRead, Consistent,
                  vars, driverVars, pointers, bus
  <2> QED
      BY <2>2, <2>3 DEF Life
<1>2. CASE PluginStep
    BY <1>2, LifePlugin
<1>3. ASSUME NEW t \in Callers, InsideDriver(t) PROVE Life'
    BY <1>3, LifeInside
<1> QED
    BY <1>1, <1>2, <1>3 DEF Next, PluginStep

\* The plugin before on_configure.
LEMMA LifeInit == ASSUME Init PROVE Life
<1>1. Rest
    BY ThreadsAre
       DEF Init, DriverInit, Fresh, Rest, Methods, Masterless, InitEnds, FailsInactive,
           Settled, Running, Activated, StopPoints, ActivatePoints, Between, Results
<1>2. Shape(call["lc"])
    BY ThreadsAre
       DEF Init, DriverInit, Fresh, Shape, ShapeOfInit, ShapeOfStop, ShapeOfRead,
           SteadyPlaces, LiveSteps, UploadsLeft, Consistent
<1> QED
    BY <1>1, <1>2 DEF Life

\* Whatever the threads do to each other, the lifecycle knows its driver.
LEMMA LifeInvariant == ASSUME ReadCalibration PROVE Spec => [](SensorInv /\ Life)
<1>1. Init => SensorInv /\ Life
    BY SensorInit, LifeInit
<1>2. SensorInv /\ Life /\ [Next]_vars => (SensorInv /\ Life)'
    BY NextKeeps, LifeNext
<1> QED
    BY <1>1, <1>2, PTL DEF Spec

\* A driver that knows its session where no callback is in it has a master exactly
\* when the hardware is active.
LEMMA GivenBack ==
    ASSUME SensorInv, Rest, pc["lc"] \notin CallPoints => Consistent
    PROVE  MasterGivenBack
<1>1. HeldByActive
  <2> SUFFICES ASSUME pc["lc"] = "idle", hw # "finalized"
               PROVE  session = "active" <=> hw = "active"
      BY DEF HeldByActive, Is
  <2>1. Consistent
      BY DEF CallPoints
  <2>2. hw = "active" => active
      BY DEF Rest, Settled, Activated, Between
  <2>3. hw # "active" => ~master
      BY DEF Rest, Settled, Activated, Between, SensorInv, PluginInv, PluginTyped
  <2> QED
      BY <2>1, <2>2, <2>3 DEF Consistent
<1>2. GoneReleased
  <2> SUFFICES ASSUME pc["lc"] = "gone" PROVE session = "released" /\ pc["wk"] = "idle"
      BY DEF GoneReleased, Is
  <2>1. Consistent
      BY DEF CallPoints
  <2>2. ~master /\ pc["wk"] = "idle"
      BY DEF Rest, Masterless, SensorInv, PluginInv, Control, Ending
  <2> QED
      BY <2>1, <2>2 DEF Consistent
<1> QED
    BY <1>1, <1>2 DEF MasterGivenBack

\* Between two callbacks the master is held exactly by an active hardware, and a
\* plugin that is gone holds none: in every interleaving, and also after the shutdown
\* without the lock has met another thread and left it with a dead driver.
THEOREM MasterIsGivenBack == Spec => []MasterGivenBack
<1>1. CASE ReadCalibration
  <2>1. SensorInv /\ Life => MasterGivenBack
      BY GivenBack, LifeConsistent DEF Life
  <2> QED
      BY <1>1, <2>1, LifeInvariant, PTL
<1>2. CASE ReadCalibration = FALSE
  <2>1. SoundInv => MasterGivenBack
      BY <1>2, GivenBack, ConsistentOutside DEF SoundInv, Sound
  <2> QED
      BY <2>1, SoundInvariant, PTL
<1> QED
    BY <1>1, <1>2, DriverAssumption

----------------------------------------------------------------------------
(* What follows where init uploads no calibration, and at the session. *)

\* Without a calibration upload no released master and no dead process image is ever
\* used, though the shutdown of a failed activation has no lock.
THEOREM DefinedWithoutCalibration ==
    ASSUME ~ReadCalibration PROVE Spec => []NoFault
<1>1. FaultOnlyByRace => NoFault
    BY DEF FaultOnlyByRace, NoFault
<1> QED
    BY <1>1, FaultNeedsRace, PTL

\* And a bias service answers success=true only when the hardware is active, from the
\* end of the locked block of a successful activation on, unless an active hardware
\* may be shut down.
THEOREM BiasNeedsActive ==
    ASSUME ~ReadCalibration, ~ShutdownWhileActive
    PROVE  Spec => BiasRefusedUnlessActive
<1>1. ASSUME SoundInv, [Next]_vars, reply' = "success", reply # "success"
      PROVE  Activated
  <2>1. Running
      BY <1>1 DEF SoundInv, Sound, Rest
  <2>2. BiasDone
      BY <1>1 DEF Next, vars, pluginVars, Over, InsideDriver,
           LcConfigure, Configure, ConfigureLock, ConfigureOldGone, ConfigureDone,
           ConfigureReturn,
           LcActivate, Activate, ActivateLock, ActivateClear, ActivateSet, ActivateDone,
           ActivateReturn,
           ActivateThrew, ActivateShutdown, ActivateFailed,
           LcDeactivate, Deactivate, DeactivateLock, DeactivateDone, DeactivateReturn,
           LcEnd, Cleanup, Shutdown, Destroy, DestroyJoined, DestroyDone,
           RtRead, Read, ReadLock, ReadDone, ReadThrew, ReadFailed,
           ExBias, Bias, BiasLock, BiasRefused, BiasStart, Tick,
           WkAttempt, TryLock, TryLockBusy, WorkerNotReady, WorkerStart, WorkerDone,
           Deliver
  <2> QED
      BY <2>1, <2>2 DEF BiasDone, Move, Running
<1>2. SoundInv /\ [Next]_vars =>
        [reply' = "success" /\ reply # "success" => Activated]_vars
    BY <1>1
<1> QED
    BY <1>2, SoundInvariant, PTL DEF Spec, BiasRefusedUnlessActive

\* Every step of the plugin is one of the session protocol or none of it.
LEMMA SessionKept ==
    ASSUME ~ReadCalibration, ~ReceiveOverwritesOutputs, SoundInv, [Next]_vars
    PROVE  SessionStep
<1>1. SensorInv /\ Sound
    BY DEF SoundInv
<1>2. CASE PluginStep
    BY <1>2, PluginStepLeaves, NoSessionStep DEF ConfigureDone, driverData, bus
<1>3. ASSUME NEW t \in Callers, InsideDriver(t) PROVE SessionStep
  <2>1. DriverTypeOK /\ DriverStep(t)
      BY <1>1, <1>3, TypeSplit DEF SensorInv, PluginInv, CallTyped, InsideDriver
  <2>2. InDriver(t)
      BY <2>1, DriverStepTyped DEF Local, InDriver
  <2>3. CASE Undisturbed(t)
      BY <1>1, <2>1, <2>2, <2>3, KnownStep DEF Sound, Rely
  <2>4. CASE ~Undisturbed(t)
      BY <1>1, <1>3, <2>4, DisturbedIsRefused, NoSessionStep DEF driverData, bus
  <2> QED
      BY <2>3, <2>4
<1>4. CASE Over \/ UNCHANGED vars
    BY <1>4, NoSessionStep DEF Over, vars, driverVars, bus
<1> QED
    BY <1>2, <1>3, <1>4 DEF Next, PluginStep

\* The plugin implements the session protocol, in every interleaving of its threads.
THEOREM PluginImplementsSession ==
    ASSUME ~ReadCalibration, ~ReceiveOverwritesOutputs
    PROVE  Spec => SessionSpec
<1>1. Init => Session!Init
    BY DEF Init, DriverInit, Session!Init
<1>2. SoundInv /\ [Next]_vars => [Session!Next]_(Session!vars)
    BY SessionKept DEF SessionStep, Session!vars
<1> QED
    BY <1>1, <1>2, SoundInvariant, PTL DEF Spec, SessionSpec, Session!Spec

\* While nobody holds the lock of an active hardware, no bias bit and no stop frame
\* stays latched, unless the race with a calibration upload came first.
THEOREM QuietUnlessRaced ==
    ASSUME ~ReceiveOverwritesOutputs
    PROVE  Spec => [](~(raced /\ ReadCalibration) => QuietWhenFree)
<1>1. ASSUME SoundInv, ~(raced /\ ReadCalibration) PROVE QuietWhenFree
  <2> SUFFICES ASSUME mutex = "free", Activated PROVE wire = "word"
      BY DEF QuietWhenFree
  <2>1. SensorInv /\ Sound
      BY <1>1 DEF SoundInv
  <2>2. \A t \in Callers : pc[t] \notin LockedPoints
      BY <2>1, ThreadsAre DEF SensorInv, PluginInv, Control, LockHeld
  <2>3. pc["lc"] \in {"idle", "actReturn", "deactLock"}
      BY <2>1, <2>2, ThreadsAre DEF Sound, Rest, Running, Activated, LockedPoints
  <2>4. \A t \in Callers : ~InDriver(t)
    <3> SUFFICES ASSUME NEW t \in Callers, InDriver(t) PROVE FALSE
        OBVIOUS
    <3>1. pc[t] \in CallPoints \ LockedPoints
        BY <2>1, <2>2, PlacesAre
           DEF InDriver, SensorInv, PluginInv, Control, CallsAtCallPoints, Results
    <3>2. t # "lc"
        BY <2>3, <3>1 DEF CallPoints
    <3> QED
        BY <2>1, <3>1, <3>2, ThreadsAre
           DEF SensorInv, PluginInv, Control, PcTyped, RtPoints, ExPoints, WkPoints, Outcomes,
               CallPoints, LockedPoints
  <2>5. Known("none") /\ active
      BY <2>1, <2>3, <2>4 DEF Sound, Rely, Rest, Settled, Between
  <2> QED
      BY <2>5 DEF Known, Frames, QuietSteps, SteadyPlaces
<1> QED
    BY <1>1, SoundInvariant, PTL

----------------------------------------------------------------------------
(* What read() publishes, where init uploads no calibration. *)

\* The steps of a read that found the driver active, and those that follow the test
\* of its state.
ReadOn == (ReadSteps \ {"read"}) \cup {"returned"}
ReadTested == {"sample", "readWrite", "send", "returned"}

\* The hardware is not active, and was not shut down while it was.
Resting == ~Activated /\ hw # "finalized"

\* Such a read is of a hardware that is active, or was until it was shut down.
Shown ==
    /\ Resting => interfaces = "nan" /\ snapshot = "inactive"
    /\ hw = "finalized" /\ pc["lc"] = "idle" /\ ~master =>
         interfaces = "nan" /\ snapshot = "inactive"
    /\ snapshot \in {"inactive", "now"}
    /\ call["rt"] \in ReadOn => ~Resting /\ master
    /\ call["rt"] \in ReadTested => seen = "now"
    /\ pc["lc"] \notin {"idle", "deactLock", "deactStop", "deactReturn", "join", "destroy",
                      "gone"} =>
         hw \in {"unconfigured", "inactive"}

\* A read has tested the state, or knows that it was tested in this session.
LEMMA ReadFresh ==
    ASSUME DriverTypeOK, NEW t \in Callers, Shape(call[t]), ReadStep(t),
           call[t] \in ReadTested => seen = "now"
    PROVE  call'[t] \in ReadTested => seen' = "now"
<1> USE DEF Shape, ShapeOfRead, Consistent, LiveSteps, ReadTested
<1>1. CASE ReadCheck(t)
  <2>1. call'[t] \in {"receive", "threw"}
      BY <1>1, GotoIs DEF ReadCheck
  <2> QED
      BY <2>1
<1>2. CASE ReadReceive(t)
  <2>1. call[t] = "receive"
      BY <1>2 DEF ReadReceive, At
  <2>2. CycleUsable
      BY <2>1 DEF MasterUsable, CycleUsable, SteadyPlaces, UploadsLeft
  <2>3. (Goto(t, "state") \/ (~check /\ Goto(t, "sample"))) /\ UNCHANGED seen
      BY <1>2, <2>2, Zenon DEF ReadReceive, Using
  <2>4. active /\ ~check => seen = "now"
      BY <2>1
  <2>5. active
      BY <2>1
  <2>6. call'[t] = "state" \/ ~check
      BY <2>3, GotoIs
  <2> QED
      BY <2>3, <2>4, <2>5, <2>6
<1>3. CASE CheckState(t)
  <2>1. call[t] = "state"
      BY <1>3 DEF CheckState, At
  <2>2. CycleUsable /\ config
      BY <2>1 DEF MasterUsable, CycleUsable, SteadyPlaces, UploadsLeft
  <2> QED
      BY <1>3, <2>2 DEF CheckState, Using
<1>4. CASE ReadSample(t) \/ ReadSend(t) \/ WriteControl(t, "readWrite", "word", "send")
  <2>1. call[t] \in {"sample", "readWrite", "send"}
      BY <1>4 DEF ReadSample, ReadSend, WriteControl, At
  <2>2. UNCHANGED seen
      BY <1>4 DEF ReadSample, ReadSend, WriteControl, Using
  <2> QED
      BY <2>1, <2>2
<1> QED
    BY <1>1, <1>2, <1>3, <1>4 DEF ReadStep, ReadWrite

\* A read that goes on met no other thread, and its hardware is active.
LEMMA ReadOfActive ==
    ASSUME SensorInv, Sound, Shown, pc["rt"] = "reading", active, ~ReadCalibration
    PROVE  ~Resting /\ master
<1>1. pc["lc"] \notin LockedPoints
    BY ThreadsAre DEF SensorInv, PluginInv, Control, LockHeld, LockedPoints
<1>2. pc["lc"] \notin {"join", "destroy", "gone", "actFailed", "actStop"}
    BY DEF SensorInv, PluginInv, Control, Ending, Sound, Rest, FailsInactive
<1>3. pc["lc"] \in Between
    BY <1>1, <1>2 DEF SensorInv, PluginInv, Control, PcTyped, LcPoints, LockedPoints, Between
<1>4. Consistent
    BY <1>3, ConsistentOutside DEF Between, CallPoints
<1> QED
    BY <1>3, <1>4 DEF Consistent, Sound, Rest, Settled, Resting

\* A step inside the driver.
LEMMA InsideShows ==
    ASSUME SensorInv, Sound, Shown, NEW t \in Callers, InsideDriver(t), ~ReadCalibration
    PROVE  Shown'
<1>1. DriverTypeOK /\ DriverStep(t)
    BY TypeSplit DEF SensorInv, PluginInv, CallTyped, InsideDriver
<1>2. Local(t) /\ InDriver(t)
    BY <1>1, DriverStepTyped DEF Local, InDriver
<1>3. pc[t] \in CallPoints
    BY <1>2, PlacesAre DEF InDriver, SensorInv, PluginInv, Control, CallsAtCallPoints, Results
<1>4. UNCHANGED <<pc, hw, interfaces, snapshot>> /\ (Resting' <=> Resting)
    BY DEF InsideDriver, pluginVars, Resting, Activated
<1>5. pc["lc"] = "idle" => UNCHANGED master
  <2> SUFFICES ASSUME pc["lc"] = "idle" PROVE UNCHANGED master
      OBVIOUS
  <2>1. t # "lc"
      BY <1>3 DEF CallPoints
  <2>2. Undisturbed(t)
      BY <1>2, TwoInDriver DEF OneInDriver, Undisturbed, Is
  <2>3. Shape(call[t])
      BY <1>2, <2>2 DEF Sound, Rely, Known
  <2> QED
      BY <1>1, <1>2, <2>1, <2>3, PlaceInDriver, MethodIs, ReadStays, PulseStays, UploadStays
         DEF Sound, Rest
<1>6. CASE t = "rt"
  <2>1. CASE Undisturbed(t)
    <3>1. Shape(call[t]) /\ call[t] \in ReadSteps
        BY <1>2, <1>6, <2>1, PlaceInDriver DEF Sound, Rest, Rely, Known
    <3>2. /\ call'[t] \in ReadTested => seen' = "now"
          /\ ~active => call'[t] = "threw"
        BY <1>1, <1>6, <3>1, MethodIs, ReadFresh, ReadStays DEF Shown
    <3>3. pc["rt"] = "reading"
        BY <1>3, <1>6 DEF SensorInv, PluginInv, Control, PcTyped, RtPoints, CallPoints
    <3>4. call'["rt"] \in ReadOn => ~Resting /\ master'
        BY <1>1, <3>1, MethodIs, ReadStays, <1>6, <3>2, <3>3, ReadOfActive DEF ReadOn, ReadSteps
    <3> QED
        BY <1>4, <1>5, <1>6, <3>2, <3>4 DEF Shown
  <2>2. CASE ~Undisturbed(t)
    <3>1. call'["rt"] = "threw"
        BY <1>6, <2>2, DisturbedIsRefused DEF SensorInv, PluginInv, CallTyped
    <3> QED
        BY <1>4, <1>5, <3>1 DEF Shown, ReadOn, ReadTested, ReadSteps
  <2> QED
      BY <2>1, <2>2
<1>7. CASE t # "rt"
  <2>1. call["rt"] \notin ReadOn
    <3> SUFFICES ASSUME call["rt"] \in ReadOn PROVE FALSE
        OBVIOUS
    <3>1. pc["rt"] = "reading"
        BY ThreadsAre
           DEF ReadOn, ReadSteps, SensorInv, PluginInv, Control, CallsAtCallPoints, PcTyped,
               RtPoints, CallPoints
    <3>2. pc[t] \notin LockedPoints
        BY <1>7, <3>1, ThreadsAre DEF SensorInv, PluginInv, Control, LockHeld, LockedPoints
    <3>3. t = "lc" /\ pc[t] \in {"actStop", "destroy"}
        BY <1>3, <3>2, ThreadsAre
           DEF SensorInv, PluginInv, Control, PcTyped, ExPoints, RtPoints, WkPoints, Outcomes,
               CallPoints, LockedPoints
    <3> QED
        BY <3>1, <3>3
           DEF Shown, Resting, Activated, SensorInv, PluginInv, Control, Ending
  <2>2. call'["rt"] = call["rt"]
      BY <1>2, <1>7, ThreadsAre DEF Local
  <2> QED
      BY <1>4, <1>5, <2>1, <2>2 DEF Shown, ReadOn, ReadTested, ReadSteps
<1> QED
    BY <1>6, <1>7

\* A step of the plugin.
LEMMA PluginShows ==
    ASSUME SensorInv, Sound, Shown, PluginStep, ~ReadCalibration
    PROVE  Shown'
<1> USE ThreadsAre
    DEF Shown, Resting, Activated, CallTyped, PcTyped, ReadOn, ReadTested, ReadSteps,
        Errored, Is, LcMay, Move,
        Lock, Unlock, Enter, Leave, LeaveAndEnter, driverVars, driverData, pointers, pluginVars
<1>1. PcTyped /\ CallTyped
    BY DEF SensorInv, PluginInv, Control
<1>2. pc["lc"] \in LockedPoints => call["rt"] = "none"
    BY HolderAlone
<1>3. pc["lc"] = "idle" => Consistent
    BY ConsistentOutside DEF CallPoints
<1>4. pc["lc"] = "idle" =>
        /\ hw = "active" => active
        /\ call["rt"] = "threw" => ~master
    BY DEF Sound, Rest, Settled, Between
<1>5. CASE ConfigureDone
    BY <1>1, <1>2, <1>5 DEF ConfigureDone, LockedPoints
<1>6. CASE LcConfigure /\ ~ConfigureDone
    BY <1>1, <1>6
       DEF LcConfigure, Configure, ConfigureLock, ConfigureOldGone, ConfigureReturn
<1>7. CASE LcActivate
  <2>1. CASE Activate
      BY <1>1, <2>1 DEF Activate
  <2>2. CASE ActivateLock
      BY <1>1, <2>2 DEF ActivateLock
  <2>3. CASE ActivateClear
      BY <1>1, <2>3 DEF ActivateClear
  <2>4. CASE ActivateSet
      BY <1>1, <2>4 DEF ActivateSet
  <2>5. CASE ActivateDone
      BY <1>1, <1>2, <2>5 DEF ActivateDone, LockedPoints
  <2>6. CASE ActivateThrew
      BY <1>1, <2>6 DEF ActivateThrew
  <2>7. CASE ActivateShutdown
      BY <1>1, <2>7 DEF ActivateShutdown
  <2>8. CASE ActivateFailed
      BY <1>1, <2>8 DEF ActivateFailed
  <2>9. CASE ActivateReturn
      BY <1>1, <2>9 DEF ActivateReturn
  <2> QED
      BY <1>7, <2>1, <2>2, <2>3, <2>4, <2>5, <2>6, <2>7, <2>8, <2>9 DEF LcActivate
<1>8. CASE LcDeactivate
  <2>1. CASE Deactivate
      BY <1>1, <2>1 DEF Deactivate
  <2>2. CASE DeactivateLock
      BY <1>1, <2>2 DEF DeactivateLock
  <2>3. CASE DeactivateDone
      BY <1>1, <1>2, <2>3 DEF DeactivateDone, LockedPoints
  <2>4. CASE DeactivateReturn
      BY <1>1, <2>4 DEF DeactivateReturn, Sound, Rest, Running
  <2> QED
      BY <1>8, <2>1, <2>2, <2>3, <2>4 DEF LcDeactivate
<1>9. CASE LcEnd
  <2>1. CASE Cleanup
      BY <1>1, <2>1 DEF Cleanup
  <2>2. CASE Shutdown
      BY <1>1, <1>3, <1>4, <2>2 DEF Shutdown, Consistent
  <2>3. CASE Destroy
      BY <1>1, <2>3 DEF Destroy
  <2>4. CASE DestroyJoined
      BY <1>1, <2>4 DEF DestroyJoined
  <2>5. CASE DestroyDone
      BY <1>1, <2>5 DEF DestroyDone
  <2> QED
      BY <1>9, <2>1, <2>2, <2>3, <2>4, <2>5 DEF LcEnd
<1>10. CASE RtRead
  <2>1. CASE Read
      BY <1>1, <2>1 DEF Read
  <2>2. CASE ReadLock
      BY <1>1, <2>2 DEF ReadLock
  <2>3. CASE ReadDone
      BY <1>1, <2>3 DEF ReadDone
  <2>4. CASE ReadThrew
      BY <1>1, <2>4 DEF ReadThrew
  <2>5. CASE ReadFailed
      BY <1>1, <2>5 DEF ReadFailed
  <2> QED
      BY <1>10, <2>1, <2>2, <2>3, <2>4, <2>5 DEF RtRead
<1>11. CASE ExBias
    BY <1>1, <1>11 DEF ExBias, Bias, BiasLock, BiasRefused, BiasStart, BiasDone
<1>12. CASE WkAttempt
    BY <1>1, <1>12
       DEF WkAttempt, TryLock, TryLockBusy, WorkerNotReady, WorkerStart, WorkerDone, Deliver
<1>13. CASE Tick
  <2>1. UNCHANGED <<driverVars, hw, interfaces, snapshot>>
      BY <1>13 DEF Tick
  <2>2. pc' = pc \/ pc' = [pc EXCEPT !["wk"] = "try"]
      BY <1>13, Zenon DEF Tick, Move
  <2>3. pc'["lc"] = pc["lc"]
      BY <1>1, <2>2
  <2> QED
      BY <2>1, <2>3
<1> QED
    BY <1>5, <1>6, <1>7, <1>8, <1>9, <1>10, <1>11, <1>12, <1>13 DEF PluginStep

\* Without a calibration upload, what is published is of the session there is: a
\* hardware that is not active shows nothing, and no status is older than its session,
\* though read() may overlap every callback.
THEOREM ShownWithoutCalibration ==
    ASSUME ~ReadCalibration PROVE Spec => []ShownIsOfSession
<1>1. Init => Shown
    BY ThreadsAre DEF Init, DriverInit, Fresh, Shown, ReadOn, ReadTested, ReadSteps
<1>2. ASSUME SoundInv, Shown, [Next]_vars PROVE Shown'
  <2>1. SensorInv /\ Sound
      BY <1>2 DEF SoundInv
  <2>2. CASE PluginStep
      BY <1>2, <2>1, <2>2, PluginShows
  <2>3. ASSUME NEW t \in Callers, InsideDriver(t) PROVE Shown'
      BY <1>2, <2>1, <2>3, InsideShows
  <2>4. CASE Over \/ UNCHANGED vars
      BY <1>2, <2>4 DEF Over, vars, driverVars, pointers, pluginVars, Shown, Resting, Activated
  <2> QED
      BY <1>2, <2>2, <2>3, <2>4 DEF Next, PluginStep
<1>3. Shown => ShownIsOfSession
    BY
       DEF Shown, Resting, Activated, Is, ShownIsOfSession, InactiveShowsNothing,
           SnapshotIsFresh
<1> QED
    BY <1>1, <1>2, <1>3, SoundInvariant, PTL DEF Spec

----------------------------------------------------------------------------
(* What read() publishes, where init uploads a calibration.  Such an init may *)
(* fail after it has made the driver active.  A read that gets the lock then, *)
(* before the shutdown that follows, is the one read of a hardware that is    *)
(* not active: late says that there was one.                                  *)

ShownBut(late) ==
    /\ Resting => late \/ (interfaces = "nan" /\ snapshot = "inactive")
    /\ hw = "finalized" /\ pc["lc"] = "idle" /\ ~master =>
         late \/ (interfaces = "nan" /\ snapshot = "inactive")
    /\ call["rt"] \in ReadOn => late \/ (~Resting /\ master)
    /\ call["rt"] = "read" /\ pc["lc"] \in {"actFailed", "actStop"} => late \/ ~IsActive
    /\ pc["lc"] \notin {"idle", "deactLock", "deactStop", "deactReturn", "join", "destroy",
                      "gone"} =>
         hw \in {"unconfigured", "inactive"}

\* A read that finds the driver active is late, or of an active hardware.
LEMMA ActiveIsShown ==
    ASSUME SensorInv, Life, NEW late \in BOOLEAN, ShownBut(late),
           pc["rt"] = "reading", call["rt"] = "read", IsActive
    PROVE  late \/ (~Resting /\ master)
<1>1. pc["lc"] \notin LockedPoints
    BY ThreadsAre DEF SensorInv, PluginInv, Control, LockHeld, LockedPoints
<1>2. pc["lc"] \notin {"join", "destroy", "gone"}
    BY DEF SensorInv, PluginInv, Control, Ending
<1>3. CASE pc["lc"] \in {"actFailed", "actStop"}
    BY <1>3 DEF ShownBut
<1>4. CASE pc["lc"] \notin {"actFailed", "actStop"}
  <2>1. pc["lc"] \in Between
      BY <1>1, <1>2, <1>4
         DEF SensorInv, PluginInv, Control, PcTyped, LcPoints, LockedPoints, Between
  <2>2. Consistent
      BY <2>1, LifeConsistent DEF Between, CallPoints
  <2> QED
      BY <2>1, <2>2
         DEF Consistent, IsActive, Life, Rest, Settled, Resting
<1> QED
    BY <1>3, <1>4

\* A step inside the driver.
LEMMA InsideShowsBut ==
    ASSUME SensorInv, Life, NEW late \in BOOLEAN, ShownBut(late),
           NEW t \in Callers, InsideDriver(t)
    PROVE  ShownBut(late)'
<1>1. DriverTypeOK /\ DriverStep(t)
    BY TypeSplit DEF SensorInv, PluginInv, CallTyped, InsideDriver
<1>2. Local(t) /\ InDriver(t)
    BY <1>1, DriverStepTyped DEF Local, InDriver
<1>3. pc[t] \in CallPoints
    BY <1>2, PlacesAre DEF InDriver, SensorInv, PluginInv, Control, CallsAtCallPoints, Results
<1>4. UNCHANGED <<pc, hw, interfaces, snapshot>> /\ (Resting' <=> Resting)
    BY DEF InsideDriver, pluginVars, Resting, Activated
<1>5. CASE t = "rt"
  <2>1. ReadStep(t)
      BY <1>1, <1>2, <1>5, PlaceInDriver, MethodIs DEF Life, Rest
  <2>2. /\ UNCHANGED <<master, active, pd>>
        /\ call'["rt"] # "read"
        /\ call["rt"] = "read" /\ call'["rt"] # "threw" => IsActive
        /\ call'["rt"] \in ReadOn => call'["rt"] # "threw"
        /\ call["rt"] \in ReadSteps
      BY <1>1, <1>2, <1>5, <2>1, PlaceInDriver, ReadLeaves
         DEF Life, Rest, lifeData, pointers, ReadOn, ReadSteps
  <2>3. pc["rt"] = "reading"
      BY <1>3, <1>5 DEF SensorInv, PluginInv, Control, PcTyped, RtPoints, CallPoints
  <2>4. call'["rt"] \in ReadOn => late \/ (~Resting /\ master)
      BY <2>2, <2>3, ActiveIsShown DEF ShownBut, ReadOn
  <2> QED
      BY <1>4, <2>2, <2>4 DEF ShownBut
<1>6. CASE t = "lc"
  <2>1. call'["rt"] = call["rt"]
      BY <1>2, <1>6, ThreadsAre DEF Local
  <2>2. CASE pc["lc"] \in LockedPoints
    <3>1. call["rt"] = "none"
        BY <2>2, ThreadsAre, HolderAlone
    <3> QED
        BY <1>3, <1>4, <1>6, <2>1, <3>1 DEF ShownBut, CallPoints, ReadOn, ReadSteps
  <2>3. CASE pc["lc"] = "destroy"
    <3>1. call["rt"] = "none"
        BY <2>3, ThreadsAre
           DEF SensorInv, PluginInv, Control, Ending, CallsAtCallPoints, CallPoints
    <3> QED
        BY <1>4, <2>1, <2>3, <3>1 DEF ShownBut, ReadOn, ReadSteps
  <2>4. CASE pc["lc"] = "actStop"
    <3>1. call["lc"] \in StopSteps
        BY <1>2, <1>6, <2>4, PlaceInDriver DEF Life, Rest
    <3>2. StopStep("lc") /\ Shape(call["lc"])
        BY <1>1, <1>6, <3>1, MethodIs DEF Life
    <3>3. (active' => active) /\ (pd' => pd)
        BY <1>1, <1>6, <3>2, StopStays, StopMapsNone
    <3>4. Resting
        BY <2>4 DEF ShownBut, Resting, Activated
    <3> QED
        BY <1>4, <2>1, <2>4, <3>3, <3>4 DEF ShownBut, IsActive
  <2> QED
      BY <1>3, <1>6, <2>2, <2>3, <2>4
         DEF CallPoints, LockedPoints, SensorInv, PluginInv, Control, PcTyped, LcPoints
<1>7. CASE t \notin {"rt", "lc"}
  <2>1. PulseStep(t) \/ UploadStep(t)
      BY <1>1, <1>2, <1>7, PlaceInDriver, MethodIs DEF Life, Rest
  <2>2. UNCHANGED <<master, active, pd>>
      BY <1>1, <2>1, PulseLeaves, UploadLeaves DEF lifeData, pointers
  <2>3. call'["rt"] = call["rt"]
      BY <1>2, <1>7, ThreadsAre DEF Local
  <2> QED
      BY <1>4, <2>2, <2>3 DEF ShownBut, IsActive
<1> QED
    BY <1>5, <1>6, <1>7

\* A step of the plugin.
LEMMA PluginShowsBut ==
    ASSUME SensorInv, Life, NEW late \in BOOLEAN, NEW later \in BOOLEAN, ShownBut(late),
           PluginStep,
           DeactivateDone \/ (late => later),
           ReadLock /\ pc["lc"] \in {"actFailed", "actStop"} /\ IsActive => later
    PROVE  ShownBut(later)'
<1> USE ThreadsAre
    DEF ShownBut, Resting, Activated, CallTyped, PcTyped, ReadOn, ReadSteps, Errored, Is,
        LcMay, Move, Lock,
        Unlock, Enter, Leave, LeaveAndEnter, IsActive, driverVars, driverData, pointers,
        pluginVars
<1>1. PcTyped /\ CallTyped
    BY DEF SensorInv, PluginInv, Control
<1>2. pc["lc"] \in LockedPoints => call["rt"] = "none"
    BY HolderAlone
<1>3. pc["lc"] = "idle" => Consistent
    BY LifeConsistent DEF CallPoints
<1>4. pc["lc"] = "idle" =>
        /\ hw = "active" => active
        /\ call["rt"] = "threw" => ~master
    BY DEF Life, Rest, Settled, Between
<1>5. CASE ConfigureDone
    BY <1>1, <1>2, <1>5 DEF ConfigureDone, DeactivateDone, LockedPoints
<1>6. CASE LcConfigure /\ ~ConfigureDone
    BY <1>1, <1>6
       DEF LcConfigure, Configure, ConfigureLock, ConfigureOldGone, ConfigureReturn,
           DeactivateDone
<1>7. CASE LcActivate
  <2> USE DEF DeactivateDone
  <2>1. CASE Activate
      BY <1>1, <2>1 DEF Activate
  <2>2. CASE ActivateLock
      BY <1>1, <2>2 DEF ActivateLock
  <2>3. CASE ActivateClear
      BY <1>1, <2>3 DEF ActivateClear
  <2>4. CASE ActivateSet
      BY <1>1, <2>4 DEF ActivateSet
  <2>5. CASE ActivateDone
      BY <1>1, <1>2, <2>5 DEF ActivateDone, LockedPoints
  <2>6. CASE ActivateThrew
      BY <1>1, <1>2, <2>6 DEF ActivateThrew, LockedPoints
  <2>7. CASE ActivateShutdown
      BY <1>1, <2>7 DEF ActivateShutdown
  <2>8. CASE ActivateFailed
      BY <1>1, <2>8 DEF ActivateFailed
  <2>9. CASE ActivateReturn
      BY <1>1, <2>9 DEF ActivateReturn
  <2> QED
      BY <1>7, <2>1, <2>2, <2>3, <2>4, <2>5, <2>6, <2>7, <2>8, <2>9 DEF LcActivate
<1>8. CASE LcDeactivate
  <2>1. CASE Deactivate
      BY <1>1, <2>1 DEF Deactivate, DeactivateDone
  <2>2. CASE DeactivateLock
      BY <1>1, <2>2 DEF DeactivateLock, DeactivateDone, DeactivateReturn
  <2>3. CASE DeactivateDone
      BY <1>1, <1>2, <2>3 DEF DeactivateDone, LockedPoints
  <2>4. CASE DeactivateReturn
      BY <1>1, <2>4 DEF DeactivateReturn, DeactivateDone, Life, Rest, Running
  <2> QED
      BY <1>8, <2>1, <2>2, <2>3, <2>4 DEF LcDeactivate
<1>9. CASE LcEnd
  <2> USE DEF DeactivateDone
  <2>1. CASE Cleanup
      BY <1>1, <2>1 DEF Cleanup
  <2>2. CASE Shutdown
      BY <1>1, <1>3, <1>4, <2>2 DEF Shutdown, Consistent
  <2>3. CASE Destroy
      BY <1>1, <2>3 DEF Destroy
  <2>4. CASE DestroyJoined
      BY <1>1, <2>4 DEF DestroyJoined
  <2>5. CASE DestroyDone
      BY <1>1, <2>5 DEF DestroyDone
  <2> QED
      BY <1>9, <2>1, <2>2, <2>3, <2>4, <2>5 DEF LcEnd
<1>10. CASE RtRead
  <2>0. late => later
      BY <1>1, <1>10 DEF RtRead, Read, ReadLock, ReadDone, ReadThrew, ReadFailed, DeactivateDone
  <2>1. CASE Read
      BY <1>1, <2>0, <2>1 DEF Read
  <2>2. CASE ReadLock
      BY <1>1, <2>0, <2>2 DEF ReadLock
  <2>3. CASE ReadDone
      BY <1>1, <2>0, <2>3 DEF ReadDone
  <2>4. CASE ReadThrew
      BY <1>1, <2>0, <2>4 DEF ReadThrew
  <2>5. CASE ReadFailed
      BY <1>1, <2>0, <2>5 DEF ReadFailed
  <2> QED
      BY <1>10, <2>1, <2>2, <2>3, <2>4, <2>5 DEF RtRead
<1>11. CASE ExBias
    BY <1>1, <1>11
       DEF ExBias, Bias, BiasLock, BiasRefused, BiasStart, BiasDone, DeactivateDone
<1>12. CASE WkAttempt
    BY <1>1, <1>12
       DEF WkAttempt, TryLock, TryLockBusy, WorkerNotReady, WorkerStart, WorkerDone, Deliver,
           DeactivateDone
<1>13. CASE Tick
  <2>1. UNCHANGED <<driverVars, hw, interfaces, snapshot>>
      BY <1>13 DEF Tick
  <2>2. pc' = pc \/ pc' = [pc EXCEPT !["wk"] = "try"]
      BY <1>13, Zenon DEF Tick, Move
  <2>3. pc'["lc"] = pc["lc"]
      BY <1>1, <2>2
  <2>4. late => later
      BY <1>1, <2>3 DEF DeactivateDone
  <2> QED
      BY <2>1, <2>3, <2>4
<1> QED
    BY <1>5, <1>6, <1>7, <1>8, <1>9, <1>10, <1>11, <1>12, <1>13 DEF PluginStep

\* When read() and the callbacks do not overlap, no read is late, and each has tested
\* the state of its own session.
ReadsAlone ==
    /\ pc["rt"] # "idle" => pc["lc"] = "idle"
    /\ snapshot \in {"inactive", "now"}
    /\ call["rt"] \in LiveSteps => active
    /\ call["rt"] \in ReadTested => seen = "now"

AloneInv == SensorInv /\ Life /\ ShownBut(FALSE) /\ ReadsAlone

\* A step inside the driver.
LEMMA InsideAlone ==
    ASSUME SensorInv, Life, ReadsAlone, NEW t \in Callers, InsideDriver(t)
    PROVE  ReadsAlone'
<1>1. DriverTypeOK /\ DriverStep(t)
    BY TypeSplit DEF SensorInv, PluginInv, CallTyped, InsideDriver
<1>2. Local(t) /\ InDriver(t)
    BY <1>1, DriverStepTyped DEF Local, InDriver
<1>3. UNCHANGED <<pc, snapshot>>
    BY DEF InsideDriver, pluginVars
<1>4. CASE t = "rt"
  <2>1. ReadStep(t) /\ call["rt"] \in ReadSteps
      BY <1>1, <1>2, <1>4, PlaceInDriver, MethodIs DEF Life, Rest
  <2>2. active /\ ~check => seen = "now"
      BY DEF Life, Shape, ShapeOfRead
  <2>3. /\ UNCHANGED active
        /\ UNCHANGED seen \/ seen' = "now"
        /\ call'["rt"] \in (ReadSteps \ {"read"}) \cup {"returned", "threw"}
        /\ call["rt"] = "read" /\ call'["rt"] # "threw" => call'["rt"] = "receive" /\ active
        /\ call'["rt"] = "sample" =>
             call["rt"] = "sample" \/ seen' = "now" \/ (call["rt"] = "receive" /\ ~check)
        /\ call'["rt"] \in {"readWrite", "send", "returned"} =>
             call["rt"] \in {"sample", "readWrite", "send"}
      BY <1>1, <1>4, <2>1, ReadLeaves DEF lifeData, IsActive
  <2>4. (call["rt"] \in LiveSteps => active)'
      BY <2>1, <2>3 DEF ReadsAlone, LiveSteps, ReadSteps
  <2>5. (call["rt"] \in ReadTested => seen = "now")'
      BY <2>1, <2>2, <2>3 DEF ReadsAlone, LiveSteps, ReadSteps, ReadTested
  <2> QED
      BY <1>3, <2>4, <2>5 DEF ReadsAlone
<1>5. CASE t = "lc"
  <2>1. pc["lc"] # "idle"
      BY <1>2, <1>5, PlacesAre
         DEF InDriver, SensorInv, PluginInv, Control, CallsAtCallPoints, CallPoints, Results
  <2>2. call["rt"] = "none" /\ call'["rt"] = "none"
      BY <1>2, <1>5, <2>1, ThreadsAre
         DEF Local, ReadsAlone, SensorInv, PluginInv, Control, CallsAtCallPoints, CallPoints
  <2> QED
      BY <1>3, <2>2 DEF ReadsAlone, LiveSteps, ReadTested
<1>6. CASE t \notin {"rt", "lc"}
  <2>1. PulseStep(t) \/ UploadStep(t)
      BY <1>1, <1>2, <1>6, PlaceInDriver, MethodIs DEF Life, Rest
  <2>2. UNCHANGED <<active, seen>>
      BY <1>1, <2>1, PulseLeaves, UploadLeaves DEF lifeData
  <2>3. call'["rt"] = call["rt"]
      BY <1>2, <1>6, ThreadsAre DEF Local
  <2> QED
      BY <1>3, <2>2, <2>3 DEF ReadsAlone
<1> QED
    BY <1>4, <1>5, <1>6

\* A step of the plugin.
LEMMA PluginAlone ==
    ASSUME SensorInv, ReadsAlone, ~ReadsOverlap, PluginStep
    PROVE  ReadsAlone'
<1> USE ThreadsAre
    DEF ReadsAlone, CallTyped, PcTyped, LiveSteps, ReadTested, Is, LcMay, Move, Enter, Leave,
        LeaveAndEnter, driverVars, driverData, pointers, pluginVars
<1>1. PcTyped /\ CallTyped
    BY DEF SensorInv, PluginInv, Control
<1>2. pc["rt"] = "idle" => call["rt"] = "none"
    BY DEF SensorInv, PluginInv, Control, CallsAtCallPoints, CallPoints
<1>3. CASE LcConfigure
    BY <1>1, <1>2, <1>3
       DEF LcConfigure, Configure, ConfigureLock, ConfigureOldGone, ConfigureDone,
           ConfigureReturn
<1>4. CASE LcActivate
    BY <1>1, <1>4
       DEF LcActivate, Activate, ActivateLock, ActivateClear, ActivateSet, ActivateDone,
           ActivateReturn,
           ActivateThrew, ActivateShutdown, ActivateFailed
<1>5. CASE LcDeactivate
    BY <1>1, <1>5 DEF LcDeactivate, Deactivate, DeactivateLock, DeactivateDone, DeactivateReturn
<1>6. CASE LcEnd
    BY <1>1, <1>6 DEF LcEnd, Cleanup, Shutdown, Destroy, DestroyJoined, DestroyDone
<1>7. CASE RtRead
    BY <1>1, <1>7 DEF RtRead, Read, ReadLock, ReadDone, ReadThrew, ReadFailed
<1>8. CASE ExBias
    BY <1>1, <1>8 DEF ExBias, Bias, BiasLock, BiasRefused, BiasStart, BiasDone
<1>9. CASE WkAttempt
    BY <1>1, <1>9
       DEF WkAttempt, TryLock, TryLockBusy, WorkerNotReady, WorkerStart, WorkerDone, Deliver
<1>10. CASE Tick
  <2>1. UNCHANGED <<driverVars, snapshot>>
      BY <1>10 DEF Tick
  <2>2. pc' = pc \/ pc' = [pc EXCEPT !["wk"] = "try"]
      BY <1>10, Zenon DEF Tick, Move
  <2>3. pc'["lc"] = pc["lc"] /\ pc'["rt"] = pc["rt"]
      BY <1>1, <2>2
  <2> QED
      BY <2>1, <2>3
<1> QED
    BY <1>3, <1>4, <1>5, <1>6, <1>7, <1>8, <1>9, <1>10 DEF PluginStep

\* Any step.
LEMMA AloneNext ==
    ASSUME AloneInv, ReadCalibration, ~ReadsOverlap, [Next]_vars
    PROVE  AloneInv'
<1>1. SensorInv' /\ Life'
    BY NextKeeps, LifeNext DEF AloneInv
<1>2. CASE PluginStep
  <2>1. ReadLock => pc["lc"] = "idle"
      BY ThreadsAre DEF AloneInv, ReadsAlone, ReadLock, Move
  <2>2. ShownBut(FALSE)'
      BY <1>2, <2>1, PluginShowsBut DEF AloneInv
  <2> QED
      BY <1>1, <1>2, <2>2, PluginAlone DEF AloneInv
<1>3. ASSUME NEW t \in Callers, InsideDriver(t) PROVE AloneInv'
    BY <1>1, <1>3, InsideShowsBut, InsideAlone DEF AloneInv
<1>4. CASE Over \/ UNCHANGED vars
    BY <1>1, <1>4
       DEF Over, vars, driverVars, pointers, pluginVars, AloneInv, ShownBut, Resting, Activated,
           ReadsAlone, IsActive
<1> QED
    BY <1>2, <1>3, <1>4 DEF Next, PluginStep

\* When read() and the callbacks do not overlap, what is published is of the session
\* there is: whatever callback failed, at whichever step, and whichever services and
\* attempts were under way.
THEOREM ShownWithoutOverlap ==
    ASSUME ~ReadsOverlap PROVE Spec => []ShownIsOfSession
<1>1. CASE ReadCalibration
  <2>1. Init => AloneInv
    <3> SUFFICES ASSUME Init PROVE AloneInv
        OBVIOUS
    <3>1. SensorInv /\ Life
        BY SensorInit, LifeInit
    <3> QED
        BY <3>1, ThreadsAre
           DEF Init, DriverInit, Fresh, AloneInv, ShownBut, Resting, Activated, ReadsAlone,
               ReadOn, ReadTested,
               ReadSteps, LiveSteps
  <2>2. AloneInv /\ [Next]_vars => AloneInv'
      BY <1>1, AloneNext
  <2>3. AloneInv => ShownIsOfSession
      BY
         DEF AloneInv, ShownBut, Resting, Activated, Is, ReadsAlone, ShownIsOfSession,
             InactiveShowsNothing,
             SnapshotIsFresh
  <2> QED
      BY <2>1, <2>2, <2>3, PTL DEF Spec
<1>2. CASE ReadCalibration = FALSE
    BY <1>2, ShownWithoutCalibration
<1> QED
    BY <1>1, <1>2, DriverAssumption
================================================================================
