------------------------------ MODULE AxiaSensor ------------------------------
(***************************************************************************)
(* Axia80M20EtherCATSensor: the ros2_control plugin around the driver.     *)
(*                                                                         *)
(* Four threads meet in it:                                                *)
(*   lc  the controller manager's lifecycle callbacks (on_configure,       *)
(*       on_activate, on_deactivate, and at last the destructor),          *)
(*   rt  the control loop, which calls read(),                             *)
(*   ex  the node's executor: the bias services and the diagnostics timer, *)
(*       one at a time (they share the node's default callback group),     *)
(*   wk  the std::async worker of one runtime SDO attempt.                 *)
(* They share driver_mutex_, the driver and what read() publishes.  The    *)
(* steps a thread takes inside the driver are those of AxiaDriver.         *)
(*                                                                         *)
(* The controller manager is external: it calls the lifecycle callbacks    *)
(* one at a time, each in the state that allows it, and a callback that    *)
(* returns ERROR leaves the hardware unconfigured or finalized.            *)
(***************************************************************************)
EXTENDS AxiaDriver

CONSTANTS
    AutoBias,             \* which of clear_bias_on_activate ("clear") and
                          \* set_bias_on_activate ("set") are configured
    ReadsOverlap,         \* external: may read() run during a lifecycle callback
    ShutdownWhileActive   \* external: may an active hardware be shut down
                          \* without being deactivated

ASSUME SensorAssumption ==
    /\ Callers = {"lc", "rt", "ex", "wk"}
    /\ AutoBias \subseteq {"clear", "set"}
    /\ ReadsOverlap \in BOOLEAN
    /\ ShutdownWhileActive \in BOOLEAN

VARIABLES
    hw,          \* external: the lifecycle state of the hardware component
    mutex,       \* driver_mutex_: the thread that holds it, or "free"
    pc,          \* for each thread, where it is in the plugin's code
    configured,  \* driver_ is not null
    services,    \* the bias services and the diagnostics timer exist
    interfaces,  \* what the state interfaces hold: "nan" or a "sample"
    snapshot,    \* realtime_snapshot_: "inactive", or when its state was read
    future,      \* runtime_diagnostic_sdo_future_: invalid, running or ready
    paused,      \* runtime SDO diagnostics are disabled or auto-paused
    reply,       \* the last response of a bias service
    raced        \* history: a thread was in the driver while on_activate
                 \* shut it down without the lock

pluginVars ==
    <<hw, mutex, configured, services, interfaces, snapshot, future, paused, reply>>
vars == <<driverVars, pc, pluginVars, raced>>

LcPoints ==
    {"idle", "cfgLock", "cfgOld", "cfgNew", "cfgReturn", "cfgError", "actLock",
     "actInit", "actClear", "actSet", "actReturn", "actFailed", "actStop",
     "deactLock", "deactStop", "deactReturn", "join", "destroy", "gone"}
RtPoints == {"idle", "readLock", "reading", "readError"}
ExPoints == {"idle", "biasLock", "bias", "pulsing"}
Outcomes == {"success", "skipped", "failed"}

\* At a point named for an outcome, the worker has left read_runtime_diagnostic_sdo_
\* and its lock, and the future does not have the result yet.
WkPoints == {"idle", "try", "ready", "uploading"} \cup Outcomes

TypeOK ==
    /\ DriverTypeOK
    /\ hw \in {"unconfigured", "inactive", "active", "finalized"}
    /\ mutex \in Callers \cup {"free"}
    /\ pc \in [Callers -> LcPoints \cup RtPoints \cup ExPoints \cup WkPoints]
    /\ configured \in BOOLEAN /\ services \in BOOLEAN
    /\ interfaces \in {"nan", "sample"}
    /\ snapshot \in {"inactive", "never", "before", "now"}
    /\ future \in {"none", "running"} \cup Outcomes
    /\ paused \in BOOLEAN
    /\ reply \in {"none", "success", "refused"}
    /\ raced \in BOOLEAN

Is(t, point) == pc[t] = point

\* A thread goes from one point of the plugin's code to another, as long as
\* what the plugin does is defined.
Move(t, from, to) ==
    /\ ~fault
    /\ pc[t] = from
    /\ pc' = [pc EXCEPT ![t] = to]
    /\ UNCHANGED raced

\* std::lock_guard of driver_mutex_.
Lock(t) == mutex = "free" /\ mutex' = t
Unlock == mutex' = "free"

\* The driver's method is called, or it is over and what it did is known.
Enter(t, step) ==
    /\ call[t] = "none"
    /\ call' = [call EXCEPT ![t] = step]
Leave(t, result) ==
    /\ call[t] = result
    /\ call' = [call EXCEPT ![t] = "none"]
LeaveAndEnter(t, result, step) ==
    /\ call[t] = result
    /\ call' = [call EXCEPT ![t] = step]

driverData == <<pointers, active, check, seen, scales, bus, fault>>

\* A callback that returned ERROR.
Errored == {"unconfigured", "finalized"}

\* The controller manager starts a callback when no other runs.
LcMay == ~fault /\ Is("lc", "idle") /\ (ReadsOverlap \/ Is("rt", "idle"))

----------------------------------------------------------------------------
(* on_configure *)

Configure ==
    /\ LcMay /\ hw = "unconfigured"
    /\ Move("lc", "idle", "cfgLock")
    /\ UNCHANGED <<driverVars, pluginVars>>

\* The new driver is made, then the old one, if there is one, is destroyed by
\* the assignment; its destructor shuts it down.
ConfigureLock ==
    /\ Lock("lc")
    /\ IF configured THEN /\ Move("lc", "cfgLock", "cfgOld")
                          /\ Enter("lc", "stop")
                     ELSE /\ Move("lc", "cfgLock", "cfgNew")
                          /\ UNCHANGED call
    /\ UNCHANGED <<driverData, hw, configured, services, interfaces, snapshot,
                   future, paused, reply>>

ConfigureOldGone ==
    /\ Move("lc", "cfgOld", "cfgNew")
    /\ Leave("lc", "returned")
    /\ UNCHANGED <<driverData, pluginVars>>

\* The driver in place is the new one, as its constructor made it.  Creating
\* the services or the timer fails when the plugin has no node.
ConfigureDone ==
    /\ \/ Move("lc", "cfgNew", "cfgReturn") /\ services' = TRUE
       \/ Move("lc", "cfgNew", "cfgError") /\ UNCHANGED services
    /\ Unlock
    /\ master' = FALSE /\ domain' = FALSE /\ config' = FALSE /\ pd' = FALSE
    /\ active' = FALSE /\ check' = TRUE /\ seen' = "never" /\ scales' = "positive"
    /\ configured' = TRUE
    /\ UNCHANGED <<bus, fault, call, hw, interfaces, snapshot, future, paused, reply>>

ConfigureReturn ==
    /\ \/ Move("lc", "cfgReturn", "idle") /\ hw' = "inactive"
       \/ Move("lc", "cfgError", "idle") /\ hw' \in Errored
    /\ UNCHANGED <<driverVars, mutex, configured, services, interfaces, snapshot,
                   future, paused, reply>>

----------------------------------------------------------------------------
(* on_activate *)

Activate ==
    /\ LcMay /\ hw = "inactive" /\ configured
    /\ Move("lc", "idle", "actLock")
    /\ UNCHANGED <<driverVars, pluginVars>>

ActivateLock ==
    /\ Lock("lc")
    /\ Move("lc", "actLock", "actInit")
    /\ Enter("lc", "request")
    /\ UNCHANGED <<driverData, hw, configured, services, interfaces, snapshot,
                   future, paused, reply>>

\* The automatic bias of the activation, the clearing before the setting.
ActivateClear ==
    /\ "clear" \in AutoBias
    /\ Move("lc", "actInit", "actClear")
    /\ LeaveAndEnter("lc", "returned", "pulse")
    /\ UNCHANGED <<driverData, pluginVars>>

ActivateSet ==
    /\ "set" \in AutoBias
    /\ Is("lc", "actInit") => "clear" \notin AutoBias
    /\ \E from \in {"actInit", "actClear"} : Move("lc", from, "actSet")
    /\ LeaveAndEnter("lc", "returned", "pulse")
    /\ UNCHANGED <<driverData, pluginVars>>

\* The block of the lock_guard ends; the callback has not returned yet.
ActivateDone ==
    /\ \/ Move("lc", "actInit", "actReturn") /\ AutoBias = {}
       \/ Move("lc", "actClear", "actReturn") /\ "set" \notin AutoBias
       \/ Move("lc", "actSet", "actReturn")
    /\ Leave("lc", "returned")
    /\ Unlock
    /\ UNCHANGED <<driverData, hw, configured, services, interfaces, snapshot,
                   future, paused, reply>>

\* on_activate returns SUCCESS, and the controller manager makes the hardware
\* active.
ActivateReturn ==
    /\ Move("lc", "actReturn", "idle")
    /\ hw' = "active"
    /\ UNCHANGED <<driverVars, mutex, configured, services, interfaces, snapshot,
                   future, paused, reply>>

\* The exception leaves the block of the lock_guard: the mutex is free before
\* the handler runs.
ActivateThrew ==
    /\ \E from \in {"actInit", "actClear", "actSet"} : Move("lc", from, "actFailed")
    /\ Leave("lc", "threw")
    /\ Unlock
    /\ UNCHANGED <<driverData, hw, configured, services, interfaces, snapshot,
                   future, paused, reply>>

\* The handler shuts the driver down, with no lock.
ActivateShutdown ==
    /\ Move("lc", "actFailed", "actStop")
    /\ Enter("lc", "stop")
    /\ UNCHANGED <<driverData, pluginVars>>

ActivateFailed ==
    /\ Move("lc", "actStop", "idle")
    /\ Leave("lc", "returned")
    /\ hw' \in Errored
    /\ UNCHANGED <<driverData, mutex, configured, services, interfaces, snapshot,
                   future, paused, reply>>

----------------------------------------------------------------------------
(* on_deactivate, and the transitions the plugin has no callback for *)

Deactivate ==
    /\ LcMay /\ hw = "active"
    /\ Move("lc", "idle", "deactLock")
    /\ UNCHANGED <<driverVars, pluginVars>>

\* Mutant: on_deactivate does not shut the driver down.
DeactivateKeepsDriver ==
    /\ Lock("lc")
    /\ Move("lc", "deactLock", "deactStop")
    /\ Enter("lc", "returned")
    /\ UNCHANGED <<driverData, hw, configured, services, interfaces, snapshot,
                   future, paused, reply>>

DeactivateLock ==
    /\ Lock("lc")
    /\ Move("lc", "deactLock", "deactStop")
    /\ Enter("lc", "stop")
    /\ UNCHANGED <<driverData, hw, configured, services, interfaces, snapshot,
                   future, paused, reply>>

\* Mutant: on_deactivate without reset_state_.
DeactivateNoReset ==
    /\ Move("lc", "deactStop", "deactReturn")
    /\ Leave("lc", "returned")
    /\ Unlock
    /\ UNCHANGED <<driverData, hw, configured, services, interfaces, snapshot,
                   future, paused, reply>>

\* The driver is shut down; reset_state_ follows, still under the lock.
DeactivateDone ==
    /\ Move("lc", "deactStop", "deactReturn")
    /\ Leave("lc", "returned")
    /\ interfaces' = "nan"
    /\ snapshot' = "inactive"
    /\ Unlock
    /\ UNCHANGED <<driverData, hw, configured, services, future, paused, reply>>

DeactivateReturn ==
    /\ Move("lc", "deactReturn", "idle")
    /\ hw' = "inactive"
    /\ UNCHANGED <<driverVars, mutex, configured, services, interfaces, snapshot,
                   future, paused, reply>>

\* on_cleanup and on_shutdown are not overridden: the driver, the services and
\* the timer stay as they are.
Cleanup ==
    /\ LcMay /\ hw = "inactive"
    /\ hw' = "unconfigured"
    /\ UNCHANGED <<driverVars, pc, raced, mutex, configured, services, interfaces,
                   snapshot, future, paused, reply>>

Shutdown ==
    /\ LcMay
    /\ \/ hw \in {"unconfigured", "inactive"}
       \/ hw = "active" /\ ShutdownWhileActive
    /\ hw' = "finalized"
    /\ UNCHANGED <<driverVars, pc, raced, mutex, configured, services, interfaces,
                   snapshot, future, paused, reply>>

\* The destructor, once the node's callbacks are over.  Members go in the
\* reverse of their order of declaration: the future, which waits for its
\* worker, then the timer and the services, then driver_.
Destroy ==
    /\ LcMay /\ hw = "finalized"
    /\ Is("rt", "idle") /\ Is("ex", "idle")
    /\ Move("lc", "idle", "join")
    /\ services' = FALSE
    /\ UNCHANGED <<driverVars, hw, mutex, configured, interfaces, snapshot,
                   future, paused, reply>>

\* Mutant: the worker is not waited for.
DestroyWithoutJoin ==
    /\ Move("lc", "join", IF configured THEN "destroy" ELSE "gone")
    /\ IF configured THEN Enter("lc", "stop") ELSE UNCHANGED call
    /\ future' = "none"
    /\ UNCHANGED <<driverData, hw, mutex, configured, services, interfaces,
                   snapshot, paused, reply>>

DestroyJoined ==
    /\ future # "running"
    /\ Move("lc", "join", IF configured THEN "destroy" ELSE "gone")
    /\ IF configured THEN Enter("lc", "stop") ELSE UNCHANGED call
    /\ future' = "none"
    /\ UNCHANGED <<driverData, hw, mutex, configured, services, interfaces,
                   snapshot, paused, reply>>

DestroyDone ==
    /\ Move("lc", "destroy", "gone")
    /\ Leave("lc", "returned")
    /\ configured' = FALSE
    /\ UNCHANGED <<driverData, hw, mutex, services, interfaces, snapshot,
                   future, paused, reply>>

----------------------------------------------------------------------------
(* read() *)

\* The control loop reads inactive and active hardware.  The test of driver_
\* is made before the lock is taken.
Read ==
    /\ hw \in {"inactive", "active"} /\ configured
    /\ ReadsOverlap \/ Is("lc", "idle")
    /\ Move("rt", "idle", "readLock")
    /\ UNCHANGED <<driverVars, pluginVars>>

ReadLock ==
    /\ Lock("rt")
    /\ Move("rt", "readLock", "reading")
    /\ Enter("rt", "read")
    /\ UNCHANGED <<driverData, hw, configured, services, interfaces, snapshot,
                   future, paused, reply>>

\* The sample goes to the state interfaces and, with the state snapshot of the
\* driver, to the diagnostics.
ReadDone ==
    /\ Move("rt", "reading", "idle")
    /\ Leave("rt", "returned")
    /\ interfaces' = "sample"
    /\ snapshot' = seen
    /\ Unlock
    /\ UNCHANGED <<driverData, hw, configured, services, future, paused, reply>>

\* The exception leaves the block of the lock_guard before the handler runs.
ReadThrew ==
    /\ Move("rt", "reading", "readError")
    /\ Leave("rt", "threw")
    /\ Unlock
    /\ UNCHANGED <<driverData, hw, configured, services, interfaces, snapshot,
                   future, paused, reply>>

\* The read returns ERROR, for which the controller manager may take the
\* hardware out of the inactive state.  (It is assumed to leave one alone that
\* it has activated since the read threw; that of an active one does not.)
ReadFailed ==
    /\ Move("rt", "readError", "idle")
    /\ hw' \in {hw} \cup IF Is("lc", "idle") /\ hw = "inactive" THEN Errored ELSE {}
    /\ UNCHANGED <<driverVars, mutex, configured, services, interfaces, snapshot,
                   future, paused, reply>>

----------------------------------------------------------------------------
(* The bias services *)

Bias ==
    /\ services
    /\ Move("ex", "idle", "biasLock")
    /\ reply' = "none"
    /\ UNCHANGED <<driverVars, hw, mutex, configured, services, interfaces,
                   snapshot, future, paused>>

BiasLock ==
    /\ Lock("ex")
    /\ Move("ex", "biasLock", "bias")
    /\ UNCHANGED <<driverVars, hw, configured, services, interfaces, snapshot,
                   future, paused, reply>>

\* execute_bias: refused when the driver is not active.
BiasRefused ==
    /\ ~(configured /\ IsActive)
    /\ Move("ex", "bias", "idle")
    /\ reply' = "refused"
    /\ Unlock
    /\ UNCHANGED <<driverVars, hw, configured, services, interfaces, snapshot,
                   future, paused>>

\* Mutant: execute_bias trusts that the service is called on an active driver.
BiasUntested ==
    /\ Move("ex", "bias", "pulsing")
    /\ Enter("ex", "pulseWrite")
    /\ UNCHANGED <<driverData, pluginVars>>

BiasStart ==
    /\ configured /\ IsActive
    /\ Move("ex", "bias", "pulsing")
    /\ Enter("ex", "pulse")
    /\ UNCHANGED <<driverData, pluginVars>>

BiasDone ==
    /\ Move("ex", "pulsing", "idle")
    /\ \/ Leave("ex", "returned") /\ reply' = "success"
       \/ Leave("ex", "threw") /\ reply' = "refused"
    /\ Unlock
    /\ UNCHANGED <<driverData, hw, configured, services, interfaces, snapshot,
                   future, paused>>

----------------------------------------------------------------------------
(* The diagnostics timer, as far as the driver is concerned, and its worker *)

\* publish_diagnostics_: a result that is there is collected, an attempt that
\* is overdue, was too slow or met a busy driver too often pauses the attempts,
\* and without a pause an attempt is started when none is outstanding.  The
\* counters and what each pause needs are RuntimeSdo's.
Tick ==
    /\ services /\ ~fault
    /\ Is("ex", "idle")
    /\ \/ UNCHANGED paused
       \/ future # "none" /\ ~paused /\ paused' = TRUE
    /\ IF future # "running" /\ ~paused'
         THEN future' = "running" /\ Move("wk", "idle", "try")
         ELSE /\ future' = IF future = "running" THEN "running" ELSE "none"
              /\ UNCHANGED <<pc, raced>>
    /\ UNCHANGED <<driverVars, hw, mutex, configured, services, interfaces,
                   snapshot, reply>>

\* Mutant: the worker goes on without the lock it did not get.
TryLockIgnored ==
    /\ Move("wk", "try", "ready")
    /\ mutex # "free"
    /\ UNCHANGED <<driverVars, pluginVars>>

\* read_runtime_diagnostic_sdo_
TryLock ==
    /\ Move("wk", "try", "ready")
    /\ Lock("wk")
    /\ UNCHANGED <<driverVars, hw, configured, services, interfaces, snapshot,
                   future, paused, reply>>

\* Mutant: the worker waits for the lock.
TryLockBusyWaits ==
    /\ Move("wk", "try", "try")
    /\ mutex # "free"
    /\ UNCHANGED <<driverVars, pluginVars>>

TryLockBusy ==
    /\ Move("wk", "try", "skipped")
    /\ mutex # "free"
    /\ UNCHANGED <<driverVars, pluginVars>>

WorkerNotReady ==
    /\ ~(configured /\ IsActive)
    /\ Move("wk", "ready", "skipped")
    /\ Unlock
    /\ UNCHANGED <<driverVars, hw, configured, services, interfaces, snapshot,
                   future, paused, reply>>

WorkerStart ==
    /\ configured /\ IsActive
    /\ Move("wk", "ready", "uploading")
    /\ Enter("wk", "upload")
    /\ UNCHANGED <<driverData, pluginVars>>

\* Mutant: a failed upload leaves the lock with the worker.
WorkerKeepsLock ==
    /\ \/ Move("wk", "uploading", "success") /\ Leave("wk", "returned") /\ Unlock
       \/ Move("wk", "uploading", "failed") /\ Leave("wk", "threw") /\ UNCHANGED mutex
    /\ UNCHANGED <<driverData, hw, configured, services, interfaces, snapshot,
                   future, paused, reply>>

WorkerDone ==
    /\ \/ Move("wk", "uploading", "success") /\ Leave("wk", "returned")
       \/ Move("wk", "uploading", "failed") /\ Leave("wk", "threw")
    /\ Unlock
    /\ UNCHANGED <<driverData, hw, configured, services, interfaces, snapshot,
                   future, paused, reply>>

\* The future is ready when the worker has returned, with no lock any more.
Deliver ==
    /\ \E outcome \in Outcomes :
        Move("wk", outcome, "idle") /\ future' = outcome
    /\ UNCHANGED <<driverVars, hw, mutex, configured, services, interfaces,
                   snapshot, paused, reply>>

----------------------------------------------------------------------------

Init ==
    /\ DriverInit
    /\ hw = "unconfigured"
    /\ mutex = "free"
    /\ pc = [t \in Callers |-> "idle"]
    /\ configured = FALSE
    /\ services = FALSE
    /\ interfaces = "nan"
    /\ snapshot = "inactive"
    /\ future = "none"
    /\ paused \in BOOLEAN  \* paused from the start: runtime_diagnostic_sdo is off
    /\ reply = "none"
    /\ raced = FALSE

InDriver(t) == call[t] \in Steps

\* The driver is shut down without the lock while another thread is in it.
Racing ==
    /\ Is("lc", "actStop") /\ InDriver("lc")
    /\ \E t \in Callers \ {"lc"} : InDriver(t)

InsideDriver(t) ==
    /\ ~fault
    /\ DriverStep(t)
    /\ raced' = (raced \/ Racing)
    /\ UNCHANGED <<pc, pluginVars>>

\* Nothing follows undefined behaviour, or the end of the plugin.
Over ==
    /\ fault \/ Is("lc", "gone")
    /\ UNCHANGED vars

LcConfigure ==
    Configure \/ ConfigureLock \/ ConfigureOldGone \/ ConfigureDone \/ ConfigureReturn
LcActivate ==
    \/ Activate \/ ActivateLock \/ ActivateClear \/ ActivateSet \/ ActivateDone
    \/ ActivateReturn \/ ActivateThrew \/ ActivateShutdown \/ ActivateFailed
LcDeactivate == Deactivate \/ DeactivateLock \/ DeactivateDone \/ DeactivateReturn
LcEnd == Cleanup \/ Shutdown \/ Destroy \/ DestroyJoined \/ DestroyDone
RtRead == Read \/ ReadLock \/ ReadDone \/ ReadThrew \/ ReadFailed
ExBias == Bias \/ BiasLock \/ BiasRefused \/ BiasStart \/ BiasDone
WkAttempt ==
    TryLock \/ TryLockBusy \/ WorkerNotReady \/ WorkerStart \/ WorkerDone \/ Deliver

Next ==
    \/ LcConfigure \/ LcActivate \/ LcDeactivate \/ LcEnd
    \/ RtRead \/ ExBias \/ Tick \/ WkAttempt
    \/ \E t \in Callers : InsideDriver(t)
    \/ Over

Spec == Init /\ [][Next]_vars

----------------------------------------------------------------------------
(* Fairness.  A thread that is not waiting for the lock goes on.  A thread   *)
(* that waits for it gets it if it is free again and again: a read holds the *)
(* lock for a part of its period only, and the other holders end.            *)

LcOn ==
    \/ ConfigureOldGone \/ ConfigureDone \/ ConfigureReturn
    \/ ActivateClear \/ ActivateSet \/ ActivateDone \/ ActivateReturn
    \/ ActivateThrew \/ ActivateShutdown \/ ActivateFailed
    \/ DeactivateDone \/ DeactivateReturn \/ DestroyJoined \/ DestroyDone

Fairness ==
    /\ \A t \in Callers : WF_vars(InsideDriver(t))
    /\ WF_vars(LcOn)
    /\ WF_vars(ReadDone \/ ReadThrew \/ ReadFailed)
    /\ WF_vars(BiasRefused \/ BiasStart \/ BiasDone)
    /\ WF_vars(WkAttempt)
    /\ SF_vars(ConfigureLock \/ ActivateLock \/ DeactivateLock)
    /\ SF_vars(ReadLock)
    /\ SF_vars(BiasLock)

FairSpec == Spec /\ Fairness

----------------------------------------------------------------------------
(* Properties. *)

\* driver_mutex_ keeps the threads apart: two of them are in the driver at once
\* only when one is the shutdown that on_activate runs after the exception has
\* released the lock.
OneInDriver ==
    \A t \in Callers, u \in Callers :
        t # u /\ InDriver(t) /\ InDriver(u) =>
            "lc" \in {t, u} /\ Is("lc", "actStop")

\* A released master or a dead process image is used only in that race, and
\* only when init can fail after it has made the driver active: with
\* read_calibration_sdo off the missing lock does no harm.
FaultOnlyByRace == fault => raced /\ ReadCalibration

\* The hardware is active: from the end of on_activate's locked block, whose
\* callback is then bound to return SUCCESS, to the end of on_deactivate's.  The
\* controller manager makes it active and inactive a little later.
Activated == pc["lc"] = "actReturn" \/ (hw = "active" /\ pc["lc"] # "deactReturn")

\* A bias service answers success=true only when the hardware is active
\* (README: if the hardware is not active, the service returns success=false):
\* never before an activation that is going to succeed has set the driver up
\* completely, nor in one that fails.
BiasRefusedUnlessActive ==
    [][reply' = "success" /\ reply # "success" => Activated]_vars

\* When no thread holds the lock of an active hardware, the sensor was last
\* asked for the configured word: no bias bit and no stop frame stays latched.
QuietWhenFree == mutex = "free" /\ Activated => wire = "word"

\* A hardware that is not active publishes nothing measured and no status of
\* the session it had.  A finalized one may have been active to the end.
InactiveShowsNothing ==
    Is("lc", "idle") /\ hw \in {"unconfigured", "inactive"} =>
        interfaces = "nan" /\ snapshot = "inactive"

\* What read() publishes comes with the EtherCAT state of its own session.
SnapshotIsFresh == snapshot \in {"inactive", "now"}

\* What is published is of the session there is, when read() and the callbacks do
\* not overlap: whatever callback failed, and at whichever step.
ShownIsOfSession == InactiveShowsNothing /\ SnapshotIsFresh

\* Between two callbacks the master is held exactly by an active hardware, or
\* by one that was finalized while it was.
HeldByActive ==
    Is("lc", "idle") /\ hw # "finalized" => (session = "active" <=> hw = "active")

\* A plugin that is gone has given the master back, however it ended, and left
\* no worker that would use it.
GoneReleased == Is("lc", "gone") => session = "released" /\ Is("wk", "idle")

\* The master is given back by every way out of the active state.
MasterGivenBack == HeldByActive /\ GoneReleased

\* A bias service answers.
BiasAnswered == Is("ex", "biasLock") ~> Is("ex", "idle") \/ fault

\* A lifecycle callback that waits for the lock gets it and returns, whether the
\* activation succeeds or not.
CallbackReturns ==
    pc["lc"] \in {"cfgLock", "actLock", "deactLock"} ~> Is("lc", "idle") \/ fault

\* A runtime SDO attempt ends without waiting for the lock.
AttemptEnds == future = "running" ~> future # "running" \/ fault

\* Nobody waits for ever, although the lock is taken over and over.
CallsReturn == CallbackReturns /\ AttemptEnds
================================================================================
