---------------------------- MODULE SensorDiagnostics ----------------------------
(***************************************************************************)
(* publish_diagnostics_ in the plugin: AxiaSensor's threads with the       *)
(* supervision of RuntimeSdo in the place of AxiaSensor's Tick.  It        *)
(* implements both.  What one array says of the rest is SensorRows'.       *)
(*                                                                         *)
(* The runtime SDO is enabled, and the bias services, whose callbacks      *)
(* never overlap the timer's, are left to AxiaSensor.                      *)
(***************************************************************************)
EXTENDS AxiaSensor, Naturals

CONSTANTS
    LockFailureLimit,  \* 5 in the code
    Lateness           \* bound: whether an attempt may outlast the timeout

ASSUME DiagnosticsAssumption ==
    /\ LockFailureLimit \in Nat \ {0}
    /\ Lateness \subseteq BOOLEAN

VARIABLES
    result,      \* what the attempt delivered, as in RuntimeSdo
    reason,      \* runtime_diagnostic_sdo_pause_reason_
    busyRun,     \* consecutive_runtime_sdo_lock_failures_
    row,         \* the level of the last runtime SDO row
    aged,        \* history: the session the outstanding reading was uploaded
                 \* in has ended
    agedRows,    \* history: the rows since the last end of a session that
                 \* showed a reading uploaded before it
    overtaken    \* history: a read got the lock of an active driver between a
                 \* failed init and its shutdown, and no deactivation has
                 \* reset the snapshot since

\* A result the destructor drops with the future stays outstanding in RuntimeSdo,
\* which has no destructor.
Sdo == INSTANCE RuntimeSdo WITH
    Enabled <- TRUE,
    valid <- future = "running" \/ result.kind # "none",
    workers <- IF future = "running" THEN 1 ELSE 0

supervision == <<result, reason, busyRun, row>>
readings == <<aged, agedRows, overtaken>>
diagnosticsVars == <<vars, supervision, readings>>

DiagnosticsInit ==
    /\ Init /\ ~paused
    /\ result = Sdo!Nothing /\ reason = "none" /\ busyRun = 0 /\ row = "STALE"
    /\ aged = FALSE
    /\ agedRows = 0
    /\ overtaken = FALSE

----------------------------------------------------------------------------

\* The reading of the outstanding attempt has been uploaded, or is being.
Uploaded == pc["wk"] \in {"uploading", "success"} \/ future = "success"

\* Mutant: the result is looked at and left in the future.
KeepsResult(overdue) ==
    IF future = "none" /\ Sdo!Starts(overdue)
      THEN future' = "running" /\ Move("wk", "idle", "try")
      ELSE UNCHANGED <<future, pc, raced>>

\* The worker's part of a tick: the next attempt, or the future left or emptied.
StartNext(overdue) ==
    IF Sdo!Starts(overdue)
      THEN future' = "running" /\ Move("wk", "idle", "try")
      ELSE /\ future' = IF Sdo!Waiting THEN "running" ELSE "none"
           /\ UNCHANGED <<pc, raced>>

\* publish_diagnostics_: the future is polled, its result judged and its row
\* published, and the next attempt started.
SupervisedTick(overdue) ==
    /\ services /\ ~fault
    /\ Is("ex", "idle")
    /\ paused' = Sdo!PausedAfter(overdue)
    /\ reason' = Sdo!ReasonAfter(overdue)
    /\ busyRun' = Sdo!BusyRunAfter
    /\ row' = Sdo!RowAfter(overdue)
    /\ StartNext(overdue)
    /\ result' = IF future' = future THEN result ELSE Sdo!Nothing
    /\ aged' = (aged /\ future' = future)
    /\ agedRows' = IF aged /\ future = "success" THEN agedRows + 1 ELSE agedRows
    /\ UNCHANGED <<driverVars, hw, mutex, configured, services, interfaces,
                   snapshot, reply, overtaken>>

\* The kinds of result an outcome of AxiaSensor's worker comes with: the message
\* the sensor sends with its readings, and which of the two tests skipped.
KindsOf(outcome) ==
    CASE outcome = "success" -> {"reading", "alarm"}
      [] outcome = "failed" -> {"failed"}
      [] outcome = "skipped" -> {"busy", "inactive"}

DeliverResult ==
    /\ Deliver
    /\ \E kind \in KindsOf(future'), slow \in Lateness :
        result' = [kind |-> kind, slow |-> slow]
    /\ UNCHANGED <<reason, busyRun, row, readings>>

----------------------------------------------------------------------------
(* The rest of the plugin goes on as it does, and the ends of a session and  *)
(* the reads after a failed init leave their mark in the history.            *)

SessionEnds ==
    /\ DeactivateDone \/ ActivateFailed
    /\ aged' = (aged \/ Uploaded)
    /\ agedRows' = 0
    /\ overtaken' = (overtaken /\ ~DeactivateDone)
    /\ UNCHANGED supervision

ReadAfterFailure ==
    /\ ReadLock
    /\ overtaken' = (overtaken \/ (pc["lc"] \in {"actFailed", "actStop"} /\ IsActive))
    /\ UNCHANGED <<supervision, aged, agedRows>>

OtherStep ==
    /\ \/ LcConfigure
       \/ Activate \/ ActivateLock \/ ActivateClear \/ ActivateSet \/ ActivateDone
       \/ ActivateReturn \/ ActivateThrew \/ ActivateShutdown
       \/ Deactivate \/ DeactivateLock \/ DeactivateReturn \/ LcEnd
       \/ Read \/ ReadDone \/ ReadThrew \/ ReadFailed
       \/ TryLock \/ TryLockBusy \/ WorkerNotReady \/ WorkerStart \/ WorkerDone
       \/ \E t \in Callers : InsideDriver(t)
       \/ Over
    /\ UNCHANGED <<supervision, readings>>

DiagnosticsNext ==
    \/ \E overdue \in Lateness : SupervisedTick(overdue)
    \/ DeliverResult \/ SessionEnds \/ ReadAfterFailure \/ OtherStep

DiagnosticsSpec == DiagnosticsInit /\ [][DiagnosticsNext]_diagnosticsVars

----------------------------------------------------------------------------
(* Properties. *)

\* The plugin with its diagnostics is the plugin AxiaSensor describes ...
SensorSpec == Spec

\* ... and it supervises the runtime SDO as RuntimeSdo says.
SdoSpec == Sdo!Spec

\* A reading outlives its session by one array at most: what an attempt uploaded
\* before a deactivation, or before a failed activation, is shown once after it.
AgedReadingOnce == agedRows <= 1

\* An unconfigured or inactive hardware is shown as active only when a read got
\* the lock between an init that failed after it had made the driver active and
\* the shutdown that follows: no other order of the threads leaves a snapshot.
ActiveShownHasReason ==
    Is("lc", "idle") /\ hw \in {"unconfigured", "inactive"} /\ snapshot # "inactive" =>
        overtaken
================================================================================
