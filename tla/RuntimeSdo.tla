------------------------------ MODULE RuntimeSdo ------------------------------
(***************************************************************************)
(* The supervision of the runtime diagnostic SDO: publish_diagnostics_     *)
(* polls the future of the outstanding attempt once a second, judges its   *)
(* result, pauses the attempts for good when they cost too much, and       *)
(* starts the next one.                                                    *)
(*                                                                         *)
(* What the worker meets (a busy lock, an inactive driver, a failed        *)
(* upload) and how long it takes is any choice here; AxiaSensor models     *)
(* where it comes from.  Time is abstract: an attempt is overdue at a tick *)
(* or not, a result took longer than runtime_diagnostic_sdo_timeout or     *)
(* not.                                                                    *)
(***************************************************************************)
EXTENDS Naturals

CONSTANTS
    Enabled,          \* runtime_diagnostic_sdo_enabled_
    LockFailureLimit  \* 5 in the code

ASSUME SdoAssumption ==
    /\ Enabled \in BOOLEAN
    /\ LockFailureLimit \in Nat \ {0}

VARIABLES
    valid,    \* runtime_diagnostic_sdo_future_ is valid
    workers,  \* how many std::async workers run
    result,   \* what the outstanding attempt delivered, or Nothing
    paused,   \* runtime_diagnostic_sdo_auto_paused_
    reason,   \* runtime_diagnostic_sdo_pause_reason_
    busyRun,  \* consecutive_runtime_sdo_lock_failures_
    row       \* the level of the last row published

vars == <<valid, workers, result, paused, reason, busyRun, row>>

\* The outcomes of an attempt.  A "reading" is a SUCCESS whose status message
\* reports no error, an "alarm" one whose message reports an error; "busy" and
\* "inactive" are the two messages of SKIPPED.
Kinds == {"reading", "alarm", "busy", "inactive", "failed"}

Results == [kind : Kinds, slow : BOOLEAN]
Nothing == [kind |-> "none", slow |-> FALSE]

Levels == {"OK", "WARN", "ERROR", "STALE"}

TypeOK ==
    /\ valid \in BOOLEAN
    /\ workers \in Nat
    /\ result \in Results \cup {Nothing}
    /\ paused \in BOOLEAN
    /\ reason \in {"none", "running", "exceeded", "busy"}
    /\ busyRun \in 0 .. LockFailureLimit
    /\ row \in Levels

Init ==
    /\ valid = FALSE
    /\ workers = 0
    /\ result = Nothing
    /\ paused = FALSE
    /\ reason = "none"
    /\ busyRun = 0
    /\ row = "STALE"

----------------------------------------------------------------------------
(* One tick of the timer. *)

Waiting == valid /\ workers > 0
Collecting == valid /\ workers = 0

Judged(kind) == Collecting /\ result.kind = kind

BusyRunAfter ==
    IF Judged("busy") THEN busyRun + 1
    ELSE IF Collecting THEN 0
    ELSE busyRun

\* Mutant: the limit is missed by one.
TooBusyOffByOne == Judged("busy") /\ BusyRunAfter > LockFailureLimit

TooBusy == Judged("busy") /\ BusyRunAfter >= LockFailureLimit
TooSlow == Collecting /\ result.slow
TooLate(overdue) == Waiting /\ ~paused /\ overdue

\* Mutant: a pause lasts for the tick that finds its cause.
PausedForOneTick(overdue) == TooLate(overdue) \/ TooSlow \/ TooBusy

PausedAfter(overdue) == paused \/ TooLate(overdue) \/ TooSlow \/ TooBusy

\* The last cause met stays.
ReasonAfter(overdue) ==
    CASE TooBusy -> "busy"
      [] TooSlow /\ ~TooBusy -> "exceeded"
      [] TooLate(overdue) -> "running"
      [] OTHER -> reason

\* Mutant: an attempt is started without asking for the one before.
StartsUnasked(overdue) == Enabled /\ ~PausedAfter(overdue)

Starts(overdue) == Enabled /\ ~PausedAfter(overdue) /\ ~Waiting

\* Mutant: whatever a SUCCESS says is good news.
LevelOfOutcome ==
    CASE Judged("reading") \/ Judged("alarm") -> "OK"
      [] Judged("failed") -> "WARN"
      [] OTHER -> "STALE"

LevelOfResult ==
    CASE Judged("reading") -> "OK"
      [] Judged("alarm") -> "ERROR"
      [] Judged("failed") -> "WARN"
      [] OTHER -> "STALE"

\* A pause shows over the result it was found with.
RowAfter(overdue) ==
    CASE ~Enabled -> "STALE"
      [] Enabled /\ PausedAfter(overdue) -> "WARN"
      [] OTHER -> LevelOfResult

\* Mutant: a paused supervisor returns before it polls.
TickUnlessPaused(overdue) ==
    /\ ~paused
    /\ paused' = PausedAfter(overdue)
    /\ reason' = ReasonAfter(overdue)
    /\ busyRun' = BusyRunAfter
    /\ row' = RowAfter(overdue)
    /\ valid' = (Waiting \/ Starts(overdue))
    /\ workers' = IF Starts(overdue) THEN workers + 1 ELSE workers
    /\ result' = IF Waiting THEN result ELSE Nothing

Tick(overdue) ==
    /\ paused' = PausedAfter(overdue)
    /\ reason' = ReasonAfter(overdue)
    /\ busyRun' = BusyRunAfter
    /\ row' = RowAfter(overdue)
    /\ valid' = (Waiting \/ Starts(overdue))
    /\ workers' = IF Starts(overdue) THEN workers + 1 ELSE workers
    /\ result' = IF Waiting THEN result ELSE Nothing

\* The worker delivers the result of the attempt.
Deliver(kind, slow) ==
    /\ workers > 0
    /\ workers' = workers - 1
    /\ result' = [kind |-> kind, slow |-> slow]
    /\ UNCHANGED <<valid, paused, reason, busyRun, row>>

TickStep == \E overdue \in BOOLEAN : Tick(overdue)
WorkerStep == \E kind \in Kinds, slow \in BOOLEAN : Deliver(kind, slow)

Next == TickStep \/ WorkerStep

Spec == Init /\ [][Next]_vars

\* The timer goes on, and the ecrt upload ends.
FairSpec == Spec /\ WF_vars(TickStep) /\ WF_vars(WorkerStep)

----------------------------------------------------------------------------
(* Properties. *)

\* No second attempt is started while one is running (README: the driver does
\* not start a second runtime SDO).
OneAttempt == workers <= 1

\* A pause is for good: nothing in the process takes it back, no attempt is
\* started after it, and its row stays a warning.
PauseIsFinal ==
    [][paused => paused' /\ workers' <= workers /\ (row' # row => row' = "WARN")]_vars

\* A pause and the reason published with it come together.
PauseHasReason == paused <=> reason # "none"

\* An alarm the sensor reports is shown: the tick that collects it publishes an
\* ERROR, or the WARN of a pause found in the same tick or before.
AlarmShown ==
    [][TickStep /\ Judged("alarm") /\ Enabled =>
        row' = "ERROR" \/ (paused' /\ row' = "WARN")]_vars

\* What an attempt delivered is collected.
ResultCollected == result # Nothing ~> result = Nothing

\* Attempts go on for ever unless they are paused.
AttemptsGoOn == Enabled => []<>(workers > 0) \/ <>[]paused

\* Neither a running attempt, nor a late or a failed one, nor a busy lock brings the
\* supervision to a stop, and a pause does not stop the collecting.
SupervisionGoesOn == ResultCollected /\ AttemptsGoOn
================================================================================
