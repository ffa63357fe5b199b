----------------------------- MODULE SensorReports -----------------------------
(***************************************************************************)
(* What read() makes known of the status word and the sample counter: the  *)
(* rows of the array and the lines of the log.  SensorRows and StatusLog   *)
(* take the same steps of the control loop and of the lifecycle.           *)
(***************************************************************************)
EXTENDS SensorRows

CONSTANTS
    NoWord,  \* no status word has been read
    Lag      \* a line of the log was swallowed

ASSUME NoWordAssumption == NoWord \notin Words

VARIABLES
    previous,   \* as in StatusLog
    throttled,
    told,
    word,
    late

Log == INSTANCE StatusLog WITH Fine <- {}

logVars == <<previous, throttled, told, word, late>>
reportVars == <<vars, logVars>>

ReportsInit == Init /\ Log!Init

ReportsActivate == Activate /\ Log!Activate
ReportsFailInit == FailInit /\ Log!FailInit
ReportsEnd == (ActivateFailed \/ ShutdownActive) /\ Log!EndWithoutReset
ReportsRead == \E s \in Samples : Read(s) /\ Log!Handle(s.word)
ReportsReset == Reset /\ Log!Reset
ReportsTimer == Timer /\ UNCHANGED logVars
ReportsLocks == (Sample \/ ReadCounter \/ ResetCounter) /\ UNCHANGED logVars
ReportsThrottle == Log!ThrottleOpens /\ UNCHANGED vars

ReportsNext ==
    \/ ReportsActivate \/ ReportsFailInit \/ ReportsEnd
    \/ ReportsRead \/ ReportsLocks \/ ReportsReset
    \/ ReportsTimer \/ ReportsThrottle

ReportsSpec == ReportsInit /\ [][ReportsNext]_reportVars

\* The timer ticks for ever.
FairReportsSpec == ReportsSpec /\ WF_reportVars(ReportsTimer)

----------------------------------------------------------------------------
(* Properties. *)

\* The log lags behind the sensor by lines the throttle swallowed, and at the start
\* of a session by the line of a word that a failed activation has read: otherwise
\* the last line of the session tells the word that was read last, also when the
\* session before ended in the same word.
LogLagsByThrottle == Log!LogLagsByThrottle
================================================================================
