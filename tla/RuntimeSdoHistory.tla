--------------------------- MODULE RuntimeSdoHistory ---------------------------
(***************************************************************************)
(* RuntimeSdo with the counters it publishes, beside a history of the      *)
(* attempts the counters and the pause are judged against.  The record     *)
(* ends some time, as it grows with every tick; the supervision goes on.   *)
(***************************************************************************)
EXTENDS RuntimeSdo, Sequences, FiniteSets

CONSTANT MaxTicks  \* bound: the ticks that are recorded

ASSUME HistoryAssumption == MaxTicks \in Nat

VARIABLES
    success,   \* sdo_success_
    skipped,   \* sdo_skipped_
    failed,    \* sdo_failed_
    log,       \* history: the kind and slowness of each result collected
    launched,  \* history: the attempts started
    late,      \* history: a tick found an attempt overdue
    waits,     \* history: the ticks that found an attempt running
    rests,     \* history: the ticks that started none, disabled or paused
    ticks,     \* history: the ticks
    over       \* bound: the record has ended

counters == <<success, skipped, failed>>
history == <<log, launched, late, waits, rests, ticks, over>>
historyVars == <<vars, counters, history>>

HistoryInit ==
    /\ Init
    /\ success = 0 /\ skipped = 0 /\ failed = 0
    /\ log = <<>>
    /\ launched = 0 /\ waits = 0 /\ rests = 0 /\ ticks = 0
    /\ late = FALSE /\ over = FALSE

One(condition) == IF condition THEN 1 ELSE 0

\* Mutant: a tick that finds the attempt running counts only when it starts
\* nothing either.
SkipsOnce(overdue) ==
    One(Waiting \/ Judged("busy") \/ Judged("inactive")
        \/ ~Enabled \/ PausedAfter(overdue))

\* One tick skips when it finds the attempt running or its result a SKIPPED,
\* and once more when it starts none because they are disabled or paused.
Skips(overdue) ==
    One(Waiting) + One(Judged("busy") \/ Judged("inactive"))
        + One(~Enabled \/ PausedAfter(overdue))

Fails == One(Judged("failed"))

CountedTick(overdue) ==
    /\ ~over /\ ticks < MaxTicks
    /\ Tick(overdue)
    /\ success' = success + One(Judged("reading") \/ Judged("alarm"))
    /\ skipped' = skipped + Skips(overdue)
    /\ failed' = failed + Fails
    /\ log' = IF Collecting THEN Append(log, result) ELSE log
    /\ launched' = launched + (workers' - workers)
    /\ late' = (late \/ (Waiting /\ overdue))
    /\ waits' = waits + One(Waiting)
    /\ rests' = rests + One(~Enabled \/ paused')
    /\ ticks' = ticks + 1
    /\ UNCHANGED over

\* The record is dropped.
EndOfRecord ==
    /\ ~over /\ over' = TRUE
    /\ success' = 0 /\ skipped' = 0 /\ failed' = 0
    /\ log' = <<>>
    /\ launched' = 0 /\ waits' = 0 /\ rests' = 0 /\ ticks' = 0
    /\ late' = FALSE
    /\ UNCHANGED vars

UncountedTick(overdue) == over /\ Tick(overdue) /\ UNCHANGED <<counters, history>>

SomeTick == \E overdue \in BOOLEAN : CountedTick(overdue) \/ UncountedTick(overdue)
SomeDelivery == WorkerStep /\ UNCHANGED <<counters, history>>

HistoryNext == SomeTick \/ SomeDelivery \/ EndOfRecord

HistorySpec == HistoryInit /\ [][HistoryNext]_historyVars

\* The timer goes on, and the ecrt upload ends.
FairHistorySpec ==
    HistorySpec /\ WF_historyVars(SomeTick \/ EndOfRecord) /\ WF_historyVars(SomeDelivery)

----------------------------------------------------------------------------
(* Properties. *)

\* The n results of s up to the i-th were all busy.
AllBusy(s, i, n) == n <= i /\ \A j \in i - n + 1 .. i : s[j].kind = "busy"

\* The attempts are paused exactly when one of them was seen to outlast the
\* timeout, running or ended, or LockFailureLimit of them in a row met a busy
\* lock (README: pauses if an attempt exceeds the timeout or if five
\* consecutive attempts cannot acquire the lock).
PausedIffCause == ~over =>
    (paused <=> \/ late
                \/ \E i \in 1 .. Len(log) : log[i].slow
                \/ \E i \in 1 .. Len(log) : AllBusy(log, i, LockFailureLimit))

\* Every attempt started is outstanding or was collected, once.
EveryAttemptCollected == ~over =>
    /\ launched = Len(log) + One(valid)
    /\ valid <=> workers = 1 \/ result # Nothing

\* What is published adds up: a success or a failure is a result, what is skipped
\* is a result, a tick that waited or a tick that rested, and the run of lock
\* failures is the one at the end of the history.
CountersAddUp == ~over =>
    /\ success + failed + skipped = Len(log) + waits + rests
    /\ failed = Cardinality({i \in 1 .. Len(log) : log[i].kind = "failed"})
    /\ AllBusy(log, Len(log), busyRun) /\ ~AllBusy(log, Len(log), busyRun + 1)
================================================================================
