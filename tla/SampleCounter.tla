----------------------------- MODULE SampleCounter -----------------------------
(***************************************************************************)
(* The sample counter statistics: observe_sample_counter, called by every  *)
(* read(), and take_sample_counter_diagnostics, called once a second by    *)
(* the diagnostics timer, under sample_counter_mutex_.                     *)
(*                                                                         *)
(* The counter the sensor sends is an unsigned number of Modulus values    *)
(* (2^32 in the code) that rolls over; the statistics are of 64 bits and   *)
(* do not.  What the sensor really did between two reads is history, and   *)
(* the statistics are judged against it.  Rates are per second of a window *)
(* of one second.                                                          *)
(***************************************************************************)
EXTENDS Integers

CONSTANTS
    Modulus,        \* the values of the counter
    Advances,       \* the samples the sensor may produce between two reads
    MaxReads,       \* bound: the reads of a window
    MaxRun,         \* bound: the repeats in a row
    RunWarn,        \* 10 in the code
    RunError,       \* 50
    RepeatWarn,     \* 60 repeats a second over twice what is expected
    RepeatError,    \* 100
    SkipWarn,       \* 30 skipped samples a second over twice what is expected
    SkipError,      \* 50
    JumpThreshold,  \* large_jump_threshold
    SensorRate,     \* expected_sensor_rate_hz
    ReadRate        \* expected_read_rate_hz

ASSUME CounterAssumption ==
    /\ Modulus \in Nat \ {0}
    /\ Advances \subseteq 0 .. Modulus - 1
    /\ MaxReads \in Nat /\ MaxRun \in Nat
    /\ SensorRate \in Nat /\ ReadRate \in Nat

ASSUME ThresholdAssumption ==
    /\ RunWarn \in Nat \ {0} /\ RunError \in Nat /\ RunWarn <= RunError
    /\ RepeatWarn \in Nat /\ RepeatError \in Nat /\ RepeatWarn <= RepeatError
    /\ SkipWarn \in Nat /\ SkipError \in Nat /\ SkipWarn <= SkipError
    /\ JumpThreshold \in Nat \ {0}

VARIABLES
    started,   \* state.previous has a value
    previous,  \* that value, the counter last read
    repeated,  \* repeated_reads
    skipped,   \* skipped_samples
    jumps,     \* jump_events
    maxDelta,  \* max_delta
    run,       \* consecutive_repeats
    maxRun,    \* max_consecutive_repeats
    level,     \* the level last taken
    produced,  \* history: the samples the sensor produced since the first read
               \* of the window, or since the last of the window before
    reads,     \* history: the reads counted in the window
    trail      \* history: the reads since the counter last moved

state == <<started, previous, repeated, skipped, jumps, maxDelta, run, maxRun>>
vars == <<state, level, produced, reads, trail>>

TypeOK ==
    /\ started \in BOOLEAN
    /\ previous \in 0 .. Modulus - 1
    /\ repeated \in Nat /\ skipped \in Nat /\ jumps \in Nat
    /\ maxDelta \in 0 .. Modulus - 1
    /\ run \in Nat /\ maxRun \in Nat
    /\ level \in {"none", "OK", "WARN", "ERROR"}
    /\ produced \in Nat /\ reads \in Nat /\ trail \in Nat

\* The counter of the sensor after n more samples.
After(p, n) == IF p + n < Modulus THEN p + n ELSE p + n - Modulus

\* Mutant: the distance of the two values, whichever is larger.
Distance(c, p) == IF c >= p THEN c - p ELSE p - c

\* The difference of two unsigned counters.
Delta(c, p) == IF c >= p THEN c - p ELSE c - p + Modulus

Larger(a, b) == IF a >= b THEN a ELSE b

----------------------------------------------------------------------------

Init ==
    /\ started = FALSE
    /\ previous = 0
    /\ repeated = 0 /\ skipped = 0 /\ jumps = 0 /\ maxDelta = 0
    /\ run = 0 /\ maxRun = 0
    /\ level = "none"
    /\ produced = 0 /\ reads = 0 /\ trail = 0

\* The first read after a reset only sets the counter the next is compared to.
ObserveFirst(c) ==
    /\ ~started
    /\ started' = TRUE
    /\ previous' = c
    /\ UNCHANGED <<repeated, skipped, jumps, maxDelta, run, maxRun, level,
                   produced, reads, trail>>

\* Mutant: a jump counts the sample that was read as skipped too.
SkipsInJumpAll(d) == IF d > 1 THEN d ELSE 0

SkipsInJump(d) == IF d > 1 THEN d - 1 ELSE 0

Longest(d) == IF d = 0 THEN Larger(maxRun, run + 1) ELSE maxRun

\* The sensor produces n samples and the counter is read.
Observe(n) ==
    LET c == After(previous, n)
        d == Delta(c, previous)
    IN  /\ started
        /\ reads < MaxReads
        /\ d = 0 => run < MaxRun
        /\ previous' = c
        /\ repeated' = IF d = 0 THEN repeated + 1 ELSE repeated
        /\ run' = IF d = 0 THEN run + 1 ELSE 0
        /\ maxRun' = Longest(d)
        /\ maxDelta' = IF d = 0 THEN maxDelta ELSE Larger(maxDelta, d)
        /\ jumps' = IF d > 1 THEN jumps + 1 ELSE jumps
        /\ skipped' = skipped + SkipsInJump(d)
        /\ produced' = produced + n
        /\ reads' = reads + 1
        /\ trail' = IF n = 0 THEN trail + 1 ELSE 0
        /\ UNCHANGED <<started, level>>

ExpectedRepeats == Larger(0, ReadRate - SensorRate)
ExpectedSkips == Larger(0, SensorRate - ReadRate)

Error(longest) ==
    \/ longest >= RunError
    \/ repeated > ExpectedRepeats * 2 + RepeatError
    \/ skipped > ExpectedSkips * 2 + SkipError
    \/ maxDelta > JumpThreshold * 5

Warn(longest) ==
    \/ longest >= RunWarn
    \/ repeated > ExpectedRepeats * 2 + RepeatWarn
    \/ skipped > ExpectedSkips * 2 + SkipWarn
    \/ maxDelta > JumpThreshold

LevelOf(longest) ==
    IF Error(longest) THEN "ERROR" ELSE IF Warn(longest) THEN "WARN" ELSE "OK"

\* Mutant: the run of repeats ends with the window.
TakeAll ==
    /\ level' = LevelOf(Larger(run, maxRun))
    /\ repeated' = 0 /\ skipped' = 0 /\ jumps' = 0 /\ maxDelta' = 0
    /\ run' = 0 /\ maxRun' = 0
    /\ produced' = 0 /\ reads' = 0
    /\ UNCHANGED <<started, previous, trail>>

\* The window ends.  The run of repeats it ends in goes on in the next.
Take ==
    /\ level' = LevelOf(Larger(run, maxRun))
    /\ repeated' = 0 /\ skipped' = 0 /\ jumps' = 0 /\ maxDelta' = 0
    /\ maxRun' = run
    /\ produced' = 0 /\ reads' = 0
    /\ UNCHANGED <<started, previous, run, trail>>

\* reset_state_, at the deactivation.
Reset ==
    /\ started' = FALSE
    /\ previous' = 0
    /\ repeated' = 0 /\ skipped' = 0 /\ jumps' = 0 /\ maxDelta' = 0
    /\ run' = 0 /\ maxRun' = 0
    /\ produced' = 0 /\ reads' = 0 /\ trail' = 0
    /\ UNCHANGED level

Next ==
    \/ \E c \in 0 .. Modulus - 1 : ObserveFirst(c)
    \/ \E n \in Advances : Observe(n)
    \/ Take
    \/ Reset

Spec == Init /\ [][Next]_vars

----------------------------------------------------------------------------
(* Properties. *)

\* The statistics account for every sample the sensor produced in the window:
\* each was read, or is counted as skipped, across any number of rollovers.
SamplesAccounted == produced = (reads - repeated) + skipped

\* The jumps, the largest of them and the skipped samples agree: jumps skip at
\* least one sample each and at most the largest delta less one, and without a
\* jump nothing is skipped.
JumpsBoundSkips ==
    /\ jumps <= skipped
    /\ skipped <= jumps * Larger(0, maxDelta - 1)
    /\ jumps <= reads - repeated

\* The statistics of a window agree with the samples and with each other.
CountsAgree == SamplesAccounted /\ JumpsBoundSkips

\* The run of repeats is the number of reads since the counter moved, whatever
\* the windows they fell into.
RunIsTrail == run = trail /\ run <= maxRun

\* A sensor that stopped is reported: when as many reads as the warning needs
\* found the counter where it was, in one window or over several, the next
\* level taken is not OK, and neither is the one after as long as it stands.
StoppedIsReported == [][Take /\ trail >= RunWarn => level' # "OK"]_vars

\* A window whose reads each found the next sample is reported OK.
SteadyIsOk ==
    [][Take /\ trail = 0 /\ maxRun = 0 /\ produced = reads => level' = "OK"]_vars
================================================================================
