-------------------------- MODULE SampleCounterProofs --------------------------
(***************************************************************************)
(* For every modulus, every set of advances and all thresholds, the sample *)
(* counter statistics account for what the sensor produced.                *)
(***************************************************************************)
EXTENDS SampleCounter, TLAPS

\* Zero, to which reset_state_ sets the counter, is a value of it.
LEMMA ZeroInRange == 0 \in 0 .. Modulus - 1
<1>1. Modulus \in Nat /\ Modulus # 0
    BY CounterAssumption
<1>2. Modulus - 1 \in Nat
    BY <1>1
<1> QED
    BY <1>2

\* A counter that advanced stays in its range (the uint32_t of the PDO).
LEMMA AfterInRange ==
    ASSUME NEW p \in 0 .. Modulus - 1, NEW n \in 0 .. Modulus - 1
    PROVE  After(p, n) \in 0 .. Modulus - 1
BY CounterAssumption DEF After

\* The unsigned difference of observe_sample_counter is the number of samples
\* produced, rollover or not, as long as fewer than Modulus were.
LEMMA DeltaOfAfter ==
    ASSUME NEW p \in 0 .. Modulus - 1, NEW n \in 0 .. Modulus - 1
    PROVE  Delta(After(p, n), p) = n
BY CounterAssumption DEF After, Delta

\* An observation, by the samples the sensor produced.
LEMMA ObserveByAdvance ==
    ASSUME TypeOK, NEW n \in Advances, Observe(n)
    PROVE  /\ n \in 0 .. Modulus - 1
           /\ previous' = After(previous, n)
           /\ repeated' = IF n = 0 THEN repeated + 1 ELSE repeated
           /\ run' = IF n = 0 THEN run + 1 ELSE 0
           /\ maxRun' = Longest(n)
           /\ maxDelta' = IF n = 0 THEN maxDelta ELSE Larger(maxDelta, n)
           /\ jumps' = IF n > 1 THEN jumps + 1 ELSE jumps
           /\ skipped' = skipped + SkipsInJump(n)
           /\ produced' = produced + n
           /\ reads' = reads + 1
           /\ trail' = IF n = 0 THEN trail + 1 ELSE 0
           /\ UNCHANGED <<started, level>>
<1>1. n \in 0 .. Modulus - 1
    BY CounterAssumption
<1>2. Delta(After(previous, n), previous) = n
    BY <1>1, DeltaOfAfter DEF TypeOK
<1> QED
    BY <1>1, <1>2 DEF Observe

\* The statistics stay numbers: nothing underflows, and the largest delta is a
\* value the counter has.
THEOREM TypeCorrect == Spec => []TypeOK
<1>1. ASSUME Init PROVE TypeOK
  <2>1. started \in BOOLEAN /\ level \in {"none", "OK", "WARN", "ERROR"}
      BY <1>1 DEF Init
  <2>2. previous \in 0 .. Modulus - 1 /\ maxDelta \in 0 .. Modulus - 1
      BY <1>1, ZeroInRange DEF Init
  <2>3. /\ repeated \in Nat /\ skipped \in Nat /\ jumps \in Nat
        /\ run \in Nat /\ maxRun \in Nat
        /\ produced \in Nat /\ reads \in Nat /\ trail \in Nat
      BY <1>1 DEF Init
  <2> QED
      BY <2>1, <2>2, <2>3 DEF TypeOK
<1>2. TypeOK /\ [Next]_vars => TypeOK'
  <2> SUFFICES ASSUME TypeOK, [Next]_vars PROVE TypeOK'
      OBVIOUS
  <2>1. ASSUME NEW c \in 0 .. Modulus - 1, ObserveFirst(c) PROVE TypeOK'
      BY <2>1 DEF TypeOK, ObserveFirst
  <2>2. ASSUME NEW n \in Advances, Observe(n) PROVE TypeOK'
    <3>1. n \in 0 .. Modulus - 1 /\ previous' \in 0 .. Modulus - 1
        BY <2>2, ObserveByAdvance, AfterInRange DEF TypeOK
    <3>2. maxDelta' \in 0 .. Modulus - 1
        BY <2>2, <3>1, ObserveByAdvance DEF TypeOK, Larger
    <3>3. maxRun' \in Nat /\ skipped' \in Nat
        BY <2>2, <3>1, ObserveByAdvance DEF TypeOK, Longest, Larger, SkipsInJump
    <3> QED
        BY <2>2, <3>1, <3>2, <3>3, ObserveByAdvance DEF TypeOK
  <2>3. CASE Take
    <3>1. level' \in {"none", "OK", "WARN", "ERROR"}
        BY <2>3 DEF Take, LevelOf
    <3> QED
        BY <2>3, <3>1, ZeroInRange DEF Take, TypeOK
  <2>4. CASE Reset
      BY <2>4, ZeroInRange DEF Reset, TypeOK
  <2>5. CASE UNCHANGED vars
      BY <2>5 DEF TypeOK, vars, state
  <2> QED
      BY <2>1, <2>2, <2>3, <2>4, <2>5 DEF Next
<1> QED
    BY <1>1, <1>2, PTL DEF Spec

\* The statistics of a window account for every sample the sensor produced in
\* it, and no read is counted as repeated that is not.
Accounted == SamplesAccounted /\ repeated <= reads

THEOREM EverySampleAccounted == Spec => []SamplesAccounted
<1>1. Init => Accounted
    BY DEF Init, Accounted, SamplesAccounted
<1>2. TypeOK /\ Accounted /\ [Next]_vars => Accounted'
  <2> SUFFICES ASSUME TypeOK, Accounted, [Next]_vars PROVE Accounted'
      OBVIOUS
  <2>1. ASSUME NEW c \in 0 .. Modulus - 1, ObserveFirst(c) PROVE Accounted'
      BY <2>1 DEF Accounted, SamplesAccounted, ObserveFirst
  <2>2. ASSUME NEW n \in Advances, Observe(n) PROVE Accounted'
      BY <2>2, ObserveByAdvance DEF TypeOK, Accounted, SamplesAccounted, SkipsInJump
  <2>3. CASE Take
      BY <2>3 DEF Take, Accounted, SamplesAccounted
  <2>4. CASE Reset
      BY <2>4 DEF Reset, Accounted, SamplesAccounted
  <2>5. CASE UNCHANGED vars
      BY <2>5 DEF Accounted, SamplesAccounted, vars, state
  <2> QED
      BY <2>1, <2>2, <2>3, <2>4, <2>5 DEF Next
<1>3. Accounted => SamplesAccounted
    BY DEF Accounted
<1> QED
    BY <1>1, <1>2, <1>3, TypeCorrect, PTL DEF Spec

\* The run of repeats is the number of reads since the counter moved, also over
\* the end of a window.
THEOREM RunAcrossWindows == Spec => []RunIsTrail
<1>1. Init => RunIsTrail
    BY DEF Init, RunIsTrail
<1>2. TypeOK /\ RunIsTrail /\ [Next]_vars => RunIsTrail'
  <2> SUFFICES ASSUME TypeOK, RunIsTrail, [Next]_vars PROVE RunIsTrail'
      OBVIOUS
  <2>1. ASSUME NEW c \in 0 .. Modulus - 1, ObserveFirst(c) PROVE RunIsTrail'
      BY <2>1 DEF RunIsTrail, ObserveFirst
  <2>2. ASSUME NEW n \in Advances, Observe(n) PROVE RunIsTrail'
      BY <2>2, ObserveByAdvance DEF TypeOK, RunIsTrail, Longest, Larger
  <2>3. CASE Take
      BY <2>3 DEF Take, RunIsTrail, TypeOK
  <2>4. CASE Reset
      BY <2>4 DEF Reset, RunIsTrail
  <2>5. CASE UNCHANGED vars
      BY <2>5 DEF RunIsTrail, vars, state
  <2> QED
      BY <2>1, <2>2, <2>3, <2>4, <2>5 DEF Next
<1> QED
    BY <1>1, <1>2, TypeCorrect, PTL DEF Spec

\* A sensor that stopped is reported at every end of a window until it moves.
THEOREM StoppedSensorReported == Spec => StoppedIsReported
<1>1. TypeOK /\ RunIsTrail /\ [Next]_vars => [Take /\ trail >= RunWarn => level' # "OK"]_vars
  <2> SUFFICES ASSUME TypeOK, RunIsTrail, Take, trail >= RunWarn PROVE level' # "OK"
      OBVIOUS
  <2>1. Larger(run, maxRun) >= RunWarn
      BY ThresholdAssumption DEF RunIsTrail, TypeOK, Larger
  <2>2. Warn(Larger(run, maxRun))
      BY <2>1 DEF Warn
  <2> QED
      BY <2>2 DEF Take, LevelOf
<1> QED
    BY <1>1, TypeCorrect, RunAcrossWindows, PTL DEF Spec, StoppedIsReported

\* A longer jump makes a product no smaller.
LEMMA ProductGrows ==
    ASSUME NEW j \in Nat, NEW a \in Nat, NEW b \in Nat, a <= b
    PROVE  /\ j * a \in Nat /\ j * b \in Nat
           /\ j * a <= j * b
           /\ (j + 1) * b = j * b + b
OBVIOUS

\* What the jumps of a window skip is bounded by their number and the largest of
\* them (observe_sample_counter).
JumpsInv == JumpsBoundSkips /\ repeated <= reads

THEOREM JumpsAndSkipsAgree == Spec => []JumpsBoundSkips
<1>1. Init => JumpsInv
  <2>1. \A x \in Int : 0 * x = 0
      OBVIOUS
  <2> QED
      BY <2>1 DEF Init, JumpsInv, JumpsBoundSkips, Larger
<1>2. TypeOK /\ JumpsInv /\ [Next]_vars => JumpsInv'
  <2> SUFFICES ASSUME TypeOK, JumpsInv, [Next]_vars PROVE JumpsInv'
      OBVIOUS
  <2>1. ASSUME NEW c \in 0 .. Modulus - 1, ObserveFirst(c) PROVE JumpsInv'
      BY <2>1 DEF JumpsInv, JumpsBoundSkips, ObserveFirst
  <2>2. ASSUME NEW n \in Advances, Observe(n) PROVE JumpsInv'
    <3> DEFINE a == Larger(0, maxDelta - 1)
               b == Larger(0, maxDelta' - 1)
    <3>1. n \in Nat /\ maxDelta \in Nat /\ maxDelta' = IF n = 0 THEN maxDelta ELSE Larger(maxDelta, n)
        BY <2>2, ObserveByAdvance, CounterAssumption DEF TypeOK
    <3>2. a \in Nat /\ b \in Nat /\ a <= b /\ (n > 1 => n - 1 <= b)
        BY <3>1 DEF Larger
    <3>3. jumps \in Nat /\ skipped \in Nat /\ skipped <= jumps * a
        BY DEF TypeOK, JumpsInv, JumpsBoundSkips
    <3>4. /\ jumps * a \in Nat /\ jumps * b \in Nat
          /\ jumps * a <= jumps * b
          /\ (jumps + 1) * b = jumps * b + b
        BY <3>2, <3>3, ProductGrows
    <3> HIDE DEF a, b
    <3>5. skipped' <= jumps' * b
      <4>1. CASE n > 1
        <5>1. jumps' = jumps + 1 /\ skipped' = skipped + (n - 1)
            BY <2>2, <4>1, ObserveByAdvance DEF SkipsInJump
        <5> QED
            BY <3>1, <3>2, <3>3, <3>4, <4>1, <5>1
      <4>2. CASE ~(n > 1)
        <5>1. jumps' = jumps /\ skipped' = skipped
            BY <2>2, <3>1, <3>3, <4>2, ObserveByAdvance DEF SkipsInJump
        <5> QED
            BY <3>3, <3>4, <5>1
      <4> QED
          BY <4>1, <4>2
    <3>6. jumps' <= skipped' /\ jumps' <= reads' - repeated' /\ repeated' <= reads'
        BY <2>2, ObserveByAdvance, CounterAssumption
        DEF TypeOK, JumpsInv, JumpsBoundSkips, SkipsInJump
    <3> QED
        BY <3>5, <3>6 DEF JumpsInv, JumpsBoundSkips, b
  <2>3. CASE Take \/ Reset
    <3>1. /\ jumps' = 0 /\ skipped' = 0 /\ maxDelta' = 0
          /\ reads' = 0 /\ repeated' = 0
        BY <2>3 DEF Take, Reset
    <3>2. Larger(0, maxDelta' - 1) = 0
        BY <3>1 DEF Larger
    <3> QED
        BY <3>1, <3>2 DEF JumpsInv, JumpsBoundSkips
  <2>4. CASE UNCHANGED vars
      BY <2>4 DEF JumpsInv, JumpsBoundSkips, vars, state
  <2> QED
      BY <2>1, <2>2, <2>3, <2>4 DEF Next
<1>3. JumpsInv => JumpsBoundSkips
    BY DEF JumpsInv
<1> QED
    BY <1>1, <1>2, <1>3, TypeCorrect, PTL DEF Spec

\* A repeat shows in the longest run of its window, and a delta of more than one
\* in what is skipped.
MarksInv ==
    /\ repeated > 0 => maxRun > 0
    /\ maxDelta > 1 => skipped > 0

LEMMA MarksStay == Spec => []MarksInv
<1>1. Init => MarksInv
    BY DEF Init, MarksInv
<1>2. TypeOK /\ MarksInv /\ [Next]_vars => MarksInv'
  <2> SUFFICES ASSUME TypeOK, MarksInv, [Next]_vars PROVE MarksInv'
      OBVIOUS
  <2>1. ASSUME NEW c \in 0 .. Modulus - 1, ObserveFirst(c) PROVE MarksInv'
      BY <2>1 DEF MarksInv, ObserveFirst
  <2>2. ASSUME NEW n \in Advances, Observe(n) PROVE MarksInv'
    <3>1. repeated' > 0 => maxRun' > 0
        BY <2>2, ObserveByAdvance DEF TypeOK, MarksInv, Longest, Larger
    <3>2. maxDelta' > 1 => skipped' > 0
        BY <2>2, ObserveByAdvance, CounterAssumption DEF TypeOK, MarksInv, Larger, SkipsInJump
    <3> QED
        BY <3>1, <3>2 DEF MarksInv
  <2>3. CASE Take \/ Reset
      BY <2>3 DEF Take, Reset, MarksInv
  <2>4. CASE UNCHANGED vars
      BY <2>4 DEF MarksInv, vars, state
  <2> QED
      BY <2>1, <2>2, <2>3, <2>4 DEF Next
<1> QED
    BY <1>1, <1>2, TypeCorrect, PTL DEF Spec

\* A window whose reads each found the next sample is reported OK, whatever the
\* thresholds are.
THEOREM SteadySensorOk == Spec => SteadyIsOk
<1>1. TypeOK /\ SamplesAccounted /\ RunIsTrail /\ MarksInv /\ [Next]_vars =>
        [Take /\ trail = 0 /\ maxRun = 0 /\ produced = reads => level' = "OK"]_vars
  <2> SUFFICES ASSUME TypeOK, SamplesAccounted, RunIsTrail, MarksInv,
                      Take, trail = 0, maxRun = 0, produced = reads
               PROVE  level' = "OK"
      OBVIOUS
  <2>1. repeated = 0 /\ skipped = 0 /\ maxDelta <= 1 /\ maxDelta \in Nat
      BY CounterAssumption DEF TypeOK, SamplesAccounted, MarksInv
  <2>2. Larger(run, maxRun) = 0
      BY DEF RunIsTrail, Larger
  <2>3. ExpectedRepeats \in Nat /\ ExpectedSkips \in Nat
      BY CounterAssumption DEF ExpectedRepeats, ExpectedSkips, Larger
  <2>4. ~Error(0) /\ ~Warn(0)
      BY <2>1, <2>3, ThresholdAssumption DEF Error, Warn
  <2> QED
      BY <2>2, <2>4 DEF Take, LevelOf
<1> QED
    BY <1>1, TypeCorrect, EverySampleAccounted, RunAcrossWindows, MarksStay, PTL
    DEF Spec, SteadyIsOk

\* Every window counts exactly what the sensor advanced, and its jumps bound what it
\* skipped, for every sampling of an idle or busy main loop.
THEOREM WindowsAgree == Spec => []CountsAgree
BY EverySampleAccounted, JumpsAndSkipsAgree, PTL DEF CountsAgree
================================================================================
