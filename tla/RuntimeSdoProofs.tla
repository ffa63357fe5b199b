---------------------------- MODULE RuntimeSdoProofs ----------------------------
(***************************************************************************)
(* For every limit of lock failures, one attempt runs at a time, and a     *)
(* pause is justified by what the attempts came to, and final.             *)
(***************************************************************************)
EXTENDS RuntimeSdoHistory, FiniteSetTheorems, SequenceTheorems, TLAPS

\* What keeps one attempt at a time is that a running worker has its future;
\* what keeps the run of lock failures in its limit is that the failure that
\* reaches it pauses the attempts with none outstanding.
SupervisorInv ==
    /\ TypeOK
    /\ OneAttempt
    /\ workers = 1 => valid
    /\ busyRun = LockFailureLimit => paused /\ ~valid
    /\ PauseHasReason
    /\ Enabled \/ row = "STALE"

LEMMA SupervisorInitially == Init => SupervisorInv
<1> SUFFICES ASSUME Init PROVE SupervisorInv
    OBVIOUS
<1>1. LockFailureLimit \in Nat /\ LockFailureLimit # 0
    BY SdoAssumption
<1>2. busyRun \in 0 .. LockFailureLimit /\ busyRun # LockFailureLimit
    BY <1>1 DEF Init
<1>3. valid \in BOOLEAN /\ paused \in BOOLEAN /\ workers \in Nat
    BY DEF Init
<1>4. row \in Levels /\ reason \in {"none", "running", "exceeded", "busy"}
    BY DEF Init, Levels
<1>5. result \in Results \cup {Nothing}
    BY DEF Init
<1>6. TypeOK
    BY <1>2, <1>3, <1>4, <1>5 DEF TypeOK
<1> QED
    BY <1>2, <1>6 DEF Init, SupervisorInv, OneAttempt, PauseHasReason

\* What a tick does to the future and its worker.
LEMMA TickStarts ==
    ASSUME NEW overdue \in BOOLEAN, Tick(overdue)
    PROVE  /\ valid' <=> Waiting \/ Starts(overdue)
           /\ Starts(overdue) => workers' = workers + 1 /\ ~paused' /\ ~Waiting /\ Enabled
           /\ ~Starts(overdue) => workers' = workers
<1>1. valid' <=> Waiting \/ Starts(overdue)
    BY Zenon DEF Tick
<1>2. Starts(overdue) => workers' = workers + 1
    BY Zenon DEF Tick
<1>3. ~Starts(overdue) => workers' = workers
    BY Zenon DEF Tick
<1>4. Starts(overdue) => ~paused' /\ ~Waiting /\ Enabled
    BY Zenon DEF Tick, Starts
<1> QED
    BY <1>1, <1>2, <1>3, <1>4

\* The run of lock failures after a tick.
LEMMA BusyRunStaysInLimit ==
    ASSUME SupervisorInv, NEW overdue \in BOOLEAN, Tick(overdue)
    PROVE  /\ busyRun' \in 0 .. LockFailureLimit
           /\ busyRun' = LockFailureLimit => paused' /\ ~valid'
<1>1. LockFailureLimit \in Nat /\ LockFailureLimit # 0 /\ busyRun \in 0 .. LockFailureLimit
    BY SdoAssumption DEF SupervisorInv, TypeOK
<1>2. CASE Judged("busy")
  <2>1. valid /\ ~Waiting
      BY <1>2 DEF Judged, Collecting, Waiting, SupervisorInv, TypeOK
  <2>2. busyRun < LockFailureLimit /\ busyRun' = busyRun + 1
      BY <1>1, <1>2, <2>1 DEF SupervisorInv, Tick, BusyRunAfter
  <2>3. BusyRunAfter = busyRun'
      BY <1>1 DEF Tick
  <2>4. ASSUME busyRun' = LockFailureLimit PROVE PausedAfter(overdue)
    <3>1. BusyRunAfter >= LockFailureLimit
        BY <1>1, <2>3, <2>4
    <3> QED
        BY <1>2, <3>1 DEF PausedAfter, TooBusy
  <2>5. paused' = PausedAfter(overdue)
      BY DEF Tick
  <2>6. busyRun' = LockFailureLimit => paused'
      BY <2>4, <2>5, Zenon
  <2>7. busyRun' = LockFailureLimit => ~valid'
      BY <2>1, <2>6, TickStarts, Zenon
  <2> QED
      BY <1>1, <2>2, <2>6, <2>7
<1>3. CASE Collecting /\ ~Judged("busy")
    BY <1>1, <1>3 DEF Tick, BusyRunAfter
<1>4. CASE ~Collecting
  <2>1. busyRun' = busyRun
      BY <1>4 DEF Tick, BusyRunAfter, Judged
  <2>2. busyRun = LockFailureLimit => paused /\ ~Waiting
      BY DEF SupervisorInv, Waiting
  <2> QED
      BY <1>1, <2>1, <2>2 DEF Tick, Starts, PausedAfter
<1> QED
    BY <1>2, <1>3, <1>4

LEMMA SupervisorKept == SupervisorInv /\ [Next]_vars => SupervisorInv'
<1> SUFFICES ASSUME SupervisorInv, [Next]_vars PROVE SupervisorInv'
    OBVIOUS
<1>1. ASSUME NEW overdue \in BOOLEAN, Tick(overdue) PROVE SupervisorInv'
  <2>1. /\ busyRun' \in 0 .. LockFailureLimit
        /\ busyRun' = LockFailureLimit => paused' /\ ~valid'
      BY <1>1, BusyRunStaysInLimit
  <2>2. workers \in {0, 1} /\ (workers = 1 => Waiting)
      BY DEF SupervisorInv, TypeOK, OneAttempt, Waiting
  <2>3. workers' \in {0, 1} /\ (workers' = 1 => valid')
    <3>1. CASE Starts(overdue)
      <4>1. workers' = workers + 1 /\ ~Waiting /\ valid'
          BY <1>1, <3>1, TickStarts, Zenon
      <4> QED
          BY <2>2, <4>1
    <3>2. CASE ~Starts(overdue)
      <4>1. workers' = workers /\ (Waiting => valid')
          BY <1>1, <3>2, TickStarts, Zenon
      <4> QED
          BY <2>2, <4>1
    <3> QED
        BY <3>1, <3>2
  <2>4. valid' \in BOOLEAN /\ paused' \in BOOLEAN
      BY <1>1 DEF Tick, Waiting, Starts, PausedAfter, TooLate, TooSlow, TooBusy,
                  SupervisorInv, TypeOK
  <2>5. result' \in Results \cup {Nothing}
      BY <1>1 DEF Tick, SupervisorInv, TypeOK
  <2>6. reason' \in {"none", "running", "exceeded", "busy"}
      BY <1>1 DEF Tick, ReasonAfter, SupervisorInv, TypeOK
  <2>7. row' \in Levels
      BY <1>1 DEF Tick, RowAfter, LevelOfResult, Levels
  <2>8. PauseHasReason'
      BY <1>1 DEF Tick, ReasonAfter, PausedAfter, SupervisorInv, PauseHasReason
  <2>9. Enabled \/ row' = "STALE"
      BY <1>1 DEF Tick, RowAfter
  <2> QED
      BY <2>1, <2>3, <2>4, <2>5, <2>6, <2>7, <2>8, <2>9
      DEF SupervisorInv, TypeOK, OneAttempt
<1>2. ASSUME NEW kind \in Kinds, NEW slow \in BOOLEAN, Deliver(kind, slow)
      PROVE  SupervisorInv'
  <2>1. result' \in Results
      BY <1>2 DEF Deliver, Results
  <2>2. workers' = 0
      BY <1>2 DEF Deliver, SupervisorInv, TypeOK, OneAttempt
  <2> QED
      BY <1>2, <2>1, <2>2 DEF Deliver, SupervisorInv, TypeOK, OneAttempt, PauseHasReason
<1>3. CASE UNCHANGED vars
    BY <1>3 DEF vars, SupervisorInv, TypeOK, OneAttempt, PauseHasReason
<1> QED
    BY <1>1, <1>2, <1>3 DEF Next, TickStep, WorkerStep

LEMMA SupervisorAlways == Spec => []SupervisorInv
BY SupervisorInitially, SupervisorKept, PTL DEF Spec

\* No second runtime SDO is started while one is running.
THEOREM AtMostOneAttempt == Spec => []OneAttempt
<1>1. SupervisorInv => OneAttempt
    BY DEF SupervisorInv
<1> QED
    BY <1>1, SupervisorAlways, PTL

\* The attempts are paused exactly when a reason is published with it.
THEOREM PauseIsExplained == Spec => []PauseHasReason
<1>1. SupervisorInv => PauseHasReason
    BY DEF SupervisorInv
<1> QED
    BY <1>1, SupervisorAlways, PTL

\* The supervisor's state keeps its type; the run of lock failures never
\* exceeds its limit, also when a pause comes while an attempt runs.
THEOREM SupervisorTyped == Spec => []TypeOK
<1>1. SupervisorInv => TypeOK
    BY DEF SupervisorInv
<1> QED
    BY <1>1, SupervisorAlways, PTL

\* A pause is final: it stays, it starts nothing, and its row stays a warning.
THEOREM PauseStays == Spec => PauseIsFinal
<1>1. SupervisorInv /\ [Next]_vars =>
        [paused => /\ paused'
                   /\ workers' <= workers
                   /\ (row' # row => row' = "WARN")]_vars
  <2> SUFFICES ASSUME SupervisorInv, Next, paused
               PROVE  paused' /\ workers' <= workers /\ (row' # row => row' = "WARN")
      OBVIOUS
  <2>1. ASSUME NEW overdue \in BOOLEAN, Tick(overdue)
        PROVE  paused' /\ workers' <= workers /\ (row' # row => row' = "WARN")
    <3>1. PausedAfter(overdue)
        BY Zenon DEF PausedAfter
    <3>2. paused'
        BY <2>1, <3>1, Zenon DEF Tick
    <3>3. ~Starts(overdue)
        BY <3>1, Zenon DEF Starts
    <3>4. workers' = workers /\ workers \in Nat
        BY <2>1, <3>3, TickStarts, Zenon DEF SupervisorInv, TypeOK
    <3>5. CASE Enabled
      <4>1. RowAfter(overdue) = "WARN"
          BY <3>1, <3>5 DEF RowAfter
      <4> QED
          BY <2>1, <3>2, <3>4, <4>1 DEF Tick
    <3>6. CASE ~Enabled
      <4>1. RowAfter(overdue) = "STALE" /\ row = "STALE"
          BY <3>6 DEF RowAfter, SupervisorInv
      <4> QED
          BY <2>1, <3>2, <3>4, <4>1 DEF Tick
    <3> QED
        BY <3>5, <3>6
  <2>2. ASSUME NEW kind \in Kinds, NEW slow \in BOOLEAN, Deliver(kind, slow)
        PROVE  paused' /\ workers' <= workers /\ (row' # row => row' = "WARN")
      BY <2>2 DEF Deliver, SupervisorInv, TypeOK
  <2> QED
      BY <2>1, <2>2 DEF Next, TickStep, WorkerStep
<1> QED
    BY <1>1, SupervisorAlways, PTL DEF Spec, PauseIsFinal

\* An alarm of the sensor is never shown as good or stale, whatever else the tick finds.
THEOREM AlarmIsShown == Spec => AlarmShown
<1>1. [TickStep /\ Judged("alarm") /\ Enabled =>
         row' = "ERROR" \/ (paused' /\ row' = "WARN")]_vars
  <2> SUFFICES ASSUME NEW overdue \in BOOLEAN, Tick(overdue), Judged("alarm"), Enabled
               PROVE  row' = "ERROR" \/ (paused' /\ row' = "WARN")
      BY DEF TickStep
  <2>1. row' = RowAfter(overdue) /\ (PausedAfter(overdue) => paused')
      BY Zenon DEF Tick
  <2>2. LevelOfResult = "ERROR"
      BY DEF LevelOfResult, Judged
  <2> QED
      BY <2>1, <2>2 DEF RowAfter
<1> QED
    BY <1>1, PTL DEF AlarmShown

----------------------------------------------------------------------------
(* The supervisor against the record of its attempts. *)

RecordTyped ==
    /\ log \in Seq(Results)
    /\ success \in Nat /\ skipped \in Nat /\ failed \in Nat
    /\ launched \in Nat /\ waits \in Nat /\ rests \in Nat
    /\ late \in BOOLEAN /\ over \in BOOLEAN

RecordInv ==
    RecordTyped /\ PausedIffCause /\ EveryAttemptCollected /\ CountersAddUp

\* The record only watches.
LEMMA RecordWatches == [HistoryNext]_historyVars => [Next]_vars
BY DEF HistoryNext, SomeTick, SomeDelivery, CountedTick, UncountedTick, EndOfRecord,
       historyVars, Next, TickStep

\* The supervisor that is recorded is the supervisor.
THEOREM HistoryImplementsSpec == HistorySpec => Spec
<1>1. HistoryInit => Init
    BY DEF HistoryInit
<1> QED
    BY <1>1, RecordWatches, PTL DEF HistorySpec, Spec

\* No attempt, no record.
LEMMA RecordInitially == HistoryInit => RecordInv
<1> SUFFICES ASSUME HistoryInit PROVE RecordInv
    OBVIOUS
<1>1. log = <<>> /\ Len(log) = 0
    BY DEF HistoryInit
<1>2. RecordTyped
  <2>1. log \in Seq(Results)
      BY <1>1
  <2>2. late \in BOOLEAN /\ over \in BOOLEAN
      BY Zenon DEF HistoryInit
  <2> QED
      BY <2>1, <2>2 DEF HistoryInit, RecordTyped
<1>3. PausedIffCause
    BY <1>1 DEF HistoryInit, Init, PausedIffCause
<1>4. EveryAttemptCollected
    BY <1>1 DEF HistoryInit, Init, EveryAttemptCollected, One
<1>5. CountersAddUp
  <2>1. {i \in 1 .. Len(log) : log[i].kind = "failed"} = {}
      BY <1>1
  <2>2. Cardinality({}) = 0
      BY FS_EmptySet
  <2>3. AllBusy(log, Len(log), busyRun) /\ ~AllBusy(log, Len(log), busyRun + 1)
      BY <1>1 DEF HistoryInit, Init, AllBusy
  <2> QED
      BY <1>1, <2>1, <2>2, <2>3 DEF HistoryInit, CountersAddUp
<1> QED
    BY <1>2, <1>3, <1>4, <1>5 DEF RecordInv

\* What the supervisor's invariant says of the outstanding attempt.
LEMMA Outstanding ==
    ASSUME SupervisorInv, RecordInv, ~over
    PROVE  /\ workers \in {0, 1}
           /\ ~(Waiting /\ Collecting) /\ (valid <=> Waiting \/ Collecting)
           /\ Collecting => result \in Results
           /\ ~valid => result = Nothing
<1>1. workers \in {0, 1} /\ (workers = 1 => valid)
    BY DEF SupervisorInv, TypeOK, OneAttempt
<1>2. valid <=> workers = 1 \/ result # Nothing
    BY DEF RecordInv, EveryAttemptCollected
<1>3. result \in Results \cup {Nothing} /\ valid \in BOOLEAN
    BY DEF SupervisorInv, TypeOK
<1> QED
    BY <1>1, <1>2, <1>3 DEF Waiting, Collecting

\* A result more in a sequence.
LEMMA Appended ==
    ASSUME NEW s \in Seq(Results), NEW r \in Results, NEW t, t = Append(s, r)
    PROVE  /\ t \in Seq(Results)
           /\ Len(s) \in Nat /\ Len(t) = Len(s) + 1
           /\ \A i \in 1 .. Len(s) : t[i] = s[i]
           /\ t[Len(s) + 1] = r
BY AppendProperties

\* Runs of busy results get longer at the end only.
LEMMA BusyAppended ==
    ASSUME NEW s \in Seq(Results), NEW r \in Results, NEW t, t = Append(s, r)
    PROVE  /\ \A i \in 0 .. Len(s), n \in Nat : AllBusy(t, i, n) <=> AllBusy(s, i, n)
           /\ \A n \in Nat \ {0} :
                AllBusy(t, Len(t), n) <=> r.kind = "busy" /\ AllBusy(s, Len(s), n - 1)
           /\ AllBusy(t, Len(t), 0)
<1> USE Appended DEF AllBusy
<1>1. ASSUME NEW i \in 0 .. Len(s), NEW n \in Nat
      PROVE  AllBusy(t, i, n) <=> AllBusy(s, i, n)
    OBVIOUS
<1>2. ASSUME NEW n \in Nat \ {0}
      PROVE  AllBusy(t, Len(t), n) <=> r.kind = "busy" /\ AllBusy(s, Len(s), n - 1)
  <2>1. \A j \in 1 .. Len(t) : j <= Len(s) \/ j = Len(t)
      OBVIOUS
  <2>2. n <= Len(t) <=> n - 1 <= Len(s)
      OBVIOUS
  <2>3. ASSUME n <= Len(t)
        PROVE  (\A j \in Len(t) - n + 1 .. Len(t) : t[j].kind = "busy")
               <=> r.kind = "busy" /\ \A j \in Len(s) - (n - 1) + 1 .. Len(s) : s[j].kind = "busy"
    <3>1. Len(t) - n + 1 = Len(s) - (n - 1) + 1
        OBVIOUS
    <3>2. \A j : j \in Len(t) - n + 1 .. Len(t)
                 <=> j = Len(t) \/ j \in Len(s) - (n - 1) + 1 .. Len(s)
        BY <2>3
    <3>3. \A j \in Len(s) - (n - 1) + 1 .. Len(s) : t[j] = s[j]
        BY <2>3
    <3>4. t[Len(t)] = r
        OBVIOUS
    <3> DEFINE J == Len(t) - n + 1 .. Len(t)
               I == Len(s) - (n - 1) + 1 .. Len(s)
    <3> HIDE DEF I, J
    <3>5. (\A j \in J : t[j].kind = "busy") <=> r.kind = "busy" /\ \A j \in I : s[j].kind = "busy"
        BY ONLY <3>2, <3>3, <3>4 DEF I, J
    <3> QED
        BY ONLY <3>5 DEF I, J
  <2> QED
      BY <2>2, <2>3
<1>3. AllBusy(t, Len(t), 0)
    OBVIOUS
<1> QED
    BY <1>1, <1>2, <1>3

\* A run of busy results has shorter ones at its end.
LEMMA BusyShorter ==
    ASSUME NEW s, NEW i \in Nat, NEW m \in Nat, NEW n \in Nat, m <= n, AllBusy(s, i, n)
    PROVE  AllBusy(s, i, m)
BY DEF AllBusy

\* The failures of a longer record.
LEMMA FailuresAppended ==
    ASSUME NEW s \in Seq(Results), NEW r \in Results, NEW t, t = Append(s, r)
    PROVE  Cardinality({i \in 1 .. Len(t) : t[i].kind = "failed"})
           = Cardinality({i \in 1 .. Len(s) : s[i].kind = "failed"})
             + One(r.kind = "failed")
<1> DEFINE F == {i \in 1 .. Len(s) : s[i].kind = "failed"}
<1>1. IsFiniteSet(F) /\ Cardinality(F) \in Nat
  <2>1. IsFiniteSet(1 .. Len(s))
      BY FS_Interval, Appended
  <2> QED
      BY <2>1, FS_Subset, FS_CardinalityType
<1>2. Len(t) \notin F /\ Len(t) = Len(s) + 1 /\ t[Len(t)] = r
    BY Appended
<1>3. CASE r.kind = "failed"
  <2>1. {i \in 1 .. Len(t) : t[i].kind = "failed"} = F \cup {Len(t)}
      BY <1>2, <1>3, Appended
  <2>2. Cardinality(F \cup {Len(t)}) = Cardinality(F) + 1
      BY <1>1, <1>2, FS_AddElement
  <2> QED
      BY <1>3, <2>1, <2>2 DEF One
<1>4. CASE r.kind # "failed"
  <2>1. {i \in 1 .. Len(t) : t[i].kind = "failed"} = F
      BY <1>2, <1>4, Appended
  <2>2. Cardinality({i \in 1 .. Len(t) : t[i].kind = "failed"}) = Cardinality(F)
      BY <2>1
  <2>3. One(r.kind = "failed") = 0
      BY <1>4 DEF One
  <2> HIDE DEF F
  <2>4. Cardinality(F) = Cardinality(F) + One(r.kind = "failed")
      BY <1>1, <2>3
  <2> QED
      BY <2>2, <2>4, Zenon DEF F
<1> QED
    BY <1>3, <1>4

----------------------------------------------------------------------------
(* A tick of the timer that is recorded. *)

\* What is collected is recorded, and nothing else.
LEMMA TickRecords ==
    ASSUME SupervisorInv, RecordInv, NEW overdue \in BOOLEAN, CountedTick(overdue)
    PROVE  /\ ~over /\ ~over'
           /\ paused' <=> PausedAfter(overdue)
           /\ late' <=> late \/ (Waiting /\ overdue)
           /\ Collecting => result \in Results /\ log' = Append(log, result) /\ ~Waiting
           /\ ~Collecting => log' = log
<1>1. ~over /\ ~over'
    BY Zenon DEF CountedTick
<1>2. paused' <=> PausedAfter(overdue)
    BY Zenon DEF CountedTick, Tick
<1>3. late' <=> late \/ (Waiting /\ overdue)
    BY Zenon DEF CountedTick
<1>4. Collecting => result \in Results /\ log' = Append(log, result) /\ ~Waiting
    BY <1>1, Outstanding DEF CountedTick
<1>5. ~Collecting => log' = log
    BY DEF CountedTick
<1> QED
    BY <1>1, <1>2, <1>3, <1>4, <1>5

\* The run at the end of the record reaches the limit exactly when the tick finds the
\* lock to have been busy too often.
LEMMA LimitReached ==
    ASSUME SupervisorInv, RecordInv, NEW overdue \in BOOLEAN, CountedTick(overdue), Collecting
    PROVE  AllBusy(log', Len(log'), LockFailureLimit) <=> TooBusy
<1>1. /\ log \in Seq(Results) /\ Len(log) \in Nat /\ busyRun \in Nat
      /\ LockFailureLimit \in Nat \ {0}
    BY SdoAssumption DEF SupervisorInv, TypeOK, RecordInv, RecordTyped
<1>2. AllBusy(log, Len(log), busyRun) /\ ~AllBusy(log, Len(log), busyRun + 1)
    BY TickRecords DEF RecordInv, CountersAddUp
<1>3. AllBusy(log, Len(log), LockFailureLimit - 1) <=> LockFailureLimit <= busyRun + 1
  <2>1. CASE LockFailureLimit <= busyRun + 1
    <3>1. LockFailureLimit - 1 \in Nat /\ LockFailureLimit - 1 <= busyRun
        BY <1>1, <2>1
    <3> QED
        BY <1>1, <1>2, <2>1, <3>1, BusyShorter
  <2>2. CASE ~(LockFailureLimit <= busyRun + 1)
    <3>1. LockFailureLimit - 1 \in Nat /\ busyRun + 1 \in Nat
          /\ busyRun + 1 <= LockFailureLimit - 1
        BY <1>1, <2>2
    <3> QED
        BY <1>1, <1>2, <2>2, <3>1, BusyShorter
  <2> QED
      BY <2>1, <2>2
<1>4. AllBusy(log', Len(log'), LockFailureLimit)
      <=> result.kind = "busy" /\ AllBusy(log, Len(log), LockFailureLimit - 1)
    BY <1>1, TickRecords, BusyAppended
<1>5. TooBusy <=> result.kind = "busy" /\ LockFailureLimit <= busyRun + 1
    BY <1>1 DEF TooBusy, Judged, BusyRunAfter
<1> QED
    BY <1>3, <1>4, <1>5

\* A tick pauses exactly when what it records is a cause.
LEMMA TickPauses ==
    ASSUME SupervisorInv, RecordInv, NEW overdue \in BOOLEAN, CountedTick(overdue)
    PROVE  PausedIffCause'
<1>1. /\ ~over /\ ~over'
      /\ paused' <=> PausedAfter(overdue)
      /\ late' <=> late \/ (Waiting /\ overdue)
    BY TickRecords
<1>2. paused <=> \/ late
                 \/ \E i \in 1 .. Len(log) : log[i].slow
                 \/ \E i \in 1 .. Len(log) : AllBusy(log, i, LockFailureLimit)
    BY <1>1 DEF RecordInv, PausedIffCause
<1>3. CASE Collecting
  <2>1. /\ log \in Seq(Results) /\ LockFailureLimit \in Nat
        /\ result \in Results /\ log' = Append(log, result) /\ ~Waiting
      BY <1>3, SdoAssumption, TickRecords DEF RecordInv, RecordTyped
  <2>2. /\ Len(log) \in Nat /\ Len(log') = Len(log) + 1
        /\ \A i \in 1 .. Len(log) : log'[i] = log[i]
        /\ log'[Len(log')] = result
      BY <2>1, Appended
  <2>3. (\E i \in 1 .. Len(log') : log'[i].slow)
        <=> (\E i \in 1 .. Len(log) : log[i].slow) \/ result.slow
      BY <2>2
  <2>4. (\E i \in 1 .. Len(log') : AllBusy(log', i, LockFailureLimit))
        <=> (\E i \in 1 .. Len(log) : AllBusy(log, i, LockFailureLimit)) \/ TooBusy
    <3>1. \A i \in 1 .. Len(log) :
            AllBusy(log', i, LockFailureLimit) <=> AllBusy(log, i, LockFailureLimit)
      <4>1. \A i \in 0 .. Len(log) :
              AllBusy(log', i, LockFailureLimit) <=> AllBusy(log, i, LockFailureLimit)
          BY <2>1, BusyAppended
      <4> QED
          BY <2>2, <4>1
    <3>2. AllBusy(log', Len(log'), LockFailureLimit) <=> TooBusy
        BY <1>3, LimitReached
    <3> QED
        BY <2>2, <3>1, <3>2
  <2>5. PausedAfter(overdue) <=> paused \/ result.slow \/ TooBusy
      BY <1>3, <2>1 DEF PausedAfter, TooLate, TooSlow
  <2> QED
      BY <1>1, <1>2, <2>1, <2>3, <2>4, <2>5 DEF PausedIffCause
<1>4. CASE ~Collecting
  <2>1. log' = log
      BY <1>4, TickRecords
  <2>2. PausedAfter(overdue) <=> paused \/ (Waiting /\ overdue)
      BY <1>4 DEF PausedAfter, TooLate, TooSlow, TooBusy, Judged
  <2> QED
      BY <1>1, <1>2, <2>1, <2>2 DEF PausedIffCause
<1> QED
    BY <1>3, <1>4

\* A tick collects at most the attempt that was outstanding, and starts at most one.
LEMMA TickCollects ==
    ASSUME SupervisorInv, RecordInv, NEW overdue \in BOOLEAN, CountedTick(overdue)
    PROVE  EveryAttemptCollected'
<1>1. /\ workers \in {0, 1} /\ ~(Waiting /\ Collecting) /\ (valid <=> Waiting \/ Collecting)
      /\ ~valid => result = Nothing
    BY TickRecords, Outstanding
<1>2. /\ launched = Len(log) + One(valid)
      /\ valid <=> workers = 1 \/ result # Nothing
      /\ launched \in Nat /\ log \in Seq(Results) /\ valid \in BOOLEAN
    BY TickRecords DEF RecordInv, RecordTyped, EveryAttemptCollected, SupervisorInv, TypeOK
<1>3. /\ valid' <=> Waiting \/ Starts(overdue)
      /\ Starts(overdue) => workers' = workers + 1 /\ ~Waiting
      /\ ~Starts(overdue) => workers' = workers
  <2>1. Tick(overdue)
      BY DEF CountedTick
  <2> QED
      BY <2>1, TickStarts
<1>4. /\ result' = IF Waiting THEN result ELSE Nothing
      /\ launched' = launched + (workers' - workers)
    BY DEF CountedTick, Tick
<1>5. Len(log) \in Nat /\ Len(log') = Len(log) + One(Collecting)
  <2>1. CASE Collecting
      BY <1>2, <2>1, TickRecords, Appended DEF One
  <2>2. CASE ~Collecting
      BY <1>2, <2>2, TickRecords DEF One
  <2> QED
      BY <2>1, <2>2
<1>6. workers = 1 <=> Waiting
    BY <1>1 DEF Waiting, Collecting, SupervisorInv
<1>7. launched' = Len(log') + One(valid')
  <2>1. One(valid) = One(Collecting) + One(Waiting)
      BY <1>1 DEF One
  <2>2. workers' - workers = One(valid') - One(Waiting)
      BY <1>1, <1>3 DEF One
  <2>3. One(valid) \in {0, 1} /\ One(valid') \in {0, 1}
        /\ One(Waiting) \in {0, 1} /\ One(Collecting) \in {0, 1}
      BY DEF One
  <2> QED
      BY <1>2, <1>4, <1>5, <2>1, <2>2, <2>3
<1>8. valid' <=> workers' = 1 \/ result' # Nothing
    BY <1>1, <1>2, <1>3, <1>4, <1>6
<1> QED
    BY <1>7, <1>8 DEF EveryAttemptCollected

\* A tick counts each result once, and each wait and each rest.
LEMMA TickCounts ==
    ASSUME SupervisorInv, RecordInv, NEW overdue \in BOOLEAN, CountedTick(overdue)
    PROVE  CountersAddUp' /\ RecordTyped'
<1>1. /\ ~over /\ log \in Seq(Results) /\ Len(log) \in Nat /\ busyRun \in Nat
      /\ success \in Nat /\ skipped \in Nat /\ failed \in Nat
      /\ launched \in Nat /\ waits \in Nat /\ rests \in Nat
    BY TickRecords DEF RecordInv, RecordTyped, SupervisorInv, TypeOK
<1>2. /\ success + failed + skipped = Len(log) + waits + rests
      /\ failed = Cardinality({i \in 1 .. Len(log) : log[i].kind = "failed"})
      /\ AllBusy(log, Len(log), busyRun) /\ ~AllBusy(log, Len(log), busyRun + 1)
    BY <1>1 DEF RecordInv, CountersAddUp
<1>3. /\ success' = success + One(Judged("reading") \/ Judged("alarm"))
      /\ skipped' = skipped + Skips(overdue)
      /\ failed' = failed + One(Judged("failed"))
      /\ waits' = waits + One(Waiting)
      /\ rests' = rests + One(~Enabled \/ PausedAfter(overdue))
      /\ busyRun' = BusyRunAfter
    BY DEF CountedTick, Tick, Fails
<1> DEFINE good == One(Judged("reading") \/ Judged("alarm"))
           idle == One(Judged("busy") \/ Judged("inactive"))
           bad == One(Judged("failed"))
           wait == One(Waiting)
           rest == One(~Enabled \/ PausedAfter(overdue))
<1>4. /\ good \in {0, 1} /\ idle \in {0, 1} /\ bad \in {0, 1}
      /\ wait \in {0, 1} /\ rest \in {0, 1}
    BY DEF One
<1>5. /\ success' = success + good /\ failed' = failed + bad
      /\ skipped' = skipped + (wait + idle + rest)
      /\ waits' = waits + wait /\ rests' = rests + rest
    BY <1>3 DEF Skips
<1> HIDE DEF good, idle, bad, wait, rest
<1>6. success' \in Nat /\ skipped' \in Nat /\ failed' \in Nat /\ waits' \in Nat /\ rests' \in Nat
    BY <1>1, <1>4, <1>5
<1>7. success + failed + skipped = Len(log) + waits + rests
    BY <1>2
<1>8. launched' \in Nat
  <2>1. /\ launched' = launched + (workers' - workers) /\ workers \in Nat
        /\ workers' = workers \/ workers' = workers + 1
      BY TickStarts DEF CountedTick, SupervisorInv, TypeOK
  <2> QED
      BY <1>1, <2>1
<1>9. late' \in BOOLEAN /\ over' \in BOOLEAN
  <2>1. late' = (late \/ (Waiting /\ overdue)) /\ over' = over
      BY DEF CountedTick
  <2> QED
      BY <2>1, Zenon DEF RecordInv, RecordTyped
<1>10. CASE Collecting
  <2>1. /\ result \in Results /\ log' = Append(log, result) /\ ~Waiting
      BY <1>10, TickRecords
  <2>2. log' \in Seq(Results) /\ Len(log') = Len(log) + 1
      BY <1>1, <2>1, Appended
  <2>3. result.kind \in Kinds
      BY <2>1 DEF Results
  <2>4. good + bad + idle = 1
      BY <1>10, <2>3 DEF Judged, Kinds, One, good, bad, idle
  <2>5. success' + failed' + skipped' = Len(log') + waits' + rests'
      BY <1>1, <1>4, <1>5, <1>7, <2>2, <2>4
  <2>6. failed' = Cardinality({i \in 1 .. Len(log') : log'[i].kind = "failed"})
    <3>1. bad = One(result.kind = "failed")
        BY <1>10 DEF bad, Judged, One
    <3>2. Cardinality({i \in 1 .. Len(log') : log'[i].kind = "failed"})
          = Cardinality({i \in 1 .. Len(log) : log[i].kind = "failed"})
            + One(result.kind = "failed")
        BY <1>1, <2>1, FailuresAppended
    <3>3. failed' = failed + bad
        BY <1>5
    <3> QED
        BY <1>2, <3>1, <3>2, <3>3, Zenon
  <2>7. /\ AllBusy(log', Len(log'), 0)
        /\ \A n \in Nat \ {0} :
             AllBusy(log', Len(log'), n)
             <=> result.kind = "busy" /\ AllBusy(log, Len(log), n - 1)
      BY <1>1, <2>1, BusyAppended
  <2>8. AllBusy(log', Len(log'), busyRun') /\ ~AllBusy(log', Len(log'), busyRun' + 1)
    <3>1. CASE result.kind = "busy"
      <4>1. busyRun' = busyRun + 1
          BY <1>3, <1>10, <3>1 DEF BusyRunAfter, Judged
      <4>2. AllBusy(log', Len(log'), busyRun + 1) <=> AllBusy(log, Len(log), busyRun)
        <5>1. busyRun + 1 \in Nat \ {0} /\ (busyRun + 1) - 1 = busyRun
            BY <1>1
        <5> QED
            BY <2>7, <3>1, <5>1
      <4>3. AllBusy(log', Len(log'), busyRun + 2) <=> AllBusy(log, Len(log), busyRun + 1)
        <5>1. busyRun + 2 \in Nat \ {0} /\ (busyRun + 2) - 1 = busyRun + 1
            BY <1>1
        <5> QED
            BY <2>7, <3>1, <5>1
      <4>4. busyRun' + 1 = busyRun + 2
          BY <1>1, <4>1
      <4> QED
          BY <1>2, <4>1, <4>2, <4>3, <4>4
    <3>2. CASE result.kind # "busy"
      <4>1. busyRun' = 0 /\ busyRun' + 1 = 1
          BY <1>3, <1>10, <3>2 DEF BusyRunAfter, Judged
      <4>2. AllBusy(log', Len(log'), 0) /\ ~AllBusy(log', Len(log'), 1)
          BY <2>7, <3>2
      <4> QED
          BY <4>1, <4>2
    <3> QED
        BY <3>1, <3>2
  <2> QED
      BY <1>1, <1>8, <1>9, <1>6, <2>2, <2>5, <2>6, <2>8 DEF CountersAddUp, RecordTyped
<1>11. CASE ~Collecting
  <2>1. log' = log
      BY <1>11, TickRecords
  <2>2. ~Judged("reading") /\ ~Judged("alarm") /\ ~Judged("failed")
        /\ ~Judged("busy") /\ ~Judged("inactive")
      BY <1>11 DEF Judged
  <2>3. good = 0 /\ bad = 0 /\ idle = 0
      BY <2>2 DEF One, good, bad, idle
  <2>4. success' + failed' + skipped' = Len(log') + waits' + rests'
      BY <1>1, <1>4, <1>5, <1>7, <2>1, <2>3
  <2>5. failed' = failed /\ busyRun' = busyRun
      BY <1>1, <1>3, <1>11, <1>5, <2>2, <2>3 DEF BusyRunAfter
  <2> QED
      BY <1>1, <1>2, <1>8, <1>9, <1>6, <2>1, <2>4, <2>5 DEF CountersAddUp, RecordTyped
<1> QED
    BY <1>10, <1>11

\* Deliveries leave the record alone, and what is dropped says nothing more.
LEMMA RecordKept ==
    ASSUME SupervisorInv, RecordInv, [HistoryNext]_historyVars
    PROVE  RecordInv'
<1>1. ASSUME NEW overdue \in BOOLEAN, CountedTick(overdue) PROVE RecordInv'
    BY <1>1, TickPauses, TickCollects, TickCounts DEF RecordInv
<1>2. ASSUME NEW overdue \in BOOLEAN, UncountedTick(overdue) PROVE RecordInv'
  <2>1. over /\ over' /\ UNCHANGED <<counters, history>>
      BY <1>2 DEF UncountedTick, history
  <2> QED
      BY <2>1 DEF RecordInv, RecordTyped, PausedIffCause, EveryAttemptCollected, CountersAddUp,
                  counters, history
<1>3. CASE EndOfRecord
  <2>1. over'
      BY <1>3 DEF EndOfRecord
  <2>2. log' \in Seq(Results) /\ late' \in BOOLEAN /\ over' \in BOOLEAN
    <3>1. log' = <<>>
        BY <1>3 DEF EndOfRecord
    <3>2. late' \in BOOLEAN /\ over' \in BOOLEAN
        BY <1>3, Zenon DEF EndOfRecord
    <3> QED
        BY <3>1, <3>2
  <2>3. RecordTyped'
      BY <1>3, <2>2 DEF EndOfRecord, RecordTyped
  <2> QED
      BY <2>1, <2>3 DEF RecordInv, PausedIffCause, EveryAttemptCollected, CountersAddUp
<1>4. CASE SomeDelivery
  <2>1. PICK kind \in Kinds, slow \in BOOLEAN : Deliver(kind, slow)
      BY <1>4 DEF SomeDelivery, WorkerStep
  <2>2. UNCHANGED <<counters, history>> /\ UNCHANGED <<valid, paused, busyRun>>
      BY <1>4, <2>1 DEF SomeDelivery, Deliver
  <2>3. RecordTyped' /\ PausedIffCause' /\ CountersAddUp'
      BY <2>2 DEF RecordInv, RecordTyped, PausedIffCause, CountersAddUp, counters, history
  <2>4. workers = 1 /\ valid
      BY <2>1 DEF Deliver, SupervisorInv, TypeOK, OneAttempt
  <2>5. result' # Nothing
      BY <2>1 DEF Deliver, Nothing, Kinds
  <2>6. EveryAttemptCollected'
      BY <2>2, <2>4, <2>5 DEF RecordInv, EveryAttemptCollected, One, history
  <2> QED
      BY <2>3, <2>6 DEF RecordInv
<1>5. CASE UNCHANGED historyVars
    BY <1>5 DEF historyVars, vars, counters, history, RecordInv, RecordTyped, PausedIffCause,
                EveryAttemptCollected, CountersAddUp, One
<1> QED
    BY <1>1, <1>2, <1>3, <1>4, <1>5 DEF HistoryNext, SomeTick

LEMMA RecordAlways == HistorySpec => []RecordInv
<1>1. HistorySpec => []SupervisorInv
    BY HistoryImplementsSpec, SupervisorAlways, PTL
<1>2. SupervisorInv /\ RecordInv /\ [HistoryNext]_historyVars => RecordInv'
    BY RecordKept
<1> QED
    BY <1>1, <1>2, RecordInitially, PTL DEF HistorySpec

\* The README's conditions for a pause are sufficient and necessary, for every limit
\* and every history: an attempt that took too long, or as many in a row as the limit
\* that met a busy lock.
THEOREM PauseHasCause == HistorySpec => []PausedIffCause
<1>1. RecordInv => PausedIffCause
    BY DEF RecordInv
<1> QED
    BY <1>1, RecordAlways, PTL

\* Every attempt started is outstanding or was collected, once: none is dropped and
\* none is judged twice.
THEOREM AttemptsCollected == HistorySpec => []EveryAttemptCollected
<1>1. RecordInv => EveryAttemptCollected
    BY DEF RecordInv
<1> QED
    BY <1>1, RecordAlways, PTL

\* The counters that are published account for every result, wait and rest.
THEOREM CountersRight == HistorySpec => []CountersAddUp
<1>1. RecordInv => CountersAddUp
    BY DEF RecordInv
<1> QED
    BY <1>1, RecordAlways, PTL
================================================================================
