--------------------------- MODULE SensorReportsProofs ---------------------------
(***************************************************************************)
(* What read() makes known of the status word and the counters agrees, for *)
(* any table of status bits and any words: the rows of an array put        *)
(* together from two locks, and the log behind its throttles.  The two are *)
(* proved of SensorRows and StatusLog each, which SensorReports implements *)
(* together.                                                               *)
(***************************************************************************)
EXTENDS SensorReports, TLAPS

----------------------------------------------------------------------------
(* The composition implements its components. *)

\* read(), the lifecycle and the timer make of the array what SensorRows says.
THEOREM ReportsImplementRows == ReportsSpec => Spec
<1>1. ReportsInit => Init
    BY DEF ReportsInit
<1>2. [ReportsNext]_reportVars => [Next]_vars
  <2> SUFFICES ASSUME [ReportsNext]_reportVars PROVE [Next]_vars
      OBVIOUS
  <2>1. CASE ReportsActivate \/ ReportsFailInit \/ ReportsEnd
      BY <2>1 DEF ReportsActivate, ReportsFailInit, ReportsEnd, Next
  <2>2. CASE ReportsRead
      BY <2>2 DEF ReportsRead, Next, ReadStep
  <2>3. CASE ReportsLocks
      BY <2>3 DEF ReportsLocks, Next
  <2>4. CASE ReportsReset
      BY <2>4 DEF ReportsReset, Next
  <2>5. CASE ReportsTimer
      BY <2>5 DEF ReportsTimer, Next
  <2>6. CASE ReportsThrottle \/ UNCHANGED reportVars
      BY <2>6 DEF ReportsThrottle, reportVars
  <2> QED
      BY <2>1, <2>2, <2>3, <2>4, <2>5, <2>6 DEF ReportsNext
<1> QED
    BY <1>1, <1>2, PTL DEF ReportsSpec, Spec

\* And of the log what StatusLog says.
THEOREM ReportsImplementLog == ReportsSpec => Log!Spec
<1>1. ReportsInit => Log!Init
    BY DEF ReportsInit
<1>2. [ReportsNext]_reportVars => [Log!Next]_(Log!vars)
  <2> SUFFICES ASSUME [ReportsNext]_reportVars PROVE [Log!Next]_(Log!vars)
      OBVIOUS
  <2>1. CASE ReportsActivate \/ ReportsFailInit \/ ReportsEnd
      BY <2>1 DEF ReportsActivate, ReportsFailInit, ReportsEnd, Log!Next
  <2>2. CASE ReportsRead
      BY <2>2 DEF ReportsRead, Log!Next, Words
  <2>3. CASE ReportsReset
      BY <2>3 DEF ReportsReset, Log!Next
  <2>4. CASE ReportsThrottle
      BY <2>4 DEF ReportsThrottle, Log!Next
  <2>5. CASE ReportsTimer
      BY <2>5 DEF ReportsTimer, Timer, Copy, Take, Publish, logVars, Log!vars
  <2>6. CASE ReportsLocks
      BY <2>6 DEF ReportsLocks, Sample, ReadCounter, ResetCounter, logVars, Log!vars
  <2>7. CASE UNCHANGED reportVars
      BY <2>7 DEF reportVars, vars, logVars, Log!vars
  <2> QED
      BY <2>1, <2>2, <2>3, <2>4, <2>5, <2>6, <2>7 DEF ReportsNext
<1> QED
    BY <1>1, <1>2, PTL DEF ReportsSpec, Log!Spec

----------------------------------------------------------------------------
(* The rows. *)

\* status_code_level has three values.
LEMMA StatusLevelIs ==
    ASSUME NEW w
    PROVE  /\ StatusLevel(w) \in {"OK", "WARN", "ERROR"}
           /\ StatusLevel(w) = "OK" <=> w = {}
           /\ StatusLevel(w) = "WARN" <=> w = {RangeWarning}
<1>1. CASE w = {}
    BY <1>1 DEF StatusLevel
<1>2. CASE w = {RangeWarning}
    BY <1>2 DEF StatusLevel
<1>3. CASE w # {} /\ w # {RangeWarning}
    BY <1>3 DEF StatusLevel
<1> QED
    BY <1>1, <1>2, <1>3

\* The rows made of a snapshot and a level of the counters: three rows that are stale
\* together, and a status row whose level goes with the bits that have a name.
LEMMA RowsAre ==
    ASSUME NEW s \in Snapshots, NEW level \in CounterLevels
    PROVE  /\ Rows(s, level) \in [communication : {"OK", "ERROR", "STALE"}, counter : Levels,
                                  status : Levels, word : Words \cup {{}}]
           /\ Rows(s, level).counter = "STALE" <=> s = Inactive
           /\ Rows(s, level).status = "STALE" <=> s = Inactive
           /\ Rows(s, level).communication = "STALE" <=> s = Inactive
           /\ Rows(s, level).status \in {"OK", "STALE"} <=> Rows(s, level).word = {}
           /\ Rows(s, level).status = "WARN" => Text(Rows(s, level).word) = {RangeWarning}
           /\ Rows(s, level).status = "ERROR" /\ Text(Rows(s, level).word) \subseteq {RangeWarning}
                => Rows(s, level).word \cap Undescribed # {}
<1>1. level \in {"OK", "WARN", "ERROR"} /\ Levels = {"OK", "WARN", "ERROR", "STALE"}
    BY DEF CounterLevels, Levels
<1>2. CASE s = Inactive
    BY <1>1, <1>2 DEF Rows, Inactive
<1>3. CASE s # Inactive
  <2>1. s \in Samples
      BY <1>3 DEF Snapshots
  <2>2. /\ s.word \in Words /\ s.communication \in {"OK", "ERROR"}
        /\ s.word \subseteq Described \cup Undescribed
      BY <2>1, BitsAssumption DEF Words
  <2>3. Rows(s, level) = [communication |-> s.communication, counter |-> level,
                          status |-> StatusLevel(s.word), word |-> s.word]
      BY <1>3 DEF Rows
  <2>4. /\ StatusLevel(s.word) \in {"OK", "WARN", "ERROR"}
        /\ StatusLevel(s.word) = "OK" <=> s.word = {}
        /\ StatusLevel(s.word) = "WARN" <=> s.word = {RangeWarning}
      BY StatusLevelIs
  <2>5. StatusLevel(s.word) = "WARN" => Text(s.word) = {RangeWarning}
      BY <2>4, BitsAssumption DEF Text
  <2>6. ASSUME StatusLevel(s.word) = "ERROR", Text(s.word) \subseteq {RangeWarning}
        PROVE  s.word \cap Undescribed # {}
    <3>1. s.word # {} /\ s.word # {RangeWarning}
        BY <2>4, <2>6
    <3>2. PICK bit \in s.word : bit # RangeWarning
        BY <3>1
    <3>3. bit \notin Described
        BY <2>6, <3>2 DEF Text
    <3> QED
        BY <2>2, <3>2, <3>3, BitsAssumption
  <2> QED
      BY <1>1, <1>3, <2>2, <2>3, <2>4, <2>5, <2>6
<1> QED
    BY <1>2, <1>3

\* A sample is not the snapshot of a hardware that has no session.
LEMMA SampleIsActive == \A s \in Samples : s # Inactive
BY BitsAssumption DEF Inactive

\* A read writes the snapshot before the counters, and a reset too, with the lock: the
\* counters of a snapshot that was reset are reset outside of both.  A session that is
\* over has left its snapshot only by a read of a failed activation.
SessionRows ==
    /\ reading = "stored" => snapshot # Inactive
    /\ resetting => state = "inactive"
    /\ state = "inactive" => reading = "idle" /\ snapshot = Inactive /\ ~stray
    /\ snapshot = Inactive /\ ~resetting => window = "OK"
    /\ state \in {"failing", "failed"} /\ snapshot # Inactive => stray

\* What a tick copied and took belongs together, unless something came between.
TickRows ==
    /\ tick = "copied" /\ ~overlap /\ copy = Inactive => window = "OK"
    /\ tick = "taken" /\ ~overlap /\ copy = Inactive => taken = "OK"

Published == \E s \in Snapshots, level \in CounterLevels : array = Rows(s, level)

RowsInv == TypeOK /\ SessionRows /\ TickRows /\ Published

LEMMA RowsInitially == Init => RowsInv
<1> SUFFICES ASSUME Init PROVE RowsInv
    OBVIOUS
<1>1. Inactive \in Snapshots /\ "OK" \in CounterLevels /\ "inactive" \in States
    BY DEF Snapshots, CounterLevels, States
<1>2. Published
    BY <1>1 DEF Init, Published
<1>3. TypeOK
    BY <1>1, RowsAre DEF Init, TypeOK
<1> QED
    BY <1>2, <1>3 DEF Init, RowsInv, SessionRows, TickRows

LEMMA RowsKept == ASSUME RowsInv, [Next]_vars PROVE RowsInv'
<1> USE DEF RowsInv, TypeOK, SessionRows, TickRows, Published
<1>1. CASE Activate \/ FailInit \/ ActivateFailed \/ ShutdownActive \/ Sample
    BY <1>1 DEF Activate, FailInit, MayActivate, ActivateFailed, ShutdownActive, Sample,
                timer, States
<1>2. ASSUME NEW s \in Samples, Read(s) PROVE RowsInv'
  <2>1. snapshot' \in Snapshots /\ snapshot' # Inactive
      BY <1>2, SampleIsActive DEF Read, Snapshots
  <2>2. resetting = FALSE /\ state # "inactive"
      BY <1>2 DEF Read
  <2> QED
      BY <1>2, <2>1, <2>2 DEF Read, timer, Ticking, FailedActivation
<1>3. CASE ReadCounter
  <2>1. window' \in CounterLevels
      BY <1>3 DEF ReadCounter, AtLeast, CounterLevels
  <2> QED
      BY <1>3, <2>1 DEF ReadCounter, timer, Ticking
<1>4. CASE Reset
    BY <1>4 DEF Reset, timer, Snapshots, States, Ticking
<1>5. CASE ResetCounter
    BY <1>5 DEF ResetCounter, timer, CounterLevels, Ticking
<1>6. CASE Copy
    BY <1>6 DEF Copy
<1>7. CASE Take
    BY <1>7 DEF Take, CounterLevels
<1>8. CASE Publish
  <2>1. Inactive \in Snapshots /\ "OK" \in CounterLevels
      BY DEF Snapshots, CounterLevels
  <2>2. Published' /\ TypeOK'
      BY <1>8, <2>1, RowsAre DEF Publish
  <2> QED
      BY <1>8, <2>2 DEF Publish
<1>9. CASE UNCHANGED vars
    BY <1>9 DEF vars, timer
<1> QED
    BY <1>1, <1>2, <1>3, <1>4, <1>5, <1>6, <1>7, <1>8, <1>9 DEF Next, ReadStep, Timer

LEMMA RowsInvariant == Spec => []RowsInv
BY RowsInitially, RowsKept, PTL DEF Spec

\* The three rows of an array are stale together, and the level and the text of the
\* status row agree, for any table of the status bits.
THEOREM RowsOfArrayAgree == Spec => []RowsAgree
<1>1. RowsInv => RowsAgree
    BY RowsAre DEF RowsInv, Published, RowsAgree, StatusRowNamed
<1> QED
    BY <1>1, RowsInvariant, PTL

\* A window that went wrong is shown by the array that takes it, unless a read or a
\* reset came within the tick.
THEOREM WindowIsShown == Spec => []WindowShown
<1>1. RowsInv => WindowShown
    BY DEF RowsInv, TypeOK, TickRows, WindowShown, Rows
<1> QED
    BY <1>1, RowsInvariant, PTL

----------------------------------------------------------------------------
(* The log. *)

\* The word that is remembered is the one read last in this session, or the one that
\* a failed activation left: what a session knows before its first read is that.
LogInv ==
    /\ Log!LogLagsByThrottle
    /\ previous = (IF word # NoWord THEN word ELSE late)
    /\ word = NoWord => told = NoWord
    /\ state \in {"inactive", "failing", "failed"} => previous = late
    /\ state = "inactive" => word = NoWord

LEMMA LogInitially == Log!Init => LogInv
BY DEF Log!Init, LogInv, Log!LogLagsByThrottle, Log!TypeOK

LEMMA LogKept == ASSUME LogInv, [Log!Next]_(Log!vars) PROVE LogInv'
<1> USE DEF LogInv, Log!LogLagsByThrottle, Log!TypeOK
<1>1. ASSUME NEW w \in Words, Log!Handle(w) PROVE LogInv'
  <2>1. Log!Severity(w) \in {"INFO", "WARN"} /\ w # NoWord
      BY NoWordAssumption DEF Log!Severity
  <2>2. /\ state # "inactive" /\ state' = state /\ previous' = w /\ word' = w
        /\ late' = IF state \in {"failing", "failed"} THEN w ELSE late
      BY <1>1 DEF Log!Handle
  <2>3. CASE Log!Log(w)
      BY <2>1, <2>2, <2>3 DEF Log!Log
  <2>4. CASE Log!Swallow(w)
      BY <2>1, <2>2, <2>4 DEF Log!Swallow
  <2>5. CASE Log!Skip(w)
      BY <2>1, <2>2, <2>5 DEF Log!Skip, Log!Known
  <2> QED
      BY <1>1, <2>3, <2>4, <2>5 DEF Log!Handle
<1>2. CASE Log!Activate \/ Log!FailInit
    BY <1>2 DEF Log!Activate, Log!FailInit, Log!Start
<1>3. CASE Log!EndWithoutReset
    BY <1>3 DEF Log!EndWithoutReset
<1>4. CASE Log!Reset \/ Log!ThrottleOpens
    BY <1>4 DEF Log!Reset, Log!ThrottleOpens
<1>5. CASE UNCHANGED Log!vars
    BY <1>5 DEF Log!vars
<1> QED
    BY <1>1, <1>2, <1>3, <1>4, <1>5 DEF Log!Next

\* The log lags behind the sensor by the lines that its throttles swallowed, and at
\* the start of a session by that of a word a failed activation has read, for any
\* words and over any number of sessions, failed ones and shutdowns among them.
THEOREM LogOnlyLags == ReportsSpec => []LogLagsByThrottle
<1>1. LogInv => LogLagsByThrottle
    BY DEF LogInv, LogLagsByThrottle
<1> QED
    BY <1>1, LogInitially, LogKept, ReportsImplementLog, PTL DEF Log!Spec

\* The two theorems of the rows hold of the composition.
THEOREM ReportedRowsAgree == ReportsSpec => [](RowsAgree /\ WindowShown)
BY ReportsImplementRows, RowsOfArrayAgree, WindowIsShown, PTL
================================================================================
