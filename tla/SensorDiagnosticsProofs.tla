------------------------- MODULE SensorDiagnosticsProofs -------------------------
(***************************************************************************)
(* The plugin with the supervision of its runtime SDO implements the       *)
(* plugin and the supervision, and shows a reading of a session that ended *)
(* once at most, for every limit of lock failures and every configuration. *)
(***************************************************************************)
EXTENDS SensorDiagnostics, AxiaSensorProofs

----------------------------------------------------------------------------
(* The inductive invariant: what the future says of the result. *)

\* A result is there from the worker's end to the tick that collects it.  Only the
\* destructor drops the future and leaves it.
Outstanding ==
    /\ result \in Sdo!Results \cup {Sdo!Nothing}
    /\ future \in Outcomes => result.kind # "none"
    /\ future = "running" => result = Sdo!Nothing
    /\ future = "none" /\ pc["lc"] \notin {"destroy", "gone"} => result = Sdo!Nothing

\* The end of a session ages the reading that is outstanding, and only a collected
\* reading is a row.
Readings ==
    /\ aged \in BOOLEAN
    /\ agedRows \in {0, 1}
    /\ aged => agedRows = 0

DiagnosticsInv == SensorInv /\ Outstanding /\ Readings

\* What a result's kind is.
LEMMA KindIs ==
    ASSUME result \in Sdo!Results \cup {Sdo!Nothing}
    PROVE  result.kind = "none" <=> result = Sdo!Nothing
BY DEF Sdo!Results, Sdo!Nothing, Sdo!Kinds

\* While the services are there, the supervisor waits while the future is running,
\* and has something to collect when it is ready.
LEMMA PollIs ==
    ASSUME DiagnosticsInv, services
    PROVE  /\ Sdo!Waiting <=> future = "running"
           /\ Sdo!Collecting <=> future \in Outcomes
<1>1. future \in {"none", "running"} \cup Outcomes /\ pc["lc"] \notin {"destroy", "gone"}
    BY DEF DiagnosticsInv, SensorInv, PluginInv, PluginTyped, Control, Ending
<1>2. future = "running" => future # "none" /\ future \notin Outcomes
    BY DEF Outcomes
<1>3. "none" \notin Outcomes
    BY DEF Outcomes
<1> QED
    BY <1>1, <1>2, <1>3, KindIs
       DEF DiagnosticsInv, Outstanding, Sdo!Waiting, Sdo!Collecting

\* A supervised tick is a tick of the plugin.
LEMMA SupervisedIsTick ==
    ASSUME DiagnosticsInv, NEW overdue \in Lateness, SupervisedTick(overdue)
    PROVE  Tick
<1>1. services /\ paused \in BOOLEAN /\ future \in {"none", "running"} \cup Outcomes
    BY DEF DiagnosticsInv, SensorInv, PluginInv, PluginTyped, SupervisedTick
<1>2. /\ Sdo!Waiting <=> future = "running"
      /\ Sdo!Collecting <=> future \in Outcomes
    BY <1>1, PollIs
<1>3. paused' = Sdo!PausedAfter(overdue)
    BY DEF SupervisedTick
<1>4. UNCHANGED paused \/ (future # "none" /\ ~paused /\ paused' = TRUE)
  <2>1. CASE paused
      BY <1>1, <1>3, <2>1 DEF Sdo!PausedAfter
  <2>2. CASE ~paused /\ ~Sdo!PausedAfter(overdue)
      BY <1>1, <1>3, <2>2 DEF Sdo!PausedAfter, Sdo!TooLate, Sdo!TooSlow, Sdo!TooBusy,
         Sdo!Judged, Sdo!Waiting, Sdo!Collecting
  <2>3. CASE ~paused /\ Sdo!PausedAfter(overdue)
    <3>1. Sdo!Waiting \/ Sdo!Collecting
        BY <2>3 DEF Sdo!PausedAfter, Sdo!TooLate, Sdo!TooSlow, Sdo!TooBusy, Sdo!Judged
    <3>2. future # "none"
        BY <1>2, <3>1 DEF Outcomes
    <3>3. paused' = TRUE
        BY <1>3, <2>3 DEF Sdo!PausedAfter, Sdo!TooLate, Sdo!TooSlow, Sdo!TooBusy,
         Sdo!Judged, Sdo!Waiting, Sdo!Collecting
    <3> QED
        BY <2>3, <3>2, <3>3
  <2> QED
      BY <2>1, <2>2, <2>3
<1>5. Sdo!Starts(overdue) <=> future # "running" /\ ~paused'
    BY <1>2, <1>3 DEF Sdo!Starts
<1>6. IF future # "running" /\ ~paused'
        THEN future' = "running" /\ Move("wk", "idle", "try")
        ELSE /\ future' = IF future = "running" THEN "running" ELSE "none"
             /\ UNCHANGED <<pc, raced>>
    BY <1>2, <1>5, Zenon DEF SupervisedTick, StartNext
<1> QED
    BY <1>4, <1>6, Zenon DEF SupervisedTick, Tick

\* A step without a poll or a delivery.
RestOfPlugin == SessionEnds \/ ReadAfterFailure \/ OtherStep

\* It is a step of the plugin.
LEMMA RestIsNext == ASSUME RestOfPlugin PROVE Next
BY DEF RestOfPlugin, SessionEnds, ReadAfterFailure, OtherStep, Next, LcActivate, LcDeactivate,
       RtRead, WkAttempt

\* It leaves the supervision alone, but for the destructor, which drops a future that
\* is not running.
LEMMA RestLeaves ==
    ASSUME SensorInv, RestOfPlugin
    PROVE  /\ UNCHANGED <<supervision, paused>>
           /\ pc["lc"] \in {"destroy", "gone"} => pc'["lc"] \in {"destroy", "gone"}
           /\ \/ UNCHANGED future
              \/ /\ future # "running" /\ future' = "none"
                 /\ pc'["lc"] \in {"destroy", "gone"}
<1> USE ThreadsAre
    DEF SensorInv, PluginInv, Control, PcTyped, Is, LcMay, Move, driverVars, pluginVars
<1>1. UNCHANGED supervision
    BY DEF RestOfPlugin, SessionEnds, ReadAfterFailure, OtherStep
<1>2. CASE DestroyJoined
    BY <1>1, <1>2 DEF DestroyJoined
<1>3. CASE LcConfigure \/ (LcEnd /\ ~DestroyJoined)
    BY <1>1, <1>3 DEF LcConfigure, Configure, ConfigureLock, ConfigureOldGone, ConfigureDone,
       ConfigureReturn,
       LcEnd, Cleanup, Shutdown, Destroy, DestroyDone
<1>4. CASE LcActivate \/ LcDeactivate
    BY <1>1, <1>4
       DEF LcActivate, Activate, ActivateLock, ActivateClear, ActivateSet, ActivateDone,
           ActivateReturn,
           ActivateThrew, ActivateShutdown, ActivateFailed,
           LcDeactivate, Deactivate, DeactivateLock, DeactivateDone, DeactivateReturn
<1>5. CASE RtRead
    BY <1>1, <1>5 DEF RtRead, Read, ReadLock, ReadDone, ReadThrew, ReadFailed
<1>6. CASE TryLock \/ TryLockBusy \/ WorkerNotReady \/ WorkerStart \/ WorkerDone
    BY <1>1, <1>6 DEF TryLock, TryLockBusy, WorkerNotReady, WorkerStart, WorkerDone
<1>7. CASE (\E t \in Callers : InsideDriver(t)) \/ Over
    BY <1>1, <1>7 DEF InsideDriver, Over, vars
<1> QED
    BY <1>2, <1>3, <1>4, <1>5, <1>6, <1>7
       DEF RestOfPlugin, SessionEnds, ReadAfterFailure, OtherStep, LcActivate, LcDeactivate,
           LcEnd, RtRead

\* A delivery is one of the plugin's, of a worker that runs, and of a result.
LEMMA DeliveryIs ==
    ASSUME DiagnosticsInv, DeliverResult
    PROVE  /\ Deliver
           /\ future = "running" /\ future' \in Outcomes /\ UNCHANGED paused
           /\ pc'["lc"] = pc["lc"]
           /\ \E kind \in Sdo!Kinds, slow \in BOOLEAN : result' = [kind |-> kind, slow |-> slow]
           /\ UNCHANGED <<reason, busyRun, row, readings>>
<1>1. PICK outcome \in Outcomes : Move("wk", outcome, "idle") /\ future' = outcome
    BY DEF DeliverResult, Deliver
<1>2. future = "running"
    BY <1>1 DEF DiagnosticsInv, SensorInv, PluginInv, Control, Ending, Move, Outcomes
<1>3. pc'["lc"] = pc["lc"]
    BY <1>1, ThreadsAre DEF DiagnosticsInv, SensorInv, PluginInv, Control, PcTyped, Move
<1>4. PICK kind \in KindsOf(future'), slow \in Lateness :
        result' = [kind |-> kind, slow |-> slow]
    BY DEF DeliverResult
<1>5. kind \in Sdo!Kinds /\ slow \in BOOLEAN
    BY <1>1, <1>4, DiagnosticsAssumption DEF KindsOf, Outcomes, Sdo!Kinds
<1> QED
    BY <1>1, <1>2, <1>3, <1>4, <1>5 DEF DeliverResult, Deliver

----------------------------------------------------------------------------
(* The invariant of the specification. *)

\* A supervised tick collects at most one aged reading.
LEMMA SupervisedKeeps ==
    ASSUME DiagnosticsInv, NEW overdue \in Lateness, SupervisedTick(overdue)
    PROVE  (Outstanding /\ Readings)'
<1>1. /\ services /\ future \in {"none", "running"} \cup Outcomes
      /\ pc["lc"] \notin {"destroy", "gone"}
    BY DEF DiagnosticsInv, SensorInv, PluginInv, PluginTyped, Control, Ending, SupervisedTick
<1>2. Sdo!Waiting <=> future = "running"
    BY <1>1, PollIs
<1>3. future' = IF future = "running" \/ Sdo!Starts(overdue) THEN "running" ELSE "none"
    BY <1>2, Zenon DEF SupervisedTick, StartNext, Sdo!Starts
<1>4. result' = IF future' = future THEN result ELSE Sdo!Nothing
    BY DEF SupervisedTick
<1>5. Outstanding'
  <2>1. CASE future' = future
      BY <1>1, <1>3, <1>4, <2>1 DEF DiagnosticsInv, Outstanding, Outcomes
  <2>2. CASE future' # future
      BY <1>3, <1>4, <2>2 DEF Outstanding, Outcomes
  <2> QED
      BY <2>1, <2>2
<1>6. aged' \in BOOLEAN /\ (aged' => aged /\ future' = future)
    BY DEF SupervisedTick, DiagnosticsInv, Readings
<1>7. agedRows' = IF aged /\ future = "success" THEN agedRows + 1 ELSE agedRows
    BY DEF SupervisedTick
<1>8. future = "success" => future' # future
    BY <1>3
<1>9. Readings'
    BY <1>6, <1>7, <1>8 DEF DiagnosticsInv, Readings
<1> QED
    BY <1>5, <1>9

\* A step of the diagnostics is one of the plugin.
LEMMA NextIsNext == ASSUME DiagnosticsInv, DiagnosticsNext PROVE Next
BY SupervisedIsTick, DeliveryIs, RestIsNext DEF DiagnosticsNext, RestOfPlugin, Next, WkAttempt

\* Any step.
LEMMA DiagnosticsKeeps ==
    ASSUME DiagnosticsInv, [DiagnosticsNext]_diagnosticsVars
    PROVE  DiagnosticsInv'
<1>1. SensorInv'
    BY NextIsNext, NextKeeps DEF DiagnosticsInv, diagnosticsVars
<1> SUFFICES (Outstanding /\ Readings)'
    BY <1>1 DEF DiagnosticsInv
<1>2. ASSUME NEW overdue \in Lateness, SupervisedTick(overdue) PROVE (Outstanding /\ Readings)'
    BY <1>2, SupervisedKeeps
<1>3. CASE DeliverResult
  <2>1. PICK kind \in Sdo!Kinds, slow \in BOOLEAN : result' = [kind |-> kind, slow |-> slow]
      BY <1>3, DeliveryIs
  <2>2. result' \in Sdo!Results /\ result'.kind # "none"
      BY <2>1 DEF Sdo!Results, Sdo!Kinds
  <2>3. future' \in Outcomes /\ UNCHANGED readings
      BY <1>3, DeliveryIs
  <2>4. future' # "running" /\ future' # "none"
      BY <2>3 DEF Outcomes
  <2> QED
      BY <2>2, <2>3, <2>4 DEF Outstanding, Readings, readings, DiagnosticsInv
<1>4. CASE RestOfPlugin
  <2>1. Outstanding'
      BY <1>4, RestLeaves DEF DiagnosticsInv, Outstanding, supervision, Outcomes
  <2>2. CASE SessionEnds
    <3>1. aged' \in BOOLEAN /\ agedRows' = 0
        BY <2>2, Zenon DEF SessionEnds
    <3> QED
        BY <2>1, <3>1 DEF Readings
  <2>3. CASE ReadAfterFailure \/ OtherStep
      BY <2>1, <2>3 DEF ReadAfterFailure, OtherStep, readings, DiagnosticsInv, Readings
  <2> QED
      BY <1>4, <2>2, <2>3 DEF RestOfPlugin
<1>5. CASE UNCHANGED diagnosticsVars
    BY <1>5 DEF diagnosticsVars, vars, pluginVars, supervision, readings, DiagnosticsInv,
                Outstanding, Readings
<1> QED
    BY <1>2, <1>3, <1>4, <1>5 DEF DiagnosticsNext, RestOfPlugin

\* The plugin before on_configure, with the runtime SDO enabled.
LEMMA DiagnosticsInitInv == ASSUME DiagnosticsInit PROVE DiagnosticsInv
<1>1. SensorInv
    BY SensorInit DEF DiagnosticsInit
<1> QED
    BY <1>1 DEF DiagnosticsInit, Init, DiagnosticsInv, Outstanding, Readings, Outcomes

\* Whatever the threads do, what the future says of the result is so.
THEOREM DiagnosticsInvariant == DiagnosticsSpec => []DiagnosticsInv
<1>1. DiagnosticsInit => DiagnosticsInv
    BY DiagnosticsInitInv
<1> QED
    BY <1>1, DiagnosticsKeeps, PTL DEF DiagnosticsSpec

\* A reading that was uploaded before a deactivation, or before a failed activation,
\* is shown by one array after it at most.
THEOREM AgedReadingShownOnce == DiagnosticsSpec => []AgedReadingOnce
<1>1. DiagnosticsInv => AgedReadingOnce
    BY DEF DiagnosticsInv, Readings, AgedReadingOnce
<1> QED
    BY <1>1, DiagnosticsInvariant, PTL

----------------------------------------------------------------------------
(* The two refinements. *)

\* The plugin with its supervised diagnostics is the plugin: what AxiaSensorProofs
\* proves of the one holds of the other.
THEOREM ImplementsSensor == DiagnosticsSpec => SensorSpec
<1>1. DiagnosticsInit => Init
    BY DEF DiagnosticsInit
<1>2. DiagnosticsInv /\ [DiagnosticsNext]_diagnosticsVars => [Next]_vars
    BY NextIsNext DEF diagnosticsVars
<1> QED
    BY <1>1, <1>2, DiagnosticsInvariant, PTL DEF DiagnosticsSpec, SensorSpec, Spec

\* A supervised tick is the supervisor's tick.
LEMMA SupervisedIsSdoTick ==
    ASSUME DiagnosticsInv, NEW overdue \in Lateness, SupervisedTick(overdue)
    PROVE  Sdo!Tick(overdue)
<1>1. /\ services /\ future \in {"none", "running"} \cup Outcomes
      /\ pc["lc"] \notin {"destroy", "gone"}
    BY DEF DiagnosticsInv, SensorInv, PluginInv, PluginTyped, Control, Ending, SupervisedTick
<1>2. Sdo!Waiting <=> future = "running"
    BY <1>1, PollIs
<1>3. Sdo!Starts(overdue) => future # "running"
    BY <1>2 DEF Sdo!Starts
<1>4. future' = IF future = "running" \/ Sdo!Starts(overdue) THEN "running" ELSE "none"
    BY <1>2, Zenon DEF SupervisedTick, StartNext, Sdo!Starts
<1>5. result' = IF Sdo!Waiting THEN result ELSE Sdo!Nothing
  <2>1. result' = IF future' = future THEN result ELSE Sdo!Nothing
      BY DEF SupervisedTick
  <2>2. CASE future = "none"
      BY <1>1, <1>2, <1>4, <2>1, <2>2 DEF DiagnosticsInv, Outstanding
  <2>3. CASE future # "none"
      BY <1>1, <1>2, <1>3, <1>4, <2>1, <2>3 DEF Outcomes
  <2> QED
      BY <2>2, <2>3
<1>6. (future' = "running" \/ result'.kind # "none") <=> Sdo!Waiting \/ Sdo!Starts(overdue)
  <2>1. result' = Sdo!Nothing
      BY <1>2, <1>5 DEF DiagnosticsInv, Outstanding
  <2> QED
      BY <1>2, <1>4, <2>1 DEF Sdo!Nothing
<1>7. (IF future' = "running" THEN 1 ELSE 0) =
        IF Sdo!Starts(overdue) THEN (IF future = "running" THEN 1 ELSE 0) + 1
                               ELSE IF future = "running" THEN 1 ELSE 0
    BY <1>3, <1>4
<1> QED
    BY <1>5, <1>6, <1>7 DEF SupervisedTick, Sdo!Tick

\* What the supervisor sees of another step.
LEMMA RestIsSdoStutter ==
    ASSUME DiagnosticsInv, RestOfPlugin
    PROVE  UNCHANGED Sdo!vars
BY RestLeaves DEF DiagnosticsInv, supervision, Sdo!vars

\* The diagnostics of the plugin supervise the runtime SDO as RuntimeSdo says, so what
\* RuntimeSdoProofs proves holds of them: one worker, pauses for good, alarms shown.
THEOREM ImplementsSdo == DiagnosticsSpec => SdoSpec
<1>1. DiagnosticsInit => Sdo!Init
    BY DEF DiagnosticsInit, Init, Sdo!Init, Sdo!Nothing
<1>2. ASSUME DiagnosticsInv, [DiagnosticsNext]_diagnosticsVars PROVE [Sdo!Next]_Sdo!vars
  <2>1. ASSUME NEW overdue \in Lateness, SupervisedTick(overdue) PROVE Sdo!TickStep
      BY <1>2, <2>1, SupervisedIsSdoTick, DiagnosticsAssumption DEF Sdo!TickStep
  <2>2. CASE DeliverResult
    <3>1. PICK kind \in Sdo!Kinds, slow \in BOOLEAN : result' = [kind |-> kind, slow |-> slow]
        BY <1>2, <2>2, DeliveryIs
    <3>2. result'.kind # "none"
        BY <3>1 DEF Sdo!Kinds
    <3>3. /\ future = "running" /\ future' # "running"
          /\ UNCHANGED <<paused, reason, busyRun, row>>
        BY <1>2, <2>2, DeliveryIs DEF Outcomes
    <3>4. Sdo!Deliver(kind, slow)
        BY <3>1, <3>2, <3>3 DEF Sdo!Deliver
    <3> QED
        BY <3>4 DEF Sdo!WorkerStep, Sdo!Next
  <2>3. CASE RestOfPlugin
      BY <1>2, <2>3, RestIsSdoStutter
  <2>4. CASE UNCHANGED diagnosticsVars
      BY <2>4 DEF diagnosticsVars, vars, pluginVars, supervision, Sdo!vars
  <2> QED
      BY <1>2, <2>1, <2>2, <2>3, <2>4 DEF DiagnosticsNext, RestOfPlugin, Sdo!Next
<1> QED
    BY <1>1, <1>2, DiagnosticsInvariant, PTL DEF DiagnosticsSpec, SdoSpec, Sdo!Spec

----------------------------------------------------------------------------
(* Why an inactive hardware may be shown as active.                          *)

\* Only a read's step that gets the lock begins a read.
LEMMA OnlyReadLockReads ==
    ASSUME SensorInv, DeliverResult \/ SessionEnds \/ OtherStep \/ Tick
    PROVE  ~ReadLock
<1> SUFFICES pc["rt"] = "readLock" => pc'["rt"] # "reading"
    BY ThreadsAre DEF SensorInv, PluginInv, Control, PcTyped, ReadLock, Move
<1> USE ThreadsAre DEF SensorInv, PluginInv, Control, PcTyped, Move
<1>1. CASE LcConfigure \/ LcEnd
    BY <1>1
       DEF LcConfigure, Configure, ConfigureLock, ConfigureOldGone, ConfigureDone,
       ConfigureReturn,
           LcEnd, Cleanup, Shutdown, Destroy, DestroyJoined, DestroyDone
<1>2. CASE LcActivate \/ LcDeactivate
    BY <1>2
       DEF LcActivate, Activate, ActivateLock, ActivateClear, ActivateSet, ActivateDone,
           ActivateReturn,
           ActivateThrew, ActivateShutdown, ActivateFailed,
           LcDeactivate, Deactivate, DeactivateLock, DeactivateDone, DeactivateReturn
<1>3. CASE Read \/ ReadDone \/ ReadThrew \/ ReadFailed
    BY <1>3 DEF Read, ReadDone, ReadThrew, ReadFailed
<1>4. CASE WkAttempt
    BY <1>4
       DEF WkAttempt, TryLock, TryLockBusy, WorkerNotReady, WorkerStart, WorkerDone, Deliver
<1>5. CASE Tick
    BY <1>5, Zenon DEF Tick, Move
<1>6. CASE (\E t \in Callers : InsideDriver(t)) \/ Over
    BY <1>6 DEF InsideDriver, Over, vars
<1> QED
    BY <1>1, <1>2, <1>3, <1>4, <1>5, <1>6
       DEF DeliverResult, SessionEnds, OtherStep, LcActivate, LcDeactivate, WkAttempt

\* The history says of every read of an inactive hardware that it was late.
OvertakenInv == DiagnosticsInv /\ Life /\ overtaken \in BOOLEAN /\ ShownBut(overtaken)

\* Any step.
LEMMA OvertakenNext ==
    ASSUME OvertakenInv, ReadCalibration, [DiagnosticsNext]_diagnosticsVars
    PROVE  OvertakenInv'
<1>1. DiagnosticsInv'
    BY DiagnosticsKeeps DEF OvertakenInv
<1>2. SensorInv /\ [Next]_vars
    BY NextIsNext DEF OvertakenInv, DiagnosticsInv, diagnosticsVars
<1>3. Life'
    BY <1>2, LifeNext DEF OvertakenInv
<1>4. overtaken' \in BOOLEAN
  <2>1. CASE SessionEnds
      BY <2>1, Zenon DEF SessionEnds
  <2>2. CASE ReadAfterFailure
      BY <2>2, Zenon DEF ReadAfterFailure
  <2>3. CASE UNCHANGED overtaken
      BY <2>3 DEF OvertakenInv
  <2> QED
      BY <2>1, <2>2, <2>3
         DEF DiagnosticsNext, SupervisedTick, DeliverResult, OtherStep, readings,
             diagnosticsVars
<1> SUFFICES ShownBut(overtaken)'
    BY <1>1, <1>3, <1>4 DEF OvertakenInv
<1>5. ASSUME PluginStep, DeactivateDone \/ (overtaken => overtaken'),
             ReadLock /\ pc["lc"] \in {"actFailed", "actStop"} /\ IsActive => overtaken'
      PROVE  ShownBut(overtaken)'
  <2>1. \A late \in BOOLEAN, later \in BOOLEAN :
          ShownBut(late) /\ (DeactivateDone \/ (late => later))
          /\ (ReadLock /\ pc["lc"] \in {"actFailed", "actStop"} /\ IsActive => later)
          => ShownBut(later)'
      BY <1>2, <1>5, PluginShowsBut DEF OvertakenInv
  <2> QED
      BY <1>4, <1>5, <2>1 DEF OvertakenInv, ShownBut
<1>6. ASSUME UNCHANGED overtaken, NEW t \in Callers, InsideDriver(t)
      PROVE  ShownBut(overtaken)'
  <2>1. \A late \in BOOLEAN : ShownBut(late) => ShownBut(late)'
      BY <1>2, <1>6, InsideShowsBut DEF OvertakenInv
  <2> QED
      BY <1>4, <1>6, <2>1 DEF OvertakenInv, ShownBut
<1>7. ASSUME NEW overdue \in Lateness, SupervisedTick(overdue) PROVE ShownBut(overtaken)'
  <2>1. Tick /\ UNCHANGED overtaken
      BY <1>7, SupervisedIsTick DEF OvertakenInv, SupervisedTick
  <2>2. ~ReadLock
      BY <1>2, <2>1, OnlyReadLockReads
  <2> QED
      BY <1>5, <2>1, <2>2 DEF PluginStep
<1>8. CASE DeliverResult
  <2>1. Deliver /\ UNCHANGED overtaken
      BY <1>8 DEF DeliverResult, readings
  <2>2. ~ReadLock
      BY <1>2, <1>8, OnlyReadLockReads
  <2> QED
      BY <1>5, <2>1, <2>2 DEF PluginStep, WkAttempt
<1>9. CASE SessionEnds
  <2>1. DeactivateDone \/ (overtaken => overtaken')
      BY <1>9 DEF SessionEnds
  <2>2. ~ReadLock
      BY <1>2, <1>9, OnlyReadLockReads
  <2>3. PluginStep
      BY <1>9 DEF SessionEnds, PluginStep, LcActivate, LcDeactivate
  <2> QED
      BY <1>5, <2>1, <2>2, <2>3
<1>10. CASE ReadAfterFailure
  <2>1. PluginStep /\ (overtaken => overtaken')
      BY <1>10 DEF ReadAfterFailure, PluginStep, RtRead
  <2>2. pc["lc"] \in {"actFailed", "actStop"} /\ IsActive => overtaken'
      BY <1>10 DEF ReadAfterFailure
  <2> QED
      BY <1>5, <2>1, <2>2
<1>11. CASE OtherStep
  <2>1. UNCHANGED overtaken /\ ~ReadLock
      BY <1>2, <1>11, OnlyReadLockReads DEF OtherStep, readings
  <2>2. CASE PluginStep
      BY <1>5, <2>1, <2>2
  <2>3. ASSUME NEW t \in Callers, InsideDriver(t) PROVE ShownBut(overtaken)'
      BY <1>6, <2>1, <2>3
  <2>4. CASE Over
      BY <2>1, <2>4
         DEF Over, vars, driverVars, pointers, pluginVars, OvertakenInv, ShownBut, Resting,
             Activated, IsActive
  <2> QED
      BY <1>11, <2>2, <2>3, <2>4
         DEF OtherStep, PluginStep, LcActivate, LcDeactivate, RtRead, WkAttempt
<1>12. CASE UNCHANGED diagnosticsVars
    BY <1>12
       DEF diagnosticsVars, readings, vars, driverVars, pointers, pluginVars, OvertakenInv,
           ShownBut, Resting, Activated, IsActive
<1> QED
    BY <1>7, <1>8, <1>9, <1>10, <1>11, <1>12 DEF DiagnosticsNext

\* An unconfigured or inactive hardware is shown as active only when a read got the
\* lock between an init that failed after it had made the driver active and the
\* shutdown that follows: whatever is configured, and in every order of the threads.
THEOREM OnlyALateReadShows == DiagnosticsSpec => []ActiveShownHasReason
<1>1. CASE ReadCalibration
  <2>1. DiagnosticsInit => OvertakenInv
    <3> SUFFICES ASSUME DiagnosticsInit PROVE OvertakenInv
        OBVIOUS
    <3>1. DiagnosticsInv /\ Life /\ overtaken \in BOOLEAN
        BY DiagnosticsInitInv, LifeInit DEF DiagnosticsInit
    <3> QED
        BY <3>1, ThreadsAre
           DEF DiagnosticsInit, Init, DriverInit, OvertakenInv, ShownBut, Resting, Activated,
               ReadOn, ReadSteps
  <2>2. OvertakenInv /\ [DiagnosticsNext]_diagnosticsVars => OvertakenInv'
      BY <1>1, OvertakenNext
  <2>3. OvertakenInv => ActiveShownHasReason
      BY DEF OvertakenInv, ShownBut, Resting, Activated, Is, ActiveShownHasReason
  <2> QED
      BY <2>1, <2>2, <2>3, PTL DEF DiagnosticsSpec
<1>2. CASE ReadCalibration = FALSE
  <2>1. ShownIsOfSession => ActiveShownHasReason
      BY DEF ShownIsOfSession, InactiveShowsNothing, ActiveShownHasReason
  <2>2. Spec => []ShownIsOfSession
      BY <1>2, ShownWithoutCalibration
  <2> QED
      BY <2>1, <2>2, ImplementsSensor, PTL DEF SensorSpec
<1> QED
    BY <1>1, <1>2, DriverAssumption
================================================================================
