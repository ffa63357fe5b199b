---------------------------- MODULE AxiaDriverProofs ----------------------------
(***************************************************************************)
(* The type of the driver's state and the locality of its steps, for       *)
(* threads that take them in any interleaving.  And, called one method at  *)
(* a time: the driver never uses a master it gave back or a process image  *)
(* that is not there, whichever call of the library fails, what it reads   *)
(* is fresh and scaled, and its frames are those of the session protocol.  *)
(***************************************************************************)
EXTENDS AxiaDriver, TLAPS

----------------------------------------------------------------------------
(* Types and locality. *)

Places == Steps \cup Results

DataTyped ==
    /\ master \in BOOLEAN /\ domain \in BOOLEAN
    /\ config \in BOOLEAN /\ pd \in BOOLEAN
    /\ active \in BOOLEAN /\ check \in BOOLEAN
    /\ seen \in {"never", "before", "now"}
    /\ scales \in {"positive", "unusable"}
    /\ session \in {"released", "requested", "active"}
    /\ image \in Words \cup {"none"}
    /\ wire \in Words \cup {"none"}
    /\ fault \in BOOLEAN

\* A step of thread t changes no other thread's place in the driver, and t
\* stays in its method.
Local(t) ==
    /\ call \in [Callers -> Places] => call' \in [Callers -> Places]
    /\ call[t] \in Steps
    /\ call'[t] # "none"
    /\ \A u \in Callers \ {t} : call'[u] = call[u]

\* The type, the data apart from the places.
LEMMA TypeSplit == DriverTypeOK <=> DataTyped /\ call \in [Callers -> Places]
BY DEF DriverTypeOK, DataTyped, Places

\* No step of a method is a result of one.
LEMMA PlacesAre ==
    /\ Steps \subseteq Places /\ "returned" \in Places /\ "threw" \in Places
    /\ \A step \in Steps : step \notin Results
    /\ "none" \notin Steps
BY DEF Places, Results, Steps, InitSteps, StopSteps, PulseSteps, ReadSteps, UploadSteps

\* A thread that goes on is the only one that moves.
LEMMA GotoLocal ==
    ASSUME DriverTypeOK, NEW t \in Callers, call[t] \in Steps,
           NEW place \in Places, place # "none", Goto(t, place)
    PROVE  Local(t) /\ call'[t] = place
BY TypeSplit DEF Goto, Local

\* So is one that stays.
LEMMA StayLocal ==
    ASSUME DriverTypeOK, NEW t \in Callers, call[t] \in Steps, UNCHANGED call
    PROVE  Local(t)
<1>1. call[t] # "none"
    BY DEF Steps, InitSteps, StopSteps, PulseSteps, ReadSteps, UploadSteps
<1> QED
    BY <1>1, TypeSplit DEF Local

\* A step that is undefined changes nothing but the fault.
LEMMA FaultTyped ==
    ASSUME DriverTypeOK, NEW t \in Callers, call[t] \in Steps, fault' = TRUE,
           UNCHANGED <<pointers, active, check, seen, scales, bus, call>>
    PROVE  DataTyped' /\ Local(t)
<1>1. DataTyped'
    BY TypeSplit DEF DataTyped, pointers, bus
<1> QED
    BY <1>1, StayLocal

\* write_control_.
LEMMA WriteControlTyped ==
    ASSUME DriverTypeOK, NEW t \in Callers, NEW step \in Steps, NEW word \in Words,
           NEW next \in Places, next # "none", WriteControl(t, step, word, next)
    PROVE  DataTyped' /\ Local(t)
<1>1. call[t] \in Steps
    BY DEF WriteControl, At
<1>2. CASE ImageUsable
  <2>1. Goto(t, next)
      BY <1>2, Zenon DEF WriteControl, Using
  <2>2. Local(t)
      BY <1>1, <2>1, GotoLocal
  <2>3. DataTyped'
      BY <1>2, TypeSplit DEF WriteControl, Using, DataTyped, pointers
  <2> QED
      BY <2>2, <2>3
<1>3. CASE ~ImageUsable
    BY <1>1, <1>3, FaultTyped DEF WriteControl, Using
<1> QED
    BY <1>2, <1>3

\* cycle_once_.
LEMMA CycleOnceTyped ==
    ASSUME DriverTypeOK, NEW t \in Callers, NEW step \in Steps,
           NEW next \in Places, next # "none", CycleOnce(t, step, next)
    PROVE  DataTyped' /\ Local(t)
<1>1. call[t] \in Steps
    BY DEF CycleOnce, At
<1>2. CASE CycleUsable
  <2>1. Goto(t, next)
      BY <1>2, Zenon DEF CycleOnce, Using
  <2>2. Local(t)
      BY <1>1, <2>1, GotoLocal
  <2>3. DataTyped'
      BY <1>2, TypeSplit DEF CycleOnce, Using, DataTyped, pointers, Received
  <2> QED
      BY <2>2, <2>3
<1>3. CASE ~CycleUsable
    BY <1>1, <1>3, FaultTyped DEF CycleOnce, Using
<1> QED
    BY <1>2, <1>3

\* init
LEMMA InitStepTyped ==
    ASSUME DriverTypeOK, NEW t \in Callers, InitStep(t)
    PROVE  DataTyped' /\ Local(t)
<1>1. CASE RequestMaster(t)
  <2>1. call[t] \in Steps /\ "find" \in Places
      BY <1>1, PlacesAre DEF RequestMaster, At, Steps, InitSteps
  <2>2. Goto(t, "find") \/ Goto(t, "threw")
      BY <1>1 DEF RequestMaster
  <2>3. DataTyped'
    <3>1. master' \in BOOLEAN
        BY <1>1, Zenon DEF RequestMaster
    <3>2. /\ UNCHANGED <<domain, config, pd, active, check, seen, scales, fault>>
          /\ \/ session' = "requested" /\ wire' = "none" /\ image' = "none"
             \/ UNCHANGED bus
        BY <1>1 DEF RequestMaster
    <3> QED
        BY <3>1, <3>2, TypeSplit DEF DataTyped, bus
  <2> QED
      BY <2>1, <2>2, <2>3, GotoLocal, PlacesAre
<1>2. CASE FindSlave(t)
  <2>1. call[t] \in Steps /\ "domain" \in Places
      BY <1>2, PlacesAre DEF FindSlave, At, Steps, InitSteps
  <2>2. CASE MasterUsable
    <3>1. Goto(t, "domain") \/ Goto(t, "threw")
        BY <1>2, <2>2, Zenon DEF FindSlave, Using
    <3>2. Local(t)
        BY <2>1, <3>1, GotoLocal, PlacesAre
    <3>3. DataTyped'
        BY <1>2, <2>2, TypeSplit DEF FindSlave, Using, DataTyped, pointers, bus
    <3> QED
        BY <3>2, <3>3
  <2>3. CASE ~(MasterUsable)
      BY <1>2, <2>1, <2>3, FaultTyped DEF FindSlave, Using
  <2> QED
      BY <2>2, <2>3
<1>3. CASE CreateDomain(t)
  <2>1. call[t] \in Steps /\ "config" \in Places
      BY <1>3, PlacesAre DEF CreateDomain, At, Steps, InitSteps
  <2>2. CASE MasterUsable
    <3>1. Goto(t, "config") \/ Goto(t, "threw")
        BY <1>3, <2>2, Zenon DEF CreateDomain, Using
    <3>2. Local(t)
        BY <2>1, <3>1, GotoLocal, PlacesAre
    <3>3. DataTyped'
      <4>1. domain' \in BOOLEAN
          BY <1>3, <2>2, Zenon DEF CreateDomain, Using
      <4>2. UNCHANGED <<master, config, pd, active, check, seen, scales, bus, fault>>
          BY <1>3, <2>2 DEF CreateDomain, Using
      <4> QED
          BY <4>1, <4>2, TypeSplit DEF DataTyped, bus
    <3> QED
        BY <3>2, <3>3
  <2>3. CASE ~(MasterUsable)
      BY <1>3, <2>1, <2>3, FaultTyped DEF CreateDomain, Using
  <2> QED
      BY <2>2, <2>3
<1>4. CASE ConfigureSlave(t)
  <2>1. call[t] \in Steps /\ "register" \in Places
      BY <1>4, PlacesAre DEF ConfigureSlave, At, Steps, InitSteps
  <2>2. CASE MasterUsable
    <3>1. Goto(t, "register") \/ Goto(t, "threw")
        BY <1>4, <2>2, Zenon DEF ConfigureSlave, Using
    <3>2. Local(t)
        BY <2>1, <3>1, GotoLocal, PlacesAre
    <3>3. DataTyped'
      <4>1. config' \in BOOLEAN
          BY <1>4, <2>2, Zenon DEF ConfigureSlave, Using
      <4>2. UNCHANGED <<master, domain, pd, active, check, seen, scales, bus, fault>>
          BY <1>4, <2>2 DEF ConfigureSlave, Using
      <4> QED
          BY <4>1, <4>2, TypeSplit DEF DataTyped, bus
    <3> QED
        BY <3>2, <3>3
  <2>3. CASE ~(MasterUsable)
      BY <1>4, <2>1, <2>3, FaultTyped DEF ConfigureSlave, Using
  <2> QED
      BY <2>2, <2>3
<1>5. CASE RegisterPdos(t)
  <2>1. call[t] \in Steps /\ "activate" \in Places
      BY <1>5, PlacesAre DEF RegisterPdos, At, Steps, InitSteps
  <2>2. CASE MasterUsable
    <3>1. Goto(t, "activate") \/ Goto(t, "threw")
        BY <1>5, <2>2, Zenon DEF RegisterPdos, Using
    <3>2. Local(t)
        BY <2>1, <3>1, GotoLocal, PlacesAre
    <3>3. DataTyped'
        BY <1>5, <2>2, TypeSplit DEF RegisterPdos, Using, DataTyped, pointers, bus
    <3> QED
        BY <3>2, <3>3
  <2>3. CASE ~(MasterUsable)
      BY <1>5, <2>1, <2>3, FaultTyped DEF RegisterPdos, Using
  <2> QED
      BY <2>2, <2>3
<1>6. CASE ActivateMaster(t)
  <2>1. call[t] \in Steps /\ "data" \in Places
      BY <1>6, PlacesAre DEF ActivateMaster, At, Steps, InitSteps
  <2>2. CASE MasterUsable
    <3>1. Goto(t, "data") \/ Goto(t, "threw")
        BY <1>6, <2>2, Zenon DEF ActivateMaster, Using
    <3>2. Local(t)
        BY <2>1, <3>1, GotoLocal, PlacesAre
    <3>3. DataTyped'
        BY <1>6, <2>2, TypeSplit DEF ActivateMaster, Using, DataTyped, pointers, bus
    <3> QED
        BY <3>2, <3>3
  <2>3. CASE ~(MasterUsable)
      BY <1>6, <2>1, <2>3, FaultTyped DEF ActivateMaster, Using
  <2> QED
      BY <2>2, <2>3
<1>7. CASE DomainData(t)
  <2>1. call[t] \in Steps /\ "initWrite" \in Places
      BY <1>7, PlacesAre DEF DomainData, At, Steps, InitSteps
  <2>2. CASE domain /\ session = "active"
    <3>1. Goto(t, "initWrite") \/ Goto(t, "threw")
        BY <1>7, <2>2, Zenon DEF DomainData, Using
    <3>2. Local(t)
        BY <2>1, <3>1, GotoLocal, PlacesAre
    <3>3. DataTyped'
        BY <1>7, <2>2, TypeSplit DEF DomainData, Using, DataTyped, pointers, bus
    <3> QED
        BY <3>2, <3>3
  <2>3. CASE ~(domain /\ session = "active")
      BY <1>7, <2>1, <2>3, FaultTyped DEF DomainData, Using
  <2> QED
      BY <2>2, <2>3
<1>8. CASE ReadCalibrationSdo(t)
  <2>1. call[t] \in Steps
      BY <1>8, PlacesAre DEF ReadCalibrationSdo, At, Steps, InitSteps
  <2>2. CASE MasterUsable
    <3>1. Goto(t, "returned") \/ Goto(t, "threw")
        BY <1>8, <2>2, Zenon DEF ReadCalibrationSdo, Using
    <3>2. Local(t)
        BY <2>1, <3>1, GotoLocal, PlacesAre
    <3>3. DataTyped'
        BY <1>8, <2>2, TypeSplit DEF ReadCalibrationSdo, Using, DataTyped, pointers, bus
    <3> QED
        BY <3>2, <3>3
  <2>3. CASE ~(MasterUsable)
      BY <1>8, <2>1, <2>3, FaultTyped DEF ReadCalibrationSdo, Using
  <2> QED
      BY <2>2, <2>3
<1>9. CASE InitWrite(t)
  <2>1. "initWrite" \in Steps /\ "initCycle" \in Places /\ "word" \in Words
      BY PlacesAre DEF Steps, InitSteps, Words
  <2> QED
      BY <1>9, <2>1, PlacesAre, WriteControlTyped DEF InitWrite
<1>10. CASE InitCycle(t)
  <2>1. "initCycle" \in Steps /\ "calibrate" \in Places
      BY PlacesAre DEF Steps, InitSteps
  <2> QED
      BY <1>10, <2>1, PlacesAre, CycleOnceTyped DEF InitCycle
<1> QED
    BY <1>1, <1>2, <1>3, <1>4, <1>5, <1>6, <1>7, <1>8, <1>9, <1>10 DEF InitStep

\* shutdown
LEMMA StopStepTyped ==
    ASSUME DriverTypeOK, NEW t \in Callers, StopStep(t)
    PROVE  DataTyped' /\ Local(t)
<1>1. CASE Stop(t)
  <2>1. call[t] \in Steps /\ "stopWrite" \in Places /\ "release" \in Places /\ "clear" \in Places
      BY <1>1, PlacesAre DEF Stop, At, Steps, StopSteps
  <2>2. Goto(t, "stopWrite") \/ Goto(t, "release") \/ Goto(t, "clear")
      BY <1>1 DEF Stop
  <2>3. DataTyped'
      BY <1>1, TypeSplit DEF Stop, DataTyped, pointers, bus
  <2> QED
      BY <2>1, <2>2, <2>3, GotoLocal, PlacesAre
<1>2. CASE StopWrite(t)
  <2>1. "stopWrite" \in Steps /\ "stopCycle" \in Places /\ "zero" \in Words
      BY PlacesAre DEF Steps, StopSteps, Words
  <2> QED
      BY <1>2, <2>1, PlacesAre, WriteControlTyped DEF StopWrite
<1>3. CASE StopCycle(t)
  <2>1. "stopCycle" \in Steps /\ "deactivate" \in Places
      BY PlacesAre DEF Steps, StopSteps
  <2> QED
      BY <1>3, <2>1, PlacesAre, CycleOnceTyped DEF StopCycle
<1>4. CASE DeactivateMaster(t)
  <2>1. call[t] \in Steps /\ "clearActive" \in Places
      BY <1>4, PlacesAre DEF DeactivateMaster, At, Steps, StopSteps
  <2>2. CASE MasterUsable
    <3>1. Goto(t, "clearActive")
        BY <1>4, <2>2, Zenon DEF DeactivateMaster, Using
    <3>2. Local(t)
        BY <2>1, <3>1, GotoLocal, PlacesAre
    <3>3. DataTyped'
        BY <1>4, <2>2, TypeSplit DEF DeactivateMaster, Using, DataTyped, pointers, bus
    <3> QED
        BY <3>2, <3>3
  <2>3. CASE ~(MasterUsable)
      BY <1>4, <2>1, <2>3, FaultTyped DEF DeactivateMaster, Using
  <2> QED
      BY <2>2, <2>3
<1>5. CASE ClearActive(t)
  <2>1. call[t] \in Steps /\ "release" \in Places
      BY <1>5, PlacesAre DEF ClearActive, At, Steps, StopSteps
  <2>2. Goto(t, "release")
      BY <1>5 DEF ClearActive
  <2>3. DataTyped'
    <3>1. active' \in BOOLEAN
        BY <1>5, Zenon DEF ClearActive
    <3>2. UNCHANGED <<pointers, check, seen, scales, bus, fault>>
        BY <1>5 DEF ClearActive
    <3> QED
        BY <3>1, <3>2, TypeSplit DEF DataTyped, pointers, bus
  <2> QED
      BY <2>1, <2>2, <2>3, GotoLocal, PlacesAre
<1>6. CASE ReleaseMaster(t)
  <2>1. call[t] \in Steps /\ "clearMaster" \in Places
      BY <1>6, PlacesAre DEF ReleaseMaster, At, Steps, StopSteps
  <2>2. CASE MasterUsable
    <3>1. Goto(t, "clearMaster")
        BY <1>6, <2>2, Zenon DEF ReleaseMaster, Using
    <3>2. Local(t)
        BY <2>1, <3>1, GotoLocal, PlacesAre
    <3>3. DataTyped'
        BY <1>6, <2>2, TypeSplit DEF ReleaseMaster, Using, DataTyped, pointers, bus
    <3> QED
        BY <3>2, <3>3
  <2>3. CASE ~(MasterUsable)
      BY <1>6, <2>1, <2>3, FaultTyped DEF ReleaseMaster, Using
  <2> QED
      BY <2>2, <2>3
<1>7. CASE ClearMaster(t)
  <2>1. call[t] \in Steps /\ "clear" \in Places
      BY <1>7, PlacesAre DEF ClearMaster, At, Steps, StopSteps
  <2>2. Goto(t, "clear")
      BY <1>7 DEF ClearMaster
  <2>3. DataTyped'
    <3>1. master' \in BOOLEAN
        BY <1>7, Zenon DEF ClearMaster
    <3>2. UNCHANGED <<domain, config, pd, active, check, seen, scales, bus, fault>>
        BY <1>7 DEF ClearMaster
    <3> QED
        BY <3>1, <3>2, TypeSplit DEF DataTyped, pointers, bus
  <2> QED
      BY <2>1, <2>2, <2>3, GotoLocal, PlacesAre
<1>8. CASE ClearPointers(t)
  <2>1. call[t] \in Steps
      BY <1>8, PlacesAre DEF ClearPointers, At, Steps, StopSteps
  <2>2. Goto(t, "returned")
      BY <1>8 DEF ClearPointers
  <2>3. DataTyped'
      BY <1>8, TypeSplit DEF ClearPointers, DataTyped, pointers, bus
  <2> QED
      BY <2>1, <2>2, <2>3, GotoLocal, PlacesAre
<1> QED
    BY <1>1, <1>2, <1>3, <1>4, <1>5, <1>6, <1>7, <1>8 DEF StopStep

\* pulse_control_bit_
LEMMA PulseStepTyped ==
    ASSUME DriverTypeOK, NEW t \in Callers, PulseStep(t)
    PROVE  DataTyped' /\ Local(t)
<1>1. CASE PulseCheck(t)
  <2>1. call[t] \in Steps /\ "pulseWrite" \in Places
      BY <1>1, PlacesAre DEF PulseCheck, At, Steps, PulseSteps
  <2>2. Goto(t, "pulseWrite") \/ Goto(t, "threw")
      BY <1>1 DEF PulseCheck
  <2>3. DataTyped'
      BY <1>1, TypeSplit DEF PulseCheck, DataTyped, pointers, bus
  <2> QED
      BY <2>1, <2>2, <2>3, GotoLocal, PlacesAre
<1>2. CASE PulseWrite(t)
  <2>1. "pulseWrite" \in Steps /\ "pulseCycle" \in Places /\ "pulse" \in Words
      BY PlacesAre DEF Steps, PulseSteps, Words
  <2> QED
      BY <1>2, <2>1, PlacesAre, WriteControlTyped DEF PulseWrite
<1>3. CASE PulseCycle(t)
  <2>1. "pulseCycle" \in Steps /\ "pulseEnd" \in Places
      BY PlacesAre DEF Steps, PulseSteps
  <2> QED
      BY <1>3, <2>1, PlacesAre, CycleOnceTyped DEF PulseCycle
<1>4. CASE PulseEnd(t)
  <2>1. "pulseEnd" \in Steps /\ "pulseEndCycle" \in Places /\ "word" \in Words
      BY PlacesAre DEF Steps, PulseSteps, Words
  <2> QED
      BY <1>4, <2>1, PlacesAre, WriteControlTyped DEF PulseEnd
<1>5. CASE PulseEndCycle(t)
  <2>1. "pulseEndCycle" \in Steps
      BY PlacesAre DEF Steps, PulseSteps
  <2> QED
      BY <1>5, <2>1, PlacesAre, CycleOnceTyped DEF PulseEndCycle
<1> QED
    BY <1>1, <1>2, <1>3, <1>4, <1>5 DEF PulseStep

\* read_once
LEMMA ReadStepTyped ==
    ASSUME DriverTypeOK, NEW t \in Callers, ReadStep(t)
    PROVE  DataTyped' /\ Local(t)
<1>1. CASE ReadCheck(t)
  <2>1. call[t] \in Steps /\ "receive" \in Places
      BY <1>1, PlacesAre DEF ReadCheck, At, Steps, ReadSteps
  <2>2. Goto(t, "receive") \/ Goto(t, "threw")
      BY <1>1 DEF ReadCheck
  <2>3. DataTyped'
      BY <1>1, TypeSplit DEF ReadCheck, DataTyped, pointers, bus
  <2> QED
      BY <2>1, <2>2, <2>3, GotoLocal, PlacesAre
<1>2. CASE ReadReceive(t)
  <2>1. call[t] \in Steps /\ "state" \in Places /\ "sample" \in Places
      BY <1>2, PlacesAre DEF ReadReceive, At, Steps, ReadSteps
  <2>2. CASE CycleUsable
    <3>1. Goto(t, "state") \/ Goto(t, "sample")
        BY <1>2, <2>2, Zenon DEF ReadReceive, Using
    <3>2. Local(t)
        BY <2>1, <3>1, GotoLocal, PlacesAre
    <3>3. DataTyped'
        BY <1>2, <2>2, TypeSplit DEF ReadReceive, Using, DataTyped, pointers, Received
    <3> QED
        BY <3>2, <3>3
  <2>3. CASE ~(CycleUsable)
      BY <1>2, <2>1, <2>3, FaultTyped DEF ReadReceive, Using
  <2> QED
      BY <2>2, <2>3
<1>3. CASE CheckState(t)
  <2>1. call[t] \in Steps /\ "sample" \in Places
      BY <1>3, PlacesAre DEF CheckState, At, Steps, ReadSteps
  <2>2. CASE CycleUsable /\ config
    <3>1. Goto(t, "sample")
        BY <1>3, <2>2, Zenon DEF CheckState, Using
    <3>2. Local(t)
        BY <2>1, <3>1, GotoLocal, PlacesAre
    <3>3. DataTyped'
        BY <1>3, <2>2, TypeSplit DEF CheckState, Using, DataTyped, pointers, bus
    <3> QED
        BY <3>2, <3>3
  <2>3. CASE ~(CycleUsable /\ config)
      BY <1>3, <2>1, <2>3, FaultTyped DEF CheckState, Using
  <2> QED
      BY <2>2, <2>3
<1>4. CASE ReadSample(t)
  <2>1. call[t] \in Steps /\ "readWrite" \in Places
      BY <1>4, PlacesAre DEF ReadSample, At, Steps, ReadSteps
  <2>2. CASE ImageUsable
    <3>1. Goto(t, "readWrite")
        BY <1>4, <2>2, Zenon DEF ReadSample, Using
    <3>2. Local(t)
        BY <2>1, <3>1, GotoLocal, PlacesAre
    <3>3. DataTyped'
        BY <1>4, <2>2, TypeSplit DEF ReadSample, Using, DataTyped, pointers, bus
    <3> QED
        BY <3>2, <3>3
  <2>3. CASE ~(ImageUsable)
      BY <1>4, <2>1, <2>3, FaultTyped DEF ReadSample, Using
  <2> QED
      BY <2>2, <2>3
<1>5. CASE ReadWrite(t)
  <2>1. "readWrite" \in Steps /\ "send" \in Places /\ "word" \in Words
      BY PlacesAre DEF Steps, ReadSteps, Words
  <2> QED
      BY <1>5, <2>1, PlacesAre, WriteControlTyped DEF ReadWrite
<1>6. CASE ReadSend(t)
  <2>1. call[t] \in Steps
      BY <1>6, PlacesAre DEF ReadSend, At, Steps, ReadSteps
  <2>2. CASE CycleUsable
    <3>1. Goto(t, "returned")
        BY <1>6, <2>2, Zenon DEF ReadSend, Using
    <3>2. Local(t)
        BY <2>1, <3>1, GotoLocal, PlacesAre
    <3>3. DataTyped'
        BY <1>6, <2>2, TypeSplit DEF ReadSend, Using, DataTyped, pointers
    <3> QED
        BY <3>2, <3>3
  <2>3. CASE ~(CycleUsable)
      BY <1>6, <2>1, <2>3, FaultTyped DEF ReadSend, Using
  <2> QED
      BY <2>2, <2>3
<1> QED
    BY <1>1, <1>2, <1>3, <1>4, <1>5, <1>6 DEF ReadStep

\* read_diagnostic_readings
LEMMA UploadStepTyped ==
    ASSUME DriverTypeOK, NEW t \in Callers, UploadStep(t)
    PROVE  DataTyped' /\ Local(t)
<1>1. CASE UploadCheck(t)
  <2>1. call[t] \in Steps /\ "upload1" \in Places
      BY <1>1, PlacesAre DEF UploadCheck, At, Steps, UploadSteps
  <2>2. Goto(t, "upload1") \/ Goto(t, "threw")
      BY <1>1 DEF UploadCheck
  <2>3. DataTyped'
      BY <1>1, TypeSplit DEF UploadCheck, DataTyped, pointers, bus
  <2> QED
      BY <2>1, <2>2, <2>3, GotoLocal, PlacesAre
<1>2. CASE UploadSdo(t)
  <2>1. call[t] \in {"upload1", "upload2", "upload3"}
      BY <1>2 DEF UploadSdo, AfterUpload
  <2>2. call[t] \in Steps /\ AfterUpload[call[t]] \in Places /\ AfterUpload[call[t]] # "none"
      BY <2>1, PlacesAre DEF AfterUpload, Steps, UploadSteps
  <2>3. CASE MasterUsable
    <3>1. Goto(t, AfterUpload[call[t]]) \/ Goto(t, "threw")
        BY <1>2, <2>3, Zenon DEF UploadSdo, Using
    <3>2. Local(t)
        BY <2>2, <3>1, GotoLocal, PlacesAre
    <3>3. DataTyped'
        BY <1>2, <2>3, TypeSplit DEF UploadSdo, Using, DataTyped, pointers, bus
    <3> QED
        BY <3>2, <3>3
  <2>4. CASE ~MasterUsable
      BY <1>2, <2>2, <2>4, FaultTyped DEF UploadSdo, Using
  <2> QED
      BY <2>3, <2>4
<1> QED
    BY <1>1, <1>2 DEF UploadStep

\* A step of any thread, whatever the others are at.
LEMMA DriverStepTyped ==
    ASSUME DriverTypeOK, NEW t \in Callers, DriverStep(t)
    PROVE  DriverTypeOK' /\ Local(t)
<1>1. DataTyped' /\ Local(t)
    BY InitStepTyped, StopStepTyped, PulseStepTyped, ReadStepTyped, UploadStepTyped
       DEF DriverStep
<1>2. (DataTyped /\ call \in [Callers -> Places])' => DriverTypeOK'
    BY DEF DriverTypeOK, DataTyped, Places
<1> QED
    BY <1>1, <1>2, TypeSplit DEF Local

----------------------------------------------------------------------------
(* The inductive invariant: what each step may rely on. *)

SteadyPlaces == {"none", "returned", "threw", "stop", "pulse", "read", "upload"}

\* The steps of a driver that is active.
LiveSteps ==
    {"initWrite", "initCycle", "calibrate", "stopWrite", "stopCycle", "deactivate",
     "pulseWrite", "pulseCycle", "pulseEnd", "pulseEndCycle",
     "receive", "state", "sample", "readWrite", "send"}

UploadsLeft == {"upload1", "upload2", "upload3"}

\* What the driver knows of its session between two methods.
Consistent ==
    /\ master <=> session # "released"
    /\ active <=> pd
    /\ active => domain /\ config /\ session = "active"

ShapeOfInit(place) ==
    /\ place \in {"find", "domain", "config", "register", "activate"} =>
         master /\ session = "requested" /\ ~active /\ ~pd
    /\ place \in {"config", "register", "activate", "data"} => domain
    /\ place \in {"register", "activate", "data"} => config
    /\ place = "data" => master /\ session = "active" /\ ~active /\ ~pd

ShapeOfStop(place) ==
    /\ place = "clearActive" => master /\ session = "requested"
    /\ place = "release" => master /\ session # "released" /\ ~active
    /\ place = "clearMaster" => session = "released" /\ ~active
    /\ place = "clear" => ~master /\ session = "released" /\ ~active

ShapeOfRead(place) ==
    /\ active /\ ~check => seen = "now"
    /\ place \in {"receive", "state", "sample"} => scales = "positive"
    /\ place = "sample" => seen = "now"

Shape(place) ==
    /\ place \in SteadyPlaces \cup LiveSteps \cup UploadsLeft \cup {"request"} => Consistent
    /\ place \in LiveSteps => active
    /\ place = "request" => ~master
    /\ place \in UploadsLeft => master
    /\ ShapeOfInit(place) /\ ShapeOfStop(place) /\ ShapeOfRead(place)

\* The methods are called one at a time.
Alone ==
    \A t \in Callers, u \in Callers : call[t] # "none" /\ call[u] # "none" => t = u

DriverInv ==
    /\ DriverTypeOK
    /\ ~fault
    /\ Alone
    /\ Idle => Shape("none")
    /\ \A t \in Callers : call[t] # "none" => Shape(call[t])

----------------------------------------------------------------------------
(* One step of a method, from what its thread may rely on. *)

\* A step's thread is where it went.
LEMMA GotoIs ==
    ASSUME DriverTypeOK, NEW t \in Callers, NEW place, Goto(t, place)
    PROVE  call'[t] = place
BY DEF DriverTypeOK, Goto

\* write_control_ is defined on a live driver, and writes the image only.
LEMMA WriteControlKeeps ==
    ASSUME DriverTypeOK, NEW t \in Callers, Shape(call[t]),
           NEW step \in LiveSteps, NEW word, NEW next, WriteControl(t, step, word, next)
    PROVE  /\ UNCHANGED <<pointers, active, check, seen, scales, session, fault>>
           /\ call'[t] = next /\ call[t] = step
<1>1. call[t] = step
    BY DEF WriteControl, At
<1>2. ImageUsable
    BY <1>1 DEF Shape, Consistent, ImageUsable
<1>3. Goto(t, next)
    BY <1>2, Zenon DEF WriteControl, Using
<1> QED
    BY <1>1, <1>2, <1>3, GotoIs DEF WriteControl, Using

\* cycle_once_ is defined on a live driver, and moves a frame only.
LEMMA CycleOnceKeeps ==
    ASSUME DriverTypeOK, NEW t \in Callers, Shape(call[t]),
           NEW step \in LiveSteps, NEW next, CycleOnce(t, step, next)
    PROVE  /\ UNCHANGED <<pointers, active, check, seen, scales, session, fault>>
           /\ call'[t] = next /\ call[t] = step
<1>1. call[t] = step
    BY DEF CycleOnce, At
<1>2. CycleUsable
    BY <1>1, DriverTypeOK DEF Shape, Consistent, CycleUsable, MasterUsable
<1>3. Goto(t, next)
    BY <1>2, Zenon DEF CycleOnce, Using
<1> QED
    BY <1>1, <1>2, <1>3, GotoIs DEF CycleOnce, Using

\* init, at each of the places it can throw.
LEMMA InitStepKeeps ==
    ASSUME DriverTypeOK, NEW t \in Callers, Shape(call[t]), InitStep(t)
    PROVE  Shape(call[t])' /\ UNCHANGED fault
<1> USE DEF Shape, ShapeOfInit, ShapeOfStop, ShapeOfRead, Consistent,
            SteadyPlaces, LiveSteps, UploadsLeft
<1>1. CASE RequestMaster(t)
  <2>1. call[t] = "request"
      BY <1>1 DEF RequestMaster, At
  <2> QED
      BY <1>1, <2>1, GotoIs DEF RequestMaster, DriverTypeOK, pointers, bus, IsActive
<1>2. CASE FindSlave(t)
  <2>1. call[t] = "find"
      BY <1>2 DEF FindSlave, At
  <2>2. MasterUsable
      BY <2>1, Shape(call[t]) DEF MasterUsable
  <2>3. call'[t] \in {"domain", "threw"}
    <3>1. Goto(t, "domain") \/ Goto(t, "threw")
        BY <1>2, <2>2, Zenon DEF FindSlave, Using
    <3> QED
        BY <3>1, GotoIs
  <2> QED
      BY <1>2, <2>1, <2>2, <2>3, GotoIs DEF FindSlave, Using, pointers, bus, MasterUsable
<1>3. CASE CreateDomain(t)
  <2>1. call[t] = "domain"
      BY <1>3 DEF CreateDomain, At
  <2>2. MasterUsable
      BY <2>1, Shape(call[t]) DEF MasterUsable
  <2>3. call'[t] \in {"config", "threw"}
    <3>1. Goto(t, "config") \/ Goto(t, "threw")
        BY <1>3, <2>2, Zenon DEF CreateDomain, Using
    <3> QED
        BY <3>1, GotoIs
  <2> QED
      BY <1>3, <2>1, <2>2, <2>3, GotoIs DEF CreateDomain, Using, pointers, bus, MasterUsable
<1>4. CASE ConfigureSlave(t)
  <2>1. call[t] = "config"
      BY <1>4 DEF ConfigureSlave, At
  <2>2. MasterUsable
      BY <2>1, Shape(call[t]) DEF MasterUsable
  <2>3. call'[t] \in {"register", "threw"}
    <3>1. Goto(t, "register") \/ Goto(t, "threw")
        BY <1>4, <2>2, Zenon DEF ConfigureSlave, Using
    <3> QED
        BY <3>1, GotoIs
  <2> QED
      BY <1>4, <2>1, <2>2, <2>3, GotoIs DEF ConfigureSlave, Using, pointers, bus, MasterUsable
<1>5. CASE RegisterPdos(t)
  <2>1. call[t] = "register"
      BY <1>5 DEF RegisterPdos, At
  <2>2. MasterUsable
      BY <2>1, Shape(call[t]) DEF MasterUsable
  <2>3. call'[t] \in {"activate", "threw"}
    <3>1. Goto(t, "activate") \/ Goto(t, "threw")
        BY <1>5, <2>2, Zenon DEF RegisterPdos, Using
    <3> QED
        BY <3>1, GotoIs
  <2> QED
      BY <1>5, <2>1, <2>2, <2>3, GotoIs DEF RegisterPdos, Using, pointers, bus, MasterUsable
<1>6. CASE ActivateMaster(t)
  <2>1. call[t] = "activate"
      BY <1>6 DEF ActivateMaster, At
  <2>2. MasterUsable
      BY <2>1, Shape(call[t]) DEF MasterUsable
  <2>3. call'[t] \in {"data", "threw"}
    <3>1. Goto(t, "data") \/ Goto(t, "threw")
        BY <1>6, <2>2, Zenon DEF ActivateMaster, Using
    <3> QED
        BY <3>1, GotoIs
  <2> QED
      BY <1>6, <2>1, <2>2, <2>3, GotoIs DEF ActivateMaster, Using, pointers, bus, MasterUsable
<1>7. CASE DomainData(t)
  <2>1. call[t] = "data"
      BY <1>7 DEF DomainData, At
  <2>2. domain /\ session = "active"
      BY <2>1, Shape(call[t]) DEF Consistent
  <2>3. call'[t] \in {"initWrite", "threw"}
    <3>1. Goto(t, "initWrite") \/ Goto(t, "threw")
        BY <1>7, <2>2, Zenon DEF DomainData, Using
    <3> QED
        BY <3>1, GotoIs
  <2> QED
      BY <1>7, <2>1, <2>2, <2>3, GotoIs DEF DomainData, Using, pointers, bus, MasterUsable
<1>8. CASE ReadCalibrationSdo(t)
  <2>1. call[t] = "calibrate"
      BY <1>8 DEF ReadCalibrationSdo, At
  <2>2. MasterUsable
      BY <2>1, Shape(call[t]) DEF MasterUsable
  <2>3. call'[t] \in {"returned", "threw"}
    <3>1. Goto(t, "returned") \/ Goto(t, "threw")
        BY <1>8, <2>2, Zenon DEF ReadCalibrationSdo, Using
    <3> QED
        BY <3>1, GotoIs
  <2> QED
      BY <1>8, <2>1, <2>2, <2>3, GotoIs DEF ReadCalibrationSdo, Using, pointers, bus, MasterUsable
<1>9. CASE InitWrite(t)
    BY <1>9, WriteControlKeeps DEF InitWrite, pointers
<1>10. CASE InitCycle(t)
    BY <1>10, CycleOnceKeeps DEF InitCycle, pointers
<1> QED
    BY <1>1, <1>2, <1>3, <1>4, <1>5, <1>6, <1>7, <1>8, <1>9, <1>10 DEF InitStep

\* shutdown, of whatever init left.
LEMMA StopStepKeeps ==
    ASSUME DriverTypeOK, NEW t \in Callers, Shape(call[t]), StopStep(t)
    PROVE  Shape(call[t])' /\ UNCHANGED fault
<1> USE DEF Shape, ShapeOfInit, ShapeOfStop, ShapeOfRead, Consistent,
            SteadyPlaces, LiveSteps, UploadsLeft
<1>1. CASE Stop(t)
  <2>1. call[t] = "stop"
      BY <1>1 DEF Stop, At
  <2> QED
      BY <1>1, <2>1, GotoIs DEF Stop, DriverTypeOK, pointers, bus, IsActive
<1>2. CASE StopWrite(t)
    BY <1>2, WriteControlKeeps DEF StopWrite, pointers
<1>3. CASE StopCycle(t)
    BY <1>3, CycleOnceKeeps DEF StopCycle, pointers
<1>4. CASE DeactivateMaster(t)
  <2>1. call[t] = "deactivate"
      BY <1>4 DEF DeactivateMaster, At
  <2>2. MasterUsable
      BY <2>1, Shape(call[t]) DEF MasterUsable
  <2>3. call'[t] \in {"clearActive"}
    <3>1. Goto(t, "clearActive")
        BY <1>4, <2>2, Zenon DEF DeactivateMaster, Using
    <3> QED
        BY <3>1, GotoIs
  <2> QED
      BY <1>4, <2>1, <2>2, <2>3, GotoIs DEF DeactivateMaster, Using, pointers, bus, MasterUsable
<1>5. CASE ClearActive(t)
  <2>1. call[t] = "clearActive"
      BY <1>5 DEF ClearActive, At
  <2> QED
      BY <1>5, <2>1, GotoIs DEF ClearActive, DriverTypeOK, pointers, bus, IsActive
<1>6. CASE ReleaseMaster(t)
  <2>1. call[t] = "release"
      BY <1>6 DEF ReleaseMaster, At
  <2>2. MasterUsable
      BY <2>1, Shape(call[t]) DEF MasterUsable
  <2>3. call'[t] \in {"clearMaster"}
    <3>1. Goto(t, "clearMaster")
        BY <1>6, <2>2, Zenon DEF ReleaseMaster, Using
    <3> QED
        BY <3>1, GotoIs
  <2> QED
      BY <1>6, <2>1, <2>2, <2>3, GotoIs DEF ReleaseMaster, Using, pointers, bus, MasterUsable
<1>7. CASE ClearMaster(t)
  <2>1. call[t] = "clearMaster"
      BY <1>7 DEF ClearMaster, At
  <2> QED
      BY <1>7, <2>1, GotoIs DEF ClearMaster, DriverTypeOK, pointers, bus, IsActive
<1>8. CASE ClearPointers(t)
  <2>1. call[t] = "clear"
      BY <1>8 DEF ClearPointers, At
  <2> QED
      BY <1>8, <2>1, GotoIs DEF ClearPointers, DriverTypeOK, pointers, bus, IsActive
<1> QED
    BY <1>1, <1>2, <1>3, <1>4, <1>5, <1>6, <1>7, <1>8 DEF StopStep

\* pulse_control_bit_.
LEMMA PulseStepKeeps ==
    ASSUME DriverTypeOK, NEW t \in Callers, Shape(call[t]), PulseStep(t)
    PROVE  Shape(call[t])' /\ UNCHANGED fault
<1> USE DEF Shape, ShapeOfInit, ShapeOfStop, ShapeOfRead, Consistent,
            SteadyPlaces, LiveSteps, UploadsLeft
<1>1. CASE PulseCheck(t)
  <2>1. call[t] = "pulse"
      BY <1>1 DEF PulseCheck, At
  <2> QED
      BY <1>1, <2>1, GotoIs DEF PulseCheck, DriverTypeOK, pointers, bus, IsActive
<1>2. CASE PulseWrite(t)
    BY <1>2, WriteControlKeeps DEF PulseWrite, pointers
<1>3. CASE PulseCycle(t)
    BY <1>3, CycleOnceKeeps DEF PulseCycle, pointers
<1>4. CASE PulseEnd(t)
    BY <1>4, WriteControlKeeps DEF PulseEnd, pointers
<1>5. CASE PulseEndCycle(t)
    BY <1>5, CycleOnceKeeps DEF PulseEndCycle, pointers
<1> QED
    BY <1>1, <1>2, <1>3, <1>4, <1>5 DEF PulseStep

\* read_once.
LEMMA ReadStepKeeps ==
    ASSUME DriverTypeOK, NEW t \in Callers, Shape(call[t]), ReadStep(t)
    PROVE  Shape(call[t])' /\ UNCHANGED fault
<1> USE DEF Shape, ShapeOfInit, ShapeOfStop, ShapeOfRead, Consistent,
            SteadyPlaces, LiveSteps, UploadsLeft
<1>1. CASE ReadCheck(t)
  <2>1. call[t] = "read"
      BY <1>1 DEF ReadCheck, At
  <2> QED
      BY <1>1, <2>1, GotoIs DEF ReadCheck, DriverTypeOK, pointers, bus, IsActive
<1>2. CASE ReadReceive(t)
  <2>1. call[t] = "receive"
      BY <1>2 DEF ReadReceive, At
  <2>2. CycleUsable
      BY <2>1, Shape(call[t]) DEF CycleUsable, MasterUsable
  <2>3. call'[t] \in {"state", "sample"}
    <3>1. Goto(t, "state") \/ Goto(t, "sample")
        BY <1>2, <2>2, Zenon DEF ReadReceive, Using
    <3> QED
        BY <3>1, GotoIs
  <2> QED
      BY <1>2, <2>1, <2>2, <2>3, GotoIs DEF ReadReceive, Using, pointers, bus, MasterUsable
<1>3. CASE CheckState(t)
  <2>1. call[t] = "state"
      BY <1>3 DEF CheckState, At
  <2>2. CycleUsable /\ config
      BY <2>1, Shape(call[t]) DEF CycleUsable, MasterUsable
  <2>3. call'[t] \in {"sample"}
    <3>1. Goto(t, "sample")
        BY <1>3, <2>2, Zenon DEF CheckState, Using
    <3> QED
        BY <3>1, GotoIs
  <2> QED
      BY <1>3, <2>1, <2>2, <2>3, GotoIs DEF CheckState, Using, pointers, bus, MasterUsable
<1>4. CASE ReadSample(t)
  <2>1. call[t] = "sample"
      BY <1>4 DEF ReadSample, At
  <2>2. ImageUsable
      BY <2>1, Shape(call[t]) DEF ImageUsable
  <2>3. call'[t] \in {"readWrite"}
    <3>1. Goto(t, "readWrite")
        BY <1>4, <2>2, Zenon DEF ReadSample, Using
    <3> QED
        BY <3>1, GotoIs
  <2> QED
      BY <1>4, <2>1, <2>2, <2>3, GotoIs DEF ReadSample, Using, pointers, bus, MasterUsable
<1>5. CASE ReadWrite(t)
    BY <1>5, WriteControlKeeps DEF ReadWrite, pointers
<1>6. CASE ReadSend(t)
  <2>1. call[t] = "send"
      BY <1>6 DEF ReadSend, At
  <2>2. CycleUsable
      BY <2>1, Shape(call[t]) DEF CycleUsable, MasterUsable
  <2>3. call'[t] \in {"returned"}
    <3>1. Goto(t, "returned")
        BY <1>6, <2>2, Zenon DEF ReadSend, Using
    <3> QED
        BY <3>1, GotoIs
  <2> QED
      BY <1>6, <2>1, <2>2, <2>3, GotoIs DEF ReadSend, Using, pointers, bus, MasterUsable
<1> QED
    BY <1>1, <1>2, <1>3, <1>4, <1>5, <1>6 DEF ReadStep

\* read_diagnostic_readings.
LEMMA UploadStepKeeps ==
    ASSUME DriverTypeOK, NEW t \in Callers, Shape(call[t]), UploadStep(t)
    PROVE  Shape(call[t])' /\ UNCHANGED fault
<1> USE DEF Shape, ShapeOfInit, ShapeOfStop, ShapeOfRead, Consistent,
            SteadyPlaces, LiveSteps, UploadsLeft
<1>1. CASE UploadCheck(t)
  <2>1. call[t] = "upload"
      BY <1>1 DEF UploadCheck, At
  <2> QED
      BY <1>1, <2>1, GotoIs DEF UploadCheck, DriverTypeOK, pointers, bus, IsActive
<1>2. CASE UploadSdo(t)
  <2>1. call[t] \in UploadsLeft
      BY <1>2 DEF UploadSdo, AfterUpload, UploadsLeft
  <2>2. MasterUsable /\ Consistent
      BY <2>1, Shape(call[t]) DEF Shape, Consistent, MasterUsable
  <2>3. call'[t] \in {"upload2", "upload3", "returned", "threw"}
    <3>1. Goto(t, AfterUpload[call[t]]) \/ Goto(t, "threw")
        BY <1>2, <2>2, Zenon DEF UploadSdo, Using
    <3>2. AfterUpload[call[t]] \in {"upload2", "upload3", "returned"}
        BY <2>1 DEF UploadsLeft, AfterUpload
    <3> QED
        BY <3>1, <3>2, GotoIs
  <2> QED
      BY <1>2, <2>1, <2>2, <2>3
         DEF UploadSdo, Using, pointers, bus, MasterUsable
<1> QED
    BY <1>1, <1>2 DEF UploadStep

\* Any step.
LEMMA DriverStepKeeps ==
    ASSUME DriverTypeOK, NEW t \in Callers, Shape(call[t]), DriverStep(t)
    PROVE  Shape(call[t])' /\ UNCHANGED fault
BY InitStepKeeps, StopStepKeeps, PulseStepKeeps, ReadStepKeeps, UploadStepKeeps
   DEF DriverStep

----------------------------------------------------------------------------
(* Where the steps of a method lead. *)

\* The step a thread takes is of the method it is in.
LEMMA MethodIs ==
    ASSUME NEW t \in Callers, DriverStep(t)
    PROVE  /\ call[t] \in InitSteps => InitStep(t)
           /\ call[t] \in StopSteps => StopStep(t)
           /\ call[t] \in PulseSteps => PulseStep(t)
           /\ call[t] \in ReadSteps => ReadStep(t)
           /\ call[t] \in UploadSteps => UploadStep(t)
<1>1. InitStep(t) => call[t] \in InitSteps
    BY DEF InitStep, RequestMaster, FindSlave, CreateDomain, ConfigureSlave, RegisterPdos,
           ActivateMaster, DomainData, InitWrite, InitCycle, ReadCalibrationSdo,
           WriteControl, CycleOnce, At, InitSteps
<1>2. StopStep(t) => call[t] \in StopSteps
    BY DEF StopStep, Stop, StopWrite, StopCycle, DeactivateMaster, ClearActive,
           ReleaseMaster, ClearMaster, ClearPointers, WriteControl, CycleOnce, At, StopSteps
<1>3. PulseStep(t) => call[t] \in PulseSteps
    BY DEF PulseStep, PulseCheck, PulseWrite, PulseCycle, PulseEnd, PulseEndCycle,
           WriteControl, CycleOnce, At, PulseSteps
<1>4. ReadStep(t) => call[t] \in ReadSteps
    BY DEF ReadStep, ReadCheck, ReadReceive, CheckState, ReadSample, ReadWrite, ReadSend,
           WriteControl, At, ReadSteps
<1>5. UploadStep(t) => call[t] \in UploadSteps
    BY DEF UploadStep, UploadCheck, UploadSdo, AfterUpload, At, UploadSteps
<1> QED
    BY <1>1, <1>2, <1>3, <1>4, <1>5
       DEF DriverStep, InitSteps, StopSteps, PulseSteps, ReadSteps, UploadSteps

\* init goes on, returns with an active driver and scales that were not refused, or
\* throws; without a calibration upload it throws only before the driver is active.
LEMMA InitStays ==
    ASSUME DriverTypeOK, NEW t \in Callers, Shape(call[t]), InitStep(t),
           ~ReadCalibration => scales = "positive" /\ call[t] # "calibrate"
    PROVE  /\ call'[t] \in InitSteps \cup {"returned", "threw"}
           /\ call'[t] = "returned" => active' /\ scales' = "positive"
           /\ ~ReadCalibration => scales' = "positive" /\ call'[t] # "calibrate"
           /\ ~ReadCalibration /\ call'[t] = "threw" => ~active'
<1> USE DEF Shape, ShapeOfInit, ShapeOfStop, ShapeOfRead, Consistent,
            SteadyPlaces, LiveSteps, UploadsLeft, InitSteps
<1>1. CASE RequestMaster(t)
  <2>1. call[t] = "request"
      BY <1>1 DEF RequestMaster, At
  <2> QED
      BY <1>1, <2>1, GotoIs DEF RequestMaster, pointers, bus, IsActive, DriverTypeOK
<1>2. CASE FindSlave(t)
  <2>1. call[t] = "find"
      BY <1>2 DEF FindSlave, At
  <2>2. MasterUsable
      BY <2>1, Shape(call[t]) DEF MasterUsable, CycleUsable, ImageUsable
  <2>3. Goto(t, "domain") \/ Goto(t, "threw")
      BY <1>2, <2>2, Zenon DEF FindSlave, Using
  <2>4. call'[t] \in {"domain", "threw"}
      BY <2>3, GotoIs
  <2> QED
      BY <1>2, <2>1, <2>2, <2>4 DEF FindSlave, Using, pointers
<1>3. CASE CreateDomain(t)
  <2>1. call[t] = "domain"
      BY <1>3 DEF CreateDomain, At
  <2>2. MasterUsable
      BY <2>1, Shape(call[t]) DEF MasterUsable, CycleUsable, ImageUsable
  <2>3. Goto(t, "config") \/ Goto(t, "threw")
      BY <1>3, <2>2, Zenon DEF CreateDomain, Using
  <2>4. call'[t] \in {"config", "threw"}
      BY <2>3, GotoIs
  <2> QED
      BY <1>3, <2>1, <2>2, <2>4 DEF CreateDomain, Using, pointers
<1>4. CASE ConfigureSlave(t)
  <2>1. call[t] = "config"
      BY <1>4 DEF ConfigureSlave, At
  <2>2. MasterUsable
      BY <2>1, Shape(call[t]) DEF MasterUsable, CycleUsable, ImageUsable
  <2>3. Goto(t, "register") \/ Goto(t, "threw")
      BY <1>4, <2>2, Zenon DEF ConfigureSlave, Using
  <2>4. call'[t] \in {"register", "threw"}
      BY <2>3, GotoIs
  <2> QED
      BY <1>4, <2>1, <2>2, <2>4 DEF ConfigureSlave, Using, pointers
<1>5. CASE RegisterPdos(t)
  <2>1. call[t] = "register"
      BY <1>5 DEF RegisterPdos, At
  <2>2. MasterUsable
      BY <2>1, Shape(call[t]) DEF MasterUsable, CycleUsable, ImageUsable
  <2>3. Goto(t, "activate") \/ Goto(t, "threw")
      BY <1>5, <2>2, Zenon DEF RegisterPdos, Using
  <2>4. call'[t] \in {"activate", "threw"}
      BY <2>3, GotoIs
  <2> QED
      BY <1>5, <2>1, <2>2, <2>4 DEF RegisterPdos, Using, pointers
<1>6. CASE ActivateMaster(t)
  <2>1. call[t] = "activate"
      BY <1>6 DEF ActivateMaster, At
  <2>2. MasterUsable
      BY <2>1, Shape(call[t]) DEF MasterUsable, CycleUsable, ImageUsable
  <2>3. Goto(t, "data") \/ Goto(t, "threw")
      BY <1>6, <2>2, Zenon DEF ActivateMaster, Using
  <2>4. call'[t] \in {"data", "threw"}
      BY <2>3, GotoIs
  <2> QED
      BY <1>6, <2>1, <2>2, <2>4 DEF ActivateMaster, Using, pointers
<1>7. CASE DomainData(t)
  <2>1. call[t] = "data"
      BY <1>7 DEF DomainData, At
  <2>2. domain /\ session = "active"
      BY <2>1, Shape(call[t]) DEF MasterUsable, CycleUsable, ImageUsable
  <2>3. Goto(t, "initWrite") \/ (Goto(t, "threw") /\ UNCHANGED active)
      BY <1>7, <2>2, Zenon DEF DomainData, Using
  <2>4. call'[t] = "initWrite" \/ (call'[t] = "threw" /\ UNCHANGED active)
      BY <2>3, GotoIs
  <2>5. UNCHANGED scales
      BY <1>7, <2>2, Zenon DEF DomainData, Using
  <2> QED
      BY <2>1, <2>4, <2>5
<1>8. CASE InitWrite(t)
    BY <1>8, WriteControlKeeps DEF InitWrite, pointers
<1>9. CASE InitCycle(t)
    BY <1>9, CycleOnceKeeps DEF InitCycle, pointers
<1>10. CASE ReadCalibrationSdo(t)
  <2>1. call[t] = "calibrate"
      BY <1>10 DEF ReadCalibrationSdo, At
  <2>2. MasterUsable
      BY <2>1, Shape(call[t]) DEF MasterUsable, CycleUsable, ImageUsable
  <2>3. (scales' = "positive" /\ Goto(t, "returned")) \/ Goto(t, "threw")
      BY <1>10, <2>2, Zenon DEF ReadCalibrationSdo, Using
  <2>4. (scales' = "positive" /\ call'[t] = "returned") \/ call'[t] = "threw"
      BY <2>3, GotoIs
  <2>5. active /\ UNCHANGED active
      BY <1>10, <2>1, <2>2 DEF ReadCalibrationSdo, Using
  <2> QED
      BY <2>1, <2>4, <2>5
<1> QED
    BY <1>1, <1>2, <1>3, <1>4, <1>5, <1>6, <1>7, <1>8, <1>9, <1>10 DEF InitStep

\* shutdown returns, and then without a master.
LEMMA StopStays ==
    ASSUME DriverTypeOK, NEW t \in Callers, Shape(call[t]), StopStep(t)
    PROVE  /\ call'[t] \in StopSteps \cup {"returned"}
           /\ call'[t] = "returned" => ~master'
           /\ master' => master
           /\ active' => active
           /\ UNCHANGED scales
<1> USE DEF Shape, ShapeOfInit, ShapeOfStop, ShapeOfRead, Consistent,
            SteadyPlaces, LiveSteps, UploadsLeft, StopSteps
<1>1. CASE Stop(t)
  <2>1. call[t] = "stop"
      BY <1>1 DEF Stop, At
  <2> QED
      BY <1>1, <2>1, GotoIs DEF Stop, pointers, bus, IsActive, DriverTypeOK
<1>2. CASE StopWrite(t)
    BY <1>2, WriteControlKeeps DEF StopWrite, pointers
<1>3. CASE StopCycle(t)
    BY <1>3, CycleOnceKeeps DEF StopCycle, pointers
<1>4. CASE DeactivateMaster(t)
  <2>1. call[t] = "deactivate"
      BY <1>4 DEF DeactivateMaster, At
  <2>2. MasterUsable
      BY <2>1, Shape(call[t]) DEF MasterUsable, CycleUsable, ImageUsable
  <2>3. Goto(t, "clearActive")
      BY <1>4, <2>2, Zenon DEF DeactivateMaster, Using
  <2>4. call'[t] \in {"clearActive"}
      BY <2>3, GotoIs
  <2> QED
      BY <1>4, <2>1, <2>2, <2>4 DEF DeactivateMaster, Using, pointers
<1>5. CASE ClearActive(t)
  <2>1. call[t] = "clearActive"
      BY <1>5 DEF ClearActive, At
  <2> QED
      BY <1>5, <2>1, GotoIs DEF ClearActive, pointers, bus, IsActive, DriverTypeOK
<1>6. CASE ReleaseMaster(t)
  <2>1. call[t] = "release"
      BY <1>6 DEF ReleaseMaster, At
  <2>2. MasterUsable
      BY <2>1, Shape(call[t]) DEF MasterUsable, CycleUsable, ImageUsable
  <2>3. Goto(t, "clearMaster")
      BY <1>6, <2>2, Zenon DEF ReleaseMaster, Using
  <2>4. call'[t] \in {"clearMaster"}
      BY <2>3, GotoIs
  <2> QED
      BY <1>6, <2>1, <2>2, <2>4 DEF ReleaseMaster, Using, pointers
<1>7. CASE ClearMaster(t)
  <2>1. call[t] = "clearMaster"
      BY <1>7 DEF ClearMaster, At
  <2> QED
      BY <1>7, <2>1, GotoIs DEF ClearMaster, pointers, bus, IsActive, DriverTypeOK
<1>8. CASE ClearPointers(t)
  <2>1. call[t] = "clear"
      BY <1>8 DEF ClearPointers, At
  <2> QED
      BY <1>8, <2>1, GotoIs DEF ClearPointers, pointers, bus, IsActive, DriverTypeOK
<1> QED
    BY <1>1, <1>2, <1>3, <1>4, <1>5, <1>6, <1>7, <1>8 DEF StopStep

\* A pulse is refused by an inactive driver only.
LEMMA PulseStays ==
    ASSUME DriverTypeOK, NEW t \in Callers, Shape(call[t]), PulseStep(t)
    PROVE  /\ call'[t] \in PulseSteps \cup {"returned", "threw"}
           /\ active => call'[t] # "threw"
           /\ UNCHANGED <<master, active, scales>>
<1> USE DEF Shape, ShapeOfInit, ShapeOfStop, ShapeOfRead, Consistent,
            SteadyPlaces, LiveSteps, UploadsLeft, PulseSteps
<1>1. CASE PulseCheck(t)
  <2>1. call[t] = "pulse"
      BY <1>1 DEF PulseCheck, At
  <2> QED
      BY <1>1, <2>1, GotoIs DEF PulseCheck, pointers, bus, IsActive, DriverTypeOK
<1>2. CASE PulseWrite(t)
    BY <1>2, WriteControlKeeps DEF PulseWrite, pointers
<1>3. CASE PulseCycle(t)
    BY <1>3, CycleOnceKeeps DEF PulseCycle, pointers
<1>4. CASE PulseEnd(t)
    BY <1>4, WriteControlKeeps DEF PulseEnd, pointers
<1>5. CASE PulseEndCycle(t)
    BY <1>5, CycleOnceKeeps DEF PulseEndCycle, pointers
<1> QED
    BY <1>1, <1>2, <1>3, <1>4, <1>5 DEF PulseStep

\* read_once is refused by a driver that is inactive or has no scales, and ends at
\* once by one that is inactive.
LEMMA ReadStays ==
    ASSUME DriverTypeOK, NEW t \in Callers, Shape(call[t]), ReadStep(t)
    PROVE  /\ call'[t] \in ReadSteps \cup {"returned", "threw"}
           /\ call'[t] = "threw" => ~(active /\ scales = "positive")
           /\ ~active => call'[t] = "threw"
           /\ UNCHANGED <<master, active, scales>>
<1> USE DEF Shape, ShapeOfInit, ShapeOfStop, ShapeOfRead, Consistent,
            SteadyPlaces, LiveSteps, UploadsLeft, ReadSteps
<1>1. CASE ReadCheck(t)
  <2>1. call[t] = "read"
      BY <1>1 DEF ReadCheck, At
  <2> QED
      BY <1>1, <2>1, GotoIs DEF ReadCheck, pointers, bus, IsActive, DriverTypeOK
<1>2. CASE ReadReceive(t)
  <2>1. call[t] = "receive"
      BY <1>2 DEF ReadReceive, At
  <2>2. CycleUsable
      BY <2>1, Shape(call[t]) DEF MasterUsable, CycleUsable, ImageUsable
  <2>3. Goto(t, "state") \/ Goto(t, "sample")
      BY <1>2, <2>2, Zenon DEF ReadReceive, Using
  <2>4. call'[t] \in {"state", "sample"}
      BY <2>3, GotoIs
  <2> QED
      BY <1>2, <2>1, <2>2, <2>4 DEF ReadReceive, Using, pointers
<1>3. CASE CheckState(t)
  <2>1. call[t] = "state"
      BY <1>3 DEF CheckState, At
  <2>2. CycleUsable /\ config
      BY <2>1, Shape(call[t]) DEF MasterUsable, CycleUsable, ImageUsable
  <2>3. Goto(t, "sample")
      BY <1>3, <2>2, Zenon DEF CheckState, Using
  <2>4. call'[t] \in {"sample"}
      BY <2>3, GotoIs
  <2> QED
      BY <1>3, <2>1, <2>2, <2>4 DEF CheckState, Using, pointers
<1>4. CASE ReadSample(t)
  <2>1. call[t] = "sample"
      BY <1>4 DEF ReadSample, At
  <2>2. ImageUsable
      BY <2>1, Shape(call[t]) DEF MasterUsable, CycleUsable, ImageUsable
  <2>3. Goto(t, "readWrite")
      BY <1>4, <2>2, Zenon DEF ReadSample, Using
  <2>4. call'[t] \in {"readWrite"}
      BY <2>3, GotoIs
  <2> QED
      BY <1>4, <2>1, <2>2, <2>4 DEF ReadSample, Using, pointers
<1>5. CASE ReadWrite(t)
    BY <1>5, WriteControlKeeps DEF ReadWrite, pointers
<1>6. CASE ReadSend(t)
  <2>1. call[t] = "send"
      BY <1>6 DEF ReadSend, At
  <2>2. CycleUsable
      BY <2>1, Shape(call[t]) DEF MasterUsable, CycleUsable, ImageUsable
  <2>3. Goto(t, "returned")
      BY <1>6, <2>2, Zenon DEF ReadSend, Using
  <2>4. call'[t] \in {"returned"}
      BY <2>3, GotoIs
  <2> QED
      BY <1>6, <2>1, <2>2, <2>4 DEF ReadSend, Using, pointers
<1> QED
    BY <1>1, <1>2, <1>3, <1>4, <1>5, <1>6 DEF ReadStep

\* Nor does an upload.
LEMMA UploadStays ==
    ASSUME DriverTypeOK, NEW t \in Callers, Shape(call[t]), UploadStep(t)
    PROVE  /\ call'[t] \in UploadSteps \cup {"returned", "threw"}
           /\ UNCHANGED <<master, active, scales>>
<1> USE DEF Shape, ShapeOfInit, ShapeOfStop, ShapeOfRead, Consistent,
            SteadyPlaces, LiveSteps, UploadsLeft, UploadSteps
<1>1. CASE UploadCheck(t)
  <2>1. call[t] = "upload"
      BY <1>1 DEF UploadCheck, At
  <2> QED
      BY <1>1, <2>1, GotoIs DEF UploadCheck, pointers, bus, IsActive, DriverTypeOK
<1>2. CASE UploadSdo(t)
  <2>1. call[t] \in UploadsLeft
      BY <1>2 DEF UploadSdo, AfterUpload
  <2>2. MasterUsable
      BY <2>1, Shape(call[t]) DEF MasterUsable
  <2>3. Goto(t, AfterUpload[call[t]]) \/ Goto(t, "threw")
      BY <1>2, <2>2, Zenon DEF UploadSdo, Using
  <2>4. call'[t] \in {"upload2", "upload3", "returned", "threw"}
      BY <2>1, <2>3, GotoIs DEF AfterUpload
  <2> QED
      BY <1>2, <2>1, <2>2, <2>4 DEF UploadSdo, Using, pointers
<1> QED
    BY <1>1, <1>2 DEF UploadStep

----------------------------------------------------------------------------
(* What a pulse, a read and an upload leave alone even in a driver of which   *)
(* nothing is known, where a step may be undefined.                           *)

\* What init and shutdown are about.
lifeData == <<pointers, active, scales, session>>

\* write_control_.
LEMMA WriteControlLeaves ==
    ASSUME DriverTypeOK, NEW t \in Callers, NEW step, NEW word, NEW next,
           WriteControl(t, step, word, next)
    PROVE  UNCHANGED <<lifeData, check, seen>> /\ call[t] = step /\ call'[t] \in {step, next}
<1>1. call[t] = step
    BY DEF WriteControl, At
<1>2. CASE ImageUsable
  <2>1. Goto(t, next)
      BY <1>2, Zenon DEF WriteControl, Using
  <2> QED
      BY <1>1, <1>2, <2>1, GotoIs DEF WriteControl, Using, lifeData
<1>3. CASE ~ImageUsable
    BY <1>1, <1>3 DEF WriteControl, Using, lifeData, bus
<1> QED
    BY <1>2, <1>3

\* cycle_once_.
LEMMA CycleOnceLeaves ==
    ASSUME DriverTypeOK, NEW t \in Callers, NEW step, NEW next, CycleOnce(t, step, next)
    PROVE  UNCHANGED <<lifeData, check, seen>> /\ call[t] = step /\ call'[t] \in {step, next}
<1>1. call[t] = step
    BY DEF CycleOnce, At
<1>2. CASE CycleUsable
  <2>1. Goto(t, next)
      BY <1>2, Zenon DEF CycleOnce, Using
  <2> QED
      BY <1>1, <1>2, <2>1, GotoIs DEF CycleOnce, Using, lifeData
<1>3. CASE ~CycleUsable
    BY <1>1, <1>3 DEF CycleOnce, Using, lifeData, bus
<1> QED
    BY <1>2, <1>3

\* shutdown never maps a process image.
LEMMA StopMapsNone == ASSUME NEW t \in Callers, StopStep(t) PROVE pd' => pd
BY DEF StopStep, Stop, StopWrite, StopCycle, DeactivateMaster, ClearActive, ReleaseMaster,
       ClearMaster, ClearPointers, WriteControl, CycleOnce, Using, pointers

\* pulse_control_bit_.
LEMMA PulseLeaves ==
    ASSUME DriverTypeOK, NEW t \in Callers, PulseStep(t)
    PROVE  /\ UNCHANGED <<lifeData, check, seen>>
           /\ call'[t] \in PulseSteps \cup {"returned", "threw"}
<1>1. CASE PulseCheck(t)
  <2>1. Goto(t, "pulseWrite") \/ Goto(t, "threw")
      BY <1>1 DEF PulseCheck
  <2> QED
      BY <1>1, <2>1, GotoIs DEF PulseCheck, PulseSteps, lifeData, bus
<1>2. CASE PulseWrite(t)
    BY <1>2, WriteControlLeaves DEF PulseWrite, PulseSteps
<1>3. CASE PulseCycle(t)
    BY <1>3, CycleOnceLeaves DEF PulseCycle, PulseSteps
<1>4. CASE PulseEnd(t)
    BY <1>4, WriteControlLeaves DEF PulseEnd, PulseSteps
<1>5. CASE PulseEndCycle(t)
    BY <1>5, CycleOnceLeaves DEF PulseEndCycle, PulseSteps
<1> QED
    BY <1>1, <1>2, <1>3, <1>4, <1>5 DEF PulseStep

\* read_once goes beyond its test only in an active driver with scales, throws only
\* there, and keeps the state it read of the session.
LEMMA ReadLeaves ==
    ASSUME DriverTypeOK, NEW t \in Callers, ReadStep(t)
    PROVE  /\ UNCHANGED lifeData
           /\ (active /\ ~check => seen = "now") => (active /\ ~check => seen = "now")'
           /\ call'[t] \in (ReadSteps \ {"read"}) \cup {"returned", "threw"}
           /\ call'[t] = "threw" => call[t] = "read" /\ ~(IsActive /\ scales = "positive")
           /\ call[t] = "read" /\ call'[t] # "threw" =>
                call'[t] = "receive" /\ IsActive /\ scales = "positive"
           /\ UNCHANGED seen \/ seen' = "now"
           /\ call'[t] = "sample" =>
                call[t] = "sample" \/ seen' = "now" \/ (call[t] = "receive" /\ ~check)
           /\ call'[t] \in {"readWrite", "send", "returned"} =>
                call[t] \in {"sample", "readWrite", "send"}
<1> USE DEF ReadSteps, lifeData
<1>1. CASE ReadCheck(t)
  <2>1. call[t] = "read"
      BY <1>1 DEF ReadCheck, At
  <2>2. call'[t] = IF IsActive /\ scales = "positive" THEN "receive" ELSE "threw"
      BY <1>1, GotoIs DEF ReadCheck
  <2> QED
      BY <1>1, <2>1, <2>2 DEF ReadCheck, bus, pointers
<1>2. CASE ReadReceive(t)
  <2>1. call[t] = "receive"
      BY <1>2 DEF ReadReceive, At
  <2>2. CASE CycleUsable
    <3>1. Goto(t, "state") \/ (~check /\ Goto(t, "sample"))
        BY <1>2, <2>2, Zenon DEF ReadReceive, Using
    <3>2. UNCHANGED <<pointers, active, check, seen, scales, session>>
        BY <1>2, <2>2, Zenon DEF ReadReceive, Using
    <3> QED
        BY <2>1, <3>1, <3>2, GotoIs
  <2>3. CASE ~CycleUsable
      BY <1>2, <2>1, <2>3 DEF ReadReceive, Using, bus
  <2> QED
      BY <2>2, <2>3
<1>3. CASE CheckState(t)
  <2>1. call[t] = "state"
      BY <1>3 DEF CheckState, At
  <2>2. CASE CycleUsable /\ config
    <3>1. Goto(t, "sample") /\ seen' = "now"
        BY <1>3, <2>2, Zenon DEF CheckState, Using
    <3>2. UNCHANGED <<pointers, active, scales, bus>>
        BY <1>3, <2>2, Zenon DEF CheckState, Using
    <3> QED
        BY <2>1, <3>1, <3>2, GotoIs DEF bus
  <2>3. CASE ~(CycleUsable /\ config)
      BY <1>3, <2>1, <2>3 DEF CheckState, Using, bus
  <2> QED
      BY <2>2, <2>3
<1>4. CASE ReadSample(t)
  <2>1. call[t] = "sample"
      BY <1>4 DEF ReadSample, At
  <2>2. CASE ImageUsable
    <3>1. Goto(t, "readWrite")
        BY <1>4, <2>2, Zenon DEF ReadSample, Using
    <3> QED
        BY <1>4, <2>1, <2>2, <3>1, GotoIs DEF ReadSample, Using, bus
  <2>3. CASE ~ImageUsable
      BY <1>4, <2>1, <2>3 DEF ReadSample, Using, bus
  <2> QED
      BY <2>2, <2>3
<1>5. CASE ReadWrite(t)
    BY <1>5, WriteControlLeaves DEF ReadWrite
<1>6. CASE ReadSend(t)
  <2>1. call[t] = "send"
      BY <1>6 DEF ReadSend, At
  <2>2. CASE CycleUsable
    <3>1. Goto(t, "returned")
        BY <1>6, <2>2, Zenon DEF ReadSend, Using
    <3> QED
        BY <1>6, <2>1, <2>2, <3>1, GotoIs DEF ReadSend, Using
  <2>3. CASE ~CycleUsable
      BY <1>6, <2>1, <2>3 DEF ReadSend, Using, bus
  <2> QED
      BY <2>2, <2>3
<1> QED
    BY <1>1, <1>2, <1>3, <1>4, <1>5, <1>6 DEF ReadStep

\* read_diagnostic_readings.
LEMMA UploadLeaves ==
    ASSUME DriverTypeOK, NEW t \in Callers, UploadStep(t)
    PROVE  /\ UNCHANGED <<lifeData, check, seen>>
           /\ call'[t] \in UploadSteps \cup {"returned", "threw"}
<1> USE DEF UploadSteps, lifeData
<1>1. CASE UploadCheck(t)
  <2>1. call'[t] = IF master THEN "upload1" ELSE "threw"
      BY <1>1, GotoIs DEF UploadCheck
  <2> QED
      BY <1>1, <2>1 DEF UploadCheck, bus
<1>2. CASE UploadSdo(t)
  <2>1. call[t] \in {"upload1", "upload2", "upload3"}
      BY <1>2 DEF UploadSdo, AfterUpload
  <2>2. CASE MasterUsable
    <3>1. Goto(t, AfterUpload[call[t]]) \/ Goto(t, "threw")
        BY <1>2, <2>2, Zenon DEF UploadSdo, Using
    <3>2. AfterUpload[call[t]] \in {"upload2", "upload3", "returned"}
        BY <2>1 DEF AfterUpload
    <3>3. call'[t] \in {"upload2", "upload3", "returned", "threw"}
        BY <3>1, <3>2, GotoIs
    <3> QED
        BY <1>2, <2>2, <3>3 DEF UploadSdo, Using, bus
  <2>3. CASE ~MasterUsable
      BY <1>2, <2>1, <2>3 DEF UploadSdo, Using, bus
  <2> QED
      BY <2>2, <2>3
<1> QED
    BY <1>1, <1>2 DEF UploadStep

----------------------------------------------------------------------------
(* The invariant of the specification. *)

\* The constructor.
LEMMA DriverInitInv == DriverInit => DriverInv
<1> SUFFICES ASSUME DriverInit PROVE DriverInv
    OBVIOUS
<1>1. DriverTypeOK
    BY DEF DriverInit, Fresh, DriverTypeOK, Words, Results
<1>2. Shape("none")
    BY DEF DriverInit, Fresh, Shape, ShapeOfInit, ShapeOfStop, ShapeOfRead,
                  Consistent, SteadyPlaces, LiveSteps, UploadsLeft
<1> QED
    BY <1>1, <1>2 DEF DriverInit, DriverInv, Alone

\* A method is called on an idle driver, or ends on a consistent one.
LEMMA CallKeeps ==
    ASSUME DriverInv, NEW t \in Callers, Call(t) \/ Return(t)
    PROVE  DriverInv'
<1> USE DEF Shape, ShapeOfInit, ShapeOfStop, ShapeOfRead, Consistent,
            SteadyPlaces, LiveSteps, UploadsLeft
<1>1. PICK place \in Places : Goto(t, place) /\ Shape(place)
  <2>1. CASE Call(t)
    <3>1. Shape("none")
        BY <2>1 DEF DriverInv, Call
    <3>2. CASE Goto(t, "request") /\ ~master
        BY <3>1, <3>2, PlacesAre DEF Places, Steps, InitSteps
    <3>3. CASE \E step \in {"stop", "pulse", "read", "upload"} : Goto(t, step)
        BY <3>1, <3>3, PlacesAre
           DEF Places, Steps, StopSteps, PulseSteps, ReadSteps, UploadSteps
    <3> QED
        BY <2>1, <3>2, <3>3 DEF Call
  <2>2. CASE Return(t)
    <3>1. Shape(call[t]) /\ call[t] \in {"returned", "threw"}
        BY <2>2 DEF DriverInv, Return
    <3>2. Shape("none") /\ Shape("stop")
        BY <3>1
    <3>3. "none" \in Places /\ "stop" \in Places
        BY DEF Places, Results, Steps, StopSteps
    <3> QED
        BY <2>2, <3>2, <3>3 DEF Return
  <2> QED
      BY <2>1, <2>2
<1>2. UNCHANGED <<pointers, active, check, seen, scales, bus, fault>>
    BY DEF Call, Return
<1>3. \A u \in Callers \ {t} : call[u] = "none"
    BY DEF Call, Return, Idle, DriverInv, Alone
<1>4. /\ call' \in [Callers -> Places] /\ call'[t] = place
      /\ \A u \in Callers \ {t} : call'[u] = "none"
    BY <1>1, <1>3, TypeSplit DEF Goto, DriverInv
<1>5. DriverTypeOK'
  <2>1. DataTyped'
      BY <1>2, TypeSplit DEF DataTyped, pointers, bus, DriverInv
  <2> QED
      BY <1>4, <2>1 DEF DataTyped, DriverTypeOK, Places
<1>6. Shape(call[t])'
    BY <1>1, <1>2, <1>4 DEF pointers, bus
<1> QED
    BY <1>2, <1>4, <1>5, <1>6 DEF DriverInv, Alone, Idle

\* A step of the one method that runs.
LEMMA StepKeeps ==
    ASSUME DriverInv, NEW t \in Callers, DriverStep(t)
    PROVE  DriverInv'
<1>1. DriverTypeOK' /\ Local(t)
    BY DriverStepTyped DEF DriverInv
<1>2. call[t] # "none"
    BY <1>1, PlacesAre DEF Local
<1>3. Shape(call[t])' /\ UNCHANGED fault
    BY <1>2, DriverStepKeeps DEF DriverInv
<1>4. \A u \in Callers \ {t} : call'[u] = "none"
    BY <1>1, <1>2 DEF DriverInv, Alone, Local
<1> QED
    BY <1>1, <1>3, <1>4 DEF DriverInv, Alone, Idle, Local

\* The invariant holds of a driver whose methods are called one at a time:
\* every ecrt_* call and every access to the process image is made in a session
\* that allows it.
THEOREM DriverInvariant == DriverSpec => []DriverInv
<1>1. DriverInv /\ [DriverNext]_driverVars => DriverInv'
  <2> SUFFICES ASSUME DriverInv, [DriverNext]_driverVars PROVE DriverInv'
      OBVIOUS
  <2>1. CASE DriverNext
      BY <2>1, CallKeeps, StepKeeps DEF DriverNext
  <2>2. CASE UNCHANGED driverVars
      BY <2>2 DEF driverVars, pointers, bus, DriverInv, DriverTypeOK, Alone, Idle,
                  Shape, ShapeOfInit, ShapeOfStop, ShapeOfRead, Consistent,
                  SteadyPlaces, LiveSteps, UploadsLeft
  <2> QED
      BY <2>1, <2>2
<1> QED
    BY <1>1, DriverInitInv, PTL DEF DriverSpec

\* The driver's state has its type.
THEOREM DriverTyped == DriverSpec => []DriverTypeOK
BY DriverInvariant, PTL DEF DriverInv

\* No method uses a master that was given back, or a process image that is not
\* there, whichever step of init, of a pulse or of a read failed before it.
THEOREM DriverDefined == DriverSpec => []NoFault
<1>1. DriverInv => NoFault
    BY DEF DriverInv, NoFault
<1> QED
    BY <1>1, DriverInvariant, PTL

\* Between two methods master_ is set exactly when the process holds the master:
\* shutdown gives back whatever init got hold of.
THEOREM MasterHeldIffKnown == DriverSpec => []HeldIffKnown
<1>1. DriverInv => HeldIffKnown
    BY DEF DriverInv, HeldIffKnown, At, Shape, ShapeOfStop, Consistent, SteadyPlaces
<1> QED
    BY <1>1, DriverInvariant, PTL

\* read_once reads no sample before it has read the EtherCAT state of the
\* session the sample belongs to.
THEOREM SamplesAreFresh == DriverSpec => []SampleHasFreshState
<1>1. DriverInv => SampleHasFreshState
    BY DEF DriverInv, SampleHasFreshState, At, Shape, ShapeOfRead
<1> QED
    BY <1>1, DriverInvariant, PTL

\* read_once divides by no scale that calibration uploaded and refused.
THEOREM SamplesAreScaled == DriverSpec => []SampleHasScales
<1>1. DriverInv => SampleHasScales
    BY DEF DriverInv, SampleHasScales, At, Shape, ShapeOfRead
<1> QED
    BY <1>1, DriverInvariant, PTL

\* Both together: what a sample is made of belongs to its session, whichever init
\* failed before.
THEOREM SamplesAreSound == DriverSpec => []SampleIsSound
<1>1. SampleHasFreshState /\ SampleHasScales => SampleIsSound
    BY DEF SampleIsSound
<1> QED
    BY <1>1, SamplesAreFresh, SamplesAreScaled, PTL

----------------------------------------------------------------------------
(* With a library that leaves the outputs of the process image alone, the     *)
(* driver implements the session protocol of EtherCatSession, whichever call  *)
(* of the library fails: what the last frame carried, and what the image      *)
(* holds for the next one, is known at each step of each method.              *)

\* The steps of an active driver before which nothing has been written.
QuietSteps ==
    SteadyPlaces \cup UploadsLeft
        \cup {"calibrate", "stopWrite", "pulseWrite", "receive", "state", "sample",
              "readWrite", "send"}

\* The steps of init before its first frame.
FramelessSteps ==
    {"find", "domain", "config", "register", "activate", "data", "initWrite", "initCycle"}

Frames(place) ==
    /\ place \in QuietSteps /\ active => wire = "word" /\ image = "word"
    /\ place \in SteadyPlaces \cup UploadsLeft \cup {"release"} /\ ~active /\ session = "active"
         => wire = "none"
    /\ place \in FramelessSteps => wire = "none"
    /\ place = "initCycle" => image = "word"
    /\ place = "stopCycle" => wire = "word" /\ image = "zero"
    /\ place = "deactivate" => wire = "zero"
    /\ place = "pulseCycle" => wire = "word" /\ image = "pulse"
    /\ place = "pulseEnd" => wire = "pulse"
    /\ place = "pulseEndCycle" => wire = "pulse" /\ image = "word"

FramesInv ==
    /\ Idle => Frames("none")
    /\ \A t \in Callers : call[t] # "none" => Frames(call[t])

\* A step of the protocol, or none of it.
SessionStep == [Session!Next]_<<session, wire>>

----------------------------------------------------------------------------
(* One step of a method. *)

\* write_control_ puts the word in the image and sends nothing.
LEMMA WriteControlFrame ==
    ASSUME DriverTypeOK, NEW t \in Callers, Shape(call[t]),
           NEW step \in LiveSteps, NEW word, NEW next, WriteControl(t, step, word, next)
    PROVE  /\ call[t] = step /\ call'[t] = next /\ image' = word
           /\ UNCHANGED <<wire, session, active>>
<1>1. call[t] = step
    BY DEF WriteControl, At
<1>2. ImageUsable
    BY <1>1 DEF Shape, Consistent, ImageUsable
<1> QED
    BY <1>1, <1>2, WriteControlKeeps DEF WriteControl, Using

\* cycle_once_ sends what is in the image.
LEMMA CycleOnceFrame ==
    ASSUME ReceiveOverwritesOutputs = FALSE,
           DriverTypeOK, NEW t \in Callers, Shape(call[t]),
           NEW step \in LiveSteps, NEW next, CycleOnce(t, step, next)
    PROVE  /\ call[t] = step /\ call'[t] = next /\ session = "active" /\ active
           /\ image' = image /\ wire' = image
           /\ UNCHANGED <<session, active>>
<1>1. call[t] = step
    BY DEF CycleOnce, At
<1>2. CycleUsable /\ active
    BY <1>1, DriverTypeOK DEF Shape, Consistent, CycleUsable, MasterUsable
<1>3. image' \in Received /\ wire' = image'
    BY <1>2 DEF CycleOnce, Using
<1> QED
    BY <1>1, <1>2, <1>3, CycleOnceKeeps DEF Received, CycleUsable

\* A step that touches neither the session nor the frames.
LEMMA NoSessionStep == ASSUME UNCHANGED <<session, wire>> PROVE SessionStep
BY DEF SessionStep

\* init: the first frame carries the configured word.
LEMMA InitFrames ==
    ASSUME ReceiveOverwritesOutputs = FALSE,
           DriverTypeOK, NEW t \in Callers, Shape(call[t]), Frames(call[t]), InitStep(t)
    PROVE  Frames(call[t])' /\ SessionStep
<1> USE DEF Frames, QuietSteps, FramelessSteps, SteadyPlaces, UploadsLeft
<1> DEFINE Known ==
        /\ call[t] \in SteadyPlaces \cup LiveSteps \cup UploadsLeft \cup {"request"} => Consistent
        /\ call[t] \in LiveSteps => active
        /\ ShapeOfInit(call[t]) /\ ShapeOfStop(call[t])
        /\ call[t] = "request" => ~master
<1>0. Known
    BY DEF Shape
<1>1. CASE RequestMaster(t)
  <2>1. call[t] = "request"
      BY <1>1 DEF RequestMaster, At
  <2>2. TRUE
      OBVIOUS
  <2>5. Frames(call[t])'
      BY <1>1, <1>0, <2>1, <2>2, GotoIs
         DEF RequestMaster, Using, pointers, bus, IsActive, DriverTypeOK, Received, Consistent, LiveSteps, ShapeOfInit, ShapeOfStop
  <2>6. SessionStep
      BY <1>1, <1>0, <2>1, <2>2
         DEF RequestMaster, Using, bus, Consistent, LiveSteps, ShapeOfInit, ShapeOfStop, SessionStep, Session!Next, DriverTypeOK, Session!Request
  <2> QED
      BY <2>5, <2>6
<1>2. CASE FindSlave(t)
  <2>1. call[t] = "find"
      BY <1>2 DEF FindSlave, At
  <2>2. MasterUsable
      BY <2>1, <1>0 DEF Consistent, LiveSteps, ShapeOfInit, ShapeOfStop, CycleUsable, ImageUsable, MasterUsable
  <2>3. Goto(t, "domain") \/ Goto(t, "threw")
      BY <1>2, <2>2, Zenon DEF FindSlave, Using
  <2>4. call'[t] \in {"domain", "threw"}
      BY <2>3, GotoIs
  <2>5. Frames(call[t])'
      BY <1>2, <1>0, <2>1, <2>2, <2>4
         DEF FindSlave, Using, pointers, bus, IsActive, DriverTypeOK, Received, Consistent, LiveSteps, ShapeOfInit, ShapeOfStop
  <2>6. SessionStep
      BY <1>2, <2>2, NoSessionStep DEF FindSlave, Using, bus
  <2> QED
      BY <2>5, <2>6
<1>3. CASE CreateDomain(t)
  <2>1. call[t] = "domain"
      BY <1>3 DEF CreateDomain, At
  <2>2. MasterUsable
      BY <2>1, <1>0 DEF Consistent, LiveSteps, ShapeOfInit, ShapeOfStop, CycleUsable, ImageUsable, MasterUsable
  <2>3. Goto(t, "config") \/ Goto(t, "threw")
      BY <1>3, <2>2, Zenon DEF CreateDomain, Using
  <2>4. call'[t] \in {"config", "threw"}
      BY <2>3, GotoIs
  <2>5. Frames(call[t])'
      BY <1>3, <1>0, <2>1, <2>2, <2>4
         DEF CreateDomain, Using, pointers, bus, IsActive, DriverTypeOK, Received, Consistent, LiveSteps, ShapeOfInit, ShapeOfStop
  <2>6. SessionStep
      BY <1>3, <2>2, NoSessionStep DEF CreateDomain, Using, bus
  <2> QED
      BY <2>5, <2>6
<1>4. CASE ConfigureSlave(t)
  <2>1. call[t] = "config"
      BY <1>4 DEF ConfigureSlave, At
  <2>2. MasterUsable
      BY <2>1, <1>0 DEF Consistent, LiveSteps, ShapeOfInit, ShapeOfStop, CycleUsable, ImageUsable, MasterUsable
  <2>3. Goto(t, "register") \/ Goto(t, "threw")
      BY <1>4, <2>2, Zenon DEF ConfigureSlave, Using
  <2>4. call'[t] \in {"register", "threw"}
      BY <2>3, GotoIs
  <2>5. Frames(call[t])'
      BY <1>4, <1>0, <2>1, <2>2, <2>4
         DEF ConfigureSlave, Using, pointers, bus, IsActive, DriverTypeOK, Received, Consistent, LiveSteps, ShapeOfInit, ShapeOfStop
  <2>6. SessionStep
      BY <1>4, <2>2, NoSessionStep DEF ConfigureSlave, Using, bus
  <2> QED
      BY <2>5, <2>6
<1>5. CASE RegisterPdos(t)
  <2>1. call[t] = "register"
      BY <1>5 DEF RegisterPdos, At
  <2>2. MasterUsable
      BY <2>1, <1>0 DEF Consistent, LiveSteps, ShapeOfInit, ShapeOfStop, CycleUsable, ImageUsable, MasterUsable
  <2>3. Goto(t, "activate") \/ Goto(t, "threw")
      BY <1>5, <2>2, Zenon DEF RegisterPdos, Using
  <2>4. call'[t] \in {"activate", "threw"}
      BY <2>3, GotoIs
  <2>5. Frames(call[t])'
      BY <1>5, <1>0, <2>1, <2>2, <2>4
         DEF RegisterPdos, Using, pointers, bus, IsActive, DriverTypeOK, Received, Consistent, LiveSteps, ShapeOfInit, ShapeOfStop
  <2>6. SessionStep
      BY <1>5, <2>2, NoSessionStep DEF RegisterPdos, Using, bus
  <2> QED
      BY <2>5, <2>6
<1>6. CASE ActivateMaster(t)
  <2>1. call[t] = "activate"
      BY <1>6 DEF ActivateMaster, At
  <2>2. MasterUsable
      BY <2>1, <1>0 DEF Consistent, LiveSteps, ShapeOfInit, ShapeOfStop, CycleUsable, ImageUsable, MasterUsable
  <2>3. Goto(t, "data") \/ Goto(t, "threw")
      BY <1>6, <2>2, Zenon DEF ActivateMaster, Using
  <2>4. call'[t] \in {"data", "threw"}
      BY <2>3, GotoIs
  <2>5. Frames(call[t])'
      BY <1>6, <1>0, <2>1, <2>2, <2>4
         DEF ActivateMaster, Using, pointers, bus, IsActive, DriverTypeOK, Received, Consistent, LiveSteps, ShapeOfInit, ShapeOfStop
  <2>6. SessionStep
      BY <1>6, <1>0, <2>1, <2>2
         DEF ActivateMaster, Using, bus, Consistent, LiveSteps, ShapeOfInit, ShapeOfStop, SessionStep, Session!Next, DriverTypeOK, Session!Activate
  <2> QED
      BY <2>5, <2>6
<1>7. CASE DomainData(t)
  <2>1. call[t] = "data" /\ session = "active" /\ ~active /\ wire = "none"
      BY <1>7, <1>0 DEF DomainData, At, ShapeOfInit
  <2>2. domain
      BY <2>1, <1>0 DEF ShapeOfInit
  <2>3. UNCHANGED <<session, wire>>
      BY <1>7, <2>1, <2>2 DEF DomainData, Using, bus
  <2>4. Goto(t, "initWrite") \/ (Goto(t, "threw") /\ UNCHANGED active)
      BY <1>7, <2>1, <2>2, Zenon DEF DomainData, Using
  <2>5. call'[t] = "initWrite" \/ (call'[t] = "threw" /\ UNCHANGED active)
      BY <2>4, GotoIs
  <2>6. Frames(call[t])'
      BY <2>1, <2>3, <2>5
  <2> QED
      BY <2>3, <2>6, NoSessionStep
<1>8. CASE ReadCalibrationSdo(t)
  <2>1. call[t] = "calibrate"
      BY <1>8 DEF ReadCalibrationSdo, At
  <2>2. MasterUsable
      BY <2>1, <1>0 DEF Consistent, LiveSteps, ShapeOfInit, ShapeOfStop, CycleUsable, ImageUsable, MasterUsable
  <2>3. Goto(t, "returned") \/ Goto(t, "threw")
      BY <1>8, <2>2, Zenon DEF ReadCalibrationSdo, Using
  <2>4. call'[t] \in {"returned", "threw"}
      BY <2>3, GotoIs
  <2>5. Frames(call[t])'
      BY <1>8, <1>0, <2>1, <2>2, <2>4
         DEF ReadCalibrationSdo, Using, pointers, bus, IsActive, DriverTypeOK, Received, Consistent, LiveSteps, ShapeOfInit, ShapeOfStop
  <2>6. SessionStep
      BY <1>8, <2>2, NoSessionStep DEF ReadCalibrationSdo, Using, bus
  <2> QED
      BY <2>5, <2>6
<1>9. CASE InitWrite(t)
    BY <1>9, WriteControlFrame, NoSessionStep, <1>0 DEF InitWrite, Consistent, LiveSteps, ShapeOfInit, ShapeOfStop
<1>10. CASE InitCycle(t)
  <2>1. /\ image' = image /\ wire' = image /\ session = "active" /\ active
        /\ UNCHANGED <<session, active>>
        /\ call[t] = "initCycle" /\ call'[t] \in {"calibrate", "returned"}
      BY <1>10, CycleOnceFrame DEF InitCycle, LiveSteps
  <2>2. Frames(call[t])'
      BY <2>1
  <2>3. Session!Exchange(image)
      BY <2>1 DEF Session!Exchange
  <2> QED
      BY <2>1, <2>2, <2>3 DEF SessionStep, Session!Next, Session!Words
<1> QED
    BY <1>1, <1>2, <1>3, <1>4, <1>5, <1>6, <1>7, <1>8, <1>9, <1>10 DEF InitStep

\* shutdown: the last frame of a session with frames is the stop frame.
LEMMA StopFrames ==
    ASSUME ReceiveOverwritesOutputs = FALSE,
           DriverTypeOK, NEW t \in Callers, Shape(call[t]), Frames(call[t]), StopStep(t)
    PROVE  Frames(call[t])' /\ SessionStep
<1> USE DEF Frames, QuietSteps, FramelessSteps, SteadyPlaces, UploadsLeft
<1> DEFINE Known ==
        /\ call[t] \in SteadyPlaces \cup LiveSteps \cup UploadsLeft \cup {"request"} => Consistent
        /\ call[t] \in LiveSteps => active
        /\ ShapeOfInit(call[t]) /\ ShapeOfStop(call[t])
        /\ call[t] = "request" => ~master
<1>0. Known
    BY DEF Shape
<1>1. CASE Stop(t)
  <2>1. call[t] = "stop"
      BY <1>1 DEF Stop, At
  <2>2. TRUE
      OBVIOUS
  <2>5. Frames(call[t])'
      BY <1>1, <1>0, <2>1, <2>2, GotoIs
         DEF Stop, Using, pointers, bus, IsActive, DriverTypeOK, Received, Consistent, LiveSteps, ShapeOfInit, ShapeOfStop
  <2>6. SessionStep
      BY <1>1, <2>2, NoSessionStep DEF Stop, Using, bus
  <2> QED
      BY <2>5, <2>6
<1>2. CASE StopWrite(t)
    BY <1>2, WriteControlFrame, NoSessionStep, <1>0 DEF StopWrite, Consistent, LiveSteps, ShapeOfInit, ShapeOfStop
<1>3. CASE StopCycle(t)
  <2>1. /\ image' = image /\ wire' = image /\ session = "active" /\ active
        /\ UNCHANGED <<session, active>>
        /\ call[t] = "stopCycle" /\ call'[t] = "deactivate"
      BY <1>3, CycleOnceFrame DEF StopCycle, LiveSteps
  <2>2. Frames(call[t])'
      BY <2>1
  <2>3. Session!Exchange(image)
      BY <2>1 DEF Session!Exchange
  <2> QED
      BY <2>1, <2>2, <2>3 DEF SessionStep, Session!Next, Session!Words
<1>4. CASE DeactivateMaster(t)
  <2>1. call[t] = "deactivate"
      BY <1>4 DEF DeactivateMaster, At
  <2>2. MasterUsable /\ session = "active"
      BY <2>1, <1>0 DEF Consistent, LiveSteps, ShapeOfInit, ShapeOfStop, CycleUsable, ImageUsable, MasterUsable
  <2>3. Goto(t, "clearActive")
      BY <1>4, <2>2, Zenon DEF DeactivateMaster, Using
  <2>4. call'[t] \in {"clearActive"}
      BY <2>3, GotoIs
  <2>5. Frames(call[t])'
      BY <1>4, <1>0, <2>1, <2>2, <2>4
         DEF DeactivateMaster, Using, pointers, bus, IsActive, DriverTypeOK, Received, Consistent, LiveSteps, ShapeOfInit, ShapeOfStop
  <2>6. SessionStep
      BY <1>4, <1>0, <2>1, <2>2
         DEF DeactivateMaster, Using, bus, Consistent, LiveSteps, ShapeOfInit, ShapeOfStop, SessionStep, Session!Next, DriverTypeOK, Session!Deactivate
  <2> QED
      BY <2>5, <2>6
<1>5. CASE ClearActive(t)
  <2>1. call[t] = "clearActive"
      BY <1>5 DEF ClearActive, At
  <2>2. TRUE
      OBVIOUS
  <2>5. Frames(call[t])'
      BY <1>5, <1>0, <2>1, <2>2, GotoIs
         DEF ClearActive, Using, pointers, bus, IsActive, DriverTypeOK, Received, Consistent, LiveSteps, ShapeOfInit, ShapeOfStop
  <2>6. SessionStep
      BY <1>5, <2>2, NoSessionStep DEF ClearActive, Using, bus
  <2> QED
      BY <2>5, <2>6
<1>6. CASE ReleaseMaster(t)
  <2>1. call[t] = "release"
      BY <1>6 DEF ReleaseMaster, At
  <2>2. MasterUsable
      BY <2>1, <1>0 DEF Consistent, LiveSteps, ShapeOfInit, ShapeOfStop, CycleUsable, ImageUsable, MasterUsable
  <2>3. Goto(t, "clearMaster")
      BY <1>6, <2>2, Zenon DEF ReleaseMaster, Using
  <2>4. call'[t] \in {"clearMaster"}
      BY <2>3, GotoIs
  <2>5. Frames(call[t])'
      BY <1>6, <1>0, <2>1, <2>2, <2>4
         DEF ReleaseMaster, Using, pointers, bus, IsActive, DriverTypeOK, Received, Consistent, LiveSteps, ShapeOfInit, ShapeOfStop
  <2>6. SessionStep
      BY <1>6, <1>0, <2>1, <2>2
         DEF ReleaseMaster, Using, bus, Consistent, LiveSteps, ShapeOfInit, ShapeOfStop, SessionStep, Session!Next, DriverTypeOK, Session!Release
  <2> QED
      BY <2>5, <2>6
<1>7. CASE ClearMaster(t)
  <2>1. call[t] = "clearMaster"
      BY <1>7 DEF ClearMaster, At
  <2>2. TRUE
      OBVIOUS
  <2>5. Frames(call[t])'
      BY <1>7, <1>0, <2>1, <2>2, GotoIs
         DEF ClearMaster, Using, pointers, bus, IsActive, DriverTypeOK, Received, Consistent, LiveSteps, ShapeOfInit, ShapeOfStop
  <2>6. SessionStep
      BY <1>7, <2>2, NoSessionStep DEF ClearMaster, Using, bus
  <2> QED
      BY <2>5, <2>6
<1>8. CASE ClearPointers(t)
  <2>1. call[t] = "clear"
      BY <1>8 DEF ClearPointers, At
  <2>2. TRUE
      OBVIOUS
  <2>5. Frames(call[t])'
      BY <1>8, <1>0, <2>1, <2>2, GotoIs
         DEF ClearPointers, Using, pointers, bus, IsActive, DriverTypeOK, Received, Consistent, LiveSteps, ShapeOfInit, ShapeOfStop
  <2>6. SessionStep
      BY <1>8, <2>2, NoSessionStep DEF ClearPointers, Using, bus
  <2> QED
      BY <2>5, <2>6
<1> QED
    BY <1>1, <1>2, <1>3, <1>4, <1>5, <1>6, <1>7, <1>8 DEF StopStep

\* pulse_control_bit_: the pulse is sent, and the configured word after it.
LEMMA PulseFrames ==
    ASSUME ReceiveOverwritesOutputs = FALSE,
           DriverTypeOK, NEW t \in Callers, Shape(call[t]), Frames(call[t]), PulseStep(t)
    PROVE  Frames(call[t])' /\ SessionStep
<1> USE DEF Frames, QuietSteps, FramelessSteps, SteadyPlaces, UploadsLeft
<1> DEFINE Known ==
        /\ call[t] \in SteadyPlaces \cup LiveSteps \cup UploadsLeft \cup {"request"} => Consistent
        /\ call[t] \in LiveSteps => active
        /\ ShapeOfInit(call[t]) /\ ShapeOfStop(call[t])
        /\ call[t] = "request" => ~master
<1>0. Known
    BY DEF Shape
<1>1. CASE PulseCheck(t)
  <2>1. call[t] = "pulse"
      BY <1>1 DEF PulseCheck, At
  <2>2. TRUE
      OBVIOUS
  <2>5. Frames(call[t])'
      BY <1>1, <1>0, <2>1, <2>2, GotoIs
         DEF PulseCheck, Using, pointers, bus, IsActive, DriverTypeOK, Received, Consistent, LiveSteps, ShapeOfInit, ShapeOfStop
  <2>6. SessionStep
      BY <1>1, <2>2, NoSessionStep DEF PulseCheck, Using, bus
  <2> QED
      BY <2>5, <2>6
<1>2. CASE PulseWrite(t)
    BY <1>2, WriteControlFrame, NoSessionStep, <1>0 DEF PulseWrite, Consistent, LiveSteps, ShapeOfInit, ShapeOfStop
<1>3. CASE PulseCycle(t)
  <2>1. /\ image' = image /\ wire' = image /\ session = "active" /\ active
        /\ UNCHANGED <<session, active>>
        /\ call[t] = "pulseCycle" /\ call'[t] = "pulseEnd"
      BY <1>3, CycleOnceFrame DEF PulseCycle, LiveSteps
  <2>2. Frames(call[t])'
      BY <2>1
  <2>3. Session!Exchange(image)
      BY <2>1 DEF Session!Exchange
  <2> QED
      BY <2>1, <2>2, <2>3 DEF SessionStep, Session!Next, Session!Words
<1>4. CASE PulseEnd(t)
    BY <1>4, WriteControlFrame, NoSessionStep, <1>0 DEF PulseEnd, Consistent, LiveSteps, ShapeOfInit, ShapeOfStop
<1>5. CASE PulseEndCycle(t)
  <2>1. /\ image' = image /\ wire' = image /\ session = "active" /\ active
        /\ UNCHANGED <<session, active>>
        /\ call[t] = "pulseEndCycle" /\ call'[t] = "returned"
      BY <1>5, CycleOnceFrame DEF PulseEndCycle, LiveSteps
  <2>2. Frames(call[t])'
      BY <2>1
  <2>3. Session!Exchange(image)
      BY <2>1 DEF Session!Exchange
  <2> QED
      BY <2>1, <2>2, <2>3 DEF SessionStep, Session!Next, Session!Words
<1> QED
    BY <1>1, <1>2, <1>3, <1>4, <1>5 DEF PulseStep

\* read_once sends the configured word.
LEMMA ReadFrames ==
    ASSUME ReceiveOverwritesOutputs = FALSE,
           DriverTypeOK, NEW t \in Callers, Shape(call[t]), Frames(call[t]), ReadStep(t)
    PROVE  Frames(call[t])' /\ SessionStep
<1> USE DEF Frames, QuietSteps, FramelessSteps, SteadyPlaces, UploadsLeft
<1> DEFINE Known ==
        /\ call[t] \in SteadyPlaces \cup LiveSteps \cup UploadsLeft \cup {"request"} => Consistent
        /\ call[t] \in LiveSteps => active
        /\ ShapeOfInit(call[t]) /\ ShapeOfStop(call[t])
        /\ call[t] = "request" => ~master
<1>0. Known
    BY DEF Shape
<1>1. CASE ReadCheck(t)
  <2>1. call[t] = "read"
      BY <1>1 DEF ReadCheck, At
  <2>2. TRUE
      OBVIOUS
  <2>5. Frames(call[t])'
      BY <1>1, <1>0, <2>1, <2>2, GotoIs
         DEF ReadCheck, Using, pointers, bus, IsActive, DriverTypeOK, Received, Consistent, LiveSteps, ShapeOfInit, ShapeOfStop
  <2>6. SessionStep
      BY <1>1, <2>2, NoSessionStep DEF ReadCheck, Using, bus
  <2> QED
      BY <2>5, <2>6
<1>2. CASE ReadReceive(t)
  <2>1. call[t] = "receive"
      BY <1>2 DEF ReadReceive, At
  <2>2. CycleUsable
      BY <2>1, <1>0 DEF Consistent, LiveSteps, ShapeOfInit, ShapeOfStop, CycleUsable, ImageUsable, MasterUsable
  <2>3. Goto(t, "state") \/ Goto(t, "sample")
      BY <1>2, <2>2, Zenon DEF ReadReceive, Using
  <2>4. call'[t] \in {"state", "sample"}
      BY <2>3, GotoIs
  <2>5. Frames(call[t])'
      BY <1>2, <1>0, <2>1, <2>2, <2>4
         DEF ReadReceive, Using, pointers, bus, IsActive, DriverTypeOK, Received, Consistent, LiveSteps, ShapeOfInit, ShapeOfStop
  <2>6. SessionStep
      BY <1>2, <2>2, NoSessionStep DEF ReadReceive, Using, bus
  <2> QED
      BY <2>5, <2>6
<1>3. CASE CheckState(t)
  <2>1. call[t] = "state"
      BY <1>3 DEF CheckState, At
  <2>2. CycleUsable /\ config
      BY <2>1, <1>0 DEF Consistent, LiveSteps, ShapeOfInit, ShapeOfStop, CycleUsable, ImageUsable, MasterUsable
  <2>3. Goto(t, "sample")
      BY <1>3, <2>2, Zenon DEF CheckState, Using
  <2>4. call'[t] \in {"sample"}
      BY <2>3, GotoIs
  <2>5. Frames(call[t])'
      BY <1>3, <1>0, <2>1, <2>2, <2>4
         DEF CheckState, Using, pointers, bus, IsActive, DriverTypeOK, Received, Consistent, LiveSteps, ShapeOfInit, ShapeOfStop
  <2>6. SessionStep
      BY <1>3, <2>2, NoSessionStep DEF CheckState, Using, bus
  <2> QED
      BY <2>5, <2>6
<1>4. CASE ReadSample(t)
  <2>1. call[t] = "sample"
      BY <1>4 DEF ReadSample, At
  <2>2. ImageUsable
      BY <2>1, <1>0 DEF Consistent, LiveSteps, ShapeOfInit, ShapeOfStop, CycleUsable, ImageUsable, MasterUsable
  <2>3. Goto(t, "readWrite")
      BY <1>4, <2>2, Zenon DEF ReadSample, Using
  <2>4. call'[t] \in {"readWrite"}
      BY <2>3, GotoIs
  <2>5. Frames(call[t])'
      BY <1>4, <1>0, <2>1, <2>2, <2>4
         DEF ReadSample, Using, pointers, bus, IsActive, DriverTypeOK, Received, Consistent, LiveSteps, ShapeOfInit, ShapeOfStop
  <2>6. SessionStep
      BY <1>4, <2>2, NoSessionStep DEF ReadSample, Using, bus
  <2> QED
      BY <2>5, <2>6
<1>5. CASE ReadWrite(t)
    BY <1>5, WriteControlFrame, NoSessionStep, <1>0 DEF ReadWrite, Consistent, LiveSteps, ShapeOfInit, ShapeOfStop
<1>6. CASE ReadSend(t)
  <2>1. call[t] = "send"
      BY <1>6 DEF ReadSend, At
  <2>2. CycleUsable
      BY <2>1, <1>0 DEF Consistent, LiveSteps, ShapeOfInit, ShapeOfStop, CycleUsable, ImageUsable, MasterUsable
  <2>3. Goto(t, "returned")
      BY <1>6, <2>2, Zenon DEF ReadSend, Using
  <2>4. call'[t] \in {"returned"}
      BY <2>3, GotoIs
  <2>5. Frames(call[t])'
      BY <1>6, <1>0, <2>1, <2>2, <2>4
         DEF ReadSend, Using, pointers, bus, IsActive, DriverTypeOK, Received, Consistent, LiveSteps, ShapeOfInit, ShapeOfStop
  <2>6. SessionStep
      BY <1>6, <1>0, <2>1, <2>2
         DEF ReadSend, Using, bus, Consistent, LiveSteps, ShapeOfInit, ShapeOfStop, SessionStep, Session!Next, DriverTypeOK, Session!Exchange, Session!Words, CycleUsable
  <2> QED
      BY <2>5, <2>6
<1> QED
    BY <1>1, <1>2, <1>3, <1>4, <1>5, <1>6 DEF ReadStep

\* read_diagnostic_readings sends no frame.
LEMMA UploadFrames ==
    ASSUME ReceiveOverwritesOutputs = FALSE,
           DriverTypeOK, NEW t \in Callers, Shape(call[t]), Frames(call[t]), UploadStep(t)
    PROVE  Frames(call[t])' /\ SessionStep
<1> USE DEF Frames, QuietSteps, FramelessSteps, SteadyPlaces, UploadsLeft
<1> DEFINE Known ==
        /\ call[t] \in SteadyPlaces \cup LiveSteps \cup UploadsLeft \cup {"request"} => Consistent
        /\ call[t] \in LiveSteps => active
        /\ ShapeOfInit(call[t]) /\ ShapeOfStop(call[t])
        /\ call[t] = "request" => ~master
<1>0. Known
    BY DEF Shape
<1>1. CASE UploadCheck(t)
  <2>1. call[t] = "upload"
      BY <1>1 DEF UploadCheck, At
  <2>2. TRUE
      OBVIOUS
  <2>5. Frames(call[t])'
      BY <1>1, <1>0, <2>1, <2>2, GotoIs
         DEF UploadCheck, Using, pointers, bus, IsActive, DriverTypeOK, Received, Consistent, LiveSteps, ShapeOfInit, ShapeOfStop
  <2>6. SessionStep
      BY <1>1, <2>2, NoSessionStep DEF UploadCheck, Using, bus
  <2> QED
      BY <2>5, <2>6
<1>2. CASE UploadSdo(t)
  <2>1. call[t] \in UploadsLeft
      BY <1>2 DEF UploadSdo, AfterUpload
  <2>2. MasterUsable
      BY <2>1 DEF Shape, Consistent, MasterUsable
  <2>3. call'[t] \in {"upload2", "upload3", "returned", "threw"}
    <3>1. Goto(t, AfterUpload[call[t]]) \/ Goto(t, "threw")
        BY <1>2, <2>2, Zenon DEF UploadSdo, Using
    <3>2. AfterUpload[call[t]] \in {"upload2", "upload3", "returned"}
        BY <2>1 DEF AfterUpload
    <3> QED
        BY <3>1, <3>2, GotoIs
  <2>4. UNCHANGED <<active, bus>>
      BY <1>2, <2>2 DEF UploadSdo, Using
  <2>5. Frames(call[t])'
      BY <2>1, <2>3, <2>4 DEF bus
  <2> QED
      BY <2>4, <2>5, NoSessionStep DEF bus
<1> QED
    BY <1>1, <1>2 DEF UploadStep

\* Any step.
LEMMA DriverStepFrames ==
    ASSUME ReceiveOverwritesOutputs = FALSE,
           DriverTypeOK, NEW t \in Callers, Shape(call[t]), Frames(call[t]), DriverStep(t)
    PROVE  Frames(call[t])' /\ SessionStep
BY InitFrames, StopFrames, PulseFrames, ReadFrames, UploadFrames DEF DriverStep

----------------------------------------------------------------------------
(* The specification. *)

\* A call or a return sends nothing and finds the frames as they were.
LEMMA CallFrames ==
    ASSUME DriverInv, FramesInv, NEW t \in Callers, Call(t) \/ Return(t)
    PROVE  FramesInv' /\ SessionStep
<1> USE DEF Frames, QuietSteps, FramelessSteps, SteadyPlaces, UploadsLeft
<1>1. UNCHANGED <<pointers, active, check, seen, scales, bus, fault>>
    BY DEF Call, Return
<1>2. PICK place : Goto(t, place) /\ Frames(place)
  <2>1. CASE Call(t)
    <3>1. Frames("none") /\ Shape("none")
        BY <2>1 DEF FramesInv, DriverInv, Call
    <3>2. CASE Goto(t, "request") /\ ~master
        BY <3>1, <3>2
    <3>3. CASE \E step \in {"stop", "pulse", "read", "upload"} : Goto(t, step)
        BY <3>1, <3>3
    <3> QED
        BY <2>1, <3>2, <3>3 DEF Call
  <2>2. CASE Return(t)
    <3>1. Frames(call[t]) /\ call[t] \in {"returned", "threw"}
        BY <2>2 DEF FramesInv, Return
    <3>2. Frames("none") /\ Frames("stop")
        BY <3>1
    <3> QED
        BY <2>2, <3>2 DEF Return
  <2> QED
      BY <2>1, <2>2
<1>3. \A u \in Callers \ {t} : call[u] = "none"
    BY DEF Call, Return, Idle, DriverInv, Alone
<1>4. call'[t] = place /\ \A u \in Callers \ {t} : call'[u] = "none"
    BY <1>2, <1>3, TypeSplit DEF Goto, DriverInv
<1>5. Frames(place)'
    BY <1>1, <1>2 DEF bus
<1>6. FramesInv'
    BY <1>4, <1>5 DEF FramesInv, Idle
<1> QED
    BY <1>1, <1>6, NoSessionStep DEF bus

LEMMA StepFrames ==
    ASSUME ReceiveOverwritesOutputs = FALSE,
           DriverInv, FramesInv, NEW t \in Callers, DriverStep(t)
    PROVE  FramesInv' /\ SessionStep
<1>1. DriverTypeOK /\ Local(t)
    BY DriverStepTyped DEF DriverInv
<1>2. call[t] # "none"
    BY <1>1, PlacesAre DEF Local
<1>3. Frames(call[t])' /\ SessionStep
    BY <1>1, <1>2, DriverStepFrames DEF DriverInv, FramesInv
<1>4. \A u \in Callers \ {t} : call'[u] = "none"
    BY <1>1, <1>2 DEF DriverInv, Alone, Local
<1> QED
    BY <1>1, <1>3, <1>4 DEF FramesInv, Idle, Local

\* What the frames are at each step is an invariant, and every step of the driver is
\* one of the protocol or none of it.
LEMMA FramesKeep ==
    ASSUME ReceiveOverwritesOutputs = FALSE,
           DriverInv, FramesInv, [DriverNext]_driverVars
    PROVE  FramesInv' /\ SessionStep
<1>1. CASE DriverNext
    BY <1>1, CallFrames, StepFrames DEF DriverNext
<1>2. CASE UNCHANGED driverVars
    BY <1>2, NoSessionStep DEF driverVars, bus, FramesInv, Frames, Idle
<1> QED
    BY <1>1, <1>2

LEMMA FramesInvariant ==
    ASSUME ReceiveOverwritesOutputs = FALSE PROVE DriverSpec => [](DriverInv /\ FramesInv)
<1>1. DriverInit => FramesInv
    BY DEF DriverInit, Fresh, FramesInv, Frames, Idle
<1>2. DriverInv /\ FramesInv /\ [DriverNext]_driverVars => FramesInv'
    BY FramesKeep
<1> QED
    BY <1>1, <1>2, DriverInvariant, PTL DEF DriverSpec

\* The driver implements the protocol of the EtherCAT session: one session at a time,
\* the configured word first, no pulse that is not taken back, a stop frame last, and
\* the master given back, whichever call failed.
THEOREM DriverImplementsSession ==
    ASSUME ReceiveOverwritesOutputs = FALSE PROVE DriverSpec => SessionSpec
<1>1. DriverInit => Session!Init
    BY DEF DriverInit, Session!Init
<1>2. DriverInv /\ FramesInv /\ [DriverNext]_driverVars => [Session!Next]_(Session!vars)
    BY FramesKeep DEF SessionStep, Session!vars
<1> QED
    BY <1>1, <1>2, FramesInvariant, PTL DEF DriverSpec, SessionSpec, Session!Spec

\* pulse_control_bit_ takes the bit back only after a frame has carried it.
THEOREM PulseIsSent ==
    ASSUME ReceiveOverwritesOutputs = FALSE PROVE DriverSpec => []PulseOnWire
<1>1. FramesInv => PulseOnWire
    BY DEF FramesInv, Frames, PulseOnWire, At
<1> QED
    BY <1>1, FramesInvariant, PTL

\* Between two methods of an active driver nothing but the configured word is on the
\* wire or in the image.
THEOREM WireIsQuiet ==
    ASSUME ReceiveOverwritesOutputs = FALSE PROVE DriverSpec => []QuietWire
<1>1. DriverInv /\ FramesInv => QuietWire
    BY DEF FramesInv, Frames, QuietSteps, SteadyPlaces, QuietWire, IsActive
<1> QED
    BY <1>1, FramesInvariant, PTL

\* A bias pulse is one frame with its bit and one without, whoever asks for it.
THEOREM BiasIsOnePulse ==
    ASSUME ReceiveOverwritesOutputs = FALSE PROVE DriverSpec => []BiasOnWire
<1>1. PulseOnWire /\ QuietWire => BiasOnWire
    BY DEF BiasOnWire
<1> QED
    BY <1>1, PulseIsSent, WireIsQuiet, PTL
================================================================================
