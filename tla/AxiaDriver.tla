------------------------------ MODULE AxiaDriver ------------------------------
(***************************************************************************)
(* Axia80EtherCATDriver: the object that owns the IgH EtherCAT master.     *)
(*                                                                         *)
(* The driver has no lock of its own.  A method is a sequence of steps,    *)
(* one per call of the ecrt_* library or per access to the process image,  *)
(* taken by the thread that called it: call[t] is the step thread t takes  *)
(* next.  The module's own Spec calls the methods one at a time, as a      *)
(* holder of driver_mutex_ does; AxiaSensor lets its threads take the same *)
(* steps concurrently.                                                     *)
(*                                                                         *)
(* The library is external: a call fails or succeeds, and using the master *)
(* after its release, or the process image outside a session that is       *)
(* active, is undefined.  fault records that, and nothing is said of what  *)
(* follows it.                                                             *)
(***************************************************************************)


CONSTANTS
    Callers,                  \* the threads that call the driver
    ReadCalibration,          \* parameters_.read_calibration_sdo
    ReceiveOverwritesOutputs  \* whether ecrt_master_receive copies the outputs
                              \* of the frame that came back over the image

ASSUME DriverAssumption ==
    /\ ReadCalibration \in BOOLEAN
    /\ ReceiveOverwritesOutputs \in BOOLEAN

VARIABLES
    master,   \* master_ is not null
    domain,   \* domain_ is not null
    config,   \* slave_config_ is not null
    pd,       \* domain_pd_ is not null
    active,   \* active_
    check,    \* state_check_required_
    seen,     \* when the have_*_state_ of last_*_state_ were read
    scales,   \* counts_per_force and counts_per_torque
    session,  \* external: the master this process holds
    image,    \* external: the control word in the process image
    wire,     \* external: the control word of the last frame sent
    fault,    \* a released master or a dead process image was used
    call      \* for each thread, the step of the driver it takes next

pointers == <<master, domain, config, pd>>
bus == <<session, image, wire>>
driverVars == <<pointers, active, check, seen, scales, bus, fault, call>>

InitSteps ==
    {"request", "find", "domain", "config", "register", "activate", "data",
     "initWrite", "initCycle", "calibrate"}
StopSteps ==
    {"stop", "stopWrite", "stopCycle", "deactivate", "clearActive", "release",
     "clearMaster", "clear"}
PulseSteps == {"pulse", "pulseWrite", "pulseCycle", "pulseEnd", "pulseEndCycle"}
ReadSteps == {"read", "receive", "state", "sample", "readWrite", "send"}
UploadSteps == {"upload", "upload1", "upload2", "upload3"}
Steps == InitSteps \cup StopSteps \cup PulseSteps \cup ReadSteps \cup UploadSteps
Results == {"none", "returned", "threw"}

Words == {"zero", "word", "pulse"}

DriverTypeOK ==
    /\ master \in BOOLEAN /\ domain \in BOOLEAN
    /\ config \in BOOLEAN /\ pd \in BOOLEAN
    /\ active \in BOOLEAN /\ check \in BOOLEAN
    /\ seen \in {"never", "before", "now"}
    /\ scales \in {"positive", "unusable"}
    /\ session \in {"released", "requested", "active"}
    /\ image \in Words \cup {"none"}
    /\ wire \in Words \cup {"none"}
    /\ fault \in BOOLEAN
    /\ call \in [Callers -> Steps \cup Results]

----------------------------------------------------------------------------
(* The steps. *)

IsActive == active /\ pd

MasterUsable == master /\ session # "released"
ImageUsable == pd /\ session = "active"
CycleUsable == MasterUsable /\ domain /\ session = "active"

At(t, step) == call[t] = step
Goto(t, step) == call' = [call EXCEPT ![t] = step]

\* A step that uses a resource of the session, or is undefined without it.
Using(usable, effect) ==
    IF usable THEN effect /\ UNCHANGED fault
              ELSE fault' = TRUE /\ UNCHANGED <<pointers, active, check, seen, scales, bus, call>>

\* request_master_: the pointer is assigned before it is tested.
RequestMaster(t) ==
    /\ At(t, "request")
    /\ \/ /\ session = "released"
          /\ session' = "requested"
          /\ wire' = "none"
          /\ image' = "none"
          /\ master' = TRUE
          /\ \/ Goto(t, "find")
             \/ Goto(t, "threw")  \* ecrt_master: no master info
       \/ /\ master' = FALSE
          /\ Goto(t, "threw")
          /\ UNCHANGED bus
    /\ UNCHANGED <<domain, config, pd, active, check, seen, scales, fault>>

FindSlave(t) ==
    /\ At(t, "find")
    /\ Using(MasterUsable,
             /\ Goto(t, "domain") \/ Goto(t, "threw")
             /\ UNCHANGED <<pointers, active, check, seen, scales, bus>>)

\* configure_pdos_, up to the domain.
CreateDomain(t) ==
    /\ At(t, "domain")
    /\ Using(MasterUsable,
             /\ \/ domain' = TRUE /\ Goto(t, "config")
                \/ domain' = FALSE /\ Goto(t, "threw")
             /\ UNCHANGED <<master, config, pd, active, check, seen, scales, bus>>)

\* configure_pdos_, up to the slave configuration.
ConfigureSlave(t) ==
    /\ At(t, "config")
    /\ Using(MasterUsable,
             /\ \/ config' = TRUE /\ Goto(t, "register")
                \/ config' = FALSE /\ Goto(t, "threw")
             /\ UNCHANGED <<master, domain, pd, active, check, seen, scales, bus>>)

\* configure_pdos_, the PDO mapping and the registration of its entries.
RegisterPdos(t) ==
    /\ At(t, "register")
    /\ Using(MasterUsable,
             /\ Goto(t, "activate") \/ Goto(t, "threw")
             /\ UNCHANGED <<pointers, active, check, seen, scales, bus>>)

\* activate_master_, the call.
ActivateMaster(t) ==
    /\ At(t, "activate")
    /\ Using(MasterUsable,
             /\ \/ session' = "active" /\ Goto(t, "data")
                \/ Goto(t, "threw") /\ UNCHANGED session
             /\ UNCHANGED <<pointers, active, check, seen, scales, image, wire>>)

\* activate_master_, the process image.  What was read of the EtherCAT state
\* in an earlier session is now of the past.
DomainData(t) ==
    /\ At(t, "data")
    /\ Using(domain /\ session = "active",
             /\ \/ /\ pd' = TRUE
                   /\ check' = TRUE
                   /\ active' = TRUE
                   /\ Goto(t, "initWrite")
                \/ /\ pd' = FALSE
                   /\ Goto(t, "threw")
                   /\ UNCHANGED <<check, active>>
             /\ seen' = IF seen = "now" THEN "before" ELSE seen
             /\ UNCHANGED <<master, domain, config, scales, bus>>)

\* write_control_
WriteControl(t, step, word, next) ==
    /\ At(t, step)
    /\ Using(ImageUsable,
             /\ image' = word
             /\ Goto(t, next)
             /\ UNCHANGED <<pointers, active, check, seen, scales, session, wire>>)

\* What ecrt_master_receive leaves in the image: the frame that came back, if
\* one did, carries the outputs it was sent with.
Received ==
    IF ReceiveOverwritesOutputs /\ wire # "none" THEN {image, wire} ELSE {image}

\* cycle_once_: receive, process, queue and send.
CycleOnce(t, step, next) ==
    /\ At(t, step)
    /\ Using(CycleUsable,
             /\ image' \in Received
             /\ wire' = image'
             /\ Goto(t, next)
             /\ UNCHANGED <<pointers, active, check, seen, scales, session>>)

InitWrite(t) == WriteControl(t, "initWrite", "word", "initCycle")
InitCycle(t) ==
    CycleOnce(t, "initCycle", IF ReadCalibration THEN "calibrate" ELSE "returned")

\* read_calibration_sdo_: the scales are overwritten before they are tested.
ReadCalibrationSdo(t) ==
    /\ At(t, "calibrate")
    /\ Using(MasterUsable,
             /\ \/ scales' = "positive" /\ Goto(t, "returned")
                \/ scales' = "unusable" /\ Goto(t, "threw")
                \/ UNCHANGED scales /\ Goto(t, "threw")  \* an upload failed
             /\ UNCHANGED <<pointers, active, check, seen, bus>>)

\* Mutant: only an active driver gives its master back.
StopForgetsInactive(t) ==
    /\ At(t, "stop")
    /\ Goto(t, IF master /\ active THEN "stopWrite" ELSE "clear")
    /\ UNCHANGED <<pointers, active, check, seen, scales, bus, fault>>

\* shutdown
Stop(t) ==
    /\ At(t, "stop")
    /\ \/ master /\ active /\ Goto(t, "stopWrite")
       \/ master /\ ~active /\ Goto(t, "release")
       \/ ~master /\ Goto(t, "clear")
    /\ UNCHANGED <<pointers, active, check, seen, scales, bus, fault>>

\* Mutant: the stop frame is written and never sent.
StopWriteOnly(t) == WriteControl(t, "stopWrite", "zero", "deactivate")

StopWrite(t) == WriteControl(t, "stopWrite", "zero", "stopCycle")
StopCycle(t) == CycleOnce(t, "stopCycle", "deactivate")

\* ecrt_master_deactivate: the domain and its image are freed.
DeactivateMaster(t) ==
    /\ At(t, "deactivate")
    /\ Using(MasterUsable,
             /\ session' = "requested"
             /\ image' = "none"
             /\ Goto(t, "clearActive")
             /\ UNCHANGED <<pointers, active, check, seen, scales, wire>>)

ClearActive(t) ==
    /\ At(t, "clearActive")
    /\ active' = FALSE
    /\ Goto(t, "release")
    /\ UNCHANGED <<pointers, check, seen, scales, bus, fault>>

ReleaseMaster(t) ==
    /\ At(t, "release")
    /\ Using(MasterUsable,
             /\ session' = "released"
             /\ image' = "none"
             /\ Goto(t, "clearMaster")
             /\ UNCHANGED <<pointers, active, check, seen, scales, wire>>)

ClearMaster(t) ==
    /\ At(t, "clearMaster")
    /\ master' = FALSE
    /\ Goto(t, "clear")
    /\ UNCHANGED <<domain, config, pd, active, check, seen, scales, bus, fault>>

ClearPointers(t) ==
    /\ At(t, "clear")
    /\ domain' = FALSE
    /\ config' = FALSE
    /\ pd' = FALSE
    /\ check' = TRUE
    /\ Goto(t, "returned")
    /\ UNCHANGED <<master, active, seen, scales, bus, fault>>

\* pulse_control_bit_
PulseCheck(t) ==
    /\ At(t, "pulse")
    /\ Goto(t, IF IsActive THEN "pulseWrite" ELSE "threw")
    /\ UNCHANGED <<pointers, active, check, seen, scales, bus, fault>>

\* Mutant: the bit mask is not merged into the word.
PulseWriteNoBit(t) == WriteControl(t, "pulseWrite", "word", "pulseCycle")

PulseWrite(t) == WriteControl(t, "pulseWrite", "pulse", "pulseCycle")
\* Mutant: the bit is set and never cleared again.
PulseCycleOnly(t) == CycleOnce(t, "pulseCycle", "returned")

PulseCycle(t) == CycleOnce(t, "pulseCycle", "pulseEnd")
PulseEnd(t) == WriteControl(t, "pulseEnd", "word", "pulseEndCycle")
PulseEndCycle(t) == CycleOnce(t, "pulseEndCycle", "returned")

\* read_once
\* Mutant: the scales are trusted since the constructor tested them.
ReadCheckActiveOnly(t) ==
    /\ At(t, "read")
    /\ Goto(t, IF IsActive THEN "receive" ELSE "threw")
    /\ UNCHANGED <<pointers, active, check, seen, scales, bus, fault>>

ReadCheck(t) ==
    /\ At(t, "read")
    /\ Goto(t, IF IsActive /\ scales = "positive" THEN "receive" ELSE "threw")
    /\ UNCHANGED <<pointers, active, check, seen, scales, bus, fault>>

\* Receive and process.  The EtherCAT state is read when it is required, and
\* otherwise once a second.
ReadReceive(t) ==
    /\ At(t, "receive")
    /\ Using(CycleUsable,
             /\ image' \in Received
             /\ \/ Goto(t, "state")
                \/ ~check /\ Goto(t, "sample")
             /\ UNCHANGED <<pointers, active, check, seen, scales, session, wire>>)

\* check_ethercat_state_: a field that changed is stored, so that what is kept
\* is what was read.
CheckState(t) ==
    /\ At(t, "state")
    /\ Using(CycleUsable /\ config,
             /\ seen' = "now"
             /\ check' = FALSE
             /\ Goto(t, "sample")
             /\ UNCHANGED <<pointers, active, scales, bus>>)

ReadSample(t) ==
    /\ At(t, "sample")
    /\ Using(ImageUsable,
             /\ Goto(t, "readWrite")
             /\ UNCHANGED <<pointers, active, check, seen, scales, bus>>)

ReadWrite(t) == WriteControl(t, "readWrite", "word", "send")

\* read_once synchronises the clocks, queues and sends what it wrote.
ReadSend(t) ==
    /\ At(t, "send")
    /\ Using(CycleUsable,
             /\ wire' = image
             /\ Goto(t, "returned")
             /\ UNCHANGED <<pointers, active, check, seen, scales, session, image>>)

\* read_diagnostic_readings: three uploads, any of which may fail.
UploadCheck(t) ==
    /\ At(t, "upload")
    /\ Goto(t, IF master THEN "upload1" ELSE "threw")
    /\ UNCHANGED <<pointers, active, check, seen, scales, bus, fault>>

\* Mutant: one upload more than there are.
AfterUploadOneMore ==
    [upload1 |-> "upload2", upload2 |-> "upload3", upload3 |-> "upload4"]

AfterUpload == [upload1 |-> "upload2", upload2 |-> "upload3", upload3 |-> "returned"]

UploadSdo(t) ==
    /\ call[t] \in DOMAIN AfterUpload
    /\ Using(MasterUsable,
             /\ Goto(t, AfterUpload[call[t]]) \/ Goto(t, "threw")
             /\ UNCHANGED <<pointers, active, check, seen, scales, bus>>)

InitStep(t) ==
    \/ RequestMaster(t) \/ FindSlave(t) \/ CreateDomain(t) \/ ConfigureSlave(t)
    \/ RegisterPdos(t) \/ ActivateMaster(t) \/ DomainData(t) \/ InitWrite(t)
    \/ InitCycle(t) \/ ReadCalibrationSdo(t)
StopStep(t) ==
    \/ Stop(t) \/ StopWrite(t) \/ StopCycle(t) \/ DeactivateMaster(t)
    \/ ClearActive(t) \/ ReleaseMaster(t) \/ ClearMaster(t) \/ ClearPointers(t)
PulseStep(t) ==
    PulseCheck(t) \/ PulseWrite(t) \/ PulseCycle(t) \/ PulseEnd(t) \/ PulseEndCycle(t)
ReadStep(t) ==
    \/ ReadCheck(t) \/ ReadReceive(t) \/ CheckState(t) \/ ReadSample(t)
    \/ ReadWrite(t) \/ ReadSend(t)
UploadStep(t) == UploadCheck(t) \/ UploadSdo(t)

DriverStep(t) ==
    InitStep(t) \/ StopStep(t) \/ PulseStep(t) \/ ReadStep(t) \/ UploadStep(t)

----------------------------------------------------------------------------
(* The methods called one at a time. *)

Idle == \A t \in Callers : call[t] = "none"

\* What a caller may call: any method at any time, but init only on a driver
\* that holds no master, as the lifecycle calls it.
Call(t) ==
    /\ Idle
    /\ \/ Goto(t, "request") /\ ~master
       \/ \E step \in {"stop", "pulse", "read", "upload"} : Goto(t, step)
    /\ UNCHANGED <<pointers, active, check, seen, scales, bus, fault>>

\* A method that returned, or one that threw.  A caller whose init threw shuts
\* the driver down, as on_activate does: master without active is an init that
\* threw, and so are scales it read and refused.
Return(t) ==
    /\ call[t] \in {"returned", "threw"}
    /\ \/ Goto(t, "none")
       \/ At(t, "threw") /\ Goto(t, "stop")
    /\ UNCHANGED <<pointers, active, check, seen, scales, bus, fault>>

\* The constructor, which refuses scales that are not positive.
Fresh ==
    /\ master = FALSE /\ domain = FALSE /\ config = FALSE /\ pd = FALSE
    /\ active = FALSE
    /\ check = TRUE
    /\ seen = "never"
    /\ scales = "positive"

DriverInit ==
    /\ Fresh
    /\ session = "released"
    /\ image = "none"
    /\ wire = "none"
    /\ fault = FALSE
    /\ call = [t \in Callers |-> "none"]

DriverNext == \E t \in Callers : DriverStep(t) \/ Call(t) \/ Return(t)

DriverSpec == DriverInit /\ [][DriverNext]_driverVars
----------------------------------------------------------------------------
(* Properties. *)

\* No method uses a master it gave back or a process image that is not there,
\* at whichever of its steps an init failed.
NoFault == ~fault

\* Between two methods the driver holds the master exactly when it knows that
\* it does, and shutdown forgets its pointers only after it gave the master
\* back: it leaks none, and no pointer dangles.
HeldIffKnown ==
    /\ Idle => (master <=> session # "released")
    /\ \A t \in Callers : At(t, "clear") => session = "released"

\* A sample is read with the EtherCAT state of the session it belongs to, never
\* with that of a session before the last shutdown (README: the first
\* read_once() after activation always performs one state check).
SampleHasFreshState == \A t \in Callers : At(t, "sample") => seen = "now"

\* Counts are divided by scales that are finite and positive, also after a
\* calibration upload that delivered others.
SampleHasScales == \A t \in Callers : At(t, "sample") => scales = "positive"

\* What read_once makes a sample of belongs to it: no state of another session, no
\* scale of a refused calibration, after any failed init in between.
SampleIsSound == SampleHasFreshState /\ SampleHasScales

\* The frame that carries a bias pulse has been sent when the pulse is taken
\* back.
PulseOnWire == \A t \in Callers : At(t, "pulseEnd") => wire = "pulse"

\* Between two methods of an active driver the sensor was last asked for the
\* configured word: no bias bit and no stop frame stays latched.
QuietWire == Idle /\ IsActive => wire = "word" /\ image = "word"

\* A bias is asked for in one frame, and no longer.
BiasOnWire == PulseOnWire /\ QuietWire

\* The driver keeps the protocol of the EtherCAT session.
Session == INSTANCE EtherCatSession WITH session <- session, wire <- wire
SessionSpec == Session!Spec

================================================================================
