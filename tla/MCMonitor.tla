------------------------------- MODULE MCMonitor -------------------------------
(***************************************************************************)
(* A small instance of the monitor node: MonitorBias, MonitorChecks and    *)
(* MonitorPage.  None of the three looks at the state of another, so a     *)
(* behaviour that interleaves them shows no more than one each: in a       *)
(* behaviour here one of them goes on and the others rest.                 *)
(***************************************************************************)
EXTENDS MonitorBias

CONSTANTS
    Graphs, Wrenches, Arrays, MaxCalls, MaxChanges,  \* of MonitorChecks
    Pages, Tasks, MaxWrench, MaxRest, MaxQueue, MaxLost \* of MonitorPage

VARIABLES
    part,                                                             \* the one that goes on
    graph, available, changes, wrench, array, missing, calls, answers, \* MonitorChecks
    checks, alerts, pc, seen,
    version, finite, rest, hold, queue, sending, socket, page, lost \* MonitorPage

Checks == INSTANCE MonitorChecks
Page == INSTANCE MonitorPage

checksVars == <<graph, available, changes, wrench, array, missing, calls, answers,
                checks, alerts, pc, seen>>
pageVars == <<version, finite, rest, hold, queue, sending, socket, page, lost>>
allVars == <<part, vars, checksVars, pageVars>>

ASSUME PartsAssumption == Checks!MonitorAssumption /\ Page!PageAssumption

MCGraphs ==
    {{"set_bias_service", "clear_bias_service", "wrench_topic", "diagnostics_topic",
      "list_hardware_interfaces"},
     {"wrench_topic"}}

\* The driver in order, the driver with an error in its status code, another node.
Good ==
    [driver |-> TRUE, online |-> TRUE,
     good |-> {"ethercat_communication", "sample_counter", "runtime_sdo", "sensor_status"}]
Error == [Good EXCEPT !.good = @ \ {"sensor_status"}]
Other == [driver |-> FALSE, online |-> FALSE, good |-> {}]
MCArrays == {Good, Error, Other}

BiasRests == Init /\ ~present /\ ~active /\ action = [r \in Requests |-> "set"]
ChecksRest == Checks!Init /\ graph = {"wrench_topic"} /\ available

MCInit ==
    /\ Page!Init
    /\ \/ part = "bias" /\ Init /\ ChecksRest
       \/ part = "checks" /\ BiasRests /\ Checks!Init
       \/ part = "page" /\ BiasRests /\ ChecksRest

Biasing(A) == part = "bias" /\ A /\ UNCHANGED <<part, checksVars, pageVars>>
Checking(A) == part = "checks" /\ A /\ UNCHANGED <<part, vars, pageVars>>
Paging(A) == part = "page" /\ A /\ UNCHANGED <<part, vars, checksVars>>

MCNext == Biasing(Next) \/ Checking(Checks!Next) \/ Paging(Page!Next)

\* The timer fires for ever and a run of the checks ends, on either thread; the spin
\* thread gets to the answers, although the timer is as often ready.  The telemetry
\* timer ticks for ever and a payload that is made is handed in; the loop runs, a page
\* that lost its connection connects again, and one that takes no message loses its
\* connection when the heartbeat fails.
MCSpec ==
    /\ MCInit /\ [][MCNext]_allVars
    /\ WF_allVars(Checking(Checks!Run("spin")))
    /\ WF_allVars(Checking(pc["loop"] # "idle" /\ Checks!Run("loop")))
    /\ WF_allVars(Checking(Checks!Answer))
    /\ SF_allVars(Checking(Checks!OnInterfaces))
    /\ WF_allVars(Paging(Page!Telemetry))
    /\ WF_allVars(Paging(Page!HandIn("spin")))
    /\ WF_allVars(Paging(Page!HandIn("loop")))
    /\ WF_allVars(Paging(Page!Broadcast))
    /\ WF_allVars(Paging(\E g \in Pages : Page!FirstMessage(g)))
    /\ \A b \in Tasks : WF_allVars(Paging(Page!Resume(b)))
    /\ \A g \in Pages : WF_allVars(Paging(Page!Connect(g)))

----------------------------------------------------------------------------
(* Properties of the parts. *)

\* What is shown is of one piece, whichever threads wrote it: the alerts are those of
\* the checks, and the payloads of one thread are in the order of their states.
MonitorAgrees == Checks!AlertsMatchChecks /\ Page!TypeOK /\ Page!QueueInOrder

\* The timer stores checks of what the node has, and when nothing changes any more
\* the checks become those of what there is, whatever a late run has overwritten.
ChecksFollow ==
    /\ Checks!TimerChecksCurrent
    /\ part = "checks" => Checks!ChecksCatchUp

\* A page goes back only where two threads raced or a broadcast was suspended, and
\* when the state changes no more it comes to show it, over held back wrenches, lost
\* connections and messages it could not read.
PageFollows ==
    /\ Page!BackOnlyByRace
    /\ part = "page" => Page!PageCatchesUp

\* README: the EtherCAT health is of the status code and the runtime SDO state too.
HealthIncludesStatus == Checks!HealthIncludesStatus
================================================================================
