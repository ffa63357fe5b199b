----------------------------- MODULE MonitorChecks -----------------------------
(***************************************************************************)
(* The checks and alerts of the monitor node.  Two threads run             *)
(* _run_low_frequency_checks: the spin thread, from a timer, and the       *)
(* thread of the web server's loop, after a bias request.  A run looks at  *)
(* the ROS graph, then takes the last wrench, the EtherCAT health, the     *)
(* diagnostic rows and the missing interfaces one after the other, and     *)
(* stores the checks and alerts it makes of them.  The spin thread runs    *)
(* one callback at a time, and all the others too: wrenches, diagnostic    *)
(* arrays and the answers of the controller manager about its interfaces.  *)
(***************************************************************************)
EXTENDS Naturals, Sequences

CONSTANTS
    Graphs,      \* what the ROS graph may show, each a subset of GraphNames
    Wrenches,    \* what the last wrench may be, of "fresh", "invalid", "stale"
    Arrays,      \* the diagnostic arrays that may be received
    MaxCalls,    \* bound: the calls of list_hardware_interfaces under way
    MaxChanges   \* bound: what happens outside the node

GraphChecks ==
    {"set_bias_service", "clear_bias_service", "wrench_topic", "diagnostics_topic"}
GraphNames == GraphChecks \cup {"list_hardware_interfaces"}
RowNames == {"ethercat_communication", "sample_counter", "runtime_sdo", "sensor_status"}
CheckNames ==
    GraphChecks \cup RowNames
        \cup {"wrench_updating", "wrench_values_valid", "hardware_interfaces",
              "ethercat_health"}
Array == [driver : BOOLEAN, online : BOOLEAN, good : SUBSET RowNames]

MonitorAssumption ==
    /\ Graphs \subseteq SUBSET GraphNames
    /\ Wrenches \subseteq {"fresh", "invalid", "stale"}
    /\ Arrays \subseteq Array
    /\ \A a \in Arrays : ~a.driver => ~a.online /\ a.good = {}
    /\ MaxCalls \in Nat \ {0} /\ MaxChanges \in Nat

Threads == {"spin", "loop"}

VARIABLES
    graph,      \* external: the topics and services of the ROS graph
    available,  \* external: every expected state interface is available
    changes,    \* bound: how often the outside has changed
    wrench,     \* _last_wrench_msg and its age
    array,      \* _diagnostics and _ethercat, which are made of one array
    missing,    \* _missing_interfaces is not empty
    calls,      \* the calls of the controller manager it has not answered
    answers,    \* its answers that no callback has taken
    checks,     \* _checks: which are all right
    alerts,     \* _alerts: the checks that have one
    pc,         \* where each thread is in _run_low_frequency_checks
    seen        \* what it has taken so far

outside == <<graph, available, changes>>
data == <<wrench, array, missing>>
shown == <<checks, alerts>>
vars == <<outside, data, calls, answers, shown, pc, seen>>

\* No array has come yet: no row and no value, as in an array of another node.
NoArray == [driver |-> FALSE, online |-> FALSE, good |-> {}]
NoWrench == "none"
NothingSeen ==
    [graph |-> {}, wrench |-> NoWrench, online |-> FALSE, good |-> {}, missing |-> TRUE]

TypeOK ==
    /\ graph \in Graphs /\ available \in BOOLEAN /\ changes \in 0 .. MaxChanges
    /\ wrench \in Wrenches \cup {NoWrench}
    /\ array \in Arrays \cup {NoArray}
    /\ missing \in BOOLEAN
    /\ calls + Len(answers) <= MaxCalls /\ answers \in Seq(BOOLEAN)
    /\ checks \in [CheckNames -> BOOLEAN] /\ alerts \subseteq CheckNames
    /\ pc \in [Threads -> {"idle", "health", "rows", "missing", "store", "ask"}]
    /\ \A t \in Threads : pc[t] = "idle" => seen[t] = NothingSeen

\* _derive_ethercat_health: every item is good.  The items are of the values of
\* the communication row; the levels of the rows are not among them.
Health(a) == a.online

\* The checks of what a run has seen.
ChecksOf(s) ==
    [c \in CheckNames |->
        CASE c \in GraphChecks           -> c \in s.graph
          [] c \in RowNames              -> c \in s.good
          [] c = "wrench_updating"       -> s.wrench \in {"fresh", "invalid"}
          [] c = "wrench_values_valid"   -> s.wrench \in {"fresh", "stale"}
          [] c = "hardware_interfaces"   -> ~s.missing
          [] c = "ethercat_health"       -> s.online]
AlertsOf(cs) == {c \in CheckNames : ~cs[c]}

\* The constructor runs the checks once, before there is a loop or a spin thread.
Init ==
    /\ graph \in Graphs /\ available \in BOOLEAN /\ changes = 0
    /\ wrench = NoWrench /\ array = NoArray /\ missing = TRUE
    /\ calls = (IF "list_hardware_interfaces" \in graph THEN 1 ELSE 0)
    /\ answers = <<>>
    /\ checks = ChecksOf([NothingSeen EXCEPT !.graph = graph])
    /\ alerts = AlertsOf(checks)
    /\ pc = [t \in Threads |-> "idle"]
    /\ seen = [t \in Threads |-> NothingSeen]

----------------------------------------------------------------------------
(* External: the ROS graph, the controller manager, the publishers.        *)

GraphChanges ==
    /\ changes < MaxChanges /\ changes' = changes + 1
    /\ graph' \in Graphs \ {graph}
    /\ UNCHANGED <<available, data, calls, answers, shown, pc, seen>>

HardwareChanges ==
    /\ changes < MaxChanges /\ changes' = changes + 1
    /\ available' = ~available
    /\ UNCHANGED <<graph, data, calls, answers, shown, pc, seen>>

\* The controller manager answers what it knows when it answers, or never.
Answer ==
    /\ calls > 0
    /\ calls' = calls - 1
    /\ answers' = Append(answers, available)
    /\ UNCHANGED <<outside, data, shown, pc, seen>>

CallFails ==
    /\ changes < MaxChanges /\ changes' = changes + 1
    /\ calls > 0
    /\ calls' = calls - 1
    /\ UNCHANGED <<graph, available, data, answers, shown, pc, seen>>

----------------------------------------------------------------------------
(* The callbacks of the spin thread. *)

Spinning == pc["spin"] = "idle"

\* _on_wrench; a wrench that is not followed by another one grows stale by itself.
OnWrench(w) ==
    /\ Spinning \/ w = "stale"
    /\ changes < MaxChanges /\ changes' = changes + 1
    /\ w # wrench /\ (w = "stale" => wrench # NoWrench)
    /\ wrench' = w
    /\ UNCHANGED <<graph, available, array, missing, calls, answers, shown, pc, seen>>

\* Mutant: the callbacks run on several threads.
OnDiagnosticsAnytime(a) ==
    /\ changes < MaxChanges /\ changes' = changes + 1
    /\ a # array
    /\ array' = a
    /\ UNCHANGED <<graph, available, wrench, missing, calls, answers, shown, pc, seen>>

\* _on_diagnostics: the rows and the health of the array replace the last ones,
\* whoever sent it.
OnDiagnostics(a) ==
    /\ Spinning
    /\ changes < MaxChanges /\ changes' = changes + 1
    /\ a # array
    /\ array' = a
    /\ UNCHANGED <<graph, available, wrench, missing, calls, answers, shown, pc, seen>>

\* Mutant: the alert of an earlier run stays.
OnInterfacesAddsAlert ==
    /\ Spinning /\ answers # <<>>
    /\ answers' = Tail(answers)
    /\ missing' = ~Head(answers)
    /\ checks' = [checks EXCEPT !["hardware_interfaces"] = Head(answers)]
    /\ alerts' = IF Head(answers) THEN alerts ELSE alerts \cup {"hardware_interfaces"}
    /\ UNCHANGED <<outside, wrench, array, calls, pc, seen>>

\* _on_interfaces: the answer goes into the checks and alerts as they are.
OnInterfaces ==
    /\ Spinning /\ answers # <<>>
    /\ answers' = Tail(answers)
    /\ missing' = ~Head(answers)
    /\ checks' = [checks EXCEPT !["hardware_interfaces"] = Head(answers)]
    /\ alerts' = (alerts \ {"hardware_interfaces"})
                    \cup (IF Head(answers) THEN {} ELSE {"hardware_interfaces"})
    /\ UNCHANGED <<outside, wrench, array, calls, pc, seen>>

----------------------------------------------------------------------------
(* _run_low_frequency_checks, by the timer or after a bias request. *)

Gather(t) ==
    /\ pc[t] = "idle"
    /\ pc' = [pc EXCEPT ![t] = "health"]
    /\ seen' = [seen EXCEPT ![t].graph = graph, ![t].wrench = wrench]
    /\ UNCHANGED <<outside, data, calls, answers, shown>>

TakeHealth(t) ==
    /\ pc[t] = "health"
    /\ pc' = [pc EXCEPT ![t] = "rows"]
    /\ seen' = [seen EXCEPT ![t].online = Health(array)]
    /\ UNCHANGED <<outside, data, calls, answers, shown>>

TakeRows(t) ==
    /\ pc[t] = "rows"
    /\ pc' = [pc EXCEPT ![t] = "missing"]
    /\ seen' = [seen EXCEPT ![t].good = array.good]
    /\ UNCHANGED <<outside, data, calls, answers, shown>>

\* The interfaces are read without the lock, while the checks are made.
TakeMissing(t) ==
    /\ pc[t] = "missing"
    /\ pc' = [pc EXCEPT ![t] = "store"]
    /\ seen' = [seen EXCEPT ![t].missing = missing]
    /\ UNCHANGED <<outside, data, calls, answers, shown>>

Store(t) ==
    /\ pc[t] = "store"
    /\ pc' = [pc EXCEPT ![t] = "ask"]
    /\ checks' = ChecksOf(seen[t])
    /\ alerts' = AlertsOf(checks')
    /\ UNCHANGED <<outside, data, calls, answers, seen>>

\* The controller manager is asked only when its service is there; at the bound a
\* call is left out, and the run after it asks again.
Ask(t) ==
    /\ pc[t] = "ask"
    /\ pc' = [pc EXCEPT ![t] = "idle"]
    /\ seen' = [seen EXCEPT ![t] = NothingSeen]
    /\ calls' = IF "list_hardware_interfaces" \in graph /\ calls + Len(answers) < MaxCalls
                  THEN calls + 1 ELSE calls
    /\ UNCHANGED <<outside, data, answers, shown>>

Run(t) ==
    \/ Gather(t) \/ TakeHealth(t) \/ TakeRows(t)
    \/ TakeMissing(t) \/ Store(t) \/ Ask(t)

Next ==
    \/ GraphChanges \/ HardwareChanges \/ Answer \/ CallFails
    \/ \E w \in Wrenches : OnWrench(w)
    \/ \E a \in Arrays : OnDiagnostics(a)
    \/ OnInterfaces
    \/ \E t \in Threads : Run(t)

Spec == Init /\ [][Next]_vars

----------------------------------------------------------------------------
(* Properties. *)

\* The alerts are those of the checks, although an answer about the interfaces may
\* change one of each between two runs, or during one.
AlertsMatchChecks == TypeOK /\ alerts = AlertsOf(checks)

\* What the timer stores is of what the node has at that moment, as no callback can
\* come between what a run takes and what it stores; a run of the loop has no such
\* protection.
Current == [graph |-> graph, wrench |-> wrench, online |-> Health(array),
            good |-> array.good, missing |-> missing]
TimerChecksCurrent ==
    [][Store("spin") =>
        \A c \in CheckNames \ (GraphChecks \cup {"wrench_updating", "wrench_values_valid"}) :
            checks'[c] = ChecksOf(Current)[c]]_vars

\* When nothing changes any more the checks become those of what there is, however
\* a run of the loop has overwritten them, and what is said of the interfaces is
\* what the controller manager says of them, as long as it can be asked.
ChecksCatchUp ==
    <>[](/\ checks = ChecksOf(Current)
         /\ "list_hardware_interfaces" \in graph => missing = ~available)

\* README: the EtherCAT health is of the status code and the runtime SDO state too.
HealthIncludesStatus ==
    Health(array) => {"sensor_status", "runtime_sdo"} \subseteq array.good
================================================================================
