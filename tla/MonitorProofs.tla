----------------------------- MODULE MonitorProofs -----------------------------
(***************************************************************************)
(* The monitor node, for any number of requests and any bounds.  What the  *)
(* dashboard says of a bias is true, whatever the order of the answers,    *)
(* timeouts and losses; its checks and alerts are of one piece, and those  *)
(* of the timer of what the node has; what its pages are sent is in the    *)
(* order of the states it is of.  The three parts are proved each of its   *)
(* own specification, and the last section takes the results to a node     *)
(* that runs them.                                                         *)
(***************************************************************************)
EXTENDS MCMonitor, FiniteSetTheorems, SequenceTheorems, TLAPS

----------------------------------------------------------------------------
(* The manual bias. *)

\* The answer of a call is what the sensor did for it, and a request that ended on
\* its answer has used its call up.
AnswersAreServed ==
    \A r \in Requests :
        /\ reply[r] <=> r \in applied
        /\ reply[r] => call[r] \in {"answered", "ready", "gone"}
        /\ st[r] = "new" \/ result[r] = "unavailable" => call[r] = "none"
        /\ result[r] \in {"success", "refused"} => call[r] = "gone"
        /\ result[r] = "success" => reply[r]
        /\ result[r] = "refused" => ~reply[r]

\* A request that waits alone since it began was the last one recorded.
WaitingIsRecorded ==
    \A r \in Requests : st[r] = "waiting" =>
        lastAction = r \/ (r \in overlapped /\ lastAction \in overlapped)

\* No call of another request is on its way beside that of the last request, when
\* none overlapped it, and the bias is that of the last request if it was served.
LastIsAlone ==
    \A r \in Requests : lastAction = r /\ r \notin overlapped =>
        /\ \A q \in Requests \ {r} : ~UnderWay(q)
        /\ reply[r] => bias = action[r]

BiasInv ==
    TypeOK /\ AnswersAreServed /\ WaitingIsRecorded /\ LastIsAlone /\ RecordsMatch

\* No request is made before Init.
LEMMA BiasInit == Init => BiasInv
BY NoRequestAssumption
   DEF Init, BiasInv, TypeOK, AnswersAreServed, WaitingIsRecorded, LastIsAlone, RecordsMatch,
       Actions

\* Every step keeps the type.
LEMMA TypeKept ==
    ASSUME TypeOK, [Next]_vars
    PROVE  TypeOK'
<1> USE NoRequestAssumption DEF TypeOK, Actions
<1>1. ASSUME NEW r \in Requests, Refuse(r) PROVE TypeOK'
    BY <1>1 DEF Refuse, sensor, last, Begin, End
<1>2. ASSUME NEW r \in Requests, Call(r) PROVE TypeOK'
    BY <1>2 DEF Call, sensor, last, Begin
<1>3. ASSUME NEW r \in Requests, Finish(r) PROVE TypeOK'
    BY <1>3 DEF Finish, sensor, last, End
<1>4. ASSUME NEW r \in Requests, Timeout(r) PROVE TypeOK'
    BY <1>4 DEF Timeout, sensor, last, End
<1>5. ASSUME NEW r \in Requests, Drop(r) PROVE TypeOK'
    BY <1>5 DEF Drop, sensor, last
<1>6. ASSUME NEW r \in Requests, Complete(r) PROVE TypeOK'
    BY <1>6 DEF Complete, sensor, last
<1>7. ASSUME NEW r \in Requests, Serve(r) PROVE TypeOK'
    BY <1>7 DEF Serve, sensor, last
<1>8. ASSUME NEW r \in Requests, Lose(r) PROVE TypeOK'
    BY <1>8 DEF Lose, sensor, last
<1>9. CASE SensorChanges
    BY <1>9 DEF SensorChanges, last
<1>10. CASE UNCHANGED vars
    BY <1>10 DEF vars, sensor, last
<1> QED
    BY <1>1, <1>2, <1>3, <1>4, <1>5, <1>6, <1>7, <1>8, <1>9, <1>10 DEF Next, Loop

\* An answer comes from the sensor, and a call is answered once.
LEMMA AnswersKept ==
    ASSUME TypeOK /\ AnswersAreServed, [Next]_vars
    PROVE  AnswersAreServed'
<1> USE NoRequestAssumption DEF TypeOK, AnswersAreServed
<1>1. ASSUME NEW r \in Requests, Refuse(r) PROVE AnswersAreServed'
    BY <1>1 DEF Refuse, sensor, last, Begin, End
<1>2. ASSUME NEW r \in Requests, Call(r) PROVE AnswersAreServed'
    BY <1>2 DEF Call, sensor, last, Begin
<1>3. ASSUME NEW r \in Requests, Finish(r) PROVE AnswersAreServed'
    BY <1>3 DEF Finish, sensor, last, End
<1>4. ASSUME NEW r \in Requests, Timeout(r) PROVE AnswersAreServed'
    BY <1>4 DEF Timeout, sensor, last, End
<1>5. ASSUME NEW r \in Requests, Drop(r) PROVE AnswersAreServed'
    BY <1>5 DEF Drop, sensor, last
<1>6. ASSUME NEW r \in Requests, Complete(r) PROVE AnswersAreServed'
    BY <1>6 DEF Complete, sensor, last
<1>7. ASSUME NEW r \in Requests, Serve(r) PROVE AnswersAreServed'
    BY <1>7 DEF Serve, sensor, last
<1>8. ASSUME NEW r \in Requests, Lose(r) PROVE AnswersAreServed'
    BY <1>8 DEF Lose, sensor, last
<1>9. CASE SensorChanges
    BY <1>9 DEF SensorChanges, last
<1>10. CASE UNCHANGED vars
    BY <1>10 DEF vars, sensor, last
<1> QED
    BY <1>1, <1>2, <1>3, <1>4, <1>5, <1>6, <1>7, <1>8, <1>9, <1>10 DEF Next, Loop

\* Whoever begins while another one waits overlaps with it.
LEMMA RecordedKept ==
    ASSUME TypeOK /\ WaitingIsRecorded, [Next]_vars
    PROVE  WaitingIsRecorded'
<1> USE NoRequestAssumption DEF TypeOK, WaitingIsRecorded, UnderWay
<1>1. ASSUME NEW r \in Requests, Refuse(r) PROVE WaitingIsRecorded'
    BY <1>1 DEF Refuse, sensor, last, Begin, End
<1>2. ASSUME NEW r \in Requests, Call(r) PROVE WaitingIsRecorded'
    BY <1>2 DEF Call, sensor, last, Begin
<1>3. ASSUME NEW r \in Requests, Finish(r) PROVE WaitingIsRecorded'
    BY <1>3 DEF Finish, sensor, last, End
<1>4. ASSUME NEW r \in Requests, Timeout(r) PROVE WaitingIsRecorded'
    BY <1>4 DEF Timeout, sensor, last, End
<1>5. ASSUME NEW r \in Requests, Drop(r) PROVE WaitingIsRecorded'
    BY <1>5 DEF Drop, sensor, last
<1>6. ASSUME NEW r \in Requests, Complete(r) PROVE WaitingIsRecorded'
    BY <1>6 DEF Complete, sensor, last
<1>7. ASSUME NEW r \in Requests, Serve(r) PROVE WaitingIsRecorded'
    BY <1>7 DEF Serve, sensor, last
<1>8. ASSUME NEW r \in Requests, Lose(r) PROVE WaitingIsRecorded'
    BY <1>8 DEF Lose, sensor, last
<1>9. CASE SensorChanges
    BY <1>9 DEF SensorChanges, last
<1>10. CASE UNCHANGED vars
    BY <1>10 DEF vars, sensor, last
<1> QED
    BY <1>1, <1>2, <1>3, <1>4, <1>5, <1>6, <1>7, <1>8, <1>9, <1>10 DEF Next, Loop

\* Only a call that has begun since can be served beside the last one.
LEMMA AloneKept ==
    ASSUME TypeOK /\ AnswersAreServed /\ LastIsAlone, [Next]_vars
    PROVE  LastIsAlone'
<1> USE NoRequestAssumption DEF TypeOK, AnswersAreServed, LastIsAlone, UnderWay
<1>1. ASSUME NEW r \in Requests, Refuse(r) PROVE LastIsAlone'
    BY <1>1 DEF Refuse, sensor, last, Begin, End
<1>2. ASSUME NEW r \in Requests, Call(r) PROVE LastIsAlone'
    BY <1>2 DEF Call, sensor, last, Begin
<1>3. ASSUME NEW r \in Requests, Finish(r) PROVE LastIsAlone'
    BY <1>3 DEF Finish, sensor, last, End
<1>4. ASSUME NEW r \in Requests, Timeout(r) PROVE LastIsAlone'
    BY <1>4 DEF Timeout, sensor, last, End
<1>5. ASSUME NEW r \in Requests, Drop(r) PROVE LastIsAlone'
    BY <1>5 DEF Drop, sensor, last
<1>6. ASSUME NEW r \in Requests, Complete(r) PROVE LastIsAlone'
    BY <1>6 DEF Complete, sensor, last
<1>7. ASSUME NEW r \in Requests, Serve(r) PROVE LastIsAlone'
    BY <1>7 DEF Serve, sensor, last
<1>8. ASSUME NEW r \in Requests, Lose(r) PROVE LastIsAlone'
    BY <1>8 DEF Lose, sensor, last
<1>9. CASE SensorChanges
    BY <1>9 DEF SensorChanges, last
<1>10. CASE UNCHANGED vars
    BY <1>10 DEF vars, sensor, last
<1> QED
    BY <1>1, <1>2, <1>3, <1>4, <1>5, <1>6, <1>7, <1>8, <1>9, <1>10 DEF Next, Loop

\* The last request that ends leaves two records that match.
LEMMA RecordsKept ==
    ASSUME TypeOK /\ WaitingIsRecorded /\ RecordsMatch, [Next]_vars
    PROVE  RecordsMatch'
<1> USE NoRequestAssumption DEF TypeOK, WaitingIsRecorded, RecordsMatch, UnderWay
<1>1. ASSUME NEW r \in Requests, Refuse(r) PROVE RecordsMatch'
    BY <1>1 DEF Refuse, sensor, last, Begin, End
<1>2. ASSUME NEW r \in Requests, Call(r) PROVE RecordsMatch'
    BY <1>2 DEF Call, sensor, last, Begin
<1>3. ASSUME NEW r \in Requests, Finish(r) PROVE RecordsMatch'
    BY <1>3 DEF Finish, sensor, last, End
<1>4. ASSUME NEW r \in Requests, Timeout(r) PROVE RecordsMatch'
    BY <1>4 DEF Timeout, sensor, last, End
<1>5. ASSUME NEW r \in Requests, Drop(r) PROVE RecordsMatch'
    BY <1>5 DEF Drop, sensor, last
<1>6. ASSUME NEW r \in Requests, Complete(r) PROVE RecordsMatch'
    BY <1>6 DEF Complete, sensor, last
<1>7. ASSUME NEW r \in Requests, Serve(r) PROVE RecordsMatch'
    BY <1>7 DEF Serve, sensor, last
<1>8. ASSUME NEW r \in Requests, Lose(r) PROVE RecordsMatch'
    BY <1>8 DEF Lose, sensor, last
<1>9. CASE SensorChanges
    BY <1>9 DEF SensorChanges, last
<1>10. CASE UNCHANGED vars
    BY <1>10 DEF vars, sensor, last
<1> QED
    BY <1>1, <1>2, <1>3, <1>4, <1>5, <1>6, <1>7, <1>8, <1>9, <1>10 DEF Next, Loop

\* The invariant of the specification.
THEOREM BiasInvariant == Spec => []BiasInv
<1>1. BiasInv /\ [Next]_vars => BiasInv'
    BY TypeKept, AnswersKept, RecordedKept, AloneKept, RecordsKept DEF BiasInv
<1> QED
    BY <1>1, BiasInit, PTL DEF Spec

\* The state has its type, and every request that ended has one result.
THEOREM BiasTyped == Spec => []TypeOK
BY BiasInvariant, PTL DEF BiasInv

\* trigger_bias returns success only for what the sensor has done.
THEOREM SuccessIsTrue == Spec => []SuccessIsApplied
<1>1. BiasInv => SuccessIsApplied
    BY DEF BiasInv, AnswersAreServed, SuccessIsApplied
<1> QED
    BY <1>1, BiasInvariant, PTL

\* trigger_bias returns a failure other than a timeout only for what the sensor has
\* not done and will not do.
THEOREM FailureIsTrue == Spec => []FailureIsNotApplied
<1>1. BiasInv => FailureIsNotApplied
    BY DEF BiasInv, AnswersAreServed, FailureIsNotApplied
<1> QED
    BY <1>1, BiasInvariant, PTL

\* The action and the result shown belong together, but for requests that overlapped.
THEOREM RecordsAgree == Spec => []RecordsMatch
BY BiasInvariant, PTL DEF BiasInv

\* The success shown of a request that nothing overlapped is the bias of the sensor.
THEOREM ShownBiasIsTrue == Spec => []ShownBiasIsApplied
<1>1. BiasInv => ShownBiasIsApplied
    BY DEF BiasInv, TypeOK, AnswersAreServed, LastIsAlone, ShownBiasIsApplied
<1> QED
    BY <1>1, BiasInvariant, PTL

\* What trigger_bias returns is true of its request: a success was done by the
\* sensor, and a refusal was not.
THEOREM AnswersTrue == Spec => []AnswersAreTrue
BY SuccessIsTrue, FailureIsTrue, PTL DEF AnswersAreTrue

\* What the page shows of the last bias belongs to one request and is true of the
\* sensor, but for requests that overlapped.
THEOREM RecordsTrue == Spec => []RecordsAreTrue
BY RecordsAgree, ShownBiasIsTrue, PTL DEF RecordsAreTrue

----------------------------------------------------------------------------
(* The checks and alerts. *)

SeenType ==
    [graph : SUBSET Checks!GraphNames, wrench : {"none", "fresh", "invalid", "stale"},
     online : BOOLEAN, good : SUBSET Checks!RowNames, missing : BOOLEAN]

\* What a run of the timer has taken is still what the node has.
TimerSees ==
    /\ pc["spin"] \in {"rows", "missing", "store"} => seen["spin"].online = array.online
    /\ pc["spin"] \in {"missing", "store"} => seen["spin"].good = array.good
    /\ pc["spin"] = "store" => seen["spin"].missing = missing

ChecksTyped ==
    Checks!TypeOK /\ calls \in Nat /\ seen \in [Checks!Threads -> SeenType]

ChecksInv == ChecksTyped /\ alerts = Checks!AlertsOf(checks) /\ TimerSees

\* What a run may see of the outside has its type.
LEMMA OutsideTyped ==
    /\ \A g \in Graphs : g \subseteq Checks!GraphNames
    /\ \A a \in Arrays \cup {Checks!NoArray} :
          a.online \in BOOLEAN /\ a.good \subseteq Checks!RowNames
    /\ Wrenches \cup {Checks!NoWrench} \subseteq {"none", "fresh", "invalid", "stale"}
    /\ MaxCalls \in Nat \ {0} /\ MaxChanges \in Nat
    /\ Checks!NothingSeen \in SeenType
<1>1. Checks!MonitorAssumption
    BY PartsAssumption DEF PartsAssumption
<1>2. \A g \in Graphs : g \subseteq Checks!GraphNames
    BY <1>1 DEF Checks!MonitorAssumption
<1>3. \A a \in Arrays : a.online \in BOOLEAN /\ a.good \subseteq Checks!RowNames
    BY <1>1 DEF Checks!MonitorAssumption, Checks!Array
<1>4. Checks!NoArray.online \in BOOLEAN /\ Checks!NoArray.good \subseteq Checks!RowNames
    BY DEF Checks!NoArray
<1>5. Wrenches \cup {Checks!NoWrench} \subseteq {"none", "fresh", "invalid", "stale"}
    BY <1>1 DEF Checks!MonitorAssumption, Checks!NoWrench
<1>6. MaxCalls \in Nat \ {0} /\ MaxChanges \in Nat
    BY <1>1 DEF Checks!MonitorAssumption
<1>7. Checks!NothingSeen \in SeenType
    BY DEF Checks!NothingSeen, Checks!NoWrench, SeenType
<1> QED
    BY <1>2, <1>3, <1>4, <1>5, <1>6, <1>7

\* What each check says of what was seen.
LEMMA CheckSays ==
    ASSUME NEW s, NEW c \in Checks!CheckNames
    PROVE  /\ c \in Checks!GraphChecks => Checks!ChecksOf(s)[c] = (c \in s.graph)
           /\ c \in Checks!RowNames => Checks!ChecksOf(s)[c] = (c \in s.good)
           /\ c = "wrench_updating" =>
                 Checks!ChecksOf(s)[c] = (s.wrench \in {"fresh", "invalid"})
           /\ c = "wrench_values_valid" =>
                 Checks!ChecksOf(s)[c] = (s.wrench \in {"fresh", "stale"})
           /\ c = "hardware_interfaces" => Checks!ChecksOf(s)[c] = ~s.missing
           /\ c = "ethercat_health" => Checks!ChecksOf(s)[c] = s.online
<1>1. CASE c \in Checks!GraphChecks
    BY <1>1 DEF Checks!ChecksOf, Checks!GraphChecks, Checks!RowNames
<1>2. CASE c \in Checks!RowNames
    BY <1>2 DEF Checks!ChecksOf, Checks!GraphChecks, Checks!RowNames
<1>3. CASE c = "wrench_updating"
    BY <1>3 DEF Checks!ChecksOf, Checks!GraphChecks, Checks!RowNames
<1>4. CASE c = "wrench_values_valid"
    BY <1>4 DEF Checks!ChecksOf, Checks!GraphChecks, Checks!RowNames
<1>5. CASE c = "hardware_interfaces"
    BY <1>5 DEF Checks!ChecksOf, Checks!GraphChecks, Checks!RowNames
<1>6. CASE c = "ethercat_health"
    BY <1>6 DEF Checks!ChecksOf, Checks!GraphChecks, Checks!RowNames
<1> QED
    BY <1>1, <1>2, <1>3, <1>4, <1>5, <1>6 DEF Checks!CheckNames

\* The checks of anything seen are Booleans, and so can be told from their alerts.
LEMMA ChecksOfTyped ==
    ASSUME NEW s \in SeenType
    PROVE  /\ Checks!ChecksOf(s) \in [Checks!CheckNames -> BOOLEAN]
           /\ Checks!AlertsOf(Checks!ChecksOf(s)) \subseteq Checks!CheckNames
<1>1. ASSUME NEW c \in Checks!CheckNames
      PROVE  Checks!ChecksOf(s)[c] \in BOOLEAN
  <2>1. CASE c \in Checks!GraphChecks
    <3>1. Checks!ChecksOf(s)[c] = (c \in s.graph)
        BY <2>1, CheckSays
    <3> QED
        BY <3>1
  <2>2. CASE c \in Checks!RowNames
    <3>1. Checks!ChecksOf(s)[c] = (c \in s.good)
        BY <2>2, CheckSays
    <3> QED
        BY <3>1
  <2>3. CASE c = "wrench_updating"
    <3>1. Checks!ChecksOf(s)[c] = (s.wrench \in {"fresh", "invalid"})
        BY <2>3, CheckSays
    <3> QED
        BY <3>1
  <2>4. CASE c = "wrench_values_valid"
    <3>1. Checks!ChecksOf(s)[c] = (s.wrench \in {"fresh", "stale"})
        BY <2>4, CheckSays
    <3> QED
        BY <3>1
  <2>5. CASE c = "hardware_interfaces"
    <3>1. Checks!ChecksOf(s)[c] = ~s.missing
        BY <2>5, CheckSays
    <3> QED
        BY <3>1
  <2>6. CASE c = "ethercat_health"
    <3>1. Checks!ChecksOf(s)[c] = s.online
        BY <2>6, CheckSays
    <3> QED
        BY <3>1 DEF SeenType
  <2> QED
      BY <2>1, <2>2, <2>3, <2>4, <2>5, <2>6 DEF Checks!CheckNames
<1> QED
    BY <1>1 DEF Checks!ChecksOf, Checks!AlertsOf

\* The constructor has run the checks.
LEMMA ChecksInit == Checks!Init => ChecksInv
<1> SUFFICES ASSUME Checks!Init PROVE ChecksInv
    OBVIOUS
<1>1. [Checks!NothingSeen EXCEPT !.graph = graph] \in SeenType
    BY OutsideTyped DEF Checks!Init, SeenType
<1>2. checks \in [Checks!CheckNames -> BOOLEAN] /\ alerts \subseteq Checks!CheckNames
    BY <1>1, ChecksOfTyped DEF Checks!Init
<1>3. calls \in Nat /\ calls + Len(answers) <= MaxCalls /\ answers \in Seq(BOOLEAN)
    BY OutsideTyped DEF Checks!Init
<1>4. seen \in [Checks!Threads -> SeenType]
      /\ \A t \in Checks!Threads : pc[t] = "idle" /\ seen[t] = Checks!NothingSeen
    BY OutsideTyped DEF Checks!Init
<1> QED
    BY <1>2, <1>3, <1>4, OutsideTyped
       DEF Checks!Init, ChecksInv, ChecksTyped, TimerSees, Checks!TypeOK, Checks!Threads

\* A callback takes the spin thread only while no run of the timer has it, and a run
\* of the loop changes nothing of what the timer's sees.
LEMMA ChecksKept ==
    ASSUME ChecksInv, [Checks!Next]_(Checks!vars)
    PROVE  ChecksInv'
<1> USE OutsideTyped
    DEF ChecksInv, ChecksTyped, TimerSees, Checks!TypeOK, Checks!Threads,
        Checks!outside, Checks!data, Checks!shown
<1>1. CASE Checks!GraphChanges
    BY <1>1 DEF Checks!GraphChanges
<1>2. CASE Checks!HardwareChanges
    BY <1>2 DEF Checks!HardwareChanges
<1>3. CASE Checks!Answer
  <2>1. /\ calls' = calls - 1 /\ calls > 0 /\ answers' = Append(answers, available)
        /\ UNCHANGED <<graph, available, changes, wrench, array, missing, checks, alerts, pc, seen>>
      BY <1>3 DEF Checks!Answer
  <2>2. answers' \in Seq(BOOLEAN) /\ Len(answers') = Len(answers) + 1
      BY <2>1
  <2> QED
      BY <2>1, <2>2
<1>4. CASE Checks!CallFails
    BY <1>4 DEF Checks!CallFails
<1>5. ASSUME NEW w \in Wrenches, Checks!OnWrench(w) PROVE ChecksInv'
    BY <1>5 DEF Checks!OnWrench, Checks!Spinning
<1>6. ASSUME NEW a \in Arrays, Checks!OnDiagnostics(a) PROVE ChecksInv'
    BY <1>6 DEF Checks!OnDiagnostics, Checks!Spinning
<1>7. CASE Checks!OnInterfaces
  <2>1. /\ pc["spin"] = "idle" /\ answers # <<>> /\ answers' = Tail(answers)
        /\ missing' = ~Head(answers)
        /\ checks' = [checks EXCEPT !["hardware_interfaces"] = Head(answers)]
        /\ alerts' = (alerts \ {"hardware_interfaces"})
                        \cup (IF Head(answers) THEN {} ELSE {"hardware_interfaces"})
        /\ UNCHANGED <<graph, available, changes, wrench, array, calls, pc, seen>>
      BY <1>7 DEF Checks!OnInterfaces, Checks!Spinning
  <2>2. Head(answers) \in BOOLEAN /\ answers' \in Seq(BOOLEAN) /\ Len(answers') = Len(answers) - 1
      BY <2>1, HeadTailProperties
  <2>3. "hardware_interfaces" \in Checks!CheckNames
      BY DEF Checks!CheckNames
  <2>4. checks' \in [Checks!CheckNames -> BOOLEAN] /\ missing' \in BOOLEAN
      BY <2>1, <2>2, <2>3
  <2>5. alerts' = Checks!AlertsOf(checks') /\ alerts' \subseteq Checks!CheckNames
    <3>1. alerts = Checks!AlertsOf(checks) /\ checks \in [Checks!CheckNames -> BOOLEAN]
        OBVIOUS
    <3>2. CASE Head(answers) = TRUE
        BY <2>1, <2>3, <3>1, <3>2 DEF Checks!AlertsOf
    <3>3. CASE Head(answers) = FALSE
        BY <2>1, <2>3, <3>1, <3>3 DEF Checks!AlertsOf
    <3> QED
        BY <2>2, <3>2, <3>3
  <2>6. calls' \in Nat /\ calls' + Len(answers') <= MaxCalls
    <3>1. Len(answers) \in Nat /\ MaxCalls \in Nat /\ calls \in Nat
          /\ calls + Len(answers) <= MaxCalls
        BY LenProperties
    <3>2. calls' = calls /\ Len(answers') = Len(answers) - 1
        BY <2>1, <2>2
    <3> QED
        BY ONLY <3>1, <3>2
  <2>7. TimerSees'
      BY <2>1
  <2> QED
      BY <2>1, <2>2, <2>4, <2>5, <2>6, <2>7
<1>8. ASSUME NEW t \in Checks!Threads, Checks!Run(t) PROVE ChecksInv'
  <2>1. CASE Checks!Gather(t)
      BY <2>1 DEF Checks!Gather, SeenType
  <2>2. CASE Checks!TakeHealth(t)
      BY <2>2 DEF Checks!TakeHealth, Checks!Health, SeenType
  <2>3. CASE Checks!TakeRows(t)
      BY <2>3 DEF Checks!TakeRows, SeenType
  <2>4. CASE Checks!TakeMissing(t)
      BY <2>4 DEF Checks!TakeMissing, SeenType
  <2>5. CASE Checks!Store(t)
    <3>1. seen[t] \in SeenType
        OBVIOUS
    <3>2. /\ checks' = Checks!ChecksOf(seen[t]) /\ alerts' = Checks!AlertsOf(checks')
          /\ pc[t] = "store" /\ pc' = [pc EXCEPT ![t] = "ask"]
          /\ UNCHANGED <<graph, available, changes, wrench, array, missing, calls, answers, seen>>
        BY <2>5 DEF Checks!Store
    <3>3. checks' \in [Checks!CheckNames -> BOOLEAN] /\ alerts' \subseteq Checks!CheckNames
        BY <3>1, <3>2, ChecksOfTyped
    <3> QED
        BY <3>2, <3>3
  <2>6. CASE Checks!Ask(t)
    <3>1. seen' \in [Checks!Threads -> SeenType]
          /\ pc' \in [Checks!Threads -> {"idle", "health", "rows", "missing", "store", "ask"}]
        BY <2>6 DEF Checks!Ask
    <3>2. calls' \in Nat /\ calls' + Len(answers) <= MaxCalls
        BY <2>6 DEF Checks!Ask
    <3>3. TimerSees' /\ \A q \in Checks!Threads : pc'[q] = "idle" => seen'[q] = Checks!NothingSeen
        BY <2>6 DEF Checks!Ask
    <3> QED
        BY <2>6, <3>1, <3>2, <3>3 DEF Checks!Ask
  <2> QED
      BY <1>8, <2>1, <2>2, <2>3, <2>4, <2>5, <2>6 DEF Checks!Run
<1>9. CASE UNCHANGED Checks!vars
    BY <1>9 DEF Checks!vars
<1> QED
    BY <1>1, <1>2, <1>3, <1>4, <1>5, <1>6, <1>7, <1>8, <1>9 DEF Checks!Next

\* The invariant of the checks.
THEOREM ChecksInvariant == Checks!Spec => []ChecksInv
BY ChecksInit, ChecksKept, PTL DEF Checks!Spec

\* _checks and _alerts say the same, whichever of the two threads, and of the answers
\* about the interfaces, wrote them last.
THEOREM AlertsAgree == Checks!Spec => []Checks!AlertsMatchChecks
<1>1. ChecksInv => Checks!AlertsMatchChecks
    BY DEF ChecksInv, ChecksTyped, Checks!AlertsMatchChecks
<1> QED
    BY <1>1, ChecksInvariant, PTL

\* What the timer's run stores is current, as it holds the only thread that could
\* have changed it since it was taken.
LEMMA StoredIsCurrent ==
    ASSUME ChecksInv, Checks!Store("spin"),
           NEW c \in Checks!CheckNames
                \ (Checks!GraphChecks \cup {"wrench_updating", "wrench_values_valid"})
    PROVE  checks'[c] = Checks!ChecksOf(Checks!Current)[c]
<1>1. checks' = Checks!ChecksOf(seen["spin"]) /\ pc["spin"] = "store"
    BY DEF Checks!Store
<1>2. /\ seen["spin"].online = Checks!Current.online
      /\ seen["spin"].good = Checks!Current.good
      /\ seen["spin"].missing = Checks!Current.missing
    BY <1>1 DEF ChecksInv, TimerSees, Checks!Current, Checks!Health
<1>3. CASE c \in Checks!RowNames
  <2>1. Checks!ChecksOf(seen["spin"])[c] = (c \in seen["spin"].good)
      BY <1>3, CheckSays
  <2>2. Checks!ChecksOf(Checks!Current)[c] = (c \in Checks!Current.good)
      BY <1>3, CheckSays
  <2> QED
      BY <1>1, <1>2, <2>1, <2>2
<1>4. CASE c = "hardware_interfaces"
  <2>1. Checks!ChecksOf(seen["spin"])[c] = ~seen["spin"].missing
      BY <1>4, CheckSays
  <2>2. Checks!ChecksOf(Checks!Current)[c] = ~Checks!Current.missing
      BY <1>4, CheckSays
  <2> QED
      BY <1>1, <1>2, <2>1, <2>2
<1>5. CASE c = "ethercat_health"
  <2>1. Checks!ChecksOf(seen["spin"])[c] = seen["spin"].online
      BY <1>5, CheckSays
  <2>2. Checks!ChecksOf(Checks!Current)[c] = Checks!Current.online
      BY <1>5, CheckSays
  <2> QED
      BY <1>1, <1>2, <2>1, <2>2
<1> QED
    BY <1>3, <1>4, <1>5 DEF Checks!CheckNames

\* The checks that the timer stores of the EtherCAT health, the rows and the
\* interfaces are those of what the node has at that moment.
THEOREM TimerStoresCurrent == Checks!Spec => Checks!TimerChecksCurrent
<1>1. ChecksInv => [Checks!Store("spin") =>
          \A c \in Checks!CheckNames
                 \ (Checks!GraphChecks \cup {"wrench_updating", "wrench_values_valid"}) :
              checks'[c] = Checks!ChecksOf(Checks!Current)[c]]_(Checks!vars)
    BY StoredIsCurrent
<1> QED
    BY <1>1, ChecksInvariant, PTL DEF Checks!TimerChecksCurrent

----------------------------------------------------------------------------
(* The pages. *)

Held == {t \in Page!Threads : hold[t] # Page!Nothing}

\* A payload is of a state that the node has had, here in the versions v and r.
OfState(v, r, p) == p.wrench <= v /\ (p.type = "full" => p.rest <= r)

NotNewer(p, q) ==
    p.type = "full" /\ q.type = "full" /\ p.by = q.by =>
        p.rest <= q.rest /\ p.wrench <= q.wrench

\* What the pages show is no newer than a payload on its way that the thread of the one
\* they show has made.
ShownNotNewer(shown, p) ==
    \A g \in Pages : p.type = "full" /\ p.by = shown[g].by => shown[g].rest <= p.rest

Sound(v, r, shown, p) == OfState(v, r, p) /\ ShownNotNewer(shown, p)

Shown(v, r) == [wrench : 0 .. v, rest : 0 .. r, by : Page!Threads \cup {"first"}]
Suspended == [payload : Page!Payloads, left : SUBSET Pages]

PageTyped == Page!TypeOK /\ Len(queue) + Cardinality(Held) <= MaxQueue

QueueSound ==
    \A i \in 1 .. Len(queue) :
        /\ Sound(version, rest, page, queue[i])
        /\ \A j \in i .. Len(queue) : NotNewer(queue[i], queue[j])

HoldSound ==
    \A t \in Held :
        /\ hold[t].by = t /\ Sound(version, rest, page, hold[t])
        /\ \A i \in 1 .. Len(queue) : NotNewer(queue[i], hold[t])

\* What is sent late was handed in before what is in the queue: the pages may show
\* newer, but nothing of the same thread on its way is older.
SendingSound ==
    \A b \in Tasks : sending[b] # Page!Nothing =>
        /\ OfState(version, rest, sending[b].payload)
        /\ \A i \in 1 .. Len(queue) : NotNewer(sending[b].payload, queue[i])
        /\ \A t \in Held : NotNewer(sending[b].payload, hold[t])

PageInv == PageTyped /\ QueueSound /\ HoldSound /\ SendingSound

\* A payload has numbers in it, and is not the absence of one.
LEMMA PayloadTyped ==
    ASSUME NEW p \in Page!Payloads
    PROVE  /\ p # Page!Nothing /\ p.wrench \in Nat /\ p.by \in Page!Threads
           /\ p.finite \in BOOLEAN /\ p.type \in {"full", "wrench"}
           /\ p.type = "full" => p.rest \in Nat
BY DEF Page!Payloads, Page!Nothing

\* A suspended broadcast is not the absence of one.
LEMMA SuspendedTyped ==
    ASSUME NEW d \in Suspended
    PROVE  d # Page!Nothing /\ d.payload \in Page!Payloads /\ d.left \in SUBSET Pages
BY DEF Suspended, Page!Nothing

\* The bounds of the page's model.
LEMMA PageBounds ==
    MaxWrench \in Nat /\ MaxRest \in Nat /\ MaxQueue \in Nat \ {0} /\ MaxLost \in Nat
BY PartsAssumption DEF PartsAssumption, Page!PageAssumption

\* What the invariant says of the types.
LEMMA PageTypes ==
    ASSUME PageInv
    PROVE  /\ version \in 0 .. MaxWrench /\ rest \in 0 .. MaxRest
           /\ finite \in BOOLEAN /\ lost \in 0 .. MaxLost
           /\ hold \in [Page!Threads -> Page!Payloads \cup {Page!Nothing}]
           /\ queue \in Seq(Page!Payloads)
           /\ sending \in [Tasks -> Suspended \cup {Page!Nothing}]
           /\ socket \in [Pages -> {"closed", "added", "open"}]
           /\ page \in [Pages -> Shown(version, rest)]
BY DEF PageInv, PageTyped, Page!TypeOK, Suspended, Shown

\* The module of the page counts with the same operator.
LEMMA SameCardinality == \A S : Page!Cardinality(S) = Cardinality(S)
BY DEF Page!Cardinality, Cardinality

\* How many payloads are held.
LEMMA HeldCount ==
    ASSUME NEW S \in SUBSET Page!Threads
    PROVE  /\ IsFiniteSet(S) /\ Cardinality(S) \in Nat
           /\ \A t \in Page!Threads \ S : Cardinality(S \cup {t}) = Cardinality(S) + 1
           /\ \A t \in S : Cardinality(S \ {t}) = Cardinality(S) - 1
<1>1. IsFiniteSet(Page!Threads)
  <2>1. IsFiniteSet({"spin"} \cup {"loop"})
      BY FS_Singleton, FS_AddElement
  <2>2. Page!Threads = {"spin"} \cup {"loop"}
      BY DEF Page!Threads
  <2> QED
      BY <2>1, <2>2
<1>2. IsFiniteSet(S)
    BY <1>1, FS_Subset
<1> QED
    BY <1>2, FS_AddElement, FS_RemoveElement, FS_CardinalityType

\* A payload stays sound when the state goes on.
LEMMA SoundLater ==
    ASSUME NEW v \in Nat, NEW r \in Nat, NEW w \in Nat, NEW s \in Nat, v <= w, r <= s,
           NEW shown, NEW p \in Page!Payloads
    PROVE  /\ OfState(v, r, p) => OfState(w, s, p)
           /\ Sound(v, r, shown, p) => Sound(w, s, shown, p)
BY PayloadTyped DEF Sound, OfState

\* What the pages show stays a state that the node has had.
LEMMA ShownLater ==
    ASSUME NEW v \in Nat, NEW r \in Nat, NEW w \in Nat, NEW s \in Nat, v <= w, r <= s,
           NEW shown \in [Pages -> Shown(v, r)]
    PROVE  shown \in [Pages -> Shown(w, s)]
<1>1. 0 .. v \subseteq 0 .. w /\ 0 .. r \subseteq 0 .. s
    OBVIOUS
<1>2. Shown(v, r) \subseteq Shown(w, s)
    BY <1>1 DEF Shown
<1> QED
    BY <1>2

\* What a page shows after a payload was written to some: what it showed, or the rest
\* of a full payload that was written to it.
LEMMA SendShows ==
    ASSUME NEW v \in Nat, NEW r \in Nat, page \in [Pages -> Shown(v, r)],
           NEW p, p.wrench \in 0 .. v, p.type \in {"full", "wrench"}, p.finite \in BOOLEAN,
           p.type = "full" => p.rest \in 0 .. r /\ p.by \in Page!Threads \cup {"first"},
           NEW to, Page!Send(p, to)
    PROVE  /\ page' \in [Pages -> Shown(v, r)]
           /\ \A g \in Pages :
                \/ page'[g].rest = page[g].rest /\ page'[g].by = page[g].by
                \/ /\ g \in to /\ p.type = "full"
                   /\ page'[g].rest = p.rest /\ page'[g].by = p.by
<1>1. ASSUME NEW g \in Pages
      PROVE  /\ Page!Show(g, p) \in Shown(v, r)
             /\ \/ Page!Show(g, p).rest = page[g].rest /\ Page!Show(g, p).by = page[g].by
                \/ /\ p.type = "full"
                   /\ Page!Show(g, p).rest = p.rest /\ Page!Show(g, p).by = p.by
  <2>1. page[g] \in Shown(v, r)
      OBVIOUS
  <2>2. CASE ~p.finite
      BY <2>1, <2>2 DEF Page!Show
  <2>3. CASE p.finite /\ p.type = "full"
    <3>1. Page!Show(g, p) = [wrench |-> p.wrench, rest |-> p.rest, by |-> p.by]
        BY <2>3 DEF Page!Show
    <3> QED
        BY <2>3, <3>1 DEF Shown
  <2>4. CASE p.finite /\ p.type = "wrench"
    <3>1. Page!Show(g, p) = [page[g] EXCEPT !.wrench = p.wrench]
        BY <2>4 DEF Page!Show
    <3> QED
        BY <2>1, <3>1 DEF Shown
  <2> QED
      BY <2>2, <2>3, <2>4
<1>2. page' = [g \in Pages |-> IF g \in to THEN Page!Show(g, p) ELSE page[g]]
    BY DEF Page!Send
<1> QED
    BY <1>1, <1>2

\* What is not older than a payload that is written is not older than what is shown.
LEMMA SendKeepsSound ==
    ASSUME NEW v \in Nat, NEW r \in Nat,
           NEW p, p.type = "full" => p.rest \in Nat,
           \A g \in Pages :
                \/ page'[g].rest = page[g].rest /\ page'[g].by = page[g].by
                \/ p.type = "full" /\ page'[g].rest = p.rest /\ page'[g].by = p.by,
           NEW q \in Page!Payloads, Sound(v, r, page, q), NotNewer(p, q)
    PROVE  Sound(v, r, page', q)
BY PayloadTyped DEF Sound, ShownNotNewer, NotNewer

\* Nothing is on its way at first.
LEMMA PageInit == Page!Init => PageInv
<1> SUFFICES ASSUME Page!Init PROVE PageInv
    OBVIOUS
<1>1. Held = {} /\ queue = <<>>
    BY DEF Page!Init, Held
<1>2. Cardinality(Held) = 0
    BY <1>1, FS_EmptySet
<1>3. PageTyped
    BY <1>1, <1>2, PageBounds DEF PageTyped, Page!TypeOK, Page!Init, Page!Threads
<1>4. QueueSound /\ HoldSound /\ SendingSound
    BY <1>1 DEF QueueSound, HoldSound, SendingSound, Page!Init
<1> QED
    BY <1>3, <1>4 DEF PageInv

\* A thread that is free makes a payload of the state as it is: of a wrench alone, or
\* of everything.  Both lie in front of nothing of the same thread.
LEMMA MakingKeeps ==
    ASSUME PageInv, NEW t \in Page!Threads, Page!Free(t), NEW p \in Page!Payloads,
           hold' = [hold EXCEPT ![t] = p], p.by = t,
           p.wrench = version', p.type = "full" => p.rest = rest',
           version' \in version .. MaxWrench, rest' \in rest .. MaxRest,
           finite' \in BOOLEAN, UNCHANGED <<queue, sending, socket, page, lost>>
    PROVE  PageInv'
<1> USE PageBounds, PageTypes
<1>1. Held' = Held \cup {t} /\ t \notin Held /\ Held \subseteq Page!Threads
    BY PayloadTyped DEF Held, Page!Free
<1>2. Cardinality(Held') = Cardinality(Held) + 1 /\ Cardinality(Held) \in Nat
    BY <1>1, HeldCount
<1>3. Len(queue) + Cardinality(Held) < MaxQueue
    BY SameCardinality DEF Page!Free, Page!Room, Held
<1>4. version \in Nat /\ rest \in Nat /\ version' \in Nat /\ rest' \in Nat
      /\ version <= version' /\ rest <= rest'
    OBVIOUS
<1>5. PageTyped'
  <2>1. Len(queue') + Cardinality(Held') <= MaxQueue
      BY <1>2, <1>3, LenProperties
  <2>2. hold' \in [Page!Threads -> Page!Payloads \cup {Page!Nothing}]
      OBVIOUS
  <2>3. page' \in [Pages -> Shown(version', rest')]
    <3>1. page \in [Pages -> Shown(version, rest)] /\ page' = page
        OBVIOUS
    <3>2. page \in [Pages -> Shown(version', rest')]
        BY ONLY <1>4, <3>1, ShownLater
    <3> QED
        BY <3>1, <3>2
  <2> QED
      BY <2>1, <2>2, <2>3 DEF PageInv, PageTyped, Page!TypeOK, Shown
<1>6. ASSUME NEW q \in Page!Payloads, OfState(version, rest, q)
      PROVE  OfState(version', rest', q) /\ NotNewer(q, p)
    BY <1>4, <1>6, PayloadTyped DEF OfState, NotNewer
<1>7. Sound(version', rest', page', p)
  <2>1. ASSUME NEW g \in Pages PROVE page[g].rest \in Nat /\ page[g].rest <= rest'
      BY <1>4 DEF Shown
  <2> QED
      BY <1>4, <2>1, PayloadTyped DEF Sound, OfState, ShownNotNewer
<1>8. ASSUME NEW q \in Page!Payloads, Sound(version, rest, page, q)
      PROVE  Sound(version', rest', page', q) /\ NotNewer(q, p)
    BY <1>4, <1>6, <1>8, SoundLater DEF Sound
<1>9. ASSUME NEW i \in 1 .. Len(queue)
      PROVE  /\ queue[i] \in Page!Payloads
             /\ Sound(version', rest', page', queue[i]) /\ NotNewer(queue[i], p)
    BY <1>8, ElementOfSeq DEF PageInv, QueueSound
<1>10. QueueSound'
    BY <1>9 DEF PageInv, QueueSound
<1>11. HoldSound'
  <2>1. ASSUME NEW q \in Held', q # t
        PROVE  q \in Held /\ hold'[q] = hold[q] /\ hold[q] \in Page!Payloads
      BY <1>1, <2>1 DEF Held
  <2>2. hold'[t] = p
      OBVIOUS
  <2> QED
      BY <1>7, <1>8, <1>9, <2>1, <2>2 DEF PageInv, HoldSound
<1>12. SendingSound'
  <2>1. ASSUME NEW b \in Tasks, sending[b] # Page!Nothing
        PROVE  /\ OfState(version', rest', sending[b].payload)
               /\ NotNewer(sending[b].payload, p)
               /\ \A i \in 1 .. Len(queue) : NotNewer(sending[b].payload, queue[i])
               /\ \A q \in Held : NotNewer(sending[b].payload, hold[q])
      BY <1>6, <2>1, SuspendedTyped DEF PageInv, SendingSound
  <2>2. \A q \in Held' : hold'[q] = p \/ (q \in Held /\ hold'[q] = hold[q])
      BY <1>1 DEF Held
  <2> QED
      BY <2>1, <2>2 DEF SendingSound
<1> QED
    BY <1>5, <1>10, <1>11, <1>12 DEF PageInv

\* A payload that is handed in comes behind those of its thread that are older.
LEMMA HandInKeeps ==
    ASSUME PageInv, NEW t \in Page!Threads, Page!HandIn(t)
    PROVE  PageInv'
<1> USE PageBounds, PageTypes
<1> DEFINE p == hold[t]
<1>1. /\ p \in Page!Payloads /\ t \in Held /\ Held \subseteq Page!Threads
      /\ queue' = Append(queue, p) /\ hold' = [hold EXCEPT ![t] = Page!Nothing]
      /\ UNCHANGED <<version, finite, rest, sending, socket, page, lost>>
    BY DEF Page!HandIn, Held
<1>2. Held' = Held \ {t}
    BY <1>1 DEF Held
<1>3. Cardinality(Held') = Cardinality(Held) - 1 /\ Cardinality(Held) \in Nat
      /\ Cardinality(Held') \in Nat
    BY <1>1, <1>2, HeldCount
<1>4. /\ queue' \in Seq(Page!Payloads) /\ Len(queue') = Len(queue) + 1 /\ Len(queue) \in Nat
      /\ \A i \in 1 .. Len(queue) : queue'[i] = queue[i] /\ queue[i] \in Page!Payloads
      /\ queue'[Len(queue')] = p
    BY <1>1, AppendProperties, ElementOfSeq, LenProperties
<1>5. PageTyped'
  <2>1. Len(queue') + Cardinality(Held') <= MaxQueue /\ Len(queue') <= MaxQueue
      BY <1>3, <1>4 DEF PageInv, PageTyped
  <2>2. hold' \in [Page!Threads -> Page!Payloads \cup {Page!Nothing}]
      BY <1>1
  <2> QED
      BY <1>1, <1>4, <2>1, <2>2 DEF PageInv, PageTyped, Page!TypeOK
<1>6. /\ p.by = t /\ Sound(version, rest, page, p)
      /\ \A i \in 1 .. Len(queue) : NotNewer(queue[i], p)
    BY <1>1 DEF PageInv, HoldSound
<1>7. QueueSound'
  <2>1. ASSUME NEW i \in 1 .. Len(queue') PROVE Sound(version', rest', page', queue'[i])
      BY <1>1, <1>4, <1>6, <2>1 DEF PageInv, QueueSound
  <2>2. ASSUME NEW i \in 1 .. Len(queue'), NEW j \in i .. Len(queue')
        PROVE  NotNewer(queue'[i], queue'[j])
    <3>1. CASE j \in 1 .. Len(queue)
      <4>1. i \in 1 .. Len(queue) /\ j \in i .. Len(queue)
          BY <1>4, <3>1
      <4>2. NotNewer(queue[i], queue[j])
          BY <4>1 DEF PageInv, QueueSound
      <4> QED
          BY <1>4, <3>1, <4>1, <4>2
    <3>2. CASE j = Len(queue') /\ i \in 1 .. Len(queue)
        BY <1>4, <1>6, <3>2
    <3>3. CASE i = Len(queue') /\ j = Len(queue')
        BY <1>1, <1>4, <3>3, PayloadTyped DEF NotNewer
    <3> QED
        BY <1>4, <3>1, <3>2, <3>3
  <2> QED
      BY <2>1, <2>2 DEF QueueSound
<1>8. \A q \in Held' : q \in Held /\ q # t /\ hold'[q] = hold[q]
    BY <1>1, <1>2 DEF Held
<1>9. HoldSound'
  <2>1. ASSUME NEW q \in Held', NEW i \in 1 .. Len(queue')
        PROVE  NotNewer(queue'[i], hold'[q])
    <3>1. CASE i \in 1 .. Len(queue)
        BY <1>4, <1>8, <3>1 DEF PageInv, HoldSound
    <3>2. CASE i = Len(queue')
        BY <1>4, <1>6, <1>8, <3>2 DEF PageInv, HoldSound, NotNewer
    <3> QED
        BY <1>4, <3>1, <3>2
  <2> QED
      BY <1>1, <1>8, <2>1 DEF PageInv, HoldSound
<1>10. SendingSound'
  <2>1. ASSUME NEW b \in Tasks, sending[b] # Page!Nothing
        PROVE  /\ OfState(version, rest, sending[b].payload)
               /\ NotNewer(sending[b].payload, p)
               /\ \A i \in 1 .. Len(queue) : NotNewer(sending[b].payload, queue[i])
               /\ \A q \in Held : NotNewer(sending[b].payload, hold[q])
      BY <1>1, <2>1 DEF PageInv, SendingSound
  <2>2. ASSUME NEW i \in 1 .. Len(queue')
        PROVE  queue'[i] = p \/ (i \in 1 .. Len(queue) /\ queue'[i] = queue[i])
    <3>1. i \in 1 .. Len(queue) \/ i = Len(queue')
        BY <1>4
    <3> QED
        BY <1>4, <3>1
  <2> QED
      BY <1>1, <1>8, <2>1, <2>2 DEF SendingSound
<1> QED
    BY <1>5, <1>7, <1>9, <1>10 DEF PageInv

\* A broadcast sends the payload at the head of the queue, which those behind it of the
\* same thread are not older than, and keeps it where it is suspended.
LEMMA BroadcastKeeps ==
    ASSUME PageInv, Page!Broadcast
    PROVE  PageInv' /\ \A g \in Pages : page'[g].rest >= page[g].rest \/ page'[g].by # page[g].by
<1> USE PageBounds, PageTypes
<1> DEFINE p == Head(queue)
<1>1. /\ queue # <<>> /\ queue' = Tail(queue)
      /\ UNCHANGED <<version, finite, rest, hold, socket, lost>>
    BY DEF Page!Broadcast
<1>2. PICK to \in SUBSET Page!Connected :
        /\ Page!Send(p, to)
        /\ \/ sending' = sending
           \/ /\ to # Page!Connected
              /\ \E b \in Tasks :
                    sending' = [sending EXCEPT ![b] = Page!Unsent(p, Page!Connected \ to)]
    BY DEF Page!Broadcast
<1>3. /\ p \in Page!Payloads /\ p = queue[1] /\ 1 \in 1 .. Len(queue)
      /\ queue' \in Seq(Page!Payloads) /\ Len(queue') = Len(queue) - 1 /\ Len(queue) \in Nat
      /\ \A i \in 1 .. Len(queue') :
            queue'[i] = queue[i + 1] /\ i + 1 \in 1 .. Len(queue) /\ queue[i + 1] \in Page!Payloads
    BY <1>1, HeadTailProperties, LenProperties, ElementOfSeq, EmptySeq
<1>4. /\ Sound(version, rest, page, p)
      /\ \A j \in 1 .. Len(queue) : NotNewer(p, queue[j])
      /\ \A t \in Held : NotNewer(p, hold[t])
    BY <1>3 DEF PageInv, QueueSound, HoldSound
<1>5. Held' = Held /\ Held \subseteq Page!Threads /\ Cardinality(Held) \in Nat
      /\ \A t \in Held : hold'[t] = hold[t] /\ hold[t] \in Page!Payloads
    BY <1>1, HeldCount DEF Held
<1>6. version \in Nat /\ rest \in Nat
    OBVIOUS
<1>7. /\ p.wrench \in 0 .. version /\ p.type \in {"full", "wrench"} /\ p.finite \in BOOLEAN
      /\ p.type = "full" => p.rest \in 0 .. rest /\ p.by \in Page!Threads \cup {"first"}
    BY <1>3, <1>4, <1>6, PayloadTyped DEF Sound, OfState
<1> HIDE DEF p
<1>8. /\ page' \in [Pages -> Shown(version, rest)]
      /\ \A g \in Pages :
            \/ page'[g].rest = page[g].rest /\ page'[g].by = page[g].by
            \/ p.type = "full" /\ page'[g].rest = p.rest /\ page'[g].by = p.by
    BY <1>2, <1>6, <1>7, SendShows
<1>9. \A b \in Tasks : sending'[b] = sending[b]
                       \/ (sending'[b] \in Suspended /\ sending'[b].payload = p)
  <2>1. CASE sending' = sending
      BY <2>1
  <2>2. ASSUME to # Page!Connected, NEW b \in Tasks,
               sending' = [sending EXCEPT ![b] = Page!Unsent(p, Page!Connected \ to)]
        PROVE  \A c \in Tasks : sending'[c] = sending[c]
                       \/ (sending'[c] \in Suspended /\ sending'[c].payload = p)
    <3> DEFINE u == Page!Unsent(p, Page!Connected \ to)
    <3>1. u = [payload |-> p, left |-> Page!Connected \ to]
        BY <1>2, <2>2 DEF Page!Unsent
    <3>2. Page!Connected \ to \in SUBSET Pages
        BY DEF Page!Connected
    <3>3. sending' = [sending EXCEPT ![b] = u] /\ p \in Page!Payloads
        BY <1>3, <2>2
    <3> HIDE DEF u, p
    <3>4. u \in Suspended /\ u.payload = p
        BY <3>1, <3>2, <3>3 DEF Suspended
    <3> QED
        BY <3>3, <3>4
  <2> QED
      BY <1>2, <2>1, <2>2
<1>10. sending' \in [Tasks -> Suspended \cup {Page!Nothing}]
  <2>1. \E f : sending' = [c \in Tasks |-> f[c]]
    <3>1. sending' = [c \in Tasks |-> sending'[c]]
        BY <1>2
    <3> QED
        BY <3>1
  <2> QED
      BY <1>9, <2>1
<1>11. PageTyped'
  <2>1. Len(queue') + Cardinality(Held') <= MaxQueue /\ Len(queue') <= MaxQueue
      BY <1>3, <1>5 DEF PageInv, PageTyped
  <2> QED
      BY <1>1, <1>3, <1>8, <1>10, <2>1 DEF PageInv, PageTyped, Page!TypeOK, Shown, Suspended
<1>12. ASSUME NEW q \in Page!Payloads, Sound(version, rest, page, q), NotNewer(p, q)
       PROVE  Sound(version', rest', page', q)
    BY <1>1, <1>6, <1>7, <1>8, <1>12, SendKeepsSound
<1>13. QueueSound'
  <2>1. ASSUME NEW i \in 1 .. Len(queue') PROVE Sound(version', rest', page', queue'[i])
      BY <1>3, <1>4, <1>12 DEF PageInv, QueueSound
  <2>2. ASSUME NEW i \in 1 .. Len(queue'), NEW j \in i .. Len(queue')
        PROVE  NotNewer(queue'[i], queue'[j])
    <3>1. i + 1 \in 1 .. Len(queue) /\ j + 1 \in i + 1 .. Len(queue) /\ j \in 1 .. Len(queue')
        BY <1>3
    <3> QED
        BY <1>3, <3>1 DEF PageInv, QueueSound
  <2> QED
      BY <2>1, <2>2 DEF QueueSound
<1>14. HoldSound'
  <2>1. ASSUME NEW t \in Held PROVE Sound(version', rest', page', hold[t])
      BY <1>4, <1>5, <1>12 DEF PageInv, HoldSound
  <2> QED
      BY <1>3, <1>5, <2>1 DEF PageInv, HoldSound
<1>15. SendingSound'
  <2>1. ASSUME NEW b \in Tasks, sending'[b] # Page!Nothing
        PROVE  /\ OfState(version, rest, sending'[b].payload)
               /\ \A i \in 1 .. Len(queue) : NotNewer(sending'[b].payload, queue[i])
               /\ \A t \in Held : NotNewer(sending'[b].payload, hold[t])
    <3>1. CASE sending'[b] = sending[b]
        BY <2>1, <3>1 DEF PageInv, SendingSound
    <3>2. CASE sending'[b].payload = p
        BY <1>4, <3>2 DEF Sound
    <3> QED
        BY <1>9, <3>1, <3>2
  <2> QED
      BY <1>1, <1>3, <1>5, <2>1 DEF SendingSound
<1>16. ASSUME NEW g \in Pages PROVE page'[g].rest >= page[g].rest \/ page'[g].by # page[g].by
  <2>1. page[g].rest \in Nat
      BY DEF Shown
  <2> QED
      BY <1>4, <1>7, <1>8, <2>1 DEF Sound, ShownNotNewer
<1> QED
    BY <1>11, <1>13, <1>14, <1>15, <1>16 DEF PageInv

\* The payloads that wait, in the queue or with the thread that has made them.
Waiting(p) == (\E i \in 1 .. Len(queue) : p = queue[i]) \/ (\E t \in Held : p = hold[t])

\* A step that leaves those alone: no page comes to show newer than they are of the
\* same thread, and no broadcast is begun.
LEMMA WaitingKeeps ==
    ASSUME PageInv, UNCHANGED <<hold, queue>>,
           version' \in version .. MaxWrench, rest' \in rest .. MaxRest,
           finite' \in BOOLEAN, lost' \in 0 .. MaxLost,
           socket' \in [Pages -> {"closed", "added", "open"}],
           page' \in [Pages -> Shown(version', rest')],
           sending' \in [Tasks -> Suspended \cup {Page!Nothing}],
           \A b \in Tasks : sending'[b] # Page!Nothing =>
                sending[b] # Page!Nothing /\ sending'[b].payload = sending[b].payload,
           \A q \in Page!Payloads : Waiting(q) /\ Sound(version, rest, page, q) =>
                Sound(version', rest', page', q)
    PROVE  PageInv'
<1> USE PageBounds, PageTypes
<1>1. Held' = Held /\ Held \subseteq Page!Threads
      /\ \A t \in Held : hold'[t] = hold[t] /\ hold[t] \in Page!Payloads
    BY DEF Held
<1>2. version \in Nat /\ rest \in Nat /\ version' \in Nat /\ rest' \in Nat
      /\ version <= version' /\ rest <= rest'
    OBVIOUS
<1>3. PageTyped'
    BY <1>1 DEF PageInv, PageTyped, Page!TypeOK, Shown, Suspended
<1>4. \A i \in 1 .. Len(queue) : queue[i] \in Page!Payloads /\ Waiting(queue[i])
    BY ElementOfSeq DEF Waiting
<1>5. \A t \in Held : Waiting(hold[t])
    BY DEF Waiting
<1>6. QueueSound'
  <2>1. ASSUME NEW i \in 1 .. Len(queue) PROVE Sound(version', rest', page', queue[i])
      BY <1>4 DEF PageInv, QueueSound
  <2> QED
      BY <2>1 DEF PageInv, QueueSound
<1>7. HoldSound'
  <2>1. ASSUME NEW t \in Held PROVE Sound(version', rest', page', hold[t])
      BY <1>1, <1>5 DEF PageInv, HoldSound
  <2> QED
      BY <1>1, <2>1 DEF PageInv, HoldSound
<1>8. SendingSound'
  <2>1. ASSUME NEW b \in Tasks, sending'[b] # Page!Nothing
        PROVE  /\ OfState(version', rest', sending'[b].payload)
               /\ \A i \in 1 .. Len(queue) : NotNewer(sending'[b].payload, queue[i])
               /\ \A t \in Held : NotNewer(sending'[b].payload, hold[t])
    <3>1. /\ sending[b] \in Suspended /\ sending'[b].payload = sending[b].payload
          /\ sending[b] # Page!Nothing
        BY <2>1
    <3>2. OfState(version, rest, sending[b].payload)
        BY <3>1 DEF PageInv, SendingSound
    <3>3. OfState(version', rest', sending[b].payload)
        BY <1>2, <3>1, <3>2, SuspendedTyped, SoundLater
    <3> QED
        BY <3>1, <3>3 DEF PageInv, SendingSound
  <2> QED
      BY <1>1, <2>1 DEF SendingSound
<1> QED
    BY <1>3, <1>6, <1>7, <1>8 DEF PageInv

\* Steps of the state and the connections that write to no page: what is on its way is
\* of the state still.
LEMMA OtherKeeps ==
    ASSUME PageInv, UNCHANGED <<hold, queue, page>>,
           version' \in version .. MaxWrench, rest' \in rest .. MaxRest,
           finite' \in BOOLEAN, lost' \in 0 .. MaxLost,
           socket' \in [Pages -> {"closed", "added", "open"}],
           sending' = sending \/ \E g \in Pages : sending' = Page!Without(g)
    PROVE  PageInv'
<1> USE PageBounds, PageTypes
<1>1. version \in Nat /\ rest \in Nat /\ version' \in Nat /\ rest' \in Nat
      /\ version <= version' /\ rest <= rest'
    OBVIOUS
<1>2. page' \in [Pages -> Shown(version', rest')]
    BY <1>1, ShownLater
<1>3. \A q \in Page!Payloads : Sound(version, rest, page, q) => Sound(version', rest', page', q)
    BY <1>1, SoundLater
<1>4. /\ sending' \in [Tasks -> Suspended \cup {Page!Nothing}]
      /\ \A b \in Tasks : sending'[b] # Page!Nothing =>
            sending[b] # Page!Nothing /\ sending'[b].payload = sending[b].payload
  <2>1. CASE sending' = sending
      BY <2>1
  <2>2. ASSUME NEW g \in Pages, sending' = Page!Without(g)
        PROVE  /\ sending' \in [Tasks -> Suspended \cup {Page!Nothing}]
               /\ \A b \in Tasks : sending'[b] # Page!Nothing =>
                    sending[b] # Page!Nothing /\ sending'[b].payload = sending[b].payload
    <3>1. sending' = [b \in Tasks |-> IF sending[b] = Page!Nothing THEN Page!Nothing
                        ELSE Page!Unsent(sending[b].payload, sending[b].left \ {g})]
        BY <2>2 DEF Page!Without
    <3>2. ASSUME NEW b \in Tasks, sending[b] # Page!Nothing
          PROVE  LET u == Page!Unsent(sending[b].payload, sending[b].left \ {g})
                 IN  u = Page!Nothing \/ (u \in Suspended /\ u.payload = sending[b].payload)
        BY <3>2 DEF Suspended, Page!Unsent
    <3> QED
        BY <3>1, <3>2
  <2> QED
      BY <2>1, <2>2
<1> QED
    BY <1>2, <1>3, <1>4, WaitingKeeps

\* A broadcast that goes on sends what is older than all that waits of its thread.
LEMMA ResumeKeeps ==
    ASSUME PageInv, NEW b \in Tasks, Page!Resume(b)
    PROVE  /\ PageInv'
           /\ \A g \in Pages : g \in sending[b].left
                               \/ (page'[g].rest = page[g].rest /\ page'[g].by = page[g].by)
<1> USE PageBounds, PageTypes
<1> DEFINE p == sending[b].payload
           left == sending[b].left
<1>1. /\ sending[b] # Page!Nothing /\ sending[b] \in Suspended
      /\ UNCHANGED <<version, finite, rest, hold, queue, socket, lost>>
    BY DEF Page!Resume
<1>2. PICK to \in SUBSET left :
        Page!Send(p, to) /\ sending' = [sending EXCEPT ![b] = Page!Unsent(p, left \ to)]
    BY DEF Page!Resume
<1>3. p \in Page!Payloads /\ left \in SUBSET Pages
    BY <1>1, SuspendedTyped
<1>4. /\ OfState(version, rest, p)
      /\ \A i \in 1 .. Len(queue) : NotNewer(p, queue[i])
      /\ \A t \in Held : NotNewer(p, hold[t])
    BY <1>1 DEF PageInv, SendingSound
<1>5. version \in Nat /\ rest \in Nat
    OBVIOUS
<1>6. /\ p.wrench \in 0 .. version /\ p.type \in {"full", "wrench"} /\ p.finite \in BOOLEAN
      /\ p.type = "full" => p.rest \in 0 .. rest /\ p.by \in Page!Threads \cup {"first"}
    BY <1>3, <1>4, <1>5, PayloadTyped DEF OfState
<1>7. /\ sending' \in [Tasks -> Suspended \cup {Page!Nothing}]
      /\ \A c \in Tasks : sending'[c] # Page!Nothing =>
            sending[c] # Page!Nothing /\ sending'[c].payload = sending[c].payload
  <2> DEFINE u == Page!Unsent(p, left \ to)
  <2>1. u = Page!Nothing \/ (u \in Suspended /\ u.payload = p)
      BY <1>3 DEF Suspended, Page!Unsent
  <2>2. sending' = [sending EXCEPT ![b] = u]
      BY <1>2
  <2>3. \A c \in Tasks : sending'[c] = IF c = b THEN u ELSE sending[c]
      BY <2>2
  <2> HIDE DEF u
  <2> QED
      BY <1>1, <2>1, <2>2, <2>3
<1> HIDE DEF p, left
<1>8. /\ page' \in [Pages -> Shown(version, rest)]
      /\ \A g \in Pages :
            \/ page'[g].rest = page[g].rest /\ page'[g].by = page[g].by
            \/ /\ g \in to /\ p.type = "full"
               /\ page'[g].rest = p.rest /\ page'[g].by = p.by
    BY <1>2, <1>5, <1>6, SendShows
<1>9. ASSUME NEW q \in Page!Payloads, Waiting(q), Sound(version, rest, page, q)
      PROVE  Sound(version', rest', page', q)
    BY <1>1, <1>4, <1>5, <1>6, <1>8, <1>9, SendKeepsSound DEF Waiting
<1>10. PageInv'
  <2>1. version' \in version .. MaxWrench /\ rest' \in rest .. MaxRest
        /\ finite' \in BOOLEAN /\ lost' \in 0 .. MaxLost
        /\ socket' \in [Pages -> {"closed", "added", "open"}]
      BY <1>1
  <2> QED
      BY <1>1, <1>7, <1>8, <1>9, <2>1, WaitingKeeps
<1> QED
    BY <1>2, <1>8, <1>10 DEF left

\* A first message is of no thread, and is of the state as it is.
LEMMA FirstMessageKeeps ==
    ASSUME PageInv, NEW g \in Pages, Page!FirstMessage(g)
    PROVE  PageInv' /\ \A h \in Pages : page'[h].rest >= page[h].rest
<1> USE PageBounds, PageTypes
<1> DEFINE p == Page!Full("first")
<1>1. /\ UNCHANGED <<version, finite, rest, hold, queue, sending, lost>>
      /\ socket' = [socket EXCEPT ![g] = "open"] /\ Page!Send(p, {g})
    BY DEF Page!FirstMessage
<1>2. version \in Nat /\ rest \in Nat
    OBVIOUS
<1>3. /\ p.wrench \in 0 .. version /\ p.type = "full" /\ p.finite \in BOOLEAN
      /\ p.rest = rest /\ p.rest \in 0 .. rest /\ p.by = "first"
    BY <1>2 DEF Page!Full
<1> HIDE DEF p
<1>4. /\ page' \in [Pages -> Shown(version, rest)]
      /\ \A h \in Pages :
            \/ page'[h].rest = page[h].rest /\ page'[h].by = page[h].by
            \/ p.type = "full" /\ page'[h].rest = p.rest /\ page'[h].by = p.by
    BY <1>1, <1>2, <1>3, SendShows
<1>5. ASSUME NEW q \in Page!Payloads, Sound(version, rest, page, q)
      PROVE  Sound(version', rest', page', q)
  <2>1. NotNewer(p, q)
      BY <1>3, PayloadTyped DEF NotNewer, Page!Threads
  <2> QED
      BY <1>1, <1>2, <1>3, <1>4, <1>5, <2>1, SendKeepsSound
<1>6. PageInv'
  <2>1. version' \in version .. MaxWrench /\ rest' \in rest .. MaxRest
        /\ finite' \in BOOLEAN /\ lost' \in 0 .. MaxLost
        /\ socket' \in [Pages -> {"closed", "added", "open"}]
      BY <1>1
  <2> QED
      BY <1>1, <1>4, <1>5, <2>1, WaitingKeeps
<1>7. ASSUME NEW h \in Pages PROVE page'[h].rest >= page[h].rest
  <2>1. page[h].rest \in 0 .. rest
      BY DEF Shown
  <2> QED
      BY <1>2, <1>3, <1>4, <2>1
<1> QED
    BY <1>6, <1>7

\* A thread that makes no payload holds none.
LEMMA HoldsNone ==
    ASSUME PageInv, NEW t \in Page!Threads, hold[t] = Page!Nothing,
           hold' = [hold EXCEPT ![t] = Page!Nothing]
    PROVE  hold' = hold
<1>1. ASSUME NEW f \in [Page!Threads -> Page!Payloads \cup {Page!Nothing}],
             f[t] = Page!Nothing
      PROVE  [f EXCEPT ![t] = Page!Nothing] = f
    BY <1>1
<1> QED
    BY <1>1, PageTypes

\* What a page shows is a number, after a step too.
LEMMA PageInvNat ==
    ASSUME PageInv', NEW g \in Pages
    PROVE  page'[g].rest \in Nat
BY PageBounds DEF PageInv, PageTyped, Page!TypeOK

\* Every step of the threads, the loop and the pages keeps what is on its way in order.
LEMMA PageKept ==
    ASSUME PageInv, [Page!Next]_(Page!vars)
    PROVE  PageInv'
<1> USE PageBounds
<1>1. /\ version \in 0 .. MaxWrench /\ rest \in 0 .. MaxRest /\ lost \in 0 .. MaxLost
      /\ finite \in BOOLEAN /\ socket \in [Pages -> {"closed", "added", "open"}]
      /\ "spin" \in Page!Threads
    BY PageTypes DEF Page!Threads
<1>2. ASSUME NEW t \in Page!Threads, Page!Change(t) PROVE PageInv'
  <2>1. /\ Page!Free(t) /\ rest < MaxRest /\ rest' = rest + 1
        /\ UNCHANGED <<version, finite, queue, sending, socket, page, lost>>
      BY <1>2 DEF Page!Change
  <2>2. version' \in version .. MaxWrench /\ rest' \in rest .. MaxRest
      BY <1>1, <2>1
  <2>3. CASE Page!Watched
    <3> DEFINE p == [Page!Full(t) EXCEPT !.rest = rest + 1]
    <3>1. hold' = [hold EXCEPT ![t] = p]
        BY <1>2, <2>3 DEF Page!Change
    <3>2. p = [type |-> "full", wrench |-> version, finite |-> finite,
               rest |-> rest + 1, by |-> t]
        BY DEF Page!Full
    <3>3. p \in Page!Payloads
        BY <1>1, <3>2 DEF Page!Payloads
    <3>4. p.by = t /\ p.wrench = version' /\ p.rest = rest'
        BY <2>1, <3>2
    <3> HIDE DEF p
    <3> QED
        BY <1>1, <2>1, <2>2, <3>1, <3>3, <3>4, MakingKeeps
  <2>4. CASE ~Page!Watched
    <3>1. hold' = hold
        BY <1>2, <2>1, <2>4, HoldsNone DEF Page!Change, Page!Free
    <3> QED
        BY <1>1, <2>1, <2>2, <3>1, OtherKeeps
  <2> QED
      BY <2>3, <2>4
<1>3. CASE Page!Telemetry
  <2> DEFINE p == Page!Full("spin")
  <2>1. /\ Page!Free("spin") /\ hold' = [hold EXCEPT !["spin"] = p]
        /\ UNCHANGED <<version, finite, rest, queue, sending, socket, page, lost>>
      BY <1>3 DEF Page!Telemetry
  <2>2. p \in Page!Payloads
      BY <1>1 DEF Page!Full, Page!Payloads
  <2>3. p.by = "spin" /\ p.wrench = version' /\ p.rest = rest'
      BY <2>1 DEF Page!Full
  <2>4. version' \in version .. MaxWrench /\ rest' \in rest .. MaxRest
      BY <1>1, <2>1
  <2> HIDE DEF p
  <2> QED
      BY <1>1, <2>1, <2>2, <2>3, <2>4, MakingKeeps
<1>4. ASSUME NEW f \in BOOLEAN, NEW early \in BOOLEAN, Page!OnWrench(f, early)
      PROVE  PageInv'
  <2>1. /\ Page!Free("spin") /\ version' = version + 1 /\ version < MaxWrench /\ finite' = f
        /\ UNCHANGED <<rest, queue, sending, socket, page, lost>>
      BY <1>4 DEF Page!OnWrench
  <2>2. version' \in version .. MaxWrench /\ rest' \in rest .. MaxRest
      BY <1>1, <2>1
  <2>3. CASE Page!Watched /\ ~early
    <3> DEFINE p == Page!OnlyWrench(version + 1, f, "spin")
    <3>1. hold' = [hold EXCEPT !["spin"] = p]
        BY <1>4, <2>3 DEF Page!OnWrench
    <3>2. p \in Page!Payloads
        BY <1>1 DEF Page!OnlyWrench, Page!Payloads
    <3>3. p.by = "spin" /\ p.wrench = version' /\ p.type # "full"
        BY <2>1 DEF Page!OnlyWrench
    <3> HIDE DEF p
    <3> QED
        BY <1>1, <2>1, <2>2, <3>1, <3>2, <3>3, MakingKeeps
  <2>4. CASE ~(Page!Watched /\ ~early)
    <3>1. hold' = hold
        BY <1>1, <1>4, <2>1, <2>4, HoldsNone DEF Page!OnWrench, Page!Free
    <3> QED
        BY <1>1, <2>1, <2>2, <3>1, OtherKeeps
  <2> QED
      BY <2>3, <2>4
<1>5. ASSUME NEW t \in Page!Threads, Page!HandIn(t) PROVE PageInv'
    BY <1>5, HandInKeeps
<1>6. CASE Page!Broadcast
    BY <1>6, BroadcastKeeps
<1>7. ASSUME NEW b \in Tasks, Page!Resume(b) PROVE PageInv'
    BY <1>7, ResumeKeeps
<1>8. ASSUME NEW g \in Pages, Page!FirstMessage(g) PROVE PageInv'
    BY <1>8, FirstMessageKeeps
<1>9. ASSUME NEW g \in Pages, Page!Connect(g) PROVE PageInv'
    BY <1>1, <1>9, OtherKeeps DEF Page!Connect
<1>10. ASSUME NEW g \in Pages, Page!Lose(g) PROVE PageInv'
    BY <1>1, <1>10, OtherKeeps DEF Page!Lose
<1>11. CASE UNCHANGED Page!vars
    BY <1>1, <1>11, OtherKeeps DEF Page!vars
<1> QED
    BY <1>2, <1>3, <1>4, <1>5, <1>6, <1>7, <1>8, <1>9, <1>10, <1>11
       DEF Page!Next, Page!SpinStep, Page!LoopStep, Page!Threads

\* The invariant of the page.
THEOREM PageInvariant == Page!Spec => []PageInv
BY PageInit, PageKept, PTL DEF Page!Spec

\* The payloads that the loop is handed by one thread are in the order of the states
\* they are of, however the threads and the bias requests take turns.
THEOREM PayloadsInOrder == Page!Spec => [](Page!TypeOK /\ Page!QueueInOrder)
<1>1. ASSUME PageInv PROVE Page!TypeOK /\ Page!QueueInOrder
  <2>1. Page!TypeOK /\ QueueSound
      BY <1>1 DEF PageInv, PageTyped
  <2>2. ASSUME NEW i \in 1 .. Len(queue), NEW j \in 1 .. Len(queue), i < j
        PROVE  NotNewer(queue[i], queue[j])
      BY <2>1, <2>2 DEF QueueSound
  <2> QED
      BY <2>1, <2>2 DEF Page!QueueInOrder, NotNewer
<1> QED
    BY <1>1, PageInvariant, PTL

\* A step that writes nothing to a page does not take it back, and those that write to
\* it do so as the exceptions of the property say, however many pages and suspended
\* broadcasts there are.
LEMMA StepBack ==
    ASSUME PageInv, [Page!Next]_(Page!vars), NEW g \in Pages, page'[g].rest < page[g].rest
    PROVE  \/ page'[g].by # page[g].by
           \/ \E b \in Tasks : Page!Resume(b) /\ g \in sending[b].left
<1>1. page[g].rest \in Nat
    BY PageTypes, PageBounds DEF Shown
<1>2. page' # page
    BY <1>1
<1>3. CASE Page!Broadcast
  <2>1. PageInv' /\ (page'[g].rest >= page[g].rest \/ page'[g].by # page[g].by)
      BY <1>3, BroadcastKeeps
  <2>2. page'[g].rest \in Nat
      BY <2>1, PageInvNat
  <2> QED
      BY <1>1, <2>1, <2>2
<1>4. ASSUME NEW b \in Tasks, Page!Resume(b)
      PROVE  Page!Resume(b) /\ g \in sending[b].left
    BY <1>1, <1>4, ResumeKeeps
<1>5. ASSUME NEW h \in Pages, Page!FirstMessage(h) PROVE FALSE
  <2>1. PageInv' /\ page'[g].rest >= page[g].rest
      BY <1>5, FirstMessageKeeps
  <2>2. page'[g].rest \in Nat
      BY <2>1, PageInvNat
  <2> QED
      BY <1>1, <2>1, <2>2
<1>6. Page!Broadcast \/ (\E b \in Tasks : Page!Resume(b)) \/ \E h \in Pages : Page!FirstMessage(h)
    BY <1>2 DEF Page!vars, Page!Next, Page!SpinStep, Page!LoopStep, Page!Change, Page!Telemetry,
                Page!OnWrench, Page!HandIn, Page!Connect, Page!Lose
<1> QED
    BY <1>3, <1>4, <1>5, <1>6

\* A page that goes back to an older state does so between payloads of different
\* threads, or from its first message, or by a broadcast that had been suspended.
THEOREM BackOnlyByARace == Page!Spec => Page!BackOnlyByRace
<1>1. PageInv /\ [Page!Next]_(Page!vars) =>
        [\A g \in Pages : page'[g].rest < page[g].rest =>
            \/ page'[g].by # page[g].by
            \/ \E b \in Tasks : Page!Resume(b) /\ g \in sending[b].left]_(Page!vars)
    BY StepBack
<1> QED
    BY <1>1, PageInvariant, PTL DEF Page!BackOnlyByRace, Page!Spec

----------------------------------------------------------------------------
(* The node: its parts in one behaviour. *)

\* A part that rests keeps its variables, and the one that goes on takes a step of its
\* own specification.
LEMMA PartsStep ==
    ASSUME [MCNext]_allVars
    PROVE  [Checks!Next]_(Checks!vars) /\ [Page!Next]_(Page!vars) /\ [Next]_vars
<1>1. UNCHANGED checksVars => UNCHANGED Checks!vars
    BY DEF checksVars, Checks!vars, Checks!outside, Checks!data, Checks!shown
<1>2. UNCHANGED pageVars => UNCHANGED Page!vars
    BY DEF pageVars, Page!vars
<1>3. CASE Biasing(Next)
    BY <1>1, <1>2, <1>3 DEF Biasing
<1>4. CASE Checking(Checks!Next)
    BY <1>2, <1>4 DEF Checking
<1>5. CASE Paging(Page!Next)
    BY <1>1, <1>5 DEF Paging
<1>6. CASE UNCHANGED allVars
    BY <1>1, <1>2, <1>6 DEF allVars
<1> QED
    BY <1>3, <1>4, <1>5, <1>6 DEF MCNext

\* The node implements each of its parts.
LEMMA NodeImplementsParts == MCSpec => Spec /\ Checks!Spec /\ Page!Spec
<1>1. MCInit => Init /\ Checks!Init /\ Page!Init
    BY DEF MCInit, BiasRests, ChecksRest
<1>2. [MCNext]_allVars => [Checks!Next]_(Checks!vars) /\ [Page!Next]_(Page!vars) /\ [Next]_vars
    BY PartsStep
<1> QED
    BY <1>1, <1>2, PTL DEF MCSpec, Spec, Checks!Spec, Page!Spec

\* What the node shows is of one piece.
THEOREM NodeAgrees == MCSpec => []MonitorAgrees
BY NodeImplementsParts, AlertsAgree, PayloadsInOrder, PTL DEF MonitorAgrees

\* In the node too the timer stores what is current, and a page goes back only where two
\* threads raced or a broadcast was suspended: the safety part of what the run says.
THEOREM NodeSteps == MCSpec => Checks!TimerChecksCurrent /\ Page!BackOnlyByRace
BY NodeImplementsParts, TimerStoresCurrent, BackOnlyByARace, PTL
================================================================================
