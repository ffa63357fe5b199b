------------------------------ MODULE MonitorBias ------------------------------
(***************************************************************************)
(* The manual bias of the dashboard: a request of a page runs trigger_bias *)
(* in the web server's loop: it records the action, calls the sensor's     *)
(* service, and waits for the answer or for the end of a timeout; what it  *)
(* comes to is recorded and returned.  Requests of several pages, or of    *)
(* one page after a timeout, are under way together.  The answer reaches   *)
(* the spin thread, which hands it to the loop: one that comes too late is *)
(* dropped there.                                                          *)
(*                                                                         *)
(* The sensor is external: it serves the calls one at a time, those of the *)
(* two services in any order, and nobody else calls it.                    *)
(***************************************************************************)
EXTENDS Naturals

CONSTANTS
    Requests,  \* the requests of the pages
    NoRequest  \* no request has been recorded

ASSUME NoRequestAssumption == NoRequest \notin Requests

Actions == {"set", "clear"}

VARIABLES
    present,     \* external: the services of the sensor are there
    active,      \* external: the sensor is active
    bias,        \* external: the bias done last by the sensor, or "none"
    applied,     \* history: the requests for which the sensor has done it
    action,      \* what each request asks for
    st,          \* "new", "waiting" or "done"
    call,        \* its call: "none", "sent", "answered", "ready" or "gone"
    reply,       \* the answer to it: success
    result,      \* what it returned
    lastAction,  \* _last_bias_action: of which request
    lastResult,  \* _last_bias_result: of which request
    overlapped   \* history: the requests that were under way with another one

sensor == <<present, active, bias, applied>>
last == <<lastAction, lastResult>>
vars == <<sensor, action, st, call, reply, result, last, overlapped>>

\* A request returns exactly one result, and that when it ends.
TypeOK ==
    /\ present \in BOOLEAN /\ active \in BOOLEAN
    /\ bias \in Actions \cup {"none"} /\ applied \subseteq Requests
    /\ action \in [Requests -> Actions]
    /\ st \in [Requests -> {"new", "waiting", "done"}]
    /\ call \in [Requests -> {"none", "sent", "answered", "ready", "gone"}]
    /\ reply \in [Requests -> BOOLEAN]
    /\ result \in [Requests -> {"none", "success", "refused", "unavailable", "timeout"}]
    /\ lastAction \in Requests \cup {NoRequest}
    /\ lastResult \in Requests \cup {NoRequest}
    /\ overlapped \subseteq Requests
    /\ \A r \in Requests : (st[r] = "done") <=> (result[r] # "none")

Init ==
    /\ present \in BOOLEAN /\ active \in BOOLEAN
    /\ bias = "none" /\ applied = {}
    /\ action \in [Requests -> Actions]
    /\ st = [r \in Requests |-> "new"]
    /\ call = [r \in Requests |-> "none"]
    /\ reply = [r \in Requests |-> FALSE]
    /\ result = [r \in Requests |-> "none"]
    /\ lastAction = NoRequest /\ lastResult = NoRequest
    /\ overlapped = {}

\* The request, or a call it has made, is still under way.
UnderWay(r) == st[r] = "waiting" \/ call[r] \in {"sent", "answered", "ready"}

----------------------------------------------------------------------------
(* trigger_bias *)

\* The request ends, and what it returns is recorded.
End(r, what) ==
    /\ st' = [st EXCEPT ![r] = "done"]
    /\ result' = [result EXCEPT ![r] = what]
    /\ lastResult' = r

Begin(r) ==
    /\ st[r] = "new"
    /\ lastAction' = r
    /\ overlapped' = LET others == {q \in Requests : UnderWay(q)}
                     IN  overlapped \cup others \cup (IF others = {} THEN {} ELSE {r})

Refuse(r) ==
    /\ Begin(r)
    /\ ~present
    /\ End(r, "unavailable")
    /\ UNCHANGED <<sensor, action, call, reply>>

Call(r) ==
    /\ Begin(r)
    /\ present
    /\ st' = [st EXCEPT ![r] = "waiting"]
    /\ call' = [call EXCEPT ![r] = "sent"]
    /\ UNCHANGED <<sensor, action, reply, result, lastResult>>

\* Mutant: the requests share one future.
FinishAny(r) ==
    /\ st[r] = "waiting"
    /\ \E q \in Requests :
        /\ call[q] = "ready"
        /\ call' = [call EXCEPT ![q] = "gone"]
        /\ End(r, IF reply[q] THEN "success" ELSE "refused")
    /\ UNCHANGED <<sensor, action, reply, lastAction, overlapped>>

\* The answer was handed to the loop in time.
Finish(r) ==
    /\ st[r] = "waiting" /\ call[r] = "ready"
    /\ call' = [call EXCEPT ![r] = "gone"]
    /\ End(r, IF reply[r] THEN "success" ELSE "refused")
    /\ UNCHANGED <<sensor, action, reply, lastAction, overlapped>>

\* Mutant: no answer is taken for a good one.
TimeoutIsSuccess(r) ==
    /\ st[r] = "waiting"
    /\ End(r, "success")
    /\ UNCHANGED <<sensor, action, call, reply, lastAction, overlapped>>

\* Five seconds are over; the answer may be on its way, and its call is not undone.
Timeout(r) ==
    /\ st[r] = "waiting"
    /\ End(r, "timeout")
    /\ UNCHANGED <<sensor, action, call, reply, lastAction, overlapped>>

\* Complete, in the spin thread.
Complete(r) ==
    /\ call[r] = "answered"
    /\ call' = [call EXCEPT ![r] = "ready"]
    /\ UNCHANGED <<sensor, action, st, reply, result, last, overlapped>>

\* The future of the request was cancelled by the timeout.
Drop(r) ==
    /\ st[r] = "done" /\ call[r] = "ready"
    /\ call' = [call EXCEPT ![r] = "gone"]
    /\ UNCHANGED <<sensor, action, st, reply, result, last, overlapped>>

----------------------------------------------------------------------------
(* External: the sensor. *)

\* execute_bias is refused when the sensor is not active.
Serve(r) ==
    /\ call[r] = "sent" /\ present
    /\ call' = [call EXCEPT ![r] = "answered"]
    /\ reply' = [reply EXCEPT ![r] = active]
    /\ bias' = IF active THEN action[r] ELSE bias
    /\ applied' = IF active THEN applied \cup {r} ELSE applied
    /\ UNCHANGED <<present, active, action, st, result, last, overlapped>>

\* The call or the answer to it is lost with the sensor's node.
Lose(r) ==
    /\ call[r] \in {"sent", "answered"} /\ ~present
    /\ call' = [call EXCEPT ![r] = "gone"]
    /\ UNCHANGED <<sensor, action, st, reply, result, last, overlapped>>

SensorChanges ==
    /\ \/ present' = ~present /\ active' = FALSE
       \/ present /\ present' = present /\ active' = ~active
    /\ UNCHANGED <<bias, applied, action, st, call, reply, result, last, overlapped>>

Loop(r) == Refuse(r) \/ Call(r) \/ Finish(r) \/ Timeout(r) \/ Drop(r)

Next ==
    \/ \E r \in Requests : Loop(r) \/ Complete(r) \/ Serve(r) \/ Lose(r)
    \/ SensorChanges

Spec == Init /\ [][Next]_vars

----------------------------------------------------------------------------
(* Properties. *)

\* A request that reports success had its bias done by the sensor, whichever calls
\* were under way with it and whichever answers came too late.
SuccessIsApplied == \A r \in Requests : result[r] = "success" => r \in applied

\* A request that reports a failure had not, unless it reports a timeout: only a
\* timeout leaves open what the sensor did.
FailureIsNotApplied ==
    \A r \in Requests : result[r] \in {"unavailable", "refused"} => r \notin applied

\* The action and the result shown are of one request when none is waiting, but for
\* requests that were under way together.
RecordsMatch ==
    (\A r \in Requests : st[r] # "waiting") =>
        lastAction = lastResult \/ {lastAction, lastResult} \subseteq overlapped

\* A success shown of the request made last is the bias that the sensor has, unless
\* the call of another request was under way with it, one that had timed out too.
ShownBiasIsApplied ==
    lastAction = lastResult /\ lastResult # NoRequest /\ lastResult \notin overlapped
        /\ result[lastResult] = "success" => bias = action[lastResult]

\* What a request returns is true of it.
AnswersAreTrue == SuccessIsApplied /\ FailureIsNotApplied

\* What the page shows of the last bias is of one request, and true of the sensor.
RecordsAreTrue == RecordsMatch /\ ShownBiasIsApplied
================================================================================
