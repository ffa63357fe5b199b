------------------------------- MODULE StatusLog -------------------------------
(***************************************************************************)
(* handle_status_code_: the log lines of the sensor's status word.  A line *)
(* is due when the word changes, and each severity has a throttle of one   *)
(* second that swallows the lines due in it.  The word it remembers is     *)
(* forgotten by reset_state_ alone, so that of a failed activation is      *)
(* known to the next one.                                                  *)
(***************************************************************************)

CONSTANTS
    Words,   \* the words the sensor sends
    Fine,    \* the one without a fault
    NoWord,  \* no word has been read
    Lag      \* a line was swallowed

VARIABLES
    state,      \* of the session, as in SensorRows
    previous,   \* previous_status_code_
    throttled,  \* the severities whose throttle swallows the next line
    told,       \* history: the word of the session's last line, or that one is missing
    word,       \* history: the word read last in this session
    late        \* history: the one a failed activation read last since the last reset

vars == <<state, previous, throttled, told, word, late>>

TypeOK ==
    /\ state \in {"inactive", "active", "failing", "failed", "finalized"}
    /\ previous \in Words \cup {NoWord} /\ told \in Words \cup {NoWord, Lag}
    /\ word \in Words \cup {NoWord} /\ late \in Words \cup {NoWord}
    /\ throttled \subseteq {"INFO", "WARN"}

Init ==
    /\ state = "inactive"
    /\ previous = NoWord /\ told = NoWord /\ word = NoWord /\ late = NoWord
    /\ throttled = {}

Severity(w) == IF w = Fine THEN "INFO" ELSE "WARN"

\* No line is due for a word that was read before.
Known(w) == previous = w

Log(w) ==
    /\ ~Known(w) /\ Severity(w) \notin throttled
    /\ throttled' = throttled \cup {Severity(w)}
    /\ told' = w

Swallow(w) ==
    /\ ~Known(w) /\ Severity(w) \in throttled
    /\ told' = Lag
    /\ UNCHANGED throttled

Skip(w) == Known(w) /\ UNCHANGED <<throttled, told>>

\* A word is remembered whether its line was logged or swallowed.
Handle(w) ==
    /\ state # "inactive"
    /\ Log(w) \/ Swallow(w) \/ Skip(w)
    /\ previous' = w
    /\ word' = w
    /\ late' = IF state \in {"failing", "failed"} THEN w ELSE late
    /\ UNCHANGED state

\* A session starts with the word that is remembered, whether it fails or not.
Start(next) ==
    /\ state \in {"inactive", "failed"} /\ state' = next
    /\ told' = NoWord /\ word' = NoWord
    /\ UNCHANGED <<previous, throttled, late>>

Activate == Start("active")
FailInit == Start("failing")

\* A failed activation, and a shutdown from active, end without reset_state_.
EndWithoutReset ==
    /\ \/ state = "failing" /\ state' = "failed"
       \/ state = "active" /\ state' = "finalized"
    /\ UNCHANGED <<previous, throttled, told, word, late>>

\* Mutant: reset_state_ keeps the word it knows.
ResetKeepsWord ==
    /\ state = "active" /\ state' = "inactive"
    /\ told' = NoWord /\ word' = NoWord /\ late' = NoWord
    /\ UNCHANGED <<previous, throttled>>

\* reset_state_ of on_deactivate.  The throttles are of the process.
Reset ==
    /\ state = "active" /\ state' = "inactive"
    /\ previous' = NoWord
    /\ told' = NoWord /\ word' = NoWord /\ late' = NoWord
    /\ UNCHANGED throttled

\* The second of a throttle is over.
ThrottleOpens ==
    /\ \E severity \in throttled : throttled' = throttled \ {severity}
    /\ UNCHANGED <<state, previous, told, word, late>>

Next ==
    \/ \E w \in Words : Handle(w)
    \/ Activate \/ FailInit \/ EndWithoutReset \/ Reset \/ ThrottleOpens

Spec == Init /\ [][Next]_vars

----------------------------------------------------------------------------
(* Properties. *)

\* The log lags behind the sensor by lines the throttle swallowed, and at the start
\* of a session by the line of a word that a failed activation has read: otherwise
\* the last line of the session tells the word that was read last, also when the
\* session before ended in the same word.
LogLagsByThrottle ==
    /\ TypeOK
    /\ told # word => told = Lag \/ (told = NoWord /\ word = late)
================================================================================
