---------------------------- MODULE EtherCatSession ----------------------------
(***************************************************************************)
(* What the driver promises the IgH EtherCAT master it talks to: one       *)
(* session at a time, requested before it is activated, frames exchanged   *)
(* only while it is active, a stop frame as the last frame before the      *)
(* cyclic exchange of an initialised session ends, and the master given    *)
(* back at the end.                                                        *)
(*                                                                         *)
(* The word of a frame is what its first control object (0x7010:01) asks   *)
(* the sensor to do: "zero" clears every field, "word" is the configured   *)
(* filter, calibration slot and sample rate, "pulse" is that word with a   *)
(* bias bit set.                                                           *)
(***************************************************************************)

VARIABLES
    session,  \* the master, as this process sees it
    wire      \* the word of the last frame of the session, "none" before it

vars == <<session, wire>>

Sessions == {"released", "requested", "active"}

Words == {"zero", "word", "pulse"}

TypeOK ==
    /\ session \in Sessions
    /\ wire \in Words \cup {"none"}

Init ==
    /\ session = "released"
    /\ wire = "none"

Request ==
    /\ session = "released"
    /\ session' = "requested"
    /\ wire' = "none"

Activate ==
    /\ session = "requested"
    /\ wire = "none"
    /\ session' = "active"
    /\ UNCHANGED wire

\* A session starts with the configured word, and a bias pulse is always
\* followed by that word, never by another pulse.
Exchange(w) ==
    /\ session = "active"
    /\ wire = "none" => w = "word"
    /\ wire = "pulse" => w = "word"
    /\ wire # "zero"
    /\ wire' = w
    /\ UNCHANGED session

\* The exchange of an initialised session ends with the stop frame.
Deactivate ==
    /\ session = "active"
    /\ wire = "zero"
    /\ session' = "requested"
    /\ UNCHANGED wire

\* The master is given back from a session that never exchanged a frame, or
\* from one that was stopped.
Release ==
    /\ session # "released"
    /\ wire = "none" \/ session = "requested"
    /\ session' = "released"
    /\ UNCHANGED wire

Next ==
    \/ Request
    \/ Activate
    \/ \E w \in Words : Exchange(w)
    \/ Deactivate
    \/ Release

Spec == Init /\ [][Next]_vars
================================================================================
