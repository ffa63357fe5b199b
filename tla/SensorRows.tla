------------------------------- MODULE SensorRows -------------------------------
(***************************************************************************)
(* The rows of the diagnostics array that come from read(): communication, *)
(* sample counter and sensor status.                                       *)
(*                                                                         *)
(* read() and reset_state_ write the snapshot and the sample counters      *)
(* under a lock each, one after the other, and the timer reads them the    *)
(* same way: an array is put together from two moments.  Only on_deactivate *)
(* runs reset_state_: an activation that failed, and a shutdown from active, *)
(* leave what the reads stored.  The thresholds of the counters are        *)
(* SampleCounter's; here a window has a level that its reads can only make *)
(* worse.                                                                  *)
(***************************************************************************)

CONSTANTS
    Described,     \* the bits STATUS_BITS has a name for
    Undescribed,   \* the others
    RangeWarning,  \* bit 26, the gage out-of-range warning
    Samples        \* bound: what the reads find, a status word and the communication

ASSUME BitsAssumption ==
    /\ RangeWarning \in Described
    /\ Described \cap Undescribed = {}
    /\ Samples \subseteq [word : SUBSET (Described \cup Undescribed),
                            communication : {"OK", "ERROR"}]

VARIABLES
    state,      \* of the session, which the driver's follows: see States
    snapshot,   \* realtime_snapshot_: the word and communication of a read
    window,     \* sample_counter_state_: the level its window has come to
    reading,    \* read(), which holds the lock: "idle", "sampled" or "stored"
    resetting,  \* reset_state_ has written the snapshot, not yet the counters
    tick,       \* the timer: "idle", "copied" or "taken"
    copy,       \* its copy of the snapshot
    taken,      \* its sample counter level
    array,      \* the rows last published
    overlap,    \* history: a read or a reset came within the tick
    stray       \* history: a read of a failed activation stored, and no reset since

timer == <<tick, copy, taken, array>>
vars == <<state, snapshot, window, reading, resetting, timer, overlap, stray>>

\* "failing" is between the lock that a failed activation gives up with the driver
\* active and the shutdown it then calls without; "finalized" is a shutdown from
\* active, for which the plugin has no callback.
States == {"inactive", "active", "failing", "failed", "finalized"}
FailedActivation == state \in {"failing", "failed"}

Inactive == [word |-> {}, communication |-> "STALE"]
CounterLevels == {"OK", "WARN", "ERROR"}
Levels == CounterLevels \cup {"STALE"}

\* describe_status_bits: "no active status bits" when there is none with a name.
Text(w) == w \cap Described

\* Mutant: a word that names no error is a warning.
LevelByName(w) ==
    CASE w = {} -> "OK"
      [] w # {} /\ Text(w) \subseteq {RangeWarning} -> "WARN"
      [] OTHER -> "ERROR"

\* status_code_level
StatusLevel(w) ==
    CASE w = {} -> "OK"
      [] w = {RangeWarning} -> "WARN"
      [] OTHER -> "ERROR"

\* make_independent_diagnostic_levels, from a copy of the snapshot and a level of
\* the counters.
Rows(s, counter) ==
    [communication |-> s.communication,
     counter |-> IF s = Inactive THEN "STALE" ELSE counter,
     status |-> IF s = Inactive THEN "STALE" ELSE StatusLevel(s.word),
     word |-> s.word]

Words == {s.word : s \in Samples}
Snapshots == {Inactive} \cup Samples

TypeOK ==
    /\ state \in States
    /\ snapshot \in Snapshots /\ copy \in Snapshots
    /\ window \in CounterLevels /\ taken \in CounterLevels
    /\ reading \in {"idle", "sampled", "stored"}
    /\ resetting \in BOOLEAN /\ overlap \in BOOLEAN /\ stray \in BOOLEAN
    /\ tick \in {"idle", "copied", "taken"}
    /\ array \in [communication : {"OK", "ERROR", "STALE"}, counter : Levels,
                  status : Levels, word : Words \cup {{}}]

Init ==
    /\ state = "inactive"
    /\ snapshot = Inactive /\ window = "OK"
    /\ reading = "idle" /\ resetting = FALSE
    /\ tick = "idle" /\ copy = Inactive /\ taken = "OK"
    /\ array = Rows(Inactive, "OK")
    /\ overlap = FALSE /\ stray = FALSE

----------------------------------------------------------------------------
(* The session. *)

\* on_activate takes the lock that read() holds, and on_deactivate too.
MayActivate == state \in {"inactive", "failed"} /\ reading = "idle" /\ ~resetting

\* Nothing is reset when a session starts.
Activate ==
    /\ MayActivate
    /\ state' = "active"
    /\ UNCHANGED <<snapshot, window, reading, resetting, timer, overlap, stray>>

\* init() throws when it has made the driver active, and the lock is given up with it.
\* (One that throws before leaves all this as it is.)
FailInit ==
    /\ MayActivate
    /\ state' = "failing"
    /\ UNCHANGED <<snapshot, window, reading, resetting, timer, overlap, stray>>

\* The handler stops the driver without the lock: a read may be in progress.
ActivateFailed ==
    /\ state = "failing"
    /\ state' = "failed"
    /\ UNCHANGED <<snapshot, window, reading, resetting, timer, overlap, stray>>

\* The controller manager's; the plugin does nothing.
ShutdownActive ==
    /\ state = "active"
    /\ state' = "finalized"
    /\ UNCHANGED <<snapshot, window, reading, resetting, timer, overlap, stray>>

----------------------------------------------------------------------------
(* read() and the reset. *)

Ticking == tick # "idle"

\* The lock is taken, and an active driver read.
Sample ==
    /\ state \in {"active", "failing"} /\ reading = "idle"
    /\ reading' = "sampled"
    /\ UNCHANGED <<state, snapshot, window, resetting, timer, overlap, stray>>

\* The sample with its status word and the EtherCAT state the driver has kept, whose
\* link, slave count and slave state make the communication.
Read(s) ==
    /\ reading = "sampled"
    /\ snapshot' = s
    /\ reading' = "stored"
    /\ overlap' = Ticking
    /\ stray' = (stray \/ FailedActivation)
    /\ UNCHANGED <<state, window, resetting, timer>>

AtLeast(level) ==
    CASE level = "OK" -> CounterLevels
      [] level = "WARN" -> {"WARN", "ERROR"}
      [] level = "ERROR" -> {"ERROR"}

\* check_sample_counter_, and the lock is given up.
ReadCounter ==
    /\ reading = "stored"
    /\ window' \in AtLeast(window)
    /\ reading' = "idle"
    /\ overlap' = Ticking
    /\ UNCHANGED <<state, snapshot, resetting, timer, stray>>

\* Mutant: reset_state_ leaves the snapshot.
ResetKeepsSnapshot ==
    /\ state = "active" /\ reading = "idle"
    /\ state' = "inactive"
    /\ resetting' = TRUE
    /\ overlap' = Ticking
    /\ stray' = FALSE
    /\ UNCHANGED <<snapshot, window, reading, timer>>

\* on_deactivate, which keeps read() out to its end.
Reset ==
    /\ state = "active" /\ reading = "idle"
    /\ state' = "inactive"
    /\ snapshot' = Inactive
    /\ resetting' = TRUE
    /\ overlap' = Ticking
    /\ stray' = FALSE
    /\ UNCHANGED <<window, reading, timer>>

\* Mutant: reset_state_ leaves the counters.
ResetNoCounter ==
    /\ resetting
    /\ resetting' = FALSE
    /\ overlap' = Ticking
    /\ UNCHANGED <<state, snapshot, window, reading, timer, stray>>

ResetCounter ==
    /\ resetting
    /\ window' = "OK"
    /\ resetting' = FALSE
    /\ overlap' = Ticking
    /\ UNCHANGED <<state, snapshot, reading, timer, stray>>

----------------------------------------------------------------------------
(* The timer. *)

Copy ==
    /\ tick = "idle"
    /\ copy' = snapshot
    /\ tick' = "copied"
    /\ overlap' = (reading = "stored" \/ resetting)
    /\ UNCHANGED <<state, snapshot, window, reading, resetting, taken, array, stray>>

\* sample_counter_diagnostics_: the window is taken and a new one starts.
Take ==
    /\ tick = "copied"
    /\ taken' = window
    /\ window' = "OK"
    /\ tick' = "taken"
    /\ UNCHANGED <<state, snapshot, reading, resetting, copy, array, overlap, stray>>

\* What the tick read is gone with it.
Publish ==
    /\ tick = "taken"
    /\ array' = Rows(copy, taken)
    /\ tick' = "idle" /\ copy' = Inactive /\ taken' = "OK" /\ overlap' = FALSE
    /\ UNCHANGED <<state, snapshot, window, reading, resetting, stray>>

ReadStep == \E s \in Samples : Read(s)
Timer == Copy \/ Take \/ Publish

Next ==
    \/ Activate \/ FailInit \/ ActivateFailed \/ ShutdownActive
    \/ Sample \/ ReadStep \/ ReadCounter \/ Reset \/ ResetCounter
    \/ Timer

Spec == Init /\ [][Next]_vars

----------------------------------------------------------------------------
(* Properties. *)

\* The level and the text of the status row agree, although they come from two
\* tables: what has no name in STATUS_BITS is the only error that is not named.
StatusRowNamed ==
    /\ array.status \in {"OK", "STALE"} <=> array.word = {}
    /\ array.status = "WARN" => Text(array.word) = {RangeWarning}
    /\ array.status = "ERROR" /\ Text(array.word) \subseteq {RangeWarning} =>
         array.word \cap Undescribed # {}

\* The rows of an array agree: they are named for what they are, and the three of a
\* hardware that is not active are stale together, although the counter's comes from
\* under another lock.
RowsAgree ==
    /\ TypeOK /\ StatusRowNamed
    /\ array.counter = "STALE" <=> array.status = "STALE"
    /\ array.communication = "STALE" <=> array.status = "STALE"

\* A window that went wrong is not lost between the two locks: the array that
\* takes it shows its level, unless a read or a reset came within the tick.
WindowShown ==
    tick = "taken" /\ taken # "OK" => overlap \/ Rows(copy, taken).counter = taken

\* What the snapshot stays at gets into the array, and a session that is over gets
\* out of it: what a hardware that is not active goes on showing as active was stored
\* by a read that came between a failed activation's lock and its shutdown.
ArrayCatchesUp ==
    /\ \A s \in Snapshots :
        <>[](snapshot = s) => <>[](/\ array.communication = s.communication
                                   /\ array.word = s.word)
    /\ <>[](state \in {"inactive", "failed"} /\ ~stray)
        => <>[](array = Rows(Inactive, "OK"))
================================================================================
