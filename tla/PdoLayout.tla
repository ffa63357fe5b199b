------------------------------- MODULE PdoLayout -------------------------------
(***************************************************************************)
(* The tables of the process data: which objects of the sensor are in      *)
(* which PDO, sync manager and direction, the registration that gives each *)
(* of them its place in the domain, and the driver's reads and writes at   *)
(* these places.  Everything is 32 bits wide, so places are counted in     *)
(* words.                                                                  *)
(*                                                                         *)
(* The EtherCAT library is external: at the first registration of an       *)
(* object of a sync manager it lays out all that the sync manager's PDOs   *)
(* have, in their order, behind what is in the domain.                     *)
(***************************************************************************)
EXTENDS Naturals, SequencesExt

CONSTANTS
    Gaps,      \* external: the words it may leave free before a sync manager
    MaxFrames  \* bound: the frames received

LayoutAssumption == Gaps \subseteq Nat /\ MaxFrames \in Nat

\* Objects, by index and subindex.
Control(i) == <<"OBJ_CONTROL_CODES", i>>
Reading(i) == <<"OBJ_READING_DATA", i>>
Status == <<"OBJ_STATUS_CODE", 0>>
Counter == <<"OBJ_SAMPLE_COUNTER", 0>>

axia_pdo_entries ==
    <<Control(1), Control(2)>> \o [i \in 1 .. 6 |-> Reading(i)] \o <<Status, Counter>>

\* How many entries a PDO has, and where in the table they begin.
axia_pdos == <<[entries |-> 2, first |-> 0], [entries |-> 8, first |-> 2]>>

\* The sync managers 0 to 3.
axia_syncs ==
    <<[dir |-> "output", pdos |-> <<>>], [dir |-> "input", pdos |-> <<>>],
      [dir |-> "output", pdos |-> <<1>>], [dir |-> "input", pdos |-> <<2>>]>>

\* Each object that is registered, with the field its place is written to.
Regs(fields) ==
    LET objects == <<Control(1), Control(2)>> \o [i \in 1 .. 6 |-> Reading(i)]
                        \o <<Status, Counter>>
    IN  [k \in DOMAIN objects |-> [object |-> objects[k], offset |-> fields[k]]]
Counts == [i \in 1 .. 6 |-> <<"wrench_counts", i - 1>>]

\* Mutant: two fields of the offsets are swapped.
regs_swapped ==
    Regs(<<<<"control", 1>>, <<"control", 2>>>> \o Counts
            \o <<<<"sample_counter", 0>>, <<"status_code", 0>>>>)

make_domain_regs ==
    Regs(<<<<"control", 1>>, <<"control", 2>>>> \o Counts
            \o <<<<"status_code", 0>>, <<"sample_counter", 0>>>>)

\* AxiaPdoOffsets
Fields == Range(Counts) \cup {<<"status_code", 0>>, <<"sample_counter", 0>>,
                               <<"control", 1>>, <<"control", 2>>}
Syncs == DOMAIN axia_syncs

\* The objects of a sync manager in the order of its PDOs.
Content(s) ==
    FlattenSeq([k \in DOMAIN axia_syncs[s].pdos |->
        LET pdo == axia_pdos[axia_syncs[s].pdos[k]]
        IN  SubSeq(axia_pdo_entries, pdo.first + 1, pdo.first + pdo.entries)])

\* The fields of AxiaPdoOffsets that the values of a sample are read by: the forces
\* in x, y and z, the torques, the status code and the sample counter.
ReadBy == Counts \o <<<<"status_code", 0>>, <<"sample_counter", 0>>>>

----------------------------------------------------------------------------

VARIABLES
    pc,       \* "register" or "active"
    layout,   \* external: the place of each sync manager that is in the domain
    size,     \* external: the words of the domain
    n,        \* the registrations done
    offsets,  \* offsets_
    image,    \* the process data: at each place what was put there
    sample,   \* the last sample read
    wire,     \* what the sensor has been sent, by object
    frames    \* the frames received

vars == <<pc, layout, size, n, offsets, image, sample, wire, frames>>

\* What is in a word: its name, and the frame it came with.
Word(object, frame) == <<object[1], object[2], frame>>
Nothing == Word(<<"nothing", 0>>, 0)
ControlWords == {Word(<<"control_word", bit>>, 0) : bit \in {0, 1}}
Zero == Word(<<"zero", 0>>, 0)

TypeOK ==
    /\ pc \in {"register", "active"}
    /\ DOMAIN layout \subseteq Syncs
    /\ n \in 0 .. Len(make_domain_regs)
    /\ DOMAIN offsets = {make_domain_regs[k].offset : k \in 1 .. n}
    /\ \A f \in DOMAIN offsets : offsets[f] < size
    /\ pc = "active" => DOMAIN image = 0 .. size - 1 /\ DOMAIN offsets = Fields
    /\ frames \in 0 .. MaxFrames

Init ==
    /\ pc = "register"
    /\ layout = <<>> /\ size = 0 /\ n = 0 /\ offsets = <<>>
    /\ image = <<>> /\ sample = <<>> /\ wire = <<>> /\ frames = 0

\* A function with a place more.
With(f, x, place) == [y \in DOMAIN f \cup {x} |-> IF y = x THEN place ELSE f[y]]

\* Where an object is in a domain.
PlaceIn(places, object) ==
    LET s == CHOOSE t \in DOMAIN places : Contains(Content(t), object)
    IN  places[s] + SelectInSeq(Content(s), LAMBDA o : o = object) - 1

\* ecrt_domain_reg_pdo_entry_list, one entry at a time.
Register ==
    /\ pc = "register" /\ n < Len(make_domain_regs)
    /\ LET reg == make_domain_regs[n + 1]
       IN  \E s \in Syncs, gap \in Gaps :
            /\ Contains(Content(s), reg.object)
            /\ IF s \in DOMAIN layout
                 THEN gap = 0 /\ UNCHANGED <<layout, size>>
                 ELSE /\ layout' = With(layout, s, size + gap)
                      /\ size' = size + gap + Len(Content(s))
            /\ offsets' = With(offsets, reg.offset, PlaceIn(layout', reg.object))
    /\ n' = n + 1
    /\ UNCHANGED <<pc, image, sample, wire, frames>>

Activate ==
    /\ pc = "register" /\ n = Len(make_domain_regs)
    /\ pc' = "active"
    /\ image' = [w \in 0 .. size - 1 |-> Nothing]
    /\ UNCHANGED <<layout, size, n, offsets, sample, wire, frames>>

\* External: the sync managers of one direction, and what is in their words.
Of(dir) == {s \in DOMAIN layout : axia_syncs[s].dir = dir}
ObjectAt(s, w) == Content(s)[w - layout[s] + 1]
WordsOf(s) == layout[s] .. layout[s] + Len(Content(s)) - 1

\* A frame comes back with the inputs of the sensor.
Received(img, frame) ==
    [w \in DOMAIN img |->
        IF \E s \in Of("input") : w \in WordsOf(s)
          THEN LET s == CHOOSE t \in Of("input") : w \in WordsOf(t)
               IN  Word(ObjectAt(s, w), frame)
          ELSE img[w]]

\* A frame is sent with the outputs.
Sent(img) ==
    LET s == CHOOSE t \in Of("output") : TRUE
    IN  [o \in Range(Content(s)) |-> img[PlaceIn(layout, o)]]

\* write_control_
written_control(img, bit) ==
    [img EXCEPT ![offsets[<<"control", 1>>]] = Word(<<"control_word", bit>>, 0),
                ![offsets[<<"control", 2>>]] = Zero]

read ==
    /\ pc = "active" /\ frames < MaxFrames
    /\ frames' = frames + 1
    /\ LET received == Received(image, frames')
       IN  /\ sample' = [k \in DOMAIN ReadBy |-> received[offsets[ReadBy[k]]]]
           /\ image' = written_control(received, 0)
    /\ wire' = Sent(image')
    /\ UNCHANGED <<pc, layout, size, n, offsets>>

\* One half of pulse_control_bit_, with its cycle_once_.
pulse(bit) ==
    /\ pc = "active" /\ frames < MaxFrames
    /\ frames' = frames + 1
    /\ image' = Received(written_control(image, bit), frames')
    /\ wire' = Sent(image')
    /\ UNCHANGED <<pc, layout, size, n, offsets, sample>>

\* Shutdown: the next activation lays the domain out again.
shutdown ==
    /\ pc = "active"
    /\ pc' = "register"
    /\ layout' = <<>> /\ size' = 0 /\ n' = 0 /\ offsets' = <<>>
    /\ image' = <<>> /\ sample' = <<>> /\ wire' = <<>> /\ frames' = 0

Next ==
    \/ Register \/ Activate \/ read \/ shutdown
    \/ \E bit \in {0, 1} : pulse(bit)

Spec == Init /\ [][Next]_vars

----------------------------------------------------------------------------
(* Properties. *)

\* Every object that is registered is in a PDO of a sync manager, so that no
\* activation fails for it.
EveryObjectMapped ==
    pc = "register" /\ n < Len(make_domain_regs) =>
        \E s \in Syncs : Contains(Content(s), make_domain_regs[n + 1].object)

\* What the values of a sample are, in the manual of the sensor.
Meaning == [i \in 1 .. 6 |-> Reading(i)] \o <<Status, Counter>>

\* Each value of a sample is of the object it is named after, and all are of the
\* same frame: no table, slice, registration or offset mixes two of them up.
SampleIsOneFrame ==
    sample # <<>> =>
        \E frame \in 1 .. frames : \A k \in DOMAIN sample : sample[k] = Word(Meaning[k], frame)

\* What the sensor is sent are its two control words as the driver wrote them last,
\* and nothing else of the process data.
ControlOnWire ==
    wire # <<>> =>
        /\ DOMAIN wire = {Control(1), Control(2)}
        /\ wire[Control(1)] \in ControlWords /\ wire[Control(2)] = Zero

\* The tables, the registration and the accesses agree in both directions.
LayoutAgrees == TypeOK /\ EveryObjectMapped /\ SampleIsOneFrame /\ ControlOnWire
================================================================================
