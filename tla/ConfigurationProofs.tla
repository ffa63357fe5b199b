-------------------------- MODULE ConfigurationProofs --------------------------
(***************************************************************************)
(* How the driver is set up, for any widths, rates, buses and layouts.     *)
(* The search finds the slave that is configured or fails with a reason;   *)
(* the parameters are what the hardware description says, or it is         *)
(* refused; the process data is read and written where it lies.  The       *)
(* parts are proved each of its own specification, and the last section    *)
(* takes the results to the configuration that runs them.                  *)
(***************************************************************************)
EXTENDS MCConfiguration, SequenceTheorems, TLAPS

----------------------------------------------------------------------------
(* The slave search. *)

\* A search has passed the slaves before next, and over a bus that did not change
\* none of those was looked for; a slave that was found is at next.
SearchInv ==
    /\ TypeOK
    /\ next <= count
    /\ pc = "found" => slave.position = next
    /\ SlaveIsWanted
    /\ pc = "search" /\ steady =>
        /\ count = Len(bus)
        /\ \A i \in 0 .. next - 1 : ~Matches(slave, At(bus, i), i)

\* A bus is a sequence of slaves within its bound.
LEMMA BusIsSequence ==
    ASSUME NEW b \in Buses
    PROVE  /\ Len(b) \in 0 .. MaxSlaves
           /\ \A i \in Nat : On(b, i) => At(b, i) \in Slaves
<1>1. PICK len \in 0 .. MaxSlaves : b \in [1 .. len -> Slaves]
    BY DEF Buses
<1>2. len \in Nat /\ MaxSlaves \in Nat
    BY SearchAssumption
<1>3. Len(b) = len
    BY <1>1, <1>2
<1> QED
    BY <1>1, <1>2, <1>3 DEF On, At

LEMMA SearchInitially == Init => SearchInv
<1> SUFFICES ASSUME Init PROVE SearchInv
    OBVIOUS
<1>1. wanted \in Places /\ slave \in Places /\ MaxSlaves \in Nat
    BY SearchAssumption DEF Init, Places
<1>2. TypeOK
  <2>1. pinned \in BOOLEAN /\ steady \in BOOLEAN
      BY Zenon DEF Init
  <2> QED
      BY <1>1, <2>1 DEF Init, TypeOK
<1> QED
    BY <1>2 DEF Init, SearchInv, SlaveIsWanted

\* What a search that goes on leaves behind it.
LEMMA PassedKept ==
    ASSUME SearchInv, PassSlave
    PROVE  pc' = "search" /\ steady' =>
             /\ count' = Len(bus')
             /\ \A i \in 0 .. next' - 1 : ~Matches(slave', At(bus', i), i)
<1>1. /\ pc = "search" /\ next \in Nat /\ next' = next + 1
      /\ UNCHANGED <<bus, slave, count, steady>>
      /\ ~Matches(slave, At(bus, next), next)
    BY DEF PassSlave, SearchInv, TypeOK
<1>2. \A i \in 0 .. next' - 1 : i \in 0 .. next - 1 \/ i = next
    BY <1>1
<1> QED
    BY <1>1, <1>2 DEF SearchInv

LEMMA SearchKept ==
    ASSUME SearchInv, [Next]_vars
    PROVE  SearchInv'
<1>1. /\ Len(bus) \in 0 .. MaxSlaves /\ MaxSlaves \in Nat
      /\ count \in Nat /\ next \in Nat /\ count <= MaxSlaves
      /\ \A i \in Nat : On(bus, i) => At(bus, i) \in Slaves
    BY BusIsSequence, SearchAssumption DEF SearchInv, TypeOK
<1>2. CASE Plug
    BY <1>2 DEF Plug, SearchInv, TypeOK, SlaveIsWanted
<1>3. CASE Request
    BY <1>1, <1>3 DEF Request, SearchInv, TypeOK, SlaveIsWanted
<1>4. CASE SkipSlave
  <2>1. steady' \in BOOLEAN /\ ~steady'
      BY <1>4, Zenon DEF SkipSlave
  <2>2. next' \in 0 .. MaxSlaves /\ next' <= count /\ pc' = "search"
        /\ UNCHANGED <<bus, wanted, slave, pc, count, pinned>>
      BY <1>1, <1>4 DEF SkipSlave
  <2> QED
      BY <2>1, <2>2 DEF SearchInv, TypeOK, SlaveIsWanted
<1>5. CASE PassSlave
  <2>1. TypeOK' /\ next' <= count' /\ pc' = "search" /\ SlaveIsWanted'
      BY <1>1, <1>5 DEF PassSlave, SearchInv, TypeOK, SlaveIsWanted
  <2> QED
      BY <1>5, <2>1, PassedKept DEF SearchInv
<1>6. CASE Find
  <2>1. /\ At(bus, next) \in Slaves /\ Matches(slave, At(bus, next), next)
        /\ slave' = [alias |-> At(bus, next).alias, position |-> next]
      BY <1>1, <1>6 DEF Find
  <2>2. slave' \in Places /\ slave'.position = next /\ slave'.alias = At(bus, next).alias
      BY <1>1, <2>1 DEF Slaves, Places
  <2>3. slave.position = next /\ (slave.alias = 0 \/ At(bus, next).alias = slave.alias)
      BY <2>1 DEF Matches
  <2>4. SlaveIsWanted'
      BY <1>6, <2>2, <2>3 DEF Find, SearchInv, SlaveIsWanted
  <2> QED
      BY <1>6, <2>2, <2>4 DEF Find, SearchInv, TypeOK
<1>7. CASE Miss
    BY <1>7 DEF Miss, SearchInv, TypeOK, SlaveIsWanted
<1>8. CASE Configure
    BY <1>8 DEF Configure, SearchInv, TypeOK, SlaveIsWanted
<1>9. CASE Shutdown
    BY <1>9 DEF Shutdown, SearchInv, TypeOK, SlaveIsWanted
<1>10. CASE NewDriver
    BY <1>10 DEF NewDriver, SearchInv, TypeOK, SlaveIsWanted
<1>11. CASE UNCHANGED vars
    BY <1>11 DEF vars, SearchInv, TypeOK, SlaveIsWanted
<1> QED
    BY <1>2, <1>3, <1>4, <1>5, <1>6, <1>7, <1>8, <1>9, <1>10, <1>11 DEF Next

THEOREM SearchInvariant == Spec => []SearchInv
BY SearchInitially, SearchKept, PTL DEF Spec

\* The slave that is configured is the one that was found, except where its alias
\* makes a position relative and is not that of the first slave.
LEMMA FoundIsConfigured == SearchInv => ConfiguredIsFound
<1> SUFFICES ASSUME SearchInv, pc = "found"
             PROVE  IsAddressed(bus, slave, next)
                      <=> ~AliasIsRelative \/ slave.alias = 0 \/ IsAnchor(bus, slave.alias, 0)
    BY DEF ConfiguredIsFound
<1>1. slave.position = next /\ next \in Nat /\ Len(bus) \in Nat
    BY BusIsSequence, SearchAssumption DEF SearchInv, TypeOK
<1>2. ASSUME NEW a \in 0 .. Len(bus) - 1 PROVE next = a + slave.position <=> a = 0
    BY <1>1, <1>2
<1>3. IsAnchor(bus, slave.alias, 0) => 0 \in 0 .. Len(bus) - 1
    BY <1>1 DEF IsAnchor, On
<1> QED
    BY <1>1, <1>2, <1>3 DEF IsAddressed

\* What the driver looks for is what the hardware description allows, at every
\* activation and whatever was on the bus at earlier ones, and so is what it configures.
THEOREM SearchStaysTrue == Spec => []SearchIsTrue
<1>1. SearchInv => SearchIsTrue
    BY FoundIsConfigured DEF SearchInv, SearchIsTrue
<1> QED
    BY <1>1, SearchInvariant, PTL

\* A driver that found its sensor finds the same one again or fails, and over a bus
\* that does not change it fails only when the slave it found has another alias now.
THEOREM SearchHasReason == Spec => SearchesAgree
<1>1. SearchInv => [Find /\ pinned /\ slave.alias # 0 => slave' = slave]_vars
  <2> SUFFICES ASSUME SearchInv, Find, slave.alias # 0 PROVE slave' = slave
      OBVIOUS
  <2>1. slave.position = next /\ At(bus, next).alias = slave.alias
      BY DEF Find, Matches
  <2>2. slave \in Places /\ slave' = [alias |-> slave.alias, position |-> slave.position]
      BY <2>1 DEF Find, SearchInv, TypeOK
  <2> QED
      BY <2>2 DEF Places
<1>2. SearchInv =>
        [Miss /\ steady =>
           \A i \in 0 .. Len(bus) - 1 :
             Matches(wanted, At(bus, i), i) => pinned /\ slave.alias # At(bus, i).alias]_vars
  <2> SUFFICES ASSUME SearchInv, Miss, steady,
                      NEW i \in 0 .. Len(bus) - 1, Matches(wanted, At(bus, i), i)
               PROVE  pinned /\ slave.alias # At(bus, i).alias
      OBVIOUS
  <2>1. ~Matches(slave, At(bus, i), i)
      BY DEF SearchInv, Miss
  <2> QED
      BY <2>1 DEF SearchInv, SlaveIsWanted, Matches
<1> QED
    BY <1>1, <1>2, SearchInvariant, PTL DEF SearchesAgree, SameSlaveAgain, MissHasReason

----------------------------------------------------------------------------
(* The hardware parameters. *)

AnyText == [kind : Parameters!NoNumber \cup {"number"}, number : Int]

\* What on_init made of the texts it was given.
ParametersInv ==
    /\ texts \in [Parameters!Keys -> AnyText]
    /\ outcome = "parsed" =>
          /\ \A k \in Parameters!Keys : Parameters!ValueOf(k) # Parameters!Nothing
          /\ params = [k \in Parameters!Keys |-> Parameters!ValueOf(k).number]
    /\ outcome = "rejected" =>
          \E k \in Parameters!Keys : Parameters!ValueOf(k) = Parameters!Nothing

\* The widths and the rates of the constants.
LEMMA WidthsAndRates ==
    /\ Word16 \in Nat /\ Word32 \in Nat /\ Word64 \in Nat
    /\ 16 < Word16 /\ Word16 < Word32 /\ Word32 < Word64
    /\ Grain \in Nat /\ Grain % 2 = 1 /\ Grain > 0
    /\ SampleRates \in [0 .. 3 -> {m \in Nat \ {0} : m % Grain = 0}]
    /\ Numbers \subseteq Int
<1>1. Parameters!WidthAssumption /\ Parameters!RateAssumption
    BY PartsAssumption DEF PartsAssumption
<1>2. Grain \in Nat /\ Grain % 2 = 1
    BY <1>1 DEF Parameters!RateAssumption
<1>3. Grain > 0
    BY <1>2
<1> QED
    BY <1>1, <1>2, <1>3 DEF Parameters!WidthAssumption, Parameters!RateAssumption

\* The largest value of an integer key has the width of the key.
LEMMA BoundIs ==
    /\ \A k \in Parameters!IntegerKeys :
          Parameters!Bound(k) \in Nat /\ Parameters!Bound(k) < Word32
    /\ \A k \in {"vendor_id", "product_code", "revision", "master_index",
                 "runtime_diagnostic_sdo_timeout_ms"} : Parameters!Bound(k) = Word32 - 1
    /\ Parameters!Bound("slave_alias") = Word16 - 1
    /\ Parameters!Bound("slave_position") = Word16 - 1
    /\ Parameters!Bound("filter_selection") = 8
    /\ Parameters!Bound("calibration_slot") = 1
    /\ Parameters!Bound("sample_rate_code") = 3
BY WidthsAndRates DEF Parameters!Bound, Parameters!IntegerKeys

\* parse_u8, parse_u16 and parse_u32 give the number that was written when it is in
\* range, and else nothing, or that of the unsigned long a negative number stands for.
LEMMA IntegerIs ==
    ASSUME NEW k \in Parameters!IntegerKeys, NEW t \in AnyText
    PROVE  LET v == Parameters!Integer(k, t)
           IN  /\ v # Parameters!Nothing =>
                    /\ t.kind = "number" /\ v.number \in 0 .. Parameters!Bound(k)
                    /\ v = Parameters!Number(v.number)
                    /\ v.number \in {t.number, t.number + Word64}
                    /\ t.number >= 0 => v.number = t.number
               /\ t.kind = "number" /\ t.number \in 0 .. Parameters!Bound(k) =>
                    v = Parameters!Number(t.number)
<1>1. t.number \in Int /\ Parameters!Bound(k) \in Nat /\ Parameters!Bound(k) < Word64
    BY BoundIs, WidthsAndRates DEF AnyText
<1> QED
    BY <1>1, WidthsAndRates
       DEF Parameters!Integer, Parameters!Unsigned, Parameters!Number, Parameters!Nothing,
           Parameters!Text

\* A number is a value, and the value of no number is none.
LEMMA NumberIs ==
    \A i \in Int : /\ Parameters!Number(i) # Parameters!Nothing
                   /\ Parameters!Number(i).number = i
                   /\ Parameters!Number(i).kind = "number"
                   /\ Parameters!Number(i) \in AnyText
BY DEF Parameters!Number, Parameters!Nothing, Parameters!Text, AnyText

\* parse_bool_parameter takes two words and two numbers.
LEMMA BooleanIs ==
    ASSUME NEW t \in AnyText
    PROVE  LET v == Parameters!Boolean(t)
           IN  /\ v \in {Parameters!Nothing, Parameters!Number(0), Parameters!Number(1)}
               /\ v # Parameters!Nothing <=>
                    \/ t.kind \in {"true", "false"}
                    \/ t \in {Parameters!Number(0), Parameters!Number(1)}
               /\ v # Parameters!Nothing /\ t.kind = "number" => v.number = t.number
               /\ t.kind = "false" => v = Parameters!Number(0)
<1>1. CASE t.kind = "true"
    BY <1>1 DEF Parameters!Boolean, Parameters!Number, Parameters!Nothing, Parameters!Text
<1>2. CASE t.kind = "false"
    BY <1>2 DEF Parameters!Boolean, Parameters!Number, Parameters!Nothing, Parameters!Text
<1>3. CASE t = Parameters!Number(1)
    BY <1>3 DEF Parameters!Boolean, Parameters!Number, Parameters!Nothing, Parameters!Text
<1>4. CASE t = Parameters!Number(0)
    BY <1>4 DEF Parameters!Boolean, Parameters!Number, Parameters!Nothing, Parameters!Text
<1>5. CASE /\ t.kind \notin {"true", "false"}
           /\ t # Parameters!Number(0) /\ t # Parameters!Number(1)
    BY <1>5 DEF Parameters!Boolean, Parameters!Number, Parameters!Nothing, Parameters!Text
<1> QED
    BY <1>1, <1>2, <1>3, <1>4, <1>5

\* parse_positive_double gives back what it takes.
LEMMA PositiveIs ==
    ASSUME NEW t \in AnyText
    PROVE  /\ Parameters!Positive(t) # Parameters!Nothing <=> t.kind = "number" /\ t.number > 0
           /\ Parameters!Positive(t) # Parameters!Nothing => Parameters!Positive(t) = t
BY DEF Parameters!Positive, Parameters!Nothing, Parameters!Text, AnyText

\* std::to_string is off by less than half of the last digit, as no rate lies in the
\* middle of two; what is less than half of the first digit prints as zero.
LEMMA PrintedIs ==
    ASSUME NEW m \in Nat
    PROVE  LET v == Parameters!Printed(m)
           IN  /\ v = Parameters!Number(v.number) /\ v.number \in Nat
               /\ -Grain < 2 * (v.number - m) /\ 2 * (v.number - m) < Grain
               /\ v.number > 0 <=> 2 * m > Grain
<1> DEFINE q == (2 * m + Grain) \div (2 * Grain)
           v == q * Grain
<1>1. Grain \in Nat /\ Grain > 0 /\ Grain % 2 = 1
    BY WidthsAndRates
<1>2. q \in Nat /\ q * (2 * Grain) <= 2 * m + Grain /\ 2 * m + Grain < (q + 1) * (2 * Grain)
    BY <1>1
<1>3. v \in Nat /\ 2 * v <= 2 * m + Grain /\ 2 * m + Grain < 2 * v + 2 * Grain
    BY <1>1, <1>2
<1>4. 2 * v # 2 * m + Grain
    BY <1>1, <1>3
<1>5. v > 0 <=> 2 * m > Grain
  <2>1. v = 0 \/ v >= Grain
      BY <1>1, <1>2
  <2> QED
      BY <1>1, <1>3, <1>4, <2>1
<1>6. Parameters!Printed(m) = Parameters!Number(v)
    BY DEF Parameters!Printed
<1> HIDE DEF v, q
<1> QED
    BY <1>1, <1>3, <1>4, <1>5, <1>6, NumberIs

\* The text that is parsed for a key: the one given, or its default.
LEMMA TextIs ==
    ASSUME texts \in [Parameters!Keys -> AnyText], NEW k \in Parameters!Keys
    PROVE  /\ Parameters!TextOf(k) \in AnyText
           /\ Parameters!Given(k) => Parameters!TextOf(k) = texts[k]
           /\ ~Parameters!Given(k) => Parameters!TextOf(k) = Parameters!Default(k)
<1>1. Parameters!Default(k) \in AnyText
  <2>1. Grain \in Int /\ 10 * Grain \in Int
      BY WidthsAndRates
  <2> QED
      BY <2>1
         DEF Parameters!Default, Parameters!Text, Parameters!Number, Parameters!Identity,
             Parameters!NoNumber, AnyText
<1> QED
    BY <1>1 DEF Parameters!TextOf

\* The defaults of the keys that have a number or a word for one.
LEMMA DefaultIs ==
    /\ Parameters!Default("slave_position").kind = "empty"
    /\ \A k \in Parameters!IntegerKeys \ {"slave_position"} :
          \E i \in 0 .. Parameters!Bound(k) : Parameters!Default(k) = Parameters!Number(i)
    /\ Parameters!Default("runtime_diagnostic_sdo_timeout_ms") = Parameters!Number(5)
    /\ \A k \in Parameters!BooleanKeys : Parameters!Default(k).kind \in {"true", "false"}
    /\ \A k \in {"set_bias_on_activate", "clear_bias_on_activate"} :
          Parameters!Default(k).kind = "false"
    /\ \A k \in {"counts_per_force", "counts_per_torque"} :
          Parameters!Default(k) = Parameters!Number(10 * Grain)
<1>1. ASSUME NEW k \in Parameters!IntegerKeys \ {"slave_position"}
      PROVE  \E i \in 0 .. Parameters!Bound(k) : Parameters!Default(k) = Parameters!Number(i)
  <2>1. CASE k \in {"vendor_id", "product_code", "revision"}
    <3>1. /\ Parameters!Default("vendor_id") = Parameters!Number(1)
          /\ Parameters!Default("product_code") = Parameters!Number(2)
          /\ Parameters!Default("revision") = Parameters!Number(1)
        BY DEF Parameters!Default, Parameters!Identity
    <3>2. 1 \in 0 .. Parameters!Bound(k) /\ 2 \in 0 .. Parameters!Bound(k)
        BY <2>1, BoundIs, WidthsAndRates
    <3> QED
        BY <2>1, <3>1, <3>2
  <2>2. CASE k = "runtime_diagnostic_sdo_timeout_ms"
    <3>1. Parameters!Default(k) = Parameters!Number(5)
        BY <2>2 DEF Parameters!Default, Parameters!Identity
    <3>2. 5 \in 0 .. Parameters!Bound(k)
        BY <2>2, BoundIs, WidthsAndRates
    <3> QED
        BY <3>1, <3>2
  <2>3. CASE k = "sample_rate_code"
    <3>1. Parameters!Default(k) = Parameters!Number(1)
        BY <2>3 DEF Parameters!Default, Parameters!Identity
    <3>2. 1 \in 0 .. Parameters!Bound(k)
        BY <2>3, BoundIs
    <3> QED
        BY <3>1, <3>2
  <2>4. CASE k \in {"master_index", "slave_alias", "filter_selection", "calibration_slot"}
    <3>1. Parameters!Default(k) = Parameters!Number(0)
        BY <2>4 DEF Parameters!Default, Parameters!Identity
    <3>2. 0 \in 0 .. Parameters!Bound(k)
        BY BoundIs
    <3> QED
        BY <3>1, <3>2
  <2> QED
      BY <2>1, <2>2, <2>3, <2>4 DEF Parameters!IntegerKeys
<1>2. /\ Parameters!Default("slave_position").kind = "empty"
      /\ Parameters!Default("runtime_diagnostic_sdo_timeout_ms") = Parameters!Number(5)
    BY DEF Parameters!Default, Parameters!Identity, Parameters!Text
<1>3. /\ \A k \in Parameters!BooleanKeys : Parameters!Default(k).kind \in {"true", "false"}
      /\ \A k \in {"set_bias_on_activate", "clear_bias_on_activate"} :
            Parameters!Default(k).kind = "false"
    BY DEF Parameters!Default, Parameters!Identity, Parameters!Text, Parameters!BooleanKeys
<1>4. \A k \in {"counts_per_force", "counts_per_torque"} :
          Parameters!Default(k) = Parameters!Number(10 * Grain)
    BY DEF Parameters!Default, Parameters!Identity
<1> QED
    BY <1>1, <1>2, <1>3, <1>4

\* What the documentation allows for each kind of key.
LEMMA LegalIs ==
    ASSUME NEW k, NEW t
    PROVE  /\ k = "runtime_diagnostic_sdo_timeout_ms" =>
                 Parameters!Legal(k, t) =
                    (t.kind = "number" /\ t.number \in 1 .. Parameters!Bound(k))
           /\ k \in Parameters!IntegerKeys \ {"runtime_diagnostic_sdo_timeout_ms"} =>
                 Parameters!Legal(k, t) =
                    (t.kind = "number" /\ t.number \in 0 .. Parameters!Bound(k))
           /\ k \in Parameters!RealKeys =>
                 Parameters!Legal(k, t) = (t.kind = "number" /\ t.number > 0)
           /\ k \in Parameters!BooleanKeys =>
                 Parameters!Legal(k, t) =
                    \/ t.kind \in {"true", "false"}
                    \/ t \in {Parameters!Number(0), Parameters!Number(1)}
<1> USE DEF Parameters!Legal, Parameters!IntegerKeys, Parameters!RealKeys,
            Parameters!BooleanKeys
<1>1. CASE k = "runtime_diagnostic_sdo_timeout_ms"
    BY <1>1
<1>2. CASE k \in Parameters!IntegerKeys \ {"runtime_diagnostic_sdo_timeout_ms"}
    BY <1>2
<1>3. CASE k \in Parameters!RealKeys
    BY <1>3
<1>4. CASE k \in Parameters!BooleanKeys
    BY <1>4
<1> QED
    BY <1>1, <1>2, <1>3, <1>4

\* The integer keys.
LEMMA IntegerKeyIs ==
    ASSUME texts \in [Parameters!Keys -> AnyText], NEW k \in Parameters!IntegerKeys
    PROVE  LET v == Parameters!ValueOf(k)
           IN  /\ v # Parameters!Nothing =>
                    /\ v.number \in 0 .. Parameters!Bound(k)
                    /\ k = "runtime_diagnostic_sdo_timeout_ms" => v.number > 0
                    /\ Parameters!Given(k) =>
                          /\ texts[k].kind = "number"
                          /\ v.number \in {texts[k].number, texts[k].number + Word64}
                          /\ texts[k].number >= 0 => v.number = texts[k].number
               /\ Parameters!Given(k) /\ Parameters!Legal(k, texts[k]) => v # Parameters!Nothing
               /\ ~Parameters!Given(k) /\ k # "slave_position" => v # Parameters!Nothing
<1> DEFINE t == Parameters!TextOf(k)
           w == Parameters!Integer(k, t)
<1>1. k \in Parameters!Keys /\ t \in AnyText
    BY TextIs DEF Parameters!Keys
<1>2. /\ w # Parameters!Nothing =>
            /\ t.kind = "number" /\ w.number \in 0 .. Parameters!Bound(k)
            /\ w = Parameters!Number(w.number)
            /\ w.number \in {t.number, t.number + Word64}
            /\ t.number >= 0 => w.number = t.number
      /\ t.kind = "number" /\ t.number \in 0 .. Parameters!Bound(k) =>
            w = Parameters!Number(t.number)
    BY <1>1, IntegerIs
<1>3. Parameters!Given(k) => t = texts[k]
    BY <1>1, TextIs
<1>4. ~Parameters!Given(k) /\ k # "slave_position" =>
          \E i \in 0 .. Parameters!Bound(k) : t = Parameters!Number(i)
    BY <1>1, TextIs, DefaultIs
<1>5. CASE k = "runtime_diagnostic_sdo_timeout_ms"
  <2>1. Parameters!ValueOf(k) = IF w = Parameters!Number(0) THEN Parameters!Nothing ELSE w
      BY <1>5 DEF Parameters!ValueOf, Parameters!NotZero, Parameters!BooleanKeys
  <2>2. Parameters!Bound(k) \in Nat
      BY BoundIs
  <2>3. ~Parameters!Given(k) => t = Parameters!Number(5) /\ 5 \in 0 .. Parameters!Bound(k)
      BY <1>1, <1>5, TextIs, DefaultIs, BoundIs, WidthsAndRates
  <2>4. Parameters!Given(k) /\ Parameters!Legal(k, texts[k]) =>
            t.kind = "number" /\ t.number \in 1 .. Parameters!Bound(k)
    <3>1. Parameters!Legal(k, texts[k]) =
              (texts[k].kind = "number" /\ texts[k].number \in 1 .. Parameters!Bound(k))
        BY <1>5, LegalIs
    <3> QED
        BY <1>3, <3>1
  <2> HIDE DEF t, w
  <2>5. Parameters!ValueOf(k) # Parameters!Nothing =>
            Parameters!ValueOf(k) = w /\ w.number > 0
      BY <1>2, <2>1, <2>2
  <2>6. ASSUME NEW i \in 1 .. Parameters!Bound(k), t.kind = "number", t.number = i
        PROVE  Parameters!ValueOf(k) # Parameters!Nothing
      BY <1>2, <2>1, <2>2, <2>6, NumberIs
  <2>7. Parameters!Given(k) /\ Parameters!Legal(k, texts[k]) =>
            Parameters!ValueOf(k) # Parameters!Nothing
      BY <2>4, <2>6
  <2>8. ~Parameters!Given(k) => Parameters!ValueOf(k) # Parameters!Nothing
      BY <2>2, <2>3, <2>6, NumberIs
  <2> QED
      BY <1>2, <1>3, <1>5, <2>5, <2>7, <2>8
<1>6. CASE k # "runtime_diagnostic_sdo_timeout_ms"
  <2>1. Parameters!ValueOf(k) = w
      BY <1>6
         DEF Parameters!ValueOf, Parameters!IntegerKeys, Parameters!BooleanKeys
  <2>2. Parameters!Given(k) /\ Parameters!Legal(k, texts[k]) =>
            t.kind = "number" /\ t.number \in 0 .. Parameters!Bound(k)
    <3>1. Parameters!Legal(k, texts[k]) =
              (texts[k].kind = "number" /\ texts[k].number \in 0 .. Parameters!Bound(k))
        BY <1>6, LegalIs
    <3> QED
        BY <1>3, <3>1
  <2>3. Parameters!Bound(k) \in Nat
      BY BoundIs
  <2> HIDE DEF t, w
  <2>4. ASSUME NEW i \in 0 .. Parameters!Bound(k), t.kind = "number", t.number = i
        PROVE  w # Parameters!Nothing
      BY <1>2, <2>3, <2>4, NumberIs
  <2>5. ~Parameters!Given(k) /\ k # "slave_position" => w # Parameters!Nothing
      BY <1>4, <2>3, <2>4, NumberIs
  <2> QED
      BY <1>2, <1>3, <1>6, <2>1, <2>2, <2>4, <2>5
<1> QED
    BY <1>5, <1>6

\* The boolean keys.
LEMMA BooleanKeyIs ==
    ASSUME texts \in [Parameters!Keys -> AnyText], NEW k \in Parameters!BooleanKeys
    PROVE  LET v == Parameters!ValueOf(k)
           IN  /\ v # Parameters!Nothing => v.number \in {0, 1}
               /\ v # Parameters!Nothing /\ Parameters!Given(k) /\ texts[k].kind = "number" =>
                    v.number = texts[k].number
               /\ Parameters!Given(k) =>
                    (v # Parameters!Nothing <=> Parameters!Legal(k, texts[k]))
               /\ ~Parameters!Given(k) => v # Parameters!Nothing
               /\ ~Parameters!Given(k) /\ k \in {"set_bias_on_activate", "clear_bias_on_activate"}
                    => v.number = 0
<1> DEFINE t == Parameters!TextOf(k)
           v == Parameters!Boolean(t)
<1>1. k \in Parameters!Keys /\ t \in AnyText
    BY TextIs DEF Parameters!Keys
<1>2. Parameters!ValueOf(k) = v
    BY DEF Parameters!ValueOf, Parameters!BooleanKeys
<1>3. /\ v \in {Parameters!Nothing, Parameters!Number(0), Parameters!Number(1)}
      /\ v # Parameters!Nothing <=>
            \/ t.kind \in {"true", "false"}
            \/ t \in {Parameters!Number(0), Parameters!Number(1)}
      /\ v # Parameters!Nothing /\ t.kind = "number" => v.number = t.number
      /\ t.kind = "false" => v = Parameters!Number(0)
    BY <1>1, BooleanIs
<1>4. /\ Parameters!Given(k) => t = texts[k]
      /\ ~Parameters!Given(k) => t.kind \in {"true", "false"}
      /\ ~Parameters!Given(k) /\ k \in {"set_bias_on_activate", "clear_bias_on_activate"}
            => t.kind = "false"
    BY <1>1, TextIs, DefaultIs
<1>5. Parameters!Legal(k, texts[k]) <=>
          \/ texts[k].kind \in {"true", "false"}
          \/ texts[k] \in {Parameters!Number(0), Parameters!Number(1)}
  <2>1. Parameters!Legal(k, texts[k]) =
            \/ texts[k].kind \in {"true", "false"}
            \/ texts[k] \in {Parameters!Number(0), Parameters!Number(1)}
      BY LegalIs
  <2> QED
      BY <2>1
<1> HIDE DEF t, v
<1>6. v # Parameters!Nothing => v.number \in {0, 1}
    BY <1>3, NumberIs
<1> QED
    BY <1>2, <1>3, <1>4, <1>5, <1>6, NumberIs

\* The scales.
LEMMA ScaleKeyIs ==
    ASSUME texts \in [Parameters!Keys -> AnyText],
           NEW k \in {"counts_per_force", "counts_per_torque"}
    PROVE  LET v == Parameters!ValueOf(k)
           IN  /\ v # Parameters!Nothing => v.number \in Int /\ v.number > 0
               /\ Parameters!Given(k) =>
                    /\ v # Parameters!Nothing <=> Parameters!Legal(k, texts[k])
                    /\ v # Parameters!Nothing => v = texts[k]
               /\ ~Parameters!Given(k) => v # Parameters!Nothing
<1> DEFINE t == Parameters!TextOf(k)
           v == Parameters!Positive(t)
<1>1. k \in Parameters!Keys /\ k \in Parameters!RealKeys /\ t \in AnyText
    BY TextIs DEF Parameters!Keys, Parameters!RealKeys
<1>2. Parameters!ValueOf(k) = v
    BY DEF Parameters!ValueOf, Parameters!BooleanKeys
<1>3. /\ v # Parameters!Nothing <=> t.kind = "number" /\ t.number > 0
      /\ v # Parameters!Nothing => v = t
      /\ t.number \in Int
    BY <1>1, PositiveIs DEF AnyText
<1>4. /\ Parameters!Given(k) => t = texts[k]
      /\ ~Parameters!Given(k) => t = Parameters!Number(10 * Grain)
    BY <1>1, TextIs, DefaultIs
<1>5. Parameters!Legal(k, texts[k]) = (texts[k].kind = "number" /\ texts[k].number > 0)
    BY <1>1, LegalIs
<1>6. 10 * Grain \in Int /\ 10 * Grain > 0
    BY WidthsAndRates
<1> HIDE DEF t, v
<1> QED
    BY <1>2, <1>3, <1>4, <1>5, <1>6, NumberIs

\* The sensor rate: the one given, or that of the code.
LEMMA SensorRateIs ==
    ASSUME texts \in [Parameters!Keys -> AnyText]
    PROVE  LET v == Parameters!SensorRate
               code == Parameters!ValueOf("sample_rate_code")
               given == Parameters!Given("expected_sensor_rate_hz")
               t == texts["expected_sensor_rate_hz"]
           IN  /\ v # Parameters!Nothing => v = Parameters!Number(v.number) /\ v.number \in Nat \ {0}
               /\ given =>
                    /\ v # Parameters!Nothing <=> t.kind = "number" /\ t.number > 0
                    /\ v # Parameters!Nothing => v = t
               /\ ~given =>
                    /\ v = Parameters!Nothing <=> code = Parameters!Nothing
                    /\ v # Parameters!Nothing =>
                          /\ code.number \in 0 .. 3
                          /\ v = Parameters!Number(SampleRates[code.number])
                          /\ v.number >= Grain
<1> DEFINE t == texts["expected_sensor_rate_hz"]
           code == Parameters!ValueOf("sample_rate_code")
<1>1. t \in AnyText /\ "sample_rate_code" \in Parameters!IntegerKeys
    BY DEF Parameters!Keys, Parameters!RealKeys, Parameters!IntegerKeys
<1>2. CASE Parameters!Given("expected_sensor_rate_hz")
  <2>1. Parameters!SensorRate = Parameters!Positive(t)
      BY <1>2 DEF Parameters!SensorRate
  <2>2. /\ Parameters!Positive(t) # Parameters!Nothing <=> t.kind = "number" /\ t.number > 0
        /\ Parameters!Positive(t) # Parameters!Nothing => Parameters!Positive(t) = t
      BY <1>1, PositiveIs
  <2>3. t.kind = "number" => t = Parameters!Number(t.number) /\ t.number \in Int
      BY <1>1 DEF AnyText, Parameters!Number
  <2> HIDE DEF t
  <2> QED
      BY <1>2, <2>1, <2>2, <2>3 DEF t
<1>3. CASE ~Parameters!Given("expected_sensor_rate_hz")
  <2>1. Parameters!Code = code
      BY DEF Parameters!Code, Parameters!ValueOf, Parameters!BooleanKeys
  <2>2. Parameters!SensorRate =
            IF code = Parameters!Nothing THEN Parameters!Nothing
                                         ELSE Parameters!Number(SampleRates[code.number])
      BY <1>3, <2>1 DEF Parameters!SensorRate
  <2>3. code # Parameters!Nothing => code.number \in 0 .. 3
      BY <1>1, IntegerKeyIs, BoundIs
  <2>4. ASSUME NEW c \in 0 .. 3
        PROVE  SampleRates[c] \in Nat \ {0} /\ SampleRates[c] >= Grain
    <3>1. SampleRates[c] \in Nat \ {0} /\ SampleRates[c] % Grain = 0
        BY WidthsAndRates
    <3>2. ASSUME NEW m \in Nat \ {0}, m < Grain PROVE m % Grain = m
        BY <3>2, WidthsAndRates
    <3> QED
        BY <3>1, <3>2, WidthsAndRates
  <2> HIDE DEF code
  <2>5. code # Parameters!Nothing =>
            /\ Parameters!SensorRate = Parameters!Number(SampleRates[code.number])
            /\ Parameters!SensorRate # Parameters!Nothing
            /\ Parameters!SensorRate.number = SampleRates[code.number]
            /\ SampleRates[code.number] \in Nat \ {0} /\ SampleRates[code.number] >= Grain
      BY <2>2, <2>3, <2>4, NumberIs
  <2> QED
      BY <1>3, <2>2, <2>3, <2>5 DEF code
<1> QED
    BY <1>2, <1>3

\* The read rate: the one given, or the sensor rate to the digit printed.
LEMMA ReadRateIs ==
    ASSUME texts \in [Parameters!Keys -> AnyText]
    PROVE  LET v == Parameters!ReadRate
               rate == Parameters!SensorRate
               given == Parameters!Given("expected_read_rate_hz")
               t == texts["expected_read_rate_hz"]
           IN  /\ v # Parameters!Nothing => v.number \in Nat \ {0}
               /\ given =>
                    /\ v # Parameters!Nothing <=> t.kind = "number" /\ t.number > 0
                    /\ v # Parameters!Nothing => v = t
               /\ ~given =>
                    /\ v # Parameters!Nothing <=>
                          rate # Parameters!Nothing /\ 2 * rate.number > Grain
                    /\ v # Parameters!Nothing =>
                          /\ -Grain < 2 * (v.number - rate.number)
                          /\ 2 * (v.number - rate.number) < Grain
<1> DEFINE t == texts["expected_read_rate_hz"]
           rate == Parameters!SensorRate
<1>1. t \in AnyText
    BY DEF Parameters!Keys, Parameters!RealKeys
<1>2. CASE Parameters!Given("expected_read_rate_hz")
  <2>1. Parameters!ReadRate = Parameters!Positive(t)
      BY <1>2 DEF Parameters!ReadRate
  <2>2. /\ Parameters!Positive(t) # Parameters!Nothing <=> t.kind = "number" /\ t.number > 0
        /\ Parameters!Positive(t) # Parameters!Nothing => Parameters!Positive(t) = t
      BY <1>1, PositiveIs
  <2>3. t.number \in Int
      BY <1>1 DEF AnyText
  <2> HIDE DEF t
  <2> QED
      BY <1>2, <2>1, <2>2, <2>3 DEF t
<1>3. CASE ~Parameters!Given("expected_read_rate_hz") /\ rate = Parameters!Nothing
    BY <1>3 DEF Parameters!ReadRate
<1>4. CASE ~Parameters!Given("expected_read_rate_hz") /\ rate # Parameters!Nothing
  <2> DEFINE p == Parameters!Printed(rate.number)
  <2>1. Parameters!ReadRate = Parameters!Positive(p)
      BY <1>4 DEF Parameters!ReadRate
  <2>2. rate.number \in Nat
      BY <1>4, SensorRateIs
  <2>3. /\ p = Parameters!Number(p.number) /\ p.number \in Nat
        /\ -Grain < 2 * (p.number - rate.number) /\ 2 * (p.number - rate.number) < Grain
        /\ p.number > 0 <=> 2 * rate.number > Grain
      BY <2>2, PrintedIs
  <2> HIDE DEF p, rate
  <2>4. p \in AnyText /\ p.kind = "number"
      BY <2>3, NumberIs
  <2>5. /\ Parameters!Positive(p) # Parameters!Nothing <=> p.number > 0
        /\ Parameters!Positive(p) # Parameters!Nothing => Parameters!Positive(p) = p
      BY <2>4, PositiveIs
  <2> QED
      BY <1>4, <2>1, <2>2, <2>3, <2>5 DEF rate
<1> QED
    BY <1>2, <1>3, <1>4

\* The texts are numbers, or none.
LEMMA ParametersInitially == Parameters!Init => ParametersInv
<1> SUFFICES ASSUME Parameters!Init PROVE ParametersInv
    OBVIOUS
<1>1. Parameters!Texts \subseteq AnyText
    BY WidthsAndRates
       DEF Parameters!Texts, Parameters!Text, Parameters!Number, Parameters!NoNumber, AnyText
<1>2. Parameters!Number(0) \in AnyText /\ Parameters!Text("absent") \in AnyText
    BY DEF Parameters!Text, Parameters!Number, Parameters!NoNumber, AnyText
<1>3. PICK j \in Parameters!Keys, k \in Parameters!Keys,
           s \in Parameters!Texts, t \in Parameters!Texts :
          texts = [i \in Parameters!Keys |->
                     IF i = j THEN s
                     ELSE IF i = k THEN t
                     ELSE IF i = "slave_position" THEN Parameters!Number(0)
                     ELSE Parameters!Text("absent")]
    BY DEF Parameters!Init
<1>4. texts \in [Parameters!Keys -> AnyText]
    BY <1>1, <1>2, <1>3
<1> QED
    BY <1>4 DEF Parameters!Init, ParametersInv

\* Parse decides on the values of the texts, which stay as they are.
LEMMA ParametersKept ==
    ASSUME ParametersInv, [Parameters!Next]_(Parameters!vars)
    PROVE  ParametersInv'
<1>1. texts' = texts
    BY DEF Parameters!Next, Parameters!Parse, Parameters!Keep, Parameters!vars
<1>2. \A k \in Parameters!Keys : Parameters!ValueOf(k)' = Parameters!ValueOf(k)
    BY <1>1
       DEF Parameters!ValueOf, Parameters!SensorRate, Parameters!ReadRate, Parameters!Code,
           Parameters!TextOf, Parameters!Given
<1>3. CASE Parameters!Parse
  <2>1. CASE \A k \in Parameters!Keys : Parameters!ValueOf(k) # Parameters!Nothing
    <3>1. outcome' = "parsed"
          /\ params' = [k \in Parameters!Keys |-> Parameters!ValueOf(k).number]
        BY <1>3, <2>1 DEF Parameters!Parse
    <3> QED
        BY <1>1, <1>2, <2>1, <3>1 DEF ParametersInv
  <2>2. CASE ~\A k \in Parameters!Keys : Parameters!ValueOf(k) # Parameters!Nothing
    <3>1. outcome' = "rejected"
        BY <1>3, <2>2 DEF Parameters!Parse
    <3> QED
        BY <1>1, <1>2, <2>2, <3>1 DEF ParametersInv
  <2> QED
      BY <2>1, <2>2
<1>4. CASE Parameters!Keep \/ UNCHANGED Parameters!vars
  <2>1. UNCHANGED <<texts, outcome, params>>
      BY <1>4 DEF Parameters!Keep, Parameters!vars
  <2> QED
      BY <1>2, <2>1 DEF ParametersInv
<1> QED
    BY <1>3, <1>4 DEF Parameters!Next

\* What on_init keeps is made of the texts, and of nothing else.
THEOREM ParametersInvariant == Parameters!Spec => []ParametersInv
BY ParametersInitially, ParametersKept, PTL DEF Parameters!Spec

\* The values of the rates.
LEMMA RatesAre ==
    /\ Parameters!ValueOf("expected_sensor_rate_hz") = Parameters!SensorRate
    /\ Parameters!ValueOf("expected_read_rate_hz") = Parameters!ReadRate
BY DEF Parameters!ValueOf, Parameters!BooleanKeys

\* What was parsed is in range, and as written.
LEMMA ParsedIs ==
    ParametersInv => Parameters!ParsedInRange /\ Parameters!ParsedAsWritten
<1> SUFFICES ASSUME ParametersInv, outcome = "parsed"
             PROVE  /\ \A k \in Parameters!IntegerKeys :
                         /\ params[k] \in 0 .. Parameters!Bound(k)
                         /\ k = "runtime_diagnostic_sdo_timeout_ms" => params[k] > 0
                    /\ \A k \in Parameters!RealKeys : params[k] > 0
                    /\ \A k \in Parameters!BooleanKeys : params[k] \in {0, 1}
                    /\ \A k \in Parameters!Keys :
                         Parameters!Given(k) /\ texts[k].kind = "number" =>
                             params[k] \in {texts[k].number, texts[k].number + Word64}
    BY DEF Parameters!ParsedInRange, Parameters!ParsedAsWritten, Parameters!Parsed,
           Parameters!IntegerKeys
<1>1. texts \in [Parameters!Keys -> AnyText]
    BY DEF ParametersInv
<1>2. \A k \in Parameters!Keys :
          /\ Parameters!ValueOf(k) # Parameters!Nothing
          /\ params[k] = Parameters!ValueOf(k).number
    BY DEF ParametersInv
<1>3. ASSUME NEW k \in Parameters!IntegerKeys
      PROVE  /\ params[k] \in 0 .. Parameters!Bound(k)
             /\ k = "runtime_diagnostic_sdo_timeout_ms" => params[k] > 0
             /\ Parameters!Given(k) /\ texts[k].kind = "number" =>
                    params[k] \in {texts[k].number, texts[k].number + Word64}
    BY <1>1, <1>2, IntegerKeyIs DEF Parameters!Keys
<1>4. ASSUME NEW k \in Parameters!BooleanKeys
      PROVE  /\ params[k] \in {0, 1}
             /\ Parameters!Given(k) /\ texts[k].kind = "number" => params[k] = texts[k].number
    BY <1>1, <1>2, BooleanKeyIs DEF Parameters!Keys
<1>5. ASSUME NEW k \in Parameters!RealKeys
      PROVE  /\ params[k] > 0
             /\ Parameters!Given(k) /\ texts[k].kind = "number" => params[k] = texts[k].number
  <2>1. /\ k \in Parameters!Keys
        /\ Parameters!ValueOf(k) # Parameters!Nothing /\ params[k] = Parameters!ValueOf(k).number
      BY <1>2 DEF Parameters!Keys
  <2>2. CASE k \in {"counts_per_force", "counts_per_torque"}
      BY <1>1, <2>1, <2>2, ScaleKeyIs
  <2>3. CASE k = "expected_sensor_rate_hz"
    <3>1. Parameters!ValueOf(k) = Parameters!SensorRate
        BY <2>3, RatesAre
    <3> QED
        BY <1>1, <2>1, <2>3, <3>1, SensorRateIs
  <2>4. CASE k = "expected_read_rate_hz"
    <3>1. Parameters!ValueOf(k) = Parameters!ReadRate
        BY <2>4, RatesAre
    <3> QED
        BY <1>1, <2>1, <2>4, <3>1, ReadRateIs
  <2> QED
      BY <2>2, <2>3, <2>4 DEF Parameters!RealKeys
<1> QED
    BY <1>3, <1>4, <1>5 DEF Parameters!Keys

\* A description is refused for a value that is not legal, for a slave that is not
\* given, or for the one rate that prints as zero; nothing else is taken.
LEMMA LegalIsAccepted == ParametersInv => Parameters!LegalAccepted
<1> SUFFICES ASSUME ParametersInv PROVE Parameters!LegalAccepted
    OBVIOUS
<1> DEFINE legal == \A k \in Parameters!Keys :
                        Parameters!Given(k) => Parameters!Legal(k, texts[k])
           vanishes == /\ Parameters!Given("expected_sensor_rate_hz")
                       /\ ~Parameters!Given("expected_read_rate_hz")
                       /\ 2 * texts["expected_sensor_rate_hz"].number < Grain
<1>1. texts \in [Parameters!Keys -> AnyText]
    BY DEF ParametersInv
<1>2. ASSUME outcome = "rejected", legal, ~vanishes, Parameters!Given("slave_position")
      PROVE  FALSE
  <2>1. ASSUME NEW k \in Parameters!IntegerKeys PROVE Parameters!ValueOf(k) # Parameters!Nothing
    <3>1. Parameters!Given(k) => Parameters!Legal(k, texts[k])
        BY <1>2 DEF Parameters!Keys
    <3> QED
        BY <1>1, <1>2, <3>1, IntegerKeyIs
  <2>2. ASSUME NEW k \in Parameters!BooleanKeys PROVE Parameters!ValueOf(k) # Parameters!Nothing
    <3>1. Parameters!Given(k) => Parameters!Legal(k, texts[k])
        BY <1>2 DEF Parameters!Keys
    <3> QED
        BY <1>1, <3>1, BooleanKeyIs
  <2>3. ASSUME NEW k \in {"counts_per_force", "counts_per_torque"}
        PROVE  Parameters!ValueOf(k) # Parameters!Nothing
    <3>1. Parameters!Given(k) => Parameters!Legal(k, texts[k])
        BY <1>2 DEF Parameters!Keys, Parameters!RealKeys
    <3> QED
        BY <1>1, <3>1, ScaleKeyIs
  <2>4. Parameters!SensorRate # Parameters!Nothing
        /\ (~Parameters!Given("expected_read_rate_hz") => 2 * Parameters!SensorRate.number > Grain)
    <3> DEFINE t == texts["expected_sensor_rate_hz"]
               rate == Parameters!SensorRate
    <3>1. "expected_sensor_rate_hz" \in Parameters!RealKeys
          /\ "expected_sensor_rate_hz" \in Parameters!Keys /\ t.number \in Int
        BY <1>1 DEF Parameters!RealKeys, Parameters!Keys, AnyText
    <3>2. CASE Parameters!Given("expected_sensor_rate_hz")
      <4>1. Parameters!Legal("expected_sensor_rate_hz", t)
          BY <1>2, <3>1, <3>2
      <4>2. Parameters!Legal("expected_sensor_rate_hz", t) = (t.kind = "number" /\ t.number > 0)
          BY <3>1, LegalIs
      <4>3. rate # Parameters!Nothing /\ rate = t
          BY <1>1, <3>2, <4>1, <4>2, SensorRateIs
      <4>4. ~Parameters!Given("expected_read_rate_hz") => ~(2 * t.number < Grain)
          BY <1>2, <3>2
      <4>5. 2 * t.number # Grain
          BY <3>1, WidthsAndRates
      <4>6. Grain \in Nat
          BY WidthsAndRates
      <4> HIDE DEF t, rate
      <4> QED
          BY <3>1, <4>3, <4>4, <4>5, <4>6 DEF rate
    <3>3. CASE ~Parameters!Given("expected_sensor_rate_hz")
      <4>1. Parameters!ValueOf("sample_rate_code") # Parameters!Nothing
          BY <2>1 DEF Parameters!IntegerKeys
      <4>2. rate # Parameters!Nothing /\ rate.number >= Grain /\ rate.number \in Nat
          BY <1>1, <3>3, <4>1, SensorRateIs
      <4>3. Grain \in Nat /\ Grain > 0
          BY WidthsAndRates
      <4> HIDE DEF rate
      <4> QED
          BY <4>2, <4>3 DEF rate
    <3> QED
        BY <3>2, <3>3
  <2>5. Parameters!ReadRate # Parameters!Nothing
    <3> DEFINE t == texts["expected_read_rate_hz"]
    <3>1. "expected_read_rate_hz" \in Parameters!RealKeys
          /\ "expected_read_rate_hz" \in Parameters!Keys
        BY DEF Parameters!RealKeys, Parameters!Keys
    <3>2. CASE Parameters!Given("expected_read_rate_hz")
      <4>1. Parameters!Legal("expected_read_rate_hz", t)
          BY <1>2, <3>1, <3>2
      <4>2. Parameters!Legal("expected_read_rate_hz", t) = (t.kind = "number" /\ t.number > 0)
          BY <3>1, LegalIs
      <4> QED
          BY <1>1, <3>2, <4>1, <4>2, ReadRateIs
    <3>3. CASE ~Parameters!Given("expected_read_rate_hz")
        BY <1>1, <2>4, <3>3, ReadRateIs
    <3> QED
        BY <3>2, <3>3
  <2>6. \A k \in Parameters!Keys : Parameters!ValueOf(k) # Parameters!Nothing
      BY <2>1, <2>2, <2>3, <2>4, <2>5, RatesAre DEF Parameters!Keys, Parameters!RealKeys
  <2> QED
      BY <1>2, <2>6 DEF ParametersInv
<1>3. ASSUME outcome = "parsed", NEW k \in Parameters!Keys, Parameters!Given(k)
      PROVE  \/ Parameters!Legal(k, texts[k])
             \/ k \in Parameters!IntegerKeys /\ texts[k].kind = "number" /\ texts[k].number < 0
  <2>1. Parameters!ValueOf(k) # Parameters!Nothing
      BY <1>3 DEF ParametersInv
  <2>2. texts[k].number \in Int
      BY <1>1 DEF AnyText
  <2>3. CASE k \in Parameters!IntegerKeys
    <3> DEFINE m == texts[k].number
    <3>1. /\ texts[k].kind = "number"
          /\ m >= 0 => m \in 0 .. Parameters!Bound(k)
          /\ m >= 0 /\ k = "runtime_diagnostic_sdo_timeout_ms" => m > 0
        BY <1>1, <1>3, <2>1, <2>3, IntegerKeyIs
    <3>2. CASE m < 0
        BY <2>3, <3>1, <3>2
    <3>3. CASE m >= 0 /\ k = "runtime_diagnostic_sdo_timeout_ms"
      <4>1. Parameters!Legal(k, texts[k]) =
                (texts[k].kind = "number" /\ texts[k].number \in 1 .. Parameters!Bound(k))
          BY <3>3, LegalIs
      <4>2. texts[k].number \in 1 .. Parameters!Bound(k)
          BY <2>2, <2>3, <3>1, <3>3, BoundIs
      <4> QED
          BY <3>1, <4>1, <4>2
    <3>4. CASE m >= 0 /\ k # "runtime_diagnostic_sdo_timeout_ms"
      <4>1. Parameters!Legal(k, texts[k]) =
                (texts[k].kind = "number" /\ texts[k].number \in 0 .. Parameters!Bound(k))
          BY <2>3, <3>4, LegalIs
      <4> QED
          BY <3>1, <3>4, <4>1
    <3> QED
        BY <2>2, <3>2, <3>3, <3>4
  <2>4. CASE k \in Parameters!BooleanKeys
      BY <1>1, <1>3, <2>1, <2>4, BooleanKeyIs
  <2>5. CASE k \in {"counts_per_force", "counts_per_torque"}
      BY <1>1, <1>3, <2>1, <2>5, ScaleKeyIs
  <2>6. CASE k \in {"expected_sensor_rate_hz", "expected_read_rate_hz"}
    <3>1. Parameters!Legal(k, texts[k]) = (texts[k].kind = "number" /\ texts[k].number > 0)
        BY <2>6, LegalIs DEF Parameters!RealKeys
    <3>2. texts[k].kind = "number" /\ texts[k].number > 0
        BY <1>1, <1>3, <2>1, <2>6, RatesAre, SensorRateIs, ReadRateIs
    <3> QED
        BY <3>1, <3>2
  <2> QED
      BY <2>3, <2>4, <2>5, <2>6 DEF Parameters!Keys, Parameters!RealKeys
<1> QED
    BY <1>2, <1>3 DEF Parameters!LegalAccepted, Parameters!Parsed

\* The rates that are not given follow from those that are.
LEMMA RatesFollowText == ParametersInv => Parameters!RatesFollow
<1> SUFFICES ASSUME ParametersInv, outcome = "parsed"
             PROVE  /\ ~Parameters!Given("expected_sensor_rate_hz") =>
                         params["expected_sensor_rate_hz"] = SampleRates[params["sample_rate_code"]]
                    /\ ~Parameters!Given("expected_read_rate_hz") =>
                         /\ -Grain < 2 * (params["expected_read_rate_hz"]
                                            - params["expected_sensor_rate_hz"])
                         /\ 2 * (params["expected_read_rate_hz"]
                                    - params["expected_sensor_rate_hz"]) < Grain
    BY DEF Parameters!RatesFollow, Parameters!Parsed
<1>1. texts \in [Parameters!Keys -> AnyText]
    BY DEF ParametersInv
<1>2. \A k \in Parameters!Keys :
          /\ Parameters!ValueOf(k) # Parameters!Nothing
          /\ params[k] = Parameters!ValueOf(k).number
    BY DEF ParametersInv
<1>3. /\ params["sample_rate_code"] = Parameters!ValueOf("sample_rate_code").number
      /\ params["expected_sensor_rate_hz"] = Parameters!SensorRate.number
      /\ params["expected_read_rate_hz"] = Parameters!ReadRate.number
      /\ Parameters!SensorRate # Parameters!Nothing /\ Parameters!ReadRate # Parameters!Nothing
    BY <1>2, RatesAre DEF Parameters!Keys, Parameters!IntegerKeys, Parameters!RealKeys
<1>4. ~Parameters!Given("expected_sensor_rate_hz") =>
          params["expected_sensor_rate_hz"] = SampleRates[params["sample_rate_code"]]
  <2>1. ASSUME ~Parameters!Given("expected_sensor_rate_hz")
        PROVE  LET code == Parameters!ValueOf("sample_rate_code")
               IN  /\ code.number \in 0 .. 3
                   /\ Parameters!SensorRate = Parameters!Number(SampleRates[code.number])
      BY <1>1, <1>3, <2>1, SensorRateIs
  <2> QED
      BY <1>3, <2>1, NumberIs, WidthsAndRates
<1>5. ~Parameters!Given("expected_read_rate_hz") =>
          /\ -Grain < 2 * (params["expected_read_rate_hz"] - params["expected_sensor_rate_hz"])
          /\ 2 * (params["expected_read_rate_hz"] - params["expected_sensor_rate_hz"]) < Grain
    BY <1>1, <1>3, ReadRateIs
<1> QED
    BY <1>4, <1>5

\* The fields of the control word do not reach into each other.
LEMMA ControlWordIs ==
    ASSUME NEW filter \in 0 .. 8, NEW slot \in 0 .. 1, NEW code \in 0 .. 3
    PROVE  LET word == (filter % 16) * 16 + (slot % 16) * 256 + (code % 16) * 4096
           IN  /\ word % 16 = 0
               /\ (word \div 16) % 16 = filter
               /\ (word \div 256) % 16 = slot
               /\ word \div 4096 = code
OBVIOUS

\* No bias without being asked for.
LEMMA BiasIsAsked == ParametersInv => Parameters!NoBiasUnasked
<1> SUFFICES ASSUME ParametersInv, outcome = "parsed" PROVE Parameters!NoBiasUnasked
    BY DEF Parameters!NoBiasUnasked, Parameters!Parsed
<1>1. texts \in [Parameters!Keys -> AnyText]
    BY DEF ParametersInv
<1>2. \A k \in Parameters!Keys :
          /\ Parameters!ValueOf(k) # Parameters!Nothing
          /\ params[k] = Parameters!ValueOf(k).number
    BY DEF ParametersInv
<1>3. /\ params["filter_selection"] \in 0 .. 8
      /\ params["calibration_slot"] \in 0 .. 1
      /\ params["sample_rate_code"] \in 0 .. 3
  <2>1. \A k \in {"filter_selection", "calibration_slot", "sample_rate_code"} :
            k \in Parameters!IntegerKeys /\ k \in Parameters!Keys
      BY DEF Parameters!IntegerKeys, Parameters!Keys
  <2> QED
      BY <1>1, <1>2, <2>1, IntegerKeyIs, BoundIs
<1>4. ASSUME NEW k \in {"set_bias_on_activate", "clear_bias_on_activate"}, ~Parameters!Given(k)
      PROVE  params[k] = 0
  <2>1. k \in Parameters!BooleanKeys /\ k \in Parameters!Keys
      BY DEF Parameters!BooleanKeys, Parameters!Keys
  <2> QED
      BY <1>1, <1>2, <1>4, <2>1, BooleanKeyIs
<1>5. LET word == Parameters!ControlWord
      IN  /\ word % 16 = 0
          /\ (word \div 16) % 16 = params["filter_selection"]
          /\ (word \div 256) % 16 = params["calibration_slot"]
          /\ word \div 4096 = params["sample_rate_code"]
  <2> DEFINE filter == params["filter_selection"]
             slot == params["calibration_slot"]
             code == params["sample_rate_code"]
             word == (filter % 16) * 16 + (slot % 16) * 256 + (code % 16) * 4096
  <2>1. Parameters!ControlWord = word
      BY DEF Parameters!ControlWord
  <2>2. filter \in 0 .. 8 /\ slot \in 0 .. 1 /\ code \in 0 .. 3
      BY <1>3
  <2> HIDE DEF filter, slot, code
  <2>3. /\ word % 16 = 0 /\ (word \div 16) % 16 = filter
        /\ (word \div 256) % 16 = slot /\ word \div 4096 = code
      BY ONLY <2>2, ControlWordIs
  <2> HIDE DEF word
  <2> QED
      BY <2>1, <2>3 DEF filter, slot, code
<1> QED
    BY <1>4, <1>5 DEF Parameters!NoBiasUnasked

\* The description is taken at its word or refused.
LEMMA InvIsAsWritten == ParametersInv => Parameters!ParametersAsWritten
BY ParsedIs, LegalIsAccepted, RatesFollowText, BiasIsAsked DEF Parameters!ParametersAsWritten

\* on_init: whatever the texts of the hardware description are, and whatever the
\* widths of the types and the rates of the codes, the parameters are in their ranges
\* and are those written, what is legal is accepted, the rates follow each other and
\* no bias is asked for that was not written.
THEOREM ParametersTrue == Parameters!Spec => []Parameters!ParametersAsWritten
BY ParametersInvariant, InvIsAsWritten, PTL

----------------------------------------------------------------------------
(* The process data. *)

\* A sequence is its elements.
LEMMA SequenceIs ==
    \A S : \A s \in Seq(S) : s = [i \in 1 .. Len(s) |-> s[i]]
OBVIOUS

\* What is behind a sequence comes after its elements.
LEMMA ConcatIs ==
    ASSUME NEW S, NEW a \in Seq(S), NEW b \in Seq(S)
    PROVE  a \o b = [i \in 1 .. Len(a) + Len(b) |->
                        IF i <= Len(a) THEN a[i] ELSE b[i - Len(a)]]
<1>1. a \o b \in Seq(S) /\ Len(a \o b) = Len(a) + Len(b)
    BY ConcatProperties
<1>2. a \o b = [i \in 1 .. Len(a \o b) |-> (a \o b)[i]]
    BY ONLY <1>1, SequenceIs
<1>3. \A i \in 1 .. Len(a) + Len(b) :
        (a \o b)[i] = IF i <= Len(a) THEN a[i] ELSE b[i - Len(a)]
    BY ConcatProperties
<1> QED
    BY ONLY <1>1, <1>2, <1>3

\* The tables are written as six members with a pair behind them, ...
LEMMA SixPair ==
    ASSUME NEW f, f = [i \in 1 .. 6 |-> f[i]], NEW y1, NEW y2
    PROVE  f \o <<y1, y2>> = [k \in 1 .. 8 |->
                IF k <= 6 THEN f[k] ELSE IF k = 7 THEN y1 ELSE y2]
<1> DEFINE c == <<y1, y2>>
           S == {f[i] : i \in 1 .. 6} \cup {y1, y2}
<1>1. Len(c) = 2 /\ c[1] = y1 /\ c[2] = y2 /\ c \in Seq(S)
    OBVIOUS
<1>2. f \in Seq(S) /\ Len(f) = 6
  <2>1. f \in [1 .. 6 -> S]
      OBVIOUS
  <2> QED
      BY <2>1
<1> HIDE DEF c, S
<1>3. f \o c = [k \in 1 .. Len(f) + Len(c) |-> IF k <= Len(f) THEN f[k] ELSE c[k - Len(f)]]
    BY ONLY ConcatIs, <1>1, <1>2
<1>4. f \o c = [k \in 1 .. 8 |-> IF k <= 6 THEN f[k] ELSE c[k - 6]]
    BY ONLY <1>1, <1>2, <1>3
<1>5. \A k \in 1 .. 8 : (IF k <= 6 THEN f[k] ELSE c[k - 6])
                            = IF k <= 6 THEN f[k] ELSE IF k = 7 THEN y1 ELSE y2
    BY ONLY <1>1
<1>6. f \o c = [k \in 1 .. 8 |-> IF k <= 6 THEN f[k] ELSE IF k = 7 THEN y1 ELSE y2]
    BY ONLY <1>4, <1>5
<1> QED
    BY <1>6 DEF c

\* ... and a pair before them.
LEMMA PairSixPair ==
    ASSUME NEW x1, NEW x2, NEW f, f = [i \in 1 .. 6 |-> f[i]], NEW y1, NEW y2
    PROVE  (<<x1, x2>> \o f) \o <<y1, y2>> = [k \in 1 .. 10 |->
                IF k = 1 THEN x1 ELSE IF k = 2 THEN x2 ELSE IF k <= 8 THEN f[k - 2]
                ELSE IF k = 9 THEN y1 ELSE y2]
<1> DEFINE a == <<x1, x2>>
           c == <<y1, y2>>
           S == {x1, x2} \cup {f[i] : i \in 1 .. 6} \cup {y1, y2}
<1>1. Len(c) = 2 /\ c[1] = y1 /\ c[2] = y2 /\ c \in Seq(S)
    OBVIOUS
<1>2. Len(a) = 2 /\ a[1] = x1 /\ a[2] = x2 /\ a \in Seq(S)
    OBVIOUS
<1>3. f \in Seq(S) /\ Len(f) = 6
  <2>1. f \in [1 .. 6 -> S]
      OBVIOUS
  <2> QED
      BY <2>1
<1> HIDE DEF a, c, S
<1> DEFINE b == a \o f
<1>4. b = [k \in 1 .. Len(a) + Len(f) |-> IF k <= Len(a) THEN a[k] ELSE f[k - Len(a)]]
    BY ONLY ConcatIs, <1>2, <1>3
<1>5. b = [k \in 1 .. 8 |-> IF k <= 2 THEN a[k] ELSE f[k - 2]]
    BY ONLY <1>2, <1>3, <1>4
<1>6. b \in Seq(S)
    BY ONLY <1>2, <1>3, ConcatProperties
<1> HIDE DEF b
<1>7. Len(b) = 8
    BY ONLY <1>5
<1>8. b \o c = [k \in 1 .. Len(b) + Len(c) |-> IF k <= Len(b) THEN b[k] ELSE c[k - Len(b)]]
    BY ONLY ConcatIs, <1>1, <1>6
<1>9. b \o c = [k \in 1 .. 10 |-> IF k <= 8 THEN b[k] ELSE c[k - 8]]
    BY ONLY <1>1, <1>7, <1>8
<1>10. \A k \in 1 .. 10 : (IF k <= 8 THEN b[k] ELSE c[k - 8])
            = IF k = 1 THEN x1 ELSE IF k = 2 THEN x2 ELSE IF k <= 8 THEN f[k - 2]
                ELSE IF k = 9 THEN y1 ELSE y2
    BY ONLY <1>1, <1>2, <1>5
<1>11. b \o c = [k \in 1 .. 10 |->
            IF k = 1 THEN x1 ELSE IF k = 2 THEN x2 ELSE IF k <= 8 THEN f[k - 2]
                ELSE IF k = 9 THEN y1 ELSE y2]
    BY ONLY <1>9, <1>10
<1> QED
    BY <1>11 DEF a, b, c

\* An object of the table of entries, which is registered in the same order, and the
\* field its place is written to.
ObjectOf(k) ==
    IF k = 1 THEN Layout!Control(1) ELSE IF k = 2 THEN Layout!Control(2)
    ELSE IF k <= 8 THEN Layout!Reading(k - 2)
    ELSE IF k = 9 THEN Layout!Status ELSE Layout!Counter
FieldOf(k) ==
    IF k = 1 THEN <<"control", 1>> ELSE IF k = 2 THEN <<"control", 2>>
    ELSE IF k <= 8 THEN <<"wrench_counts", k - 3>>
    ELSE IF k = 9 THEN <<"status_code", 0>> ELSE <<"sample_counter", 0>>

\* The tables, written out.
LEMMA EntriesAre == Layout!axia_pdo_entries = [k \in 1 .. 10 |-> ObjectOf(k)]
<1> DEFINE f == [i \in 1 .. 6 |-> Layout!Reading(i)]
<1>1. f = [i \in 1 .. 6 |-> f[i]] /\ \A k \in 3 .. 8 : f[k - 2] = Layout!Reading(k - 2)
    OBVIOUS
<1>2. Layout!axia_pdo_entries = (<<Layout!Control(1), Layout!Control(2)>> \o f)
                                    \o <<Layout!Status, Layout!Counter>>
    BY DEF Layout!axia_pdo_entries
<1> HIDE DEF f
<1>3. Layout!axia_pdo_entries = [k \in 1 .. 10 |->
            IF k = 1 THEN Layout!Control(1) ELSE IF k = 2 THEN Layout!Control(2)
            ELSE IF k <= 8 THEN f[k - 2] ELSE IF k = 9 THEN Layout!Status ELSE Layout!Counter]
    BY ONLY <1>1, <1>2, PairSixPair
<1> QED
    BY ONLY <1>1, <1>3 DEF ObjectOf

LEMMA RegsAre ==
    Layout!make_domain_regs = [k \in 1 .. 10 |->
        [object |-> ObjectOf(k), offset |-> FieldOf(k)]]
<1> DEFINE f == [i \in 1 .. 6 |-> Layout!Reading(i)]
           objects == <<Layout!Control(1), Layout!Control(2)>> \o f
                        \o <<Layout!Status, Layout!Counter>>
           fields == <<<<"control", 1>>, <<"control", 2>>>> \o Layout!Counts
                        \o <<<<"status_code", 0>>, <<"sample_counter", 0>>>>
<1>1. objects = [k \in 1 .. 10 |-> ObjectOf(k)]
    BY EntriesAre DEF Layout!axia_pdo_entries
<1>2. fields = [k \in 1 .. 10 |-> FieldOf(k)]
  <2>1. /\ Layout!Counts = [i \in 1 .. 6 |-> Layout!Counts[i]]
        /\ \A k \in 3 .. 8 : Layout!Counts[k - 2] = <<"wrench_counts", k - 3>>
      BY DEF Layout!Counts
  <2>2. fields = [k \in 1 .. 10 |->
            IF k = 1 THEN <<"control", 1>> ELSE IF k = 2 THEN <<"control", 2>>
            ELSE IF k <= 8 THEN Layout!Counts[k - 2]
            ELSE IF k = 9 THEN <<"status_code", 0>> ELSE <<"sample_counter", 0>>]
    <3> DEFINE x1 == <<"control", 1>>
               x2 == <<"control", 2>>
               y1 == <<"status_code", 0>>
               y2 == <<"sample_counter", 0>>
    <3>1. fields = (<<x1, x2>> \o Layout!Counts) \o <<y1, y2>>
        OBVIOUS
    <3> HIDE DEF fields, x1, x2, y1, y2
    <3>2. fields = [k \in 1 .. 10 |->
            IF k = 1 THEN x1 ELSE IF k = 2 THEN x2
            ELSE IF k <= 8 THEN Layout!Counts[k - 2]
            ELSE IF k = 9 THEN y1 ELSE y2]
        BY ONLY <2>1, <3>1, PairSixPair
    <3> QED
        BY ONLY <3>2 DEF x1, x2, y1, y2
  <2> HIDE DEF fields
  <2> QED
      BY ONLY <2>1, <2>2 DEF FieldOf
<1>3. Layout!make_domain_regs =
        [k \in DOMAIN objects |-> [object |-> objects[k], offset |-> fields[k]]]
    BY DEF Layout!make_domain_regs, Layout!Regs
<1> QED
    BY ONLY <1>1, <1>2, <1>3

LEMMA ReadByIs == Layout!ReadBy = [k \in 1 .. 8 |-> FieldOf(k + 2)]
<1>1. /\ Layout!Counts = [i \in 1 .. 6 |-> Layout!Counts[i]]
      /\ \A k \in 1 .. 6 : Layout!Counts[k] = <<"wrench_counts", k - 1>>
    BY DEF Layout!Counts
<1>2. Layout!ReadBy = [k \in 1 .. 8 |-> IF k <= 6 THEN Layout!Counts[k]
            ELSE IF k = 7 THEN <<"status_code", 0>> ELSE <<"sample_counter", 0>>]
  <2> DEFINE y1 == <<"status_code", 0>>
             y2 == <<"sample_counter", 0>>
  <2>1. Layout!ReadBy = Layout!Counts \o <<y1, y2>>
      BY DEF Layout!ReadBy
  <2> HIDE DEF y1, y2
  <2>2. Layout!ReadBy = [k \in 1 .. 8 |-> IF k <= 6 THEN Layout!Counts[k]
            ELSE IF k = 7 THEN y1 ELSE y2]
      BY ONLY <1>1, <2>1, SixPair
  <2> QED
      BY ONLY <2>2 DEF y1, y2
<1>3. \A k \in 1 .. 8 : FieldOf(k + 2) = IF k <= 6 THEN Layout!Counts[k]
            ELSE IF k = 7 THEN <<"status_code", 0>> ELSE <<"sample_counter", 0>>
    BY ONLY <1>1 DEF FieldOf
<1> QED
    BY ONLY <1>2, <1>3

LEMMA MeaningIs == Layout!Meaning = [k \in 1 .. 8 |-> ObjectOf(k + 2)]
<1> DEFINE f == [i \in 1 .. 6 |-> Layout!Reading(i)]
<1>1. f = [i \in 1 .. 6 |-> f[i]] /\ \A k \in 1 .. 6 : f[k] = Layout!Reading(k)
    OBVIOUS
<1>2. Layout!Meaning = f \o <<Layout!Status, Layout!Counter>>
    BY DEF Layout!Meaning
<1> HIDE DEF f
<1>3. Layout!Meaning = [k \in 1 .. 8 |-> IF k <= 6 THEN f[k]
            ELSE IF k = 7 THEN Layout!Status ELSE Layout!Counter]
    BY ONLY <1>1, <1>2, SixPair
<1>4. \A k \in 1 .. 8 : ObjectOf(k + 2) = IF k <= 6 THEN f[k]
            ELSE IF k = 7 THEN Layout!Status ELSE Layout!Counter
    BY ONLY <1>1 DEF ObjectOf
<1> QED
    BY ONLY <1>3, <1>4

\* No two registrations share a field or an object.
LEMMA FieldsAreDistinct ==
    \A j, k \in 1 .. 10 : FieldOf(j) = FieldOf(k) => j = k
BY DEF FieldOf

LEMMA ObjectsAreDistinct ==
    \A j, k \in 1 .. 10 : ObjectOf(j) = ObjectOf(k) => j = k
BY DEF ObjectOf, Layout!Control, Layout!Reading, Layout!Status, Layout!Counter

\* No sync manager has more than one PDO.
LEMMA FlattenNone == Layout!FlattenSeq(<<>>) = <<>>
BY DEF Layout!FlattenSeq

LEMMA FlattenOne == ASSUME NEW s PROVE Layout!FlattenSeq(<<s>>) = s
<1> DEFINE f == [i \in 1 .. 1 |-> IF i = 1 THEN s ELSE s]
<1> QED
BY DEF Layout!FlattenSeq

LEMMA MinOne == ASSUME NEW x \in Nat PROVE Layout!Min({x}) = x
BY DEF Layout!Min

\* The objects of a sync manager: the control words in the third, the readings in the
\* fourth.
LEMMA ContentIs ==
    /\ Layout!Syncs = 1 .. 4
    /\ Layout!Content(1) = <<>> /\ Layout!Content(2) = <<>>
    /\ Layout!Content(3) = [k \in 1 .. 2 |-> ObjectOf(k)]
    /\ Layout!Content(4) = [k \in 1 .. 8 |-> ObjectOf(k + 2)]
<1> DEFINE Slice(first, entries) ==
            SubSeq(Layout!axia_pdo_entries, first + 1, first + entries)
           Slices(pdos) == [k \in DOMAIN pdos |->
                Slice(Layout!axia_pdos[pdos[k]].first, Layout!axia_pdos[pdos[k]].entries)]
<1>1. Layout!Syncs = 1 .. 4
    BY DEF Layout!Syncs, Layout!axia_syncs
<1>2. \A s : Layout!Content(s) = Layout!FlattenSeq(Slices(Layout!axia_syncs[s].pdos))
    BY DEF Layout!Content
<1>3. /\ Layout!axia_syncs[1].pdos = <<>> /\ Layout!axia_syncs[2].pdos = <<>>
      /\ Layout!axia_syncs[3].pdos = <<1>> /\ Layout!axia_syncs[4].pdos = <<2>>
    BY DEF Layout!axia_syncs
<1>4. /\ Layout!axia_pdos[1].first = 0 /\ Layout!axia_pdos[1].entries = 2
      /\ Layout!axia_pdos[2].first = 2 /\ Layout!axia_pdos[2].entries = 8
    BY DEF Layout!axia_pdos
<1> HIDE DEF Slice
<1>5. Slices(<<>>) = <<>> /\ Slices(<<1>>) = <<Slice(0, 2)>> /\ Slices(<<2>>) = <<Slice(2, 8)>>
  <2>1. Slices(<<>>) = <<>>
      OBVIOUS
  <2>2. Slices(<<1>>) = <<Slice(0, 2)>>
      BY <1>4
  <2>3. Slices(<<2>>) = <<Slice(2, 8)>>
      BY <1>4
  <2> QED
      BY ONLY <2>1, <2>2, <2>3
<1> USE DEF Slice
<1>6. \A first, entries \in 0 .. 8 : first + entries <= 10 =>
        Slice(first, entries) = [k \in 1 .. entries |-> ObjectOf(k + first)]
  <2> TAKE first, entries \in 0 .. 8
  <2> HAVE first + entries <= 10
  <2> DEFINE S == {ObjectOf(k) : k \in 1 .. 10}
  <2>1. \A i \in first + 1 .. first + entries :
            /\ Layout!axia_pdo_entries[i] \in S
            /\ Layout!axia_pdo_entries[i] = ObjectOf(i)
      BY EntriesAre
  <2> HIDE DEF S
  <2>2. /\ Slice(first, entries) \in Seq(S)
        /\ Len(Slice(first, entries)) = entries
        /\ \A i \in 1 .. entries :
                Slice(first, entries)[i] = Layout!axia_pdo_entries[first + 1 + i - 1]
      BY <2>1, SubSeqProperties
  <2>3. Slice(first, entries) = [i \in 1 .. entries |-> Slice(first, entries)[i]]
      BY ONLY <2>2, SequenceIs
  <2>4. \A i \in 1 .. entries : Slice(first, entries)[i] = ObjectOf(i + first)
    <3>1. \A i \in 1 .. entries :
            first + 1 + i - 1 = i + first /\ i + first \in first + 1 .. first + entries
        OBVIOUS
    <3> QED
        BY ONLY <2>1, <2>2, <3>1
  <2> QED
      BY ONLY <2>3, <2>4
<1> HIDE DEF Slice, Slices
<1>7. Layout!Content(1) = <<>> /\ Layout!Content(2) = <<>>
    BY <1>2, <1>3, <1>5, FlattenNone
<1>8. Layout!Content(3) = Slice(0, 2) /\ Layout!Content(4) = Slice(2, 8)
    BY <1>2, <1>3, <1>5, FlattenOne
<1>9. Slice(0, 2) = [k \in 1 .. 2 |-> ObjectOf(k + 0)]
    BY <1>6
<1>10. Slice(2, 8) = [k \in 1 .. 8 |-> ObjectOf(k + 2)]
    BY <1>6
<1> QED
    BY <1>1, <1>7, <1>8, <1>9, <1>10

\* The sync manager of an object and its place there.
SyncOf(k) == IF k <= 2 THEN 3 ELSE 4
IndexOf(k) == IF k <= 2 THEN k ELSE k - 2

\* An object is in one sync manager, at one place.
LEMMA ObjectIsMapped ==
    \A k \in 1 .. 10 :
        /\ SyncOf(k) \in 1 .. 4
        /\ IndexOf(k) \in 1 .. Len(Layout!Content(SyncOf(k)))
        /\ \A s \in 1 .. 4 : \A i \in 1 .. Len(Layout!Content(s)) :
                Layout!Content(s)[i] = ObjectOf(k) <=> s = SyncOf(k) /\ i = IndexOf(k)
<1>1. /\ Len(Layout!Content(1)) = 0 /\ Len(Layout!Content(2)) = 0
      /\ Len(Layout!Content(3)) = 2 /\ Len(Layout!Content(4)) = 8
    BY ContentIs
<1>2. /\ \A i \in 1 .. 2 : Layout!Content(3)[i] = ObjectOf(i)
      /\ \A i \in 1 .. 8 : Layout!Content(4)[i] = ObjectOf(i + 2)
    BY ContentIs
<1> TAKE k \in 1 .. 10
<1>3. SyncOf(k) \in 1 .. 4 /\ IndexOf(k) \in 1 .. Len(Layout!Content(SyncOf(k)))
  <2>1. CASE k <= 2
    <3>1. SyncOf(k) = 3 /\ IndexOf(k) = k
        BY <2>1 DEF SyncOf, IndexOf
    <3> QED
        BY <1>1, <2>1, <3>1
  <2>2. CASE ~(k <= 2)
    <3>1. SyncOf(k) = 4 /\ IndexOf(k) \in 1 .. 8
        BY <2>2 DEF SyncOf, IndexOf
    <3> QED
      <4>1. Len(Layout!Content(SyncOf(k))) = 8
          BY ONLY <1>1, <3>1
      <4>2. 1 .. Len(Layout!Content(SyncOf(k))) = 1 .. 8
          BY ONLY <4>1
      <4> QED
          BY ONLY <3>1, <4>2
  <2> QED
      BY <2>1, <2>2
<1>4. ASSUME NEW i \in 1 .. 2
      PROVE  Layout!Content(3)[i] = ObjectOf(k) <=> 3 = SyncOf(k) /\ i = IndexOf(k)
  <2>1. i \in 1 .. 10 /\ (i = k <=> 3 = SyncOf(k) /\ i = IndexOf(k))
      BY ONLY <1>4 DEF SyncOf, IndexOf
  <2>2. ObjectOf(i) = ObjectOf(k) <=> i = k
      BY <2>1, ObjectsAreDistinct
  <2> QED
      BY ONLY <1>2, <1>4, <2>1, <2>2
<1>5. ASSUME NEW i \in 1 .. 8
      PROVE  Layout!Content(4)[i] = ObjectOf(k) <=> 4 = SyncOf(k) /\ i = IndexOf(k)
  <2>1. i + 2 \in 1 .. 10 /\ (i + 2 = k <=> 4 = SyncOf(k) /\ i = IndexOf(k))
      BY ONLY <1>5 DEF SyncOf, IndexOf
  <2>2. ObjectOf(i + 2) = ObjectOf(k) <=> i + 2 = k
      BY <2>1, ObjectsAreDistinct
  <2> QED
      BY ONLY <1>2, <1>5, <2>1, <2>2
<1>6. ASSUME NEW s \in 1 .. 4, NEW i \in 1 .. Len(Layout!Content(s))
      PROVE  (s = 3 /\ i \in 1 .. 2) \/ (s = 4 /\ i \in 1 .. 8)
  <2>1. CASE s = 1 \/ s = 2
      BY <1>1, <1>6, <2>1
  <2>2. CASE s = 3
      BY <1>1, <1>6, <2>2
  <2>3. CASE s = 4
      BY <1>1, <1>6, <2>3
  <2> QED
      BY <2>1, <2>2, <2>3
<1> QED
    BY ONLY <1>3, <1>4, <1>5, <1>6

LEMMA ObjectIsContained ==
    \A k \in 1 .. 10 : \A s \in 1 .. 4 :
        Layout!Contains(Layout!Content(s), ObjectOf(k)) <=> s = SyncOf(k)
BY ObjectIsMapped DEF Layout!Contains

\* The library finds it there.
LEMMA PlaceIs ==
    ASSUME NEW k \in 1 .. 10, NEW places, DOMAIN places \subseteq 1 .. 4,
           SyncOf(k) \in DOMAIN places
    PROVE  Layout!PlaceIn(places, ObjectOf(k)) = places[SyncOf(k)] + IndexOf(k) - 1
<1> DEFINE s == CHOOSE t \in DOMAIN places : Layout!Contains(Layout!Content(t), ObjectOf(k))
           I == {i \in 1 .. Len(Layout!Content(s)) : Layout!Content(s)[i] = ObjectOf(k)}
<1>1. s = SyncOf(k)
  <2>1. \A t \in DOMAIN places :
            Layout!Contains(Layout!Content(t), ObjectOf(k)) <=> t = SyncOf(k)
      BY ObjectIsContained
  <2> QED
      BY <2>1
<1> HIDE DEF s
<1>2. I = {IndexOf(k)}
    BY <1>1, ObjectIsMapped
<1>3. IndexOf(k) \in Nat
    BY DEF IndexOf
<1>4. Layout!SelectInSeq(Layout!Content(s), LAMBDA o : o = ObjectOf(k))
            = IF I # {} THEN Layout!Min(I) ELSE 0
    BY DEF Layout!SelectInSeq
<1> HIDE DEF I
<1>5. Layout!SelectInSeq(Layout!Content(s), LAMBDA o : o = ObjectOf(k)) = IndexOf(k)
    BY <1>2, <1>3, <1>4, MinOne
<1>6. Layout!PlaceIn(places, ObjectOf(k))
        = places[s] + Layout!SelectInSeq(Layout!Content(s), LAMBDA o : o = ObjectOf(k)) - 1
    BY DEF Layout!PlaceIn, s
<1> QED
    BY <1>1, <1>5, <1>6


\* Where the driver takes the object to be.
Place(places, k) == places[SyncOf(k)] + IndexOf(k) - 1

\* The control words are laid out by the first registration and the readings by the
\* third, behind them; what is registered so far has its place.
LayoutShape ==
    /\ n \in 0 .. 10
    /\ DOMAIN layout = (IF n > 0 THEN {3} ELSE {}) \cup (IF n > 2 THEN {4} ELSE {})
    /\ n > 0 => layout[3] \in Nat
    /\ n > 2 => layout[4] \in Nat /\ layout[3] + 2 <= layout[4]
    /\ size = IF n = 0 THEN 0 ELSE IF n <= 2 THEN layout[3] + 2 ELSE layout[4] + 8
PlacesInv ==
    /\ DOMAIN offsets = {FieldOf(k) : k \in 1 .. n}
    /\ \A k \in 1 .. n : offsets[FieldOf(k)] = Place(layout, k)
ActiveInv ==
    /\ stage \in {"register", "active"} /\ frames \in 0 .. MaxFrames
    /\ stage = "register" => sample = <<>> /\ wire = <<>>
    /\ stage = "active" => n = 10 /\ DOMAIN image = 0 .. size - 1
LayoutInv ==
    LayoutShape /\ PlacesInv /\ ActiveInv /\ Layout!SampleIsOneFrame /\ Layout!ControlOnWire

LEMMA LayoutInitially == Layout!Init => LayoutInv
<1> SUFFICES ASSUME Layout!Init PROVE LayoutInv
    OBVIOUS
<1>1. LayoutShape
    BY DEF Layout!Init, LayoutShape
<1>2. PlacesInv
    BY DEF Layout!Init, PlacesInv
<1>3. ActiveInv
    BY PartsAssumption DEF Layout!Init, ActiveInv, Layout!LayoutAssumption
<1>4. Layout!SampleIsOneFrame /\ Layout!ControlOnWire
    BY DEF Layout!Init, Layout!SampleIsOneFrame, Layout!ControlOnWire
<1> QED
    BY <1>1, <1>2, <1>3, <1>4 DEF LayoutInv

\* A shutdown leaves what there is in the beginning.
LEMMA LayoutStartsOver == Layout!Init' => LayoutInv'
<1>1. Layout!Init => LayoutInv
    BY LayoutInitially
<1> QED
    BY <1>1, PTL

\* A registration extends the layout, behind what is there.
LEMMA RegisterLaysOut ==
    ASSUME LayoutInv, Layout!Register
    PROVE  LayoutShape' /\ n' = n + 1 /\ n < 10
           /\ (\A s \in DOMAIN layout : s \in DOMAIN layout' /\ layout'[s] = layout[s])
           /\ offsets' = [f \in DOMAIN offsets \cup {FieldOf(n + 1)} |->
                    IF f = FieldOf(n + 1) THEN Place(layout', n + 1) ELSE offsets[f]]
<1> DEFINE k == n + 1
<1>1. k \in 1 .. 10 /\ n' = k
    BY RegsAre DEF LayoutInv, LayoutShape, Layout!Register
<1>2. /\ Layout!make_domain_regs[k].object = ObjectOf(k)
      /\ Layout!make_domain_regs[k].offset = FieldOf(k)
    BY <1>1, RegsAre
<1>3. PICK s \in Layout!Syncs, gap \in Gaps :
        /\ Layout!Contains(Layout!Content(s), ObjectOf(k))
        /\ IF s \in DOMAIN layout
             THEN gap = 0 /\ UNCHANGED <<layout, size>>
             ELSE /\ layout' = Layout!With(layout, s, size + gap)
                  /\ size' = size + gap + Len(Layout!Content(s))
        /\ offsets' = Layout!With(offsets, FieldOf(k), Layout!PlaceIn(layout', ObjectOf(k)))
    BY <1>2 DEF Layout!Register
<1>4. s = SyncOf(k)
    BY <1>1, <1>3, ObjectIsContained, ContentIs
<1>5. gap \in Nat
    BY PartsAssumption DEF Layout!LayoutAssumption
<1>6. Len(Layout!Content(3)) = 2 /\ Len(Layout!Content(4)) = 8
    BY ContentIs
<1>7. /\ LayoutShape' /\ s \in DOMAIN layout' /\ DOMAIN layout' \subseteq 1 .. 4
      /\ \A t \in DOMAIN layout : t \in DOMAIN layout' /\ layout'[t] = layout[t]
  <2>1. CASE s \in DOMAIN layout
    <3>1. UNCHANGED <<layout, size>>
        BY <1>3, <2>1
    <3>2. k # 1 /\ k # 3
        BY <1>4, <2>1 DEF SyncOf, LayoutInv, LayoutShape
    <3> QED
        BY <1>1, <2>1, <3>1, <3>2 DEF LayoutInv, LayoutShape
  <2>2. CASE s \notin DOMAIN layout
    <3>1. /\ layout' = [t \in DOMAIN layout \cup {s} |->
                            IF t = s THEN size + gap ELSE layout[t]]
          /\ size' = size + gap + Len(Layout!Content(s))
        BY <1>3, <2>2 DEF Layout!With
    <3>2. k = 1 \/ k = 3
        BY <1>1, <1>4, <2>2 DEF SyncOf, LayoutInv, LayoutShape
    <3>3. CASE k = 1
      <4>1. s = 3 /\ n = 0 /\ n' = 1
          BY <1>1, <1>4, <3>3 DEF SyncOf, LayoutInv, LayoutShape
      <4>2. DOMAIN layout = {} /\ size = 0
          BY <4>1 DEF LayoutInv, LayoutShape
      <4>4. Len(Layout!Content(s)) = 2
          BY <1>6, <4>1
      <4>3. DOMAIN layout' = {3} /\ layout'[3] = gap /\ size' = gap + 2
        <5>1. DOMAIN layout \cup {s} = {3}
            BY <4>1, <4>2
        <5>2. layout' = [t \in {3} |-> IF t = s THEN size + gap ELSE layout[t]]
            BY <3>1, <5>1
        <5>3. size' = size + gap + 2
            BY ONLY <3>1, <4>4
        <5> QED
            BY ONLY <1>5, <4>1, <4>2, <5>2, <5>3
      <4> QED
          BY <1>5, <4>1, <4>2, <4>3 DEF LayoutShape
    <3>4. CASE k = 3
      <4>1. s = 4 /\ n = 2 /\ n' = 3
          BY <1>1, <1>4, <3>4 DEF SyncOf, LayoutInv, LayoutShape
      <4>2. DOMAIN layout = {3} /\ layout[3] \in Nat /\ size = layout[3] + 2
          BY <4>1 DEF LayoutInv, LayoutShape
      <4>4. Len(Layout!Content(s)) = 8
          BY <1>6, <4>1
      <4>3. /\ DOMAIN layout' = {3, 4} /\ layout'[3] = layout[3]
            /\ layout'[4] = size + gap /\ size' = size + gap + 8
        <5>1. DOMAIN layout \cup {s} = {3, 4}
            BY <4>1, <4>2
        <5>2. layout' = [t \in {3, 4} |-> IF t = s THEN size + gap ELSE layout[t]]
            BY <3>1, <5>1
        <5>3. size' = size + gap + 8
            BY ONLY <3>1, <4>4
        <5> QED
            BY ONLY <1>5, <4>1, <4>2, <5>2, <5>3
      <4> QED
          BY <1>5, <4>1, <4>2, <4>3 DEF LayoutShape
    <3> QED
        BY <3>2, <3>3, <3>4
  <2> QED
      BY <2>1, <2>2
<1>8. Layout!PlaceIn(layout', ObjectOf(k)) = Place(layout', k)
    BY <1>1, <1>4, <1>7, PlaceIs DEF Place
<1> QED
  <2>1. offsets' = Layout!With(offsets, FieldOf(k), Place(layout', k))
      BY <1>3, <1>8
  <2>2. offsets' = [f \in DOMAIN offsets \cup {FieldOf(n + 1)} |->
                    IF f = FieldOf(n + 1) THEN Place(layout', n + 1) ELSE offsets[f]]
      BY ONLY <2>1 DEF Layout!With
  <2>3. n' = n + 1 /\ n < 10
      BY <1>1 DEF LayoutInv, LayoutShape
  <2> QED
      BY <1>7, <2>2, <2>3

\* So the places of what was registered before stay as they were.
LEMMA RegisterKeeps == LayoutInv /\ Layout!Register => LayoutInv'
<1> SUFFICES ASSUME LayoutInv, Layout!Register PROVE LayoutInv'
    OBVIOUS
<1>1. /\ LayoutShape' /\ n' = n + 1 /\ n < 10
      /\ \A s \in DOMAIN layout : s \in DOMAIN layout' /\ layout'[s] = layout[s]
      /\ offsets' = [f \in DOMAIN offsets \cup {FieldOf(n + 1)} |->
            IF f = FieldOf(n + 1) THEN Place(layout', n + 1) ELSE offsets[f]]
    BY RegisterLaysOut
<1>2. n \in 0 .. 10 /\ n + 1 \in 1 .. 10
    BY <1>1 DEF LayoutInv, LayoutShape
<1>3. PlacesInv'
  <2>1. DOMAIN offsets' = DOMAIN offsets \cup {FieldOf(n + 1)}
      BY ONLY <1>1
  <2>2. DOMAIN offsets = {FieldOf(k) : k \in 1 .. n}
      BY DEF LayoutInv, PlacesInv
  <2>3. 1 .. n' = (1 .. n) \cup {n + 1}
      BY <1>1, <1>2
  <2>4. DOMAIN offsets' = {FieldOf(k) : k \in 1 .. n'}
      BY ONLY <2>1, <2>2, <2>3
  <2>5. ASSUME NEW k \in 1 .. n
        PROVE  offsets'[FieldOf(k)] = Place(layout', k)
    <3>1. FieldOf(k) # FieldOf(n + 1)
        BY <1>2, FieldsAreDistinct
    <3>2. FieldOf(k) \in DOMAIN offsets /\ offsets[FieldOf(k)] = Place(layout, k)
        BY <2>2 DEF LayoutInv, PlacesInv
    <3>3. SyncOf(k) \in DOMAIN layout
        BY <1>2 DEF SyncOf, LayoutInv, LayoutShape
    <3>4. Place(layout', k) = Place(layout, k)
        BY <1>1, <3>3 DEF Place
    <3>5. offsets'[FieldOf(k)] = offsets[FieldOf(k)]
        BY ONLY <1>1, <3>1, <3>2
    <3> QED
        BY ONLY <3>2, <3>4, <3>5
  <2>6. offsets'[FieldOf(n + 1)] = Place(layout', n + 1)
      BY ONLY <1>1
  <2> QED
      BY ONLY <2>3, <2>4, <2>5, <2>6 DEF PlacesInv
<1>4. /\ stage = "register" /\ UNCHANGED <<stage, sample, wire, frames>>
      /\ sample = <<>> /\ wire = <<>>
    BY DEF LayoutInv, ActiveInv, Layout!Register
<1>5. ActiveInv'
    BY <1>4 DEF LayoutInv, ActiveInv
<1>6. Layout!SampleIsOneFrame' /\ Layout!ControlOnWire'
    BY <1>4 DEF Layout!SampleIsOneFrame, Layout!ControlOnWire
<1> QED
    BY <1>1, <1>3, <1>5, <1>6 DEF LayoutInv

\* When the master is active everything is laid out: the control words are apart from
\* the readings, and all are in the process data.
Placed ==
    /\ DOMAIN layout = {3, 4} /\ layout[3] \in Nat /\ layout[4] \in Nat
    /\ layout[3] + 2 <= layout[4] /\ size = layout[4] + 8
    /\ \A k \in 1 .. 10 : Place(layout, k) \in 0 .. size - 1
    /\ \A k \in 1 .. 10 : offsets[FieldOf(k)] = Place(layout, k)
    /\ Place(layout, 1) = layout[3] /\ Place(layout, 2) = layout[3] + 1
    /\ \A k \in 3 .. 10 : Place(layout, k) = layout[4] + k - 3

LEMMA ActivePlaces == LayoutInv /\ stage = "active" => Placed
<1> SUFFICES ASSUME LayoutInv, stage = "active" PROVE Placed
    OBVIOUS
<1>1. n = 10
    BY DEF LayoutInv, ActiveInv
<1>2. /\ DOMAIN layout = {3, 4} /\ layout[3] \in Nat /\ layout[4] \in Nat
      /\ layout[3] + 2 <= layout[4] /\ size = layout[4] + 8
    BY <1>1 DEF LayoutInv, LayoutShape
<1>3. Place(layout, 1) = layout[3] /\ Place(layout, 2) = layout[3] + 1
    BY <1>2 DEF Place, SyncOf, IndexOf
<1>4. \A k \in 3 .. 10 : Place(layout, k) = layout[4] + k - 3
    BY <1>2 DEF Place, SyncOf, IndexOf
<1>5. \A k \in 1 .. 10 : Place(layout, k) \in 0 .. size - 1
  <2> TAKE k \in 1 .. 10
  <2>1. CASE k = 1 \/ k = 2
      BY <1>2, <1>3, <2>1
  <2>2. CASE k \in 3 .. 10
      BY <1>2, <1>4, <2>2
  <2> QED
      BY <2>1, <2>2
<1>6. \A k \in 1 .. 10 : offsets[FieldOf(k)] = Place(layout, k)
    BY <1>1 DEF LayoutInv, PlacesInv
<1> QED
    BY <1>2, <1>3, <1>4, <1>5, <1>6 DEF Placed

\* A frame that comes back fills the readings and leaves the control words.
LEMMA ReceivedIs ==
    ASSUME LayoutInv, stage = "active", NEW img, DOMAIN img = 0 .. size - 1, NEW frame
    PROVE  /\ DOMAIN Layout!Received(img, frame) = 0 .. size - 1
           /\ \A k \in 3 .. 10 : Layout!Received(img, frame)[Place(layout, k)]
                                    = Layout!Word(ObjectOf(k), frame)
           /\ \A k \in 1 .. 2 : Layout!Received(img, frame)[Place(layout, k)]
                                    = img[Place(layout, k)]
<1> Placed
    BY ActivePlaces
<1>0. /\ DOMAIN layout = {3, 4} /\ layout[3] \in Nat /\ layout[4] \in Nat
      /\ layout[3] + 2 <= layout[4] /\ size = layout[4] + 8
    BY DEF Placed
<1>1. Layout!Of("input") = {4}
    BY <1>0 DEF Layout!Of, Layout!axia_syncs
<1>2. Len(Layout!Content(4)) = 8
    BY ContentIs
<1>3. Layout!WordsOf(4) = layout[4] .. layout[4] + 7
  <2>1. Layout!WordsOf(4) = layout[4] .. layout[4] + Len(Layout!Content(4)) - 1
      BY DEF Layout!WordsOf
  <2>2. layout[4] + 8 - 1 = layout[4] + 7
      BY ONLY <1>0
  <2> QED
      BY ONLY <1>2, <2>1, <2>2
<1>4. DOMAIN Layout!Received(img, frame) = 0 .. size - 1
    BY DEF Layout!Received
<1>5. ASSUME NEW w \in 0 .. size - 1
      PROVE  Layout!Received(img, frame)[w] =
                IF w \in layout[4] .. layout[4] + 7
                  THEN Layout!Word(Layout!ObjectAt(4, w), frame) ELSE img[w]
  <2>1. CASE w \in layout[4] .. layout[4] + 7
    <3>1. \E s \in Layout!Of("input") : w \in Layout!WordsOf(s)
        BY <1>1, <1>3, <2>1
    <3>2. (CHOOSE t \in Layout!Of("input") : w \in Layout!WordsOf(t)) = 4
        BY <1>1, <1>3, <2>1
    <3> QED
        BY <2>1, <3>1, <3>2 DEF Layout!Received
  <2>2. CASE w \notin layout[4] .. layout[4] + 7
    <3>1. ~\E s \in Layout!Of("input") : w \in Layout!WordsOf(s)
        BY <1>1, <1>3, <2>2
    <3> QED
        BY <2>2, <3>1 DEF Layout!Received
  <2> QED
      BY <2>1, <2>2
<1>6. ASSUME NEW k \in 3 .. 10
      PROVE  Layout!Received(img, frame)[Place(layout, k)] = Layout!Word(ObjectOf(k), frame)
  <2>1. /\ Place(layout, k) = layout[4] + k - 3
        /\ Place(layout, k) \in 0 .. size - 1
        /\ Place(layout, k) \in layout[4] .. layout[4] + 7
        /\ Place(layout, k) - layout[4] + 1 = k - 2
    <3> DEFINE first == layout[4]
               p == Place(layout, k)
    <3>1. p = first + k - 3
        BY DEF Placed
    <3>2. first \in Nat /\ size = first + 8
        BY <1>0
    <3> HIDE DEF first, p
    <3>3. p = first + k - 3 /\ p \in 0 .. size - 1
        BY ONLY <1>6, <3>1, <3>2
    <3>4. p \in first .. first + 7 /\ p - first + 1 = k - 2
        BY ONLY <1>6, <3>1, <3>2
    <3> QED
        BY ONLY <3>3, <3>4 DEF first, p
  <2>2. Layout!ObjectAt(4, Place(layout, k)) = Layout!Content(4)[k - 2]
      BY <2>1 DEF Layout!ObjectAt
  <2>3. Layout!Content(4)[k - 2] = ObjectOf(k)
    <3>1. Layout!Content(4) = [j \in 1 .. 8 |-> ObjectOf(j + 2)]
        BY ContentIs
    <3>2. k - 2 \in 1 .. 8 /\ (k - 2) + 2 = k
        OBVIOUS
    <3> QED
        BY ONLY <3>1, <3>2
  <2> QED
      BY <1>5, <2>1, <2>2, <2>3
<1>7. ASSUME NEW k \in 1 .. 2
      PROVE  Layout!Received(img, frame)[Place(layout, k)] = img[Place(layout, k)]
  <2>1. /\ Place(layout, k) \in 0 .. size - 1
        /\ Place(layout, k) \notin layout[4] .. layout[4] + 7
    <3>1. Place(layout, k) \in layout[3] .. layout[3] + 1
      <4>1. Place(layout, 1) = layout[3] /\ Place(layout, 2) = layout[3] + 1 /\ k \in {1, 2}
          BY DEF Placed
      <4> QED
          BY <1>0, <4>1
    <3> QED
        BY <1>0, <3>1
  <2> QED
      BY <1>5, <2>1
<1> QED
    BY <1>4, <1>6, <1>7

\* What the driver writes is in the words that are sent.
LEMMA WrittenIs ==
    ASSUME LayoutInv, stage = "active", NEW img, DOMAIN img = 0 .. size - 1, NEW bit
    PROVE  /\ DOMAIN Layout!written_control(img, bit) = 0 .. size - 1
           /\ Layout!written_control(img, bit)[Place(layout, 1)]
                = Layout!Word(<<"control_word", bit>>, 0)
           /\ Layout!written_control(img, bit)[Place(layout, 2)] = Layout!Zero
<1> Placed
    BY ActivePlaces
<1>1. /\ offsets[<<"control", 1>>] = Place(layout, 1)
      /\ offsets[<<"control", 2>>] = Place(layout, 2)
    BY DEF FieldOf, Placed
<1>2. /\ Place(layout, 1) # Place(layout, 2)
      /\ Place(layout, 1) \in DOMAIN img /\ Place(layout, 2) \in DOMAIN img
  <2>1. /\ Place(layout, 1) = layout[3] /\ Place(layout, 2) = layout[3] + 1
        /\ layout[3] \in Nat /\ layout[4] \in Nat /\ layout[3] + 2 <= layout[4]
        /\ size = layout[4] + 8
      BY DEF Placed
  <2> QED
      BY <2>1
<1> QED
    BY <1>1, <1>2 DEF Layout!written_control

LEMMA SentIs ==
    ASSUME LayoutInv, stage = "active", NEW img
    PROVE  Layout!Sent(img) = [o \in {Layout!Control(1), Layout!Control(2)} |->
                IF o = Layout!Control(1) THEN img[Place(layout, 1)] ELSE img[Place(layout, 2)]]
<1> DOMAIN layout = {3, 4}
    BY ActivePlaces DEF Placed
<1>1. Layout!Of("output") = {3}
    BY DEF Layout!Of, Layout!axia_syncs
<1>2. (CHOOSE t \in Layout!Of("output") : TRUE) = 3
    BY <1>1
<1>3. Layout!Range(Layout!Content(3)) = {Layout!Control(1), Layout!Control(2)}
    BY ContentIs DEF Layout!Range, ObjectOf
<1>4. ObjectOf(1) = Layout!Control(1) /\ ObjectOf(2) = Layout!Control(2)
    BY DEF ObjectOf
<1>5. /\ SyncOf(1) = 3 /\ SyncOf(2) = 3 /\ DOMAIN layout = {3, 4}
    BY DEF SyncOf
<1>6. /\ Layout!PlaceIn(layout, Layout!Control(1)) = Place(layout, 1)
      /\ Layout!PlaceIn(layout, Layout!Control(2)) = Place(layout, 2)
    BY <1>4, <1>5, PlaceIs DEF Place
<1>7. Layout!Sent(img) = [o \in {Layout!Control(1), Layout!Control(2)} |->
                                img[Layout!PlaceIn(layout, o)]]
    BY <1>2, <1>3 DEF Layout!Sent
<1> QED
    BY ONLY <1>6, <1>7

\* What is sent after a write are the two control words.
LEMMA WireIsControl ==
    ASSUME LayoutInv, stage = "active", NEW img, NEW bit \in {0, 1},
           img[Place(layout, 1)] = Layout!Word(<<"control_word", bit>>, 0),
           img[Place(layout, 2)] = Layout!Zero, wire' = Layout!Sent(img)
    PROVE  Layout!ControlOnWire'
<1>1. Layout!Control(1) # Layout!Control(2)
    BY DEF Layout!Control
<1>2. /\ DOMAIN wire' = {Layout!Control(1), Layout!Control(2)}
      /\ wire'[Layout!Control(1)] = Layout!Word(<<"control_word", bit>>, 0)
      /\ wire'[Layout!Control(2)] = Layout!Zero
    BY SentIs, <1>1
<1>3. Layout!Word(<<"control_word", bit>>, 0) \in Layout!ControlWords
    BY DEF Layout!ControlWords
<1> QED
    BY <1>2, <1>3 DEF Layout!ControlOnWire

\* A cycle reads each value where its object was received, and sends the control words.
LEMMA ReadKeepsLayout == LayoutInv /\ Layout!read => LayoutInv'
<1> SUFFICES ASSUME LayoutInv, Layout!read PROVE LayoutInv'
    OBVIOUS
<1> DEFINE received == Layout!Received(image, frames')
<1>1. /\ stage = "active" /\ frames < MaxFrames /\ frames' = frames + 1
      /\ sample' = [k \in DOMAIN Layout!ReadBy |-> received[offsets[Layout!ReadBy[k]]]]
      /\ image' = Layout!written_control(received, 0)
      /\ wire' = Layout!Sent(image')
      /\ UNCHANGED <<stage, layout, size, n, offsets>>
    BY DEF Layout!read
<1>2. DOMAIN image = 0 .. size - 1
    BY <1>1 DEF LayoutInv, ActiveInv
<1>3. /\ DOMAIN received = 0 .. size - 1
      /\ \A k \in 3 .. 10 : received[Place(layout, k)] = Layout!Word(ObjectOf(k), frames')
    BY <1>1, <1>2, ReceivedIs
<1> HIDE DEF received
<1>4. /\ DOMAIN image' = 0 .. size - 1
      /\ image'[Place(layout, 1)] = Layout!Word(<<"control_word", 0>>, 0)
      /\ image'[Place(layout, 2)] = Layout!Zero
    BY <1>1, <1>3, WrittenIs
<1>5. LayoutShape' /\ PlacesInv'
    BY <1>1 DEF LayoutInv, LayoutShape, PlacesInv
<1>6. frames' \in 1 .. MaxFrames
    BY <1>1, PartsAssumption DEF LayoutInv, ActiveInv, Layout!LayoutAssumption
<1>7. ActiveInv'
    BY <1>1, <1>4, <1>6 DEF LayoutInv, ActiveInv
<1>8. Layout!SampleIsOneFrame'
  <2>1. /\ DOMAIN sample' = 1 .. 8
        /\ \A k \in 1 .. 8 : sample'[k] = received[offsets[FieldOf(k + 2)]]
      BY ONLY <1>1, ReadByIs
  <2>2. ASSUME NEW k \in 1 .. 8
        PROVE  sample'[k] = Layout!Word(Layout!Meaning[k], frames')
    <3>1. k + 2 \in 3 .. 10 /\ k + 2 \in 1 .. 10
        OBVIOUS
    <3>2. offsets[FieldOf(k + 2)] = Place(layout, k + 2)
        BY <1>1, <3>1, ActivePlaces DEF Placed
    <3>3. Layout!Meaning[k] = ObjectOf(k + 2)
        BY MeaningIs
    <3> QED
        BY ONLY <1>3, <2>1, <2>2, <3>1, <3>2, <3>3
  <2> QED
      BY <1>6, <2>1, <2>2 DEF Layout!SampleIsOneFrame
<1>9. Layout!ControlOnWire'
    BY <1>1, <1>4, WireIsControl
<1> QED
    BY <1>5, <1>7, <1>8, <1>9 DEF LayoutInv

LEMMA PulseKeepsLayout ==
    ASSUME NEW bit \in {0, 1}, LayoutInv, Layout!pulse(bit) PROVE LayoutInv'
<1> DEFINE written == Layout!written_control(image, bit)
<1>1. /\ stage = "active" /\ frames < MaxFrames /\ frames' = frames + 1
      /\ image' = Layout!Received(written, frames')
      /\ wire' = Layout!Sent(image')
      /\ UNCHANGED <<stage, layout, size, n, offsets, sample>>
    BY DEF Layout!pulse
<1>2. DOMAIN image = 0 .. size - 1
    BY <1>1 DEF LayoutInv, ActiveInv
<1>3. /\ DOMAIN written = 0 .. size - 1
      /\ written[Place(layout, 1)] = Layout!Word(<<"control_word", bit>>, 0)
      /\ written[Place(layout, 2)] = Layout!Zero
    BY <1>1, <1>2, WrittenIs
<1> HIDE DEF written
<1>4. /\ DOMAIN image' = 0 .. size - 1
      /\ image'[Place(layout, 1)] = Layout!Word(<<"control_word", bit>>, 0)
      /\ image'[Place(layout, 2)] = Layout!Zero
  <2>1. /\ DOMAIN image' = 0 .. size - 1
        /\ \A k \in 1 .. 2 : image'[Place(layout, k)] = written[Place(layout, k)]
      BY <1>1, <1>3, ReceivedIs
  <2>2. /\ image'[Place(layout, 1)] = written[Place(layout, 1)]
        /\ image'[Place(layout, 2)] = written[Place(layout, 2)]
      BY ONLY <2>1
  <2> QED
      BY ONLY <1>3, <2>1, <2>2
<1>5. LayoutShape' /\ PlacesInv'
    BY <1>1 DEF LayoutInv, LayoutShape, PlacesInv
<1>6. frames \in Nat /\ frames' \in 0 .. MaxFrames
    BY <1>1, PartsAssumption DEF LayoutInv, ActiveInv, Layout!LayoutAssumption
<1>7. ActiveInv'
    BY <1>1, <1>4, <1>6 DEF LayoutInv, ActiveInv
<1>8. Layout!SampleIsOneFrame'
    BY <1>1, <1>6 DEF LayoutInv, Layout!SampleIsOneFrame
<1>9. Layout!ControlOnWire'
    BY <1>1, <1>4, WireIsControl
<1> QED
    BY <1>5, <1>7, <1>8, <1>9 DEF LayoutInv

LEMMA LayoutKept == LayoutInv /\ [Layout!Next]_layoutVars => LayoutInv'
<1> SUFFICES ASSUME LayoutInv, [Layout!Next]_layoutVars PROVE LayoutInv'
    OBVIOUS
<1>1. CASE Layout!Register
    BY <1>1, RegisterKeeps
<1>2. CASE Layout!Activate
  <2>1. /\ n = 10 /\ stage' = "active" /\ DOMAIN image' = 0 .. size' - 1
        /\ UNCHANGED <<layout, size, n, offsets, sample, wire, frames>>
    <3>1. Len(Layout!make_domain_regs) = 10
        BY RegsAre
    <3> QED
        BY <1>2, <3>1 DEF Layout!Activate
  <2>2. LayoutShape' /\ PlacesInv'
      BY <2>1 DEF LayoutInv, LayoutShape, PlacesInv
  <2>3. ActiveInv'
      BY <2>1 DEF LayoutInv, ActiveInv
  <2>4. Layout!SampleIsOneFrame' /\ Layout!ControlOnWire'
      BY <2>1 DEF LayoutInv, Layout!SampleIsOneFrame, Layout!ControlOnWire
  <2> QED
      BY <2>2, <2>3, <2>4 DEF LayoutInv
<1>3. CASE Layout!read
    BY <1>3, ReadKeepsLayout
<1>4. CASE \E bit \in {0, 1} : Layout!pulse(bit)
    BY <1>4, PulseKeepsLayout
<1>5. CASE Layout!shutdown
  <2>1. Layout!Init'
      BY <1>5 DEF Layout!shutdown, Layout!Init
  <2> QED
      BY <2>1, LayoutStartsOver
<1>6. CASE UNCHANGED layoutVars
    BY <1>6 DEF layoutVars, LayoutInv, LayoutShape, PlacesInv, ActiveInv,
                Layout!SampleIsOneFrame, Layout!ControlOnWire
<1> QED
    BY <1>1, <1>2, <1>3, <1>4, <1>5, <1>6 DEF Layout!Next

LEMMA InvIsAgreed == LayoutInv => Layout!LayoutAgrees
<1> SUFFICES ASSUME LayoutInv PROVE Layout!LayoutAgrees
    OBVIOUS
<1>1. Len(Layout!make_domain_regs) = 10
    BY RegsAre
<1>2. \A k \in 1 .. 10 : Layout!make_domain_regs[k].offset = FieldOf(k)
                         /\ Layout!make_domain_regs[k].object = ObjectOf(k)
    BY RegsAre
<1>3. n \in 0 .. 10
    BY DEF LayoutInv, LayoutShape
<1>4. Layout!EveryObjectMapped
  <2> SUFFICES ASSUME n < 10
               PROVE  \E s \in Layout!Syncs :
                        Layout!Contains(Layout!Content(s), Layout!make_domain_regs[n + 1].object)
      BY <1>1 DEF Layout!EveryObjectMapped
  <2>1. n + 1 \in 1 .. 10
      BY <1>3
  <2>2. Layout!Contains(Layout!Content(SyncOf(n + 1)), ObjectOf(n + 1))
        /\ SyncOf(n + 1) \in 1 .. 4
      BY <2>1, ObjectIsContained, ObjectIsMapped
  <2> QED
      BY <1>2, <2>1, <2>2, ContentIs
<1>5. DOMAIN layout \subseteq Layout!Syncs
    BY ContentIs DEF LayoutInv, LayoutShape
<1>6. DOMAIN offsets = {Layout!make_domain_regs[k].offset : k \in 1 .. n}
  <2>1. \A k \in 1 .. n : Layout!make_domain_regs[k].offset = FieldOf(k)
      BY <1>2, <1>3
  <2>2. DOMAIN offsets = {FieldOf(k) : k \in 1 .. n}
      BY DEF LayoutInv, PlacesInv
  <2> QED
      BY ONLY <2>1, <2>2
<1>7. \A f \in DOMAIN offsets : offsets[f] < size
  <2> SUFFICES ASSUME NEW k \in 1 .. n PROVE offsets[FieldOf(k)] < size
      BY DEF LayoutInv, PlacesInv
  <2>1. offsets[FieldOf(k)] = Place(layout, k) /\ k \in 1 .. 10
      BY <1>3 DEF LayoutInv, PlacesInv
  <2>2. CASE k <= 2
    <3>1. Place(layout, k) = layout[3] + k - 1
        BY <2>2 DEF Place, SyncOf, IndexOf
    <3> QED
        BY <2>1, <2>2, <3>1 DEF LayoutInv, LayoutShape
  <2>3. CASE ~(k <= 2)
    <3>1. Place(layout, k) = layout[4] + (k - 2) - 1
        BY <2>3 DEF Place, SyncOf, IndexOf
    <3> QED
        BY <1>3, <2>1, <2>3, <3>1 DEF LayoutInv, LayoutShape
  <2> QED
      BY <2>1, <2>2, <2>3
<1>8. stage = "active" => DOMAIN image = 0 .. size - 1 /\ DOMAIN offsets = Layout!Fields
  <2> SUFFICES ASSUME stage = "active" PROVE DOMAIN offsets = Layout!Fields
      BY DEF LayoutInv, ActiveInv
  <2>1. DOMAIN offsets = {FieldOf(k) : k \in 1 .. 10}
      BY DEF LayoutInv, ActiveInv, PlacesInv
  <2>2. Layout!Range(Layout!Counts) = {FieldOf(k) : k \in 3 .. 8}
    <3>1. Layout!Range(Layout!Counts) = {<<"wrench_counts", i - 1>> : i \in 1 .. 6}
        BY DEF Layout!Range, Layout!Counts
    <3>2. \A i \in 1 .. 6 : <<"wrench_counts", i - 1>> = FieldOf(i + 2)
        BY DEF FieldOf
    <3>3. \A k \in 3 .. 8 : FieldOf(k) = <<"wrench_counts", (k - 2) - 1>> /\ k - 2 \in 1 .. 6
        BY DEF FieldOf
    <3> QED
        BY ONLY <3>1, <3>2, <3>3
  <2>3. /\ FieldOf(1) = <<"control", 1>> /\ FieldOf(2) = <<"control", 2>>
        /\ FieldOf(9) = <<"status_code", 0>> /\ FieldOf(10) = <<"sample_counter", 0>>
      BY DEF FieldOf
  <2>4. 1 .. 10 = (3 .. 8) \cup {9, 10, 1, 2}
      OBVIOUS
  <2>5. {FieldOf(k) : k \in 1 .. 10} = {FieldOf(k) : k \in 3 .. 8}
            \cup {FieldOf(9), FieldOf(10), FieldOf(1), FieldOf(2)}
      BY ONLY <2>4
  <2> QED
      BY ONLY <2>1, <2>2, <2>3, <2>5 DEF Layout!Fields
<1>9. Layout!TypeOK
    BY <1>1, <1>3, <1>5, <1>6, <1>7, <1>8 DEF LayoutInv, ActiveInv, Layout!TypeOK
<1> QED
    BY <1>4, <1>9 DEF LayoutInv, Layout!LayoutAgrees

\* Whatever words the library leaves free before a sync manager: each registered object
\* is mapped, each value of a sample is that of the object it is named after and all are
\* of one frame, and nothing but the two control words is sent.
THEOREM LayoutHolds == Layout!Spec => []Layout!LayoutAgrees
<1>2. LayoutInv /\ [Layout!Next]_(Layout!vars) => LayoutInv'
    BY LayoutKept DEF layoutVars, Layout!vars
<1> QED
    BY <1>2, LayoutInitially, InvIsAgreed, PTL DEF Layout!Spec

----------------------------------------------------------------------------
(* The configuration: its parts in one behaviour. *)

\* The parameters that rest have not been parsed.
SetUpInv ==
    /\ part = "parameters" => ParametersInv
    /\ part # "parameters" => outcome = "none"

\* The driver that is set up with its parts has the parameters that were written.
THEOREM SetUpAsWritten == MCSpec => []ParametersAsWritten
<1>1. MCInit => SetUpInv \/ (part = "parameters" /\ Parameters!Init)
    BY DEF MCInit, ParametersRest, SetUpInv
<1>2. Parameters!Init => ParametersInv
    BY ParametersInitially
<1>3. MCInit => SetUpInv
    BY <1>1, <1>2 DEF SetUpInv
<1>4. ASSUME SetUpInv, [MCNext]_allVars PROVE SetUpInv'
  <2>1. CASE ParametersStep
    <3>1. part' = part /\ part = "parameters" /\ Parameters!Next
        BY <2>1 DEF ParametersStep
    <3>2. ParametersInv'
        BY <1>4, <3>1, ParametersKept DEF SetUpInv
    <3> QED
        BY <3>1, <3>2 DEF SetUpInv
  <2>2. CASE SearchStep \/ LayoutStep \/ UNCHANGED allVars
    <3>1. UNCHANGED <<part, texts, outcome, params>>
        BY <2>2 DEF SearchStep, LayoutStep, allVars
    <3>2. ParametersInv => ParametersInv'
        BY <3>1, ParametersKept DEF Parameters!vars
    <3> QED
        BY <1>4, <3>1, <3>2 DEF SetUpInv
  <2> QED
      BY <1>4, <2>1, <2>2 DEF MCNext
<1>5. SetUpInv => ParametersAsWritten
  <2>1. outcome = "none" => Parameters!ParametersAsWritten
      BY DEF Parameters!ParametersAsWritten, Parameters!ParsedInRange,
             Parameters!ParsedAsWritten, Parameters!LegalAccepted, Parameters!RatesFollow,
             Parameters!NoBiasUnasked, Parameters!Parsed
  <2> QED
      BY <2>1, InvIsAsWritten DEF SetUpInv, ParametersAsWritten
<1> QED
    BY <1>3, <1>4, <1>5, PTL DEF MCSpec

\* The search of that driver is the one of SlaveSearch.
THEOREM SetUpSearches == MCSpec => []SearchIsTrue /\ SearchesAgree
<1>1. MCInit => Init
    BY DEF MCInit, SearchRests
<1>2. [MCNext]_allVars => [Next]_vars
    BY DEF MCNext, ParametersStep, SearchStep, LayoutStep, allVars
<1> QED
    BY <1>1, <1>2, SearchStaysTrue, SearchHasReason, PTL DEF MCSpec, Spec

\* Its process data is laid out as PdoLayout says.
THEOREM SetUpLaysOut == MCSpec => []LayoutAgrees
<1>1. MCInit => LayoutInv
    BY LayoutInitially DEF MCInit
<1>2. LayoutInv /\ [MCNext]_allVars => LayoutInv'
  <2>1. [MCNext]_allVars => [Layout!Next]_layoutVars
      BY DEF MCNext, ParametersStep, SearchStep, LayoutStep, allVars
  <2> QED
      BY <2>1, LayoutKept
<1>3. LayoutInv => LayoutAgrees
    BY InvIsAgreed DEF LayoutAgrees
<1> QED
    BY <1>1, <1>2, <1>3, PTL DEF MCSpec
================================================================================
