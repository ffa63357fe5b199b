--------------------------- MODULE HardwareParameters ---------------------------
(***************************************************************************)
(* parse_hardware_parameters and what is made of its result: the texts of  *)
(* the <param> tags in, the parameters of the driver and of the            *)
(* diagnostics out, or an exception that on_init turns into ERROR; and the *)
(* control word the driver writes from them.                               *)
(*                                                                         *)
(* A text is a number, or what is no number.  A number of a rate or a      *)
(* scale is counted in Grain-ths of the last digit std::to_string prints.  *)
(***************************************************************************)
EXTENDS Integers

CONSTANTS
    Word16, Word32, Word64,  \* the values of a uint16_t, a uint32_t, an unsigned long
    Grain,                   \* the parts of a printed digit
    SampleRates,             \* sample_rate_hz of each sample_rate_code, printed exactly
    Numbers                  \* bound: the numbers the texts are written with

WidthAssumption ==
    /\ Word16 \in Nat /\ Word32 \in Nat /\ Word64 \in Nat
    /\ 16 < Word16 /\ Word16 < Word32 /\ Word32 < Word64

RateAssumption ==
    /\ Grain \in Nat /\ Grain % 2 = 1
    /\ SampleRates \in [0 .. 3 -> {n \in Nat \ {0} : n % Grain = 0}]
    /\ Numbers \subseteq Int

VARIABLES
    texts,    \* the text of each key, with "absent" for none
    outcome,  \* "none", "parsed" or "rejected"
    params    \* the value of each key

vars == <<texts, outcome, params>>

IntegerKeys ==
    {"master_index", "slave_alias", "slave_position", "vendor_id", "product_code",
     "revision", "runtime_diagnostic_sdo_timeout_ms", "filter_selection",
     "calibration_slot", "sample_rate_code"}
RealKeys ==
    {"counts_per_force", "counts_per_torque", "expected_sensor_rate_hz",
     "expected_read_rate_hz"}
BooleanKeys ==
    {"read_calibration_sdo", "runtime_diagnostic_sdo", "set_bias_on_activate",
     "clear_bias_on_activate"}
Keys == IntegerKeys \cup RealKeys \cup BooleanKeys

NoNumber == {"absent", "empty", "junk", "true", "false"}
Text(kind) == [kind |-> kind, number |-> 0]
Number(n) == [kind |-> "number", number |-> n]
Texts == {Text(kind) : kind \in NoNumber} \cup {Number(n) : n \in Numbers}

\* No value: the parser throws.
Nothing == Text("rejected")

\* The largest value of an integer key.
Bound(k) ==
    CASE k \in {"slave_alias", "slave_position"} -> Word16 - 1
      [] k = "filter_selection" -> 8
      [] k = "calibration_slot" -> 1
      [] k = "sample_rate_code" -> 3
      [] OTHER -> Word32 - 1

\* std::stoul and std::stoull take a minus sign, and the negative of the rest.
Unsigned(n) == IF n < 0 THEN Word64 + n ELSE n

\* Mutant: the value is cast to the width of its parameter before it is tested.
IntegerCast(k, t) ==
    IF t.kind = "number" /\ -Word64 < t.number /\ t.number < Word64
      THEN Number(Unsigned(t.number) % (Bound(k) + 1))
      ELSE Nothing

\* parse_u8, parse_u16 and parse_u32
Integer(k, t) ==
    IF /\ t.kind = "number"
       /\ -Word64 < t.number /\ t.number < Word64
       /\ Unsigned(t.number) <= Bound(k)
      THEN Number(Unsigned(t.number))
      ELSE Nothing

\* parse_positive_double
Positive(t) == IF t.kind = "number" /\ t.number > 0 THEN t ELSE Nothing

\* parse_bool_parameter: "1" and "0" are booleans too.
Boolean(t) ==
    CASE t.kind = "true" \/ t = Number(1) -> Number(1)
      [] t.kind = "false" \/ t = Number(0) -> Number(0)
      [] OTHER -> Nothing

\* std::to_string of a rate rounds it to the last digit printed.
Printed(n) == Number(((2 * n + Grain) \div (2 * Grain)) * Grain)

\* The identity of the sensor, from the ATI XML, is any value of its width here.
Identity == [vendor_id |-> 1, product_code |-> 2, revision |-> 1]

Given(k) == texts[k].kind # "absent"

\* What is parsed for a key that is not there; slave_position is required.
Default(k) ==
    CASE k = "slave_position" -> Text("empty")
      [] k \in DOMAIN Identity -> Number(Identity[k])
      [] k = "runtime_diagnostic_sdo_timeout_ms" -> Number(5)
      [] k = "sample_rate_code" -> Number(1)
      [] k \in {"read_calibration_sdo", "runtime_diagnostic_sdo"} -> Text("true")
      [] k \in {"set_bias_on_activate", "clear_bias_on_activate"} -> Text("false")
      [] k \in {"counts_per_force", "counts_per_torque"} -> Number(10 * Grain)
      [] OTHER -> Number(0)

TextOf(k) == IF Given(k) THEN texts[k] ELSE Default(k)

NotZero(t) == IF t = Number(0) THEN Nothing ELSE t

Code == Integer("sample_rate_code", TextOf("sample_rate_code"))

SensorRate ==
    IF Given("expected_sensor_rate_hz")
      THEN Positive(texts["expected_sensor_rate_hz"])
      ELSE IF Code = Nothing THEN Nothing ELSE Number(SampleRates[Code.number])

\* The default is the sensor rate, printed and parsed again.
ReadRate ==
    IF Given("expected_read_rate_hz")
      THEN Positive(texts["expected_read_rate_hz"])
      ELSE IF SensorRate = Nothing THEN Nothing ELSE Positive(Printed(SensorRate.number))

ValueOf(k) ==
    CASE k = "expected_sensor_rate_hz" -> SensorRate
      [] k = "expected_read_rate_hz" -> ReadRate
      [] k = "runtime_diagnostic_sdo_timeout_ms" -> NotZero(Integer(k, TextOf(k)))
      [] k \in BooleanKeys -> Boolean(TextOf(k))
      [] k \in {"counts_per_force", "counts_per_torque"} -> Positive(TextOf(k))
      [] OTHER -> Integer(k, TextOf(k))

----------------------------------------------------------------------------

\* Up to two keys are given beside slave_position.
Init ==
    /\ \E j, k \in Keys, s, t \in Texts :
        texts = [i \in Keys |->
                   IF i = j THEN s
                   ELSE IF i = k THEN t
                   ELSE IF i = "slave_position" THEN Number(0)
                   ELSE Text("absent")]
    /\ outcome = "none"
    /\ params = [k \in Keys |-> 0]

\* on_init.  The members of the plugin are assigned when all is parsed.
Parse ==
    /\ outcome = "none"
    /\ IF \A k \in Keys : ValueOf(k) # Nothing
         THEN /\ outcome' = "parsed"
              /\ params' = [k \in Keys |-> ValueOf(k).number]
         ELSE /\ outcome' = "rejected"
              /\ UNCHANGED params
    /\ UNCHANGED texts

\* What was parsed is kept.
Keep == outcome # "none" /\ UNCHANGED vars

Next == Parse \/ Keep

Spec == Init /\ [][Next]_vars

Parsed == outcome = "parsed"

\* control_word_: its fields, of four bits each.
ControlWord ==
    (params["filter_selection"] % 16) * 16 + (params["calibration_slot"] % 16) * 256
        + (params["sample_rate_code"] % 16) * 4096

----------------------------------------------------------------------------
(* Properties. *)

\* A key is given a value that its documentation allows.
Legal(k, t) ==
    CASE k = "runtime_diagnostic_sdo_timeout_ms" ->
            t.kind = "number" /\ t.number \in 1 .. Bound(k)
      [] k \in IntegerKeys \ {"runtime_diagnostic_sdo_timeout_ms"} ->
            t.kind = "number" /\ t.number \in 0 .. Bound(k)
      [] k \in RealKeys -> t.kind = "number" /\ t.number > 0
      [] k \in BooleanKeys -> t.kind \in {"true", "false"} \/ t \in {Number(0), Number(1)}

\* The parameters that reach the driver are in their ranges, whatever was written.
ParsedInRange ==
    Parsed => /\ \A k \in IntegerKeys : params[k] \in 0 .. Bound(k)
              /\ params["runtime_diagnostic_sdo_timeout_ms"] > 0
              /\ \A k \in RealKeys : params[k] > 0
              /\ \A k \in BooleanKeys : params[k] \in {0, 1}

\* A value is not taken for another: the parameter is the number that was written,
\* or a negative number stands for the one it is congruent to in an unsigned long.
ParsedAsWritten ==
    Parsed => \A k \in Keys : Given(k) /\ texts[k].kind = "number" =>
                  params[k] \in {texts[k].number, texts[k].number + Word64}

\* What is legal is accepted, and what is neither legal nor such a negative number
\* is not.  One legal sensor rate is refused, for the read rate that defaults to
\* it: the one that prints as zero.
LegalAccepted ==
    LET legal == \A k \in Keys : Given(k) => Legal(k, texts[k])
        wrapped(k) == k \in IntegerKeys /\ texts[k].kind = "number" /\ texts[k].number < 0
        vanishes == /\ Given("expected_sensor_rate_hz") /\ ~Given("expected_read_rate_hz")
                    /\ 2 * texts["expected_sensor_rate_hz"].number < Grain
    IN  /\ outcome = "rejected" /\ legal => vanishes \/ ~Given("slave_position")
        /\ Parsed => \A k \in Keys : Given(k) => Legal(k, texts[k]) \/ wrapped(k)

\* The rates that are not given follow the ones that are: the sensor rate is the
\* exact rate of the code, and the read rate the sensor rate to the digit printed.
RatesFollow ==
    Parsed =>
        /\ ~Given("expected_sensor_rate_hz") =>
             params["expected_sensor_rate_hz"] = SampleRates[params["sample_rate_code"]]
        /\ ~Given("expected_read_rate_hz") =>
             LET difference == params["expected_read_rate_hz"] - params["expected_sensor_rate_hz"]
             IN  -Grain < 2 * difference /\ 2 * difference < Grain

\* No bias is asked for that was not written: both pulses of an activation and the
\* bias bits of the control word stay off, and the word gives each field back.
NoBiasUnasked ==
    Parsed =>
        /\ ControlWord % 16 = 0
        /\ (ControlWord \div 16) % 16 = params["filter_selection"]
        /\ (ControlWord \div 256) % 16 = params["calibration_slot"]
        /\ ControlWord \div 4096 = params["sample_rate_code"]
        /\ \A k \in {"set_bias_on_activate", "clear_bias_on_activate"} :
             ~Given(k) => params[k] = 0

\* The description is taken at its word or refused, whatever is written in it.
ParametersAsWritten ==
    /\ ParsedInRange /\ ParsedAsWritten /\ LegalAccepted /\ RatesFollow
    /\ NoBiasUnasked
================================================================================
