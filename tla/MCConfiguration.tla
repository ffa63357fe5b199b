---------------------------- MODULE MCConfiguration ----------------------------
(***************************************************************************)
(* A small instance of how the driver is set up: HardwareParameters,       *)
(* SlaveSearch and PdoLayout.  None of the three looks at the state of     *)
(* another, so a behaviour that interleaves them shows no more than one    *)
(* each: in a behaviour here one of them goes on and the others rest.      *)
(*                                                                         *)
(* The widths are of a few bits: the numbers of the texts lie on both      *)
(* sides of each bound, and -255, -254 and -250 wrap into the range of a   *)
(* key.                                                                    *)
(***************************************************************************)
EXTENDS SlaveSearch

CONSTANTS Word16, Word32, Word64, Grain, SampleRates, Numbers, Gaps, MaxFrames

VARIABLES
    part,                                                    \* the one that goes on
    texts, outcome, params,                                  \* HardwareParameters
    stage, layout, size, n, offsets, image, sample, wire, frames  \* PdoLayout

Parameters == INSTANCE HardwareParameters
Layout == INSTANCE PdoLayout WITH pc <- stage

layoutVars == <<stage, layout, size, n, offsets, image, sample, wire, frames>>
allVars == <<part, vars, texts, outcome, params, layoutVars>>

ASSUME PartsAssumption ==
    Parameters!WidthAssumption /\ Parameters!RateAssumption /\ Layout!LayoutAssumption

MCRates == [code \in 0 .. 3 |-> 3 * (code + 2)]

MCNumbers ==
    {-256, -255, -254, -250, -1, 0, 1, 2, 3, 4, 8, 9, 31, 32, 63, 64, 255, 256}

SearchRests == bus = <<>> /\ wanted = [alias |-> 0, position |-> 0] /\ Init
ParametersRest == texts = <<>> /\ outcome = "none" /\ params = <<>>

MCInit ==
    /\ Layout!Init
    /\ \/ part = "parameters" /\ Parameters!Init /\ SearchRests
       \/ part = "search" /\ Init /\ ParametersRest
       \/ part = "layout" /\ SearchRests /\ ParametersRest

ParametersStep ==
    /\ part = "parameters" /\ Parameters!Next
    /\ UNCHANGED <<part, vars, layoutVars>>
SearchStep ==
    /\ part = "search" /\ Next
    /\ UNCHANGED <<part, texts, outcome, params, layoutVars>>
LayoutStep ==
    /\ part = "layout" /\ Layout!Next
    /\ UNCHANGED <<part, vars, texts, outcome, params>>

MCNext == ParametersStep \/ SearchStep \/ LayoutStep

MCSpec == MCInit /\ [][MCNext]_allVars

----------------------------------------------------------------------------
(* Properties of the parts. *)

\* The description is taken at its word or refused.
ParametersAsWritten == Parameters!ParametersAsWritten

\* The tables, the registration and the accesses agree in both directions.
LayoutAgrees == Layout!LayoutAgrees
================================================================================
