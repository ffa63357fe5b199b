---------------------------- MODULE MCSensorReports ----------------------------
(***************************************************************************)
(* SensorReports for TLC: a word of each level, the error being a bit that *)
(* has no name, and a communication fault next to a sensor without one.    *)
(***************************************************************************)
EXTENDS SensorReports

Found(w, c) == [word |-> w, communication |-> c]

MCSamples ==
    {Found({}, "OK"), Found({"bit26"}, "OK"), Found({"bit4"}, "OK"),
     Found({}, "ERROR")}
================================================================================
