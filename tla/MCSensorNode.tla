------------------------------ MODULE MCSensorNode -------------------------------
(* SensorNode on small instances. *)
EXTENDS SensorNode, TLC
================================================================================
