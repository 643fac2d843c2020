------------------------------ MODULE MCMqttCarrier ------------------------------
(* MqttCarrier on small instances. *)
EXTENDS MqttCarrier, TLC

\* The topics are interchangeable (sound: no liveness in the runs using it).
Symmetry == Permutations(Topics)
================================================================================
