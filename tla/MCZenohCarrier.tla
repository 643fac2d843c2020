------------------------------ MODULE MCZenohCarrier -----------------------------
(* ZenohCarrier on small instances. *)
EXTENDS ZenohCarrier, TLC

\* The keys are interchangeable (sound: no liveness is checked).
Symmetry == Permutations(Keys)
================================================================================
