----------------------------- MODULE MCZenohRegistry -----------------------------
(* ZenohRegistry on small instances: the index sets the configurations use. *)
EXTENDS ZenohRegistry

OneSession == 0..0
OneSlot == 0..0
TwoSlots == 0..1

\* Where calloc can put a queue: with one block every reservation reuses the
\* memory of the queue freed before it.
OneBlock == 0..0
TwoBlocks == 0..1
================================================================================
