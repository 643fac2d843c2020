------------------------------ MODULE MCZenohQueue ------------------------------
(* ZenohQueue on small instances. *)
EXTENDS ZenohQueue
================================================================================
