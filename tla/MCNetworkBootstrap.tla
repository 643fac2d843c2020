---------------------------- MODULE MCNetworkBootstrap ---------------------------
(* NetworkBootstrap on small instances. *)
EXTENDS NetworkBootstrap, TLC
================================================================================
