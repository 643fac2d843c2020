------------------------------ MODULE MCTools -------------------------------
(***************************************************************************)
(* The host tools for TLC.  A behaviour runs one of them, named by tool;   *)
(* the others stay where they start.                                       *)
(***************************************************************************)
EXTENDS MCInterval, MCInitProof, MCRelease

VARIABLE tool

toolsVars == <<tool, frameVars, call, intervalVars, proofVars, epochVars, diag,
               auditVars, releaseVars, compositionVars>>

ToolNames == {"frame", "call", "interval", "proof", "epoch", "report", "audit", "release", "compose"}

MCInit ==
  /\ tool \in ToolNames
  /\ IF tool = "frame" THEN FrameInit ELSE FrameStart(IdleBody, FALSE)
  /\ IF tool = "call" THEN CallInit ELSE CallStart(Program(<<>>, <<>>, <<>>, <<>>))
  /\ IF tool = "interval" THEN IntervalInit ELSE IntervalStart(IdleImage)
  /\ IF tool = "proof" THEN ProofInit ELSE ProofInit /\ OneBuild
  /\ IF tool = "report" THEN DiagInit ELSE DiagStart(IdleArguments, "absent")
  /\ IF tool = "audit" THEN AuditInit ELSE AuditInit /\ build = RestingBuild
  /\ IF tool = "compose" THEN CompositionInit ELSE CompositionInit /\ tree = SmokeTree
  /\ EpochInit /\ ReleaseInit

(* The tools that prove the first initialization. *)
RunsInit ==
  /\ \/ tool = "frame" /\ FrameNext /\ UNCHANGED <<call, intervalVars, proofVars, epochVars, diag>>
     \/ tool = "call" /\ CallNext /\ UNCHANGED <<frameVars, intervalVars, proofVars, epochVars, diag>>
     \/ tool = "interval" /\ IntervalNext /\ UNCHANGED <<frameVars, call, proofVars, epochVars, diag>>
     \/ tool = "proof" /\ ProofNext /\ UNCHANGED <<frameVars, call, intervalVars, epochVars, diag>>
     \/ tool = "epoch" /\ EpochNext /\ UNCHANGED <<frameVars, call, intervalVars, proofVars, diag>>
     \/ tool = "report" /\ DiagNext /\ UNCHANGED <<frameVars, call, intervalVars, proofVars, epochVars>>
  /\ UNCHANGED <<tool, auditVars, releaseVars, compositionVars>>

(* The tools that compose, measure and release an image. *)
RunsRelease ==
  /\ \/ tool = "audit" /\ AuditNext /\ UNCHANGED <<releaseVars, compositionVars>>
     \/ tool = "release" /\ ReleaseNext /\ UNCHANGED <<auditVars, compositionVars>>
     \/ tool = "compose" /\ CompositionNext /\ UNCHANGED <<auditVars, releaseVars>>
  /\ UNCHANGED <<tool, frameVars, call, intervalVars, proofVars, epochVars, diag>>

MCSpec == MCInit /\ [][RunsInit \/ RunsRelease]_toolsVars
=============================================================================
