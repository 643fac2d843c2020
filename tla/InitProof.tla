------------------------------ MODULE InitProof ------------------------------
(***************************************************************************)
(* The command that produces the first-initialization proof receipt        *)
(* (Tools/EmbeddedApplicationMacros/final_init_proof.py: main, preflight,  *)
(* evidence_workspace and the checks between them).                        *)
(*                                                                         *)
(* The artifacts (ELF, map, binary) lie in a build directory that another  *)
(* build may overwrite, file by file, while the command runs; the content  *)
(* of a file is the build that produced it, and a digest is that content.  *)
(* The retained evidence says which build each of its documents is about;  *)
(* provenance and storage report share the profile-evidence directory of   *)
(* one build.  It is constant: the command reads and digests its documents *)
(* again for the receipt, and nothing here rewrites them in between.       *)
(* The output directory holds the files of earlier commands; its names are *)
(* grouped into the receipt, the CFG, the manifest, the names published    *)
(* before the receipt (early) and the ones published after the CFG (late). *)
(*                                                                         *)
(* Every read, check and file operation may raise, and the command may be  *)
(* killed between any two steps; commands follow one another.              *)
(***************************************************************************)
EXTENDS Naturals, Sequences, FiniteSets

CONSTANTS
  Builds,          \* the builds whose files may be in the artifact directory
  MaxCommands,     \* bound on the commands of a behaviour
  MaxRebuilds      \* bound on the files another build overwrites

VARIABLES
  artifacts,       \* [Artifacts -> Builds]
  evidence,        \* [Documents -> Builds]
  out,             \* [Outputs -> file], Nothing where there is none
  cmd,             \* the running command
  rebuilds         \* files overwritten so far

proofVars == <<artifacts, evidence, out, cmd, rebuilds>>

Artifacts == {"elf", "map", "bin"}
Documents == {"profile", "device", "run"}
Outputs == {"receipt", "early", "manifest", "cfg", "late"}
Salvaged == {"early", "late"}      \* what a failed command still moves out
Nothing == [by |-> 0]

(* OUTPUT_NAMES is walked in its own order to remove, in sorted order, with
   the manifest last, to publish. *)
UnlinkOrder == <<"receipt", "early", "manifest", "cfg", "late">>
\* Mutant: published in the order of OUTPUT_NAMES.
PublishOrder_Listed == UnlinkOrder
PublishOrder == <<"early", "receipt", "cfg", "late", "manifest">>

ProofInit ==
  /\ artifacts \in [Artifacts -> Builds]
  /\ evidence \in [Documents -> Builds]
  /\ out = [o \in Outputs |-> Nothing]
  /\ cmd = [n |-> 0, step |-> "idle", failed |-> FALSE, at |-> 1, touched |-> FALSE,
            elf |-> 0, map |-> 0, bin |-> 0, frozen |-> 0, scratch |-> {}]
  /\ rebuilds = 0

Rest == <<artifacts, evidence, rebuilds>>

(* A command starts with preflight: an output directory that overlaps an
   input is refused before anything is touched. *)
Start(overlap) ==
  /\ cmd.step = "idle" /\ cmd.n < MaxCommands
  /\ cmd' = [cmd EXCEPT !.n = @ + 1, !.at = 1, !.failed = overlap, !.touched = FALSE,
                        !.step = IF overlap THEN "idle" ELSE "unlink", !.scratch = {}]
  /\ UNCHANGED <<out, Rest>>

(* preflight removes the managed names in order; a name that is a directory
   raises (Raise). *)
Unlink ==
  /\ cmd.step = "unlink" /\ cmd.at <= Len(UnlinkOrder)
  /\ out' = [out EXCEPT ![UnlinkOrder[cmd.at]] = Nothing]
  /\ cmd' = [cmd EXCEPT !.at = @ + 1, !.touched = TRUE]
  /\ UNCHANGED Rest

(* Arguments that did not parse, or are incomplete, end the command here. *)
Unlinked ==
  /\ cmd.step = "unlink" /\ cmd.at > Len(UnlinkOrder)
  /\ cmd' = [cmd EXCEPT !.step = "digestElf"]
  /\ UNCHANGED <<out, Rest>>

Digest(file, field, from, to) ==
  /\ cmd.step = from
  /\ cmd' = [cmd EXCEPT ![field] = artifacts[file], !.step = to]
  /\ UNCHANGED <<out, Rest>>

DigestElf == Digest("elf", "elf", "digestElf", "digestMap")
DigestMap == Digest("map", "map", "digestMap", "digestBin")
DigestBin == Digest("bin", "bin", "digestBin", "verifyBinary")

Pass(from, to) ==
  /\ cmd.step = from
  /\ cmd' = [cmd EXCEPT !.step = to]
  /\ UNCHANGED <<out, Rest>>

(* verify_binary_elf reads the binary again and compares the ELF digest in
   its application descriptor. *)
VerifyBinary == artifacts["bin"] = cmd.elf /\ Pass("verifyBinary", "provenance")

(* validate_provenance: the provenance is about the digested binary. *)
CheckProvenance == evidence["profile"] = cmd.bin /\ Pass("provenance", "storage")

(* validate_storage: the storage report is about this ELF and this map. *)
CheckStorage ==
  /\ evidence["profile"] = cmd.elf /\ evidence["profile"] = cmd.map
  /\ Pass("storage", "device")

(* validate_image_receipt, validate_device. *)
CheckDevice == evidence["device"] = cmd.bin /\ Pass("device", "runReceipt")
CheckRunReceipt == evidence["run"] = cmd.bin /\ Pass("runReceipt", "workspace")

(* evidence_workspace: a scratch directory inside the output directory. *)
OpenWorkspace == Pass("workspace", "epoch")

(* first_epoch, the calibration rows and the smoke cases leave their files. *)
ReadEpoch ==
  /\ cmd.step = "epoch"
  /\ cmd' = [cmd EXCEPT !.step = "freeze", !.scratch = @ \cup Salvaged]
  /\ UNCHANGED <<out, Rest>>

\* Mutant: the copy is not compared with the digested ELF.
Freeze_Unchecked ==
  /\ cmd.step = "freeze"
  /\ cmd' = [cmd EXCEPT !.step = "prove", !.frozen = artifacts["elf"]]
  /\ UNCHANGED <<out, Rest>>

(* The ELF is copied and the copy digested; it must be the one checked. *)
Freeze ==
  /\ cmd.step = "freeze" /\ artifacts["elf"] = cmd.elf
  /\ cmd' = [cmd EXCEPT !.step = "prove", !.frozen = artifacts["elf"]]
  /\ UNCHANGED <<out, Rest>>

(* The disassembler and the engine read only the frozen copies. *)
Prove ==
  /\ cmd.step = "prove"
  /\ cmd' = [cmd EXCEPT !.step = "receipt", !.scratch = @ \cup {"cfg"}]
  /\ UNCHANGED <<out, Rest>>

WriteReceipt ==
  /\ cmd.step = "receipt"
  /\ cmd' = [cmd EXCEPT !.step = "publish", !.at = 1, !.scratch = @ \cup {"receipt", "manifest"}]
  /\ UNCHANGED <<out, Rest>>

Content(name) ==
  IF name = "receipt"
  THEN [by |-> cmd.n, elf |-> cmd.elf, map |-> cmd.map, bin |-> cmd.bin, analysed |-> cmd.frozen]
  ELSE [by |-> cmd.n]

Publish ==
  /\ cmd.step = "publish" /\ cmd.at <= Len(PublishOrder)
  /\ LET name == PublishOrder[cmd.at]
     IN /\ out' = [out EXCEPT ![name] = Content(name)]
        /\ cmd' = [cmd EXCEPT !.at = @ + 1, !.scratch = @ \ {name}]
  /\ UNCHANGED Rest

Succeed ==
  /\ cmd.step = "publish" /\ cmd.at > Len(PublishOrder)
  /\ cmd' = [cmd EXCEPT !.step = "idle"]
  /\ UNCHANGED <<out, Rest>>

(* An exception anywhere: the command reports failure.  Inside the workspace
   its logs are moved to the output directory first, as far as that succeeds;
   the receipt, the CFG and the manifest of the workspace are dropped. *)
Raise ==
  /\ cmd.step # "idle"
  /\ \E moved \in SUBSET (cmd.scratch \cap Salvaged) :
       out' = [o \in Outputs |-> IF o \in moved THEN Content(o) ELSE out[o]]
  /\ cmd' = [cmd EXCEPT !.step = "idle", !.failed = TRUE, !.scratch = {}]
  /\ UNCHANGED Rest

(* The process is killed: nothing is cleaned up, no result is reported. *)
Kill ==
  /\ cmd.step # "idle"
  /\ cmd' = [cmd EXCEPT !.step = "idle", !.scratch = {}]
  /\ UNCHANGED <<out, Rest>>

(* Another build overwrites one artifact. *)
Rebuild ==
  /\ rebuilds < MaxRebuilds
  /\ \E f \in Artifacts, b \in Builds :
       b # artifacts[f] /\ artifacts' = [artifacts EXCEPT ![f] = b]
  /\ rebuilds' = rebuilds + 1
  /\ UNCHANGED <<evidence, out, cmd>>

ProofNext ==
  \/ \E overlap \in BOOLEAN : Start(overlap)
  \/ Unlink \/ Unlinked \/ DigestElf \/ DigestMap \/ DigestBin \/ VerifyBinary
  \/ CheckProvenance \/ CheckStorage \/ CheckDevice \/ CheckRunReceipt
  \/ OpenWorkspace \/ ReadEpoch \/ Freeze \/ Prove \/ WriteReceipt
  \/ Publish \/ Succeed \/ Raise \/ Kill \/ Rebuild

ProofSpec == ProofInit /\ [][ProofNext]_proofVars

-----------------------------------------------------------------------------
Present(o) == out[o].by # 0

(* A receipt in the output directory is about one build: the ELF that was
   disassembled and proved, the ELF, map and binary whose digests it records
   and all the retained evidence, whichever artifacts another build overwrites
   between the digests, the second read of the binary and the freezing copy.  Once a
   command has touched the directory, no receipt of an earlier one is in it,
   however early the command fails. *)
ReceiptBinds ==
  Present("receipt") =>
    LET r == out["receipt"]
    IN /\ r.analysed = r.elf /\ r.map = r.elf /\ r.bin = r.elf
       /\ \A d \in Documents : evidence[d] = r.elf
       /\ cmd.touched => r.by = cmd.n

(* Receipt and manifest are never together in the output directory unless
   every file there was published by the same command: what an earlier command
   left is gone before a later one adds to it, and a command that fails or is
   killed between two renames leaves no set that looks complete. *)
AcceptedSetWhole ==
  Present("receipt") /\ Present("manifest") =>
    \A o \in Outputs : Present(o) /\ out[o].by = out["receipt"].by

=============================================================================
