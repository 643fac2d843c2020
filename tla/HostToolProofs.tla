--------------------------- MODULE HostToolProofs ----------------------------
(***************************************************************************)
(* What the host tools guarantee for every set of builds, every number of  *)
(* commands, every length of log and every tree: the report's destination, *)
(* the selection of the first boot, the files the proof command publishes, *)
(* the composition of an image, the release certificate, the stack walk of *)
(* a function, the walk of the call graph and the storage gate's receipt.  *)
(***************************************************************************)
EXTENDS InitProof, FirstEpoch, DiagnosticReport, Composition, ReleaseManifest, FrameWalk, CallWalk,
        StorageAudit, FiniteSetTheorems, SequenceTheorems, WellFoundedInduction, TLAPS

-----------------------------------------------------------------------------
(* The diagnostic's report.                                                *)

DiagSteps ==
  {"parse", "aliases", "invalidate", "arguments", "inputs", "temporary", "replace",
   "reported", "usage error", "killed"}

DiagType ==
  diag \in [step : DiagSteps, args : Arguments, was : ReportPaths,
            at : ReportPaths \cup {"report"}, temporary : BOOLEAN, touched : BOOLEAN]

(* Where the command is says what it has already checked and removed. *)
DiagProgress ==
  /\ diag.step = "invalidate" => diag.was \notin {"input", "incomparable"}
  /\ diag.step = "arguments" /\ diag.args.out => diag.touched
  /\ diag.step \in {"inputs", "temporary", "replace", "reported"} => diag.touched
  /\ diag.step \in {"parse", "aliases", "invalidate"} => ~diag.touched /\ ~diag.temporary
  /\ diag.touched => diag.was \notin {"input", "incomparable", "directory"}
  /\ ~diag.touched => diag.at = diag.was

DiagInv == DiagType /\ DiagProgress /\ DestinationHonest

LEMMA DiagStarts == DiagInit => DiagInv
  BY DEF DiagInit, DiagStart, DiagInv, DiagType, DiagProgress, DestinationHonest,
         DiagSteps, Arguments, ReportPaths

LEMMA DiagStep == DiagInv /\ [DiagNext]_diag => DiagInv'
<1> SUFFICES ASSUME DiagInv, [DiagNext]_diag PROVE DiagInv' OBVIOUS
<1> USE DEF DiagInv, DiagType, DiagProgress, DestinationHonest, DiagSteps, ReportPaths, Goto, Fails
<1>1. CASE DiagParse BY <1>1 DEF DiagParse
<1>2. CASE RejectOutputAliases BY ZenonT(60), <1>2 DEF RejectOutputAliases
<1>3. CASE InvalidateOutput BY ZenonT(60), <1>3 DEF InvalidateOutput
<1>4. CASE CheckArguments BY ZenonT(60), <1>4 DEF CheckArguments
<1>5. CASE ReadAndAnalyze BY <1>5 DEF ReadAndAnalyze
<1>6. CASE WriteTemporary BY <1>6 DEF WriteTemporary
<1>7. CASE ReplaceOutput BY <1>7 DEF ReplaceOutput
<1>8. CASE WriteFailed BY <1>8 DEF WriteFailed
<1>9. CASE DiagRaise BY <1>9 DEF DiagRaise
<1>10. CASE DiagKill BY <1>10 DEF DiagKill
<1>11. CASE UNCHANGED diag BY <1>11
<1> QED BY <1>1, <1>2, <1>3, <1>4, <1>5, <1>6, <1>7, <1>8, <1>9, <1>10, <1>11 DEF DiagNext

(* Whatever fails and wherever the process is killed, --out holds an input *)
(* or a directory as it was, nothing, or the complete report of this run   *)
(* (first_init_stack.py main, reject_output_aliases, invalidate_output,    *)
(* write_report_atomic).                                                   *)
THEOREM DestinationHonestHolds == DiagSpec => []DestinationHonest
<1>1. DiagInv => DestinationHonest BY DEF DiagInv
<1> QED BY DiagStarts, DiagStep, <1>1, PTL DEF DiagSpec

-----------------------------------------------------------------------------
(* The selection of the first boot.                                        *)

EpochType ==
  /\ log \in Seq(LineKinds)
  /\ scan \in [rom : BOOLEAN, activity : BOOLEAN, completion : Nat, end : Nat,
               verdict : {"scanning", "accepted", "refused"}]

(* What the flags of the scan say of the lines before one: the banner is
   there at most once, only preamble comes before it, and the completion mark
   is one past the only completed row. *)
FlagsTrue(end) ==
  /\ end \in 1 .. Len(log) + 1
  /\ ~scan.rom => \A i \in 1 .. end - 1 : log[i] = "preamble"
  /\ scan.rom => \E i \in 1 .. end - 1 :
                   log[i] = "rom" /\ \A j \in 1 .. end - 1 : log[j] = "rom" => j = i
  /\ scan.activity <=> \E j \in 1 .. end - 1 : Active(j)
  /\ scan.completion = 0 => \A j \in 1 .. end - 1 : log[j] # "completed"
  /\ scan.completion # 0 =>
       /\ scan.completion - 1 \in 1 .. end - 1
       /\ \A j \in 1 .. end - 1 : log[j] = "completed" <=> j = scan.completion - 1

(* The order of the lines before one. *)
OneBoot(end) ==
  /\ \A i, j \in 1 .. end - 1 : log[i] = "rom" /\ Active(j) => i < j
  /\ \A i, j \in 1 .. end - 1 : log[i] = "reset" /\ Active(j) => i < j
  /\ \A i, j \in 1 .. end - 1 : log[i] = "completed" /\ log[j] = "boot" => j < i

EpochInv ==
  /\ EpochType
  /\ scan.verdict = "scanning" => FlagsTrue(Len(log) + 1) /\ OneBoot(Len(log) + 1)
  /\ scan.verdict = "accepted" =>
       /\ scan.rom /\ scan.completion # 0
       /\ FlagsTrue(scan.end) /\ OneBoot(scan.end)
       /\ scan.end <= Len(log) => log[scan.end] \in {"rom", "reset", "boot"}

LEMMA EpochStarts == EpochInit => EpochInv
  BY DEF EpochInit, EpochInv, EpochType, FlagsTrue, OneBoot, Active

\* A line appended to the log leaves the earlier lines alone.
LEMMA AppendedLine ==
  ASSUME NEW line \in LineKinds, log \in Seq(LineKinds), log' = Append(log, line)
  PROVE  /\ log' \in Seq(LineKinds) /\ Len(log') = Len(log) + 1 /\ log'[Len(log) + 1] = line
         /\ \A i \in 1 .. Len(log) : log'[i] = log[i]
         /\ Len(log) \in Nat
  OBVIOUS

\* Closing the scan settles the end and the verdict and leaves the flags.
LEMMA ClosedScan ==
  ASSUME EpochType, NEW end \in Nat, scan' = Closed(end)
  PROVE  /\ scan' \in [rom : BOOLEAN, activity : BOOLEAN, completion : Nat, end : Nat,
                       verdict : {"scanning", "accepted", "refused"}]
         /\ (scan'.rom <=> scan.rom) /\ (scan'.activity <=> scan.activity)
         /\ scan'.completion = scan.completion /\ scan'.end = end
         /\ scan'.verdict \in {"accepted", "refused"}
         /\ scan'.verdict = "accepted" => scan.rom /\ scan.completion # 0
<1> DEFINE accepts == scan.rom /\ scan.completion # 0 /\ scan.completion <= end
<1>1. CASE accepts
  <2>1. scan' = [scan EXCEPT !.end = end, !.verdict = "accepted"] BY <1>1 DEF Closed
  <2> QED BY <1>1, <2>1 DEF EpochType
<1>2. CASE ~accepts
  <2>1. scan' = [scan EXCEPT !.end = end, !.verdict = "refused"] BY <1>2 DEF Closed
  <2> QED BY <2>1 DEF EpochType
<1> QED BY <1>1, <1>2

LEMMA EpochStep == EpochInv /\ [EpochNext]_epochVars => EpochInv'
<1> SUFFICES ASSUME EpochInv, [EpochNext]_epochVars PROVE EpochInv' OBVIOUS
<1> USE DEF EpochInv
<1>0. Len(log) \in Nat BY DEF EpochType
<1>1. ASSUME NEW line \in LineKinds, EndEpoch(line) PROVE EpochInv'
  <2>1. log' = Append(log, line) /\ scan' = Closed(Len(log) + 1) /\ Boundary(line)
        /\ scan.verdict = "scanning"
    BY <1>1 DEF EndEpoch, Reads
  <2>2. /\ (scan'.rom <=> scan.rom) /\ (scan'.activity <=> scan.activity)
        /\ scan'.completion = scan.completion /\ scan'.end = Len(log) + 1
        /\ scan'.verdict \in {"accepted", "refused"}
        /\ scan'.verdict = "accepted" => scan.rom /\ scan.completion # 0
    BY <2>1, <1>0, ClosedScan
  <2>3. EpochType' BY <2>1, <1>0, AppendedLine, ClosedScan DEF EpochType
  <2>4. line \in {"rom", "reset", "boot"} BY <2>1 DEF Boundary
  <2>7. Len(log') = Len(log) + 1 /\ \A k \in 1 .. Len(log) : log'[k] = log[k]
    BY <2>1, AppendedLine DEF EpochType
  <2>8. FlagsTrue(Len(log) + 1) BY <2>1
  <2>5. FlagsTrue(scan.end)'
    <3>1. (\E k \in 1 .. Len(log) : Active(k)') <=> \E k \in 1 .. Len(log) : Active(k)
      BY <2>7 DEF Active
    <3> QED BY SMTT(30), <2>2, <2>7, <2>8, <3>1, <1>0 DEF FlagsTrue
  <2>6. OneBoot(scan.end)' BY <2>1, <2>2, <1>0, AppendedLine DEF OneBoot, EpochType, Active
  <2> QED BY <2>1, <2>2, <2>3, <2>4, <2>5, <2>6, AppendedLine DEF EpochType
<1>2. ASSUME NEW line \in LineKinds, RejectLine(line) PROVE EpochInv'
  BY <1>2, AppendedLine DEF RejectLine, Reads, EpochType
<1>3. ASSUME NEW line \in LineKinds, TakeLine(line) PROVE EpochInv'
  <2>1. /\ log' = Append(log, line) /\ ~Boundary(line) /\ ~Rejected(line)
        /\ scan.verdict = "scanning"
    BY <1>3 DEF TakeLine, Reads
  <2>2. /\ scan'.rom <=> scan.rom \/ line = "rom"
        /\ scan'.activity <=> scan.activity \/ line \in {"calibration", "boot", "row", "completed"}
        /\ scan'.completion = IF line = "completed" THEN Len(log) + 2 ELSE scan.completion
        /\ scan'.verdict = "scanning"
    BY <1>3, <2>1 DEF TakeLine, EpochType
  <2>3. EpochType'
    <3>1. PICK rom \in BOOLEAN, activity \in BOOLEAN, completion \in Nat :
            scan' = [scan EXCEPT !.rom = rom, !.activity = activity, !.completion = completion]
      <4>1. (IF line = "completed" THEN Len(log) + 2 ELSE scan.completion) \in Nat
        BY <1>0 DEF EpochType
      <4> QED BY <1>3, <4>1, Zenon DEF TakeLine
    <3> QED BY <2>1, <3>1, AppendedLine DEF EpochType
  <2>4. FlagsTrue(Len(log) + 1)'
    BY <2>1, <2>2, <1>0, AppendedLine DEF FlagsTrue, EpochType, Active, Boundary, Rejected
  <2>5. OneBoot(Len(log) + 1)'
    BY SMTT(30), <2>1, <2>2, <1>0, AppendedLine DEF FlagsTrue, OneBoot, EpochType, Active, Boundary, Rejected
  <2> QED BY <2>2, <2>3, <2>4, <2>5
<1>4. CASE EndLog
  <2>1. log' = log /\ scan' = Closed(Len(log) + 1) /\ scan.verdict = "scanning"
    BY <1>4 DEF EndLog
  <2>2. /\ (scan'.rom <=> scan.rom) /\ (scan'.activity <=> scan.activity)
        /\ scan'.completion = scan.completion /\ scan'.end = Len(log) + 1
        /\ scan'.verdict \in {"accepted", "refused"}
        /\ scan'.verdict = "accepted" => scan.rom /\ scan.completion # 0
    BY <2>1, <1>0, ClosedScan
  <2>3. EpochType' BY <2>1, <1>0, ClosedScan DEF EpochType
  <2>4. FlagsTrue(scan.end)' BY SMTT(30), <2>1, <2>2 DEF FlagsTrue, EpochType, Active
  <2>5. OneBoot(scan.end)' BY <2>1, <2>2 DEF OneBoot, EpochType, Active
  <2> QED BY <2>1, <2>2, <2>3, <2>4, <2>5, <1>0
<1>5. CASE UNCHANGED epochVars
  BY <1>5 DEF epochVars, EpochType, FlagsTrue, OneBoot, Active
<1> QED BY <1>1, <1>2, <1>3, <1>4, <1>5 DEF EpochNext

\* The strengthened invariant counts the banner and the completed row.
LEMMA EpochSelected == EpochInv => EpochIsFirstBoot
<1> SUFFICES ASSUME EpochInv, scan.verdict = "accepted" PROVE EpochIsFirstBoot
  BY DEF EpochIsFirstBoot
<1> DEFINE end == scan.end
<1>1. PICK i \in 1 .. end - 1 : log[i] = "rom" /\ \A j \in 1 .. end - 1 : log[j] = "rom" => j = i
  BY DEF EpochInv, FlagsTrue
<1>2. {j \in 1 .. end - 1 : log[j] = "rom"} = {i} BY <1>1
<1>3. {j \in 1 .. end - 1 : log[j] = "completed"} = {scan.completion - 1}
  BY DEF EpochInv, FlagsTrue
<1>4. Count("rom", end) = 1 /\ Count("completed", end) = 1 BY <1>2, <1>3, FS_Singleton DEF Count
<1> QED BY <1>4 DEF EpochIsFirstBoot, EpochInv, OneBoot

(* The epoch accepted as the first boot holds one banner with all activity *)
(* after it, one completion and nothing of a later boot, for logs of every *)
(* length (final_init_proof.py first_epoch).                               *)
THEOREM EpochIsFirstBootHolds == EpochSpec => []EpochIsFirstBoot
  BY EpochStarts, EpochStep, EpochSelected, PTL DEF EpochSpec

-----------------------------------------------------------------------------
(* The files of the proof command.                                         *)

ProofSteps ==
  {"idle", "unlink", "digestElf", "digestMap", "digestBin", "verifyBinary", "provenance",
   "storage", "device", "runReceipt", "workspace", "epoch", "freeze", "prove", "receipt",
   "publish"}

(* The steps between the last removal and the first rename. *)
Empty == ProofSteps \ {"idle", "unlink", "publish"}

(* The steps that come after a check, for each check. *)
PastFreeze == {"prove", "receipt", "publish"}
PastRun == PastFreeze \cup {"workspace", "epoch", "freeze"}
PastDevice == PastRun \cup {"runReceipt"}
PastStorage == PastDevice \cup {"device"}
PastProvenance == PastStorage \cup {"storage"}

Digests == Builds \cup {0}
Commands ==
  [n : Nat, step : ProofSteps, failed : BOOLEAN, at : Nat, touched : BOOLEAN,
   elf : Digests, map : Digests, bin : Digests, frozen : Digests, scratch : SUBSET Outputs]
Files == [by : Nat] \cup [by : Nat, elf : Digests, map : Digests, bin : Digests, analysed : Digests]

ProofType ==
  /\ artifacts \in [Artifacts -> Builds]
  /\ evidence \in [Documents -> Builds]
  /\ out \in [Outputs -> Files]
  /\ cmd \in Commands

(* The checks passed so far hold of the digests, however the artifacts have
   been overwritten since. *)
Checked ==
  /\ cmd.step \in PastProvenance => evidence["profile"] = cmd.bin
  /\ cmd.step \in PastStorage => evidence["profile"] = cmd.elf /\ evidence["profile"] = cmd.map
  /\ cmd.step \in PastDevice => evidence["device"] = cmd.bin
  /\ cmd.step \in PastRun => evidence["run"] = cmd.bin
  /\ cmd.step \in PastFreeze => cmd.frozen = cmd.elf

(* What is in the output directory, from the position of the command. *)
Emptied ==
  /\ cmd.step # "idle" => cmd.n # 0
  /\ cmd.step = "unlink" =>
       /\ cmd.scratch = {} /\ cmd.at # 0
       /\ cmd.touched <=> cmd.at > 1
       /\ \A i \in 1 .. 5 : i < cmd.at => out[UnlinkOrder[i]] = Nothing
  /\ cmd.step \in Empty => cmd.touched /\ \A o \in Outputs : out[o] = Nothing
  /\ cmd.step = "publish" =>
       /\ cmd.touched /\ cmd.at # 0
       /\ \A i \in 1 .. 5 : IF i < cmd.at THEN out[PublishOrder[i]].by = cmd.n
                                          ELSE out[PublishOrder[i]] = Nothing

ProofInv == ProofType /\ Checked /\ Emptied /\ ReceiptBinds /\ AcceptedSetWhole

LEMMA ProofStarts == ProofInit => ProofInv
<1> SUFFICES ASSUME ProofInit PROVE ProofInv OBVIOUS
<1> USE DEF ProofInit
<1>1. out \in [Outputs -> Files] BY DEF Files, Nothing
<1>2. cmd \in Commands BY DEF Commands, ProofSteps, Digests
<1>3. Checked BY DEF Checked, PastProvenance, PastStorage, PastDevice, PastRun, PastFreeze
<1>4. Emptied BY DEF Emptied, Empty
<1>5. ~Present("receipt") BY DEF Present, Nothing, Outputs
<1> QED BY <1>1, <1>2, <1>3, <1>4, <1>5 DEF ProofInv, ProofType, ReceiptBinds, AcceptedSetWhole

\* The two orders name every output once; the manifest comes last.
LEMMA Orders ==
  /\ Len(UnlinkOrder) = 5 /\ UnlinkOrder[1] = "receipt" /\ UnlinkOrder[2] = "early"
  /\ UnlinkOrder[3] = "manifest" /\ UnlinkOrder[4] = "cfg" /\ UnlinkOrder[5] = "late"
  /\ Len(PublishOrder) = 5 /\ PublishOrder[1] = "early" /\ PublishOrder[2] = "receipt"
  /\ PublishOrder[3] = "cfg" /\ PublishOrder[4] = "late" /\ PublishOrder[5] = "manifest"
  BY DEF UnlinkOrder, PublishOrder

\* A step that leaves the output directory and the command's number alone
\* keeps both promises about the directory.
LEMMA DirectoryKept ==
  ASSUME ReceiptBinds, AcceptedSetWhole, UNCHANGED <<out, evidence>>,
         cmd'.touched => cmd.touched /\ cmd'.n = cmd.n
  PROVE  ReceiptBinds' /\ AcceptedSetWhole'
  BY DEF ReceiptBinds, AcceptedSetWhole, Present

\* A check or a read between the removals and the renames moves on without
\* touching the directory; what it leaves to show is about the digests.
LEMMA BetweenSteps ==
  ASSUME ProofInv, UNCHANGED <<out, evidence>>, artifacts' \in [Artifacts -> Builds],
         cmd.step \in Empty, cmd'.step \in Empty, cmd' \in Commands,
         cmd'.n = cmd.n, cmd'.touched = cmd.touched, Checked'
  PROVE  ProofInv'
<1> USE DEF ProofInv
<1>1. ProofType' BY DEF ProofType
<1>2. Emptied' BY DEF Emptied, Empty, Outputs, ProofType, Commands
<1> QED BY <1>1, <1>2, DirectoryKept

LEMMA ProofStep == ProofInv /\ [ProofNext]_proofVars => ProofInv'
<1> SUFFICES ASSUME ProofInv, [ProofNext]_proofVars PROVE ProofInv' OBVIOUS
<1> USE DEF ProofInv, ProofType
<1>1. ASSUME NEW overlap \in BOOLEAN, Start(overlap) PROVE ProofInv'
  <2>0. PICK to \in {"idle", "unlink"} :
          cmd' = [cmd EXCEPT !.n = cmd.n + 1, !.at = 1, !.failed = overlap, !.touched = FALSE,
                             !.step = to, !.scratch = {}]
    BY <1>1, Zenon DEF Start
  <2>1. /\ UNCHANGED <<out, evidence, artifacts>> /\ cmd' \in Commands /\ ~cmd'.touched
        /\ cmd'.step \in {"idle", "unlink"} /\ cmd'.n # 0 /\ cmd'.at = 1 /\ cmd'.scratch = {}
    <3>1. UNCHANGED <<out, evidence, artifacts>> BY <1>1 DEF Start, Rest
    <3>0. cmd.n + 1 \in Nat BY DEF Commands
    <3>2. cmd' \in Commands BY <2>0, <3>0 DEF Commands, ProofSteps
    <3>3. ~cmd'.touched BY <2>0 DEF Commands
    <3>4. cmd'.step \in {"idle", "unlink"} /\ cmd'.n # 0 /\ cmd'.at = 1 /\ cmd'.scratch = {}
      BY <2>0 DEF Commands
    <3> QED BY <3>1, <3>2, <3>3, <3>4
  <2>2. Checked' BY <2>1 DEF Checked, PastProvenance, PastStorage, PastDevice, PastRun, PastFreeze
  <2>3. Emptied' BY <2>1 DEF Emptied, Empty, Commands
  <2> QED BY <2>1, <2>2, <2>3, DirectoryKept
<1>2. CASE Unlink
  <2>1. /\ UNCHANGED <<evidence, artifacts>> /\ cmd' \in Commands /\ cmd'.touched
        /\ cmd.step = "unlink" /\ cmd'.step = "unlink" /\ cmd'.n = cmd.n /\ cmd'.at = cmd.at + 1
        /\ cmd'.scratch = {} /\ cmd.at \in 1 .. 5
        /\ out' = [out EXCEPT ![UnlinkOrder[cmd.at]] = Nothing]
    <3>1. UNCHANGED <<evidence, artifacts>> BY <1>2 DEF Unlink, Rest
    <3>0. cmd.at + 1 \in Nat BY DEF Commands
    <3>2. cmd' \in Commands BY <1>2, <3>0 DEF Unlink, Commands, ProofSteps
    <3>3. cmd'.touched BY <1>2 DEF Unlink, Commands
    <3>4. /\ cmd.step = "unlink" /\ cmd'.step = "unlink" /\ cmd'.n = cmd.n /\ cmd'.at = cmd.at + 1
          /\ cmd'.scratch = {} /\ cmd.at \in 1 .. 5
      BY <1>2, Orders DEF Unlink, Commands, Emptied
    <3> QED BY <1>2, <3>1, <3>2, <3>3, <3>4 DEF Unlink
  <2>2. UnlinkOrder[cmd.at] \in Outputs BY <2>1, Orders DEF Outputs
  <2>3. out' \in [Outputs -> Files] BY <2>1, <2>2 DEF Files, Nothing
  <2>4. Checked' BY <2>1 DEF Checked, PastProvenance, PastStorage, PastDevice, PastRun, PastFreeze
  <2>5. \A i \in 1 .. 5 : i < cmd'.at => out'[UnlinkOrder[i]] = Nothing
    <3> SUFFICES ASSUME NEW i \in 1 .. 5, i < cmd.at + 1 PROVE out'[UnlinkOrder[i]] = Nothing
      BY <2>1
    <3>1. UnlinkOrder[i] \in Outputs BY Orders DEF Outputs
    <3>2. CASE i = cmd.at BY <2>1, <2>2, <3>2
    <3>3. CASE i < cmd.at BY <2>1, <2>2, <3>1, <3>3 DEF Emptied
    <3> QED BY <2>1, <3>2, <3>3
  <2>6. Emptied' BY <2>1, <2>5 DEF Emptied, Empty, Commands
  <2>7. out'["receipt"] = Nothing BY <2>1, <2>5, Orders
  <2>8. ~Present("receipt")' BY <2>7 DEF Present, Nothing
  <2> QED BY <2>1, <2>3, <2>4, <2>6, <2>8 DEF ReceiptBinds, AcceptedSetWhole
<1>3. CASE Unlinked
  <2>1. /\ UNCHANGED <<out, evidence, artifacts>> /\ cmd' \in Commands /\ cmd'.touched = cmd.touched
        /\ cmd.step = "unlink" /\ cmd'.step = "digestElf" /\ cmd'.n = cmd.n /\ cmd.at > 5
    BY <1>3, Orders DEF Unlinked, Rest, Commands, ProofSteps
  <2>2. Checked' BY <2>1 DEF Checked, PastProvenance, PastStorage, PastDevice, PastRun, PastFreeze
  <2>3. \A i \in 1 .. 5 : out[UnlinkOrder[i]] = Nothing BY <2>1 DEF Emptied, Commands
  <2>4. \A o \in Outputs : out[o] = Nothing BY <2>3, Orders DEF Outputs
  <2>5. cmd.touched BY <2>1 DEF Emptied, Commands
  <2>6. Emptied' BY <2>1, <2>4, <2>5 DEF Emptied, Empty, Commands
  <2> QED BY <2>1, <2>2, <2>6, DirectoryKept
<1>5. CASE DigestElf \/ DigestMap \/ DigestBin
  <2>1. /\ UNCHANGED <<out, evidence, artifacts>> /\ cmd' \in Commands
        /\ cmd'.n = cmd.n /\ (cmd'.touched = cmd.touched)
        /\ cmd.step \in Empty
        /\ cmd'.step \in {"digestMap", "digestBin", "verifyBinary"}
    BY ZenonT(60), <1>5 DEF DigestElf, DigestMap, DigestBin, Digest, Rest, Commands, Digests, ProofSteps,
                Empty, Artifacts
  <2>2. Checked'
    BY <2>1 DEF Checked, PastProvenance, PastStorage, PastDevice, PastRun, PastFreeze
  <2> QED BY <2>1, <2>2, BetweenSteps DEF Empty, ProofSteps
<1>6. CASE VerifyBinary \/ CheckProvenance \/ CheckStorage \/ CheckDevice \/ CheckRunReceipt
           \/ OpenWorkspace
  <2>1. PICK from \in Empty, to \in Empty : Pass(from, to)
    BY <1>6 DEF VerifyBinary, CheckProvenance, CheckStorage, CheckDevice, CheckRunReceipt,
                OpenWorkspace, Empty, ProofSteps
  <2>2. Checked'
    BY <1>6 DEF VerifyBinary, CheckProvenance, CheckStorage, CheckDevice, CheckRunReceipt,
                OpenWorkspace, Pass, Rest, Commands,
                Checked, PastProvenance, PastStorage, PastDevice, PastRun, PastFreeze
  <2> QED BY <2>1, <2>2, BetweenSteps DEF Pass, Rest, Commands, Empty
<1>7. CASE ReadEpoch \/ Freeze \/ Prove
  <2>1. /\ UNCHANGED <<out, evidence, artifacts>> /\ cmd' \in Commands
        /\ cmd'.n = cmd.n /\ (cmd'.touched = cmd.touched)
        /\ cmd.step \in Empty /\ cmd'.step \in Empty
    <3>1. CASE ReadEpoch
      BY <3>1 DEF ReadEpoch, Rest, Commands, ProofSteps, Empty, Salvaged, Outputs
    <3>2. CASE Freeze
      BY <3>2 DEF Freeze, Rest, Commands, Digests, ProofSteps, Empty, Artifacts
    <3>3. CASE Prove
      BY <3>3 DEF Prove, Rest, Commands, ProofSteps, Empty, Outputs
    <3> QED BY <1>7, <3>1, <3>2, <3>3
  <2>2. Checked'
    BY <1>7 DEF ReadEpoch, Freeze, Prove, Rest, Commands,
                Checked, PastProvenance, PastStorage, PastDevice, PastRun, PastFreeze
  <2> QED BY <2>1, <2>2, BetweenSteps
<1>8. CASE WriteReceipt
  <2>1. /\ UNCHANGED <<out, evidence, artifacts>> /\ cmd' \in Commands
        /\ cmd'.n = cmd.n /\ (cmd'.touched = cmd.touched) /\ cmd'.at = 1
        /\ cmd.step = "receipt" /\ cmd'.step = "publish"
    BY <1>8 DEF WriteReceipt, Rest, Commands, ProofSteps, Outputs
  <2>2. Checked'
    BY <1>8 DEF WriteReceipt, Rest, Commands,
                Checked, PastProvenance, PastStorage, PastDevice, PastRun, PastFreeze
  <2>3. \A o \in Outputs : out[o] = Nothing BY <2>1 DEF Emptied, Empty, ProofSteps
  <2>4. \A i \in 1 .. 5 : out[PublishOrder[i]] = Nothing BY <2>3, Orders DEF Outputs
  <2>5. Emptied' BY <2>1, <2>4 DEF Emptied, Empty, ProofSteps
  <2> QED BY <2>1, <2>2, <2>5, DirectoryKept
<1>9. CASE Publish
  <2> DEFINE name == PublishOrder[cmd.at]
  <2>1. /\ UNCHANGED <<evidence, artifacts>> /\ cmd' \in Commands
        /\ cmd'.n = cmd.n /\ (cmd'.touched = cmd.touched) /\ cmd'.at = cmd.at + 1
        /\ cmd.step = "publish" /\ cmd'.step = "publish" /\ cmd.at \in 1 .. 5
    <3>0. cmd.at + 1 \in Nat /\ cmd.scratch \ {name} \in SUBSET Outputs BY DEF Commands
    <3>1. cmd' = [cmd EXCEPT !.at = cmd.at + 1, !.scratch = cmd.scratch \ {name}]
      BY <1>9 DEF Publish
    <3>2. cmd' \in Commands BY <3>0, <3>1 DEF Commands
    <3> HIDE DEF name
    <3> QED BY <1>9, <3>1, <3>2, Orders DEF Publish, Rest, Commands, Emptied
  <2>2. Checked'
    BY <1>9 DEF Publish, Rest, Commands,
                Checked, PastProvenance, PastStorage, PastDevice, PastRun, PastFreeze
  <2>3. out' = [out EXCEPT ![name] = Content(name)] BY <1>9 DEF Publish
  <2>4. name \in Outputs BY <2>1, Orders DEF Outputs
  <2>5. Content(name) \in Files /\ Content(name).by = cmd.n BY DEF Content, Files, Commands
  <2>6. out' \in [Outputs -> Files] BY <2>3, <2>4, <2>5
  <2>7. \A i \in 1 .. 5 : IF i < cmd.at + 1 THEN out'[PublishOrder[i]].by = cmd.n
                                            ELSE out'[PublishOrder[i]] = Nothing
    <3> SUFFICES ASSUME NEW i \in 1 .. 5
                 PROVE  IF i < cmd.at + 1 THEN out'[PublishOrder[i]].by = cmd.n
                                          ELSE out'[PublishOrder[i]] = Nothing
      OBVIOUS
    <3>1. PublishOrder[i] \in Outputs BY Orders DEF Outputs
    <3>2. CASE i = cmd.at BY <2>1, <2>3, <2>4, <2>5, <3>2
    <3>3. i # cmd.at => PublishOrder[i] # name BY <2>1, Orders
    <3>4. CASE i # cmd.at BY <2>1, <2>3, <3>1, <3>3, <3>4 DEF Emptied
    <3> QED BY <3>2, <3>4
  <2>8. Emptied' BY <2>1, <2>7 DEF Emptied, Empty, Commands
  <2>9. ReceiptBinds'
    <3>1. CASE name = "receipt"
      <4>1. out'["receipt"] = Content("receipt") BY <2>3, <2>4, <3>1
      <4>2. /\ evidence["profile"] = cmd.bin /\ evidence["profile"] = cmd.elf
            /\ evidence["profile"] = cmd.map /\ evidence["device"] = cmd.bin
            /\ evidence["run"] = cmd.bin /\ cmd.frozen = cmd.elf
        BY <2>1 DEF Checked, PastProvenance, PastStorage, PastDevice, PastRun, PastFreeze
      <4>3. /\ out'["receipt"].by = cmd.n /\ out'["receipt"].elf = cmd.elf
            /\ out'["receipt"].map = cmd.map /\ out'["receipt"].bin = cmd.bin
            /\ out'["receipt"].analysed = cmd.frozen
        BY <4>1 DEF Content
      <4>4. \A d \in Documents : evidence'[d] = cmd.elf BY <2>1, <4>2 DEF Documents
      <4> QED BY <2>1, <4>2, <4>3, <4>4 DEF ReceiptBinds
    <3>2. CASE name # "receipt"
      <4>1. out'["receipt"] = out["receipt"] BY <2>3, <3>2 DEF Outputs
      <4> QED BY <2>1, <4>1 DEF ReceiptBinds, Present
    <3> QED BY <3>1, <3>2
  <2>10. AcceptedSetWhole'
    <3> SUFFICES ASSUME Present("manifest")' PROVE \A o \in Outputs : out'[o].by = cmd.n
      BY <2>1 DEF AcceptedSetWhole, Present, Emptied, Outputs
    <3>1. out'[PublishOrder[5]] # Nothing BY Orders DEF Present, Nothing
    <3>2. cmd.at = 5 BY <2>1, <2>7, <3>1
    <3>3. \A i \in 1 .. 5 : out'[PublishOrder[i]].by = cmd.n BY <2>7, <3>2
    <3> QED BY <3>3, Orders DEF Outputs
  <2> QED BY <2>1, <2>2, <2>6, <2>8, <2>9, <2>10
<1>10. CASE Raise
  <2>1. PICK moved \in SUBSET (cmd.scratch \cap Salvaged) :
          out' = [o \in Outputs |-> IF o \in moved THEN Content(o) ELSE out[o]]
    BY <1>10 DEF Raise
  <2>2. /\ UNCHANGED <<evidence, artifacts>> /\ cmd' \in Commands /\ cmd'.n = cmd.n
        /\ (cmd'.touched = cmd.touched) /\ cmd'.step = "idle" /\ cmd.step # "idle"
    BY <1>10 DEF Raise, Rest, Commands, ProofSteps
  <2>3. Checked' BY <2>2 DEF Checked, PastProvenance, PastStorage, PastDevice, PastRun, PastFreeze
  <2>4. Emptied' BY <2>2 DEF Emptied, Empty, Commands
  <2>5. \A o \in moved : Content(o) \in Files /\ Content(o).by = cmd.n
    BY DEF Content, Files, Commands
  <2>6. out' \in [Outputs -> Files] BY <2>1, <2>5
  <2>7. out'["receipt"] = out["receipt"] /\ out'["manifest"] = out["manifest"]
    BY <2>1 DEF Salvaged, Outputs
  <2>8. ReceiptBinds' BY <2>2, <2>7 DEF ReceiptBinds, Present
  <2>9. AcceptedSetWhole'
    <3> SUFFICES ASSUME Present("receipt")', Present("manifest")'
                 PROVE  (\A o \in Outputs : Present(o) /\ out[o].by = out["receipt"].by)'
      BY DEF AcceptedSetWhole
    <3>1. Present("receipt") /\ Present("manifest") BY <2>7 DEF Present
    <3>2. \A o \in Outputs : Present(o) /\ out[o].by = out["receipt"].by
      BY <3>1 DEF AcceptedSetWhole
    <3>3. CASE cmd.step = "unlink"
      <4>1. out' = out BY <2>1, <3>3 DEF Emptied
      <4> QED BY <3>2, <4>1 DEF Present
    <3>4. CASE cmd.step \in Empty
      <4>1. out["receipt"] = Nothing BY <3>4 DEF Emptied, Outputs
      <4> QED BY <3>1, <4>1 DEF Present, Nothing
    <3>5. CASE cmd.step = "publish"
      <4>1. out["receipt"].by = cmd.n
        <5>1. out[PublishOrder[2]] # Nothing BY <3>1, Orders DEF Present, Nothing
        <5> QED BY <3>5, <5>1, Orders DEF Emptied
      <4>2. cmd.n # 0 BY <3>5 DEF Emptied
      <4> QED BY <2>1, <2>5, <2>7, <3>2, <4>1, <4>2 DEF Present
    <3> QED BY <2>2, <3>3, <3>4, <3>5 DEF Empty, Commands
  <2> QED BY <2>2, <2>3, <2>4, <2>6, <2>8, <2>9
<1>11. CASE Succeed \/ Kill
  <2>1. /\ UNCHANGED <<out, evidence, artifacts>> /\ cmd' \in Commands /\ cmd'.n = cmd.n
        /\ (cmd'.touched = cmd.touched) /\ cmd'.step = "idle"
    BY <1>11, ZenonT(60) DEF Succeed, Kill, Rest, Commands, ProofSteps
  <2>2. Checked' BY <2>1 DEF Checked, PastProvenance, PastStorage, PastDevice, PastRun, PastFreeze
  <2>3. Emptied' BY <2>1 DEF Emptied, Empty, Commands
  <2> QED BY <2>1, <2>2, <2>3, DirectoryKept
<1>12. CASE Rebuild
  <2>1. UNCHANGED <<evidence, out, cmd>> /\ artifacts' \in [Artifacts -> Builds] BY <1>12 DEF Rebuild
  <2> QED BY <2>1 DEF Checked, Emptied, ReceiptBinds, AcceptedSetWhole, Present
<1>13. CASE UNCHANGED proofVars
  BY <1>13 DEF proofVars, Checked, Emptied, ReceiptBinds, AcceptedSetWhole, Present
<1> QED BY <1>1, <1>2, <1>3, <1>5, <1>6, <1>7, <1>8, <1>9, <1>10, <1>11, <1>12, <1>13 DEF ProofNext

(* A receipt in the output directory is about one build, and once a        *)
(* command has touched the directory it is that command's, for every set   *)
(* of builds and every schedule of overwrites, failures and kills          *)
(* (final_init_proof.py main, preflight, evidence_workspace).              *)
THEOREM ReceiptBindsHolds == ProofSpec => []ReceiptBinds
<1>1. ProofInv => ReceiptBinds BY DEF ProofInv
<1> QED BY ProofStarts, ProofStep, <1>1, PTL DEF ProofSpec

(* Receipt and manifest are together only in a set that one command        *)
(* published whole (the sorted renames with the manifest last).            *)
THEOREM AcceptedSetWholeHolds == ProofSpec => []AcceptedSetWhole
<1>1. ProofInv => AcceptedSetWhole BY DEF ProofInv
<1> QED BY ProofStarts, ProofStep, <1>1, PTL DEF ProofSpec

-----------------------------------------------------------------------------
(* The composition.                                                        *)

Phases == {"idle", "components", "writing", "configured", "failed"}
GeneratedFiles == {"requirements", "swift", "header", "cmake"}
Tools == {"main", "zenoh"}
ToolOf(file) == IF file = "cmake" THEN "zenoh" ELSE "main"

(* What a tool may still have to write: the end of its list of files. *)
Remaining(tool) ==
  IF tool = "main"
  THEN {<<"requirements", "swift", "header">>, <<"swift", "header">>, <<"header">>, <<>>}
  ELSE {<<"cmake">>, <<>>}

(* The values and the files may hold anything the tree holds, so their types
   only say that they are records and functions. *)
CompositionShape ==
  /\ configure \in [phase : Phases, tool : Tools \cup {"none"}, values : {configure.values},
                    left : Remaining("main") \cup Remaining("zenoh"), pending : SUBSET Tools,
                    edited : BOOLEAN, runs : {configure.runs}]
  /\ outputs = [f \in GeneratedFiles |-> outputs[f]]
  /\ image.status # "none" =>
       image \in [status : {"built", "running", "refused"}, inputs : {image.inputs},
                  tables : {image.tables}, limits : {image.limits}, edited : BOOLEAN]

(* The running tool has left the component list, and its values are whole. *)
ToolRuns ==
  configure.phase = "writing" =>
    /\ configure.tool \in Tools \ configure.pending
    /\ configure.left \in Remaining(configure.tool)
    /\ configure.values.from = "tool"

(* The files of this configure step that are not written yet. *)
Outstanding ==
  {f \in GeneratedFiles :
     \/ ToolOf(f) \in configure.pending
     \/ configure.phase = "writing" /\ f \in Range(configure.left)}

Running == configure.phase \in {"components", "writing", "configured"}

Generated ==
  /\ configure.phase = "configured" => configure.pending = {}
  /\ Running => \A f \in GeneratedFiles \ Outstanding : outputs[f].from = "tool"

(* Without an edit every file written in this step holds the bounds of the
   tree, which the first tool found below the ceilings. *)
FromThisTree ==
  Running /\ ~configure.edited =>
    /\ configure.phase = "writing" => configure.values.capacities = tree.capacities
    /\ \A f \in GeneratedFiles \ Outstanding : outputs[f].capacities = tree.capacities
    /\ configure.pending # Tools => WithinLimits(tree.capacities, tree.limits)

(* The masks are the ones of the capability names beside them. *)
Masked(requirements) ==
  \A side \in Sides : requirements.fields[side] = FieldMask(side, requirements.names[side])

MasksExact ==
  /\ configure.phase = "writing" => Masked(configure.values)
  /\ outputs["requirements"].from = "tool" => Masked(outputs["requirements"])
  /\ image.status # "none" =>
       image.inputs["requirements"].from = "tool" /\ Masked(image.inputs["requirements"])

BootedAccepted ==
  image.status = "running" =>
    \A side \in Sides : TableAccepted(side, image.tables[side], image.inputs["requirements"])

BoundsInv == CompositionShape /\ ToolRuns /\ Generated /\ FromThisTree /\ ImageBoundsAgree
CompositionInv == BoundsInv /\ MasksExact /\ BootedAccepted

LEMMA FilesInOrder ==
  /\ OutputFiles["main"] = <<"requirements", "swift", "header">>
  /\ OutputFiles["zenoh"] = <<"cmake">>
  /\ DOMAIN OutputFiles = Tools
  BY DEF OutputFiles, Tools

(* Writing the first remaining file leaves the others. *)
LEMMA NextFile ==
  ASSUME NEW t \in Tools, NEW l \in Remaining(t), l # <<>>
  PROVE /\ Head(l) \in GeneratedFiles /\ ToolOf(Head(l)) = t
        /\ Tail(l) \in Remaining(t)
        /\ Range(l) = Range(Tail(l)) \cup {Head(l)}
        /\ Head(l) \notin Range(Tail(l))
<1>1. CASE l = <<"requirements", "swift", "header">>
  <2>1. Head(l) = "requirements" /\ Tail(l) = <<"swift", "header">> BY <1>1
  <2>2. Range(l) = {"requirements", "swift", "header"} BY <1>1 DEF Range
  <2>3. Range(<<"swift", "header">>) = {"swift", "header"} BY DEF Range
  <2> QED BY <2>1, <2>2, <2>3, <1>1 DEF GeneratedFiles, Tools, ToolOf, Remaining
<1>2. CASE l = <<"swift", "header">>
  <2>1. Head(l) = "swift" /\ Tail(l) = <<"header">> BY <1>2
  <2>2. Range(l) = {"swift", "header"} BY <1>2 DEF Range
  <2>3. Range(<<"header">>) = {"header"} BY DEF Range
  <2> QED BY <2>1, <2>2, <2>3, <1>2 DEF GeneratedFiles, Tools, ToolOf, Remaining
<1>3. CASE l = <<"header">>
  <2>1. Head(l) = "header" /\ Tail(l) = <<>> BY <1>3
  <2>2. Range(l) = {"header"} BY <1>3 DEF Range
  <2>3. Range(<<>>) = {} BY DEF Range
  <2> QED BY <2>1, <2>2, <2>3, <1>3 DEF GeneratedFiles, Tools, ToolOf, Remaining
<1>4. CASE l = <<"cmake">>
  <2>1. Head(l) = "cmake" /\ Tail(l) = <<>> BY <1>4
  <2>2. Range(l) = {"cmake"} BY <1>4 DEF Range
  <2>3. Range(<<>>) = {} BY DEF Range
  <2> QED BY <2>1, <2>2, <2>3, <1>4 DEF GeneratedFiles, Tools, ToolOf, Remaining
<1> QED BY <1>1, <1>2, <1>3, <1>4 DEF Remaining, Tools

LEMMA WholeList ==
  ASSUME NEW t \in Tools
  PROVE /\ OutputFiles[t] \in Remaining(t)
        /\ \A f \in GeneratedFiles : ToolOf(f) = t => f \in Range(OutputFiles[t])
<1>1. CASE t = "main"
  <2>1. Range(<<"requirements", "swift", "header">>) = {"requirements", "swift", "header"} BY DEF Range
  <2> QED BY <1>1, <2>1, FilesInOrder DEF Remaining, GeneratedFiles, ToolOf
<1>2. CASE t = "zenoh"
  <2>1. Range(<<"cmake">>) = {"cmake"} BY DEF Range
  <2> QED BY <1>2, <2>1, FilesInOrder DEF Remaining, GeneratedFiles, ToolOf
<1> QED BY <1>1, <1>2 DEF Tools

LEMMA CompositionStarts == CompositionInit => CompositionInv
<1> SUFFICES ASSUME CompositionInit PROVE CompositionInv OBVIOUS
<1>1. outputs = [f \in GeneratedFiles |-> NoOutput] /\ configure = Quiet /\ image = [status |-> "none"]
  BY DEF CompositionInit, GeneratedFiles
<1>2. CompositionShape
  BY <1>1 DEF CompositionShape, Quiet, Phases, Tools, Remaining
<1>3. configure.phase = "idle" /\ image.status = "none"
  BY <1>1 DEF Quiet
<1>4. outputs["requirements"].from = "none"
  BY <1>1 DEF GeneratedFiles, NoOutput
<1> QED BY <1>2, <1>3, <1>4 DEF CompositionInv, BoundsInv, ToolRuns, Generated, FromThisTree,
           Running, ImageBoundsAgree, MasksExact, BootedAccepted

(* The parts of the invariant that only the image and the files decide. *)
LEMMA ImageKept ==
  ASSUME CompositionInv, UNCHANGED <<outputs, image>>
  PROVE /\ outputs' = [f \in GeneratedFiles |-> outputs'[f]]
        /\ (image.status # "none" =>
              image \in [status : {"built", "running", "refused"}, inputs : {image.inputs},
                         tables : {image.tables}, limits : {image.limits}, edited : BOOLEAN])'
        /\ ImageBoundsAgree' /\ BootedAccepted'
        /\ (outputs["requirements"].from = "tool" => Masked(outputs["requirements"]))'
        /\ (image.status # "none" =>
              image.inputs["requirements"].from = "tool" /\ Masked(image.inputs["requirements"]))'
<1>1. outputs' = outputs /\ image' = image OBVIOUS
<1>2. ImageBoundsAgree' BY <1>1 DEF CompositionInv, BoundsInv, ImageBoundsAgree, WithinLimits
<1>3. BootedAccepted' BY <1>1 DEF CompositionInv, BootedAccepted, TableAccepted, FieldPresent
<1>4. /\ (outputs["requirements"].from = "tool" => Masked(outputs["requirements"]))'
      /\ (image.status # "none" =>
            image.inputs["requirements"].from = "tool" /\ Masked(image.inputs["requirements"]))'
  BY <1>1 DEF CompositionInv, MasksExact, Masked
<1> QED BY <1>1, <1>2, <1>3, <1>4 DEF CompositionInv, BoundsInv, CompositionShape

LEMMA ConfigureEnds ==
  ASSUME CompositionInv, ConfigureFails PROVE CompositionInv'
<1> USE DEF CompositionInv, BoundsInv
<1>1. configure' = [configure EXCEPT !.phase = "failed", !.values = NoOutput] /\ UNCHANGED <<tree, outputs, image>>
  BY DEF ConfigureFails
<1>2. configure' \in [phase : Phases, tool : Tools \cup {"none"}, values : {configure'.values},
                    left : Remaining("main") \cup Remaining("zenoh"), pending : SUBSET Tools,
                    edited : BOOLEAN, runs : {configure'.runs}]
  BY <1>1 DEF CompositionShape, Phases
<1>3. configure'.phase = "failed" BY <1>1 DEF CompositionShape
<1> QED BY <1>1, <1>2, <1>3, ImageKept DEF CompositionShape, ToolRuns, Generated, FromThisTree, Running, MasksExact

LEMMA EditTreeStep ==
  ASSUME CompositionInv, EditTree PROVE CompositionInv'
<1> USE DEF CompositionInv, BoundsInv
<1>1. configure' = [configure EXCEPT !.edited = TRUE] /\ UNCHANGED <<outputs, image>>
  BY DEF EditTree
<1>2. configure' \in [phase : Phases, tool : Tools \cup {"none"}, values : {configure'.values},
                    left : Remaining("main") \cup Remaining("zenoh"), pending : SUBSET Tools,
                    edited : BOOLEAN, runs : {configure'.runs}]
  BY <1>1 DEF CompositionShape
<1>3. /\ configure'.phase = configure.phase /\ configure'.edited
      /\ configure'.tool = configure.tool /\ configure'.left = configure.left
      /\ configure'.pending = configure.pending /\ configure'.values = configure.values
  BY <1>1 DEF CompositionShape
<1>4. ToolRuns' BY <1>3 DEF ToolRuns
<1>5. Outstanding' = Outstanding BY <1>3 DEF Outstanding
<1>6. Generated' BY <1>1, <1>3, <1>5 DEF Generated, Running
<1>7. FromThisTree' BY <1>3 DEF FromThisTree
<1>8. (configure.phase = "writing" => Masked(configure.values))'
  BY <1>3 DEF MasksExact, Masked
<1> QED BY <1>1, <1>2, <1>4, <1>6, <1>7, <1>8, ImageKept DEF CompositionShape, MasksExact

LEMMA StartStep ==
  ASSUME CompositionInv, StartConfigure PROVE CompositionInv'
<1> USE DEF CompositionInv, BoundsInv
<1>1. /\ configure' = [Quiet EXCEPT !.phase = "components", !.pending = DOMAIN OutputFiles,
                                !.runs = configure.runs + 1]
      /\ image' = [status |-> "none"] /\ outputs' = outputs
  BY DEF StartConfigure
<1>2. configure' \in [phase : Phases, tool : Tools \cup {"none"}, values : {configure'.values},
                    left : Remaining("main") \cup Remaining("zenoh"), pending : SUBSET Tools,
                    edited : BOOLEAN, runs : {configure'.runs}]
  BY <1>1, FilesInOrder DEF Quiet, Phases, Remaining
<1>3. configure'.phase = "components" /\ configure'.pending = Tools
  BY <1>1, FilesInOrder DEF Quiet
<1>4. Outstanding' = GeneratedFiles BY <1>3 DEF Outstanding, ToolOf, Tools
<1>5. image'.status = "none" BY <1>1
<1>6. ToolRuns' /\ Generated' BY <1>3, <1>4 DEF ToolRuns, Generated
<1>7. FromThisTree' BY <1>3, <1>4 DEF FromThisTree
<1>8. MasksExact' /\ BootedAccepted' /\ ImageBoundsAgree'
  BY <1>1, <1>3, <1>5 DEF MasksExact, BootedAccepted, ImageBoundsAgree, Masked
<1> QED BY <1>1, <1>2, <1>5, <1>6, <1>7, <1>8 DEF CompositionShape

LEMMA LoadStep ==
  ASSUME CompositionInv, NEW t \in DOMAIN OutputFiles, LoadComposition(t) PROVE CompositionInv'
<1> USE DEF CompositionInv, BoundsInv
<1>0. t \in Tools BY FilesInOrder
<1> DEFINE read == [from |-> "tool",
                   names |-> [side \in Sides |-> ToSet(tree.required[side])],
                   bits |-> [side \in Sides |-> AbiMask(side, ToSet(tree.required[side]))],
                   fields |-> [side \in Sides |-> FieldMask(side, ToSet(tree.required[side]))],
                   capacities |-> tree.capacities]
<1>1. /\ configure.phase = "components" /\ t \in configure.pending
      /\ ValidSelection(tree)
      /\ configure' = [configure EXCEPT
           !.phase = "writing", !.tool = t, !.left = OutputFiles[t],
           !.pending = @ \ {t}, !.values = read]
      /\ UNCHANGED <<tree, outputs, image>>
  BY DEF LoadComposition
<1>2. PICK r : r = read OBVIOUS
<1>3. r.from = "tool" /\ r.capacities = tree.capacities /\ Masked(r)
  BY <1>2 DEF Masked
<1>4. OutputFiles[t] \in Remaining(t) /\ \A f \in GeneratedFiles : ToolOf(f) = t => f \in Range(OutputFiles[t])
  BY <1>0, WholeList
<1>5. PICK l \in Remaining(t) : l = OutputFiles[t] BY <1>4
<1>6. configure' = [configure EXCEPT !.phase = "writing", !.tool = t, !.left = l,
           !.pending = @ \ {t}, !.values = r]
  BY <1>1, <1>2, <1>5
<1> HIDE DEF read
<1>7. l \in Remaining("main") \cup Remaining("zenoh") BY <1>0 DEF Tools
<1>8. configure' \in [phase : Phases, tool : Tools \cup {"none"}, values : {configure'.values},
                    left : Remaining("main") \cup Remaining("zenoh"), pending : SUBSET Tools,
                    edited : BOOLEAN, runs : {configure'.runs}]
  BY <1>6, <1>0, <1>7 DEF CompositionShape, Phases
<1>9. /\ configure'.phase = "writing" /\ configure'.edited = configure.edited
      /\ configure'.tool = t /\ configure'.left = l
      /\ configure'.pending = configure.pending \ {t} /\ configure'.values = r
  BY <1>6 DEF CompositionShape
<1>10. ToolRuns' BY <1>0, <1>3, <1>9 DEF ToolRuns
<1>11. Outstanding \subseteq Outstanding'
  BY <1>1, <1>4, <1>5, <1>9 DEF Outstanding
<1>12. Generated' BY <1>1, <1>9, <1>11 DEF Generated, Running
<1>13. WithinLimits(tree.capacities, tree.limits)' BY <1>1 DEF ValidSelection, WithinLimits
<1>14. FromThisTree' BY <1>1, <1>3, <1>9, <1>11, <1>13 DEF FromThisTree, Running
<1>15. (configure.phase = "writing" => Masked(configure.values))'
  BY <1>3, <1>9 DEF Masked
<1> QED BY <1>1, <1>8, <1>10, <1>12, <1>14, <1>15, ImageKept DEF CompositionShape, MasksExact

LEMMA WriteStep ==
  ASSUME CompositionInv, WriteOutput PROVE CompositionInv'
<1> USE DEF CompositionInv, BoundsInv
<1>1. /\ configure.phase = "writing" /\ configure.left # <<>>
      /\ outputs' = [outputs EXCEPT ![Head(configure.left)] = Rendered(Head(configure.left))]
      /\ configure' = [configure EXCEPT !.left = Tail(configure.left)]
      /\ tree' = tree /\ image' = image
  BY DEF WriteOutput
<1>2. PICK t \in Tools : t = configure.tool /\ t \notin configure.pending
  BY <1>1 DEF ToolRuns
<1>3. PICK l \in Remaining(t) : l = configure.left BY <1>1, <1>2 DEF ToolRuns
<1>4. /\ Head(l) \in GeneratedFiles /\ ToolOf(Head(l)) = t
      /\ Tail(l) \in Remaining(t)
      /\ Range(l) = Range(Tail(l)) \cup {Head(l)}
      /\ Head(l) \notin Range(Tail(l))
  BY <1>1, <1>3, NextFile
<1>5. PICK h \in GeneratedFiles : h = Head(l) BY <1>4
<1>6. PICK rest \in Remaining(t) : rest = Tail(l) BY <1>4
<1>7. outputs' = [outputs EXCEPT ![h] = Rendered(h)] /\ configure' = [configure EXCEPT !.left = rest]
  BY <1>1, <1>3, <1>5, <1>6
<1>8. rest \in Remaining("main") \cup Remaining("zenoh") BY DEF Tools
<1>9. configure' \in [phase : Phases, tool : Tools \cup {"none"}, values : {configure'.values},
                    left : Remaining("main") \cup Remaining("zenoh"), pending : SUBSET Tools,
                    edited : BOOLEAN, runs : {configure'.runs}]
  BY <1>7, <1>8 DEF CompositionShape
<1>10. /\ configure'.phase = "writing" /\ configure'.edited = configure.edited
       /\ configure'.tool = t /\ configure'.left = rest
       /\ configure'.pending = configure.pending /\ configure'.values = configure.values
  BY <1>1, <1>2, <1>7 DEF CompositionShape
<1>11. ToolRuns' BY <1>1, <1>2, <1>10 DEF ToolRuns
<1>12. /\ outputs' = [f \in GeneratedFiles |-> outputs'[f]]
       /\ outputs'[h] = Rendered(h)
       /\ \A f \in GeneratedFiles \ {h} : outputs'[f] = outputs[f]
  BY <1>7 DEF CompositionShape
<1>13. GeneratedFiles \ Outstanding' = (GeneratedFiles \ Outstanding) \cup {h}
  BY <1>1, <1>2, <1>3, <1>4, <1>5, <1>6, <1>10 DEF Outstanding
<1>14. Rendered(h).from = "tool" /\ Rendered(h).capacities = configure.values.capacities
  BY <1>1 DEF Rendered, ToolRuns
<1>15. Generated'
  BY <1>1, <1>10, <1>12, <1>13, <1>14 DEF Generated, Running
<1>16. WithinLimits(tree.capacities, tree.limits)' <=> WithinLimits(tree.capacities, tree.limits)
  BY <1>1 DEF WithinLimits
<1>17. FromThisTree'
  BY <1>1, <1>10, <1>12, <1>13, <1>14, <1>16 DEF FromThisTree, Running
<1>18. Masked(configure.values)' BY <1>1, <1>10 DEF MasksExact, Masked
<1>19. (outputs["requirements"].from = "tool" => Masked(outputs["requirements"]))'
  <2>1. CASE h = "requirements"
    <3>1. outputs'["requirements"] = configure.values BY <2>1, <1>12 DEF Rendered
    <3> QED BY <3>1, <1>1 DEF MasksExact, Masked
  <2>2. CASE h # "requirements"
    <3>1. outputs'["requirements"] = outputs["requirements"] BY <2>2, <1>12 DEF GeneratedFiles
    <3> QED BY <3>1 DEF MasksExact, Masked
  <2> QED BY <2>1, <2>2
<1>20. (image.status # "none" =>
         image.inputs["requirements"].from = "tool" /\ Masked(image.inputs["requirements"]))'
  BY <1>1 DEF MasksExact, Masked
<1>21. ImageBoundsAgree' BY <1>1 DEF ImageBoundsAgree, WithinLimits
<1>22. BootedAccepted' BY <1>1 DEF BootedAccepted, TableAccepted, FieldPresent
<1>23. CompositionShape' BY <1>1, <1>9, <1>12 DEF CompositionShape
<1>24. MasksExact' BY <1>10, <1>18, <1>19, <1>20 DEF MasksExact
<1> QED BY <1>11, <1>15, <1>17, <1>21, <1>22, <1>23, <1>24

LEMMA ReturnStep ==
  ASSUME CompositionInv, ToolReturns PROVE CompositionInv'
<1> USE DEF CompositionInv, BoundsInv
<1>1. /\ configure.phase = "writing" /\ configure.left = <<>>
      /\ configure' = [configure EXCEPT
           !.phase = IF configure.pending = {} THEN "configured" ELSE "components",
           !.values = NoOutput]
      /\ tree' = tree /\ UNCHANGED <<outputs, image>>
  BY DEF ToolReturns
<1>2. PICK p \in {"configured", "components"} :
        p = (IF configure.pending = {} THEN "configured" ELSE "components")
  OBVIOUS
<1>3. configure' = [configure EXCEPT !.phase = p, !.values = NoOutput] BY <1>1, <1>2
<1>4. configure' \in [phase : Phases, tool : Tools \cup {"none"}, values : {configure'.values},
                    left : Remaining("main") \cup Remaining("zenoh"), pending : SUBSET Tools,
                    edited : BOOLEAN, runs : {configure'.runs}]
  BY <1>3 DEF CompositionShape, Phases
<1>5. /\ configure'.phase = p /\ configure'.edited = configure.edited
      /\ configure'.pending = configure.pending
  BY <1>3 DEF CompositionShape
<1>6. Outstanding' = Outstanding
  <2>1. Range(configure.left) = {} BY <1>1 DEF Range
  <2> QED BY <2>1, <1>5 DEF Outstanding
<1>7. p # "writing" /\ (p = "configured" => configure.pending = {}) BY <1>2
<1>8. Generated' BY <1>1, <1>5, <1>6, <1>7 DEF Generated, Running
<1>9. WithinLimits(tree.capacities, tree.limits)' <=> WithinLimits(tree.capacities, tree.limits)
  BY <1>1 DEF WithinLimits
<1>10. FromThisTree' BY <1>1, <1>5, <1>6, <1>7, <1>9 DEF FromThisTree, Running
<1> QED BY <1>1, <1>4, <1>5, <1>7, <1>8, <1>10, ImageKept DEF CompositionShape, MasksExact, ToolRuns

LEMMA ConfigureKept ==
  ASSUME CompositionInv, UNCHANGED <<tree, outputs, configure>>
  PROVE /\ ToolRuns' /\ Generated' /\ FromThisTree'
        /\ (configure.phase = "writing" => Masked(configure.values))'
        /\ (outputs["requirements"].from = "tool" => Masked(outputs["requirements"]))'
<1> USE DEF CompositionInv, BoundsInv
<1>1. Outstanding' = Outstanding BY DEF Outstanding
<1>2. ToolRuns' /\ Generated' BY <1>1 DEF ToolRuns, Generated, Running
<1>3. FromThisTree' BY <1>1 DEF FromThisTree, Running, WithinLimits
<1> QED BY <1>2, <1>3 DEF MasksExact, Masked

LEMMA BuildStep ==
  ASSUME CompositionInv, NEW tables \in Tables, BuildImage(tables) PROVE CompositionInv'
<1> USE DEF CompositionInv, BoundsInv
<1>1. /\ configure.phase = "configured" /\ UNCHANGED <<tree, outputs, configure>>
      /\ image' = [status |-> "built", inputs |-> outputs, tables |-> tables,
                   limits |-> tree.limits, edited |-> configure.edited]
  BY DEF BuildImage
<1>2. Outstanding = {} BY <1>1 DEF Outstanding, Generated
<1>3. \A f \in GeneratedFiles : outputs[f].from = "tool" BY <1>1, <1>2 DEF Generated, Running
<1>4. ~configure.edited =>
        /\ \A f \in GeneratedFiles : outputs[f].capacities = tree.capacities
        /\ WithinLimits(tree.capacities, tree.limits)
  BY <1>1, <1>2 DEF FromThisTree, Generated, Running, Tools
<1>5. /\ image'.status = "built" /\ image'.inputs = outputs /\ image'.limits = tree.limits
      /\ image'.edited = configure.edited
  BY <1>1
<1>6. DOMAIN outputs = GeneratedFiles /\ "requirements" \in GeneratedFiles BY DEF CompositionShape, GeneratedFiles
<1>7. ImageBoundsAgree'
  BY <1>3, <1>4, <1>5, <1>6 DEF ImageBoundsAgree, WithinLimits
<1>8. MasksExact'
  BY <1>1, <1>3, <1>5, <1>6, ConfigureKept DEF MasksExact, Masked
<1>9. configure.edited \in BOOLEAN BY DEF CompositionShape
<1>10. CompositionShape' BY <1>1, <1>9 DEF CompositionShape
<1> QED BY <1>1, <1>5, <1>7, <1>8, <1>10, ConfigureKept DEF BootedAccepted

LEMMA BootStep ==
  ASSUME CompositionInv, BootImage PROVE CompositionInv'
<1> USE DEF CompositionInv, BoundsInv
<1> DEFINE accepted == \A side \in Sides :
                         TableAccepted(side, image.tables[side], image.inputs["requirements"])
<1>1. /\ image.status = "built" /\ UNCHANGED <<tree, outputs, configure>>
      /\ image' = [image EXCEPT !.status = IF accepted THEN "running" ELSE "refused"]
  BY DEF BootImage
<1>2. PICK s \in {"running", "refused"} : s = IF accepted THEN "running" ELSE "refused" OBVIOUS
<1>3. s = "running" => accepted BY <1>2
<1>4. image' = [image EXCEPT !.status = s] BY <1>1, <1>2
<1>5. /\ image' \in [status : {"built", "running", "refused"}, inputs : {image'.inputs},
                     tables : {image'.tables}, limits : {image'.limits}, edited : BOOLEAN]
      /\ image'.status = s /\ image'.inputs = image.inputs /\ image'.tables = image.tables
      /\ image'.limits = image.limits /\ image'.edited = image.edited
  BY <1>1, <1>4 DEF CompositionShape
<1>6. CompositionShape' BY <1>1, <1>5 DEF CompositionShape
<1>7. ImageBoundsAgree' BY <1>1, <1>5 DEF ImageBoundsAgree, WithinLimits
<1>8. BootedAccepted' BY <1>3, <1>5 DEF BootedAccepted, TableAccepted, FieldPresent
<1>9. MasksExact' BY <1>1, <1>5, ConfigureKept DEF MasksExact, Masked
<1> QED BY <1>1, <1>6, <1>7, <1>8, <1>9, ConfigureKept

LEMMA CompositionStep == CompositionInv /\ [CompositionNext]_compositionVars => CompositionInv'
<1> SUFFICES ASSUME CompositionInv, [CompositionNext]_compositionVars PROVE CompositionInv' OBVIOUS
<1>1. CASE EditTree BY <1>1, EditTreeStep
<1>2. CASE StartConfigure BY <1>2, StartStep
<1>3. CASE KillConfigure BY <1>3, ConfigureEnds DEF KillConfigure
<1>4. CASE WriteOutput BY <1>4, WriteStep
<1>5. CASE ToolReturns BY <1>5, ReturnStep
<1>6. CASE BootImage BY <1>6, BootStep
<1>7. ASSUME NEW t \in DOMAIN OutputFiles, LoadComposition(t) PROVE CompositionInv'
  BY <1>7, LoadStep
<1>8. ASSUME NEW t \in DOMAIN OutputFiles, RejectComposition(t) PROVE CompositionInv'
  BY <1>8, ConfigureEnds DEF RejectComposition
<1>9. ASSUME NEW tables \in Tables, BuildImage(tables) PROVE CompositionInv'
  BY <1>9, BuildStep
<1>10. CASE UNCHANGED compositionVars
  <2>1. UNCHANGED <<tree, outputs, configure>> /\ UNCHANGED <<outputs, image>> /\ configure' = configure
    BY <1>10 DEF compositionVars
  <2> QED BY <2>1, ConfigureKept, ImageKept DEF CompositionInv, BoundsInv, CompositionShape, MasksExact
<1> QED BY <1>1, <1>2, <1>3, <1>4, <1>5, <1>6, <1>7, <1>8, <1>9, <1>10 DEF CompositionNext

(* Every part of an image is compiled from the same bounds, none above the
   transport's ceiling, for any trees and any number of configure steps that
   failed, were stopped or followed one another. *)
THEOREM ImageBoundsAgreeHolds == CompositionSpec => []ImageBoundsAgree
<1>1. CompositionInv => ImageBoundsAgree BY DEF CompositionInv, BoundsInv
<1> QED BY <1>1, CompositionStarts, CompositionStep, PTL DEF CompositionSpec

-----------------------------------------------------------------------------
(* The catalog's order is the order of the indices in the header.          *)

(* FlattenSeq is the last value of any function that joins piece after piece. *)
Flattens(g, seqs) ==
  g = [i \in 1 .. Len(seqs) |-> IF i = 1 THEN seqs[i] ELSE g[i - 1] \o seqs[i]]

LEMMA FlattenUnfolds ==
  ASSUME NEW seqs, Len(seqs) # 0, NEW h, Flattens(h, seqs)
  PROVE \E g : FlattenSeq(seqs) = g[Len(seqs)] /\ Flattens(g, seqs)
<1> DEFINE flat == CHOOSE g : g = [i \in 1 .. Len(seqs) |-> IF i = 1 THEN seqs[i] ELSE g[i - 1] \o seqs[i]]
<1>1. Flattens(flat, seqs)
  BY Zenon DEF Flattens
<1>2. FlattenSeq(seqs) = flat[Len(seqs)]
  BY Zenon DEF FlattenSeq
<1> HIDE DEF flat
<1> QED BY <1>1, <1>2, Zenon

(* A nonempty set of numbers has a least one. *)
LEMMA LeastOf ==
  ASSUME NEW S, S \subseteq Nat, S # {}
  PROVE  \E i \in S : \A j \in S : i <= j
<1> DEFINE R == {ss \in Nat \X Nat : ss[1] < ss[2]}
<1>1. IsWellFoundedOn(R, Nat) BY NatLessThanWellFounded DEF OpToRel
<1> HIDE DEF R
<1>2. PICK x \in S : \A y \in S : ~ (<<y, x>> \in R) BY <1>1, WFMin
<1>3. \A y \in S : ~(y < x) BY <1>2 DEF R
<1> QED BY <1>3

(* A prefix and the piece that follows it make a longer prefix. *)
LEMMA PrefixGrows ==
  ASSUME NEW S, NEW c \in Seq(S), NEW a \in 0 .. Len(c), NEW b \in a .. Len(c)
  PROVE  SubSeq(c, 1, a) \o SubSeq(c, a + 1, b) = SubSeq(c, 1, b)
<1>1. Len(c) \in Nat OBVIOUS
<1> QED BY <1>1, ConcatAdjacentSubSeq

(* The sequences are consecutive pieces of c, each from its start to its end. *)
Pieces(seqs, c, n, starts, ends) ==
  /\ n \in Nat \ {0} /\ Len(seqs) = n
  /\ ends \in [1 .. n -> 0 .. Len(c)] /\ ends[n] = Len(c)
  /\ \A i \in 2 .. n : ends[i - 1] <= ends[i]
  /\ starts[1] = 1 /\ \A i \in 2 .. n : starts[i] = ends[i - 1] + 1
  /\ \A i \in 1 .. n : seqs[i] = SubSeq(c, starts[i], ends[i])

(* Consecutive pieces of a sequence flatten to the sequence. *)
LEMMA FlattenPieces ==
  ASSUME NEW S, NEW c \in Seq(S), NEW n, NEW starts, NEW ends, NEW seqs,
         Pieces(seqs, c, n, starts, ends)
  PROVE  FlattenSeq(seqs) = c
<1> USE DEF Pieces
<1> DEFINE h == [i \in 1 .. n |-> SubSeq(c, 1, ends[i])]
<1>1. \A i \in 2 .. n : h[i - 1] \o seqs[i] = h[i]
  <2> TAKE i \in 2 .. n
  <2>0. Len(c) \in Nat OBVIOUS
  <2>1. i - 1 \in 1 .. n /\ i \in 1 .. n OBVIOUS
  <2>2. PICK a \in 0 .. Len(c) : a = ends[i - 1] BY <2>1
  <2>3. PICK b \in a .. Len(c) : b = ends[i] BY SMTT(30), <2>0, <2>1, <2>2
  <2>4. SubSeq(c, 1, a) \o SubSeq(c, a + 1, b) = SubSeq(c, 1, b)
    BY PrefixGrows
  <2>5. seqs[i] = SubSeq(c, a + 1, b) BY <2>1, <2>2, <2>3
  <2> QED BY <2>1, <2>2, <2>3, <2>4, <2>5
<1>2. h = [i \in 1 .. n |-> h[i]] /\ h[1] = seqs[1] /\ h[n] = SubSeq(c, 1, Len(c))
  <2>1. 1 \in 1 .. n /\ n \in 1 .. n OBVIOUS
  <2>2. h = [i \in 1 .. n |-> h[i]] /\ h[n] = SubSeq(c, 1, Len(c)) BY <2>1
  <2>3. h[1] = SubSeq(c, 1, ends[1]) /\ seqs[1] = SubSeq(c, 1, ends[1]) BY <2>1
  <2> QED BY <2>2, <2>3
<1> HIDE DEF h
<1>3. \A i \in 1 .. n : i # 1 => i \in 2 .. n /\ i - 1 \in 1 .. n /\ ~(i <= i - 1) OBVIOUS
<1>4. \A i \in 1 .. n : h[i] = IF i = 1 THEN seqs[i] ELSE h[i - 1] \o seqs[i]
  BY <1>1, <1>2, <1>3
<1>5. Flattens(h, seqs) BY <1>2, <1>4, Zenon DEF Flattens
<1>6. PICK g : FlattenSeq(seqs) = g[n] /\ Flattens(g, seqs) BY <1>5, FlattenUnfolds
<1>7. \A i \in 1 .. n : g[i] = IF i = 1 THEN seqs[i] ELSE g[i - 1] \o seqs[i]
  BY <1>6 DEF Flattens
<1> DEFINE Wrong == {i \in 1 .. n : g[i] # h[i]}
<1>8. ASSUME Wrong # {} PROVE FALSE
  <2>1. Wrong \subseteq Nat OBVIOUS
  <2>2. PICK i \in Wrong : \A j \in Wrong : i <= j BY <1>8, <2>1, LeastOf
  <2>3. CASE i = 1 BY <2>2, <2>3, <1>2, <1>7
  <2>4. CASE i # 1
    <3>1. i \in 2 .. n /\ i - 1 \in 1 .. n /\ ~(i <= i - 1) BY <2>2, <2>4, <1>3
    <3>2. g[i - 1] = h[i - 1] BY <2>2, <3>1
    <3>3. g[i] = h[i - 1] \o seqs[i] BY <1>7, <3>1, <3>2, <2>4
    <3> QED BY <3>3, <3>1, <1>1, <2>2
  <2> QED BY <2>3, <2>4
<1>9. g[n] = h[n]
  <2>1. n \in 1 .. n OBVIOUS
  <2> QED BY <1>8, <2>1
<1> QED BY <1>2, <1>6, <1>9, SubSeqFull

(* One, two and three consecutive elements of a sequence. *)
LEMMA ShortPieces ==
  ASSUME NEW S, NEW c \in Seq(S), NEW k \in 1 .. Len(c)
  PROVE /\ SubSeq(c, k, k) = <<c[k]>>
        /\ k + 1 <= Len(c) => SubSeq(c, k, k + 1) = <<c[k], c[k + 1]>>
        /\ k + 2 <= Len(c) => SubSeq(c, k, k + 2) = <<c[k], c[k + 1], c[k + 2]>>
<1>0. Len(c) \in Nat /\ k \in Int /\ \A i \in 1 .. Len(c) : c[i] \in S OBVIOUS
<1>1. ASSUME NEW n \in k .. Len(c), NEW q, q = SubSeq(c, k, n)
      PROVE  q \in Seq(S) /\ Len(q) = n - k + 1 /\ \A i \in 1 .. n - k + 1 : q[i] = c[k + i - 1]
  <2>1. n \in Int /\ k <= n /\ \A i \in k .. n : c[i] \in S BY <1>0
  <2>2. /\ SubSeq(c, k, n) \in Seq(S)
        /\ Len(SubSeq(c, k, n)) = IF k <= n THEN n - k + 1 ELSE 0
        /\ \A i \in 1 .. n - k + 1 : SubSeq(c, k, n)[i] = c[k + i - 1]
    BY <1>0, <2>1, SubSeqProperties
  <2> QED BY <1>1, <2>1, <2>2
<1>2. SubSeq(c, k, k) = <<c[k]>>
  <2>1. PICK q : q = SubSeq(c, k, k) OBVIOUS
  <2>2. q \in Seq(S) /\ Len(q) = 1 /\ q[1] = c[k]
    <3>1. k \in k .. Len(c) OBVIOUS
    <3>2. q \in Seq(S) /\ Len(q) = k - k + 1 /\ \A i \in 1 .. k - k + 1 : q[i] = c[k + i - 1]
      BY <1>1, <2>1, <3>1
    <3>3. 1 \in 1 .. k - k + 1 /\ k + 1 - 1 = k /\ k - k + 1 = 1 OBVIOUS
    <3> QED BY <3>2, <3>3
  <2>3. PICK t : t = <<c[k]>> OBVIOUS
  <2>4. t \in Seq(S) /\ Len(t) = 1 /\ t[1] = c[k] BY <1>0, <2>3
  <2>5. \A i \in 1 .. 1 : i = 1 OBVIOUS
  <2>6. q = t BY <2>2, <2>4, <2>5, SeqEqual
  <2> QED BY <2>1, <2>3, <2>6
<1>3. ASSUME k + 1 <= Len(c) PROVE SubSeq(c, k, k + 1) = <<c[k], c[k + 1]>>
  <2>1. PICK q : q = SubSeq(c, k, k + 1) OBVIOUS
  <2>2. q \in Seq(S) /\ Len(q) = 2 /\ q[1] = c[k] /\ q[2] = c[k + 1]
    <3>1. k + 1 \in k .. Len(c) BY <1>3
    <3>2. /\ q \in Seq(S) /\ Len(q) = (k + 1) - k + 1
          /\ \A i \in 1 .. (k + 1) - k + 1 : q[i] = c[k + i - 1]
      BY <1>1, <2>1, <3>1
    <3>3. /\ (k + 1) - k + 1 = 2 /\ 1 \in 1 .. 2 /\ 2 \in 1 .. 2
          /\ k + 1 - 1 = k /\ k + 2 - 1 = k + 1
      OBVIOUS
    <3> QED BY <3>2, <3>3
  <2>3. PICK t : t = <<c[k], c[k + 1]>> OBVIOUS
  <2>4. c[k] \in S /\ c[k + 1] \in S BY <1>0, <1>3
  <2>5. t \in Seq(S) /\ Len(t) = 2 /\ t[1] = c[k] /\ t[2] = c[k + 1] BY <2>3, <2>4
  <2>6. \A i \in 1 .. 2 : i = 1 \/ i = 2 OBVIOUS
  <2>7. q = t BY <2>2, <2>5, <2>6, SeqEqual
  <2> QED BY <2>1, <2>3, <2>7
<1>4. ASSUME k + 2 <= Len(c) PROVE SubSeq(c, k, k + 2) = <<c[k], c[k + 1], c[k + 2]>>
  <2>1. PICK q : q = SubSeq(c, k, k + 2) OBVIOUS
  <2>2. q \in Seq(S) /\ Len(q) = 3 /\ q[1] = c[k] /\ q[2] = c[k + 1] /\ q[3] = c[k + 2]
    <3>1. k + 2 \in k .. Len(c) BY <1>4
    <3>2. /\ q \in Seq(S) /\ Len(q) = (k + 2) - k + 1
          /\ \A i \in 1 .. (k + 2) - k + 1 : q[i] = c[k + i - 1]
      BY <1>1, <2>1, <3>1
    <3>3. /\ (k + 2) - k + 1 = 3 /\ 1 \in 1 .. 3 /\ 2 \in 1 .. 3 /\ 3 \in 1 .. 3
          /\ k + 1 - 1 = k /\ k + 2 - 1 = k + 1 /\ k + 3 - 1 = k + 2
      OBVIOUS
    <3> QED BY <3>2, <3>3
  <2>3. PICK t : t = <<c[k], c[k + 1], c[k + 2]>> OBVIOUS
  <2>4. c[k] \in S /\ c[k + 1] \in S /\ c[k + 2] \in S BY <1>0, <1>4
  <2>5. t \in Seq(S) /\ Len(t) = 3 /\ t[1] = c[k] /\ t[2] = c[k + 1] /\ t[3] = c[k + 2] BY <2>3, <2>4
  <2>6. \A i \in 1 .. 3 : i = 1 \/ i = 2 \/ i = 3 OBVIOUS
  <2>7. q = t BY <2>2, <2>5, <2>6, SeqEqual
  <2> QED BY <2>1, <2>3, <2>7
<1> QED BY <1>2, <1>3, <1>4

(* A tuple is a sequence of its own elements. *)
LEMMA TupleIsSeq ==
  ASSUME NEW c, NEW n \in Nat, DOMAIN c = 1 .. n, c = [i \in DOMAIN c |-> c[i]]
  PROVE  c \in Seq(Range(c))
<1>1. c \in [1 .. n -> Range(c)] BY DEF Range
<1> QED BY <1>1, SeqDef

LEMMA OrderedPlatform == OrderedFields("platform") = CheckedFields["platform"]
<1> DEFINE c == CheckedFields["platform"]
           ends == <<1, 2, 3, 4, 6, 7, 10, 12, 13, 14>>
           starts == <<1, 2, 3, 4, 5, 7, 8, 11, 13, 14>>
           rows == Catalog["platform"]
           seqs == [i \in DOMAIN rows |-> rows[i][3]]
<1>1. Len(c) = 14 /\ DOMAIN c = 1 .. 14 /\ c = [i \in DOMAIN c |-> c[i]] BY DEF CheckedFields
<1>2. DOMAIN rows = 1 .. 10 BY DEF Catalog
<1>3. ends \in [1 .. 10 -> 0 .. 14] /\ ends[10] = 14 /\ \A i \in 2 .. 10 : ends[i - 1] <= ends[i]
  OBVIOUS
<1>4. starts[1] = 1 /\ \A i \in 2 .. 10 : starts[i] = ends[i - 1] + 1
  OBVIOUS
<1>5. /\ seqs[1] = <<c[1]>> /\ seqs[2] = <<c[2]>> /\ seqs[3] = <<c[3]>> /\ seqs[4] = <<c[4]>>
      /\ seqs[5] = <<c[5], c[6]>> /\ seqs[6] = <<c[7]>>
      /\ seqs[7] = <<c[8], c[9], c[10]>> /\ seqs[8] = <<c[11], c[12]>>
      /\ seqs[9] = <<c[13]>> /\ seqs[10] = <<c[14]>>
  BY <1>2 DEF CheckedFields, Catalog
<1>6. Len(seqs) = 10 BY <1>2
<1>7. OrderedFields("platform") = FlattenSeq(seqs) BY DEF OrderedFields
<1>8. /\ starts[1] = 1 /\ ends[1] = 1
      /\ starts[2] = 2 /\ ends[2] = 2
      /\ starts[3] = 3 /\ ends[3] = 3
      /\ starts[4] = 4 /\ ends[4] = 4
      /\ starts[5] = 5 /\ ends[5] = 6
      /\ starts[6] = 7 /\ ends[6] = 7
      /\ starts[7] = 8 /\ ends[7] = 10
      /\ starts[8] = 11 /\ ends[8] = 12
      /\ starts[9] = 13 /\ ends[9] = 13
      /\ starts[10] = 14 /\ ends[10] = 14
  OBVIOUS
<1> HIDE DEF c, starts, ends, seqs
<1>9. PICK S : c \in Seq(S) BY <1>1, TupleIsSeq
<1>10. /\ \A k \in 1 .. 14 : SubSeq(c, k, k) = <<c[k]>>
       /\ \A k \in 1 .. 13 : SubSeq(c, k, k + 1) = <<c[k], c[k + 1]>>
       /\ \A k \in 1 .. 12 : SubSeq(c, k, k + 2) = <<c[k], c[k + 1], c[k + 2]>>
  <2>1. \A k \in 1 .. Len(c) :
          /\ SubSeq(c, k, k) = <<c[k]>>
          /\ k + 1 <= Len(c) => SubSeq(c, k, k + 1) = <<c[k], c[k + 1]>>
          /\ k + 2 <= Len(c) => SubSeq(c, k, k + 2) = <<c[k], c[k + 1], c[k + 2]>>
    BY <1>9, ShortPieces
  <2> QED BY <2>1, <1>1
<1>11. \A i \in 1 .. 10 : seqs[i] = SubSeq(c, starts[i], ends[i])
  <2>1. /\ seqs[1] = SubSeq(c, 1, 1)
        /\ seqs[2] = SubSeq(c, 2, 2)
        /\ seqs[3] = SubSeq(c, 3, 3)
        /\ seqs[4] = SubSeq(c, 4, 4)
        /\ seqs[6] = SubSeq(c, 7, 7)
        /\ seqs[9] = SubSeq(c, 13, 13)
        /\ seqs[10] = SubSeq(c, 14, 14)
    BY <1>5, <1>10
  <2>2. /\ seqs[5] = SubSeq(c, 5, 6)
        /\ seqs[8] = SubSeq(c, 11, 12)
    BY <1>5, <1>10
  <2>3. /\ seqs[7] = SubSeq(c, 8, 10)
    BY <1>5, <1>10
  <2>4. \A i \in 1 .. 10 : i \in {1, 2, 3, 4, 5} \/ i \in {6, 7, 8, 9, 10}
    OBVIOUS
  <2>5. /\ seqs[1] = SubSeq(c, starts[1], ends[1])
        /\ seqs[2] = SubSeq(c, starts[2], ends[2])
        /\ seqs[3] = SubSeq(c, starts[3], ends[3])
        /\ seqs[4] = SubSeq(c, starts[4], ends[4])
        /\ seqs[5] = SubSeq(c, starts[5], ends[5])
        /\ seqs[6] = SubSeq(c, starts[6], ends[6])
        /\ seqs[7] = SubSeq(c, starts[7], ends[7])
        /\ seqs[8] = SubSeq(c, starts[8], ends[8])
        /\ seqs[9] = SubSeq(c, starts[9], ends[9])
        /\ seqs[10] = SubSeq(c, starts[10], ends[10])
    BY <2>1, <2>2, <2>3, <1>8
  <2>6. \A i \in {1, 2, 3, 4, 5} : seqs[i] = SubSeq(c, starts[i], ends[i]) BY <2>5, Zenon
  <2>7. \A i \in {6, 7, 8, 9, 10} : seqs[i] = SubSeq(c, starts[i], ends[i]) BY <2>5, Zenon
  <2> QED BY <2>4, <2>6, <2>7, Zenon
<1>12. Pieces(seqs, c, 10, starts, ends)
  <2>1. 10 \in Nat \ {0} /\ ends \in [1 .. 10 -> 0 .. Len(c)] /\ ends[10] = Len(c) BY <1>1, <1>3
  <2> QED BY <2>1, <1>3, <1>4, <1>6, <1>11, Zenon DEF Pieces
<1>13. FlattenSeq(seqs) = c BY <1>9, <1>12, FlattenPieces, ZenonT(60)
<1> QED BY <1>7, <1>13 DEF c

LEMMA OrderedCarrier == OrderedFields("carrier") = CheckedFields["carrier"]
<1> DEFINE c == CheckedFields["carrier"]
           ends == <<2, 3, 4, 5, 6, 7, 8, 9, 11>>
           starts == <<1, 3, 4, 5, 6, 7, 8, 9, 10>>
           rows == Catalog["carrier"]
           seqs == [i \in DOMAIN rows |-> rows[i][3]]
<1>1. Len(c) = 11 /\ DOMAIN c = 1 .. 11 /\ c = [i \in DOMAIN c |-> c[i]] BY DEF CheckedFields
<1>2. DOMAIN rows = 1 .. 9 BY DEF Catalog
<1>3. ends \in [1 .. 9 -> 0 .. 11] /\ ends[9] = 11 /\ \A i \in 2 .. 9 : ends[i - 1] <= ends[i]
  OBVIOUS
<1>4. starts[1] = 1 /\ \A i \in 2 .. 9 : starts[i] = ends[i - 1] + 1
  OBVIOUS
<1>5. /\ seqs[1] = <<c[1], c[2]>> /\ seqs[2] = <<c[3]>> /\ seqs[3] = <<c[4]>> /\ seqs[4] = <<c[5]>>
      /\ seqs[5] = <<c[6]>> /\ seqs[6] = <<c[7]>> /\ seqs[7] = <<c[8]>> /\ seqs[8] = <<c[9]>>
      /\ seqs[9] = <<c[10], c[11]>>
  BY <1>2 DEF CheckedFields, Catalog
<1>6. Len(seqs) = 9 BY <1>2
<1>7. OrderedFields("carrier") = FlattenSeq(seqs) BY DEF OrderedFields
<1>8. /\ starts[1] = 1 /\ ends[1] = 2
      /\ starts[2] = 3 /\ ends[2] = 3
      /\ starts[3] = 4 /\ ends[3] = 4
      /\ starts[4] = 5 /\ ends[4] = 5
      /\ starts[5] = 6 /\ ends[5] = 6
      /\ starts[6] = 7 /\ ends[6] = 7
      /\ starts[7] = 8 /\ ends[7] = 8
      /\ starts[8] = 9 /\ ends[8] = 9
      /\ starts[9] = 10 /\ ends[9] = 11
  OBVIOUS
<1> HIDE DEF c, starts, ends, seqs
<1>9. PICK S : c \in Seq(S) BY <1>1, TupleIsSeq
<1>10. /\ \A k \in 1 .. 11 : SubSeq(c, k, k) = <<c[k]>>
       /\ \A k \in 1 .. 10 : SubSeq(c, k, k + 1) = <<c[k], c[k + 1]>>
  <2>1. \A k \in 1 .. Len(c) :
          /\ SubSeq(c, k, k) = <<c[k]>>
          /\ k + 1 <= Len(c) => SubSeq(c, k, k + 1) = <<c[k], c[k + 1]>>
    BY <1>9, ShortPieces
  <2> QED BY <2>1, <1>1
<1>11. \A i \in 1 .. 9 : seqs[i] = SubSeq(c, starts[i], ends[i])
  <2>1. /\ seqs[2] = SubSeq(c, 3, 3)
        /\ seqs[3] = SubSeq(c, 4, 4)
        /\ seqs[4] = SubSeq(c, 5, 5)
        /\ seqs[5] = SubSeq(c, 6, 6)
        /\ seqs[6] = SubSeq(c, 7, 7)
        /\ seqs[7] = SubSeq(c, 8, 8)
        /\ seqs[8] = SubSeq(c, 9, 9)
    BY <1>5, <1>10
  <2>2. /\ seqs[1] = SubSeq(c, 1, 2)
        /\ seqs[9] = SubSeq(c, 10, 11)
    BY <1>5, <1>10
  <2>3. \A i \in 1 .. 9 : i \in {1, 2, 3, 4, 5} \/ i \in {6, 7, 8, 9}
    OBVIOUS
  <2>4. /\ seqs[1] = SubSeq(c, starts[1], ends[1])
        /\ seqs[2] = SubSeq(c, starts[2], ends[2])
        /\ seqs[3] = SubSeq(c, starts[3], ends[3])
        /\ seqs[4] = SubSeq(c, starts[4], ends[4])
        /\ seqs[5] = SubSeq(c, starts[5], ends[5])
        /\ seqs[6] = SubSeq(c, starts[6], ends[6])
        /\ seqs[7] = SubSeq(c, starts[7], ends[7])
        /\ seqs[8] = SubSeq(c, starts[8], ends[8])
        /\ seqs[9] = SubSeq(c, starts[9], ends[9])
    BY <2>1, <2>2, <1>8
  <2>5. \A i \in {1, 2, 3, 4, 5} : seqs[i] = SubSeq(c, starts[i], ends[i]) BY <2>4, Zenon
  <2>6. \A i \in {6, 7, 8, 9} : seqs[i] = SubSeq(c, starts[i], ends[i]) BY <2>4, Zenon
  <2> QED BY <2>3, <2>5, <2>6, Zenon
<1>12. Pieces(seqs, c, 9, starts, ends)
  <2>1. 9 \in Nat \ {0} /\ ends \in [1 .. 9 -> 0 .. Len(c)] /\ ends[9] = Len(c) BY <1>1, <1>3
  <2> QED BY <2>1, <1>3, <1>4, <1>6, <1>11, Zenon DEF Pieces
<1>13. FlattenSeq(seqs) = c BY <1>9, <1>12, FlattenPieces, ZenonT(60)
<1> QED BY <1>7, <1>13 DEF c

LEMMA OrderAgrees == \A side \in Sides : OrderedFields(side) = CheckedFields[side]
<1>1. Sides = {"platform", "carrier"} BY DEF Sides, Catalog
<1> QED BY <1>1, OrderedPlatform, OrderedCarrier

(* Every function of a catalog row has an index. *)
LEMMA RowsIndexed ==
  ASSUME NEW side \in Sides, NEW row \in ToSet(Catalog[side])
  PROVE  ToSet(row[3]) \subseteq ToSet(CheckedFields[side])
<1>1. Sides = {"platform", "carrier"} BY DEF Sides, Catalog
<1>2. CASE side = "platform"
  <2> DEFINE c == CheckedFields["platform"]
             rows == Catalog["platform"]
  <2>1. DOMAIN c = 1 .. 14 BY DEF CheckedFields
  <2>2. DOMAIN rows = 1 .. 10 BY DEF Catalog
  <2>3. /\ rows[1][3] = <<c[1]>> /\ rows[2][3] = <<c[2]>> /\ rows[3][3] = <<c[3]>>
        /\ rows[4][3] = <<c[4]>> /\ rows[5][3] = <<c[5], c[6]>> /\ rows[6][3] = <<c[7]>>
        /\ rows[7][3] = <<c[8], c[9], c[10]>> /\ rows[8][3] = <<c[11], c[12]>>
        /\ rows[9][3] = <<c[13]>> /\ rows[10][3] = <<c[14]>>
    BY DEF CheckedFields, Catalog
  <2> HIDE DEF c, rows
  <2>4. ToSet(c) = {c[j] : j \in 1 .. 14} BY <2>1 DEF ToSet
  <2>5. PICK i \in 1 .. 10 : row = rows[i] BY <1>2, <2>2 DEF ToSet, rows
  <2>6. \A j \in 1 .. 14 : c[j] \in ToSet(c) BY <2>4
  <2>7. \A x, y, z : /\ ToSet(<<x>>) = {x} /\ ToSet(<<x, y>>) = {x, y}
                    /\ ToSet(<<x, y, z>>) = {x, y, z}
    BY DEF ToSet
  <2>8. /\ ToSet(rows[1][3]) \subseteq ToSet(c) /\ ToSet(rows[2][3]) \subseteq ToSet(c)
        /\ ToSet(rows[3][3]) \subseteq ToSet(c) /\ ToSet(rows[4][3]) \subseteq ToSet(c)
        /\ ToSet(rows[6][3]) \subseteq ToSet(c) /\ ToSet(rows[9][3]) \subseteq ToSet(c)
        /\ ToSet(rows[10][3]) \subseteq ToSet(c)
    BY <2>3, <2>6, <2>7
  <2>9. /\ ToSet(rows[5][3]) \subseteq ToSet(c) /\ ToSet(rows[7][3]) \subseteq ToSet(c)
        /\ ToSet(rows[8][3]) \subseteq ToSet(c)
    BY <2>3, <2>6, <2>7
  <2>10. ToSet(row[3]) \subseteq ToSet(c) BY <2>5, <2>8, <2>9
  <2> QED BY <1>2, <2>10 DEF c
<1>3. CASE side = "carrier"
  <2> DEFINE c == CheckedFields["carrier"]
             rows == Catalog["carrier"]
  <2>1. DOMAIN c = 1 .. 11 BY DEF CheckedFields
  <2>2. DOMAIN rows = 1 .. 9 BY DEF Catalog
  <2>3. /\ rows[1][3] = <<c[1], c[2]>> /\ rows[2][3] = <<c[3]>> /\ rows[3][3] = <<c[4]>>
        /\ rows[4][3] = <<c[5]>> /\ rows[5][3] = <<c[6]>> /\ rows[6][3] = <<c[7]>>
        /\ rows[7][3] = <<c[8]>> /\ rows[8][3] = <<c[9]>> /\ rows[9][3] = <<c[10], c[11]>>
    BY DEF CheckedFields, Catalog
  <2> HIDE DEF c, rows
  <2>4. ToSet(c) = {c[j] : j \in 1 .. 11} BY <2>1 DEF ToSet
  <2>5. PICK i \in 1 .. 9 : row = rows[i] BY <1>3, <2>2 DEF ToSet, rows
  <2>6. \/ \E a \in 1 .. 11 : row[3] = <<c[a]>>
        \/ \E a, b \in 1 .. 11 : row[3] = <<c[a], c[b]>>
    BY <2>3, <2>5
  <2>7. ToSet(row[3]) \subseteq ToSet(c) BY <2>4, <2>6, SMTT(30) DEF ToSet
  <2> QED BY <1>3, <2>7 DEF c
<1> QED BY <1>1, <1>2, <1>3

(* The functions of the named capabilities. *)
FieldsOf(side, names) == UNION {ToSet(c[3]) : c \in CatalogRows(side, names)}

(* A mask of capability names allows the calls of those capabilities. *)
LEMMA MaskAllows ==
  ASSUME NEW side \in Sides, NEW requirements,
         requirements.fields[side] = FieldMask(side, requirements.names[side])
  PROVE  Callable(side, requirements) = FieldsOf(side, requirements.names[side])
<1> DEFINE fields == FieldsOf(side, requirements.names[side])
           checked == CheckedFields[side]
<1>1. requirements.fields[side] = {i \in DOMAIN checked : checked[i] \in fields}
  BY OrderAgrees DEF FieldMask, FieldsOf
<1>2. Callable(side, requirements) = {checked[i] : i \in {j \in DOMAIN checked : checked[j] \in fields}}
  BY <1>1 DEF Callable
<1>3. fields \subseteq ToSet(checked)
  BY RowsIndexed DEF FieldsOf, CatalogRows
<1>4. ToSet(checked) = {checked[i] : i \in DOMAIN checked} BY DEF ToSet
<1> HIDE DEF fields, checked
<1>5. Callable(side, requirements) = fields BY <1>2, <1>3, <1>4
<1> QED BY <1>5 DEF fields

(* An image that started calls exactly the functions of the capabilities its
   manifest declares, and its tables hold each of them, for any manifests and
   any tables it could have been linked with. *)
THEOREM DeclaredCallsSafeHolds == CompositionSpec => []DeclaredCallsSafe
<1>1. ASSUME CompositionInv PROVE DeclaredCallsSafe
  <2> SUFFICES ASSUME image.status = "running", NEW side \in Sides
               PROVE /\ Callable(side, image.inputs["requirements"])
                           = FieldsOf(side, image.inputs["requirements"].names[side])
                     /\ \A field \in FieldsOf(side, image.inputs["requirements"].names[side]) :
                          FieldPresent(side, image.tables[side], field)
    BY DEF DeclaredCallsSafe, FieldsOf
  <2>1. PICK r : r = image.inputs["requirements"] OBVIOUS
  <2>2. r.fields[side] = FieldMask(side, r.names[side])
    BY <1>1, <2>1 DEF CompositionInv, MasksExact, Masked
  <2>3. Callable(side, r) = FieldsOf(side, r.names[side]) BY <2>2, MaskAllows
  <2>4. TableAccepted(side, image.tables[side], r)
    BY <1>1, <2>1 DEF CompositionInv, BootedAccepted
  <2>5. \A field \in Callable(side, r) : FieldPresent(side, image.tables[side], field)
    BY <2>4 DEF TableAccepted, Callable
  <2> QED BY <2>1, <2>3, <2>5
<1> QED BY <1>1, CompositionStarts, CompositionStep, PTL DEF CompositionSpec

-----------------------------------------------------------------------------
(* The release certificate.                                                *)

(* Versions, hashes and manifests are whatever the release holds, so their
   types only say which records they are parts of. *)
RepoShape ==
  repo \in [commit : {repo.commit}, lock : Nat, tag : {0, repo.lock}, version : {repo.version},
            evidence : {repo.evidence}, published : {repo.published}, revoked : {repo.revoked}]

ReleaseShape ==
  /\ RepoShape
  /\ release \in [pc : {release.pc}, commit : {release.commit}, core : {release.core},
                  destination : {release.destination}, runs : {release.runs}, edits : {release.edits}]
  /\ device \in [passes : {device.passes}, last : {device.last}]

(* <<>> stands for no tracked record: no version is it, only published
   certificates are revoked, and a revocation has a form. *)
Past == {"build", "qualify", "write", "validate", "copy", "copying", "recheck"}
Versions ==
  /\ release.pc \in {"idle", "previewing"} \cup Past
  /\ repo.version # <<>> /\ <<>> \notin DOMAIN repo.published
  /\ release.pc \in Past => release.destination # <<>>
  /\ DOMAIN repo.revoked \subseteq DOMAIN repo.published
  /\ \A v \in DOMAIN repo.revoked : repo.revoked[v] \in {"good", "wrong", "unreadable"}
  /\ release.pc = "recheck" => release.destination \in DOMAIN repo.published

(* Whatever is edited in a manifest, its size report states the metrics that
   were measured. *)
Measured(m) ==
  /\ {"resources", "status", "compatibility"} \subseteq DOMAIN m
  /\ m.resources = None \/ ("metrics" \in DOMAIN m.resources /\ m.resources.metrics = Metrics)

Manifests ==
  /\ candidate = None \/ Measured(candidate)
  /\ release.pc \in {"validate", "copy", "copying"} => Measured(candidate)
  /\ \A v \in DOMAIN repo.published :
       repo.published[v].mode = "partial" \/ Measured(repo.published[v])

(* A record from a board is about a run of that board. *)
EvidenceBacked ==
  \A p \in DOMAIN repo.evidence :
    LET e == repo.evidence[p]
    IN e.tier = "device" =>
         IF Checks[e.check].artifact = "release" THEN e \in device.passes
         ELSE e.status = "passed" => e.device \in Units /\ <<e.check, e.device>> \in DOMAIN device.last

(* What a board said last is among the records, beside an older one or in its
   place. *)
LastKept ==
  \A check \in DOMAIN Required, unit \in Units :
    <<check, unit>> \in DOMAIN device.last =>
      LET r == device.last[<<check, unit>>]
      IN /\ Checks[check].artifact = "variant"
         /\ r.check = check /\ r.status \in {"passed", "failed"}
         /\ \E p \in {<<check, unit, "result">>, <<check, unit, "failed">>} :
              p \in DOMAIN repo.evidence /\ repo.evidence[p] = r

Grounds == ReleaseShape /\ Versions /\ Manifests /\ EvidenceBacked /\ LastKept
ReleaseInv == Grounds /\ ValidMeansQualified

(* writeEvidenceRecord touches the two files of its check and board, keeps a
   pass or a failure it writes, and a run that never happened removes none. *)
Written(f, r, g, path, sidecar) ==
  /\ \A p \in DOMAIN g : g[p] = r \/ (p \in DOMAIN f /\ g[p] = f[p])
  /\ \A p \in DOMAIN f : p # path /\ p # sidecar => p \in DOMAIN g /\ g[p] = f[p]
  /\ r.status # "unexecuted" => \E p \in {path, sidecar} : p \in DOMAIN g /\ g[p] = r
  /\ r.status = "unexecuted" =>
       \A p \in {path, sidecar} :
         p \in DOMAIN f /\ f[p].status \in {"passed", "failed"} => p \in DOMAIN g /\ g[p] = f[p]

LEMMA WriteEvidenceEffect ==
  ASSUME NEW f, NEW r, NEW g, g = WriteEvidence(f, r), NEW path, NEW sidecar,
         path = <<r.check, r.device, "result">>, sidecar = <<r.check, r.device, "failed">>,
         r.status \in {"passed", "failed", "unexecuted"}
  PROVE  Written(f, r, g, path, sidecar)
<1> USE DEF Written
<1> DEFINE existing == IF path \in DOMAIN f THEN f[path].status ELSE "none"
<1>0. path # sidecar BY SMT
<1>1. CASE r.status = "passed"
  <2>1. PICK h : h = With(f, path, r) OBVIOUS
  <2>2. g = Without(h, sidecar) BY <1>1, <2>1, Zenon DEF WriteEvidence
  <2>3. /\ DOMAIN h = DOMAIN f \cup {path} /\ h[path] = r
        /\ \A p \in DOMAIN f : p # path => h[p] = f[p]
    BY <2>1 DEF With
  <2>4. DOMAIN g = DOMAIN h \ {sidecar} /\ \A p \in DOMAIN g : g[p] = h[p]
    BY <2>2 DEF Without
  <2>5. path \in DOMAIN g /\ g[path] = r BY <1>0, <2>3, <2>4
  <2> HIDE DEF existing
  <2> QED BY <1>1, <2>3, <2>4, <2>5
<1>2. CASE r.status = "failed" /\ existing = "passed"
  <2>1. g = With(f, sidecar, r)
    BY <1>2 DEF WriteEvidence
  <2>2. /\ DOMAIN g = DOMAIN f \cup {sidecar} /\ g[sidecar] = r
        /\ \A p \in DOMAIN f : p # sidecar => g[p] = f[p]
    BY <2>1 DEF With
  <2> HIDE DEF existing
  <2> QED BY <1>2, <2>2
<1>3. CASE r.status = "unexecuted" /\ (existing \in {"passed", "failed"} \/ sidecar \in DOMAIN f)
  <2>1. g = f
    BY <1>3 DEF WriteEvidence
  <2> QED BY <1>3, <2>1
<1>4. CASE /\ r.status # "passed" /\ ~(r.status = "failed" /\ existing = "passed")
           /\ ~(r.status = "unexecuted" /\ (existing \in {"passed", "failed"} \/ sidecar \in DOMAIN f))
  <2>1. g = With(f, path, r)
    BY <1>4 DEF WriteEvidence
  <2>2. /\ DOMAIN g = DOMAIN f \cup {path} /\ g[path] = r
        /\ \A p \in DOMAIN f : p # path => g[p] = f[p]
    BY <2>1 DEF With
  <2>3. r.status = "unexecuted" =>
          /\ sidecar \notin DOMAIN f
          /\ path \in DOMAIN f => f[path].status \notin {"passed", "failed"}
    BY <1>4
  <2> HIDE DEF existing
  <2> QED BY <1>4, <2>2, <2>3
<1> QED BY <1>1, <1>2, <1>3, <1>4

LEMMA RecordParts ==
  ASSUME NEW check, NEW tier, NEW status, NEW core, NEW commit, NEW unit,
         NEW r, r = Record(check, tier, status, core, commit, unit)
  PROVE  r.check = check /\ r.tier = tier /\ r.status = status /\ r.device = unit
         /\ r.core = core /\ r.revision = commit
  BY DEF Record

(* The last run of a board, and where its record is. *)
LEMMA LastRun ==
  ASSUME LastKept, NEW check \in DOMAIN Required, NEW unit \in Units, <<check, unit>> \in DOMAIN device.last,
         NEW r, r = device.last[<<check, unit>>]
  PROVE  /\ Checks[check].artifact = "variant" /\ r.check = check /\ r.status \in {"passed", "failed"}
         /\ \E p \in {<<check, unit, "result">>, <<check, unit, "failed">>} :
              p \in DOMAIN repo.evidence /\ repo.evidence[p] = r
  BY Zenon DEF LastKept

LEMMA RequiredParts ==
  /\ DOMAIN Required \subseteq DOMAIN Checks
  /\ \A check \in DOMAIN Required : Required[check] = Checks[check]
  BY DEF Required

-----------------------------------------------------------------------------
LEMMA SaidValid ==
  ASSUME NEW m, NEW revocation, NEW requireQualified, NEW allowRevoked,
         Said(m, revocation, requireQualified, allowRevoked) = "valid"
  PROVE  /\ revocation = "none" /\ m.mode # "partial"
         /\ CoreHolds(m) /\ EmbeddedHolds(m) /\ ResourcesHold(m) /\ QualificationHolds(m)
BY DEF Said

(* Enough accepted records, and none beside them that is not, mean enough
   boards whose last run passed. *)
LEMMA RecordsAreBoards ==
  ASSUME Grounds, NEW m, m.status = "qualified", QualificationHolds(m)
  PROVE  BoardsAgree(m)
<1> DEFINE core == m.core.sha
           of(check) == {p \in DOMAIN repo.evidence : repo.evidence[p].check = check}
<1>1. \A check \in DOMAIN Required :
        CheckSatisfied(check, Required[check], repo.evidence, core, m.image, m.embedded.sha)
  BY DEF QualificationHolds, RequiredChecksPass
<1> SUFFICES ASSUME NEW check \in DOMAIN Required
             PROVE  LET last == {u \in Units : <<check, u>> \in DOMAIN device.last}
                    IN IF Required[check].artifact = "release"
                       THEN \E r \in device.passes : r.check = check /\ r.image = m.image /\ r.core = m.core.sha
                       ELSE /\ Cardinality(last) >= Required[check].units
                            /\ \A u \in last : LET r == device.last[<<check, u>>]
                                              IN r.status = "passed" /\ r.core = m.core.sha /\ r.revision = m.embedded.sha
  BY DEF BoardsAgree
<1> DEFINE last == {u \in Units : <<check, u>> \in DOMAIN device.last}
           boards == {repo.evidence[p].device : p \in of(check)}
<1>2. /\ check \in DOMAIN Checks /\ Required[check] = Checks[check] BY RequiredParts
<1>3. CheckSatisfied(check, Required[check], repo.evidence, core, m.image, m.embedded.sha) BY <1>1
<1>4. /\ of(check) # {}
      /\ \A p \in of(check) :
           /\ repo.evidence[p].tier = "device" /\ repo.evidence[p].status = "passed"
           /\ repo.evidence[p].core = core
           /\ IF Required[check].artifact = "release" THEN repo.evidence[p].image = m.image
              ELSE repo.evidence[p].revision = m.embedded.sha
  BY <1>3 DEF CheckSatisfied
<1>5. Cardinality(boards) >= Required[check].units BY <1>3 DEF CheckSatisfied
<1>6. CASE Required[check].artifact = "release"
  <2>1. PICK p \in of(check) : TRUE BY <1>4
  <2>2. repo.evidence[p] \in device.passes
    BY <1>2, <1>4, <1>6, <2>1 DEF Grounds, EvidenceBacked
  <2>3. repo.evidence[p].check = check /\ repo.evidence[p].image = m.image /\ repo.evidence[p].core = m.core.sha
    BY <1>4, <1>6, <2>1
  <2> QED BY <1>6, <2>2, <2>3
<1>7. CASE Required[check].artifact # "release"
  <2>1. boards \subseteq last
    BY <1>2, <1>4, <1>7 DEF Grounds, EvidenceBacked
  <2>2. IsFiniteSet(last) /\ Checks[check].units \in Nat
    BY <1>2, ReleaseAssumption, FS_Subset
  <2>3. IsFiniteSet(boards) /\ Cardinality(boards) <= Cardinality(last)
    BY <2>1, <2>2, FS_Subset
  <2>4. Cardinality(boards) \in Nat /\ Cardinality(last) \in Nat
    BY <2>2, <2>3, FS_CardinalityType
  <2>5. Cardinality(last) >= Required[check].units
    BY <1>2, <1>5, <2>2, <2>3, <2>4
  <2>6. ASSUME NEW u \in last
        PROVE  /\ device.last[<<check, u>>].status = "passed"
               /\ device.last[<<check, u>>].core = m.core.sha
               /\ device.last[<<check, u>>].revision = m.embedded.sha
    <3>1. u \in Units /\ <<check, u>> \in DOMAIN device.last BY <2>6
    <3>2. PICK r : r = device.last[<<check, u>>] OBVIOUS
    <3>3. LastKept BY DEF Grounds
    <3>4. r.check = check /\ \E p \in {<<check, u, "result">>, <<check, u, "failed">>} :
                              p \in DOMAIN repo.evidence /\ repo.evidence[p] = r
      BY <3>1, <3>2, <3>3, LastRun
    <3>5. PICK p \in DOMAIN repo.evidence : repo.evidence[p] = r BY <3>4, Zenon
    <3>6. p \in of(check) BY <3>4, <3>5
    <3> QED BY <3>2, <3>5, <3>6, <1>4, <1>7
  <2> HIDE DEF last, boards
  <2> QED BY <1>7, <2>5, <2>6 DEF last
<1> QED BY <1>6, <1>7

(* What the property says of one manifest. *)
Qualified(m, tracked) ==
  /\ BoardsAgree(m)
  /\ m.core.sha = repo.lock /\ repo.tag = repo.lock
  /\ m.embedded.version = repo.version /\ repo.version[1] = repo.lock
  /\ \A b \in DOMAIN Declared.budgets : Metrics[b] <= Declared.budgets[b]
  /\ tracked \notin DOMAIN repo.revoked

LEMMA ReportFits ==
  ASSUME NEW m, Measured(m), ResourcesHold(m), m.status = "qualified"
  PROVE  \A b \in DOMAIN Declared.budgets : Metrics[b] <= Declared.budgets[b]
<1>1. CASE m.resources = None BY <1>1 DEF ResourcesHold
<1>2. CASE m.resources # None
  <2>1. SizeReportHolds(m) /\ m.resources.metrics = Metrics BY <1>2 DEF ResourcesHold, Measured
  <2>2. CASE m.resources.status = "passed"
    <3>1. /\ m.resources.budgets = Declared.budgets
          /\ \A b \in DOMAIN m.resources.budgets : m.resources.metrics[b] <= m.resources.budgets[b]
      BY <2>1, <2>2 DEF SizeReportHolds
    <3> QED BY <2>1, <3>1
  <2>3. CASE m.resources.status # "passed"
    BY <2>1, <2>3 DEF SizeReportHolds
  <2> QED BY <2>2, <2>3
<1> QED BY <1>1, <1>2

LEMMA ValidIsQualified ==
  ASSUME Grounds, NEW m, Measured(m), NEW revocation, NEW requireQualified, NEW allowRevoked,
         Said(m, revocation, requireQualified, allowRevoked) = "valid",
         m.status = "qualified", m.mode = "release",
         NEW tracked, revocation = "none" => tracked \notin DOMAIN repo.revoked
  PROVE  Qualified(m, tracked)
<1>1. /\ revocation = "none" /\ CoreHolds(m) /\ EmbeddedHolds(m)
      /\ ResourcesHold(m) /\ QualificationHolds(m)
  BY SaidValid
<1>2. BoardsAgree(m) BY <1>1, RecordsAreBoards
<1>3. m.core.sha = repo.lock /\ repo.tag = repo.lock
  BY <1>1 DEF CoreHolds, Grounds, ReleaseShape, RepoShape
<1>4. m.embedded.version = repo.version /\ repo.version[1] = repo.lock
  BY <1>1 DEF EmbeddedHolds
<1>5. \A b \in DOMAIN Declared.budgets : Metrics[b] <= Declared.budgets[b]
  BY <1>1, ReportFits
<1> QED BY <1>1, <1>2, <1>3, <1>4, <1>5 DEF Qualified

-----------------------------------------------------------------------------
LEMMA NoVerdictYet == verdict' = NoVerdict => ValidMeansQualified'
  BY DEF NoVerdict, ValidMeansQualified

LEMMA VerdictStep ==
  ASSUME NEW m, NEW said, NEW tracked, Validated(m, said, tracked), repo' = repo, device' = device,
         said = "valid" /\ m.status = "qualified" /\ m.mode = "release" => Qualified(m, tracked)
  PROVE  ValidMeansQualified'
<1>1. verdict'.manifest = m /\ verdict'.said = said /\ verdict'.tracked = tracked
  BY DEF Validated
<1>2. BoardsAgree(m) => BoardsAgree(verdict.manifest)' BY <1>1 DEF BoardsAgree
<1> QED BY <1>1, <1>2 DEF ValidMeansQualified, Qualified

(* The writer states the measured metrics, and no edit changes them. *)
LEMMA ManifestMeasured ==
  ASSUME NEW r PROVE Measured(Manifest(r)) /\ Manifest(r).mode # "partial"
  BY DEF Manifest, SizeReport, Measured

LEMMA EditMeasured ==
  ASSUME NEW m, Measured(m), NEW e \in Edited(m) PROVE Measured(e)
<1>1. ASSUME NEW r \in EditedReport(m.resources), m.resources # None
      PROVE  r = None \/ ("metrics" \in DOMAIN r /\ r.metrics = Metrics)
  BY <1>1 DEF EditedReport, Measured
<1>2. ASSUME NEW r \in IF m.resources = None THEN {} ELSE EditedReport(m.resources),
             e = [m EXCEPT !.resources = r]
      PROVE  Measured(e)
  <2>1. r = None \/ ("metrics" \in DOMAIN r /\ r.metrics = Metrics) BY <1>1, <1>2
  <2>2. e.resources = r /\ DOMAIN e = DOMAIN m BY <1>2 DEF Measured
  <2> QED BY <2>1, <2>2 DEF Measured
<1>3. ASSUME DOMAIN e = DOMAIN m, e.resources = m.resources PROVE Measured(e)
  BY <1>3 DEF Measured
<1>4. CASE e = [m EXCEPT !.schema = 1, !.checks = <<>>]
  BY <1>3, <1>4 DEF Measured
<1>5. CASE e = [m EXCEPT !.mode = "preview", !.core.tag = 0, !.compatibility = "preview"]
  BY <1>3, <1>5 DEF Measured
<1>6. CASE e = [m EXCEPT !.axes = "other"] BY <1>3, <1>6 DEF Measured
<1>7. ASSUME NEW p, e = [m EXCEPT !.cited = Without(m.cited, p)] PROVE Measured(e)
  BY <1>3, <1>7 DEF Measured
<1>8. ASSUME NEW p, e = [m EXCEPT !.cited[p].status = "passed"] PROVE Measured(e)
  BY <1>3, <1>8 DEF Measured
<1>9. ASSUME NEW p, e = [m EXCEPT !.image = m.cited[p].image, !.core.sha = m.cited[p].core] PROVE Measured(e)
  BY <1>3, <1>9 DEF Measured
<1>10. ASSUME NEW c, e = [m EXCEPT !.embedded.sha = c] PROVE Measured(e)
  BY <1>3, <1>10 DEF Measured
<1>11. ASSUME NEW x, e = [m EXCEPT !.transport.source = x] PROVE Measured(e)
  BY <1>3, <1>11 DEF Measured
<1>12. ASSUME NEW x, e = [m EXCEPT !.transport.version = x] PROVE Measured(e)
  BY <1>3, <1>12 DEF Measured
<1> QED BY <1>2, <1>4, <1>5, <1>6, <1>7, <1>8, <1>9, <1>10, <1>11, <1>12 DEF Edited

LEMMA ClaimMeasured ==
  ASSUME NEW m, Measured(m)
  PROVE  Measured([m EXCEPT !.status = "qualified", !.compatibility = "qualified"])
  BY DEF Measured

-----------------------------------------------------------------------------
LEMMA EvidenceKept ==
  ASSUME Grounds, repo'.evidence = repo.evidence, device' = device
  PROVE  EvidenceBacked' /\ LastKept'
<1>1. EvidenceBacked' BY DEF Grounds, EvidenceBacked
<1>2. LastKept' BY DEF Grounds, LastKept
<1> QED BY <1>1, <1>2

(* A step of the script that leaves the checkout and the boards alone. *)
ScriptRecord == release \in [pc : {release.pc}, commit : {release.commit}, core : {release.core},
                             destination : {release.destination}, runs : {release.runs}, edits : {release.edits}]
Scripted ==
  /\ ScriptRecord
  /\ release.pc \in {"idle", "previewing"} \cup Past
  /\ release.pc \in Past => release.destination # <<>>
  /\ release.pc = "recheck" => release.destination \in DOMAIN repo.published
  /\ candidate = None \/ Measured(candidate)
  /\ release.pc \in {"validate", "copy", "copying"} => Measured(candidate)

LEMMA ScriptStep ==
  ASSUME Grounds, repo' = repo, device' = device, Scripted'
  PROVE  Grounds'
<1>1. EvidenceBacked' /\ LastKept' BY EvidenceKept
<1>2. ReleaseShape' BY DEF Grounds, ReleaseShape, RepoShape, Scripted, ScriptRecord
<1>3. Versions' BY DEF Grounds, Versions, Scripted
<1>4. Manifests' BY DEF Grounds, Manifests, Scripted, Measured
<1> QED BY <1>1, <1>2, <1>3, <1>4 DEF Grounds

LEMMA NowScripted == Grounds => Scripted
  BY DEF Grounds, ReleaseShape, Versions, Manifests, Scripted, ScriptRecord

LEMMA EndedScripted ==
  ASSUME release' = Ended, candidate' = None PROVE Scripted'
<1>1. ScriptRecord' /\ release'.pc = "idle" BY DEF Ended, Idle, ScriptRecord
<1> QED BY <1>1 DEF Scripted, Past

LEMMA StopStep ==
  ASSUME Grounds, ReleaseStops, UNCHANGED <<repo, device>> PROVE ReleaseInv'
<1>1. Scripted' BY EndedScripted DEF ReleaseStops
<1>2. Grounds' BY <1>1, ScriptStep
<1> QED BY <1>2, NoVerdictYet DEF ReleaseStops, ReleaseInv

LEMMA ReleaseStarts == ReleaseInit => ReleaseInv
<1> SUFFICES ASSUME ReleaseInit PROVE ReleaseInv OBVIOUS
<1> DEFINE built == Record("build", "build", "passed", 1, 1, "none")
<1>1. /\ repo = [commit |-> 1, lock |-> 1, tag |-> 1, version |-> <<1, 1>>,
                 evidence |-> [p \in {<<"build", "none", "result">>} |-> built],
                 published |-> <<>>, revoked |-> <<>>]
      /\ candidate = None /\ release = Idle /\ verdict = NoVerdict
      /\ device = [passes |-> {}, last |-> <<>>]
  BY DEF ReleaseInit
<1>2. PICK e : e = built OBVIOUS
<1>3. e.tier = "build" BY <1>2, RecordParts
<1> HIDE DEF built
<1>4. ReleaseShape BY <1>1 DEF ReleaseShape, RepoShape, Idle
<1>5. /\ repo.version = <<1, 1>> /\ repo.published = <<>> /\ repo.revoked = <<>> /\ release.pc = "idle"
      /\ repo.evidence = [p \in {<<"build", "none", "result">>} |-> e] /\ device.last = <<>>
  BY <1>1, <1>2 DEF Idle
<1>6. DOMAIN repo.published = {} /\ DOMAIN repo.revoked = {} /\ DOMAIN device.last = {} BY <1>5
<1>7. repo.version # <<>> BY <1>5
<1>8. Versions BY <1>5, <1>6, <1>7 DEF Versions, Past
<1>9. Manifests BY <1>1, <1>5, <1>6 DEF Manifests
<1>10. EvidenceBacked BY <1>3, <1>5 DEF EvidenceBacked
<1>11. LastKept BY <1>6 DEF LastKept
<1>12. ValidMeansQualified BY <1>1 DEF ValidMeansQualified, NoVerdict
<1> QED BY <1>4, <1>8, <1>9, <1>10, <1>11, <1>12 DEF ReleaseInv, Grounds

LEMMA DeviceRunStep ==
  ASSUME Grounds, DeviceRun PROVE ReleaseInv'
<1>1. PICK check \in {c \in DOMAIN Required : Checks[c].artifact = "variant"}, unit \in Units,
          status \in {"passed", "failed", "unexecuted"} :
        LET record == Record(check, "device", status, repo.lock, repo.commit, unit)
        IN /\ repo' = [repo EXCEPT !.evidence = WriteEvidence(@, record)]
           /\ device' = IF status = "unexecuted" THEN device
                        ELSE [device EXCEPT !.last = With(@, <<check, unit>>, record)]
  BY DEF DeviceRun
<1>2. release' = [release EXCEPT !.runs = @ + 1] /\ verdict' = NoVerdict /\ candidate' = candidate
  BY DEF DeviceRun
<1>3. PICK r : r = Record(check, "device", status, repo.lock, repo.commit, unit) OBVIOUS
<1>4. r.check = check /\ r.tier = "device" /\ r.status = status /\ r.device = unit
  BY <1>3, RecordParts
<1>5. PICK path : path = <<check, unit, "result">> OBVIOUS
<1>6. PICK sidecar : sidecar = <<check, unit, "failed">> OBVIOUS
<1>7. PICK g : g = WriteEvidence(repo.evidence, r) OBVIOUS
<1>8. Written(repo.evidence, r, g, path, sidecar)
  <2>1. path = <<r.check, r.device, "result">> /\ sidecar = <<r.check, r.device, "failed">>
    BY <1>4, <1>5, <1>6
  <2>2. r.status \in {"passed", "failed", "unexecuted"} BY <1>4
  <2> QED BY <1>7, <2>1, <2>2, WriteEvidenceEffect
<1>9. repo' = [repo EXCEPT !.evidence = g] BY <1>1, <1>3, <1>7
<1>10. /\ RepoShape' /\ repo'.evidence = g /\ repo'.version = repo.version /\ repo'.lock = repo.lock
       /\ repo'.published = repo.published /\ repo'.revoked = repo.revoked
  BY <1>9 DEF Grounds, ReleaseShape, RepoShape
<1>11. /\ ScriptRecord' /\ release'.pc = release.pc /\ release'.destination = release.destination
  BY <1>2 DEF Grounds, ReleaseShape, ScriptRecord
<1>12. /\ device' \in [passes : {device'.passes}, last : {device'.last}] /\ device'.passes = device.passes
       /\ status = "unexecuted" => device'.last = device.last
       /\ status # "unexecuted" => device'.last = With(device.last, <<check, unit>>, r)
  BY <1>1, <1>3 DEF Grounds, ReleaseShape
<1>13. ReleaseShape' BY <1>10, <1>11, <1>12 DEF ReleaseShape, ScriptRecord
<1>14. Versions' BY <1>10, <1>11 DEF Grounds, Versions
<1>15. Manifests' BY <1>2, <1>10, <1>11 DEF Grounds, Manifests, Measured
<1>16. /\ DOMAIN device.last \subseteq DOMAIN device'.last
       /\ \A k \in DOMAIN device.last : k # <<check, unit>> => device'.last[k] = device.last[k]
       /\ status # "unexecuted" =>
            /\ DOMAIN device'.last = DOMAIN device.last \cup {<<check, unit>>}
            /\ device'.last[<<check, unit>>] = r
  BY <1>12 DEF With
<1>17. EvidenceBacked'
  <2> SUFFICES ASSUME NEW p \in DOMAIN g, g[p].tier = "device"
               PROVE  IF Checks[g[p].check].artifact = "release" THEN g[p] \in device'.passes
                      ELSE g[p].status = "passed" =>
                             g[p].device \in Units /\ <<g[p].check, g[p].device>> \in DOMAIN device'.last
    BY <1>10 DEF EvidenceBacked
  <2>1. CASE g[p] = r
    <3>1. Checks[r.check].artifact # "release" BY <1>1, <1>4
    <3>2. r.status = "passed" => r.device \in Units /\ <<r.check, r.device>> \in DOMAIN device'.last
      BY <1>4, <1>16
    <3> QED BY <2>1, <3>1, <3>2
  <2>2. CASE p \in DOMAIN repo.evidence /\ g[p] = repo.evidence[p]
    BY <2>2, <1>12, <1>16 DEF Grounds, EvidenceBacked
  <2> QED BY <2>1, <2>2, <1>8 DEF Written
<1>18. LastKept'
  <2> SUFFICES ASSUME NEW c \in DOMAIN Required, NEW u \in Units, <<c, u>> \in DOMAIN device'.last
               PROVE  /\ Checks[c].artifact = "variant"
                      /\ device'.last[<<c, u>>].check = c
                      /\ device'.last[<<c, u>>].status \in {"passed", "failed"}
                      /\ \E p \in {<<c, u, "result">>, <<c, u, "failed">>} :
                           p \in DOMAIN g /\ g[p] = device'.last[<<c, u>>]
    BY <1>10 DEF LastKept
  <2>1. CASE c = check /\ u = unit /\ status # "unexecuted"
    <3>1. device'.last[<<c, u>>] = r BY <2>1, <1>16
    <3>2. \E p \in {<<c, u, "result">>, <<c, u, "failed">>} : p \in DOMAIN g /\ g[p] = r
      BY <2>1, <1>4, <1>5, <1>6, <1>8 DEF Written
    <3> QED BY <1>1, <1>4, <2>1, <3>1, <3>2
  <2>2. CASE ~(c = check /\ u = unit) \/ status = "unexecuted"
    <3>1. <<c, u>> \in DOMAIN device.last /\ device'.last[<<c, u>>] = device.last[<<c, u>>]
      BY <2>2, <1>12, <1>16
    <3>2. PICK x : x = device.last[<<c, u>>] OBVIOUS
    <3>3. LastKept BY DEF Grounds
    <3>4. /\ Checks[c].artifact = "variant" /\ x.check = c /\ x.status \in {"passed", "failed"}
          /\ \E p \in {<<c, u, "result">>, <<c, u, "failed">>} :
               p \in DOMAIN repo.evidence /\ repo.evidence[p] = x
      BY <3>1, <3>2, <3>3, LastRun
    <3>5. PICK p \in {<<c, u, "result">>, <<c, u, "failed">>} :
            p \in DOMAIN repo.evidence /\ repo.evidence[p] = x
      BY <3>4
    <3>6. p \in DOMAIN g /\ g[p] = x
      <4>1. CASE c = check /\ u = unit
        BY <4>1, <2>2, <3>4, <3>5, <1>4, <1>5, <1>6, <1>8 DEF Written
      <4>2. CASE ~(c = check /\ u = unit)
        <5>1. p # path /\ p # sidecar BY <4>2, <3>5, <1>5, <1>6
        <5> QED BY <5>1, <3>5, <1>8 DEF Written
      <4> QED BY <4>1, <4>2
    <3> QED BY <3>1, <3>2, <3>4, <3>5, <3>6
  <2> QED BY <2>1, <2>2
<1> QED BY <1>2, <1>13, <1>14, <1>15, <1>17, <1>18, NoVerdictYet DEF ReleaseInv, Grounds

LEMMA CommitStep ==
  ASSUME Grounds, Commit PROVE ReleaseInv'
<1>1. PICK lock \in {repo.lock, repo.lock + 1} :
        \E tag \in IF lock = repo.lock THEN {repo.tag} ELSE {0, lock},
           version \in {repo.version, <<repo.version[1], repo.version[2] + 1>>, <<lock, 1>>} :
          repo' = [repo EXCEPT !.commit = @ + 1, !.lock = lock, !.tag = tag, !.version = version]
  BY DEF Commit
<1>2. PICK tag \in IF lock = repo.lock THEN {repo.tag} ELSE {0, lock},
           version \in {repo.version, <<repo.version[1], repo.version[2] + 1>>, <<lock, 1>>} :
        repo' = [repo EXCEPT !.commit = @ + 1, !.lock = lock, !.tag = tag, !.version = version]
  BY <1>1
<1>3. verdict' = NoVerdict /\ candidate' = candidate /\ release' = release /\ device' = device
  BY DEF Commit
<1>4. lock \in Nat /\ tag \in {0, lock}
  BY <1>1, <1>2 DEF Grounds, ReleaseShape, RepoShape
<1>5. version # <<>> BY <1>2 DEF Grounds, Versions
<1>6. /\ RepoShape' /\ repo'.evidence = repo.evidence /\ repo'.version = version
      /\ repo'.published = repo.published /\ repo'.revoked = repo.revoked
  BY <1>2, <1>4 DEF Grounds, ReleaseShape, RepoShape
<1>7. ReleaseShape' BY <1>3, <1>6 DEF Grounds, ReleaseShape
<1>8. Versions' BY <1>3, <1>5, <1>6 DEF Grounds, Versions
<1>9. Manifests' BY <1>3, <1>6 DEF Grounds, Manifests, Measured
<1>10. EvidenceBacked' /\ LastKept' BY <1>3, <1>6, EvidenceKept
<1> QED BY <1>3, <1>7, <1>8, <1>9, <1>10, NoVerdictYet DEF ReleaseInv, Grounds

LEMMA RevokeStep ==
  ASSUME Grounds, Revoke PROVE ReleaseInv'
<1>1. PICK version \in DOMAIN repo.published \ DOMAIN repo.revoked, form \in {"good", "wrong", "unreadable"} :
        repo' = [repo EXCEPT !.revoked = With(@, version, form)]
  BY DEF Revoke
<1>2. verdict' = NoVerdict /\ candidate' = candidate /\ release' = release /\ device' = device
  BY DEF Revoke
<1>3. PICK w : w = With(repo.revoked, version, form) OBVIOUS
<1>4. /\ DOMAIN w = DOMAIN repo.revoked \cup {version}
      /\ \A v \in DOMAIN w : w[v] = form \/ (v \in DOMAIN repo.revoked /\ w[v] = repo.revoked[v])
  BY <1>3 DEF With
<1>5. repo' = [repo EXCEPT !.revoked = w] BY <1>1, <1>3
<1>6. /\ RepoShape' /\ repo'.evidence = repo.evidence /\ repo'.version = repo.version
      /\ repo'.published = repo.published /\ repo'.revoked = w
  BY <1>5 DEF Grounds, ReleaseShape, RepoShape
<1>7. ReleaseShape' BY <1>2, <1>6 DEF Grounds, ReleaseShape
<1>8. /\ DOMAIN w \subseteq DOMAIN repo.published
      /\ \A v \in DOMAIN w : w[v] \in {"good", "wrong", "unreadable"}
  BY <1>1, <1>4 DEF Grounds, Versions
<1>9. Versions' BY <1>2, <1>6, <1>8 DEF Grounds, Versions
<1>10. Manifests' BY <1>2, <1>6 DEF Grounds, Manifests, Measured
<1>11. EvidenceBacked' /\ LastKept' BY <1>2, <1>6, EvidenceKept
<1> QED BY <1>2, <1>7, <1>9, <1>10, <1>11, NoVerdictYet DEF ReleaseInv, Grounds

LEMMA QualifyStep ==
  ASSUME Grounds, Qualify PROVE ReleaseInv'
<1>1. PICK check \in {c \in DOMAIN Required : Checks[c].artifact = "release"}, unit \in Units :
        LET record == Record(check, "device", "passed", release.core, release.commit, unit)
        IN /\ repo' = [repo EXCEPT !.evidence = With(@, <<check, "any", "result">>, record)]
           /\ device' = [device EXCEPT !.passes = @ \cup {record}]
  BY DEF Qualify
<1>2. /\ release.pc = "qualify" /\ release' = [release EXCEPT !.pc = "write"]
      /\ verdict' = NoVerdict /\ candidate' = candidate
  BY DEF Qualify
<1>3. PICK r : r = Record(check, "device", "passed", release.core, release.commit, unit) OBVIOUS
<1>4. r.check = check BY <1>3, RecordParts
<1>5. PICK path : path = <<check, "any", "result">> OBVIOUS
<1>6. PICK g : g = With(repo.evidence, path, r) OBVIOUS
<1>7. /\ DOMAIN g = DOMAIN repo.evidence \cup {path}
      /\ g[path] = r
      /\ \A p \in DOMAIN repo.evidence : p # path => g[p] = repo.evidence[p]
  BY <1>6 DEF With
<1>8. repo' = [repo EXCEPT !.evidence = g] /\ device' = [device EXCEPT !.passes = @ \cup {r}]
  BY <1>1, <1>3, <1>5, <1>6
<1>9. /\ RepoShape' /\ repo'.evidence = g /\ repo'.version = repo.version
      /\ repo'.published = repo.published /\ repo'.revoked = repo.revoked
  BY <1>8 DEF Grounds, ReleaseShape, RepoShape
<1>10. /\ ScriptRecord' /\ release'.pc = "write" /\ release'.destination = release.destination
  BY <1>2 DEF Grounds, ReleaseShape, ScriptRecord
<1>11. /\ device' \in [passes : {device'.passes}, last : {device'.last}]
       /\ device'.passes = device.passes \cup {r} /\ device'.last = device.last
  BY <1>8 DEF Grounds, ReleaseShape
<1>12. ReleaseShape' BY <1>9, <1>10, <1>11 DEF ReleaseShape, ScriptRecord
<1>13. Versions' BY <1>2, <1>9, <1>10 DEF Grounds, Versions, Past
<1>14. Manifests' BY <1>2, <1>9, <1>10 DEF Grounds, Manifests, Measured
<1>15. EvidenceBacked'
  <2> SUFFICES ASSUME NEW p \in DOMAIN g, g[p].tier = "device"
               PROVE  IF Checks[g[p].check].artifact = "release" THEN g[p] \in device'.passes
                      ELSE g[p].status = "passed" =>
                             g[p].device \in Units /\ <<g[p].check, g[p].device>> \in DOMAIN device'.last
    BY <1>9 DEF EvidenceBacked
  <2>1. CASE p = path BY <2>1, <1>1, <1>4, <1>7, <1>11
  <2>2. CASE p # path
    <3>1. p \in DOMAIN repo.evidence /\ g[p] = repo.evidence[p] BY <2>2, <1>7
    <3> QED BY <3>1, <1>11 DEF Grounds, EvidenceBacked
  <2> QED BY <2>1, <2>2
<1>16. LastKept'
  <2> SUFFICES ASSUME NEW c \in DOMAIN Required, NEW u \in Units, <<c, u>> \in DOMAIN device.last
               PROVE  /\ Checks[c].artifact = "variant"
                      /\ device.last[<<c, u>>].check = c
                      /\ device.last[<<c, u>>].status \in {"passed", "failed"}
                      /\ \E p \in {<<c, u, "result">>, <<c, u, "failed">>} :
                           p \in DOMAIN g /\ g[p] = device.last[<<c, u>>]
    BY <1>9, <1>11 DEF LastKept
  <2>1. PICK x : x = device.last[<<c, u>>] OBVIOUS
  <2>2. LastKept /\ <<c, u>> \in DOMAIN device.last BY DEF Grounds
  <2>3. /\ Checks[c].artifact = "variant" /\ x.check = c /\ x.status \in {"passed", "failed"}
        /\ \E p \in {<<c, u, "result">>, <<c, u, "failed">>} :
             p \in DOMAIN repo.evidence /\ repo.evidence[p] = x
    BY <2>1, <2>2, LastRun
  <2>4. c # check BY <1>1, <2>3
  <2>5. PICK p \in {<<c, u, "result">>, <<c, u, "failed">>} :
          p \in DOMAIN repo.evidence /\ repo.evidence[p] = x
    BY <2>3
  <2>6. p # path BY <2>4, <2>5, <1>5
  <2>7. p \in DOMAIN g /\ g[p] = x BY <2>5, <2>6, <1>7
  <2> QED BY <2>1, <2>3, <2>5, <2>7
<1> QED BY <1>2, <1>12, <1>13, <1>14, <1>15, <1>16, NoVerdictYet DEF ReleaseInv, Grounds

(* Publishing puts a partial record or the candidate at the destination. *)
LEMMA PublishStep ==
  ASSUME Grounds, NEW m, m.mode = "partial" \/ Measured(m), NEW pc \in {"copying", "recheck"},
         release.pc \in {"copy", "copying"},
         repo' = [repo EXCEPT !.published = With(@, release.destination, m)],
         release' = [release EXCEPT !.pc = pc], verdict' = NoVerdict,
         candidate' = candidate, device' = device
  PROVE  ReleaseInv'
<1>1. PICK w : w = With(repo.published, release.destination, m) OBVIOUS
<1>2. /\ DOMAIN w = DOMAIN repo.published \cup {release.destination}
      /\ w[release.destination] = m
      /\ \A v \in DOMAIN repo.published : v # release.destination => w[v] = repo.published[v]
  BY <1>1 DEF With
<1>3. /\ RepoShape' /\ repo'.evidence = repo.evidence /\ repo'.version = repo.version
      /\ repo'.published = w /\ repo'.revoked = repo.revoked
  BY <1>1 DEF Grounds, ReleaseShape, RepoShape
<1>4. /\ ScriptRecord' /\ release'.pc = pc /\ release'.destination = release.destination
  BY DEF Grounds, ReleaseShape, ScriptRecord
<1>5. ReleaseShape' BY <1>3, <1>4 DEF Grounds, ReleaseShape, ScriptRecord
<1>6. release.destination # <<>> BY DEF Grounds, Versions, Past
<1>7. Versions' BY <1>2, <1>3, <1>4, <1>6 DEF Grounds, Versions, Past
<1>8. Measured(candidate) BY DEF Grounds, Manifests
<1>9. \A v \in DOMAIN w : w[v].mode = "partial" \/ Measured(w[v])
  BY <1>2 DEF Grounds, Manifests
<1>10. Manifests' BY <1>3, <1>8, <1>9 DEF Manifests, Measured
<1>11. EvidenceBacked' /\ LastKept' BY <1>3, EvidenceKept
<1> QED BY <1>5, <1>7, <1>10, <1>11, NoVerdictYet DEF ReleaseInv, Grounds

LEMMA CopyStep ==
  ASSUME Grounds, CopyStarts \/ CopyEnds PROVE ReleaseInv'
<1>1. CASE CopyStarts
  <2>1. PICK m : m = [mode |-> "partial"] OBVIOUS
  <2>2. m.mode = "partial" BY <2>1
  <2>3. /\ release.pc \in {"copy", "copying"} /\ "copying" \in {"copying", "recheck"}
        /\ repo' = [repo EXCEPT !.published = With(@, release.destination, m)]
        /\ release' = [release EXCEPT !.pc = "copying"] /\ verdict' = NoVerdict
        /\ candidate' = candidate /\ device' = device
    BY <1>1, <2>1, Zenon DEF CopyStarts
  <2> QED BY <2>2, <2>3, PublishStep, Zenon
<1>2. CASE CopyEnds
  <2>1. /\ release.pc = "copying" /\ release.pc \in {"copy", "copying"} /\ "recheck" \in {"copying", "recheck"}
        /\ repo' = [repo EXCEPT !.published = With(@, release.destination, candidate)]
        /\ release' = [release EXCEPT !.pc = "recheck"] /\ verdict' = NoVerdict
        /\ candidate' = candidate /\ device' = device
    BY <1>2, Zenon DEF CopyEnds
  <2>2. Measured(candidate) BY <2>1 DEF Grounds, Manifests
  <2> QED BY <2>1, <2>2, PublishStep, Zenon
<1> QED BY <1>1, <1>2

(* The steps of the script that only move it and its candidate. *)
LEMMA MoveStep ==
  ASSUME Grounds, ReleaseStart \/ PreviewStart \/ Build \/ WriteManifest \/ HandEdit PROVE ReleaseInv'
<1>0. Scripted BY NowScripted
<1>1. repo' = repo /\ device' = device /\ verdict' = NoVerdict
  BY DEF ReleaseStart, PreviewStart, Build, WriteManifest, HandEdit
<1>2. ASSUME ReleaseStart PROVE Scripted'
  <2>1. ScriptRecord' /\ release'.pc = "build" /\ release'.destination = repo.version /\ candidate' = candidate
    BY <1>0, <1>2 DEF ReleaseStart, Scripted, ScriptRecord
  <2>2. repo.version # <<>> BY DEF Grounds, Versions
  <2> QED BY <1>0, <2>1, <2>2 DEF Scripted, Past, Measured
<1>3. ASSUME PreviewStart PROVE Scripted'
  <2>1. ScriptRecord' /\ release'.pc = "previewing" /\ candidate' = candidate
    BY <1>0, <1>3 DEF PreviewStart, Scripted, ScriptRecord
  <2> QED BY <1>0, <2>1 DEF Scripted, Past, Measured
<1>4. ASSUME Build PROVE Scripted'
  <2>1. /\ release.pc = "build" /\ ScriptRecord' /\ release'.pc = "qualify"
        /\ release'.destination = release.destination
    BY <1>0, <1>4 DEF Build, Scripted, ScriptRecord
  <2>2. candidate' = None \/ \E r : candidate' = Manifest(r) BY <1>4 DEF Build
  <2>3. candidate' = None \/ Measured(candidate') BY <2>2, ManifestMeasured
  <2> QED BY <1>0, <2>1, <2>3 DEF Scripted, Past, Measured
<1>5. ASSUME WriteManifest PROVE Scripted'
  <2>1. /\ release.pc = "write" /\ ScriptRecord' /\ release'.pc = "validate"
        /\ release'.destination = release.destination
    BY <1>0, <1>5 DEF WriteManifest, Scripted, ScriptRecord
  <2>2. (candidate' = candidate /\ candidate # None) \/ candidate' = Manifest(release)
    BY <1>5 DEF WriteManifest
  <2>3. Measured(candidate') BY <1>0, <2>2, ManifestMeasured DEF Scripted
  <2> QED BY <1>0, <2>1, <2>3 DEF Scripted, Past, Measured
<1>6. ASSUME HandEdit PROVE Scripted'
  <2>1. /\ release.pc = "validate" /\ ScriptRecord' /\ release'.pc = "validate"
        /\ release'.destination = release.destination
    BY <1>0, <1>6 DEF HandEdit, Scripted, ScriptRecord
  <2>2. PICK m \in Edited(candidate) \cup {candidate}, claimed \in BOOLEAN :
          candidate' = IF claimed THEN [m EXCEPT !.status = "qualified", !.compatibility = "qualified"] ELSE m
    BY <1>6 DEF HandEdit
  <2>3. Measured(candidate) BY <1>0, <2>1 DEF Scripted
  <2>4. Measured(m) BY <2>2, <2>3, EditMeasured
  <2>5. Measured(candidate') BY <2>2, <2>4, ClaimMeasured
  <2> QED BY <1>0, <2>1, <2>5 DEF Scripted, Past, Measured
<1>7. Scripted' BY <1>2, <1>3, <1>4, <1>5, <1>6
<1>8. Grounds' BY <1>1, <1>7, ScriptStep
<1> QED BY <1>1, <1>8, NoVerdictYet DEF ReleaseInv

(* The steps that validate: of a preview, of the candidate, of a tracked
   certificate. *)
LEMMA PreviewBuiltStep ==
  ASSUME Grounds, PreviewBuilt PROVE ReleaseInv'
<1>1. PICK m : m = Manifest(release) OBVIOUS
<1>2. PICK said : said = Said(m, "none", FALSE, FALSE) OBVIOUS
<1>3. /\ release.pc = "previewing" /\ Validated(m, said, <<>>) /\ release' = Ended /\ candidate' = None
      /\ repo' = repo /\ device' = device
  BY <1>1, <1>2 DEF PreviewBuilt
<1>4. m.mode = "preview" BY <1>1, <1>3 DEF Manifest
<1>5. ValidMeansQualified' BY <1>3, <1>4, VerdictStep
<1>6. Grounds' BY <1>3, EndedScripted, ScriptStep
<1> QED BY <1>5, <1>6 DEF ReleaseInv

LEMMA ValidateCandidateStep ==
  ASSUME Grounds, ValidateCandidate PROVE ReleaseInv'
<1>1. PICK said : said = Said(candidate, "none", TRUE, FALSE) OBVIOUS
<1>2. PICK tracked : tracked = <<>> OBVIOUS
<1>3. /\ release.pc = "validate" /\ Validated(candidate, said, tracked) /\ repo' = repo /\ device' = device
      /\ \/ release' = [release EXCEPT !.pc = "copy"] /\ candidate' = candidate
         \/ release' = Ended /\ candidate' = None
  BY <1>1, <1>2 DEF ValidateCandidate
<1>4. Measured(candidate) BY <1>3 DEF Grounds, Manifests
<1>5. tracked \notin DOMAIN repo.revoked BY <1>2 DEF Grounds, Versions
<1>6. ASSUME said = "valid", candidate.status = "qualified", candidate.mode = "release"
      PROVE  Qualified(candidate, tracked)
  BY <1>1, <1>4, <1>5, <1>6, ValidIsQualified
<1>7. ValidMeansQualified' BY <1>3, <1>6, VerdictStep
<1>8. Scripted BY NowScripted
<1>9. ASSUME release' = [release EXCEPT !.pc = "copy"], candidate' = candidate PROVE Scripted'
  <2>1. ScriptRecord' /\ release'.pc = "copy" /\ release'.destination = release.destination
    BY <1>8, <1>9 DEF Scripted, ScriptRecord
  <2> QED BY <1>3, <1>4, <1>8, <1>9, <2>1 DEF Scripted, Past, Measured
<1>10. Scripted' BY <1>3, <1>9, EndedScripted
<1>11. Grounds' BY <1>3, <1>10, ScriptStep
<1> QED BY <1>7, <1>11 DEF ReleaseInv

(* The validator on the record published under a version. *)
LEMMA TrackedVerdict ==
  ASSUME Grounds, NEW version \in DOMAIN repo.published, NEW requireQualified, NEW allowRevoked,
         NEW m, m = repo.published[version],
         NEW revocation, revocation = RevocationOf(version),
         NEW said, said = Said(m, revocation, requireQualified, allowRevoked),
         Validated(m, said, version), repo' = repo, device' = device
  PROVE  ValidMeansQualified'
<1>1. revocation = "none" => version \notin DOMAIN repo.revoked
  BY DEF RevocationOf, Grounds, Versions
<1>2. m.mode = "partial" \/ Measured(m) BY DEF Grounds, Manifests
<1>3. ASSUME said = "valid", m.status = "qualified", m.mode = "release"
      PROVE  Qualified(m, version)
  <2>1. Measured(m) BY <1>2, <1>3
  <2> QED BY <1>1, <1>3, <2>1, ValidIsQualified
<1> QED BY <1>3, VerdictStep

LEMMA ValidatePublishedStep ==
  ASSUME Grounds, ValidatePublished PROVE ReleaseInv'
<1>1. PICK version : version = release.destination OBVIOUS
<1>2. PICK m : m = repo.published[version] OBVIOUS
<1>3. PICK revocation : revocation = RevocationOf(version) OBVIOUS
<1>4. PICK said : said = Said(m, revocation, TRUE, FALSE) OBVIOUS
<1>5. /\ release.pc = "recheck" /\ Validated(m, said, version) /\ release' = Ended /\ candidate' = None
      /\ repo' = repo /\ device' = device
  BY <1>1, <1>2, <1>3, <1>4 DEF ValidatePublished
<1>6. version \in DOMAIN repo.published BY <1>1, <1>5 DEF Grounds, Versions
<1>7. ValidMeansQualified' BY <1>2, <1>3, <1>4, <1>5, <1>6, TrackedVerdict
<1>8. Grounds' BY <1>5, EndedScripted, ScriptStep
<1> QED BY <1>7, <1>8 DEF ReleaseInv

LEMMA CheckTrackedStep ==
  ASSUME Grounds, CheckTracked PROVE ReleaseInv'
<1>1. PICK version \in DOMAIN repo.published :
        LET m == repo.published[version]
        IN Validated(m, Said(m, RevocationOf(version), TRUE, TRUE), version)
  BY DEF CheckTracked
<1>2. PICK m : m = repo.published[version] OBVIOUS
<1>3. PICK revocation : revocation = RevocationOf(version) OBVIOUS
<1>4. PICK said : said = Said(m, revocation, TRUE, TRUE) OBVIOUS
<1>5. Validated(m, said, version) BY <1>1, <1>2, <1>3, <1>4
<1>6. repo' = repo /\ device' = device /\ release' = release /\ candidate' = candidate
  BY DEF CheckTracked
<1>7. ValidMeansQualified' BY <1>2, <1>3, <1>4, <1>5, <1>6, TrackedVerdict
<1>8. Scripted' BY <1>6, NowScripted DEF Scripted, ScriptRecord, Measured
<1>9. Grounds' BY <1>6, <1>8, ScriptStep
<1> QED BY <1>7, <1>9 DEF ReleaseInv

LEMMA ReleaseStep == ReleaseInv /\ [ReleaseNext]_releaseVars => ReleaseInv'
<1> SUFFICES ASSUME ReleaseInv, [ReleaseNext]_releaseVars PROVE ReleaseInv' OBVIOUS
<1>0. Grounds BY DEF ReleaseInv
<1>1. CASE DeviceRun BY <1>0, <1>1, DeviceRunStep
<1>2. CASE Commit BY <1>0, <1>2, CommitStep
<1>3. CASE Revoke BY <1>0, <1>3, RevokeStep
<1>4. CASE ReleaseStart \/ PreviewStart \/ Build \/ WriteManifest \/ HandEdit BY <1>0, <1>4, MoveStep
<1>5. CASE CheckTracked BY <1>0, <1>5, CheckTrackedStep
<1>6. CASE PreviewBuilt BY <1>0, <1>6, PreviewBuiltStep
<1>7. CASE BuildFails \/ QualifyFails \/ NoManifest \/ ReleaseKilled
  BY <1>0, <1>7, StopStep DEF BuildFails, QualifyFails, NoManifest, ReleaseKilled
<1>8. CASE Qualify BY <1>0, <1>8, QualifyStep
<1>9. CASE ValidateCandidate BY <1>0, <1>9, ValidateCandidateStep
<1>10. CASE CopyStarts \/ CopyEnds BY <1>0, <1>10, CopyStep
<1>11. CASE ValidatePublished BY <1>0, <1>11, ValidatePublishedStep
<1>12. CASE UNCHANGED releaseVars
  <2>1. repo' = repo /\ candidate' = candidate /\ release' = release /\ verdict' = verdict /\ device' = device
    BY <1>12 DEF releaseVars
  <2>2. Scripted' BY <1>0, <2>1, NowScripted DEF Scripted, ScriptRecord, Measured
  <2>3. Grounds' BY <1>0, <2>1, <2>2, ScriptStep
  <2>4. ValidMeansQualified' BY <2>1 DEF ReleaseInv, ValidMeansQualified, BoardsAgree
  <2> QED BY <2>3, <2>4 DEF ReleaseInv
<1> QED BY <1>1, <1>2, <1>3, <1>4, <1>5, <1>6, <1>7, <1>8, <1>9, <1>10, <1>11, <1>12 DEF ReleaseNext

(* When the validator says that a manifest is a valid qualified release, the
   boards agree with it, its Core is the locked and tagged one, its image fits
   the budgets and no revocation stands against it: for any checks, boards,
   budgets and pins, and any number of commits, runs and edits by hand. *)
THEOREM ValidMeansQualifiedHolds == ReleaseSpec => []ValidMeansQualified
<1>1. ReleaseInv => ValidMeansQualified BY DEF ReleaseInv
<1> QED BY <1>1, ReleaseStarts, ReleaseStep, PTL DEF ReleaseSpec

-----------------------------------------------------------------------------
(* Sequences put together from pieces.                                     *)

(* The elements of the concatenation of two sequences. *)
LEMMA ConcatElements ==
  ASSUME NEW S, NEW s \in Seq(S), NEW t \in Seq(S)
  PROVE  s \o t \in Seq(S) /\ ToSet(s \o t) = ToSet(s) \cup ToSet(t)
<1>1. /\ s \o t \in Seq(S) /\ Len(s \o t) = Len(s) + Len(t)
      /\ \A i \in 1 .. Len(s) + Len(t) : (s \o t)[i] = IF i <= Len(s) THEN s[i] ELSE t[i - Len(s)]
  BY ConcatProperties
<1>2. PICK u \in Seq(S) : u = s \o t BY <1>1
<1>3. Len(s) \in Nat /\ Len(t) \in Nat /\ DOMAIN s = 1 .. Len(s) /\ DOMAIN t = 1 .. Len(t)
      /\ DOMAIN u = 1 .. Len(s) + Len(t)
  BY <1>1, <1>2
<1>4. /\ \A i \in 1 .. Len(s) : i \in DOMAIN u /\ u[i] = s[i]
      /\ \A i \in 1 .. Len(t) : i + Len(s) \in DOMAIN u /\ u[i + Len(s)] = t[i]
  <2>1. ASSUME NEW i \in 1 .. Len(t) PROVE i + Len(s) \in DOMAIN u /\ u[i + Len(s)] = t[i]
    <3>1. i + Len(s) \in 1 .. Len(s) + Len(t) /\ ~(i + Len(s) <= Len(s)) /\ (i + Len(s)) - Len(s) = i
      BY <1>3
    <3> QED BY <1>1, <1>2, <1>3, <3>1
  <2> QED BY <1>1, <1>2, <1>3, <2>1
<1>5. \A i \in DOMAIN u : (i \in 1 .. Len(s) /\ u[i] = s[i]) \/ (i - Len(s) \in 1 .. Len(t) /\ u[i] = t[i - Len(s)])
  BY <1>1, <1>2, <1>3
<1>6. ToSet(u) = ToSet(s) \cup ToSet(t)
  <2>1. \A x : x \in ToSet(u) => x \in ToSet(s) \/ x \in ToSet(t) BY <1>3, <1>5 DEF ToSet
  <2>2. \A x : x \in ToSet(s) \/ x \in ToSet(t) => x \in ToSet(u) BY <1>3, <1>4 DEF ToSet
  <2> QED BY <2>1, <2>2
<1> QED BY <1>1, <1>2, <1>6

(* A nonempty set of positions has a largest one. *)
LEMMA LargestIn ==
  ASSUME NEW n \in Nat, NEW S, S \subseteq 1 .. n, S # {}
  PROVE  \E i \in S : \A j \in S : j <= i
<1> DEFINE D == {n - i : i \in S}
<1>1. D \subseteq Nat /\ D # {}
  <2>1. \A i \in S : i \in 1 .. n OBVIOUS
  <2>2. \A i \in 1 .. n : n - i \in Nat OBVIOUS
  <2>3. PICK i \in S : TRUE OBVIOUS
  <2>4. n - i \in D BY <2>3
  <2> QED BY <2>1, <2>2, <2>4
<1>2. PICK d \in D : \A e \in D : d <= e
  <2> HIDE DEF D
  <2> QED BY <1>1, LeastOf
<1>3. PICK i \in S : d = n - i BY <1>2
<1>4. \A j \in S : j <= i
  <2> TAKE j \in S
  <2>1. n - j \in D OBVIOUS
  <2>2. n - i <= n - j BY <1>2, <1>3, <2>1
  <2> QED BY <2>2
<1> QED BY <1>4

(* Taking the last element of a sequence. *)
LEMMA PopLast ==
  ASSUME NEW S, NEW todo \in Seq(S), todo # <<>>
  PROVE  /\ Last(todo) \in S /\ Last(todo) \in ToSet(todo)
         /\ Front(todo) \in Seq(S) /\ ToSet(todo) = ToSet(Front(todo)) \cup {Last(todo)}
         /\ DOMAIN Front(todo) \subseteq DOMAIN todo
         /\ \A i \in DOMAIN Front(todo) : Front(todo)[i] = todo[i] /\ i <= Len(todo)
         /\ Last(todo) = todo[Len(todo)] /\ Len(todo) \in DOMAIN todo
<1>2. /\ Len(todo) \in Nat \ {0} /\ DOMAIN todo = 1 .. Len(todo)
      /\ \A j \in 1 .. Len(todo) : todo[j] \in S
  OBVIOUS
<1>3. PICK n \in Nat \ {0} : n = Len(todo) BY <1>2
<1>4. PICK m \in Nat : m = n - 1 BY <1>3
<1>5. PICK q : q = SubSeq(todo, 1, m) OBVIOUS
<1>6. q \in Seq(S) /\ Len(q) = m /\ \A j \in 1 .. m : q[j] = todo[j]
  <2>1. \A j \in 1 .. m : todo[j] \in S BY <1>2, <1>3, <1>4
  <2>2. SubSeq(todo, 1, m) \in Seq(S) /\ (Len(SubSeq(todo, 1, m)) = IF 1 <= m THEN m - 1 + 1 ELSE 0)
        /\ \A j \in 1 .. m - 1 + 1 : SubSeq(todo, 1, m)[j] = todo[1 + j - 1]
    BY <2>1, SubSeqProperties
  <2> QED BY <1>4, <1>5, <2>2
<1>7. Front(todo) = q /\ Last(todo) = todo[n] BY <1>3, <1>4, <1>5 DEF Front, Last
<1>8. 1 .. n = (1 .. m) \cup {n} /\ DOMAIN q = 1 .. m /\ \A i \in 1 .. m : i <= n BY <1>3, <1>4, <1>6
<1>9. ToSet(todo) = ToSet(q) \cup {todo[n]} BY <1>2, <1>3, <1>6, <1>8 DEF ToSet
<1>10. DOMAIN q \subseteq DOMAIN todo /\ \A i \in DOMAIN q : q[i] = todo[i] /\ i <= n
  BY <1>2, <1>3, <1>6, <1>8
<1> QED BY <1>2, <1>3, <1>6, <1>7, <1>9, <1>10

(* Every sequence of sequences flattens: the function that joins piece after
   piece exists for each length, because it exists for the length before. *)
LEMMA FlattenExists ==
  ASSUME NEW seqs, NEW n \in Nat \ {0}, Len(seqs) = n
  PROVE  \E h : Flattens(h, seqs)
<1> DEFINE Joins(g, m) == g = [i \in 1 .. m |-> IF i = 1 THEN seqs[i] ELSE g[i - 1] \o seqs[i]]
           Exists(m) == \E g : Joins(g, m)
           Unjoined == {m \in Nat \ {0} : ~Exists(m)}
<1>1. ASSUME Unjoined # {} PROVE FALSE
  <2>0. Unjoined \subseteq Nat OBVIOUS
  <2>1. PICK m \in Unjoined : \A j \in Unjoined : m <= j
    <3> HIDE DEF Unjoined
    <3> QED BY <1>1, <2>0, LeastOf
  <2>2. CASE m = 1
    <3> DEFINE g == [i \in 1 .. 1 |-> seqs[i]]
    <3>1. Joins(g, 1) OBVIOUS
    <3> HIDE DEF g
    <3> QED BY <2>1, <2>2, <3>1
  <2>3. CASE m # 1
    <3>1. Exists(m - 1)
      <4> HIDE DEF Exists
      <4> QED BY <2>1, <2>3
    <3>2. PICK g : Joins(g, m - 1) BY <3>1
    <3> DEFINE h == [i \in 1 .. m |-> IF i = m THEN g[m - 1] \o seqs[m] ELSE g[i]]
    <3>3. \A i \in 1 .. m : h[i] = IF i = 1 THEN seqs[i] ELSE h[i - 1] \o seqs[i]
      <4> TAKE i \in 1 .. m
      <4>1. CASE i = m
        <5>1. i - 1 \in 1 .. m /\ i - 1 # m BY <4>1, <2>3
        <5> QED BY <4>1, <5>1, <2>3
      <4>2. CASE i # m
        <5>1. i \in 1 .. m - 1 /\ (i # 1 => i - 1 \in 1 .. m /\ i - 1 # m) BY <4>2
        <5>2. g[i] = IF i = 1 THEN seqs[i] ELSE g[i - 1] \o seqs[i] BY <3>2, <5>1
        <5> QED BY <4>2, <5>1, <5>2
      <4> QED BY <4>1, <4>2
    <3>4. h = [i \in 1 .. m |-> h[i]] OBVIOUS
    <3> HIDE DEF h
    <3>5. Joins(h, m) BY <3>3, <3>4, Zenon
    <3> QED BY <2>1, <3>5
  <2> QED BY <2>2, <2>3
<1>2. Exists(n)
  <2> HIDE DEF Exists
  <2> QED BY <1>1
<1>3. PICK h : Joins(h, n) BY <1>2
<1> QED BY <1>3 DEF Flattens

(* What is in a flattened sequence is what is in its pieces. *)
LEMMA FlattenElements ==
  ASSUME NEW S, NEW n \in Nat, NEW seqs \in [1 .. n -> Seq(S)]
  PROVE  /\ FlattenSeq(seqs) \in Seq(S)
         /\ ToSet(FlattenSeq(seqs)) = UNION {ToSet(seqs[i]) : i \in 1 .. n}
<1>1. Len(seqs) = n OBVIOUS
<1>2. CASE n = 0
  <2>1. FlattenSeq(seqs) = seqs BY <1>1, <1>2 DEF FlattenSeq
  <2>2. seqs = <<>> /\ 1 .. n = {} BY <1>2
  <2> QED BY <2>1, <2>2 DEF ToSet
<1>3. CASE n # 0
  <2>1. PICK h : Flattens(h, seqs) BY <1>1, <1>3, FlattenExists
  <2>2. PICK g : FlattenSeq(seqs) = g[n] /\ Flattens(g, seqs) BY <1>1, <1>3, <2>1, FlattenUnfolds
  <2>3. \A i \in 1 .. n : g[i] = IF i = 1 THEN seqs[i] ELSE g[i - 1] \o seqs[i]
    BY <1>1, <2>2 DEF Flattens
  <2> DEFINE Good(i) == g[i] \in Seq(S) /\ ToSet(g[i]) = UNION {ToSet(seqs[j]) : j \in 1 .. i}
             Wrong == {i \in 1 .. n : ~Good(i)}
  <2>4. ASSUME Wrong # {} PROVE FALSE
    <3>0. Wrong \subseteq Nat OBVIOUS
    <3>1. PICK i \in Wrong : \A j \in Wrong : i <= j
      <4> HIDE DEF Wrong
      <4> QED BY <2>4, <3>0, LeastOf
    <3>2. CASE i = 1
      <4>1. g[1] = seqs[1] /\ 1 .. 1 = {1} /\ seqs[1] \in Seq(S) BY <2>3, <3>1, <3>2
      <4>2. Good(1) BY <4>1
      <4> QED BY <3>1, <3>2, <4>2
    <3>3. CASE i # 1
      <4>1. i - 1 \in 1 .. n /\ ~(i <= i - 1) /\ 1 .. i = (1 .. i - 1) \cup {i} BY <3>1, <3>3
      <4>2. Good(i - 1) BY <3>1, <4>1
      <4>3. PICK a \in Seq(S) : a = g[i - 1] BY <4>2
      <4>4. PICK b \in Seq(S) : b = seqs[i] BY <3>1
      <4>5. g[i] = a \o b BY <2>3, <3>1, <3>3, <4>3, <4>4
      <4>6. g[i] \in Seq(S) /\ ToSet(g[i]) = ToSet(a) \cup ToSet(b) BY <4>5, ConcatElements
      <4>7. ToSet(a) = UNION {ToSet(seqs[j]) : j \in 1 .. i - 1} BY <4>2, <4>3
      <4>8. Good(i) BY <4>1, <4>4, <4>6, <4>7
      <4> QED BY <3>1, <4>8
    <3> QED BY <3>2, <3>3
  <2>5. n \in 1 .. n BY <1>3
  <2>6. Good(n) BY <2>4, <2>5
  <2> QED BY <2>2, <2>6
<1> QED BY <1>2, <1>3

-----------------------------------------------------------------------------
(* The stack walk of one function.                                         *)

(* What the walk has visited or is going to visit. *)
Explored == frame.seen \cup {<<w.pc, w.delta>> : w \in ToSet(frame.work)}

Items == [pc : Int, delta : Int, path : Seq([pc : Int, delta : Int])]
FrameType ==
  /\ frame \in [body : Bodies, link : BOOLEAN, work : Seq(Items), seen : SUBSET (Int \X Int), exits : Int,
                min : Int, issues : {frame.issues}, done : BOOLEAN]
  /\ exec \in [pc : Int, sp : Int, running : BOOLEAN, left : BOOLEAN]

(* An address visited at a depth: the walk could read its instruction, the
   depth after it is within the minimum, and it goes on to every successor at
   that depth. *)
Sound(pc, delta) ==
  LET i == IndexByPc(frame.body, pc)
      after == delta + frame.body[i].chg
  IN /\ ~frame.body[i].dyn /\ ~Flow(i).problem
     /\ frame.min <= after
     /\ Flow(i).exit => after = 0
     /\ \A k \in DOMAIN Flow(i).succ : <<Flow(i).succ[k], after>> \in Explored

Walked == frame.issues = {} => \A v \in frame.seen : Sound(v[1], v[2])

(* Everything on the path of a pending visit but the visit itself was seen. *)
Paths ==
  /\ \A v \in Explored : v[1] \in Starts(frame.body)
  /\ \A w \in ToSet(frame.work) : \A k \in DOMAIN w.path :
       <<w.path[k].pc, w.path[k].delta>> \in frame.seen \cup {<<w.pc, w.delta>>}

Rooted ==
  /\ <<frame.body[1].addr, 0>> \in Explored /\ frame.min <= 0
  /\ BodyIssues(frame.body, 1) \subseteq frame.issues
  /\ frame.done => frame.work = <<>>

TailTarget(pc) == \E i \in DOMAIN frame.body : frame.body[i].op = "tail" /\ pc = frame.body[i].target
(* The machine starts where the walk did and stays among what it has seen. *)
Executed ==
  /\ ~exec.running => exec.pc = 1 /\ exec.sp = 0 /\ ~exec.left
  /\ exec.running =>
       /\ frame.done /\ frame.issues = {} /\ frame.min <= exec.sp
       /\ exec.left => exec.sp = 0
       /\ ~exec.left => IF exec.pc \in Starts(frame.body) THEN <<exec.pc, exec.sp>> \in frame.seen
                        ELSE TailTarget(exec.pc)

FrameInv == FrameType /\ Walked /\ Paths /\ Rooted /\ Executed

(* A set of positions has a last one. *)
LEMMA MaxIn ==
  ASSUME NEW n \in Nat, NEW S, S \subseteq 1 .. n, S # {}
  PROVE  Max(S) \in S
<1>1. PICK i \in S : \A j \in S : j <= i BY LargestIn
<1>2. \E x \in S : \A y \in S : x >= y BY <1>1
<1> QED BY <1>2, Zenon DEF Max

LEMMA EarlierOnPath ==
  ASSUME NEW path \in Seq([pc : Int, delta : Int]), NEW pc, Earlier(path, pc) # {}
  PROVE  \E k \in DOMAIN path : path[k].pc = pc /\ Earlier(path, pc) = {path[k].delta}
<1> DEFINE met == {k \in DOMAIN path : path[k].pc = pc}
<1>1. met \subseteq 1 .. Len(path) /\ Len(path) \in Nat OBVIOUS
<1>2. met # {} BY DEF Earlier
<1>3. Earlier(path, pc) = {path[Max(met)].delta} BY <1>2 DEF Earlier
<1>4. Max(met) \in met
  <2> HIDE DEF met
  <2> QED BY <1>1, <1>2, MaxIn
<1> QED BY <1>3, <1>4

(* The instruction at an address of the body. *)
LEMMA InstructionAt ==
  ASSUME NEW body, body \in Seq(Instructions), NEW pc \in Starts(body), NEW i, i = IndexByPc(body, pc)
  PROVE  i \in DOMAIN body /\ body[i].addr = pc /\ body[i] \in Instructions
<1>1. \E j \in DOMAIN body : body[j].addr = pc BY DEF Starts
<1>2. i \in DOMAIN body /\ body[i].addr = pc BY <1>1, Zenon DEF IndexByPc
<1> QED BY <1>2

LEMMA BodyTyped ==
  ASSUME FrameType PROVE frame.body \in Seq(Instructions) /\ frame.body # <<>> /\ frame.work \in Seq(Items)
  BY FrameAssumption DEF FrameType

(* Where control may go: only to addresses of the body. *)
LEMMA SuccessorsInBody ==
  ASSUME NEW body \in Seq(Instructions), NEW i \in DOMAIN body
  PROVE  Successors(body, i).succ \in Seq(Starts(body))
<1> DEFINE ins == body[i]
           contiguous == i < Len(body) /\ body[i + 1].addr = ins.addr + 1
<1>1. contiguous => ins.addr + 1 \in Starts(body)
  <2>1. Len(body) \in Nat /\ DOMAIN body = 1 .. Len(body) /\ i \in 1 .. Len(body) OBVIOUS
  <2>2. i < Len(body) => i + 1 \in DOMAIN body BY <2>1
  <2> QED BY <2>2 DEF Starts
<1>2. Problem.succ = <<>> /\ Leaves.succ = <<>> /\ Nowhere.succ = <<>> BY DEF Problem, Leaves, Nowhere, Follows
<1>3. PICK succ : succ = Successors(body, i).succ OBVIOUS
<1>4. \/ succ = <<>>
      \/ \E a \in Starts(body) : succ = <<a>>
      \/ \E a, b \in Starts(body) : succ = <<a, b>>
  BY <1>1, <1>2, <1>3 DEF Successors, Follows, Leaves, Problem, Nowhere
<1>5. PICK S : S = Starts(body) OBVIOUS
<1>6. ASSUME NEW a \in S, NEW b \in S PROVE <<>> \in Seq(S) /\ <<a>> \in Seq(S) /\ <<a, b>> \in Seq(S)
  OBVIOUS
<1>7. succ \in Seq(S)
  <2>1. CASE succ = <<>> BY <2>1
  <2>2. ASSUME NEW a \in S, succ = <<a>> PROVE succ \in Seq(S) BY <2>2
  <2>3. ASSUME NEW a \in S, NEW b \in S, succ = <<a, b>> PROVE succ \in Seq(S) BY <2>3
  <2> QED BY <1>4, <1>5, <2>1, <2>2, <2>3
<1> QED BY <1>3, <1>5, <1>7

LEMMA FlowInBody ==
  ASSUME FrameType, NEW i \in DOMAIN frame.body
  PROVE  Flow(i).succ \in Seq(Starts(frame.body))
<1>1. Problem.succ \in Seq(Starts(frame.body)) BY DEF Problem
<1>2. Successors(frame.body, i).succ \in Seq(Starts(frame.body)) BY BodyTyped, SuccessorsInBody
<1> QED BY <1>1, <1>2 DEF Flow

(* Taking the last pending visit. *)
LEMMA PopWork ==
  ASSUME FrameType, frame.work # <<>>
  PROVE  /\ Work \in Items /\ Work \in ToSet(frame.work)
         /\ Popped \in Seq(Items) /\ ToSet(frame.work) = ToSet(Popped) \cup {Work}
<1>1. PICK S, s : S = Items /\ s = frame.work OBVIOUS
<1>2. s \in Seq(S) /\ s # <<>> BY <1>1, BodyTyped
<1>3. /\ Last(s) \in S /\ Last(s) \in ToSet(s)
      /\ Front(s) \in Seq(S) /\ ToSet(s) = ToSet(Front(s)) \cup {Last(s)}
  BY <1>2, PopLast
<1> QED BY <1>1, <1>3 DEF Work, Popped

(* The visit that is taken is at an instruction of the body. *)
LEMMA WorkTyped ==
  ASSUME FrameInv, frame.work # <<>>
  PROVE  /\ Work \in Items /\ Work.pc \in Starts(frame.body)
         /\ ItemIndex \in DOMAIN frame.body /\ frame.body[ItemIndex] \in Instructions
         /\ frame.body[ItemIndex].addr = Work.pc
         /\ Explored = {<<w.pc, w.delta>> : w \in ToSet(Popped)} \cup frame.seen \cup {Visited}
<1>1. Work \in Items /\ Work \in ToSet(frame.work) /\ ToSet(frame.work) = ToSet(Popped) \cup {Work}
  BY PopWork DEF FrameInv
<1>2. Visited \in Explored BY <1>1 DEF Visited, Explored
<1>3. Work.pc \in Starts(frame.body) BY <1>2 DEF FrameInv, Paths, Visited
<1>4. /\ ItemIndex \in DOMAIN frame.body /\ frame.body[ItemIndex].addr = Work.pc
      /\ frame.body[ItemIndex] \in Instructions
  BY <1>3, BodyTyped, InstructionAt DEF FrameInv, ItemIndex
<1>5. Explored = {<<w.pc, w.delta>> : w \in ToSet(Popped)} \cup frame.seen \cup {Visited}
  BY <1>1 DEF Explored, Visited
<1> QED BY <1>1, <1>3, <1>4, <1>5

(* A step of the walk keeps what the walk has shown: nothing explored is
   forgotten, the minimum only sinks and issues only grow. *)
Keeps ==
  /\ frame'.body = frame.body /\ frame'.link = frame.link
  /\ Explored \subseteq Explored' /\ frame'.min <= frame.min
  /\ frame.issues \subseteq frame'.issues

LEMMA SoundKept ==
  ASSUME FrameType, Keeps, FrameType', NEW pc \in Starts(frame.body), NEW delta \in Int, Sound(pc, delta)
  PROVE  Sound(pc, delta)'
<1> DEFINE i == IndexByPc(frame.body, pc)
<1>1. i \in DOMAIN frame.body /\ frame.body[i] \in Instructions BY BodyTyped, InstructionAt
<1>2. IndexByPc(frame.body, pc)' = i BY DEF IndexByPc, Keeps
<1>3. Flow(i)' = Flow(i) BY DEF Flow, Keeps
<1>4. frame.min \in Int /\ frame'.min \in Int /\ frame.body[i].chg \in Int BY <1>1 DEF FrameType, Instructions
<1>5. PICK after \in Int : after = delta + frame.body[i].chg BY <1>4
<1>6. /\ ~frame.body[i].dyn /\ ~Flow(i).problem /\ frame.min <= after
      /\ Flow(i).exit => after = 0
      /\ \A k \in DOMAIN Flow(i).succ : <<Flow(i).succ[k], after>> \in Explored
  BY <1>5 DEF Sound
<1>7. frame'.min <= after BY <1>4, <1>6 DEF Keeps
<1> HIDE DEF i
<1>8. (frame.body[i])' = frame.body[i] BY DEF Keeps, i
<1> QED BY <1>2, <1>3, <1>5, <1>6, <1>7 DEF Sound, Keeps, i

LEMMA FrameStarts == FrameInit => FrameInv
<1> SUFFICES ASSUME FrameInit PROVE FrameInv OBVIOUS
<1>1. PICK body \in Bodies, link \in BOOLEAN : FrameStart(body, link) BY DEF FrameInit
<1>2. body \in Seq(Instructions) /\ body # <<>> BY FrameAssumption
<1>3. 1 \in DOMAIN body /\ body[1] \in Instructions BY <1>2
<1>4. PICK a \in Int : a = body[1].addr BY <1>3 DEF Instructions
<1>5. PICK item : item = Visit(a, 0, <<[pc |-> a, delta |-> 0]>>) OBVIOUS
<1>6. item \in Items /\ item.pc = a /\ item.delta = 0 /\ item.path = <<[pc |-> a, delta |-> 0]>>
  BY <1>5 DEF Items, Visit
<1>7. /\ frame = [body |-> body, link |-> link, work |-> <<item>>, seen |-> {}, exits |-> 0, min |-> 0,
                  issues |-> BodyIssues(body, 1), done |-> FALSE]
      /\ exec = [pc |-> 1, sp |-> 0, running |-> FALSE, left |-> FALSE]
  BY <1>1, <1>4, <1>5 DEF FrameStart
<1>8. /\ frame.body = body /\ frame.work = <<item>> /\ frame.seen = {} /\ frame.min = 0 /\ ~frame.done
      /\ frame.issues = BodyIssues(body, 1)
  BY <1>7
<1>9. <<item>> \in Seq(Items) /\ ToSet(<<item>>) = {item} BY <1>6 DEF ToSet
<1>10. FrameType BY <1>7, <1>9 DEF FrameType
<1>11. Explored = {<<a, 0>>} BY <1>6, <1>8, <1>9 DEF Explored
<1>12. Walked BY <1>8 DEF Walked
<1>13. Paths
  <2>1. a \in Starts(body) BY <1>3, <1>4 DEF Starts
  <2>2. \A k \in DOMAIN item.path : <<item.path[k].pc, item.path[k].delta>> = <<a, 0>> BY <1>6
  <2> QED BY <1>6, <1>8, <1>9, <1>11, <2>1, <2>2 DEF Paths
<1>14. Rooted BY <1>4, <1>8, <1>11 DEF Rooted
<1>15. Executed BY <1>7 DEF Executed
<1> QED BY <1>10, <1>12, <1>13, <1>14, <1>15 DEF FrameInv

(* The machine has not started while the walk is working. *)
LEMMA Waiting ==
  ASSUME FrameInv, ~frame.done \/ frame.work # <<>>
  PROVE  ~exec.running /\ ~frame.done
  BY DEF FrameInv, Rooted, Executed

LEMMA ExecutedWaits ==
  ASSUME Executed, ~exec.running, exec' = exec PROVE Executed'
  BY DEF Executed

LEMMA FrameSkipStep ==
  ASSUME FrameInv, FrameSkip PROVE FrameInv'
<1>1. frame.work # <<>> /\ Visited \in frame.seen /\ frame' = [frame EXCEPT !.work = Popped] /\ exec' = exec
  BY DEF FrameSkip
<1>2. FrameType BY DEF FrameInv
<1>3. Popped \in Seq(Items) /\ ToSet(frame.work) = ToSet(Popped) \cup {Work} BY <1>1, <1>2, PopWork
<1>4. FrameType' BY <1>1, <1>2, <1>3 DEF FrameType
<1>5. /\ frame'.body = frame.body /\ frame'.link = frame.link /\ frame'.work = Popped
      /\ frame'.seen = frame.seen /\ frame'.min = frame.min /\ frame'.issues = frame.issues
      /\ frame'.done = frame.done
  BY <1>1, <1>2 DEF FrameType
<1>6. Explored' = Explored
  <2>1. Explored = {<<w.pc, w.delta>> : w \in ToSet(Popped)} \cup frame.seen \cup {Visited} BY <1>1, WorkTyped
  <2>2. Explored' = frame.seen \cup {<<w.pc, w.delta>> : w \in ToSet(Popped)} BY <1>5 DEF Explored
  <2> QED BY <1>1, <2>1, <2>2
<1>7. Keeps BY <1>5, <1>6, <1>2 DEF Keeps, FrameType
<1>8. Walked'
  <2> SUFFICES ASSUME frame'.issues = {}, NEW v \in frame'.seen PROVE Sound(v[1], v[2])'
    BY DEF Walked
  <2>1. v \in frame.seen /\ v \in Int \X Int /\ v \in Explored BY <1>2, <1>5 DEF FrameType, Explored
  <2>2. v[1] \in Starts(frame.body) BY <2>1 DEF FrameInv, Paths
  <2>3. Sound(v[1], v[2]) BY <2>1, <1>5 DEF FrameInv, Walked
  <2> QED BY <1>2, <1>4, <1>7, <2>1, <2>2, <2>3, SoundKept
<1>9. Paths' BY <1>3, <1>5, <1>6 DEF FrameInv, Paths
<1>10. Rooted' BY <1>1, <1>5, <1>6, Waiting DEF FrameInv, Rooted
<1>11. Executed' BY <1>1, Waiting, ExecutedWaits DEF FrameInv
<1> QED BY <1>4, <1>8, <1>9, <1>10, <1>11 DEF FrameInv

LEMMA FrameUnreadableStep ==
  ASSUME FrameInv, FrameUnreadable PROVE FrameInv'
<1>0. PICK more : more = LinkIssues(frame.body[ItemIndex]) \cup {"dynamic sp"} OBVIOUS
<1>1. /\ frame.work # <<>> /\ exec' = exec
      /\ frame' = [frame EXCEPT !.work = Popped, !.seen = @ \cup {Visited}, !.issues = @ \cup more]
  BY <1>0 DEF FrameUnreadable
<1>2. FrameType BY DEF FrameInv
<1>3. Popped \in Seq(Items) /\ ToSet(frame.work) = ToSet(Popped) \cup {Work} BY <1>1, <1>2, PopWork
<1>4. Work \in Items BY <1>1, WorkTyped
<1>5. Visited \in Int \X Int BY <1>4 DEF Visited, Items
<1>6. FrameType' BY <1>1, <1>2, <1>3, <1>5 DEF FrameType
<1>7. /\ frame'.body = frame.body /\ frame'.link = frame.link /\ frame'.work = Popped
      /\ frame'.seen = frame.seen \cup {Visited} /\ frame'.min = frame.min
      /\ frame'.issues = frame.issues \cup more
      /\ frame'.done = frame.done
  BY <1>1, <1>2 DEF FrameType
<1>8. Explored' = Explored
  <2>1. Explored = {<<w.pc, w.delta>> : w \in ToSet(Popped)} \cup frame.seen \cup {Visited} BY <1>1, WorkTyped
  <2>2. Explored' = (frame.seen \cup {Visited}) \cup {<<w.pc, w.delta>> : w \in ToSet(Popped)} BY <1>7 DEF Explored
  <2> QED BY <2>1, <2>2
<1>9. Walked' BY <1>0, <1>7 DEF Walked
<1>10. Paths' BY <1>3, <1>7, <1>8 DEF FrameInv, Paths
<1>11. Rooted' BY <1>1, <1>7, <1>8, Waiting DEF FrameInv, Rooted
<1>12. Executed' BY <1>1, Waiting, ExecutedWaits DEF FrameInv
<1> QED BY <1>6, <1>9, <1>10, <1>11, <1>12 DEF FrameInv

(* What one visit pushes: a visit of every successor its path has not met. *)
PushOf(path, pc, after) ==
  IF Earlier(path, pc) # {} THEN <<>>
  ELSE <<Visit(pc, after, Append(path, [pc |-> pc, delta |-> after]))>>

LEMMA VisitTyped ==
  ASSUME NEW path \in Seq([pc : Int, delta : Int]), NEW pc \in Int, NEW after \in Int,
         NEW x, x = Visit(pc, after, Append(path, [pc |-> pc, delta |-> after]))
  PROVE  /\ x \in Items /\ x.pc = pc /\ x.delta = after
         /\ \A k \in DOMAIN x.path :
              \/ x.path[k].pc = pc /\ x.path[k].delta = after
              \/ \E j \in DOMAIN path : x.path[k] = path[j]
<1>1. PICK e \in [pc : Int, delta : Int] : e = [pc |-> pc, delta |-> after] OBVIOUS
<1>2. /\ Append(path, e) \in Seq([pc : Int, delta : Int]) /\ Len(Append(path, e)) = Len(path) + 1
      /\ \A k \in 1 .. Len(path) : Append(path, e)[k] = path[k]
      /\ Append(path, e)[Len(path) + 1] = e
  BY AppendProperties
<1>3. PICK p \in Seq([pc : Int, delta : Int]) : p = Append(path, e) BY <1>2
<1>4. x = [pc |-> pc, delta |-> after, path |-> p] BY <1>1, <1>3 DEF Visit
<1>5. x \in Items BY <1>4 DEF Items
<1>6. DOMAIN p = 1 .. Len(path) + 1 /\ DOMAIN path = 1 .. Len(path) /\ Len(path) \in Nat BY <1>2, <1>3
<1>7. \A k \in DOMAIN p : p[k] = e \/ \E j \in DOMAIN path : p[k] = path[j]
  <2> TAKE k \in DOMAIN p
  <2>1. CASE k = Len(path) + 1 BY <1>2, <1>3, <2>1
  <2>2. CASE k # Len(path) + 1
    <3>1. k \in 1 .. Len(path) BY <1>6, <2>2
    <3> QED BY <1>2, <1>3, <1>6, <3>1
  <2> QED BY <2>1, <2>2
<1>8. e.pc = pc /\ e.delta = after BY <1>1
<1>9. x.pc = pc /\ x.delta = after /\ x.path = p BY <1>4
<1>10. \A k \in DOMAIN p : \/ p[k].pc = pc /\ p[k].delta = after
                          \/ \E j \in DOMAIN path : p[k] = path[j]
  <2> TAKE k \in DOMAIN p
  <2>1. CASE p[k] = e BY <1>8, <2>1, Zenon
  <2>2. CASE \E j \in DOMAIN path : p[k] = path[j] BY <2>2
  <2> QED BY <1>7, <2>1, <2>2, Zenon
<1> QED BY <1>5, <1>9, <1>10, Zenon

(* The pushed visits: at a successor and the depth after the instruction,
   along the path that led there, one at least for every successor not met. *)
Pushed(new, path, succ, after) ==
  /\ \A x \in ToSet(new) :
       /\ \E k \in DOMAIN succ : x.pc = succ[k] /\ x.delta = after
       /\ \A k \in DOMAIN x.path :
            \/ x.path[k].pc = x.pc /\ x.path[k].delta = x.delta
            \/ \E j \in DOMAIN path : x.path[k] = path[j]
  /\ \A k \in DOMAIN succ : Earlier(path, succ[k]) = {} =>
       \E x \in ToSet(new) : x.pc = succ[k] /\ x.delta = after

LEMMA PushesTyped ==
  ASSUME NEW path \in Seq([pc : Int, delta : Int]), NEW after \in Int, NEW n \in Nat,
         NEW succ \in [1 .. n -> Int], NEW seqs, seqs = [k \in 1 .. n |-> PushOf(path, succ[k], after)],
         NEW new, new = FlattenSeq(seqs)
  PROVE  /\ new \in Seq(Items)
         /\ Pushed(new, path, succ, after)
<1> DEFINE visit(pc) == Visit(pc, after, Append(path, [pc |-> pc, delta |-> after]))
<1>1. \A k \in 1 .. n : seqs[k] = IF Earlier(path, succ[k]) # {} THEN <<>> ELSE <<visit(succ[k])>>
  BY DEF PushOf
<1>2. ASSUME NEW k \in 1 .. n
      PROVE  /\ visit(succ[k]) \in Items /\ visit(succ[k]).pc = succ[k] /\ visit(succ[k]).delta = after
             /\ \A m \in DOMAIN visit(succ[k]).path :
                  \/ visit(succ[k]).path[m].pc = succ[k] /\ visit(succ[k]).path[m].delta = after
                  \/ \E j \in DOMAIN path : visit(succ[k]).path[m] = path[j]
  <2>1. PICK pc \in Int : pc = succ[k] OBVIOUS
  <2>2. PICK x : x = visit(pc) OBVIOUS
  <2>3. /\ x \in Items /\ x.pc = pc /\ x.delta = after
        /\ \A m \in DOMAIN x.path :
              \/ x.path[m].pc = pc /\ x.path[m].delta = after
              \/ \E j \in DOMAIN path : x.path[m] = path[j]
    BY <2>2, VisitTyped
  <2> HIDE DEF visit
  <2> QED BY <2>1, <2>2, <2>3
<1> HIDE DEF visit
<1>3. ASSUME NEW x \in Items PROVE <<x>> \in Seq(Items) /\ ToSet(<<x>>) = {x} BY DEF ToSet
<1>4. ToSet(<<>>) = {} /\ <<>> \in Seq(Items) BY DEF ToSet
<1>5. ASSUME NEW k \in 1 .. n
      PROVE  /\ seqs[k] \in Seq(Items)
             /\ ToSet(seqs[k]) = IF Earlier(path, succ[k]) # {} THEN {} ELSE {visit(succ[k])}
  <2>1. PICK y \in Items : y = visit(succ[k]) BY <1>2
  <2>2. CASE Earlier(path, succ[k]) # {}
    <3>1. seqs[k] = <<>> BY <1>1, <2>2
    <3> QED BY <1>4, <2>2, <3>1
  <2>3. CASE Earlier(path, succ[k]) = {}
    <3>1. seqs[k] = <<y>> BY <1>1, <2>1, <2>3
    <3> QED BY <1>3, <2>1, <2>3, <3>1
  <2> QED BY <2>2, <2>3
<1>6. seqs \in [1 .. n -> Seq(Items)]
  <2>1. seqs = [k \in 1 .. n |-> seqs[k]] OBVIOUS
  <2> QED BY <1>5, <2>1
<1>7. new \in Seq(Items) /\ ToSet(new) = UNION {ToSet(seqs[k]) : k \in 1 .. n}
  <2>1. PICK S : S = Items OBVIOUS
  <2>2. PICK q \in [1 .. n -> Seq(S)] : q = seqs BY <1>6, <2>1
  <2>3. FlattenSeq(q) \in Seq(S) /\ ToSet(FlattenSeq(q)) = UNION {ToSet(q[k]) : k \in 1 .. n}
    BY FlattenElements
  <2> QED BY <2>1, <2>2, <2>3
<1>8. \A x \in ToSet(new) : \E k \in 1 .. n : x = visit(succ[k])
  <2> TAKE x \in ToSet(new)
  <2>1. PICK k \in 1 .. n : x \in ToSet(seqs[k]) BY <1>7
  <2> QED BY <1>5, <2>1
<1>9. \A k \in 1 .. n : Earlier(path, succ[k]) = {} => visit(succ[k]) \in ToSet(new) BY <1>5, <1>7
<1>10. ASSUME NEW x \in ToSet(new)
       PROVE  /\ \E k \in 1 .. n : x.pc = succ[k] /\ x.delta = after
              /\ \A k \in DOMAIN x.path :
                   \/ x.path[k].pc = x.pc /\ x.path[k].delta = x.delta
                   \/ \E j \in DOMAIN path : x.path[k] = path[j]
  <2>1. PICK k \in 1 .. n : x = visit(succ[k]) BY <1>8
  <2> QED BY <1>2, <2>1
<1>11. DOMAIN succ = 1 .. n OBVIOUS
<1>12. \A k \in DOMAIN succ : Earlier(path, succ[k]) = {} =>
         \E x \in ToSet(new) : x.pc = succ[k] /\ x.delta = after
  BY <1>2, <1>9, <1>11
<1> QED BY <1>7, <1>10, <1>11, <1>12 DEF Pushed

LEMMA StartsTyped ==
  ASSUME FrameType, NEW pc \in Starts(frame.body) PROVE pc \in Int
<1>1. PICK body : body = frame.body /\ body \in Seq(Instructions) BY BodyTyped
<1>2. PICK i \in DOMAIN body : pc = body[i].addr BY <1>1 DEF Starts
<1>3. body[i] \in Instructions BY <1>1, <1>2
<1> QED BY <1>2, <1>3 DEF Instructions

LEMMA FrameFollowStep ==
  ASSUME FrameInv, FrameFollow PROVE FrameInv'
<1>0. FrameType /\ frame.work # <<>> /\ exec' = exec BY DEF FrameInv, FrameFollow
<1>a. PICK i : i = ItemIndex OBVIOUS
<1>b. PICK ins : ins = frame.body[i] OBVIOUS
<1>c. PICK flow : flow = Flow(i) OBVIOUS
<1>d. PICK pc, delta, path : pc = Work.pc /\ delta = Work.delta /\ path = Work.path OBVIOUS
<1>e. Visited = <<pc, delta>> BY <1>d DEF Visited
<1>f. PICK rest : rest = Popped OBVIOUS
<1>1. /\ Work \in Items /\ pc \in Starts(frame.body) /\ i \in DOMAIN frame.body /\ ins \in Instructions
      /\ Explored = {<<w.pc, w.delta>> : w \in ToSet(rest)} \cup frame.seen \cup {<<pc, delta>>}
  BY <1>0, <1>a, <1>b, <1>d, <1>e, <1>f, WorkTyped
<1>2. PICK change \in StackStep(frame.body[ItemIndex]) :
        LET at == frame.body[ItemIndex]
            next == Work.delta + change
            to == Flow(ItemIndex)
            push(p) ==
              IF Earlier(Work.path, p) # {} THEN <<>>
              ELSE <<Visit(p, next, Append(Work.path, [pc |-> p, delta |-> next]))>>
            cycle == \E k \in DOMAIN to.succ :
                       \E old \in Earlier(Work.path, to.succ[k]) : old # next
        IN frame' = [frame EXCEPT
             !.work = Popped \o FlattenSeq([k \in DOMAIN to.succ |-> push(to.succ[k])]),
             !.seen = @ \cup {Visited},
             !.exits = @ + (IF to.exit THEN 1 ELSE 0),
             !.min = IF next < @ THEN next ELSE @,
             !.issues = @ \cup LinkIssues(at)
                  \cup (IF to.problem THEN {"problem"} ELSE {})
                  \cup (IF to.exit /\ next # 0 THEN {"unbalanced return"} ELSE {})
                  \cup (IF cycle THEN {"stack-changing cycle"} ELSE {})]
  BY Zenon DEF FrameFollow
<1>3. ~ins.dyn /\ change = ins.chg /\ ins.chg \in Int BY <1>1, <1>2, <1>a, <1>b DEF StackStep, Instructions
<1>4. delta \in Int /\ path \in Seq([pc : Int, delta : Int]) /\ pc \in Int BY <1>1, <1>d DEF Items
<1>5. PICK after \in Int : after = delta + ins.chg BY <1>3, <1>4
<1>6. PICK succ \in Seq(Starts(frame.body)) : succ = flow.succ BY <1>0, <1>1, <1>c, FlowInBody
<1>7. PICK n \in Nat : n = Len(succ) /\ DOMAIN succ = 1 .. n BY <1>6
<1>8. PICK seqs : seqs = [k \in 1 .. n |-> PushOf(path, succ[k], after)] OBVIOUS
<1>9. PICK more : more = LinkIssues(ins) \cup (IF flow.problem THEN {"problem"} ELSE {})
                  \cup (IF flow.exit /\ after # 0 THEN {"unbalanced return"} ELSE {})
                  \cup (IF \E k \in 1 .. n : \E old \in Earlier(path, succ[k]) : old # after
                        THEN {"stack-changing cycle"} ELSE {})
  OBVIOUS
<1>10. frame' = [frame EXCEPT !.work = rest \o FlattenSeq(seqs), !.seen = @ \cup {<<pc, delta>>},
                              !.exits = @ + (IF flow.exit THEN 1 ELSE 0),
                              !.min = IF after < @ THEN after ELSE @, !.issues = @ \cup more]
  <2> DEFINE push(p) == IF Earlier(Work.path, p) # {} THEN <<>>
                        ELSE <<Visit(p, after, Append(Work.path, [pc |-> p, delta |-> after]))>>
             pushes == [k \in DOMAIN Flow(ItemIndex).succ |-> push(Flow(ItemIndex).succ[k])]
             cycle == \E k \in DOMAIN Flow(ItemIndex).succ :
                        \E old \in Earlier(Work.path, Flow(ItemIndex).succ[k]) : old # after
             found == LinkIssues(frame.body[ItemIndex])
                        \cup (IF Flow(ItemIndex).problem THEN {"problem"} ELSE {})
                        \cup (IF Flow(ItemIndex).exit /\ after # 0 THEN {"unbalanced return"} ELSE {})
                        \cup (IF cycle THEN {"stack-changing cycle"} ELSE {})
  <2>1. pushes = seqs BY <1>6, <1>7, <1>8, <1>a, <1>c, <1>d DEF PushOf
  <2>2. more = found BY <1>6, <1>7, <1>9, <1>a, <1>b, <1>c, <1>d
  <2>3. after = Work.delta + change BY <1>3, <1>5, <1>d
  <2>4. frame' = [frame EXCEPT !.work = Popped \o FlattenSeq(pushes), !.seen = @ \cup {Visited},
                              !.exits = @ + (IF Flow(ItemIndex).exit THEN 1 ELSE 0),
                              !.min = IF after < @ THEN after ELSE @,
                              !.issues = @ \cup LinkIssues(frame.body[ItemIndex])
                                 \cup (IF Flow(ItemIndex).problem THEN {"problem"} ELSE {})
                                 \cup (IF Flow(ItemIndex).exit /\ after # 0 THEN {"unbalanced return"} ELSE {})
                                 \cup (IF cycle THEN {"stack-changing cycle"} ELSE {})]
    BY <1>2, <2>3, Zenon
  <2>5. frame' = [frame EXCEPT !.work = Popped \o FlattenSeq(pushes), !.seen = @ \cup {Visited},
                              !.exits = @ + (IF Flow(ItemIndex).exit THEN 1 ELSE 0),
                              !.min = IF after < @ THEN after ELSE @, !.issues = @ \cup found]
    BY <2>4
  <2> HIDE DEF pushes, found
  <2> QED BY <2>1, <2>2, <2>5, <1>a, <1>c, <1>e, <1>f
<1>11. \A k \in 1 .. n : succ[k] \in Starts(frame.body) /\ succ[k] \in Int
  <2>1. \A k \in 1 .. n : succ[k] \in Starts(frame.body) BY <1>6, <1>7
  <2> QED BY <1>0, <2>1, StartsTyped
<1>12. succ \in [1 .. n -> Int]
  <2>1. succ = [k \in 1 .. n |-> succ[k]] BY <1>6, <1>7
  <2> QED BY <1>11, <2>1
<1>13. PICK new : new = FlattenSeq(seqs) OBVIOUS
<1>14. new \in Seq(Items) /\ Pushed(new, path, succ, after)
  BY <1>4, <1>8, <1>12, <1>13, PushesTyped
<1>15. rest \in Seq(Items) /\ ToSet(frame.work) = ToSet(rest) \cup {Work} /\ Work \in ToSet(frame.work)
  BY <1>0, <1>f, PopWork
<1>16. PICK work \in Seq(Items) : work = rest \o new /\ ToSet(work) = ToSet(rest) \cup ToSet(new)
  <2>1. PICK s \in Seq(Items), t \in Seq(Items) : s = rest /\ t = new BY <1>14, <1>15
  <2>2. s \o t \in Seq(Items) /\ ToSet(s \o t) = ToSet(s) \cup ToSet(t) BY ConcatElements
  <2> QED BY <2>1, <2>2, Zenon
<1>17. PICK exits \in Int, min \in Int :
         /\ exits = frame.exits + (IF flow.exit THEN 1 ELSE 0)
         /\ min = (IF after < frame.min THEN after ELSE frame.min)
  BY <1>0, <1>5 DEF FrameType
<1>18. frame' = [frame EXCEPT !.work = work, !.seen = @ \cup {<<pc, delta>>}, !.exits = exits,
                              !.min = min, !.issues = @ \cup more]
  BY <1>0, <1>10, <1>13, <1>16, <1>17 DEF FrameType
<1>19. FrameType'
  <2>1. <<pc, delta>> \in Int \X Int BY <1>4
  <2> QED BY <1>0, <1>16, <1>17, <1>18, <2>1 DEF FrameType
<1>20. /\ frame'.body = frame.body /\ frame'.link = frame.link /\ frame'.work = work
       /\ frame'.seen = frame.seen \cup {<<pc, delta>>} /\ frame'.min = min
       /\ frame'.issues = frame.issues \cup more
       /\ frame'.done = frame.done
  BY <1>0, <1>18 DEF FrameType
<1>21. min <= frame.min /\ min <= after BY <1>0, <1>5, <1>17 DEF FrameType
<1>22. Explored' = Explored \cup {<<w.pc, w.delta>> : w \in ToSet(new)}
  <2>1. Explored' = (frame.seen \cup {<<pc, delta>>}) \cup {<<w.pc, w.delta>> : w \in ToSet(rest) \cup ToSet(new)}
    BY <1>16, <1>20 DEF Explored
  <2> QED BY <1>1, <2>1
<1>23. Keeps BY <1>20, <1>21, <1>22 DEF Keeps
<1>24. \A k \in DOMAIN path : <<path[k].pc, path[k].delta>> \in frame'.seen
  <2>1. \A k \in DOMAIN Work.path : <<Work.path[k].pc, Work.path[k].delta>> \in frame.seen \cup {<<Work.pc, Work.delta>>}
    BY <1>15 DEF FrameInv, Paths
  <2> QED BY <1>d, <1>20, <2>1
<1>25. Walked'
  <2> SUFFICES ASSUME frame'.issues = {}, NEW v \in frame'.seen PROVE Sound(v[1], v[2])'
    BY DEF Walked
  <2>1. CASE v \in frame.seen
    <3>1. v \in Int \X Int /\ v \in Explored BY <1>0, <2>1 DEF FrameType, Explored
    <3>2. v[1] \in Starts(frame.body) BY <3>1 DEF FrameInv, Paths
    <3>3. Sound(v[1], v[2]) BY <2>1, <1>20 DEF FrameInv, Walked
    <3> QED BY <1>0, <1>19, <1>23, <3>1, <3>2, <3>3, SoundKept
  <2>2. CASE v = <<pc, delta>>
    <3>1. v[1] = pc /\ v[2] = delta BY <2>2
    <3>2. more = {} BY <1>20
    <3>3. ~flow.problem /\ (flow.exit => after = 0) BY <1>9, <3>2
    <3>4. \A k \in 1 .. n : \A old \in Earlier(path, succ[k]) : old = after BY <1>9, <3>2
    <3>5. ASSUME NEW k \in 1 .. n PROVE <<succ[k], after>> \in Explored'
      <4>1. CASE Earlier(path, succ[k]) = {}
        <5>1. PICK x \in ToSet(new) : x.pc = succ[k] /\ x.delta = after BY <1>7, <1>14, <4>1 DEF Pushed
        <5> QED BY <1>22, <5>1
      <4>2. CASE Earlier(path, succ[k]) # {}
        <5>1. PICK j \in DOMAIN path :
                path[j].pc = succ[k] /\ Earlier(path, succ[k]) = {path[j].delta}
          BY <1>4, <4>2, EarlierOnPath
        <5>2. path[j].delta = after BY <3>4, <5>1
        <5>3. <<succ[k], after>> \in frame'.seen BY <1>24, <5>1, <5>2
        <5> QED BY <5>3 DEF Explored
      <4> QED BY <4>1, <4>2
    <3>6. IndexByPc(frame.body, pc) = i BY <1>a, <1>d DEF ItemIndex
    <3>7. IndexByPc(frame'.body, pc) = i /\ Flow(i)' = flow /\ frame'.body[i] = ins
      BY <1>20, <1>b, <1>c, <3>6 DEF Flow
    <3>8. Sound(pc, delta)'
      BY <1>3, <1>5, <1>6, <1>7, <1>20, <1>21, <3>3, <3>5, <3>7 DEF Sound
    <3> QED BY <3>1, <3>8
  <2> QED BY <1>20, <2>1, <2>2
<1>26. Paths'
  <2>1. \A v \in Explored' : v[1] \in Starts(frame'.body)
    <3>1. \A w \in ToSet(new) : <<w.pc, w.delta>>[1] \in Starts(frame.body) BY <1>7, <1>11, <1>14 DEF Pushed
    <3> QED BY <1>20, <1>22, <3>1 DEF FrameInv, Paths
  <2>2. ASSUME NEW w \in ToSet(work), NEW k \in DOMAIN w.path
        PROVE  <<w.path[k].pc, w.path[k].delta>> \in frame'.seen \cup {<<w.pc, w.delta>>}
    <3>1. CASE w \in ToSet(rest) BY <1>15, <1>20, <3>1 DEF FrameInv, Paths
    <3>2. CASE w \in ToSet(new) BY <1>14, <1>24, <3>2 DEF Pushed
    <3> QED BY <1>16, <3>1, <3>2
  <2> QED BY <1>20, <2>1, <2>2 DEF Paths
<1>27. Rooted'
  <2>1. frame.min <= 0 /\ ~frame.done /\ frame.min \in Int BY <1>0, Waiting DEF FrameInv, Rooted, FrameType
  <2>2. min <= 0 BY <1>17, <1>21, <2>1
  <2> QED BY <1>20, <1>22, <2>1, <2>2 DEF FrameInv, Rooted
<1>28. Executed' BY <1>0, Waiting, ExecutedWaits DEF FrameInv
<1> QED BY <1>19, <1>25, <1>26, <1>27, <1>28 DEF FrameInv

(* The walk is over: what it explored is what it has seen, the machine may
   start where the walk did. *)
LEMMA FrameReportStep ==
  ASSUME FrameInv, FrameReport PROVE FrameInv'
<1>0. FrameType /\ ~exec.running /\ frame.work = <<>> /\ exec.pc = 1 /\ exec.sp = 0 /\ ~exec.left
  BY Waiting DEF FrameInv, FrameReport, Executed
<1>1. PICK more : more = IF frame.exits = 0 THEN {"no return path"} ELSE {} OBVIOUS
<1>2. /\ frame' = [frame EXCEPT !.done = TRUE, !.issues = @ \cup more]
      /\ exec' = [exec EXCEPT !.running = frame'.issues = {}]
  BY <1>1 DEF FrameReport
<1>3. /\ frame'.body = frame.body /\ frame'.link = frame.link /\ frame'.work = <<>>
      /\ frame'.seen = frame.seen /\ frame'.min = frame.min
      /\ frame'.issues = frame.issues \cup more /\ frame'.done
  BY <1>0, <1>2 DEF FrameType
<1>4. /\ exec'.pc = 1 /\ exec'.sp = 0 /\ ~exec'.left /\ exec'.running = (frame'.issues = {})
  BY <1>0, <1>2 DEF FrameType
<1>5. FrameType'
  <2>1. (frame'.issues = {}) \in BOOLEAN OBVIOUS
  <2>2. PICK r \in BOOLEAN : r = (frame'.issues = {}) BY <2>1
  <2>3. exec' = [exec EXCEPT !.running = r] BY <1>2, <2>2
  <2>4. exec' \in [pc : Int, sp : Int, running : BOOLEAN, left : BOOLEAN] BY <1>0, <2>3 DEF FrameType
  <2>5. frame' \in [body : Bodies, link : BOOLEAN, work : Seq(Items), seen : SUBSET (Int \X Int), exits : Int,
                    min : Int, issues : {frame'.issues}, done : BOOLEAN]
    BY <1>0, <1>2 DEF FrameType
  <2> QED BY <2>4, <2>5 DEF FrameType
<1>6. Explored' = Explored /\ Explored = frame.seen
  <2>1. ToSet(<<>>) = {} BY DEF ToSet
  <2> QED BY <1>0, <1>3, <2>1 DEF Explored
<1>7. frame.min \in Int BY <1>0 DEF FrameType
<1>8. Keeps BY <1>3, <1>6, <1>7 DEF Keeps
<1>9. Walked'
  <2> SUFFICES ASSUME frame'.issues = {}, NEW v \in frame'.seen PROVE Sound(v[1], v[2])'
    BY DEF Walked
  <2>1. v \in frame.seen /\ v \in Int \X Int /\ v \in Explored BY <1>0, <1>3 DEF FrameType, Explored
  <2>2. v[1] \in Starts(frame.body) BY <2>1 DEF FrameInv, Paths
  <2>3. Sound(v[1], v[2]) BY <2>1, <1>3 DEF FrameInv, Walked
  <2> QED BY <1>0, <1>5, <1>8, <2>1, <2>2, <2>3, SoundKept
<1>10. Paths' BY <1>0, <1>3, <1>6 DEF FrameInv, Paths
<1>11. Rooted' BY <1>3, <1>6 DEF FrameInv, Rooted
<1>12. ASSUME exec'.running PROVE frame'.issues = {} /\ <<1, 0>> \in frame'.seen /\ frame'.min <= 0
  <2>1. frame'.issues = {} BY <1>4, <1>12
  <2>2. BodyIssues(frame.body, 1) = {} BY <1>3, <2>1 DEF FrameInv, Rooted
  <2>3. frame.body[1].addr = 1 BY <2>2 DEF BodyIssues
  <2> QED BY <1>3, <1>6, <2>1, <2>3 DEF FrameInv, Rooted
<1>13. Executed'
  <2>1. ~exec'.running => exec'.pc = 1 /\ exec'.sp = 0 /\ ~exec'.left BY <1>4
  <2>2. ASSUME exec'.running
        PROVE  /\ frame'.done /\ frame'.issues = {} /\ frame'.min <= exec'.sp
               /\ ~exec'.left /\ exec'.pc \in Starts(frame'.body) /\ <<exec'.pc, exec'.sp>> \in frame'.seen
    <3>1. frame'.issues = {} /\ <<1, 0>> \in frame'.seen /\ frame'.min <= 0 BY <1>12, <2>2
    <3>2. <<1, 0>> \in Explored' BY <3>1 DEF Explored
    <3>3. \A v \in Explored' : v[1] \in Starts(frame'.body) BY <1>10 DEF Paths
    <3>4. 1 \in Starts(frame'.body)
      <4>1. PICK v : v = <<1, 0>> OBVIOUS
      <4>2. v[1] \in Starts(frame'.body) BY <3>2, <3>3, <4>1
      <4> QED BY <4>1, <4>2
    <3> QED BY <1>3, <1>4, <3>1, <3>4
  <2> QED BY <2>1, <2>2 DEF Executed
<1> QED BY <1>5, <1>9, <1>10, <1>11, <1>13 DEF FrameInv

(* Where an instruction takes the machine is where the walk followed it: out
   of the body through an exit, to a successor, or to the target of a tail
   jump that leaves the body. *)
ExecGoto(ins, next) ==
  CASE ins.op \in {"jump", "tail"} -> {ins.target}
    [] ins.op = "branch" -> {ins.target, next}
    [] ins.op \in {"linear", "call", "link", "icall"} -> {next}
    [] OTHER -> {NoAddress}

LEMMA FlowCovers ==
  ASSUME FrameType, NEW i \in DOMAIN frame.body, NEW ins, ins = frame.body[i], ~Flow(i).problem,
         NEW pc \in ExecGoto(ins, ins.addr + 1)
  PROVE  \/ Flow(i).exit /\ ins.op \in {"ret", "jrT0"}
         \/ Flow(i).exit /\ ins.op = "jump" /\ pc \notin Starts(frame.body)
         \/ /\ ins.op \notin {"ret", "jrT0"} /\ pc \in Starts(frame.body)
            /\ \E k \in DOMAIN Flow(i).succ : Flow(i).succ[k] = pc
         \/ ins.op = "tail" /\ pc \notin Starts(frame.body) /\ pc = ins.target
<1> DEFINE contiguous == i < Len(frame.body) /\ frame.body[i + 1].addr = ins.addr + 1
<1>1. contiguous => ins.addr + 1 \in Starts(frame.body)
  <2>1. PICK body \in Seq(Instructions) : body = frame.body BY BodyTyped
  <2>2. Len(body) \in Nat /\ DOMAIN body = 1 .. Len(body) /\ i \in 1 .. Len(body) BY <2>1
  <2>3. i < Len(body) => i + 1 \in DOMAIN body BY <2>2
  <2> QED BY <2>1, <2>3 DEF Starts
<1>2. PICK flow : flow = Flow(i) /\ ~flow.problem OBVIOUS
<1>3. PICK other : other = Successors(frame.body, i) OBVIOUS
<1>4. Problem.problem BY DEF Problem
<1>5. flow = other /\ ~other.problem BY <1>2, <1>3, <1>4 DEF Flow
<1>6. CASE ins.op \in {"ret", "jrT0"}
  <2>1. other = Leaves BY <1>3, <1>6 DEF Successors
  <2> QED BY <1>2, <1>5, <1>6, <2>1 DEF Leaves
<1>7. CASE ins.op = "jump"
  <2>1. pc = ins.target BY <1>7 DEF ExecGoto
  <2>2. CASE pc \in Starts(frame.body)
    <3>1. other = Follows(<<pc>>) BY <1>3, <1>7, <2>1, <2>2 DEF Successors
    <3>2. other.succ = <<pc>> BY <3>1 DEF Follows
    <3>3. 1 \in DOMAIN other.succ /\ other.succ[1] = pc BY <3>2
    <3> QED BY <1>2, <1>5, <1>7, <2>2, <3>3
  <2>3. CASE pc \notin Starts(frame.body)
    <3>1. other.exit BY <1>3, <1>7, <2>1, <2>3 DEF Successors, Leaves
    <3> QED BY <1>2, <1>5, <1>7, <2>3, <3>1
  <2> QED BY <2>2, <2>3
<1>8. CASE ins.op = "tail"
  <2>1. pc = ins.target BY <1>8 DEF ExecGoto
  <2>2. CASE pc \in Starts(frame.body)
    <3>1. other = Follows(<<pc>>) BY <1>3, <1>8, <2>1, <2>2 DEF Successors
    <3>2. other.succ = <<pc>> BY <3>1 DEF Follows
    <3>3. 1 \in DOMAIN other.succ /\ other.succ[1] = pc BY <3>2
    <3> QED BY <1>2, <1>5, <1>8, <2>2, <3>3
  <2> QED BY <1>8, <2>1, <2>2
<1>9. CASE ins.op = "branch"
  <2>1. pc \in {ins.target, ins.addr + 1} BY <1>9 DEF ExecGoto
  <2>2. ins.target \in Starts(frame.body) /\ contiguous /\ other = Follows(<<ins.target, ins.addr + 1>>)
    BY <1>3, <1>4, <1>5, <1>9 DEF Successors
  <2>3. other.succ = <<ins.target, ins.addr + 1>> BY <2>2 DEF Follows
  <2>4. /\ 1 \in DOMAIN other.succ /\ other.succ[1] = ins.target
        /\ 2 \in DOMAIN other.succ /\ other.succ[2] = ins.addr + 1
    BY <2>3
  <2> QED BY <1>1, <1>2, <1>5, <1>9, <2>1, <2>2, <2>4
<1>10. CASE ins.op \in {"linear", "call", "link", "icall"}
  <2>1. pc = ins.addr + 1 BY <1>10 DEF ExecGoto
  <2>2. contiguous /\ other = Follows(<<ins.addr + 1>>) BY <1>3, <1>4, <1>5, <1>10 DEF Successors
  <2>3. other.succ = <<pc>> BY <2>1, <2>2 DEF Follows
  <2>4. 1 \in DOMAIN other.succ /\ other.succ[1] = pc BY <2>3
  <2> QED BY <1>1, <1>2, <1>5, <1>10, <2>1, <2>2, <2>4
<1>11. CASE ins.op \notin {"ret", "jrT0", "jump", "tail", "branch", "linear", "call", "link", "icall"}
  <2>1. other = Problem BY <1>3, <1>11 DEF Successors
  <2> QED BY <1>4, <1>5, <2>1
<1> QED BY <1>6, <1>7, <1>8, <1>9, <1>10, <1>11

(* Where the walk leaves its state alone it keeps what it knows. *)
LEMMA WalkKept ==
  ASSUME Walked, Paths, Rooted, frame' = frame PROVE Walked' /\ Paths' /\ Rooted'
<1>1. Explored' = Explored BY DEF Explored
<1>2. \A pc, delta : Sound(pc, delta)' <=> Sound(pc, delta)
  <2> SUFFICES ASSUME NEW pc, NEW delta PROVE Sound(pc, delta)' <=> Sound(pc, delta) OBVIOUS
  <2>1. \A i : Flow(i)' = Flow(i) BY DEF Flow
  <2> QED BY <1>1, <2>1, Zenon DEF Sound
<1>3. Walked' BY <1>2, Zenon DEF Walked
<1>4. Paths' BY <1>1, Zenon DEF Paths
<1>5. Rooted' BY <1>1, Zenon DEF Rooted
<1> QED BY <1>3, <1>4, <1>5

LEMMA ExecStepStep ==
  ASSUME FrameInv, ExecStep PROVE FrameInv'
<1>0. /\ FrameType /\ exec.running /\ ~exec.left /\ exec.pc \in Starts(frame.body) /\ frame' = frame
      /\ frame.done /\ frame.issues = {} /\ <<exec.pc, exec.sp>> \in frame.seen
  BY DEF FrameInv, ExecStep, Executed
<1>1. PICK i : i = IndexByPc(frame.body, exec.pc) OBVIOUS
<1>2. PICK ins : ins = frame.body[i] OBVIOUS
<1>3. i \in DOMAIN frame.body /\ ins.addr = exec.pc /\ ins \in Instructions
  BY <1>0, <1>1, <1>2, BodyTyped, InstructionAt
<1>4. Sound(exec.pc, exec.sp) 
  <2>1. PICK v \in frame.seen : v = <<exec.pc, exec.sp>> BY <1>0
  <2>2. v[1] = exec.pc /\ v[2] = exec.sp BY <2>1
  <2>3. Sound(v[1], v[2]) BY <1>0 DEF FrameInv, Walked
  <2> QED BY <2>2, <2>3
<1>5. ins.chg \in Int /\ ins.addr \in Int /\ ins.target \in Int /\ exec.sp \in Int
  BY <1>0, <1>3 DEF Instructions, FrameType
<1>6. PICK after \in Int : after = exec.sp + ins.chg BY <1>5
<1>7. /\ ~ins.dyn /\ ~Flow(i).problem /\ frame.min <= after
      /\ Flow(i).exit => after = 0
      /\ \A k \in DOMAIN Flow(i).succ : <<Flow(i).succ[k], after>> \in Explored
  BY <1>1, <1>2, <1>4, <1>6 DEF Sound
<1>8. Explored = frame.seen
  <2>1. frame.work = <<>> BY <1>0 DEF FrameInv, Rooted
  <2>2. ToSet(<<>>) = {} BY DEF ToSet
  <2> QED BY <2>1, <2>2 DEF Explored
<1>9. PICK sp \in ExecSp(ins), pc \in ExecGoto(ins, ins.addr + 1) :
        exec' = [exec EXCEPT !.sp = sp, !.pc = pc,
                  !.left = \/ ins.op \in {"ret", "jrT0"}
                           \/ (ins.op = "jump" /\ pc \notin Starts(frame.body))]
  <2> DEFINE at == frame.body[IndexByPc(frame.body, exec.pc)]
  <2>1. PICK sp \in ExecSp(at), pc \in ExecGoto(at, exec.pc + 1) :
          exec' = [exec EXCEPT !.sp = sp, !.pc = pc,
                    !.left = \/ at.op \in {"ret", "jrT0"}
                             \/ (at.op = "jump" /\ pc \notin Starts(frame.body))]
    BY Zenon DEF ExecStep, ExecGoto
  <2>2. at = ins BY <1>1, <1>2
  <2>3. ins.addr = exec.pc BY <1>3
  <2> HIDE DEF at
  <2> QED BY <2>1, <2>2, <2>3, Zenon
<1>10. sp = after BY <1>6, <1>7, <1>9 DEF ExecSp
<1>11. pc \in Int BY <1>5, <1>9 DEF ExecGoto, NoAddress
<1>12. PICK left \in BOOLEAN : left = (\/ ins.op \in {"ret", "jrT0"}
                                       \/ (ins.op = "jump" /\ pc \notin Starts(frame.body)))
  OBVIOUS
<1>13. exec' = [exec EXCEPT !.sp = after, !.pc = pc, !.left = left] BY <1>9, <1>10, <1>12
<1>14. /\ exec'.sp = after /\ exec'.pc = pc /\ exec'.left = left /\ exec'.running = exec.running
  BY <1>0, <1>13 DEF FrameType
<1>15. FrameType'
  <2>1. exec' \in [pc : Int, sp : Int, running : BOOLEAN, left : BOOLEAN]
    BY <1>0, <1>6, <1>11, <1>12, <1>13 DEF FrameType
  <2> QED BY <1>0, <2>1 DEF FrameType
<1>16. /\ left => after = 0
       /\ ~left => IF pc \in Starts(frame.body) THEN <<pc, after>> \in frame.seen ELSE TailTarget(pc)
  <2>1. CASE Flow(i).exit /\ ins.op \in {"ret", "jrT0"} BY <1>7, <1>12, <2>1
  <2>2. CASE Flow(i).exit /\ ins.op = "jump" /\ pc \notin Starts(frame.body) BY <1>7, <1>12, <2>2
  <2>3. CASE /\ ins.op \notin {"ret", "jrT0"} /\ pc \in Starts(frame.body)
             /\ \E k \in DOMAIN Flow(i).succ : Flow(i).succ[k] = pc
    <3>1. <<pc, after>> \in frame.seen BY <1>7, <1>8, <2>3
    <3> QED BY <1>12, <2>3, <3>1
  <2>4. CASE ins.op = "tail" /\ pc \notin Starts(frame.body) /\ pc = ins.target
    <3>1. TailTarget(pc) BY <1>2, <1>3, <2>4 DEF TailTarget
    <3> QED BY <1>12, <2>4, <3>1
  <2> QED BY <1>0, <1>2, <1>3, <1>7, <1>9, <2>1, <2>2, <2>3, <2>4, FlowCovers
<1>17. Executed'
  <2>1. exec'.running BY <1>0, <1>14
  <2>2. TailTarget(pc)' <=> TailTarget(pc) BY <1>0 DEF TailTarget
  <2>3. frame'.min <= exec'.sp BY <1>0, <1>7, <1>14
  <2>4. exec'.left => exec'.sp = 0 BY <1>14, <1>16
  <2>5. ~exec'.left => IF exec'.pc \in Starts(frame'.body) THEN <<exec'.pc, exec'.sp>> \in frame'.seen
                       ELSE TailTarget(exec.pc)'
    BY <1>0, <1>14, <1>16 DEF TailTarget
  <2> QED BY <1>0, <2>1, <2>3, <2>4, <2>5 DEF Executed
<1>18. Walked' /\ Paths' /\ Rooted' BY <1>0, WalkKept DEF FrameInv
<1> QED BY <1>15, <1>17, <1>18 DEF FrameInv

LEMMA FrameStep ==
  ASSUME FrameInv, [FrameNext]_frameVars PROVE FrameInv'
<1>1. CASE FrameNext
  BY <1>1, FrameSkipStep, FrameUnreadableStep, FrameFollowStep, FrameReportStep, ExecStepStep DEF FrameNext
<1>2. CASE UNCHANGED frameVars
  <2>1. frame' = frame /\ exec' = exec BY <1>2 DEF frameVars
  <2>2. FrameType' BY <2>1 DEF FrameInv, FrameType
  <2>3. Walked' /\ Paths' /\ Rooted' BY <2>1, WalkKept DEF FrameInv
  <2>4. Executed' BY <2>1 DEF FrameInv, Executed, TailTarget
  <2> QED BY <2>2, <2>3, <2>4 DEF FrameInv
<1> QED BY <1>1, <1>2

LEMMA FrameInvCovers == ASSUME FrameInv PROVE FrameCoversExecution
<1> SUFFICES ASSUME exec.running
             PROVE  /\ -exec.sp <= FrameBytes
                    /\ exec.left => exec.sp = 0
                    /\ exec.left \/ exec.pc \in Starts(frame.body) \/ TailTarget(exec.pc)
  BY DEF FrameCoversExecution, TailTarget
<1>1. frame.min \in Int /\ exec.sp \in Int BY DEF FrameInv, FrameType
<1>2. frame.min <= exec.sp BY DEF FrameInv, Executed
<1>3. -exec.sp <= FrameBytes BY <1>1, <1>2 DEF FrameBytes
<1> QED BY <1>3 DEF FrameInv, Executed

(* When analyze_frame ends with nothing unresolved, frameBytes bounds the stack
   of every execution of the body, control stays on decoded instructions until
   it leaves, and every return leaves sp where it was: for every body, every
   depth of the machine and both link conventions. *)
THEOREM FrameCoversExecutionHolds == FrameSpec => []FrameCoversExecution
<1>1. FrameInit => FrameInv BY FrameStarts
<1>2. FrameInv /\ [FrameNext]_frameVars => FrameInv' BY FrameStep
<1>3. FrameInv => FrameCoversExecution BY FrameInvCovers
<1> QED BY <1>1, <1>2, <1>3, PTL DEF FrameSpec

-----------------------------------------------------------------------------
(* The call walk: what the reference reaches.                              *)

(* What a function takes from a finite set is finite. *)
LEMMA ImageFinite ==
  ASSUME NEW S, IsFiniteSet(S), NEW f
  PROVE  IsFiniteSet({f[x] : x \in S})
<1> DEFINE T == {f[x] : x \in S}
           g == [x \in S |-> f[x]]
<1>1. g \in Surjection(S, T) BY DEF Surjection
<1> HIDE DEF g, T
<1>2. IsFiniteSet(T) BY <1>1, FS_Surjection
<1> QED BY <1>2 DEF T

(* The sequence made of a finite set lists it. *)
LEMMA SetToSeqLists ==
  ASSUME NEW S, IsFiniteSet(S)
  PROVE  /\ SetToSeq(S) \in Seq(S) /\ Cardinality(S) \in Nat
         /\ DOMAIN SetToSeq(S) = 1 .. Cardinality(S)
         /\ {SetToSeq(S)[k] : k \in 1 .. Cardinality(S)} = S
<1>1. Cardinality(S) \in Nat /\ ExistsBijection(1 .. Cardinality(S), S) BY FS_CardinalityType
<1>2. PICK n \in Nat : n = Cardinality(S) BY <1>1
<1>3. PICK b : b \in Bijection(1 .. n, S) BY <1>1, <1>2 DEF ExistsBijection
<1>4. b \in [1 .. n -> S] /\ IsInjective(b) BY <1>3 DEF Bijection, Injection, IsInjective
<1>5. PICK f : f = SetToSeq(S) OBVIOUS
<1>6. f \in [1 .. n -> S] /\ IsInjective(f) BY <1>2, <1>4, <1>5, Zenon DEF SetToSeq
<1>7. f \in Injection(1 .. n, S) BY <1>6 DEF Injection, IsInjective
<1>8. IsFiniteSet(1 .. n) /\ Cardinality(1 .. n) = n BY FS_Interval
<1>9. f \in Surjection(1 .. n, S) BY <1>2, <1>7, <1>8, FS_Injection
<1>10. {f[k] : k \in 1 .. n} = S BY <1>6, <1>9 DEF Surjection
<1>11. f \in Seq(S) BY <1>6
<1> QED BY <1>1, <1>2, <1>5, <1>6, <1>10, <1>11

LEMMA SitesOf ==
  ASSUME NEW prog \in Programs, NEW fn \in Linked
  PROVE  \E n \in Nat : DOMAIN CallSites(prog, fn) = 1 .. n
<1>1. prog[fn] \in Seq(Range(prog[fn])) BY CallAssumption
<1>2. DOMAIN prog[fn] = 1 .. Len(prog[fn]) /\ Len(prog[fn]) \in Nat BY <1>1
<1>3. DOMAIN <<>> = 1 .. 0 OBVIOUS
<1> QED BY <1>2, <1>3 DEF CallSites

(* The call graph has finitely many nodes. *)
LEMMA NodesFinite ==
  ASSUME NEW prog \in Programs
  PROVE  IsFiniteSet(Nodes(prog)) /\ Cardinality(Nodes(prog)) \in Nat
<1> DEFINE Called(fn) == {s.callbacks : s \in Range(CallSites(prog, fn))}
           F == [fn \in Linked |-> Called(fn)]
           All == {F[fn] : fn \in Linked}
<1>1. ASSUME NEW fn \in Linked PROVE IsFiniteSet(F[fn])
  <2>1. PICK q : q = CallSites(prog, fn) OBVIOUS
  <2>2. PICK n \in Nat : DOMAIN q = 1 .. n BY <2>1, SitesOf
  <2>3. IsFiniteSet(1 .. n) BY FS_Interval
  <2> DEFINE g == [k \in 1 .. n |-> q[k].callbacks]
  <2>4. IsFiniteSet({g[k] : k \in 1 .. n})
    <3> HIDE DEF g
    <3> QED BY <2>3, ImageFinite
  <2>5. F[fn] = {g[k] : k \in 1 .. n} BY <2>1, <2>2 DEF Range
  <2> QED BY <2>4, <2>5
<1>2. IsFiniteSet(All)
  <2> HIDE DEF F
  <2> QED BY CallAssumption, ImageFinite
<1>3. IsFiniteSet(UNION All)
  <2>1. \A T \in All : IsFiniteSet(T) BY <1>1
  <2> HIDE DEF All
  <2> QED BY <1>2, <2>1, FS_UNION
<1>4. Contexts(prog) = {{}} \cup UNION All BY DEF Contexts
<1> HIDE DEF All
<1>5. IsFiniteSet({{}}) BY FS_Singleton
<1>6. IsFiniteSet(Contexts(prog))
  <2>1. PICK A, B : A = {{}} /\ B = UNION All OBVIOUS
  <2>2. IsFiniteSet(A \cup B) BY <1>3, <1>5, <2>1, FS_Union
  <2> QED BY <1>4, <2>1, <2>2
<1>7. IsFiniteSet(Linked \X {{}}) BY <1>5, CallAssumption, FS_Product
<1>8. IsFiniteSet(Once) BY CallAssumption, FS_Subset
<1>9. IsFiniteSet(Once \X Contexts(prog)) BY <1>6, <1>8, FS_Product
<1>10. IsFiniteSet(Nodes(prog)) BY <1>7, <1>9, FS_Union DEF Nodes
<1> QED BY <1>10, FS_CardinalityType

(* The rounds of the reference, as one function. *)
Step(prog, reached) == reached \cup UNION {Leads(prog, x) : x \in reached}
Grows(g, prog, from, m) == g = [n \in 0 .. m |-> IF n = 0 THEN from ELSE Step(prog, g[n - 1])]

(* The rounds of the reference exist, one after the other. *)
LEMMA GrowExists ==
  ASSUME NEW prog, NEW from, NEW m \in Nat
  PROVE  \E g : Grows(g, prog, from, m)
<1> DEFINE Exists(n) == \E g : Grows(g, prog, from, n)
           Missing == {n \in Nat : ~Exists(n)}
<1>1. ASSUME Missing # {} PROVE FALSE
  <2>0. Missing \subseteq Nat OBVIOUS
  <2>1. PICK n \in Missing : \A j \in Missing : n <= j
    <3> HIDE DEF Missing
    <3> QED BY <1>1, <2>0, LeastOf
  <2>2. CASE n = 0
    <3> DEFINE g == [i \in 0 .. 0 |-> from]
    <3>1. \A i \in 0 .. 0 : i = 0 /\ g[i] = from OBVIOUS
    <3>2. g = [i \in 0 .. 0 |-> IF i = 0 THEN from ELSE Step(prog, g[i - 1])] BY <3>1
    <3> HIDE DEF g
    <3>3. Grows(g, prog, from, 0) BY <3>2 DEF Grows
    <3> QED BY <2>1, <2>2, <3>3
  <2>3. CASE n # 0
    <3>1. Exists(n - 1)
      <4> HIDE DEF Exists
      <4> QED BY <2>1, <2>3
    <3>2. PICK g : Grows(g, prog, from, n - 1) BY <3>1
    <3> DEFINE h == [i \in 0 .. n |-> IF i = n THEN Step(prog, g[n - 1]) ELSE g[i]]
    <3>3. \A i \in 0 .. n : h[i] = IF i = 0 THEN from ELSE Step(prog, h[i - 1])
      <4> TAKE i \in 0 .. n
      <4>1. CASE i = n
        <5>1. i - 1 \in 0 .. n /\ i - 1 # n /\ i # 0 BY <4>1, <2>3
        <5> QED BY <4>1, <5>1, <2>3
      <4>2. CASE i # n
        <5>1. i \in 0 .. n - 1 /\ (i # 0 => i - 1 \in 0 .. n /\ i - 1 # n) BY <4>2
        <5>2. g[i] = IF i = 0 THEN from ELSE Step(prog, g[i - 1]) BY <3>2, <5>1 DEF Grows
        <5> QED BY <4>2, <5>1, <5>2
      <4> QED BY <4>1, <4>2
    <3>4. h = [i \in 0 .. n |-> h[i]] OBVIOUS
    <3> HIDE DEF h
    <3>5. Grows(h, prog, from, n) BY <3>3, <3>4, Zenon DEF Grows
    <3> QED BY <2>1, <3>5
  <2> QED BY <2>2, <2>3
<1>2. Exists(m)
  <2> HIDE DEF Exists
  <2> QED BY <1>1
<1> QED BY <1>2

(* What is reachable is the last round. *)
LEMMA ReachUnfolds ==
  ASSUME NEW prog \in Programs, NEW from
  PROVE  \E g : Grows(g, prog, from, Cardinality(Nodes(prog)))
                /\ Reachable(prog, from) = g[Cardinality(Nodes(prog))]
<1>1. PICK m \in Nat : m = Cardinality(Nodes(prog)) BY NodesFinite
<1> DEFINE grow == CHOOSE g : g = [n \in 0 .. Cardinality(Nodes(prog)) |->
                      IF n = 0 THEN from ELSE g[n - 1] \cup UNION {Leads(prog, x) : x \in g[n - 1]}]
<1>2. \E g : g = [n \in 0 .. Cardinality(Nodes(prog)) |->
                      IF n = 0 THEN from ELSE g[n - 1] \cup UNION {Leads(prog, x) : x \in g[n - 1]}]
  <2>1. PICK g : Grows(g, prog, from, Cardinality(Nodes(prog))) BY <1>1, GrowExists
  <2> QED BY <2>1, Zenon DEF Grows, Step
<1>3. grow = [n \in 0 .. Cardinality(Nodes(prog)) |->
                IF n = 0 THEN from ELSE grow[n - 1] \cup UNION {Leads(prog, x) : x \in grow[n - 1]}]
  BY <1>2, Zenon
<1>4. Reachable(prog, from) = grow[Cardinality(Nodes(prog))]
  BY Zenon DEF Reachable
<1> HIDE DEF grow
<1>5. Grows(grow, prog, from, Cardinality(Nodes(prog))) BY <1>3, Zenon DEF Grows, Step
<1> QED BY <1>4, <1>5

(* A set of nodes no call leads out of. *)
CallClosed(prog, U) == \A x \in U : Leads(prog, x) \subseteq U

(* The first round is the start, every other one a step. *)
LEMMA GrowStep ==
  ASSUME NEW prog, NEW from, NEW m \in Nat, NEW g, Grows(g, prog, from, m)
  PROVE  g[0] = from /\ \A n \in 1 .. m : g[n] = Step(prog, g[n - 1])
<1>1. \A n \in 0 .. m : g[n] = IF n = 0 THEN from ELSE Step(prog, g[n - 1]) BY DEF Grows
<1>2. 0 \in 0 .. m /\ \A n \in 1 .. m : n \in 0 .. m /\ n # 0 OBVIOUS
<1> QED BY <1>1, <1>2

(* Whatever is closed and holds the start holds everything reachable. *)
LEMMA ReachLeast ==
  ASSUME NEW prog \in Programs, NEW from, NEW U, from \subseteq U, CallClosed(prog, U)
  PROVE  Reachable(prog, from) \subseteq U
<1>1. PICK m \in Nat : m = Cardinality(Nodes(prog)) BY NodesFinite
<1>2. PICK g : Grows(g, prog, from, m) /\ Reachable(prog, from) = g[m] BY <1>1, ReachUnfolds
<1>3. g[0] = from /\ \A n \in 1 .. m : g[n] = Step(prog, g[n - 1]) BY <1>2, GrowStep
<1> DEFINE Escaped == {n \in 0 .. m : ~(g[n] \subseteq U)}
<1>4. ASSUME Escaped # {} PROVE FALSE
  <2>0. Escaped \subseteq Nat OBVIOUS
  <2>1. PICK n \in Escaped : \A j \in Escaped : n <= j
    <3> HIDE DEF Escaped
    <3> QED BY <1>4, <2>0, LeastOf
  <2>2. n # 0 BY <1>3, <2>1
  <2>3. n \in 1 .. m /\ n - 1 \in 0 .. m /\ ~(n <= n - 1) BY <2>1, <2>2
  <2>4. g[n - 1] \subseteq U BY <2>1, <2>3
  <2>5. Step(prog, g[n - 1]) \subseteq U BY <2>4 DEF Step, CallClosed
  <2> QED BY <1>3, <2>1, <2>3, <2>5
<1> QED BY <1>2, <1>4

(* What a site leads to: a sequence of linked functions, each with a kind. *)
LEMMA SiteOrder ==
  ASSUME NEW site, NEW context
  PROVE  SiteTargetSeq(site, context) \in Seq(Linked \X {site.kind, "callback"})
<1> DEFINE T == Linked \X {site.kind, "callback"}
<1>1. PICK S : S = CallbackNames(site, context) \cap Linked OBVIOUS
<1>2. IsFiniteSet(S) BY <1>1, CallAssumption, FS_Intersection
<1>3. PICK n \in Nat, q \in Seq(S) : q = SetToSeq(S) /\ DOMAIN q = 1 .. n BY <1>2, SetToSeqLists
<1>4. PICK tail : tail = [k \in 1 .. n |-> <<q[k], "callback">>] OBVIOUS
<1>5. tail \in Seq(T)
  <2>1. \A k \in 1 .. n : q[k] \in Linked BY <1>1, <1>3
  <2>2. \A k \in 1 .. n : <<q[k], "callback">> \in T BY <2>1
  <2> HIDE DEF T
  <2>3. tail \in [1 .. n -> T] BY <1>4, <2>2
  <2> QED BY <2>3
<1>6. PICK head : head = IF site.target \in Linked THEN <<<<site.target, site.kind>>>> ELSE <<>> OBVIOUS
<1>7. head \in Seq(T)
  <2>1. CASE site.target \in Linked
    <3>1. <<site.target, site.kind>> \in T BY <2>1
    <3> HIDE DEF T
    <3>2. <<<<site.target, site.kind>>>> \in Seq(T) BY <3>1
    <3> QED BY <1>6, <2>1, <3>2
  <2>2. CASE site.target \notin Linked BY <1>6, <2>2
  <2> QED BY <2>1, <2>2
<1>8. SiteTargetSeq(site, context) = IF site.target \in Strays THEN <<>> ELSE head \o tail
  BY <1>1, <1>3, <1>4, <1>6 DEF SiteTargetSeq
<1> HIDE DEF T
<1>9. head \o tail \in Seq(T) BY <1>5, <1>7, ConcatElements
<1>10. SiteTargetSeq(site, context) \in Seq(T) BY <1>8, <1>9
<1> QED BY <1>10 DEF T

(* A node leads to nodes. *)
LEMMA LeadsNodes ==
  ASSUME NEW prog \in Programs, NEW node \in Nodes(prog)
  PROVE  Leads(prog, node) \subseteq Nodes(prog)
<1>1. node[1] \in Linked /\ node[2] \in Contexts(prog) BY CallAssumption DEF Nodes, Contexts
<1>2. {} \in Contexts(prog) BY DEF Contexts
<1>3. ASSUME NEW s \in Range(CallSites(prog, node[1])) PROVE CallbackNames(s, node[2]) \in Contexts(prog)
  <2>1. s.callbacks \in Contexts(prog) BY <1>1 DEF Contexts
  <2> QED BY <1>1, <2>1 DEF CallbackNames
<1>4. ASSUME NEW s \in Range(CallSites(prog, node[1])), NEW t \in SiteTargets(s, node[2])
      PROVE  t[1] \in Linked
  <2>1. PICK q : q = SiteTargetSeq(s, node[2]) OBVIOUS
  <2>2. q \in Seq(Linked \X {s.kind, "callback"}) BY <2>1, SiteOrder
  <2>3. PICK k \in DOMAIN q : t = q[k] BY <2>1 DEF SiteTargets, Range
  <2>4. t \in Linked \X {s.kind, "callback"} BY <2>2, <2>3
  <2> QED BY <2>4
<1> QED BY <1>1, <1>2, <1>3, <1>4 DEF Leads, Nodes

(* The rounds hold nodes only, and the start always. *)
LEMMA GrowInNodes ==
  ASSUME NEW prog \in Programs, NEW from, from \subseteq Nodes(prog), NEW m \in Nat,
         NEW g, Grows(g, prog, from, m), NEW n \in 0 .. m
  PROVE  g[n] \subseteq Nodes(prog) /\ from \subseteq g[n]
<1>1. g[0] = from /\ \A i \in 1 .. m : g[i] = Step(prog, g[i - 1]) BY GrowStep
<1> DEFINE Escaped == {i \in 0 .. m : ~(g[i] \subseteq Nodes(prog) /\ from \subseteq g[i])}
<1>2. ASSUME Escaped # {} PROVE FALSE
  <2>0. Escaped \subseteq Nat OBVIOUS
  <2>1. PICK i \in Escaped : \A j \in Escaped : i <= j
    <3> HIDE DEF Escaped
    <3> QED BY <1>2, <2>0, LeastOf
  <2>2. i # 0 BY <1>1, <2>1
  <2>3. i \in 1 .. m /\ i - 1 \in 0 .. m /\ ~(i <= i - 1) BY <2>1, <2>2
  <2>4. g[i - 1] \subseteq Nodes(prog) /\ from \subseteq g[i - 1] BY <2>1, <2>3
  <2>5. Step(prog, g[i - 1]) \subseteq Nodes(prog) BY <2>4, LeadsNodes DEF Step
  <2>6. g[i - 1] \subseteq Step(prog, g[i - 1]) BY DEF Step
  <2> QED BY <1>1, <2>1, <2>3, <2>4, <2>5, <2>6
<1> QED BY <1>2

(* A round that adds nothing is the last one that could. *)
LEMMA GrowStable ==
  ASSUME NEW prog, NEW from, NEW m \in Nat, NEW g, Grows(g, prog, from, m),
         NEW n \in 0 .. m, Step(prog, g[n]) = g[n]
  PROVE  g[m] = g[n]
<1>1. g[0] = from /\ \A i \in 1 .. m : g[i] = Step(prog, g[i - 1]) BY GrowStep
<1> DEFINE Moved == {i \in n .. m : g[i] # g[n]}
<1>2. ASSUME Moved # {} PROVE FALSE
  <2>0. Moved \subseteq Nat OBVIOUS
  <2>1. PICK i \in Moved : \A j \in Moved : i <= j
    <3> HIDE DEF Moved
    <3> QED BY <1>2, <2>0, LeastOf
  <2>2. i # n BY <2>1
  <2>3. i \in 1 .. m /\ i - 1 \in n .. m /\ ~(i <= i - 1) BY <2>1, <2>2
  <2>4. g[i - 1] = g[n] BY <2>1, <2>3
  <2> QED BY <1>1, <2>1, <2>3, <2>4
<1>3. m \in n .. m OBVIOUS
<1> QED BY <1>2, <1>3

(* The rounds of the reference are enough: each one before the last that adds
   anything adds a node, and there are no more rounds than nodes. *)
LEMMA ReachClosed ==
  ASSUME NEW prog \in Programs, NEW from, from \subseteq Nodes(prog)
  PROVE  /\ CallClosed(prog, Reachable(prog, from)) /\ from \subseteq Reachable(prog, from)
         /\ Reachable(prog, from) \subseteq Nodes(prog)
<1>1. PICK m \in Nat : m = Cardinality(Nodes(prog)) BY NodesFinite
<1>2. PICK g : Grows(g, prog, from, m) /\ Reachable(prog, from) = g[m] BY <1>1, ReachUnfolds
<1>3. g[0] = from /\ \A i \in 1 .. m : g[i] = Step(prog, g[i - 1]) BY <1>2, GrowStep
<1>4. \A n \in 0 .. m : g[n] \subseteq Nodes(prog) /\ from \subseteq g[n] BY <1>2, GrowInNodes
<1>5. IsFiniteSet(Nodes(prog)) BY NodesFinite
<1>6. \A n \in 0 .. m : IsFiniteSet(g[n]) /\ Cardinality(g[n]) \in Nat
  BY <1>4, <1>5, FS_Subset, FS_CardinalityType
<1>7. ASSUME Step(prog, g[m]) # g[m] PROVE FALSE
  <2> DEFINE Small == {n \in 0 .. m : ~(Cardinality(g[n]) >= n)}
  <2>1. ASSUME Small # {} PROVE FALSE
    <3>0. Small \subseteq Nat OBVIOUS
    <3>1. PICK n \in Small : \A j \in Small : n <= j
      <4> HIDE DEF Small
      <4> QED BY <2>1, <3>0, LeastOf
    <3>2. n # 0 /\ n \in 0 .. m /\ ~(Cardinality(g[n]) >= n) BY <1>6, <3>1
    <3>3. n \in 1 .. m /\ n - 1 \in 0 .. m /\ ~(n <= n - 1) BY <3>1, <3>2
    <3>4. Cardinality(g[n - 1]) >= n - 1 BY <3>1, <3>3
    <3>5. g[n] = Step(prog, g[n - 1]) BY <1>3, <3>3
    <3>6. g[n] # g[n - 1]
      <4> SUFFICES ASSUME g[n] = g[n - 1] PROVE FALSE OBVIOUS
      <4>1. Step(prog, g[n]) = g[n] BY <3>5
      <4>2. g[m] = g[n] BY <1>2, <3>2, <4>1, GrowStable
      <4> QED BY <1>7, <4>1, <4>2
    <3>7. g[n - 1] \subseteq g[n] BY <3>5 DEF Step
    <3>8. PICK A, B : A = g[n - 1] /\ B = g[n] OBVIOUS
    <3>9. IsFiniteSet(B) /\ A \subseteq B /\ A # B BY <1>6, <3>2, <3>6, <3>7, <3>8
    <3>10. Cardinality(A) <= Cardinality(B) /\ Cardinality(A) # Cardinality(B) BY <3>9, FS_Subset
    <3>11. Cardinality(A) \in Nat /\ Cardinality(B) \in Nat BY <1>6, <3>2, <3>3, <3>8
    <3>12. Cardinality(A) >= n - 1 /\ ~(Cardinality(B) >= n) BY <3>2, <3>4, <3>8
    <3> QED BY <3>1, <3>10, <3>11, <3>12
  <2>2. m \in 0 .. m OBVIOUS
  <2>3. Cardinality(g[m]) >= m BY <2>1, <2>2
  <2>4. PICK A : A = g[m] OBVIOUS
  <2>5. A \subseteq Nodes(prog) /\ Cardinality(A) \in Nat BY <1>4, <1>6, <2>2, <2>4
  <2>6. Cardinality(A) <= m /\ (m = Cardinality(A) => Nodes(prog) = A) BY <1>1, <1>5, <2>5, FS_Subset
  <2>7. Nodes(prog) = A BY <2>3, <2>4, <2>5, <2>6
  <2>8. Step(prog, A) \subseteq A BY <2>7, LeadsNodes DEF Step
  <2>9. A \subseteq Step(prog, A) BY DEF Step
  <2> QED BY <1>7, <2>4, <2>8, <2>9
<1>8. Step(prog, g[m]) = g[m] BY <1>7
<1>9. CallClosed(prog, g[m]) BY <1>8 DEF Step, CallClosed
<1>10. m \in 0 .. m OBVIOUS
<1> QED BY <1>2, <1>4, <1>9, <1>10

(* Beyond a node lies what it leads to and what lies beyond that. *)
LEMMA BeyondUnfolds ==
  ASSUME NEW prog \in Programs, NEW node \in Nodes(prog), NEW y \in Reachable(prog, Leads(prog, node))
  PROVE  \/ y \in Leads(prog, node)
         \/ \E x \in Leads(prog, node) : y \in Reachable(prog, Leads(prog, x))
<1> DEFINE R(x) == Reachable(prog, Leads(prog, x))
           U == Leads(prog, node) \cup UNION {R(x) : x \in Leads(prog, node)}
<1>1. \A x \in Leads(prog, node) : x \in Nodes(prog) BY LeadsNodes
<1>2. ASSUME NEW x \in Leads(prog, node) PROVE CallClosed(prog, R(x)) /\ Leads(prog, x) \subseteq R(x)
  BY <1>1, LeadsNodes, ReachClosed
<1>3. CallClosed(prog, U)
  <2> HIDE DEF R
  <2> SUFFICES ASSUME NEW z \in U PROVE Leads(prog, z) \subseteq U BY DEF CallClosed
  <2>1. CASE z \in Leads(prog, node) BY <1>2, <2>1
  <2>2. CASE \E x \in Leads(prog, node) : z \in R(x)
    <3>1. PICK x \in Leads(prog, node) : z \in R(x) BY <2>2
    <3>2. Leads(prog, z) \subseteq R(x) BY <1>2, <3>1 DEF CallClosed
    <3> QED BY <3>2
  <2> QED BY <2>1, <2>2
<1>4. Leads(prog, node) \subseteq U OBVIOUS
<1> HIDE DEF U
<1>5. Reachable(prog, Leads(prog, node)) \subseteq U BY <1>3, <1>4, ReachLeast
<1>6. y \in U BY <1>5
<1> QED BY <1>6 DEF U

-----------------------------------------------------------------------------
(* The call walk: a depth-first search.                                    *)

(* The node an entry stands for. *)
NodeOf(e) == <<e.fn, e.context>>
Entries(prog) == [fn : Linked, ancestors : Seq(Linked), context : Contexts(prog), link : BOOLEAN]

(* One site's pushes, as CallVisit makes them. *)
PushSite(site, context, ancestors) ==
  LET order == SiteTargetSeq(site, context)
  IN [k \in DOMAIN order |->
       Entry(order[k][1], ancestors,
             IF order[k][1] \in Once THEN CallbackNames(site, context) ELSE {},
             site.kind = "outlined-link")]

(* The pushed entries are the nodes that follow, each under the same path. *)
Follow(prog, node, ancestors, new) ==
  /\ \A e \in ToSet(new) : e.ancestors = ancestors /\ NodeOf(e) \in Leads(prog, node)
  /\ \A y \in Leads(prog, node) : \E e \in ToSet(new) : NodeOf(e) = y

SitePushes(prog, node, ancestors, site) ==
  LET pushes == PushSite(site, node[2], ancestors)
      leads(t) == <<t[1], IF t[1] \in Once THEN CallbackNames(site, node[2]) ELSE {}>>
  IN /\ pushes \in Seq(Entries(prog))
     /\ \A e \in ToSet(pushes) :
          e.ancestors = ancestors /\ \E t \in SiteTargets(site, node[2]) : NodeOf(e) = leads(t)
     /\ \A t \in SiteTargets(site, node[2]) : \E e \in ToSet(pushes) : NodeOf(e) = leads(t)

(* A site pushes an entry for each of its targets. *)
LEMMA PushSiteTyped ==
  ASSUME NEW prog \in Programs, NEW node \in Nodes(prog), NEW ancestors \in Seq(Linked),
         NEW site \in Range(CallSites(prog, node[1]))
  PROVE  SitePushes(prog, node, ancestors, site)
<1>1. PICK order : order = SiteTargetSeq(site, node[2]) OBVIOUS
<1>2. order \in Seq(Linked \X {site.kind, "callback"}) BY <1>1, SiteOrder
<1>3. PICK n \in Nat : n = Len(order) /\ DOMAIN order = 1 .. n BY <1>2
<1>4. \A k \in 1 .. n : order[k] \in Linked \X {site.kind, "callback"} BY <1>2, <1>3
<1>5. node[1] \in Linked /\ node[2] \in Contexts(prog) /\ {} \in Contexts(prog)
  BY CallAssumption DEF Nodes, Contexts
<1>6. PICK names : names = CallbackNames(site, node[2]) OBVIOUS
<1>7. names \in Contexts(prog)
  <2>1. site.callbacks \in Contexts(prog) BY <1>5 DEF Contexts
  <2> QED BY <1>5, <1>6, <2>1 DEF CallbackNames
<1>8. PICK link \in BOOLEAN : link = (site.kind = "outlined-link") OBVIOUS
<1> DEFINE Ctx(t) == IF t[1] \in Once THEN names ELSE {}
           item(k) == Entry(order[k][1], ancestors, Ctx(order[k]), link)
<1>9. PICK p : p = PushSite(site, node[2], ancestors) OBVIOUS
<1>10. p = [k \in 1 .. n |-> item(k)] BY <1>1, <1>3, <1>6, <1>8, <1>9 DEF PushSite
<1>11. ASSUME NEW k \in 1 .. n
       PROVE  item(k) \in Entries(prog) /\ item(k).ancestors = ancestors
              /\ NodeOf(item(k)) = <<order[k][1], Ctx(order[k])>>
  BY <1>4, <1>5, <1>7 DEF Entry, Entries, NodeOf
<1> HIDE DEF item
<1>12. p \in [1 .. n -> Entries(prog)] BY <1>10, <1>11
<1>13. p \in Seq(Entries(prog)) BY <1>12
<1>14. DOMAIN p = 1 .. n /\ \A k \in 1 .. n : p[k] = item(k) BY <1>10
<1>15. \A t \in SiteTargets(site, node[2]) : \E k \in 1 .. n : t = order[k]
  BY <1>1, <1>3 DEF SiteTargets, Range
<1>16. \A k \in 1 .. n : order[k] \in SiteTargets(site, node[2]) BY <1>1, <1>3 DEF SiteTargets, Range
<1>17. ASSUME NEW e \in ToSet(p)
       PROVE  e.ancestors = ancestors /\ \E t \in SiteTargets(site, node[2]) : NodeOf(e) = <<t[1], Ctx(t)>>
  <2>1. PICK k \in 1 .. n : e = item(k) BY <1>14 DEF ToSet
  <2> QED BY <1>11, <1>16, <2>1
<1>18. ASSUME NEW t \in SiteTargets(site, node[2])
       PROVE  \E e \in ToSet(p) : NodeOf(e) = <<t[1], Ctx(t)>>
  <2>1. PICK k \in 1 .. n : t = order[k] BY <1>15
  <2>2. p[k] \in ToSet(p) /\ p[k] = item(k) BY <1>14 DEF ToSet
  <2> QED BY <1>11, <2>1, <2>2
<1> QED BY <1>6, <1>9, <1>13, <1>17, <1>18 DEF SitePushes

(* What a visit pushes is what its node leads to. *)
LEMMA PushesFollow ==
  ASSUME NEW prog \in Programs, NEW node \in Nodes(prog), NEW ancestors \in Seq(Linked),
         NEW sites, sites = CallSites(prog, node[1]),
         NEW new, new = FlattenSeq([k \in DOMAIN sites |-> PushSite(sites[k], node[2], ancestors)])
  PROVE  new \in Seq(Entries(prog)) /\ Follow(prog, node, ancestors, new)
<1>1. node[1] \in Linked BY CallAssumption DEF Nodes
<1>2. PICK n \in Nat : DOMAIN sites = 1 .. n BY <1>1, SitesOf
<1>3. \A k \in 1 .. n : sites[k] \in Range(CallSites(prog, node[1])) BY <1>2 DEF Range
<1> DEFINE P(s) == PushSite(s, node[2], ancestors)
           Ctx(s, t) == IF t[1] \in Once THEN CallbackNames(s, node[2]) ELSE {}
<1>4. ASSUME NEW s \in Range(sites)
      PROVE  /\ P(s) \in Seq(Entries(prog))
             /\ \A e \in ToSet(P(s)) : e.ancestors = ancestors
                   /\ \E t \in SiteTargets(s, node[2]) : NodeOf(e) = <<t[1], Ctx(s, t)>>
             /\ \A t \in SiteTargets(s, node[2]) : \E e \in ToSet(P(s)) : NodeOf(e) = <<t[1], Ctx(s, t)>>
  <2>1. s \in Range(CallSites(prog, node[1])) OBVIOUS
  <2>2. SitePushes(prog, node, ancestors, s) BY <2>1, PushSiteTyped
  <2> QED BY <2>2 DEF SitePushes
<1>5. Leads(prog, node) = UNION {{<<t[1], Ctx(s, t)>> : t \in SiteTargets(s, node[2])} : s \in Range(sites)}
  BY DEF Leads
<1> HIDE DEF P, Ctx
<1>6. PICK seqs : seqs = [k \in 1 .. n |-> P(sites[k])] OBVIOUS
<1>7. new = FlattenSeq(seqs) BY <1>2, <1>6 DEF P
<1>8. \A k \in 1 .. n : sites[k] \in Range(sites) /\ seqs[k] = P(sites[k]) BY <1>3, <1>6
<1>9. PICK S : S = Entries(prog) OBVIOUS
<1>10. PICK q \in [1 .. n -> Seq(S)] : q = seqs
  <2>1. \A k \in 1 .. n : seqs[k] \in Seq(S) BY <1>4, <1>8, <1>9
  <2>2. seqs = [k \in 1 .. n |-> seqs[k]] BY <1>6
  <2> QED BY <2>1, <2>2
<1>11. FlattenSeq(q) \in Seq(S) /\ ToSet(FlattenSeq(q)) = UNION {ToSet(q[k]) : k \in 1 .. n}
  BY FlattenElements
<1>12. new \in Seq(Entries(prog)) /\ ToSet(new) = UNION {ToSet(P(sites[k])) : k \in 1 .. n}
  BY <1>7, <1>8, <1>9, <1>10, <1>11
<1>13. ASSUME NEW e \in ToSet(new) PROVE e.ancestors = ancestors /\ NodeOf(e) \in Leads(prog, node)
  <2>1. PICK k \in 1 .. n : e \in ToSet(P(sites[k])) BY <1>12
  <2>2. PICK s \in Range(sites) : s = sites[k] BY <1>8
  <2>3. PICK t \in SiteTargets(s, node[2]) : e.ancestors = ancestors /\ NodeOf(e) = <<t[1], Ctx(s, t)>>
    BY <1>4, <2>1, <2>2
  <2> QED BY <1>5, <2>3
<1>14. ASSUME NEW y \in Leads(prog, node) PROVE \E e \in ToSet(new) : NodeOf(e) = y
  <2>1. PICK s \in Range(sites) : \E t \in SiteTargets(s, node[2]) : y = <<t[1], Ctx(s, t)>> BY <1>5
  <2>2. PICK t \in SiteTargets(s, node[2]) : y = <<t[1], Ctx(s, t)>> BY <2>1
  <2>3. PICK e \in ToSet(P(s)) : NodeOf(e) = y BY <1>4, <2>2
  <2>4. PICK k \in 1 .. n : s = sites[k] BY <1>2 DEF Range
  <2> QED BY <1>12, <2>3, <2>4
<1> QED BY <1>12, <1>13, <1>14 DEF Follow

(* Every set of nodes taken from nodes has one that leads out of it. *)
Grounded(prog, nodes) == \A S \in SUBSET nodes : S # {} => \E x \in S : Leads(prog, x) \cap S = {}

(* What a node on the walked path leads to is done, next on the path, or
   pending right below it. *)
CallsCovered(prog, todo, done, path) ==
  \A k \in DOMAIN path : \A y \in Leads(prog, path[k]) :
    \/ y \in done
    \/ k + 1 \in DOMAIN path /\ y = path[k + 1]
    \/ \E e \in ToSet(todo) : NodeOf(e) = y /\ Len(e.ancestors) = k + 1

(* A pending entry's ancestors are the entry function and the functions of a
   prefix of the walked path. *)
Prefixed(todo, path) ==
  \A e \in ToSet(todo) :
    /\ Len(e.ancestors) \in 1 .. Len(path) + 1 /\ e.ancestors[1] = Root
    /\ \A k \in 1 .. Len(e.ancestors) - 1 : e.ancestors[k + 1] = path[k][1]

Track(prog, todo, seen, path, done) ==
  /\ path \in Seq(Nodes(prog)) /\ done \subseteq Nodes(prog)
  /\ CallClosed(prog, done) /\ Grounded(prog, done)
  /\ seen = done \cup ToSet(path)
  /\ \A n \in seen : n[1] # Root
  /\ CallsCovered(prog, todo, done, path) /\ Prefixed(todo, path)

(* When nothing is pending below a prefix of the path, the rest is done. *)
LEMMA Settle ==
  ASSUME NEW prog, NEW todo, NEW seen, NEW path, NEW done, Track(prog, todo, seen, path, done),
         NEW j \in 0 .. Len(path), \A e \in ToSet(todo) : Len(e.ancestors) <= j + 1
  PROVE  \E p, d : Track(prog, todo, seen, p, d) /\ Len(p) = j
<1>0. path \in Seq(Nodes(prog)) /\ done \subseteq Nodes(prog) BY DEF Track
<1>1. PICK n \in Nat : n = Len(path) /\ DOMAIN path = 1 .. n BY <1>0
<1>2. \A k \in 1 .. n : path[k] \in Nodes(prog) BY <1>0, <1>1
<1>3. j \in Nat /\ j <= n BY <1>1
<1>4. PICK p : p = SubSeq(path, 1, j) OBVIOUS
<1>5. p \in Seq(Nodes(prog)) /\ Len(p) = j /\ \A k \in 1 .. j : p[k] = path[k]
  <2>1. \A k \in 1 .. j : path[k] \in Nodes(prog) BY <1>2, <1>3
  <2>2. SubSeq(path, 1, j) \in Seq(Nodes(prog)) /\ (Len(SubSeq(path, 1, j)) = IF 1 <= j THEN j - 1 + 1 ELSE 0)
        /\ \A k \in 1 .. j - 1 + 1 : SubSeq(path, 1, j)[k] = path[1 + k - 1]
    BY <2>1, <1>3, SubSeqProperties
  <2> QED BY <1>3, <1>4, <2>2
<1>6. DOMAIN p = 1 .. j BY <1>5
<1>7. PICK d : d = done \cup {path[k] : k \in j + 1 .. n} OBVIOUS
<1>8. d \subseteq Nodes(prog) BY <1>0, <1>2, <1>3, <1>7
<1>9. ASSUME NEW k \in j + 1 .. n, NEW y \in Leads(prog, path[k])
      PROVE  y \in done \/ (k + 1 \in j + 1 .. n /\ y = path[k + 1])
  <2>1. k \in DOMAIN path /\ k \in Nat /\ ~(k + 1 <= j + 1) BY <1>1, <1>3
  <2>2. ~ \E e \in ToSet(todo) : Len(e.ancestors) = k + 1 BY <2>1
  <2>3. k + 1 \in DOMAIN path => k + 1 \in j + 1 .. n BY <1>1, <1>3, <2>1
  <2> QED BY <2>1, <2>2, <2>3 DEF Track, CallsCovered
<1>10. CallClosed(prog, d)
  <2> SUFFICES ASSUME NEW x \in d, NEW y \in Leads(prog, x) PROVE y \in d BY DEF CallClosed
  <2>1. CASE x \in done BY <1>7, <2>1 DEF Track, CallClosed
  <2>2. CASE x \notin done
    <3>1. PICK k \in j + 1 .. n : x = path[k] BY <1>7, <2>2
    <3> QED BY <1>7, <1>9, <3>1
  <2> QED BY <2>1, <2>2
<1>11. Grounded(prog, d)
  <2> SUFFICES ASSUME NEW S \in SUBSET d, S # {} PROVE \E x \in S : Leads(prog, x) \cap S = {} BY DEF Grounded
  <2>1. CASE S \cap done # {}
    <3>1. PICK x \in S \cap done : Leads(prog, x) \cap (S \cap done) = {} BY <2>1 DEF Track, Grounded
    <3>2. Leads(prog, x) \subseteq done BY <3>1 DEF Track, CallClosed
    <3> QED BY <3>1, <3>2
  <2>2. CASE S \cap done = {}
    <3> DEFINE At == {k \in j + 1 .. n : path[k] \in S}
    <3>1. At # {} /\ At \subseteq 1 .. n BY <1>3, <1>7, <2>2
    <3>2. PICK k \in At : \A i \in At : i <= k
      <4> HIDE DEF At
      <4> QED BY <3>1, LargestIn
    <3>3. k \in j + 1 .. n /\ path[k] \in S /\ ~(k + 1 <= k) BY <3>2
    <3>4. ASSUME NEW y \in Leads(prog, path[k]), y \in S PROVE FALSE
      <4>1. k + 1 \in j + 1 .. n /\ y = path[k + 1] BY <1>9, <2>2, <3>3, <3>4
      <4>2. k + 1 \in At BY <4>1, <3>4
      <4> QED BY <3>2, <3>3, <4>2
    <3> QED BY <3>3, <3>4
  <2> QED BY <2>1, <2>2
<1>12. seen = d \cup ToSet(p)
  <2>1. ToSet(p) = {path[k] : k \in 1 .. j} BY <1>5, <1>6 DEF ToSet
  <2>2. ToSet(path) = {path[k] : k \in 1 .. n} BY <1>1 DEF ToSet
  <2>3. 1 .. n = (1 .. j) \cup (j + 1 .. n) BY <1>3
  <2>4. ToSet(path) = {path[k] : k \in 1 .. j} \cup {path[k] : k \in j + 1 .. n} BY <2>2, <2>3
  <2> QED BY <1>7, <2>1, <2>4 DEF Track
<1>13. CallsCovered(prog, todo, d, p)
  <2> SUFFICES ASSUME NEW k \in DOMAIN p, NEW y \in Leads(prog, p[k])
               PROVE  \/ y \in d
                      \/ k + 1 \in DOMAIN p /\ y = p[k + 1]
                      \/ \E e \in ToSet(todo) : NodeOf(e) = y /\ Len(e.ancestors) = k + 1
    BY DEF CallsCovered
  <2>1. k \in 1 .. j /\ k \in DOMAIN path /\ p[k] = path[k] BY <1>1, <1>3, <1>5, <1>6
  <2>2. \/ y \in done
        \/ k + 1 \in DOMAIN path /\ y = path[k + 1]
        \/ \E e \in ToSet(todo) : NodeOf(e) = y /\ Len(e.ancestors) = k + 1
    BY <2>1 DEF Track, CallsCovered
  <2>3. CASE k + 1 \in DOMAIN path /\ y = path[k + 1]
    <3>1. CASE k = j
      <4>1. k + 1 \in j + 1 .. n BY <1>1, <2>3, <3>1
      <4> QED BY <1>7, <2>3, <4>1
    <3>2. CASE k # j
      <4>1. k + 1 \in 1 .. j BY <1>3, <2>1, <3>2
      <4> QED BY <1>5, <1>6, <2>3, <4>1
    <3> QED BY <3>1, <3>2
  <2> QED BY <1>7, <2>2, <2>3
<1>14. Prefixed(todo, p)
  <2> SUFFICES ASSUME NEW e \in ToSet(todo)
               PROVE  /\ Len(e.ancestors) \in 1 .. j + 1 /\ e.ancestors[1] = Root
                      /\ \A k \in 1 .. Len(e.ancestors) - 1 : e.ancestors[k + 1] = p[k][1]
    BY <1>5 DEF Prefixed
  <2>1. /\ Len(e.ancestors) \in 1 .. n + 1 /\ e.ancestors[1] = Root
        /\ \A k \in 1 .. Len(e.ancestors) - 1 : e.ancestors[k + 1] = path[k][1]
    BY <1>1 DEF Track, Prefixed
  <2>2. Len(e.ancestors) <= j + 1 OBVIOUS
  <2>3. \A k \in 1 .. Len(e.ancestors) - 1 : k \in 1 .. j BY <1>3, <2>1, <2>2
  <2> QED BY <1>3, <1>5, <2>1, <2>2, <2>3
<1>15. Track(prog, todo, seen, p, d)
  BY <1>5, <1>8, <1>10, <1>11, <1>12, <1>13, <1>14 DEF Track
<1> QED BY <1>5, <1>15

(* The locals of analyze: the program and the entries still to take have their
   types, the rest is any set. *)
CallTyped(c) ==
  c \in [prog : Programs, todo : Seq(Entries(c.prog)), visited : {c.visited}, frames : {c.frames},
         edges : {c.edges}, recursive : {c.recursive}, unresolved : {c.unresolved},
         indirect : {c.indirect}, romNeeds : {c.romNeeds}, allocators : {c.allocators}]

(* The nodes looked into. *)
SeenNodes(c) == {<<v[1], v[3]>> : v \in c.visited}

IndirectAt(prog, n) ==
  {<<n[1], s.pc>> : s \in {x \in Range(CallSites(prog, n[1])) : IndirectSite(x, n[2])}}

(* What the walk lists is what the nodes it has seen show. *)
Recorded(c) ==
  /\ c.frames = {n[1] : n \in SeenNodes(c)} \cup {Root}
  /\ c.indirect = UNION {IndirectAt(c.prog, n) : n \in SeenNodes(c)}
  /\ c.allocators = (UNION {{x[1] : x \in Leads(c.prog, n)} : n \in SeenNodes(c)}) \cap Allocators

FromHook(prog) == Reachable(prog, {<<Hook, {}>>})
After(prog, n) == Reachable(prog, Leads(prog, n))

Reenters(prog) ==
  \E n \in FromHook(prog) : n[1] = Root \/ \E again \in After(prog, n) : again[1] = n[1]

(* A pending entry is reachable, and beyond every function on its path. *)
Leading(prog, e) ==
  /\ NodeOf(e) \in FromHook(prog) /\ e.ancestors # <<>> /\ e.ancestors[1] = Root
  /\ \A k \in DOMAIN e.ancestors : k # 1 =>
       \E n \in FromHook(prog) : n[1] = e.ancestors[k] /\ NodeOf(e) \in After(prog, n)

Found(c) ==
  /\ \A e \in ToSet(c.todo) : Leading(c.prog, e)
  /\ SeenNodes(c) \subseteq FromHook(c.prog)
  /\ c.recursive # {} => Reenters(c.prog)

(* Later entries are at least as deep. *)
Sorted(todo) ==
  \A i, j \in DOMAIN todo : i <= j => Len(todo[i].ancestors) <= Len(todo[j].ancestors)

TopDepth(todo) == IF todo = <<>> THEN 0 ELSE Len(Last(todo).ancestors) - 1

HookMet(c) ==
  <<Hook, {}>> \in SeenNodes(c) \/ \E e \in ToSet(c.todo) : NodeOf(e) = <<Hook, {}>>

(* Without recursion the walk is a depth-first search: there is a path of
   nodes to the next entry, and what is seen and not on it is done. *)
Searched(c) ==
  c.recursive = {} =>
    /\ HookMet(c)
    /\ \E path, done : Track(c.prog, c.todo, SeenNodes(c), path, done) /\ Len(path) = TopDepth(c.todo)

CallInv(c) == CallTyped(c) /\ Recorded(c) /\ Found(c) /\ Sorted(c.todo) /\ Searched(c)

(* What the hook reaches is a closed set of nodes. *)
LEMMA HookNode == ASSUME NEW prog \in Programs
  PROVE /\ {<<Hook, {}>>} \subseteq Nodes(prog) /\ <<Hook, {}>> \in FromHook(prog)
        /\ CallClosed(prog, FromHook(prog)) /\ FromHook(prog) \subseteq Nodes(prog)
<1>1. {<<Hook, {}>>} \subseteq Nodes(prog) BY CallAssumption DEF Nodes
<1>2. PICK from : from = {<<Hook, {}>>} OBVIOUS
<1>3. /\ CallClosed(prog, Reachable(prog, from)) /\ from \subseteq Reachable(prog, from)
      /\ Reachable(prog, from) \subseteq Nodes(prog)
  BY <1>1, <1>2, ReachClosed
<1> QED BY <1>1, <1>2, <1>3 DEF FromHook

(* What lies beyond a node is closed. *)
LEMMA AfterNode == ASSUME NEW prog \in Programs, NEW n \in Nodes(prog)
  PROVE CallClosed(prog, After(prog, n)) /\ Leads(prog, n) \subseteq After(prog, n)
  BY LeadsNodes, ReachClosed DEF After

(* From a path with all of what is pending above its end. *)
LEMMA Settled ==
  ASSUME NEW prog, NEW todo \in Seq(Entries(prog)), NEW seen, NEW path, NEW done,
         Track(prog, todo, seen, path, done), Sorted(todo)
  PROVE  \E p, d : Track(prog, todo, seen, p, d) /\ Len(p) = TopDepth(todo)
<1>1. PICK j : j = TopDepth(todo) OBVIOUS
<1>2. j \in 0 .. Len(path) /\ \A e \in ToSet(todo) : Len(e.ancestors) <= j + 1
  <2>0. path \in Seq(Nodes(prog)) /\ Len(path) \in Nat BY DEF Track
  <2>1. CASE todo = <<>>
    <3>1. ToSet(todo) = {} BY <2>1 DEF ToSet
    <3> QED BY <1>1, <2>0, <2>1, <3>1 DEF TopDepth
  <2>2. CASE todo # <<>>
    <3>1. PICK n \in Nat \ {0} : n = Len(todo) /\ DOMAIN todo = 1 .. n BY <2>2
    <3>2. Last(todo) = todo[n] /\ n \in DOMAIN todo BY <3>1 DEF Last
    <3>3. todo[n] \in ToSet(todo) BY <3>2 DEF ToSet
    <3>4. Len(todo[n].ancestors) \in 1 .. Len(path) + 1 BY <3>3 DEF Track, Prefixed
    <3>5. j = Len(todo[n].ancestors) - 1 BY <1>1, <2>2, <3>2 DEF TopDepth
    <3>6. ASSUME NEW e \in ToSet(todo) PROVE Len(e.ancestors) <= j + 1
      <4>1. PICK i \in DOMAIN todo : e = todo[i] BY DEF ToSet
      <4>2. i <= n BY <3>1
      <4>3. Len(todo[i].ancestors) <= Len(todo[n].ancestors) BY <3>2, <4>2 DEF Sorted
      <4> QED BY <2>0, <3>4, <3>5, <4>1, <4>3
    <3> QED BY <2>0, <3>4, <3>5, <3>6
  <2> QED BY <2>1, <2>2
<1> QED BY <1>1, <1>2, Settle

(* The walk starts with the hook below the entry function. *)
LEMMA CallStarts == ASSUME CallInit PROVE CallInv(call)
<1>1. PICK prog \in Programs : CallStart(prog) BY DEF CallInit
<1>2. PICK e : e = Entry(Hook, <<Root>>, {}, FALSE) OBVIOUS
<1>3. /\ e.fn = Hook /\ e.context = {} /\ e.ancestors = <<Root>> /\ NodeOf(e) = <<Hook, {}>>
      /\ e \in Entries(prog)
  BY <1>2, CallAssumption DEF Entry, Entries, NodeOf, Contexts
<1>4. PICK todo : todo = <<e>> OBVIOUS
<1>5. todo \in Seq(Entries(prog)) /\ ToSet(todo) = {e} /\ DOMAIN todo = {1} /\ Last(todo) = e /\ todo # <<>>
  BY <1>3, <1>4 DEF ToSet, Last
<1>6. call = [prog |-> prog, todo |-> todo,
              visited |-> {}, frames |-> {Root}, edges |-> {}, recursive |-> {},
              unresolved |-> {}, indirect |-> {}, romNeeds |-> {}, allocators |-> {}]
  BY <1>1, <1>2, <1>4 DEF CallStart
<1>7. /\ call.prog = prog /\ call.todo = todo /\ call.visited = {} /\ call.frames = {Root}
      /\ call.recursive = {} /\ call.indirect = {} /\ call.allocators = {}
  BY <1>6
<1>8. CallTyped(call) BY <1>5, <1>6 DEF CallTyped
<1>9. SeenNodes(call) = {} BY <1>7 DEF SeenNodes
<1>10. Recorded(call) BY <1>7, <1>9 DEF Recorded
<1>11. Leading(prog, e)
  <2>1. e.ancestors # <<>> /\ e.ancestors[1] = Root /\ DOMAIN e.ancestors = {1} BY <1>3
  <2> QED BY <1>3, <2>1, HookNode DEF Leading
<1>12. Found(call) BY <1>5, <1>7, <1>9, <1>11 DEF Found
<1>13. Len(e.ancestors) = 1 BY <1>3
<1>14. Sorted(todo) BY <1>4, <1>5, <1>13 DEF Sorted
<1>15. Track(prog, todo, {}, <<>>, {})
  <2>1. <<>> \in Seq(Nodes(prog)) /\ DOMAIN <<>> = {} /\ ToSet(<<>>) = {} /\ Len(<<>>) = 0 BY DEF ToSet
  <2>2. CallsCovered(prog, todo, {}, <<>>) BY <2>1 DEF CallsCovered
  <2>3. Prefixed(todo, <<>>) BY <1>3, <1>5, <1>13, <2>1 DEF Prefixed
  <2> QED BY <2>1, <2>2, <2>3 DEF Track, CallClosed, Grounded
<1>16. Len(<<>>) = TopDepth(todo) BY <1>5, <1>13 DEF TopDepth
<1>17. Searched(call) BY <1>3, <1>5, <1>7, <1>9, <1>15, <1>16 DEF Searched, HookMet
<1> QED BY <1>7, <1>8, <1>10, <1>12, <1>14, <1>17 DEF CallInv

(* What is left after a pop is still in order of depth. *)
LEMMA FrontSorted ==
  ASSUME NEW S, NEW todo \in Seq(S), todo # <<>>, Sorted(todo)
  PROVE  Sorted(Front(todo))
<1>1. PICK q : q = Front(todo) OBVIOUS
<1>2. DOMAIN q \subseteq DOMAIN todo /\ \A i \in DOMAIN q : q[i] = todo[i] BY <1>1, PopLast
<1>3. Sorted(q) BY <1>2 DEF Sorted
<1> QED BY <1>1, <1>3

(* A function met on its own path can be entered again from itself. *)
LEMMA CallRecursiveStep == ASSUME CallInv(call), CallRecursive PROVE CallInv(call)'
<1>1. PICK c : c = call OBVIOUS
<1>2. PICK e : e = Last(c.todo) OBVIOUS
<1>3. CallTyped(c) /\ c.todo # <<>> /\ e.fn \in Range(e.ancestors)
      /\ call' = [c EXCEPT !.todo = Front(c.todo), !.recursive = @ \cup {e.fn}]
  BY <1>1, <1>2 DEF CallInv, CallRecursive, Item, OnPath
<1>4. PICK d : d = call' OBVIOUS
<1>5. c.todo \in Seq(Entries(c.prog)) /\ c.prog \in Programs BY <1>3 DEF CallTyped
<1>6. PICK q \in Seq(Entries(c.prog)) : q = Front(c.todo) BY <1>3, <1>5, PopLast
<1>7. e \in ToSet(c.todo) /\ ToSet(c.todo) = ToSet(q) \cup {e} BY <1>2, <1>3, <1>5, <1>6, PopLast
<1>8. /\ d.prog = c.prog /\ d.todo = q /\ d.visited = c.visited /\ d.frames = c.frames
      /\ d.recursive = c.recursive \cup {e.fn} /\ d.indirect = c.indirect /\ d.allocators = c.allocators
  BY <1>3, <1>4, <1>6 DEF CallTyped
<1>9. CallTyped(d)
  <2>1. d = [c EXCEPT !.todo = q, !.recursive = @ \cup {e.fn}] BY <1>3, <1>4, <1>6
  <2> QED BY <1>3, <2>1 DEF CallTyped
<1>10. SeenNodes(d) = SeenNodes(c) BY <1>8 DEF SeenNodes
<1>11. Recorded(d) BY <1>1, <1>8, <1>10 DEF CallInv, Recorded
<1>12. Reenters(c.prog)
  <2>1. Leading(c.prog, e) BY <1>1, <1>7 DEF CallInv, Found
  <2>2. PICK k \in DOMAIN e.ancestors : e.fn = e.ancestors[k] BY <1>3 DEF Range
  <2>3. NodeOf(e) \in FromHook(c.prog) /\ NodeOf(e)[1] = e.fn BY <2>1 DEF Leading, NodeOf
  <2>4. CASE k = 1 BY <2>1, <2>2, <2>3, <2>4 DEF Leading, Reenters
  <2>5. CASE k # 1 BY <2>1, <2>2, <2>3, <2>5 DEF Leading, Reenters
  <2> QED BY <2>4, <2>5
<1>13. Found(d) BY <1>1, <1>7, <1>8, <1>10, <1>12 DEF CallInv, Found
<1>14. Sorted(d.todo) BY <1>1, <1>3, <1>5, <1>6, <1>8, FrontSorted DEF CallInv
<1>15. Searched(d) BY <1>8 DEF Searched
<1>16. CallInv(d) BY <1>9, <1>11, <1>13, <1>14, <1>15 DEF CallInv
<1> QED BY <1>4, <1>16

(* An entry off its path whose node was seen is done. *)
LEMMA OffPathDone ==
  ASSUME NEW prog, NEW todo, NEW seen, NEW path, NEW done, Track(prog, todo, seen, path, done),
         NEW e \in ToSet(todo), e.ancestors \in Seq(Linked), Len(path) = Len(e.ancestors) - 1,
         e.fn \notin Range(e.ancestors)
  PROVE  NodeOf(e) \notin ToSet(path) /\ e.fn # Root /\ Len(e.ancestors) = Len(path) + 1
<1>0. path \in Seq(Nodes(prog)) BY DEF Track
<1>1. PICK n \in Nat : n = Len(path) /\ DOMAIN path = 1 .. n BY <1>0
<1>2. /\ Len(e.ancestors) \in 1 .. n + 1 /\ e.ancestors[1] = Root
      /\ \A k \in 1 .. Len(e.ancestors) - 1 : e.ancestors[k + 1] = path[k][1]
  BY <1>1 DEF Track, Prefixed
<1>3. Len(e.ancestors) = n + 1 /\ DOMAIN e.ancestors = 1 .. n + 1 BY <1>1, <1>2
<1>4. e.fn # Root
  <2>1. 1 \in DOMAIN e.ancestors BY <1>3
  <2> QED BY <1>2, <2>1 DEF Range
<1>5. ASSUME NEW k \in 1 .. n, path[k] = NodeOf(e) PROVE FALSE
  <2>1. k \in 1 .. Len(e.ancestors) - 1 /\ k + 1 \in DOMAIN e.ancestors BY <1>3
  <2>2. e.ancestors[k + 1] = e.fn BY <1>2, <1>5, <2>1 DEF NodeOf
  <2> QED BY <2>1, <2>2 DEF Range
<1>6. NodeOf(e) \notin ToSet(path) BY <1>1, <1>5 DEF ToSet
<1> QED BY <1>1, <1>3, <1>4, <1>6

(* An entry whose key was visited is done: it is not on the path. *)
LEMMA CallSeenStep == ASSUME CallInv(call), CallSeen PROVE CallInv(call)'
<1>1. PICK c : c = call OBVIOUS
<1>2. PICK e : e = Last(c.todo) OBVIOUS
<1>3. CallTyped(c) /\ c.todo # <<>> /\ e.fn \notin Range(e.ancestors)
      /\ <<e.fn, Last(e.ancestors), e.context>> \in c.visited
      /\ call' = [c EXCEPT !.todo = Front(c.todo)]
  BY <1>1, <1>2 DEF CallInv, CallSeen, Item, OnPath, Key
<1>4. PICK d : d = call' OBVIOUS
<1>5. c.todo \in Seq(Entries(c.prog)) /\ c.prog \in Programs BY <1>3 DEF CallTyped
<1>6. PICK q \in Seq(Entries(c.prog)) : q = Front(c.todo) BY <1>3, <1>5, PopLast
<1>7. e \in ToSet(c.todo) /\ ToSet(c.todo) = ToSet(q) \cup {e} /\ e \in Entries(c.prog)
  BY <1>2, <1>3, <1>5, <1>6, PopLast
<1>8. /\ d.prog = c.prog /\ d.todo = q /\ d.visited = c.visited /\ d.frames = c.frames
      /\ d.recursive = c.recursive /\ d.indirect = c.indirect /\ d.allocators = c.allocators
  BY <1>3, <1>4, <1>6 DEF CallTyped
<1>9. CallTyped(d)
  <2>1. d = [c EXCEPT !.todo = q] BY <1>3, <1>4, <1>6
  <2> QED BY <1>3, <2>1 DEF CallTyped
<1>10. SeenNodes(d) = SeenNodes(c) BY <1>8 DEF SeenNodes
<1>11. Recorded(d) BY <1>1, <1>8, <1>10 DEF CallInv, Recorded
<1>12. Found(d) BY <1>1, <1>7, <1>8, <1>10 DEF CallInv, Found
<1>13. Sorted(q) BY <1>1, <1>3, <1>5, <1>6, FrontSorted DEF CallInv
<1>14. Searched(d)
  <2> SUFFICES ASSUME c.recursive = {}
               PROVE  /\ HookMet(d)
                      /\ \E path, done : Track(c.prog, q, SeenNodes(c), path, done) /\ Len(path) = TopDepth(q)
    BY <1>8, <1>10 DEF Searched
  <2>1. NodeOf(e) \in SeenNodes(c)
    <3>1. PICK v \in c.visited : v = <<e.fn, Last(e.ancestors), e.context>> BY <1>3
    <3>2. v[1] = e.fn /\ v[3] = e.context BY <3>1
    <3> QED BY <3>2 DEF SeenNodes, NodeOf
  <2>2. HookMet(d) BY <1>1, <1>7, <1>8, <1>10, <2>1 DEF CallInv, Searched, HookMet
  <2>3. PICK path, done : Track(c.prog, c.todo, SeenNodes(c), path, done) /\ Len(path) = TopDepth(c.todo)
    BY <1>1 DEF CallInv, Searched
  <2>4. Len(path) = Len(e.ancestors) - 1 BY <1>2, <1>3, <2>3 DEF TopDepth
  <2>5. e.ancestors \in Seq(Linked) BY <1>7 DEF Entries
  <2>6. NodeOf(e) \notin ToSet(path) BY <1>3, <1>7, <2>3, <2>4, <2>5, OffPathDone
  <2>7. NodeOf(e) \in done BY <2>1, <2>3, <2>6 DEF Track
  <2>8. CallsCovered(c.prog, q, done, path) BY <1>7, <2>3, <2>7 DEF Track, CallsCovered
  <2>9. Prefixed(q, path) BY <1>7, <2>3 DEF Track, Prefixed
  <2>10. Track(c.prog, q, SeenNodes(c), path, done) BY <2>3, <2>8, <2>9 DEF Track
  <2> QED BY <1>13, <2>2, <2>10, Settled
<1>15. CallInv(d) BY <1>8, <1>9, <1>11, <1>12, <1>13, <1>14 DEF CallInv
<1> QED BY <1>4, <1>15

(* The entries pushed come after those left, one level deeper. *)
LEMMA PushSorted ==
  ASSUME NEW S, NEW todo \in Seq(S), todo # <<>>, Sorted(todo), NEW new \in Seq(S),
         Len(Last(todo).ancestors) \in Nat,
         \A e \in ToSet(new) : Len(e.ancestors) = Len(Last(todo).ancestors) + 1,
         \A e \in ToSet(todo) : Len(e.ancestors) \in Nat
  PROVE  Sorted(Front(todo) \o new)
<1>1. PICK q \in Seq(S) : q = Front(todo) BY PopLast
<1>2. PICK depth \in Nat : depth = Len(Last(todo).ancestors) OBVIOUS
<1>3. /\ DOMAIN q \subseteq DOMAIN todo
      /\ \A i \in DOMAIN q : q[i] = todo[i] /\ i <= Len(todo)
      /\ Last(todo) = todo[Len(todo)] /\ Len(todo) \in DOMAIN todo
  BY <1>1, PopLast
<1>4. \A i \in DOMAIN q : Len(q[i].ancestors) <= depth BY <1>2, <1>3 DEF Sorted
<1>5. \A i \in DOMAIN q : Len(q[i].ancestors) \in Nat BY <1>3 DEF ToSet
<1>6. \A i \in DOMAIN new : Len(new[i].ancestors) = depth + 1 BY <1>2 DEF ToSet
<1>7. Sorted(q) BY <1>3 DEF Sorted
<1>8. /\ q \o new \in Seq(S) /\ Len(q \o new) = Len(q) + Len(new)
      /\ \A i \in 1 .. Len(q) + Len(new) : (q \o new)[i] = IF i <= Len(q) THEN q[i] ELSE new[i - Len(q)]
  BY ConcatProperties
<1>9. PICK u \in Seq(S) : u = q \o new BY <1>8
<1>10. PICK a \in Nat, b \in Nat : a = Len(q) /\ b = Len(new) /\ DOMAIN q = 1 .. a /\ DOMAIN new = 1 .. b
         /\ DOMAIN u = 1 .. a + b
  BY <1>8, <1>9
<1>11. \A i \in DOMAIN u : \/ i \in DOMAIN q /\ u[i] = q[i]
                           \/ i > a /\ i - a \in DOMAIN new /\ u[i] = new[i - a]
  BY <1>8, <1>9, <1>10
<1>12. ASSUME NEW i \in DOMAIN u, NEW j \in DOMAIN u, i <= j
       PROVE  Len(u[i].ancestors) <= Len(u[j].ancestors)
  <2>1. CASE i \in DOMAIN q /\ u[i] = q[i] /\ j \in DOMAIN q /\ u[j] = q[j]
    BY <1>7, <1>12, <2>1 DEF Sorted
  <2>2. CASE i \in DOMAIN q /\ u[i] = q[i] /\ j - a \in DOMAIN new /\ u[j] = new[j - a]
    <3>1. Len(u[i].ancestors) <= depth /\ Len(u[i].ancestors) \in Nat BY <1>4, <1>5, <2>2
    <3>2. Len(u[j].ancestors) = depth + 1 BY <1>6, <2>2
    <3> QED BY <3>1, <3>2
  <2>3. CASE i - a \in DOMAIN new /\ u[i] = new[i - a] /\ j - a \in DOMAIN new /\ u[j] = new[j - a]
    <3>1. Len(u[i].ancestors) = depth + 1 BY <1>6, <2>3
    <3>2. Len(u[j].ancestors) = depth + 1 BY <1>6, <2>3
    <3> QED BY <3>1, <3>2
  <2>4. CASE i > a /\ j \in DOMAIN q
    <3>1. j <= a BY <1>10, <2>4
    <3> QED BY <1>10, <1>12, <2>4, <3>1
  <2> QED BY <1>11, <2>1, <2>2, <2>3, <2>4
<1>13. Sorted(u) BY <1>12 DEF Sorted
<1> QED BY <1>1, <1>9, <1>13

(* The search goes one node deeper. *)
LEMMA TrackDeeper ==
  ASSUME NEW prog \in Programs, NEW todo \in Seq(Entries(prog)), todo # <<>>,
         NEW seen, NEW path, NEW done, Track(prog, todo, seen, path, done),
         NEW e, e = Last(todo), Len(path) = Len(e.ancestors) - 1,
         e.fn \notin Range(e.ancestors), NodeOf(e) \in Nodes(prog),
         NEW new \in Seq(Entries(prog)), Follow(prog, NodeOf(e), Append(e.ancestors, e.fn), new)
  PROVE  Track(prog, Front(todo) \o new, seen \cup {NodeOf(e)}, Append(path, NodeOf(e)), done)
<1>1. PICK x \in Nodes(prog) : x = NodeOf(e) OBVIOUS
<1>2. PICK q \in Seq(Entries(prog)) : q = Front(todo) BY PopLast
<1>3. e \in Entries(prog) /\ e \in ToSet(todo) /\ ToSet(todo) = ToSet(q) \cup {e} BY <1>2, PopLast
<1>4. PICK u : u = q \o new OBVIOUS
<1>5. ToSet(u) = ToSet(q) \cup ToSet(new) BY <1>4, ConcatElements
<1>6. path \in Seq(Nodes(prog)) BY DEF Track
<1>7. PICK n \in Nat : n = Len(path) /\ DOMAIN path = 1 .. n BY <1>6
<1>8. e.ancestors \in Seq(Linked) /\ e.fn \in Linked BY <1>3 DEF Entries
<1>9. NodeOf(e) \notin ToSet(path) /\ e.fn # Root /\ Len(e.ancestors) = n + 1
  BY <1>3, <1>7, <1>8, OffPathDone
<1>10. PICK p : p = Append(path, x) OBVIOUS
<1>11. /\ p \in Seq(Nodes(prog)) /\ Len(p) = n + 1 /\ p[n + 1] = x
       /\ \A k \in 1 .. n : p[k] = path[k]
  BY <1>6, <1>7, <1>10, AppendProperties
<1>12. DOMAIN p = 1 .. n + 1 BY <1>11
<1>13. PICK anc : anc = Append(e.ancestors, e.fn) OBVIOUS
<1>14. /\ Len(anc) = n + 2 /\ anc[n + 2] = e.fn
       /\ \A k \in 1 .. n + 1 : anc[k] = e.ancestors[k]
  <2>1. PICK a \in Seq(Linked), f \in Linked : a = e.ancestors /\ f = e.fn BY <1>8
  <2>2. /\ Len(Append(a, f)) = Len(a) + 1
        /\ \A k \in 1 .. Len(a) : Append(a, f)[k] = a[k]
        /\ Append(a, f)[Len(a) + 1] = f
    BY AppendProperties
  <2>3. Len(a) = n + 1 BY <1>9, <2>1
  <2> QED BY <1>13, <2>1, <2>2, <2>3
<1>15. \A w \in ToSet(new) : w.ancestors = anc /\ NodeOf(w) \in Leads(prog, x) BY <1>1, <1>13 DEF Follow
<1>16. \A y \in Leads(prog, x) : \E w \in ToSet(new) : NodeOf(w) = y BY <1>1 DEF Follow
<1>17. CallsCovered(prog, u, done, p)
  <2> SUFFICES ASSUME NEW k \in DOMAIN p, NEW y \in Leads(prog, p[k])
               PROVE  \/ y \in done
                      \/ k + 1 \in DOMAIN p /\ y = p[k + 1]
                      \/ \E w \in ToSet(u) : NodeOf(w) = y /\ Len(w.ancestors) = k + 1
    BY DEF CallsCovered
  <2>1. CASE k = n + 1
    <3>1. PICK w \in ToSet(new) : NodeOf(w) = y BY <1>11, <1>16, <2>1
    <3>2. Len(w.ancestors) = k + 1 BY <1>14, <1>15, <2>1, <3>1
    <3> QED BY <1>5, <3>1, <3>2
  <2>2. CASE k # n + 1
    <3>1. k \in 1 .. n /\ k + 1 \in DOMAIN p /\ p[k] = path[k] BY <1>11, <1>12, <2>2
    <3>2. \/ y \in done
          \/ k + 1 \in DOMAIN path /\ y = path[k + 1]
          \/ \E w \in ToSet(todo) : NodeOf(w) = y /\ Len(w.ancestors) = k + 1
      BY <1>7, <3>1 DEF Track, CallsCovered
    <3>3. CASE k + 1 \in DOMAIN path /\ y = path[k + 1] BY <1>7, <1>11, <3>1, <3>3
    <3>4. CASE \E w \in ToSet(todo) : NodeOf(w) = y /\ Len(w.ancestors) = k + 1
      <4>1. PICK w \in ToSet(todo) : NodeOf(w) = y /\ Len(w.ancestors) = k + 1 BY <3>4
      <4>2. CASE w \in ToSet(q) BY <1>5, <4>1, <4>2
      <4>3. CASE w = e
        <5>1. k = n BY <1>9, <3>1, <4>1, <4>3
        <5> QED BY <1>1, <1>11, <3>1, <4>1, <4>3, <5>1
      <4> QED BY <1>3, <4>2, <4>3
    <3> QED BY <3>2, <3>3, <3>4
  <2> QED BY <2>1, <2>2
<1>18. Prefixed(todo, path) BY DEF Track
<1>19. Prefixed(u, p)
  <2> SUFFICES ASSUME NEW w \in ToSet(u)
               PROVE  /\ Len(w.ancestors) \in 1 .. n + 2 /\ w.ancestors[1] = Root
                      /\ \A k \in 1 .. Len(w.ancestors) - 1 : w.ancestors[k + 1] = p[k][1]
    BY <1>11 DEF Prefixed
  <2>1. CASE w \in ToSet(q)
    <3>1. /\ Len(w.ancestors) \in 1 .. n + 1 /\ w.ancestors[1] = Root
          /\ \A k \in 1 .. Len(w.ancestors) - 1 : w.ancestors[k + 1] = path[k][1]
      BY <1>3, <1>7, <1>18, <2>1 DEF Prefixed
    <3>2. \A k \in 1 .. Len(w.ancestors) - 1 : k \in 1 .. n BY <3>1
    <3>3. ASSUME NEW k \in 1 .. Len(w.ancestors) - 1 PROVE w.ancestors[k + 1] = p[k][1]
      <4>1. p[k] = path[k] BY <1>11, <3>2
      <4> QED BY <3>1, <4>1
    <3>4. Len(w.ancestors) \in 1 .. n + 2 BY <3>1
    <3> QED BY <3>1, <3>3, <3>4
  <2>2. CASE w \in ToSet(new)
    <3>1. w.ancestors = anc BY <1>15, <2>2
    <3>2. e.ancestors[1] = Root /\ \A k \in 1 .. n : e.ancestors[k + 1] = path[k][1]
      <4>1. /\ e.ancestors[1] = Root
            /\ \A k \in 1 .. Len(e.ancestors) - 1 : e.ancestors[k + 1] = path[k][1]
        BY <1>3, <1>18 DEF Prefixed
      <4>2. Len(e.ancestors) - 1 = n BY <1>9
      <4> QED BY <4>1, <4>2
    <3>3. anc[1] = Root BY <1>14, <3>2
    <3>4. ASSUME NEW k \in 1 .. n + 1 PROVE anc[k + 1] = p[k][1]
      <4>1. CASE k = n + 1
        <5>1. anc[k + 1] = e.fn BY <1>14, <4>1
        <5>2. p[k] = x /\ x[1] = e.fn BY <1>1, <1>11, <4>1 DEF NodeOf
        <5> QED BY <5>1, <5>2
      <4>2. CASE k # n + 1
        <5>1. k \in 1 .. n /\ k + 1 \in 1 .. n + 1 BY <4>2
        <5> QED BY <1>11, <1>14, <3>2, <5>1
      <4> QED BY <4>1, <4>2
    <3> QED BY <1>14, <3>1, <3>3, <3>4
  <2> QED BY <1>5, <2>1, <2>2
<1>20. seen \cup {x} = done \cup ToSet(p)
  <2>1. seen = done \cup ToSet(path) BY DEF Track
  <2>2. ToSet(p) = ToSet(path) \cup {x}
    <3>1. 1 .. n + 1 = (1 .. n) \cup {n + 1} OBVIOUS
    <3>2. ToSet(p) = {p[k] : k \in 1 .. n + 1} /\ ToSet(path) = {path[k] : k \in 1 .. n}
      BY <1>7, <1>12 DEF ToSet
    <3>3. \A y \in ToSet(p) : y \in ToSet(path) \cup {x} BY <1>11, <3>1, <3>2
    <3>4. \A y \in ToSet(path) \cup {x} : y \in ToSet(p) BY <1>11, <3>1, <3>2
    <3> QED BY <3>3, <3>4
  <2> QED BY <2>1, <2>2
<1>21. \A m \in seen \cup {x} : m[1] # Root
  <2>1. x[1] # Root BY <1>1, <1>9 DEF NodeOf
  <2> QED BY <2>1 DEF Track
<1>22. Track(prog, u, seen \cup {x}, p, done)
  BY <1>11, <1>17, <1>19, <1>20, <1>21 DEF Track
<1> QED BY <1>1, <1>2, <1>4, <1>10, <1>22

(* An entry pushed for a reachable node is reachable by the longer path. *)
LEMMA LeadingOn ==
  ASSUME NEW prog \in Programs, NEW e \in Entries(prog), Leading(prog, e), NodeOf(e) \in Nodes(prog),
         NEW w, w.ancestors = Append(e.ancestors, e.fn), NodeOf(w) \in Leads(prog, NodeOf(e))
  PROVE  Leading(prog, w)
<1>1. PICK a \in Seq(Linked), f \in Linked : a = e.ancestors /\ f = e.fn BY DEF Entries
<1>2. PICK n \in Nat : n = Len(a) /\ DOMAIN a = 1 .. n BY <1>1
<1>3. PICK b : b = Append(a, f) OBVIOUS
<1>4. b \in Seq(Linked) /\ Len(b) = n + 1 /\ (\A k \in 1 .. n : b[k] = a[k]) /\ b[n + 1] = f
  BY <1>2, <1>3, AppendProperties
<1>5. DOMAIN b = 1 .. n + 1 BY <1>4
<1>6. w.ancestors = b BY <1>1, <1>3
<1>x. PICK x \in Nodes(prog) : x = NodeOf(e) OBVIOUS
<1>y. PICK y \in Leads(prog, x) : y = NodeOf(w) BY <1>x
<1>7. x = NodeOf(e) /\ y = NodeOf(w) /\ y \in Leads(prog, x) BY <1>x, <1>y
<1>8. x \in FromHook(prog) /\ a # <<>> /\ a[1] = Root BY <1>1, <1>7 DEF Leading
<1>9. y \in FromHook(prog) BY <1>7, <1>8, HookNode DEF CallClosed
<1>10. 1 \in 1 .. n BY <1>1, <1>2, <1>8
<1>11. b # <<>> /\ b[1] = Root BY <1>4, <1>8, <1>10
<1>12. ASSUME NEW k \in DOMAIN b, k # 1
       PROVE  \E m \in FromHook(prog) : m[1] = b[k] /\ y \in After(prog, m)
  <2>1. CASE k = n + 1
    <3>1. x[1] = b[k] BY <1>1, <1>4, <1>7, <2>1 DEF NodeOf
    <3>2. y \in After(prog, x) BY <1>7, AfterNode
    <3> QED BY <1>8, <3>1, <3>2
  <2>2. CASE k # n + 1
    <3>1. k \in 1 .. n /\ b[k] = a[k] BY <1>4, <1>5, <2>2
    <3>2. PICK m \in FromHook(prog) : m[1] = a[k] /\ x \in After(prog, m)
      BY <1>1, <1>2, <1>7, <1>12, <3>1 DEF Leading
    <3>3. m \in Nodes(prog) BY HookNode
    <3>4. y \in After(prog, m) BY <1>7, <3>2, <3>3, AfterNode DEF CallClosed
    <3> QED BY <3>1, <3>2, <3>4
  <2> QED BY <2>1, <2>2
<1> QED BY <1>6, <1>7, <1>9, <1>11, <1>12 DEF Leading

(* What a visit lists is what its node shows. *)
LEMMA RecordedOn ==
  ASSUME NEW c, NEW d, Recorded(c), NEW x, SeenNodes(d) = SeenNodes(c) \cup {x}, d.prog = c.prog,
         d.frames = c.frames \cup {x[1]},
         d.indirect = c.indirect \cup IndirectAt(c.prog, x),
         d.allocators = c.allocators \cup UNION {{t[1] : t \in SiteTargets(s, x[2])} \cap Allocators :
                                                   s \in Range(CallSites(c.prog, x[1]))}
  PROVE  Recorded(d)
<1>1. d.frames = {n[1] : n \in SeenNodes(d)} \cup {Root} BY DEF Recorded
<1>2. d.indirect = UNION {IndirectAt(d.prog, n) : n \in SeenNodes(d)} BY DEF Recorded
<1>3. UNION {{t[1] : t \in SiteTargets(s, x[2])} \cap Allocators : s \in Range(CallSites(c.prog, x[1]))}
        = {y[1] : y \in Leads(c.prog, x)} \cap Allocators
  <2> DEFINE L == UNION {{t[1] : t \in SiteTargets(s, x[2])} \cap Allocators : s \in Range(CallSites(c.prog, x[1]))}
             R == {y[1] : y \in Leads(c.prog, x)} \cap Allocators
  <2>1. ASSUME NEW z \in L PROVE z \in R
    <3>1. PICK s \in Range(CallSites(c.prog, x[1])) : z \in {t[1] : t \in SiteTargets(s, x[2])} /\ z \in Allocators
      OBVIOUS
    <3>2. PICK t \in SiteTargets(s, x[2]) : z = t[1] BY <3>1
    <3>3. PICK y : y = <<t[1], IF t[1] \in Once THEN CallbackNames(s, x[2]) ELSE {}>> OBVIOUS
    <3>4. y \in Leads(c.prog, x) /\ y[1] = z BY <3>2, <3>3 DEF Leads
    <3> QED BY <3>1, <3>4
  <2>2. ASSUME NEW z \in R PROVE z \in L
    <3>1. PICK y \in Leads(c.prog, x) : z = y[1] /\ z \in Allocators OBVIOUS
    <3>2. PICK s \in Range(CallSites(c.prog, x[1])) : \E t \in SiteTargets(s, x[2]) :
            y = <<t[1], IF t[1] \in Once THEN CallbackNames(s, x[2]) ELSE {}>>
      BY <3>1 DEF Leads
    <3>3. PICK t \in SiteTargets(s, x[2]) : y = <<t[1], IF t[1] \in Once THEN CallbackNames(s, x[2]) ELSE {}>>
      BY <3>2
    <3>4. z = t[1] BY <3>1, <3>3
    <3> QED BY <3>1, <3>2, <3>4
  <2> HIDE DEF L, R
  <2>3. L = R BY <2>1, <2>2
  <2> QED BY <2>3 DEF L, R
<1>4. d.allocators = c.allocators \cup ({y[1] : y \in Leads(c.prog, x)} \cap Allocators) BY <1>3
<1>5. c.allocators = (UNION {{y[1] : y \in Leads(c.prog, n)} : n \in SeenNodes(c)}) \cap Allocators
  BY DEF Recorded
<1>6. d.allocators = (UNION {{y[1] : y \in Leads(d.prog, n)} : n \in SeenNodes(d)}) \cap Allocators
  <2> DEFINE F(n) == {y[1] : y \in Leads(c.prog, n)}
  <2>1. UNION {F(n) : n \in SeenNodes(d)} = (UNION {F(n) : n \in SeenNodes(c)}) \cup F(x)
    <3> HIDE DEF F
    <3> QED OBVIOUS
  <2> QED BY <1>4, <1>5, <2>1
<1> QED BY <1>1, <1>2, <1>6 DEF Recorded

(* A visit goes one node deeper, or settles when nothing was pushed. *)
LEMMA CallVisitStep == ASSUME CallInv(call), CallVisit PROVE CallInv(call)'
<1>1. PICK c : c = call OBVIOUS
<1>2. PICK e : e = Last(c.todo) OBVIOUS
<1>3. PICK d : d = call' OBVIOUS
<1>4. /\ CallTyped(c) /\ c.todo # <<>> /\ e.fn \notin Range(e.ancestors) /\ e = Item
      /\ Recorded(c) /\ Found(c) /\ Sorted(c.todo) /\ Searched(c)
  BY <1>1, <1>2 DEF CallInv, CallVisit, Item, OnPath
<1>5. c.todo \in Seq(Entries(c.prog)) /\ c.prog \in Programs BY <1>4 DEF CallTyped
<1>a. PICK prog \in Programs : prog = c.prog BY <1>5
<1>b. PICK todo \in Seq(Entries(prog)) : todo = c.todo BY <1>5, <1>a
<1>6. prog = c.prog /\ todo = c.todo BY <1>a, <1>b
<1>7. PICK q \in Seq(Entries(prog)) : q = Front(todo) BY <1>4, <1>6, PopLast
<1>8. e \in ToSet(todo) /\ ToSet(todo) = ToSet(q) \cup {e} /\ e \in Entries(prog)
  <2>1. todo # <<>> /\ e = Last(todo) BY <1>2, <1>4, <1>6
  <2>2. PICK S : S = Entries(prog) OBVIOUS
  <2>3. Last(todo) \in S /\ Last(todo) \in ToSet(todo) /\ ToSet(todo) = ToSet(Front(todo)) \cup {Last(todo)}
    BY <2>1, <2>2, PopLast
  <2> QED BY <1>7, <2>1, <2>2, <2>3
<1>9. Leading(prog, e) BY <1>4, <1>6, <1>8 DEF Found
<1>10. PICK x \in Nodes(prog) : x = NodeOf(e) BY <1>9, HookNode DEF Leading
<1>11. x[1] = e.fn /\ x[2] = e.context BY <1>10 DEF NodeOf
<1>12. PICK anc \in Seq(Linked) : anc = Append(e.ancestors, e.fn)
  <2>1. PICK a \in Seq(Linked), f \in Linked : a = e.ancestors /\ f = e.fn BY <1>8 DEF Entries
  <2>2. Append(a, f) \in Seq(Linked) BY AppendProperties
  <2> QED BY <2>1, <2>2
<1>13. PICK sites : sites = CallSites(prog, x[1]) OBVIOUS
<1>14. PICK new : new = FlattenSeq([k \in DOMAIN sites |-> PushSite(sites[k], x[2], anc)]) OBVIOUS
<1>15. new \in Seq(Entries(prog)) /\ Follow(prog, x, anc, new) BY <1>13, <1>14, PushesFollow
<1>16. /\ d.prog = prog /\ d.todo = q \o new /\ d.visited = c.visited \cup {Key}
       /\ d.frames = c.frames \cup {x[1]} /\ d.recursive = c.recursive
       /\ d.indirect = c.indirect \cup IndirectAt(prog, x)
       /\ d.allocators = c.allocators \cup UNION {{t[1] : t \in SiteTargets(s, x[2])} \cap Allocators : s \in Range(sites)}
       /\ d \in [prog : {d.prog}, todo : {d.todo}, visited : {d.visited}, frames : {d.frames},
                 edges : {d.edges}, recursive : {d.recursive}, unresolved : {d.unresolved},
                 indirect : {d.indirect}, romNeeds : {d.romNeeds}, allocators : {d.allocators}]
  <2> DEFINE list == CallSites(call.prog, Item.fn)
             each == Range(list)
             context == Item.context
             push(site) ==
               LET order == SiteTargetSeq(site, context)
               IN [k \in DOMAIN order |->
                    Entry(order[k][1], Append(Item.ancestors, Item.fn),
                          IF order[k][1] \in Once THEN CallbackNames(site, context) ELSE {},
                          site.kind = "outlined-link")]
             pushes == FlattenSeq([k \in DOMAIN list |-> push(list[k])])
             indirect == {<<Item.fn, s.pc>> : s \in {y \in each : IndirectSite(y, context)}}
             allocators == UNION {{t[1] : t \in SiteTargets(s, context)} \cap Allocators : s \in each}
  <2>1. \E edges, unresolved, roms :
          call' = [call EXCEPT !.todo = Front(@) \o pushes, !.visited = @ \cup {Key},
                               !.frames = @ \cup {Item.fn}, !.edges = edges, !.unresolved = unresolved,
                               !.indirect = @ \cup indirect, !.romNeeds = roms,
                               !.allocators = @ \cup allocators]
    BY Zenon DEF CallVisit
  <2>2. list = sites /\ context = x[2] /\ Item.fn = x[1] BY <1>1, <1>4, <1>6, <1>11, <1>13
  <2>3. pushes = new
    <3>1. anc = Append(Item.ancestors, Item.fn) BY <1>4, <1>12
    <3> QED BY <1>14, <2>2, <3>1 DEF PushSite
  <2>4. indirect = IndirectAt(prog, x) BY <1>13, <2>2 DEF IndirectAt
  <2>5. allocators = UNION {{t[1] : t \in SiteTargets(s, x[2])} \cap Allocators : s \in Range(sites)} BY <2>2
  <2> HIDE DEF pushes, indirect, allocators
  <2>6. PICK edges, unresolved, roms :
          d = [c EXCEPT !.todo = Front(c.todo) \o pushes, !.visited = c.visited \cup {Key},
                        !.frames = c.frames \cup {x[1]}, !.edges = edges, !.unresolved = unresolved,
                        !.indirect = c.indirect \cup indirect, !.romNeeds = roms,
                        !.allocators = c.allocators \cup allocators]
    <3>1. PICK edges, unresolved, roms :
          call' = [call EXCEPT !.todo = Front(@) \o pushes, !.visited = @ \cup {Key},
                               !.frames = @ \cup {Item.fn}, !.edges = edges, !.unresolved = unresolved,
                               !.indirect = @ \cup indirect, !.romNeeds = roms,
                               !.allocators = @ \cup allocators]
      BY <2>1, Zenon
    <3>2. d = [c EXCEPT !.todo = Front(c.todo) \o pushes, !.visited = c.visited \cup {Key},
                        !.frames = c.frames \cup {x[1]}, !.edges = edges, !.unresolved = unresolved,
                        !.indirect = c.indirect \cup indirect, !.romNeeds = roms,
                        !.allocators = c.allocators \cup allocators]
      BY <1>1, <1>3, <2>2, <3>1
    <3> QED BY <3>2, Zenon
  <2> QED BY <1>4, <1>6, <1>7, <2>3, <2>4, <2>5, <2>6 DEF CallTyped
<1>17. q \o new \in Seq(Entries(prog)) /\ ToSet(q \o new) = ToSet(q) \cup ToSet(new)
  BY <1>15, ConcatElements
<1>18. CallTyped(d) BY <1>16, <1>17 DEF CallTyped
<1>19. SeenNodes(d) = SeenNodes(c) \cup {x}
  <2>1. Key = <<x[1], Last(e.ancestors), x[2]>> BY <1>4, <1>11 DEF Key
  <2>2. PICK v : v = Key OBVIOUS
  <2>3. <<v[1], v[3]>> = x
    <3>1. v[1] = x[1] /\ v[3] = x[2] BY <2>1, <2>2
    <3>2. x = <<x[1], x[2]>> BY <1>10, <1>11 DEF NodeOf
    <3> QED BY <3>1, <3>2
  <2>4. d.visited = c.visited \cup {v} BY <1>16, <2>2
  <2> QED BY <2>3, <2>4 DEF SeenNodes
<1>20. Recorded(d)
  <2>1. d.prog = c.prog /\ d.frames = c.frames \cup {x[1]} BY <1>6, <1>16
  <2>2. d.indirect = c.indirect \cup IndirectAt(c.prog, x) BY <1>6, <1>16
  <2>3. d.allocators = c.allocators \cup UNION {{t[1] : t \in SiteTargets(s, x[2])} \cap Allocators :
                                                  s \in Range(CallSites(c.prog, x[1]))}
    BY <1>6, <1>13, <1>16
  <2> QED BY <1>4, <1>19, <2>1, <2>2, <2>3, RecordedOn
<1>21. Found(d)
  <2>1. ASSUME NEW w \in ToSet(new) PROVE Leading(prog, w)
    <3>1. w.ancestors = anc /\ NodeOf(w) \in Leads(prog, x) BY <1>15 DEF Follow
    <3> QED BY <1>8, <1>9, <1>10, <1>12, <3>1, LeadingOn
  <2>2. x \in FromHook(prog) BY <1>9, <1>10 DEF Leading
  <2>3. ASSUME NEW w \in ToSet(d.todo) PROVE Leading(d.prog, w)
    BY <1>4, <1>6, <1>8, <1>16, <1>17, <2>1 DEF Found
  <2> QED BY <1>4, <1>6, <1>16, <1>19, <2>2, <2>3 DEF Found
<1>22. Sorted(q \o new)
  <2>1. PICK a \in Seq(Linked), f \in Linked : a = e.ancestors /\ f = e.fn BY <1>8 DEF Entries
  <2>2. Len(a) \in Nat /\ Len(Append(a, f)) = Len(a) + 1 BY AppendProperties
  <2>3. \A w \in ToSet(new) : Len(w.ancestors) = Len(Last(todo).ancestors) + 1
    BY <1>2, <1>6, <1>12, <1>15, <2>1, <2>2 DEF Follow
  <2>4. \A w \in ToSet(todo) : Len(w.ancestors) \in Nat
    <3> TAKE w \in ToSet(todo)
    <3>1. PICK i \in DOMAIN todo : w = todo[i] BY DEF ToSet
    <3>2. w \in Entries(prog) BY <3>1
    <3>3. w.ancestors \in Seq(Linked) BY <3>2 DEF Entries
    <3> QED BY <3>3
  <2>5. Len(Last(todo).ancestors) \in Nat /\ Sorted(todo) /\ todo # <<>> BY <1>2, <1>4, <1>6, <2>1, <2>2
  <2> QED BY <1>7, <1>15, <2>3, <2>4, <2>5, PushSorted
<1>23. Searched(d)
  <2> SUFFICES ASSUME c.recursive = {}
               PROVE  /\ HookMet(d)
                      /\ \E path, done : /\ Track(prog, q \o new, SeenNodes(c) \cup {x}, path, done)
                                         /\ Len(path) = TopDepth(q \o new)
    BY <1>16, <1>19 DEF Searched
  <2>1. HookMet(d)
    <3>1. HookMet(c) BY <1>4 DEF Searched
    <3> QED BY <1>6, <1>8, <1>10, <1>16, <1>17, <1>19, <3>1 DEF HookMet
  <2>2. PICK path, done : Track(prog, todo, SeenNodes(c), path, done) /\ Len(path) = TopDepth(todo)
    BY <1>4, <1>6 DEF Searched
  <2>3. Len(path) = Len(e.ancestors) - 1 BY <1>2, <1>4, <1>6, <2>2 DEF TopDepth
  <2>4. Track(prog, Front(todo) \o new, SeenNodes(c) \cup {NodeOf(e)}, Append(path, NodeOf(e)), done)
    <3>1. todo # <<>> /\ e = Last(todo) /\ e.fn \notin Range(e.ancestors) BY <1>2, <1>4, <1>6
    <3>2. Follow(prog, NodeOf(e), Append(e.ancestors, e.fn), new) BY <1>10, <1>12, <1>15
    <3>3. NodeOf(e) \in Nodes(prog) BY <1>10
    <3> QED BY <1>15, <2>2, <2>3, <3>1, <3>2, <3>3, TrackDeeper
  <2>5. Track(prog, q \o new, SeenNodes(c) \cup {x}, Append(path, x), done) BY <1>7, <1>10, <2>4
  <2>6. PICK u \in Seq(Entries(prog)) : u = q \o new BY <1>17
  <2>7. PICK p : p = Append(path, x) OBVIOUS
  <2>8. Track(prog, u, SeenNodes(c) \cup {x}, p, done) /\ Sorted(u) BY <1>22, <2>5, <2>6, <2>7
  <2>9. \E a, b : Track(prog, u, SeenNodes(c) \cup {x}, a, b) /\ Len(a) = TopDepth(u) BY <2>8, Settled
  <2> QED BY <2>1, <2>6, <2>9
<1>24. CallInv(d) BY <1>16, <1>18, <1>20, <1>21, <1>22, <1>23 DEF CallInv
<1> QED BY <1>3, <1>24

LEMMA CallStep == ASSUME CallInv(call), [CallNext]_call PROVE CallInv(call)'
<1>1. CASE CallNext BY <1>1, CallRecursiveStep, CallSeenStep, CallVisitStep DEF CallNext
<1>2. CASE call' = call
  <2>1. CallInv(call)' <=> CallInv(call') OBVIOUS
  <2> QED BY <1>2, <2>1
<1> QED BY <1>1, <1>2

(* The nodes of a finished walk without recursion. *)
LEMMA CallFinished ==
  ASSUME NEW c, CallInv(c), c.todo = <<>>, c.recursive = {}
  PROVE  /\ SeenNodes(c) = FromHook(c.prog) /\ Grounded(c.prog, SeenNodes(c))
         /\ \A n \in SeenNodes(c) : n[1] # Root
<1>1. c.prog \in Programs BY DEF CallInv, CallTyped
<1>2. PICK path, done : Track(c.prog, c.todo, SeenNodes(c), path, done) /\ Len(path) = TopDepth(c.todo)
  BY DEF CallInv, Searched
<1>3. path \in Seq(Nodes(c.prog)) /\ Len(path) = 0 BY <1>2 DEF Track, TopDepth
<1>4. ToSet(path) = {} BY <1>3 DEF ToSet
<1>5. SeenNodes(c) = done BY <1>2, <1>4 DEF Track
<1>6. CallClosed(c.prog, done) /\ Grounded(c.prog, done) /\ \A n \in SeenNodes(c) : n[1] # Root BY <1>2 DEF Track
<1>7. <<Hook, {}>> \in done
  <2>1. ToSet(c.todo) = {} BY DEF ToSet
  <2> QED BY <1>5, <2>1 DEF CallInv, Searched, HookMet
<1>8. FromHook(c.prog) \subseteq done
  <2>1. PICK from : from = {<<Hook, {}>>} OBVIOUS
  <2>2. from \subseteq done BY <1>7, <2>1
  <2>3. Reachable(c.prog, from) \subseteq done BY <1>1, <1>6, <2>2, ReachLeast
  <2> QED BY <2>1, <2>3 DEF FromHook
<1>9. SeenNodes(c) \subseteq FromHook(c.prog) BY DEF CallInv, Found
<1> QED BY <1>5, <1>6, <1>8, <1>9

(* No node of a grounded set lies beyond itself. *)
LEMMA GroundedAcyclic ==
  ASSUME NEW prog \in Programs, NEW nodes, nodes \subseteq Nodes(prog), Grounded(prog, nodes),
         CallClosed(prog, nodes), NEW n \in nodes, n \in After(prog, n)
  PROVE  FALSE
<1>1. \A m \in Nodes(prog) : CallClosed(prog, After(prog, m)) /\ Leads(prog, m) \subseteq After(prog, m)
  BY AfterNode
<1>2. n \in Nodes(prog) OBVIOUS
<1>3. PICK S : S = {m \in nodes : m \in After(prog, n) /\ n \in After(prog, m)} OBVIOUS
<1>4. n \in S /\ S \in SUBSET nodes BY <1>3
<1>5. PICK m \in S : Leads(prog, m) \cap S = {} BY <1>4 DEF Grounded
<1>6. m \in nodes /\ m \in Nodes(prog) /\ m \in After(prog, n) /\ n \in After(prog, m) BY <1>3, <1>5
<1>7. \A y \in Leads(prog, m) : y \in nodes /\ y \in After(prog, n) BY <1>1, <1>2, <1>6 DEF CallClosed
<1>8. \/ n \in Leads(prog, m)
      \/ \E y \in Leads(prog, m) : n \in After(prog, y)
  BY <1>6, BeyondUnfolds DEF After
<1>9. CASE n \in Leads(prog, m) BY <1>4, <1>5, <1>9
<1>10. CASE \E y \in Leads(prog, m) : n \in After(prog, y)
  <2>1. PICK y \in Leads(prog, m) : n \in After(prog, y) BY <1>10
  <2>2. y \in S BY <1>3, <1>7, <2>1
  <2> QED BY <1>5, <2>1, <2>2
<1> QED BY <1>8, <1>9, <1>10

LEMMA CallInvReports == ASSUME CallInv(call) PROVE RecursionReported
<1> SUFFICES ASSUME CallDone
             PROVE  (Cyclic => call.recursive # {}) /\ (call.recursive # {} => Reentrant)
  BY DEF RecursionReported
<1>1. call.recursive # {} => Reentrant
  BY DEF CallInv, Found, Reenters, Reentrant, ReachableNodes, Beyond, FromHook, After
<1>2. ASSUME Cyclic, call.recursive = {} PROVE FALSE
  <2>1. PICK c : c = call OBVIOUS
  <2>2. CallInv(c) /\ c.todo = <<>> /\ c.recursive = {} BY <1>2, <2>1 DEF CallDone
  <2>3. /\ SeenNodes(c) = FromHook(c.prog) /\ Grounded(c.prog, SeenNodes(c))
        /\ \A n \in SeenNodes(c) : n[1] # Root
    BY <2>2, CallFinished
  <2>4. PICK prog \in Programs : prog = c.prog BY <2>2 DEF CallInv, CallTyped
  <2>5. PICK n \in FromHook(prog) : n[1] = Root \/ n \in After(prog, n)
    BY <1>2, <2>1, <2>4 DEF Cyclic, ReachableNodes, Beyond, FromHook, After
  <2>6. n \in After(prog, n) BY <2>3, <2>4, <2>5
  <2>7. PICK nodes : nodes = FromHook(prog) OBVIOUS
  <2>8. nodes \subseteq Nodes(prog) /\ CallClosed(prog, nodes) /\ Grounded(prog, nodes) /\ n \in nodes
    BY <2>3, <2>4, <2>5, <2>7, HookNode
  <2> QED BY <2>6, <2>8, GroundedAcyclic
<1> QED BY <1>1, <1>2

LEMMA CallInvSurveys == ASSUME CallInv(call) PROVE ReachSurveyed
<1> SUFFICES ASSUME CallDone, call.recursive = {}
             PROVE  LET sitesOf(n) == Range(CallSites(call.prog, n[1]))
                    IN /\ call.frames = {n[1] : n \in ReachableNodes} \cup {Root}
                       /\ call.indirect = UNION {{<<n[1], s.pc>> : s \in {x \in sitesOf(n) : IndirectSite(x, n[2])}} : n \in ReachableNodes}
                       /\ call.allocators = (UNION {{x[1] : x \in Leads(call.prog, n)} : n \in ReachableNodes}) \cap Allocators
  BY DEF ReachSurveyed
<1>1. SeenNodes(call) = ReachableNodes
  <2>1. PICK c : c = call OBVIOUS
  <2>2. CallInv(c) /\ c.todo = <<>> /\ c.recursive = {} BY <2>1 DEF CallDone
  <2>3. SeenNodes(c) = FromHook(c.prog) BY <2>2, CallFinished
  <2> QED BY <2>1, <2>3 DEF FromHook, ReachableNodes
<1>2. Recorded(call) BY DEF CallInv
<1> QED BY <1>1, <1>2 DEF Recorded, IndirectAt

(* A finished call walk reports recursion whenever the hook's call graph has a
   cycle, and only when some function can be entered again from itself: for
   every program, though analyze keys a function by its caller and callbacks
   and not by its path. *)
THEOREM RecursionReportedHolds == CallSpec => []RecursionReported
<1>1. CallInit => CallInv(call) BY CallStarts
<1>2. CallInv(call) /\ [CallNext]_call => CallInv(call)' BY CallStep
<1>3. CallInv(call) => RecursionReported BY CallInvReports
<1> QED BY <1>1, <1>2, <1>3, PTL DEF CallSpec

(* A finished call walk without recursion has analysed every function the hook
   can reach and lists every indirect transfer and allocator entry in them, for
   every program and every set of callbacks. *)
THEOREM ReachSurveyedHolds == CallSpec => []ReachSurveyed
<1>1. CallInit => CallInv(call) BY CallStarts
<1>2. CallInv(call) /\ [CallNext]_call => CallInv(call)' BY CallStep
<1>3. CallInv(call) => ReachSurveyed BY CallInvSurveys
<1> QED BY <1>1, <1>2, <1>3, PTL DEF CallSpec

-----------------------------------------------------------------------------
(* The storage gate's receipt.                                             *)

AuditSteps == {"idle", "classify", "parse", "measure", "join", "write", "receipt"}

AuditType ==
  /\ build \in [link : DOMAIN Links, policy : Policies]
  /\ files \in [report : {files.report}, receipt : {files.receipt}]
  /\ audit \in [pc : AuditSteps, gates : {audit.gates}, lines : {audit.lines}, at : {audit.at},
                map : {audit.map}, debit : {audit.debit}, joined : {audit.joined}]

(* What the running gate has already cleared, measured and reported. *)
AuditProgress ==
  /\ audit.pc # "idle" => files.receipt.status = "none"
  /\ audit.pc \in {"classify", "parse", "measure", "join", "write"} => files.report.status = "none"
  /\ audit.pc = "receipt" =>
       /\ files.report.status = "passed" /\ files.report.build = build
       /\ audit.debit <= build.policy.ceiling

AuditInv == AuditType /\ AuditProgress /\ ReceiptTrue

LEMMA AuditStarts == AuditInit => AuditInv
<1> SUFFICES ASSUME AuditInit PROVE AuditInv OBVIOUS
<1>1. files.report.status = "none" /\ files.receipt.status = "none" BY DEF AuditInit, NoFile
<1>2. audit.pc = "idle" BY DEF AuditInit, Resting
<1>3. AuditType BY DEF AuditInit, AuditType, AuditSteps, Resting
<1>4. AuditProgress BY <1>1, <1>2 DEF AuditProgress
<1>5. ReceiptTrue BY <1>1 DEF ReceiptTrue
<1> QED BY <1>3, <1>4, <1>5 DEF AuditInv

(* A gate that stops leaves its files as they are. *)
LEMMA StopTyped ==
  ASSUME Stop("idle")
  PROVE  /\ audit'.pc = "idle"
         /\ audit' \in [pc : AuditSteps, gates : {audit'.gates}, lines : {audit'.lines}, at : {audit'.at},
                        map : {audit'.map}, debit : {audit'.debit}, joined : {audit'.joined}]
  BY DEF Stop, Resting, AuditSteps

LEMMA RefusesStep ==
  ASSUME AuditInv, AuditRefuses PROVE AuditInv'
<1>1. build' = build /\ files' = files /\ Stop("idle") BY DEF AuditRefuses
<1>2. AuditType' BY <1>1, StopTyped DEF AuditInv, AuditType
<1>3. AuditProgress' BY <1>1, StopTyped DEF AuditProgress
<1>4. ReceiptTrue' BY <1>1 DEF AuditInv, ReceiptTrue
<1> QED BY <1>2, <1>3, <1>4 DEF AuditInv

(* A step that changes neither the files nor, once a report stands, the debit. *)
LEMMA WorkStep ==
  ASSUME AuditInv, build' = build, files' = files, AuditType',
         audit.pc # "idle", audit.pc # "receipt", audit'.pc # "receipt"
  PROVE  AuditInv'
<1>1. audit.pc \in {"classify", "parse", "measure", "join", "write"} BY DEF AuditInv, AuditType, AuditSteps
<1>2. files.receipt.status = "none" /\ files.report.status = "none" BY <1>1 DEF AuditInv, AuditProgress
<1>3. AuditProgress' BY <1>2 DEF AuditProgress
<1>4. ReceiptTrue' BY <1>2 DEF ReceiptTrue
<1> QED BY <1>3, <1>4 DEF AuditInv

(* A line the parser takes: only its place and what it has parsed change. *)
LEMMA AdvanceStep ==
  ASSUME AuditInv, audit.pc = "parse", UNCHANGED <<build, files>>,
         \E map : audit' = [audit EXCEPT !.at = audit.at + 1, !.map = map]
  PROVE  AuditInv'
<1>1. PICK map : build' = build /\ files' = files /\ audit' = [audit EXCEPT !.at = audit.at + 1, !.map = map]
  BY Zenon
<1>2. audit'.pc = "parse" BY <1>1 DEF AuditInv, AuditType
<1>3. AuditType' BY <1>1 DEF AuditInv, AuditType
<1> QED BY <1>1, <1>2, <1>3, WorkStep

LEMMA ParseStep ==
  ASSUME AuditInv, ParseNext PROVE AuditInv'
<1>1. CASE HeaderLine
  <2>1. /\ audit.pc = "parse" /\ UNCHANGED <<build, files>>
        /\ \E map : audit' = [audit EXCEPT !.at = audit.at + 1, !.map = map]
    BY <1>1, Zenon DEF HeaderLine, Advance, Parsing
  <2> QED BY <2>1, AdvanceStep, Zenon
<1>2. CASE SplitHeaderLine
  <2>1. /\ audit.pc = "parse" /\ UNCHANGED <<build, files>>
        /\ \E map : audit' = [audit EXCEPT !.at = audit.at + 1, !.map = map]
    BY <1>2, Zenon DEF SplitHeaderLine, Advance, Parsing
  <2> QED BY <2>1, AdvanceStep, Zenon
<1>3. CASE OutputNameLine
  <2>1. /\ audit.pc = "parse" /\ UNCHANGED <<build, files>>
        /\ \E map : audit' = [audit EXCEPT !.at = audit.at + 1, !.map = map]
    BY <1>3, Zenon DEF OutputNameLine, Advance, Parsing
  <2> QED BY <2>1, AdvanceStep, Zenon
<1>4. CASE IgnoredLine
  <2>1. /\ audit.pc = "parse" /\ UNCHANGED <<build, files>>
        /\ \E map : audit' = [audit EXCEPT !.at = audit.at + 1, !.map = map]
    BY <1>4, Zenon DEF IgnoredLine, Advance, BodyLine, Parsing
  <2> QED BY <2>1, AdvanceStep, Zenon
<1>5. CASE RowLine
  <2>1. /\ audit.pc = "parse" /\ UNCHANGED <<build, files>>
        /\ \E map : audit' = [audit EXCEPT !.at = audit.at + 1, !.map = map]
    BY <1>5, Zenon DEF RowLine, Advance, BodyLine, Parsing
  <2> QED BY <2>1, AdvanceStep, Zenon
<1>6. CASE RowNameLine
  <2>1. /\ audit.pc = "parse" /\ UNCHANGED <<build, files>>
        /\ \E map : audit' = [audit EXCEPT !.at = audit.at + 1, !.map = map]
    BY <1>6, Zenon DEF RowNameLine, Advance, BodyLine, Parsing
  <2> QED BY <2>1, AdvanceStep, Zenon
<1>7. CASE SplitRowLine
  <2>1. /\ audit.pc = "parse" /\ UNCHANGED <<build, files>>
        /\ \E map : audit' = [audit EXCEPT !.at = audit.at + 1, !.map = map]
    BY <1>7, Zenon DEF SplitRowLine, Advance, BodyLine, Parsing
  <2> QED BY <2>1, AdvanceStep, Zenon
<1>8. CASE IncompleteRecord
  <2>1. AuditRefuses BY <1>8, Zenon DEF IncompleteRecord
  <2> QED BY <2>1, RefusesStep
<1>9. CASE EndOfMap
  <2>1. audit.pc = "parse" /\ UNCHANGED <<build, files>> BY <1>9, Zenon DEF EndOfMap
  <2>2. CASE audit' = [audit EXCEPT !.pc = "measure"]
    <3>1. audit'.pc = "measure" /\ AuditType' BY <2>1, <2>2 DEF AuditInv, AuditType, AuditSteps
    <3> QED BY <2>1, <3>1, WorkStep
  <2>3. CASE Stop("idle") BY <2>1, <2>3, RefusesStep DEF AuditRefuses
  <2> QED BY <1>9, <2>2, <2>3, Zenon DEF EndOfMap
<1> QED BY <1>1, <1>2, <1>3, <1>4, <1>5, <1>6, <1>7, <1>8, <1>9 DEF ParseNext

LEMMA MeasureStep ==
  ASSUME AuditInv, Measure \/ JoinInventory \/ AuditStart PROVE AuditInv'
<1>1. CASE Measure
  <2>1. PICK d : audit' = [audit EXCEPT !.pc = "join", !.debit = d] BY <1>1, Zenon DEF Measure
  <2>2. audit.pc = "measure" /\ UNCHANGED <<build, files>> BY <1>1, Zenon DEF Measure
  <2>3. audit'.pc = "join" /\ AuditType' BY <2>1, <2>2 DEF AuditInv, AuditType, AuditSteps
  <2> QED BY <2>2, <2>3, WorkStep
<1>2. CASE JoinInventory
  <2>1. PICK j : audit' = [audit EXCEPT !.pc = "write", !.joined = j] BY <1>2, Zenon DEF JoinInventory
  <2>2. audit.pc = "join" /\ UNCHANGED <<build, files>> BY <1>2, Zenon DEF JoinInventory
  <2>3. audit'.pc = "write" /\ AuditType' BY <2>1, <2>2 DEF AuditInv, AuditType, AuditSteps
  <2> QED BY <2>2, <2>3, WorkStep
<1>3. CASE AuditStart
  <2>1. PICK l : audit' = [audit EXCEPT !.pc = "parse", !.lines = l] BY <1>3, Zenon DEF AuditStart
  <2>2. audit.pc = "classify" /\ UNCHANGED <<build, files>> BY <1>3, Zenon DEF AuditStart
  <2>3. audit'.pc = "parse" /\ AuditType' BY <2>1, <2>2 DEF AuditInv, AuditType, AuditSteps
  <2> QED BY <2>2, <2>3, WorkStep
<1> QED BY <1>1, <1>2, <1>3

LEMMA BetweenGatesStep ==
  ASSUME AuditInv, Relink \/ GateStart PROVE AuditInv'
<1>1. CASE Relink
  <2>1. audit.pc = "idle" /\ files' = files /\ audit' = audit
        /\ build' \in [link : DOMAIN Links, policy : Policies]
    BY <1>1 DEF Relink
  <2>2. AuditType' BY <2>1 DEF AuditInv, AuditType
  <2>3. AuditProgress' BY <2>1 DEF AuditProgress
  <2>4. ReceiptTrue' BY <2>1 DEF AuditInv, ReceiptTrue
  <2> QED BY <2>2, <2>3, <2>4 DEF AuditInv
<1>2. CASE GateStart
  <2>1. build' = build /\ files' = [report |-> NoFile, receipt |-> NoFile] BY <1>2, Zenon DEF GateStart
  <2>2. PICK n : audit' = [Resting EXCEPT !.pc = "classify", !.gates = n] BY <1>2, Zenon DEF GateStart
  <2>3. files'.report.status = "none" /\ files'.receipt.status = "none" BY <2>1 DEF NoFile
  <2>4. audit'.pc = "classify" BY <2>2 DEF Resting
  <2>5. AuditType' BY <2>1, <2>2 DEF AuditInv, AuditType, AuditSteps, Resting
  <2>6. AuditProgress' BY <2>3, <2>4 DEF AuditProgress
  <2>7. ReceiptTrue' BY <2>3 DEF ReceiptTrue
  <2> QED BY <2>5, <2>6, <2>7 DEF AuditInv
<1> QED BY <1>1, <1>2

LEMMA ClassifiedStep ==
  ASSUME AuditInv, Classified PROVE AuditInv'
<1>1. audit.pc = "classify" /\ build' = build /\ Stop("idle") /\ PolicyStatus # "none"
      /\ files' = [files EXCEPT !.receipt = [status |-> PolicyStatus, build |-> build]]
  BY DEF Classified
<1>2. PICK r : r = [status |-> PolicyStatus, build |-> build] OBVIOUS
<1>3. files' = [files EXCEPT !.receipt = r] BY <1>1, <1>2
<1>4. files'.receipt = r /\ files'.report = files.report
      /\ files' \in [report : {files'.report}, receipt : {files'.receipt}]
  BY <1>3 DEF AuditInv, AuditType
<1>5. files.report.status = "none" BY <1>1 DEF AuditInv, AuditProgress
<1>6. r.status = PolicyStatus /\ r.build = build BY <1>2
<1>7. /\ r.status # "enforced"
      /\ r.status = "not-configured" => build.policy.ceiling = -1
      /\ r.status = "not-applicable" => build.policy.scenario = "ON"
  BY <1>6 DEF PolicyStatus
<1>8. AuditType' BY <1>1, <1>4, StopTyped DEF AuditInv, AuditType
<1>9. AuditProgress' BY <1>1, StopTyped DEF AuditProgress
<1>10. ReceiptTrue' BY <1>4, <1>5, <1>6, <1>7 DEF ReceiptTrue
<1> QED BY <1>8, <1>9, <1>10 DEF AuditInv

LEMMA WriteReportStep ==
  ASSUME AuditInv, WriteReport PROVE AuditInv'
<1>1. PICK r : /\ files' = [files EXCEPT !.report = r]
               /\ r.status = IF audit.debit <= build.policy.ceiling THEN "passed" ELSE "exceeded"
               /\ r.build = build
  <2>1. PICK d, j, c, u : files' = [files EXCEPT !.report =
           [status |-> IF audit.debit <= build.policy.ceiling THEN "passed" ELSE "exceeded",
            build |-> build, debit |-> d, joined |-> j, charged |-> c, union |-> u]]
    BY Zenon DEF WriteReport
  <2>2. PICK r : r = [status |-> IF audit.debit <= build.policy.ceiling THEN "passed" ELSE "exceeded",
                      build |-> build, debit |-> d, joined |-> j, charged |-> c, union |-> u]
    OBVIOUS
  <2>3. r.status = (IF audit.debit <= build.policy.ceiling THEN "passed" ELSE "exceeded") /\ r.build = build
    BY <2>2
  <2>4. files' = [files EXCEPT !.report = r] BY <2>1, <2>2, Zenon
  <2> QED BY <2>3, <2>4, Zenon
<1>2. audit.pc = "write" /\ build' = build BY DEF WriteReport
<1>3. files.receipt.status = "none" BY <1>2 DEF AuditInv, AuditProgress
<1>4. files'.report = r /\ files'.receipt = files.receipt
      /\ files' \in [report : {files'.report}, receipt : {files'.receipt}]
  BY <1>1 DEF AuditInv, AuditType
<1>5. ReceiptTrue' BY <1>3, <1>4 DEF ReceiptTrue
<1>6. CASE audit.debit <= build.policy.ceiling /\ audit' = [audit EXCEPT !.pc = "receipt"]
  <2>1. audit'.pc = "receipt" /\ audit'.debit = audit.debit BY <1>6 DEF AuditInv, AuditType
  <2>2. AuditType' BY <1>2, <1>4, <1>6 DEF AuditInv, AuditType, AuditSteps
  <2>3. AuditProgress' BY <1>1, <1>2, <1>3, <1>4, <1>6, <2>1 DEF AuditProgress
  <2> QED BY <1>5, <2>2, <2>3 DEF AuditInv
<1>7. CASE Stop("idle")
  <2>1. AuditType' BY <1>2, <1>4, <1>7, StopTyped DEF AuditInv, AuditType
  <2>2. AuditProgress' BY <1>7, StopTyped DEF AuditProgress
  <2> QED BY <1>5, <2>1, <2>2 DEF AuditInv
<1> QED BY <1>6, <1>7, Zenon DEF WriteReport

LEMMA WriteReceiptStep ==
  ASSUME AuditInv, MeasurementExact, WriteGateReceipt PROVE AuditInv'
<1>1. audit.pc = "receipt" /\ build' = build /\ Stop("idle")
      /\ files' = [files EXCEPT !.receipt = [status |-> "enforced", build |-> build]]
  BY DEF WriteGateReceipt
<1>2. PICK r : r = [status |-> "enforced", build |-> build] OBVIOUS
<1>3. files'.receipt = r /\ files'.report = files.report
      /\ files' \in [report : {files'.report}, receipt : {files'.receipt}]
  BY <1>1, <1>2 DEF AuditInv, AuditType
<1>4. files.report.status = "passed" /\ files.report.build = build /\ audit.debit <= build.policy.ceiling
  BY <1>1 DEF AuditInv, AuditProgress
<1>5. audit.debit = Cardinality(ChargedBytes(build.link)) BY <1>1, Zenon DEF MeasurementExact
<1>6. Cardinality(ChargedBytes(build.link)) <= build.policy.ceiling BY <1>4, <1>5
<1>7. AuditType' BY <1>1, <1>3, StopTyped DEF AuditInv, AuditType
<1>8. AuditProgress' BY <1>1, StopTyped DEF AuditProgress
<1>9. r.status = "enforced" /\ r.build = build BY <1>2
<1>10. ReceiptTrue' BY <1>3, <1>4, <1>6, <1>9 DEF ReceiptTrue
<1> QED BY <1>7, <1>8, <1>10 DEF AuditInv

LEMMA AuditStep ==
  ASSUME AuditInv, MeasurementExact, [AuditNext]_auditVars PROVE AuditInv'
<1>1. CASE ParseNext BY <1>1, ParseStep
<1>2. CASE Measure \/ JoinInventory \/ AuditStart BY <1>2, MeasureStep
<1>3. CASE MeasureRefused \/ JoinRefused \/ PolicyRefused \/ GateKilled
  BY <1>3, RefusesStep DEF MeasureRefused, JoinRefused, PolicyRefused, GateKilled
<1>4. CASE Relink \/ GateStart BY <1>4, BetweenGatesStep
<1>5. CASE Classified BY <1>5, ClassifiedStep
<1>6. CASE WriteReport BY <1>6, WriteReportStep
<1>7. CASE WriteGateReceipt BY <1>7, WriteReceiptStep
<1>8. CASE UNCHANGED auditVars
  <2>1. build' = build /\ files' = files /\ audit' = audit BY <1>8 DEF auditVars
  <2> QED BY <2>1 DEF AuditInv, AuditType, AuditProgress, ReceiptTrue
<1> QED BY <1>1, <1>2, <1>3, <1>4, <1>5, <1>6, <1>7, <1>8 DEF AuditNext

(* The gate carries the measurement into its receipt without loss: wherever
   the measurement of an accepted map is exact, no order of gates, refusals,
   kills, relinks and changes of policy leaves a receipt that is older than
   its report, that says "enforced" of an image whose bytes exceed the
   ceiling, or that excuses a build with a ceiling
   (static-storage-build-gate.sh: the removal first, the receipt last). *)
THEOREM ReceiptTrueHolds == AuditSpec /\ []MeasurementExact => []ReceiptTrue
<1>1. AuditInit => AuditInv BY AuditStarts
<1>2. AuditInv /\ MeasurementExact /\ [AuditNext]_auditVars => AuditInv' BY AuditStep
<1>3. AuditInv => ReceiptTrue BY DEF AuditInv
<1> QED BY <1>1, <1>2, <1>3, PTL DEF AuditSpec

=============================================================================
