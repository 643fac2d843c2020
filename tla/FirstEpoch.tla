----------------------------- MODULE FirstEpoch -----------------------------
(***************************************************************************)
(* The selection of the first boot from a captured device log              *)
(* (Tools/EmbeddedApplicationMacros/final_init_proof.py: first_epoch).     *)
(*                                                                         *)
(* A line is what the scan tells apart: monitor preamble (or blank), the   *)
(* ROM banner, a reset line (rst:0x), a calibration row, a smoke row of    *)
(* the boot case, of the completed completion case or of another case, and *)
(* anything else.  The scan reads one line per step.                       *)
(***************************************************************************)
EXTENDS Naturals, Sequences, FiniteSetsExt

CONSTANT MaxLines       \* longest log scanned

VARIABLES
  log,    \* the lines read so far
  scan

epochVars == <<log, scan>>

LineKinds == {"preamble", "rom", "reset", "calibration", "boot", "row", "completed", "other"}

EpochInit ==
  /\ log = <<>>
  /\ scan = [rom |-> FALSE, activity |-> FALSE, completion |-> 0, end |-> 0, verdict |-> "scanning"]

\* Mutant: a reset line does not end the epoch.
Boundary_NoReset(line) ==
  \/ line = "rom" /\ (scan.rom \/ scan.activity)
  \/ line = "boot" /\ scan.activity /\ scan.completion # 0

(* A second ROM banner, a reset line after activity, or a boot row after the
   completion ends the epoch before its line. *)
Boundary(line) ==
  \/ line = "rom" /\ (scan.rom \/ scan.activity)
  \/ line = "reset" /\ scan.activity
  \/ line = "boot" /\ scan.activity /\ scan.completion # 0

(* Before the ROM banner only the monitor's preamble is allowed; a second
   completion is refused. *)
Rejected(line) ==
  \/ ~scan.rom /\ line \notin {"rom", "preamble"}
  \/ line = "completed" /\ scan.completion # 0

(* With the end of the epoch known, the completion must be inside it. *)
Closed(end) ==
  [scan EXCEPT !.end = end,
               !.verdict = IF scan.rom /\ scan.completion # 0 /\ scan.completion <= end
                           THEN "accepted" ELSE "refused"]

(* Reading the next line appends it to the log read so far. *)
Reads(line) ==
  /\ scan.verdict = "scanning" /\ Len(log) < MaxLines
  /\ log' = Append(log, line)

EndEpoch(line) == Reads(line) /\ Boundary(line) /\ scan' = Closed(Len(log) + 1)

RejectLine(line) ==
  /\ Reads(line) /\ ~Boundary(line) /\ Rejected(line)
  /\ scan' = [scan EXCEPT !.verdict = "refused"]

(* The offset past the line is its completion mark. *)
TakeLine(line) ==
  /\ Reads(line) /\ ~Boundary(line) /\ ~Rejected(line)
  /\ scan' = [scan EXCEPT
       !.rom = @ \/ line = "rom",
       !.activity = @ \/ line \in {"calibration", "boot", "row", "completed"},
       !.completion = IF line = "completed" THEN Len(log) + 2 ELSE @]

EndLog ==
  /\ scan.verdict = "scanning"
  /\ scan' = Closed(Len(log) + 1)
  /\ UNCHANGED log

EpochNext ==
  EndLog \/ \E line \in LineKinds : EndEpoch(line) \/ RejectLine(line) \/ TakeLine(line)

EpochSpec == EpochInit /\ [][EpochNext]_epochVars

-----------------------------------------------------------------------------
Count(kind, upTo) == Cardinality({i \in 1 .. upTo - 1 : log[i] = kind})
Active(i) == log[i] \in {"calibration", "boot", "row", "completed"}

(* An accepted epoch is the whole first boot and nothing of a later one: one
   ROM banner with all activity after it, one completion, no reset after
   activity, and the first excluded line is where the next boot starts.  A
   completion of a later boot therefore never repairs a first boot without
   one. *)
EpochIsFirstBoot ==
  scan.verdict = "accepted" =>
    LET end == scan.end
        inside == 1 .. end - 1
    IN /\ Count("rom", end) = 1 /\ Count("completed", end) = 1
       /\ \A i, j \in inside : log[i] = "rom" /\ Active(j) => i < j
       /\ \A i, j \in inside : log[i] = "reset" /\ Active(j) => i < j
       /\ \A i, j \in inside : log[i] = "completed" /\ log[j] = "boot" => j < i
       /\ end <= Len(log) => log[end] \in {"rom", "reset", "boot"}

=============================================================================
