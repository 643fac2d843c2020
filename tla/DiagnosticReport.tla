-------------------------- MODULE DiagnosticReport --------------------------
(***************************************************************************)
(* The command line of the first-initialization diagnostic and what it     *)
(* does to the report's destination                                        *)
(* (Tools/EmbeddedApplicationMacros/first_init_stack.py: main, the path    *)
(* checks, write_report_atomic).                                           *)
(*                                                                         *)
(* The destination named by --out is absent, an earlier report, a          *)
(* directory, one of the inputs under the same or another name (symbolic   *)
(* or hard link), or a path that cannot be compared with them.  Reading,   *)
(* validation and every file operation may fail, and the process may be    *)
(* killed between two steps.                                               *)
(***************************************************************************)
EXTENDS Naturals

VARIABLE diag

ReportPaths == {"absent", "earlier", "directory", "input", "incomparable"}
Arguments == [parses : BOOLEAN, known : BOOLEAN, complete : BOOLEAN, out : BOOLEAN]

DiagStart(args, at) ==
  diag = [step |-> "parse", args |-> args, was |-> at, at |-> at,
          temporary |-> FALSE, touched |-> FALSE]

DiagInit == \E args \in Arguments, at \in ReportPaths : DiagStart(args, at)

Goto(step) == diag' = [diag EXCEPT !.step = step]
Fails(reason) == diag' = [diag EXCEPT !.step = reason]

(* Arguments that do not parse still go through the check and the removal of
   the destination, found by the tolerant parser. *)
DiagParse ==
  /\ diag.step = "parse"
  /\ Goto(IF diag.args.out THEN "aliases" ELSE "arguments")

\* Mutant: a path that cannot be compared is taken for another file.
RejectOutputAliases_Lenient ==
  /\ diag.step = "aliases"
  /\ IF diag.at = "input" THEN Fails("usage error") ELSE Goto("invalidate")

(* reject_output_aliases: the destination is compared with every input named,
   the ones a repeated option overrides included. *)
RejectOutputAliases ==
  /\ diag.step = "aliases"
  /\ IF diag.at \in {"input", "incomparable"} THEN Fails("usage error") ELSE Goto("invalidate")

(* invalidate_output: a directory is refused, a file removed. *)
InvalidateOutput ==
  /\ diag.step = "invalidate"
  /\ IF diag.at = "directory" THEN Fails("usage error")
     ELSE diag' = [diag EXCEPT !.step = "arguments", !.at = "absent", !.touched = TRUE]

CheckArguments ==
  /\ diag.step = "arguments"
  /\ IF diag.args.parses /\ diag.args.known /\ diag.args.complete /\ diag.args.out
     THEN Goto("inputs") ELSE Fails("usage error")

(* Read and validate the inputs, walk the graph, bind it to the ELF. *)
ReadAndAnalyze == diag.step = "inputs" /\ Goto("temporary")

(* write_report_atomic: a temporary beside the destination, flushed and
   synced, then renamed over it.  When that fails the destination is removed
   and the temporary too, unless its own removal fails. *)
WriteTemporary ==
  /\ diag.step = "temporary"
  /\ diag' = [diag EXCEPT !.step = "replace", !.temporary = TRUE]
ReplaceOutput ==
  /\ diag.step = "replace"
  /\ diag' = [diag EXCEPT !.step = "reported", !.at = "report", !.temporary = FALSE]
WriteFailed ==
  /\ diag.step \in {"temporary", "replace"}
  /\ \E left \in BOOLEAN :
       diag' = [diag EXCEPT !.step = "usage error", !.at = "absent", !.temporary = left]

(* Any other failure: an unreadable or malformed input, a refused unlink. *)
DiagRaise ==
  /\ diag.step \in {"aliases", "invalidate", "inputs"}
  /\ Fails("usage error")
DiagKill ==
  /\ diag.step \notin {"reported", "usage error", "killed"}
  /\ Fails("killed")

DiagNext ==
  \/ DiagParse \/ RejectOutputAliases \/ InvalidateOutput \/ CheckArguments
  \/ ReadAndAnalyze \/ WriteTemporary \/ ReplaceOutput \/ WriteFailed
  \/ DiagRaise \/ DiagKill

DiagSpec == DiagInit /\ [][DiagNext]_diag

-----------------------------------------------------------------------------
(* What the destination holds is never something the diagnostic did not mean
   to leave there: an input or a directory is as it was whatever failed, an
   earlier report is gone once the destination has been accepted, and a report
   that is there is the complete one of this run, with no temporary beside it. *)
DestinationHonest ==
  /\ diag.was \in {"input", "incomparable", "directory"} => diag.at = diag.was
  /\ diag.touched => diag.at \in {"absent", "report"}
  /\ diag.at = "report" <=> diag.step = "reported"
  /\ diag.step = "reported" => ~diag.temporary

=============================================================================
