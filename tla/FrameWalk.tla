------------------------------ MODULE FrameWalk ------------------------------
(***************************************************************************)
(* The per-function stack walk of the first-initialization diagnostic      *)
(* (Tools/EmbeddedApplicationMacros/first_init_stack.py: analyze_frame,    *)
(* successors, stack_step).                                                *)
(*                                                                         *)
(* A body is a sequence of decoded instructions.  An instruction keeps     *)
(* what the walk tells apart: its address, the class of its mnemonic and   *)
(* operands (op), the change it makes to sp, whether that change is one    *)
(* the walk cannot read (dyn), whether the walk takes it for a write to ra *)
(* (ra), and its branch or call target.  Every instruction is one address  *)
(* unit long, so a hole between two addresses is an instruction gap.       *)
(*                                                                         *)
(* Beside the walk runs a machine that executes the same body: it is the   *)
(* reference the report is judged by, and starts when the walk has         *)
(* finished with nothing unresolved.                                       *)
(***************************************************************************)
EXTENDS Integers, Sequences, FiniteSetsExt, SequencesExt

CONSTANTS
  Bodies,       \* the function bodies the diagnostic is run on
  ExecDepth     \* bound on |sp| of the executing machine

Instructions == [addr : Int, op : STRING, chg : Int, dyn : BOOLEAN, ra : BOOLEAN, target : Int]

(* analyze_frame returns at once for a function without instructions. *)
ASSUME FrameAssumption == \A body \in Bodies : body \in Seq(Instructions) /\ body # <<>>

VARIABLES
  frame,        \* the locals of analyze_frame
  exec          \* the machine: pc, sp, and whether it has left the body

frameVars == <<frame, exec>>

NoAddress == -1

Starts(body) == {body[i].addr : i \in DOMAIN body}

IndexByPc(body, pc) == CHOOSE i \in DOMAIN body : body[i].addr = pc

(* stack_step: the signed change of sp, and nothing for a write to sp that is
   not an addi with a literal. *)
StackStep(ins) == IF ins.dyn THEN {} ELSE {ins.chg}

-----------------------------------------------------------------------------
(* successors: the addresses control can go to, whether the instruction
   leaves the function, and whether the walk cannot follow it. *)
Follows(list) == [succ |-> list, exit |-> FALSE, problem |-> FALSE]
Leaves == [succ |-> <<>>, exit |-> TRUE, problem |-> FALSE]
Nowhere == Follows(<<>>)
Problem == [succ |-> <<>>, exit |-> FALSE, problem |-> TRUE]

Successors(body, i) ==
  LET ins == body[i]
      starts == Starts(body)
      contiguous == i < Len(body) /\ body[i + 1].addr = ins.addr + 1
      next == IF contiguous THEN Follows(<<ins.addr + 1>>) ELSE Problem
  IN CASE ins.op = "ret" -> Leaves
       [] ins.op = "trap" -> Problem
       [] ins.op = "jump" ->
            IF ins.target \in starts THEN Follows(<<ins.target>>)
            ELSE [Leaves EXCEPT !.problem = ins.target = NoAddress]
       [] ins.op = "branch" ->
            IF ins.target \in starts /\ contiguous
            THEN Follows(<<ins.target, ins.addr + 1>>) ELSE Problem
       [] ins.op = "jrT0" -> Leaves
       [] ins.op = "jr" -> Problem
       [] ins.op = "tail" ->           \* jal zero
            IF ins.target \in starts THEN Follows(<<ins.target>>)
            ELSE [Nowhere EXCEPT !.problem = ins.target = NoAddress]
       [] ins.op \in {"call", "link", "icall"} ->
            IF ins.target = NoAddress THEN Problem ELSE next
       [] ins.op = "itail" -> Problem  \* jalr zero
       [] ins.op = "linear" -> next
       [] OTHER -> Problem             \* an unsupported mnemonic

-----------------------------------------------------------------------------
(* The issues found before the walk starts: duplicate addresses, a first
   instruction that is not at the symbol, instruction gaps. *)
BodyIssues(body, start) ==
  (IF Cardinality(Starts(body)) # Len(body) THEN {"duplicate address"} ELSE {})
  \cup (IF body[1].addr # start THEN {"first instruction misplaced"} ELSE {})
  \cup (IF \E i \in 1 .. Len(body) - 1 : body[i].addr + 1 # body[i + 1].addr
        THEN {"instruction gap"} ELSE {})

Visit(pc, delta, path) == [pc |-> pc, delta |-> delta, path |-> path]

FrameStart(body, link) ==
  /\ frame = [body |-> body, link |-> link,
              work |-> <<Visit(body[1].addr, 0, <<[pc |-> body[1].addr, delta |-> 0]>>)>>,
              seen |-> {}, exits |-> 0, min |-> 0,
              issues |-> BodyIssues(body, 1), done |-> FALSE]
  /\ exec = [pc |-> 1, sp |-> 0, running |-> FALSE, left |-> FALSE]

FrameInit == \E body \in Bodies, link \in BOOLEAN : FrameStart(body, link)

(* The delta an address had where the walked path last met it. *)
Earlier(path, pc) ==
  LET met == {k \in DOMAIN path : path[k].pc = pc}
  IN IF met = {} THEN {} ELSE {path[Max(met)].delta}

(* The work loop pops a pc with its delta and its path. *)
Work == Last(frame.work)
Popped == Front(frame.work)
\* Mutant: an address is visited once, whatever the stack depth.
Visited_PcOnly == <<Work.pc, 0>>
Visited == <<Work.pc, Work.delta>>
ItemIndex == IndexByPc(frame.body, Work.pc)
(* A return through t0 is one only in a body that was linked through it. *)
Flow(i) == IF frame.body[i].op = "jrT0" /\ ~frame.link THEN Problem ELSE Successors(frame.body, i)
LinkIssues(ins) == IF ins.ra THEN {"link register"} ELSE {}

FrameSkip ==
  /\ frame.work # <<>> /\ Visited \in frame.seen
  /\ frame' = [frame EXCEPT !.work = Popped]
  /\ UNCHANGED exec

(* A write to sp the walk cannot read: an issue, and the path ends here. *)
FrameUnreadable ==
  /\ frame.work # <<>> /\ Visited \notin frame.seen
  /\ StackStep(frame.body[ItemIndex]) = {}
  /\ frame' = [frame EXCEPT
       !.work = Popped,
       !.seen = @ \cup {Visited},
       !.issues = @ \cup LinkIssues(frame.body[ItemIndex]) \cup {"dynamic sp"}]
  /\ UNCHANGED exec

(* Record the instruction's issues and push the successors the path has not
   met; a successor the path has met with another delta is a loop that moves
   the stack. *)
FrameFollow ==
  /\ frame.work # <<>> /\ Visited \notin frame.seen
  /\ \E change \in StackStep(frame.body[ItemIndex]) :
     LET ins == frame.body[ItemIndex]
         after == Work.delta + change
         flow == Flow(ItemIndex)
         push(pc) ==
           IF Earlier(Work.path, pc) # {} THEN <<>>
           ELSE <<Visit(pc, after, Append(Work.path, [pc |-> pc, delta |-> after]))>>
         cycle == \E k \in DOMAIN flow.succ :
                    \E old \in Earlier(Work.path, flow.succ[k]) : old # after
     IN frame' = [frame EXCEPT
          !.work = Popped \o FlattenSeq([k \in DOMAIN flow.succ |-> push(flow.succ[k])]),
          !.seen = @ \cup {Visited},
          !.exits = @ + (IF flow.exit THEN 1 ELSE 0),
          !.min = IF after < @ THEN after ELSE @,
          !.issues = @ \cup LinkIssues(ins)
               \cup (IF flow.problem THEN {"problem"} ELSE {})
               \cup (IF flow.exit /\ after # 0 THEN {"unbalanced return"} ELSE {})
               \cup (IF cycle THEN {"stack-changing cycle"} ELSE {})]
  /\ UNCHANGED exec

(* The report: frameBytes is -min_delta, and a body with no exit is an issue. *)
FrameReport ==
  /\ frame.work = <<>> /\ ~frame.done
  /\ frame' = [frame EXCEPT
       !.done = TRUE,
       !.issues = @ \cup (IF frame.exits = 0 THEN {"no return path"} ELSE {})]
  /\ exec' = [exec EXCEPT !.running = frame'.issues = {}]

FrameBytes == -frame.min

-----------------------------------------------------------------------------
(* The machine.  A callee returns to the next instruction with sp as it was;
   an sp write the walk cannot read may leave any value. *)
ExecSp(ins) == IF ins.dyn THEN -ExecDepth .. ExecDepth ELSE {exec.sp + ins.chg}

ExecStep ==
  /\ exec.running /\ ~exec.left /\ exec.pc \in Starts(frame.body)
  /\ LET ins == frame.body[IndexByPc(frame.body, exec.pc)]
         next == exec.pc + 1
         goto == CASE ins.op \in {"jump", "tail"} -> {ins.target}
                   [] ins.op = "branch" -> {ins.target, next}
                   [] ins.op \in {"linear", "call", "link", "icall"} -> {next}
                   [] OTHER -> {NoAddress}
     IN \E sp \in ExecSp(ins), pc \in goto :
          /\ sp \in -ExecDepth .. ExecDepth
          /\ exec' = [exec EXCEPT !.sp = sp, !.pc = pc,
                        !.left = \/ ins.op \in {"ret", "jrT0"}
                                 \/ (ins.op = "jump" /\ pc \notin Starts(frame.body))]
  /\ UNCHANGED frame

FrameNext == FrameSkip \/ FrameUnreadable \/ FrameFollow \/ FrameReport \/ ExecStep

FrameSpec == FrameInit /\ [][FrameNext]_frameVars

-----------------------------------------------------------------------------
(* A walk that ends with nothing unresolved covers every execution of the
   body: the stack never gets deeper than frameBytes, control is always at a
   decoded instruction until it leaves, and every return or jump out of the
   body leaves sp where it found it.  (A `jal zero` to an address outside the
   body is not an exit to the walk; it is excluded here as it is there.) *)
FrameCoversExecution ==
  exec.running =>
    /\ -exec.sp <= FrameBytes
    /\ exec.left => exec.sp = 0
    /\ \/ exec.left
       \/ exec.pc \in Starts(frame.body)
       \/ \E i \in DOMAIN frame.body : frame.body[i].op = "tail" /\ exec.pc = frame.body[i].target

=============================================================================
