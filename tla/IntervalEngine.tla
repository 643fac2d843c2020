--------------------------- MODULE IntervalEngine ---------------------------
(***************************************************************************)
(* The abstract interpreter behind the first-initialization stack proof    *)
(* (Tools/EmbeddedApplicationMacros/initialization_interval.py: Engine,    *)
(* prove).  It follows the firmware's instructions with a set of possible  *)
(* values for every register and private stack word, and proves that the   *)
(* stretch from the application entry to the return of the trace-end call  *)
(* runs begin, hook, end in this order within the configured stack.        *)
(*                                                                         *)
(* An image has code (address -> instruction), the extents of its          *)
(* functions, and the addresses the proof looks up by symbol.  Addresses   *)
(* and stack words are one unit wide.  An instruction is a record with op, *)
(* rd, rs, imm and target; the op stands for a class of mnemonics:         *)
(*   li (lui, auipc, c.li)   mv   addi   havoc (results the engine does    *)
(*   not track: csr, lr/sc, mul, ...)   lw   sw   beqz   jal   jalr   trap *)
(*                                                                         *)
(* Beside the engine runs a machine that executes the image concretely; it *)
(* starts once the proof has passed and is what the proof is judged by.    *)
(***************************************************************************)
EXTENDS Integers, Sequences, FiniteSetsExt, SequencesExt, Functions

CONSTANTS
  Images,           \* the images the proof is run on
  MaxFacts,         \* most values tracked for one register (32)
  DepthLimit,       \* deepest stack the engine follows (1 << 20)
  ConfiguredStack   \* capacity of the main task's stack

VARIABLES
  proof,            \* prove: the image, the jobs done, the engines, the verdict
  active,           \* the stack of unfinished Engine.analyze calls
  machine           \* the executing firmware

intervalVars == <<proof, active, machine>>

STACK == 1000
RETURN == -1000                  \* the return address of an analysed root
Saved(r) == RETURN - 8           \* the caller's value of a saved register
Registers == {"ra", "t0", "sp", "s0", "a0", "a1", "a2"}
CALLER == {"ra", "t0", "a0", "a1", "a2"}
SAVED == {"s0"}

-----------------------------------------------------------------------------
(* Facts: the values a register may hold.  Top, "any value", is the empty
   set, which no fact is. *)
Top == {}
Capped(values) == IF Cardinality(values) <= MaxFacts THEN values ELSE Top
Join(a, b) == IF a = Top \/ b = Top THEN Top ELSE Capped(a \cup b)
JoinAll(facts) == IF Top \in facts THEN Top ELSE Capped(UNION facts)
Token(x) == x <= RETURN
Shift(a, k) == IF a = Top \/ \E x \in a : Token(x) THEN Top ELSE {x + k : x \in a}

(* A state of the abstract machine, and the join of two at one location.
   Memory keeps only the words both know. *)
State(regs, mem, phase) == [regs |-> regs, mem |-> mem, phase |-> phase]
MergeStates(s, t) ==
  State([r \in Registers |-> Join(s.regs[r], t.regs[r])],
        [w \in DOMAIN s.mem \cap DOMAIN t.mem |-> Join(s.mem[w], t.mem[w])],
        s.phase)

(* States are told apart by pc, both link registers, sp and the stage. *)
Location(pc, s) == <<pc, s.regs["ra"], s.regs["t0"], s.regs["sp"], s.phase>>

SetReg(regs, r, value) == IF r = "zero" THEN regs ELSE [regs EXCEPT ![r] = value]

EntryRegs(callback) ==
  [r \in Registers |-> CASE r = "ra" -> {RETURN}
                         [] r = "sp" -> {STACK}
                         [] r \in SAVED -> {Saved(r)}
                         [] r = "a1" -> callback
                         [] OTHER -> Top]

(* Program.function: the function that owns an address. *)
Owners(img, pc) == {f \in img.fns : f.start <= pc /\ pc < f.end}
Owner(img, pc) == CHOOSE f \in Owners(img, pc) : TRUE

-----------------------------------------------------------------------------
(* What an instruction other than a transfer does to a state; Unclosed is the
   engine's refusal. *)
Unclosed == [ok |-> FALSE]
Goes(regs, mem) == [ok |-> TRUE, regs |-> regs, mem |-> mem]

InStack(w) == STACK - DepthLimit <= w /\ w <= STACK
BelowSp(w, sp) == STACK - DepthLimit <= w /\ w < sp

LoadFact(img, mem, words) ==
  IF words = Top THEN Top
  ELSE JoinAll({IF w \in DOMAIN mem THEN mem[w]
                ELSE IF w \in DOMAIN img.rodata THEN {img.rodata[w]} ELSE Top : w \in words})

(* A store is recorded only when its address is one private stack word. *)
StoreFact(mem, words, fact) ==
  IF Cardinality(words) = 1 /\ \A w \in words : InStack(w)
  THEN [w \in DOMAIN mem \cup words |-> IF w \in words THEN fact ELSE mem[w]]
  ELSE mem

Linear(img, s, ins) ==
  LET sp == CHOOSE x \in s.regs["sp"] : TRUE
      words == Shift(s.regs[ins.rs], ins.imm)
      value == CASE ins.op = "li" -> {ins.imm}
                 [] ins.op = "mv" -> s.regs[ins.rs]
                 [] ins.op = "addi" -> Shift(s.regs[ins.rs], ins.imm)
                 [] ins.op = "lw" -> LoadFact(img, s.mem, words)
                 [] OTHER -> Top
  IN IF ins.op \in {"lw", "sw"} /\ \E w \in words : BelowSp(w, sp) THEN Unclosed
     ELSE IF ins.op = "sw" THEN Goes(s.regs, StoreFact(s.mem, words, s.regs[ins.rd]))
     ELSE IF ins.rd = "sp" /\ Cardinality(value) # 1 THEN Unclosed
     ELSE Goes(SetReg(s.regs, ins.rd, value), s.mem)

(* The two ways out of a branch on zero.  A register whose values are known
   loses the ones that cannot take the way; a way no value takes is dropped. *)
BranchWays(s, ins, pc) ==
  LET known == s.regs[ins.rs]
      refine(zero) == IF known = Top \/ \E x \in known : Token(x) THEN {known}
                      ELSE {{x \in known : (x = 0) = zero}} \ {{}}
      way(to, zero) == {[pc |-> to, regs |-> [s.regs EXCEPT ![ins.rs] = v]] : v \in refine(zero)}
  IN way(ins.target, TRUE) \cup way(pc + 1, FALSE)

-----------------------------------------------------------------------------
(* Transfers.  The mode of an analysis says which calls end it, which are
   skipped, inlined or summarised, where it is cut and which stages it must
   pass in order. *)
Mode(stopCalls, skip, inline, summaries, stopPcs, stages) ==
  [stopCalls |-> stopCalls, skip |-> skip, inline |-> inline,
   summaries |-> summaries, stopPcs |-> stopPcs, stages |-> stages]
PlainMode == Mode({}, FALSE, FALSE, {}, {}, <<>>)

Destinations(s, ins) == IF ins.op = "jal" THEN {ins.target} ELSE s.regs[ins.rs]

(* The stage after a transfer to these targets in address order; -1 when one
   of them is a stage out of turn. *)
StageAfter(stages, phase, targets) ==
  FoldLeft(LAMBDA at, t : IF at = -1 \/ t \notin Range(stages) THEN at
                          ELSE IF at < Len(stages) /\ stages[at + 1] = t THEN at + 1 ELSE -1,
           phase, SetToSortSeq(targets, <))

Exceptional(img, t) == Owner(img, t).start \in img.exceptional

Internal(img, mode, owner, ins, t) ==
  \/ Owner(img, t).start = owner.start
  \/ ins.rd \in {"zero", "t0"}
  \/ mode.inline /\ t \notin mode.summaries

Ends(img, mode, t) == t \in mode.stopCalls \/ Exceptional(img, t)

Inlined(img, mode, owner, ins, targets) ==
  {t \in targets : ~Ends(img, mode, t) /\ Internal(img, mode, owner, ins, t)}
Summarised(img, mode, owner, ins, targets) ==
  {t \in targets : ~Ends(img, mode, t) /\ ~Internal(img, mode, owner, ins, t)}

(* The callback a summarised call passes on: only swift_once takes one. *)
CallbackOf(img, s, t) == IF t = img.once THEN s.regs["a1"] ELSE Top

(* The checks that refuse a transfer. *)
TransferRefused(img, act, s, owner, ins, dest) ==
  LET targets == dest \ {RETURN}
  IN \/ dest = Top
     \/ RETURN \in dest /\ \/ s.regs["sp"] # act.sp
                           \/ \E r \in SAVED : s.regs[r] # act.saved[r]
                           \/ act.mode.stages # <<>> /\ s.phase = 2
     \/ \E t \in targets : Owners(img, t) = {}
     \/ \E t \in targets : t = owner.start /\ ins.rd \in {"zero", "ra", "t0"}
     \/ img.once \in targets /\ (s.regs["a0"] = Top \/ s.regs["a1"] = Top)
     \/ act.mode.stages # <<>> /\ StageAfter(act.mode.stages, s.phase, targets) = -1

(* The registers after the transfer: a summarised call forgets what a callee
   may change, and brings the callee's result where summaries are exported. *)
AfterCalls(mode, engine, s, ins, pc, inlined, summarised, cb(_)) ==
  LET clobbered == IF summarised = {} THEN s.regs
                   ELSE [r \in Registers |-> IF r \in CALLER THEN Top ELSE s.regs[r]]
      linked == IF inlined \cup summarised = {} THEN clobbered
                ELSE SetReg(clobbered, ins.rd, {pc + 1})
      exported == UNION {engine.returns[<<t, cb(t)>>] :
                           t \in {x \in summarised : mode.skip /\ x \in mode.summaries}}
  IN IF exported = {} THEN linked
     ELSE [r \in Registers |-> IF r \in {"a0", "a1", "a2"} THEN JoinAll({x.regs[r] : x \in exported})
                               ELSE linked[r]]

(* The ROM's memcpy moves the facts of the words it copies when destination,
   source and length are known; otherwise it may have written anywhere, and
   only what holds a saved register is kept. *)
CopyLimit == 65536
Copied(mem, dst, src, length) ==
  LET moved == {w \in DOMAIN mem : src <= w /\ w < src + length}
      kept == {w \in DOMAIN mem : w < dst \/ dst + length <= w}
  IN [w \in kept \cup {dst + w - src : w \in moved} |-> IF w \in kept THEN mem[w] ELSE mem[src + w - dst]]
AfterCopy(mem, args) ==
  LET the(k) == CHOOSE x \in args[k] : TRUE
  IN IF \E k \in 1 .. 3 : Cardinality(args[k]) # 1
     THEN [w \in {x \in DOMAIN mem : mem[x] # Top /\ \A v \in mem[x] : Token(v)} |-> mem[w]]
     ELSE IF 0 <= the(3) /\ the(3) <= CopyLimit THEN Copied(mem, the(1), the(2), the(3)) ELSE mem

(* A callee dispatched before it has already clobbered its arguments. *)
CopyArguments(img, s, summarised) ==
  IF \E t \in summarised : t < img.memcpy THEN <<Top, Top, Top>>
  ELSE <<s.regs["a0"], s.regs["a1"], s.regs["a2"]>>
MemAfterCalls(img, s, summarised) ==
  IF img.memcpy \in summarised THEN AfterCopy(s.mem, CopyArguments(img, s, summarised)) ELSE s.mem

-----------------------------------------------------------------------------
(* One call of Engine.analyze. *)
Analysis(addr, callback, mode, regs, mem, special) ==
  [addr |-> addr, callback |-> callback, mode |-> mode, special |-> special,
   sp |-> regs["sp"], saved |-> [r \in SAVED |-> regs[r]],
   states |-> (Location(addr, State(regs, mem, 0)) :> State(regs, mem, 0)),
   work |-> <<Location(addr, State(regs, mem, 0))>>,
   max |-> 0, returns |-> {}, stops |-> {}]

NewEngine == [cache |-> <<>>, returns |-> <<>>, graph |-> {}, visited |-> {}, sites |-> {}]

Jobs == {"app", "hook", "probe", "total"}
EngineOf == [app |-> "e", hook |-> "initializer", probe |-> "probe", total |-> "e"]

Img == proof.img
Engine == proof.engines[EngineOf[proof.job]]
Stages == <<Img.begin, Img.hook, Img.end>>
Act == Last(active)
Loc == Head(Act.work)
Pc == Loc[1]
Cur == Act.states[Loc]
Ins == Img.code[Pc]
Depth == STACK - (CHOOSE x \in Cur.regs["sp"] : TRUE)
At == Owner(Img, Pc)

Working == active # <<>> /\ Act.work # <<>>
Refuse == /\ proof' = [proof EXCEPT !.job = "unclosed"]
          /\ active' = <<>>
          /\ UNCHANGED machine

Cut == Pc \in Act.mode.stopPcs
StagesPassed == Act.mode.stages = <<>> \/ Cur.phase = Len(Act.mode.stages)
Lost == Pc \notin DOMAIN Img.code \/ Owners(Img, Pc) = {} \/ Depth < 0 \/ Depth > DepthLimit
Jumps == Ins.op \in {"jal", "jalr"}
Targets == Destinations(Cur, Ins) \ {RETURN}
Calls == Summarised(Img, Act.mode, At, Ins, Targets)
Skipped(t) == Act.mode.skip /\ t \notin Act.mode.summaries
Callback(t) == CallbackOf(Img, Cur, t)
Needed == {t \in Calls : ~Skipped(t) /\ <<t, Callback(t)>> \notin DOMAIN Engine.cache}
\* Mutant: a summarised callee is followed without its depth.
Bound_Uncharged(t) == 0
Bound(t) == IF Skipped(t) THEN 0 ELSE Engine.cache[<<t, Callback(t)>>]

Refused ==
  IF Cut THEN ~StagesPassed
  ELSE IF Lost THEN TRUE
  ELSE IF Jumps
  THEN IF TransferRefused(Img, Act, Cur, At, Ins, Destinations(Cur, Ins)) THEN TRUE
       ELSE Needed # {} /\ \E k \in DOMAIN active : active[k].addr = Min(Needed)
  ELSE Ins.op \notin {"beqz", "trap"} /\ ~Linear(Img, Cur, Ins).ok

VisitRefused == Working /\ Refused /\ Refuse

Marked(engine) == [engine EXCEPT !.visited = @ \cup {Pc}]
SetEngine(engine) == [proof EXCEPT !.engines[EngineOf[proof.job]] = engine]

VisitCut ==
  /\ Working /\ Cut /\ StagesPassed
  /\ active' = Append(Front(active),
       [Act EXCEPT !.work = Tail(@), !.stops = @ \cup {[pc |-> Pc, target |-> Pc, state |-> Cur]}])
  /\ proof' = SetEngine(Marked(Engine))
  /\ UNCHANGED machine

(* Merge the successors into the states of their locations; a location whose
   state has changed is visited again. *)
Follow(act, ways, mem, phase, deepest) ==
  LET nexts == {[at |-> w.pc, state |-> State(w.regs, mem, phase)] : w \in ways}
      locOf(n) == Location(n.at, n.state)
      merged(n) == IF locOf(n) \in DOMAIN act.states
                   THEN MergeStates(act.states[locOf(n)], n.state) ELSE n.state
      changed == {n \in nexts : locOf(n) \notin DOMAIN act.states \/ merged(n) # act.states[locOf(n)]}
      order == SetToSortSeq(changed, LAMBDA x, y : x.at < y.at)
  IN [act EXCEPT
       !.states = [l \in {locOf(n) : n \in changed} |-> merged(CHOOSE n \in changed : locOf(n) = l)] @@ @,
       !.work = Tail(@) \o [k \in DOMAIN order |-> locOf(order[k])],
       !.max = Max({@} \cup deepest)]

VisitPlain ==
  /\ Working /\ ~Cut /\ ~Lost /\ ~Jumps
  /\ Ins.op \in {"beqz", "trap"} \/ Linear(Img, Cur, Ins).ok
  /\ LET after == Linear(Img, Cur, Ins)
         act == CASE Ins.op = "trap" -> Follow(Act, {}, Cur.mem, Cur.phase, {Depth})
                  [] Ins.op = "beqz" -> Follow(Act, BranchWays(Cur, Ins, Pc), Cur.mem, Cur.phase, {Depth})
                  [] OTHER -> Follow(Act, {[pc |-> Pc + 1, regs |-> after.regs]}, after.mem, Cur.phase, {Depth})
     IN active' = Append(Front(active), act)
  /\ proof' = SetEngine(Marked(Engine))
  /\ UNCHANGED machine

TransferOpen ==
  /\ Working /\ ~Cut /\ ~Lost /\ Jumps
  /\ ~TransferRefused(Img, Act, Cur, At, Ins, Destinations(Cur, Ins))

(* A summarised callee that is not in the cache is analysed first; the call
   is visited again when its bound is known. *)
VisitCallee ==
  /\ TransferOpen /\ Needed # {}
  /\ LET t == Min(Needed)
     IN /\ \A k \in DOMAIN active : active[k].addr # t
        /\ active' = Append(active, Analysis(t, Callback(t), PlainMode, EntryRegs(Callback(t)), <<>>, FALSE))
  /\ UNCHANGED <<proof, machine>>

VisitTransfer ==
  /\ TransferOpen /\ Needed = {}
  /\ LET inlined == Inlined(Img, Act.mode, At, Ins, Targets)
         regs == AfterCalls(Act.mode, Engine, Cur, Ins, Pc, inlined, Calls, Callback)
         phase == IF Act.mode.stages = <<>> THEN Cur.phase
                  ELSE StageAfter(Act.mode.stages, Cur.phase, Targets)
         ways == {[pc |-> t, regs |-> regs] : t \in inlined}
                 \cup (IF Calls = {} THEN {} ELSE {[pc |-> Pc + 1, regs |-> regs]})
         mem == MemAfterCalls(Img, Cur, Calls)
         act == Follow(Act, ways, mem, phase, {Depth} \cup {Depth + Bound(t) : t \in Calls})
     IN /\ active' = Append(Front(active), [act EXCEPT
             !.returns = @ \cup (IF RETURN \in Destinations(Cur, Ins) THEN {Cur} ELSE {}),
             !.stops = @ \cup {[pc |-> Pc, target |-> t, state |-> State(Cur.regs, Cur.mem, phase)] :
                                 t \in Targets \cap Act.mode.stopCalls}])
        /\ proof' = SetEngine([Marked(Engine) EXCEPT
             !.graph = @ \cup {<<At.start, t>> : t \in {x \in Targets :
                          x = Owner(Img, x).start /\ x # At.start /\ Ins.rd \in {"zero", "ra", "t0"}}},
             !.sites = @ \cup {<<phase, Pc>> : x \in Targets \cap Range(Act.mode.stages)}])
  /\ UNCHANGED machine

-----------------------------------------------------------------------------
(* The end of an analysis: the call graph must have no cycle, a plain callee
   a proven return; its bound and return states are kept. *)
Reaches(graph, from) ==
  LET grow[n \in 0 .. Cardinality(graph)] ==
        IF n = 0 THEN {e[2] : e \in {x \in graph : x[1] = from}}
        ELSE LET got == grow[n - 1] IN got \cup {e[2] : e \in {x \in graph : x[1] \in got}}
  IN grow[Cardinality(graph)]
CyclicGraph(graph) == \E e \in graph : e[1] \in Reaches(graph, e[1])

Finished == active # <<>> /\ Act.work = <<>>
Accepted == ~CyclicGraph(Engine.graph) /\ (Act.special \/ Act.returns # {})

Recorded ==
  LET key == <<Act.addr, Act.callback>>
  IN [Engine EXCEPT !.returns = (key :> Act.returns) @@ @,
                    !.cache = IF Act.special THEN @ ELSE (key :> Act.max) @@ @]

AnalysisRefused == Finished /\ ~Accepted /\ Refuse

CalleeDone ==
  /\ Finished /\ Accepted /\ Len(active) > 1
  /\ proof' = SetEngine(Recorded)
  /\ active' = Front(active)
  /\ UNCHANGED machine

(* prove: the caller chain down to the entry (one job stands for the wrapper,
   main_task and app_main, which are analysed alike), the hook on its own, a
   probe for the unique trace-end call, and the whole interval. *)
SeededRegs == [proof.seed.regs EXCEPT !["ra"] = {RETURN}]
JobStart ==
  /\ active = <<>> /\ proof.job \in Jobs
  /\ active' = <<
       CASE proof.job = "app" ->
              Analysis(Img.app, Top, Mode({Img.entry}, TRUE, FALSE, {Img.getter}, {}, <<>>), EntryRegs(Top), <<>>, TRUE)
         [] proof.job = "hook" -> Analysis(Img.hook, Top, PlainMode, EntryRegs(Top), <<>>, FALSE)
         [] proof.job = "probe" ->
              Analysis(Img.entry, Top, Mode({Img.end, Img.run}, TRUE, FALSE, {}, {}, Stages), SeededRegs, proof.seed.mem, TRUE)
         [] proof.job = "total" ->
              Analysis(Img.entry, Top, Mode({Img.run}, FALSE, TRUE, {Img.hook, Img.memcpy}, {proof.cut}, Stages),
                       SeededRegs, proof.seed.mem, TRUE)>>
  /\ UNCHANGED <<proof, machine>>

JobFinished == Finished /\ Accepted /\ Len(active) = 1
EntryStates == {x.state : x \in {y \in Act.stops : y.target = Img.entry}}
EndSites == {x.pc : x \in {y \in Act.stops : y.target = Img.end}}

JobRefused ==
  /\ JobFinished
  /\ CASE proof.job = "app" -> Cardinality(EntryStates) # 1
       [] proof.job = "hook" -> FALSE
       [] proof.job = "probe" -> Cardinality(EndSites) # 1
       [] proof.job = "total" ->
            \/ Act.stops = {} \/ \E x \in Act.stops : x.target # proof.cut
            \/ {x[1] : x \in Engine.sites} # 1 .. 3
            \/ Img.allocators \cap proof.engines["initializer"].visited # {}
            \/ Act.max > ConfiguredStack
  /\ Refuse

NextJob(job, field, value) ==
  /\ proof' = [SetEngine(Recorded) EXCEPT !.job = job, ![field] = value]
  /\ active' = <<>>
  /\ UNCHANGED machine

CallersProven ==
  /\ JobFinished /\ proof.job = "app" /\ Cardinality(EntryStates) = 1
  /\ NextJob("hook", "seed", CHOOSE x \in EntryStates : TRUE)
HookProven ==
  /\ JobFinished /\ proof.job = "hook"
  /\ NextJob("probe", "hookBound", Act.max)
EndFound ==
  /\ JobFinished /\ proof.job = "probe" /\ Cardinality(EndSites) = 1
  /\ NextJob("total", "cut", Max(EndSites) + 1)
IntervalProven ==
  /\ JobFinished /\ proof.job = "total"
  /\ Act.stops # {} /\ \A x \in Act.stops : x.target = proof.cut
  /\ {x[1] : x \in Engine.sites} = 1 .. 3
  /\ Img.allocators \cap proof.engines["initializer"].visited = {}
  /\ Act.max <= ConfiguredStack
  /\ NextJob("pass", "total", Act.max)

EngineNext ==
  \/ JobStart \/ VisitRefused \/ VisitCut \/ VisitPlain \/ VisitCallee \/ VisitTransfer
  \/ AnalysisRefused \/ CalleeDone \/ JobRefused
  \/ CallersProven \/ HookProven \/ EndFound \/ IntervalProven

-----------------------------------------------------------------------------
(* The machine: the firmware from the wrapper's call of the application on.
   Values the image does not fix are 0 or 1.  A store outside the stack
   changes nothing the engine tracks. *)
Inputs == {0, 1}
Off == [on |-> FALSE]

MachineStart ==
  /\ proof.job = "pass" /\ ~machine.on
  /\ \E v \in Inputs :
       machine' = [on |-> TRUE, pc |-> Img.app, stage |-> 0, entryReturn |-> 0, hookReturn |-> 0,
                   regs |-> [r \in Registers |-> CASE r = "ra" -> RETURN [] r = "sp" -> STACK
                                                   [] r = "s0" -> Saved(r) [] OTHER -> v],
                   mem |-> [w \in STACK - DepthLimit .. STACK |-> 0]]
  /\ UNCHANGED <<proof, active>>

Stopped == \/ machine.pc \notin DOMAIN Img.code
           \/ machine.pc = proof.cut
           \/ machine.pc = Img.run
           \/ Img.code[machine.pc].op = "trap"
           \/ machine.pc \in Img.exceptional

MachineStep ==
  /\ machine.on /\ ~Stopped
  /\ LET ins == Img.code[machine.pc]
         pc == machine.pc
         at == machine.regs[ins.rs] + ins.imm
         results == CASE ins.op = "li" -> {ins.imm}
                      [] ins.op = "mv" -> {machine.regs[ins.rs]}
                      [] ins.op = "addi" -> {at}
                      [] ins.op = "havoc" -> Inputs
                      [] ins.op = "lw" -> IF at \in DOMAIN machine.mem THEN {machine.mem[at]}
                                          ELSE IF at \in DOMAIN Img.rodata THEN {Img.rodata[at]} ELSE Inputs
                      [] OTHER -> {pc + 1}
         goto == CASE ins.op = "jal" -> ins.target
                   [] ins.op = "jalr" -> machine.regs[ins.rs]
                   [] ins.op = "beqz" /\ machine.regs[ins.rs] = 0 -> ins.target
                   [] OTHER -> pc + 1
     IN \E v \in results :
          machine' = [machine EXCEPT
            !.pc = goto,
            !.regs = IF ins.op \in {"sw", "beqz"} THEN @ ELSE SetReg(@, ins.rd, v),
            !.mem = IF ins.op = "sw" /\ at \in DOMAIN @ THEN [@ EXCEPT ![at] = machine.regs[ins.rd]] ELSE @,
            !.entryReturn = IF goto = Img.entry THEN pc + 1 ELSE IF goto = @ THEN 0 ELSE @,
            !.stage = IF goto \in Range(Stages) THEN StageAfter(Stages, @, {goto}) ELSE @,
            !.hookReturn = IF goto = Img.hook THEN pc + 1 ELSE IF goto = @ THEN 0 ELSE @]
  /\ UNCHANGED <<proof, active>>

IntervalStart(img) ==
  /\ proof = [img |-> img, job |-> "app", seed |-> 0, hookBound |-> 0, cut |-> 0, total |-> 0,
              engines |-> [x \in {"e", "initializer", "probe"} |-> NewEngine]]
  /\ active = <<>>
  /\ machine = Off

IntervalInit == \E img \in Images : IntervalStart(img)

IntervalNext == EngineNext \/ MachineStart \/ MachineStep

-----------------------------------------------------------------------------
(* A passed proof describes every execution of the interval: from the entry
   on the stack never holds more than maximumStackBytes and control is at an
   instruction the engine has visited until the entry returns; no execution
   meets a stage out of turn, reaches the cut without all three or enters
   App.run, and none enters an allocator while the hook is running. *)
BoundCoversExecution ==
  machine.on =>
    /\ machine.entryReturn # 0 =>
         /\ STACK - machine.regs["sp"] <= proof.total
         /\ proof.total <= ConfiguredStack
         /\ machine.pc \in proof.engines["e"].visited
    /\ machine.stage # -1
    /\ machine.pc = proof.cut => machine.stage = 3
    /\ machine.pc # Img.run
    /\ machine.hookReturn # 0 => machine.pc \notin Img.allocators

=============================================================================
