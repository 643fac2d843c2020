------------------------------ MODULE CallWalk ------------------------------
(***************************************************************************)
(* The call-graph walk of the first-initialization diagnostic              *)
(* (Tools/EmbeddedApplicationMacros/first_init_stack.py: call_sites,       *)
(* analyze).  The walk starts at the initialization hook, below the entry  *)
(* function, and follows every direct call, every callback the contract    *)
(* names, and inside swift_once the callbacks of the call that reached it. *)
(*                                                                         *)
(* A program gives every function its call sites in address order.  A site *)
(* has a pc, a kind (call, outlined-link, tail-call, tail-transfer), a     *)
(* target and the callbacks the contract lists for it.  A target is a      *)
(* linked function, an address without a symbol (Stray), or NoTarget for   *)
(* an indirect transfer.  ROM contracts are never trusted                  *)
(* (bind_rom_contracts returns none), so no call is resolved by one.       *)
(***************************************************************************)
EXTENDS Integers, Sequences, FiniteSetsExt, SequencesExt, Functions

CONSTANTS
  Root, Hook,      \* the application entry and the initialization hook
  Linked,          \* functions with an ELF symbol, Root and Hook included
  Bodyless,        \* the ones of them without a decoded body
  Once,            \* the ones whose name contains swift_once
  Allocators,      \* the ones whose name is an allocator entry
  RomStray, ImageStray,  \* unlinked targets below and above 0x40800000
  NoTarget,
  Programs         \* [Linked -> Seq(sites)]

ASSUME CallAssumption ==
  /\ IsFiniteSet(Linked) /\ {Root, Hook} \subseteq Linked /\ Once \subseteq Linked
  /\ \A prog \in Programs : \A fn \in Linked : prog[fn] \in Seq(Range(prog[fn]))

VARIABLE call      \* the locals of analyze

Strays == {RomStray, ImageStray}

(* call_sites: the calls in address order, then the jumps that leave the
   body; both are sites here, so a program lists them in that order. *)
CallSites(prog, fn) == IF fn \in Bodyless THEN <<>> ELSE prog[fn]

Entry(fn, ancestors, context, link) ==
  [fn |-> fn, ancestors |-> ancestors, context |-> context, link |-> link]

CallStart(prog) ==
  call = [prog |-> prog, todo |-> <<Entry(Hook, <<Root>>, {}, FALSE)>>,
          visited |-> {}, frames |-> {Root}, edges |-> {}, recursive |-> {},
          unresolved |-> {}, indirect |-> {}, romNeeds |-> {}, allocators |-> {}]

CallInit == \E prog \in Programs : CallStart(prog)

(* The callbacks of a site: inside swift_once an indirect site takes the ones
   that came with the call, every other site the contract's. *)
CallbackNames(site, context) ==
  IF site.target = NoTarget /\ context # {} THEN context ELSE site.callbacks

(* The functions a site leads to, each with the kind of its edge: its linked
   target, then its callbacks. *)
SiteTargetSeq(site, context) ==
  LET linked == SetToSeq(CallbackNames(site, context) \cap Linked)
  IN IF site.target \in Strays THEN <<>>
     ELSE (IF site.target \in Linked THEN <<<<site.target, site.kind>>>> ELSE <<>>)
          \o [k \in DOMAIN linked |-> <<linked[k], "callback">>]

SiteTargets(site, context) == Range(SiteTargetSeq(site, context))

(* What a site leaves unresolved. *)
SiteIssues(fn, site, context) ==
  LET names == IF site.target \in Strays THEN {} ELSE CallbackNames(site, context)
  IN (IF site.target \in Bodyless THEN {<<fn, site.pc, "no body">>} ELSE {})
     \cup (IF site.target \in Strays THEN {<<fn, site.pc, "missing body">>} ELSE {})
     \cup (IF names \ Linked # {} THEN {<<fn, site.pc, "callback body missing">>} ELSE {})
     \cup (IF site.target = NoTarget /\ names = {} THEN {<<fn, site.pc, "indirect">>} ELSE {})

IndirectSite(site, context) == site.target = NoTarget /\ CallbackNames(site, context) = {}

Item == Last(call.todo)
\* Mutant: the callbacks a function was entered with are not part of its key.
Key_NoContext == <<Item.fn, Last(Item.ancestors)>>
Key == <<Item.fn, Last(Item.ancestors), Item.context>>
\* Mutant: only a function that calls itself counts as recursive.
OnPath_Caller == Item.fn = Last(Item.ancestors)
OnPath == Item.fn \in Range(Item.ancestors)

(* The function is already on the path that leads to it. *)
CallRecursive ==
  /\ call.todo # <<>> /\ OnPath
  /\ call' = [call EXCEPT !.todo = Front(@), !.recursive = @ \cup {Item.fn}]

CallSeen ==
  /\ call.todo # <<>> /\ ~OnPath /\ Key \in call.visited
  /\ call' = [call EXCEPT !.todo = Front(@)]

(* Analyse the function's frame, then take its sites in order and push what
   each leads to. *)
CallVisit ==
  /\ call.todo # <<>> /\ ~OnPath /\ Key \notin call.visited
  /\ LET fn == Item.fn
         sites == CallSites(call.prog, fn)
         each == Range(sites)
         context == Item.context
         push(site) ==
           LET order == SiteTargetSeq(site, context)
           IN [k \in DOMAIN order |->
                Entry(order[k][1], Append(Item.ancestors, fn),
                      IF order[k][1] \in Once THEN CallbackNames(site, context) ELSE {},
                      site.kind = "outlined-link")]
     IN call' = [call EXCEPT
          !.todo = Front(@) \o FlattenSeq([k \in DOMAIN sites |-> push(sites[k])]),
          !.visited = @ \cup {Key},
          !.frames = @ \cup {fn},
          !.edges = @ \cup UNION {{<<fn, s.pc, t[2], t[1]>> : t \in SiteTargets(s, context)} : s \in each}
                      \cup {<<fn, s.pc, s.kind, s.target>> : s \in {x \in each :
                              x.target \in Strays \/ (x.kind = "tail-transfer" /\ IndirectSite(x, context))}},
          !.unresolved = @ \cup UNION {SiteIssues(fn, s, context) : s \in each},
          !.indirect = @ \cup {<<fn, s.pc>> : s \in {x \in each : IndirectSite(x, context)}},
          !.romNeeds = @ \cup {<<fn, s.pc, s.target>> : s \in {x \in each : x.target \in Bodyless \cup {RomStray}}},
          !.allocators = @ \cup UNION {{t[1] : t \in SiteTargets(s, context)} \cap Allocators : s \in each}]

CallNext == CallRecursive \/ CallSeen \/ CallVisit

CallSpec == CallInit /\ [][CallNext]_call

CallDone == call.todo = <<>>

-----------------------------------------------------------------------------
(* The reference: the nodes (a function with the callbacks it was entered
   with) reachable from the hook in the call graph, and the functions that
   can be entered again from themselves. *)
Leads(prog, node) ==
  UNION {{<<t[1], IF t[1] \in Once THEN CallbackNames(s, node[2]) ELSE {}>> :
            t \in SiteTargets(s, node[2])} : s \in Range(CallSites(prog, node[1]))}

Contexts(prog) == {{}} \cup UNION {{s.callbacks : s \in Range(CallSites(prog, fn))} : fn \in Linked}
Nodes(prog) == (Linked \X {{}}) \cup (Once \X Contexts(prog))

\* After as many rounds as there are nodes nothing is added.
Reachable(prog, from) ==
  LET rounds == Cardinality(Nodes(prog))
      grow[n \in 0 .. rounds] ==
        IF n = 0 THEN from
        ELSE LET reached == grow[n - 1] IN reached \cup UNION {Leads(prog, x) : x \in reached}
  IN grow[rounds]

ReachableNodes == Reachable(call.prog, {<<Hook, {}>>})

Beyond(node) == Reachable(call.prog, Leads(call.prog, node))

\* Some node is on a cycle; some function is entered again from itself.
Cyclic == \E node \in ReachableNodes : node[1] = Root \/ node \in Beyond(node)
Reentrant ==
  \E node \in ReachableNodes :
    node[1] = Root \/ \E again \in Beyond(node) : again[1] = node[1]

(* The finished walk reports a recursive path whenever the hook's call graph
   has a cycle (the entry function is on every path), and only when some
   function can be entered again before it returns.  The visited set keys a
   function by its caller and callbacks and not by its path, so a path cut
   there must never be the only one that shows the cycle.  Between the two
   lies a swift_once entered again with other callbacks: whether that is
   reported depends on which path was walked first. *)
RecursionReported ==
  CallDone =>
    /\ Cyclic => call.recursive # {}
    /\ call.recursive # {} => Reentrant

(* A finished walk that found no recursion has looked into every function the
   hook can reach, and lists every indirect transfer and every allocator entry
   that code can reach: none is hidden because its caller was first met with
   other callbacks. *)
ReachSurveyed ==
  CallDone /\ call.recursive = {} =>
    LET sitesOf(n) == Range(CallSites(call.prog, n[1]))
    IN /\ call.frames = {n[1] : n \in ReachableNodes} \cup {Root}
       /\ call.indirect = UNION {{<<n[1], s.pc>> : s \in {x \in sitesOf(n) : IndirectSite(x, n[2])}} : n \in ReachableNodes}
       /\ call.allocators = (UNION {{x[1] : x \in Leads(call.prog, n)} : n \in ReachableNodes}) \cap Allocators

=============================================================================
