---------------------------- MODULE MCInitProof -----------------------------
(* Function bodies and call graphs for the two walks of the diagnostic.      *)
EXTENDS FrameWalk, CallWalk, InitProof, FirstEpoch, DiagnosticReport, TLC

(* Bodies of four instructions: stack moves of either sign, loops, gaps,
   calls, exits of every kind, and targets inside, outside and unknown. *)
Decoded(addr, op, chg, dyn, ra, target) ==
  [addr |-> addr, op |-> op, chg |-> chg, dyn |-> dyn, ra |-> ra, target |-> target]
Plain(addr, op, target) == Decoded(addr, op, 0, FALSE, FALSE, target)
Move(addr, n) == Decoded(addr, "linear", n, FALSE, FALSE, NoAddress)

MiddleIns(addr) ==
  {Move(addr, -1), Move(addr, 1), Move(addr, 0), Decoded(addr, "linear", 0, TRUE, FALSE, NoAddress),
   Decoded(addr, "call", 0, FALSE, TRUE, 9), Plain(addr, "link", 9), Plain(addr, "icall", 9),
   Plain(addr, "ret", NoAddress), Plain(addr, "jr", NoAddress), Plain(addr, "tail", 9), Move(5, 0)}
  \cup {Plain(addr, "branch", t) : t \in {1, 4, 9}}
  \cup {Plain(addr, "jump", t) : t \in {NoAddress, 4, 9}}

MCBodies ==
  {<<a, b, c, d>> :
     a \in {Move(1, -2), Move(1, -1), Move(1, 0), Plain(1, "branch", 3)},
     b \in MiddleIns(2), c \in MiddleIns(3),
     d \in {Plain(4, "ret", NoAddress), Plain(4, "jrT0", NoAddress), Plain(4, "branch", 2),
            Plain(4, "tail", 2), Decoded(4, "ret", 2, FALSE, FALSE, NoAddress),
            Decoded(4, "jump", 1, FALSE, FALSE, 9), Plain(4, "linear", NoAddress)}}

IdleBody == <<Move(1, 0), Plain(2, "ret", NoAddress)>>

-----------------------------------------------------------------------------
(* Programs of a hook with up to two sites, two functions with one, and
   swift_once with its indirect call. *)
Site(pc, kind, target, callbacks) ==
  [pc |-> pc, kind |-> kind, target |-> target, callbacks |-> callbacks]
SitePool(pc) ==
  {Site(pc, "call", t, {}) : t \in {"root", "f", "g", "once", "malloc", "rom", "none"}}
  \cup {Site(pc, "outlined-link", "g", {}), Site(pc, "tail-call", "image", {}),
        Site(pc, "call", "once", {"f"}), Site(pc, "call", "once", {"ghost"}),
        Site(pc, "call", "none", {"g"})}
OneSite == {<<>>} \cup {<<a>> : a \in SitePool(1)}
TwoSites == OneSite \cup {<<a, b>> : a \in SitePool(1), b \in SitePool(2)}
Callees == {<<>>} \cup {<<Site(1, "call", t, {})>> : t \in {"root", "f", "g", "once"}}
           \cup {<<Site(1, "call", "once", {"f"})>>, <<Site(1, "call", "none", {"g"})>>}
OnceSites == {<<Site(1, "call", "none", {})>>,
              <<Site(1, "call", "g", {}), Site(2, "call", "none", {})>>}

Program(hook, f, g, once) ==
  ("root" :> <<>>) @@ ("hook" :> hook) @@ ("f" :> f) @@ ("g" :> g) @@ ("once" :> once)
  @@ ("malloc" :> <<>>)

MCPrograms ==
  {Program(h, f, g, o) : h \in TwoSites, f \in Callees,
                         g \in {<<>>} \cup {<<Site(1, "call", t, {})>> : t \in {"hook", "f", "once", "malloc"}},
                         o \in OnceSites}

-----------------------------------------------------------------------------
(* Where a tool rests while another one runs. *)
OneBuild ==
  /\ artifacts = [f \in Artifacts |-> 1] /\ evidence = [d \in Documents |-> 1]
IdleArguments == [parses |-> TRUE, known |-> TRUE, complete |-> TRUE, out |-> TRUE]
=============================================================================
