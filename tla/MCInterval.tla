----------------------------- MODULE MCInterval -----------------------------
(***************************************************************************)
(* Small images for the interval engine, as sequences of decoded           *)
(* instructions placed at their addresses.                                 *)
(***************************************************************************)
EXTENDS IntervalEngine

(* Images: the application entry (1), the interval's entry (10) with its
   trace calls (20, 22), the run function (24), the hook (30) and the
   functions it can reach. *)
Op(op, rd, rs, imm, target) == [op |-> op, rd |-> rd, rs |-> rs, imm |-> imm, target |-> target]
Li(rd, n) == Op("li", rd, "ra", n, 0)
Addi(rd, rs, n) == Op("addi", rd, rs, n, 0)
Lw(rd, rs, n) == Op("lw", rd, rs, n, 0)
Sw(rd, rs, n) == Op("sw", rd, rs, n, 0)
Beqz(r, t) == Op("beqz", "zero", r, 0, t)
Jal(rd, t) == Op("jal", rd, "ra", 0, t)
Jalr(rd, rs) == Op("jalr", rd, rs, 0, 0)
Ret == Jalr("zero", "ra")
Trap == Op("trap", "zero", "ra", 0, 0)
Havoc(rd) == Op("havoc", rd, "ra", 0, 0)

Place(at, body) == [a \in at .. at + Len(body) - 1 |-> body[a - at + 1]]
Span(start, length) == [start |-> start, end |-> start + length]
Small == 50
Large == 60
Linker == 70
OnceFn == 80
Memcpy == 110

LinkedImage(entry, hook) ==
  [code |->
     Place(1, <<Addi("sp", "sp", -1), Jal("ra", 10), Trap>>) @@ Place(10, entry)
     @@ Place(20, <<Ret, Trap>>) @@ Place(22, <<Ret, Trap>>)
     @@ Place(24, <<Addi("sp", "sp", -9), Addi("sp", "sp", 9), Ret>>) @@ Place(30, hook)
     @@ Place(Small, <<Addi("sp", "sp", -1), Addi("sp", "sp", 1), Ret>>)
     @@ Place(Large, <<Addi("sp", "sp", -3), Addi("sp", "sp", 3), Ret>>)
     @@ Place(Linker, <<Addi("a0", "sp", 0), Jalr("zero", "t0")>>)
     @@ Place(OnceFn, <<Addi("sp", "sp", -1), Sw("ra", "sp", 0), Jalr("ra", "a1"),
                        Lw("ra", "sp", 0), Addi("sp", "sp", 1), Ret>>)
     @@ Place(Memcpy, <<Addi("a2", "a2", 0), Beqz("a2", Memcpy + 8), Lw("t0", "a1", 0),
                        Sw("t0", "a0", 0), Addi("a0", "a0", 1), Addi("a1", "a1", 1),
                        Addi("a2", "a2", -1), Jal("zero", Memcpy + 1), Ret>>)
     @@ Place(90, <<Jal("zero", 90)>>) @@ Place(95, <<Ret>>) @@ Place(97, <<Trap>>),
   fns |-> {Span(1, 3), Span(10, 10), Span(20, 2), Span(22, 2), Span(24, 3), Span(30, Len(hook)),
            Span(Small, 3), Span(Large, 3), Span(Linker, 2), Span(OnceFn, 6), Span(Memcpy, 9),
            Span(90, 1), Span(95, 1), Span(97, 1)},
   rodata |-> (500 :> Small), app |-> 1, entry |-> 10, begin |-> 20, end |-> 22, run |-> 24,
   hook |-> 30, once |-> OnceFn, memcpy |-> Memcpy, getter |-> 99, exceptional |-> {97}, allocators |-> {95}]

EntryOf(a, b) ==
  <<Addi("sp", "sp", -1), Sw("ra", "sp", 0), Jal("ra", 20), a, b, Jal("ra", 22), Jal("ra", 24),
    Lw("ra", "sp", 0), Addi("sp", "sp", 1), Ret>>
PlainEntry ==
  <<Addi("sp", "sp", -1), Sw("ra", "sp", 0), Jal("ra", 20), Jal("ra", 30), Jal("ra", 22),
    Jal("ra", 24), Lw("ra", "sp", 0), Addi("sp", "sp", 1), Ret, Trap>>
EntryBodies ==
  {EntryOf(Havoc("a0"), Jal("ra", 30)), EntryOf(Jal("ra", 30), Jal("ra", 20)),
   EntryOf(Jal("ra", 30), Beqz("a0", 17))}
  \cup {EntryOf(Beqz("a0", t), Jal("ra", 30)) : t \in {15, 16, 17}}

HookPool ==
  {Li("a0", Small), Li("a0", Large), Li("a1", Large), Sw("a0", "sp", 1), Lw("a0", "sp", 1),
   Lw("a0", "a1", 0), Jalr("ra", "a0"), Jal("ra", Small), Jal("t0", Linker), Jal("ra", OnceFn),
   Havoc("a0"), Beqz("a0", 34), Beqz("a0", 35), Addi("sp", "sp", -1), Addi("a0", "sp", 1),
   Jal("ra", 90), Jal("ra", 95)}
HookOf(a, b, c) ==
  <<Addi("sp", "sp", -2), Sw("ra", "sp", 0), a, b, c, Lw("ra", "sp", 0), Addi("sp", "sp", 2), Ret>>
LastPool ==
  {Sw("a0", "sp", 1), Lw("a0", "sp", 1), Jalr("ra", "a0"), Jal("ra", Small), Jal("t0", Linker),
   Jal("ra", OnceFn), Addi("sp", "sp", -1), Jal("ra", 90), Jal("ra", 95)}
HookBodies == {HookOf(a, b, c) : a \in HookPool, b \in HookPool, c \in LastPool}

(* The hook fills two words, copies between known and unknown places and
   calls what it reads back. *)
CopyHook(destination, source, length, k) ==
  <<Addi("sp", "sp", -3), Sw("ra", "sp", 0), Li("a0", Small), Sw("a0", "sp", 1),
    Li("a0", Large), Sw("a0", "sp", 2)>> \o destination
  \o <<source, length, Jal("ra", Memcpy), Lw("a0", "sp", k), Jalr("ra", "a0"),
       Lw("ra", "sp", 0), Addi("sp", "sp", 3), Ret>>
EitherWord == <<Beqz("a2", 39), Addi("a0", "sp", 1), Jal("zero", 40), Addi("a0", "sp", 2)>>
CopyHooks ==
  {CopyHook(d, s, n, k) :
     d \in {<<Addi("a0", "sp", 1)>>, <<Addi("a0", "sp", 2)>>, <<Li("a0", 500)>>, <<Havoc("a0")>>, EitherWord},
     s \in {Addi("a1", "sp", 1), Addi("a1", "sp", 2), Li("a1", 500), Havoc("a1")},
     n \in {Li("a2", 0), Li("a2", 1), Li("a2", 2), Havoc("a2")}, k \in {1, 2}}

IdleImage == LinkedImage(PlainEntry, HookOf(Jal("ra", Small), Havoc("a0"), Havoc("a0")))
MCImages ==
  {LinkedImage(e, HookOf(Jal("ra", Small), Havoc("a0"), Havoc("a0"))) : e \in EntryBodies}
  \cup {LinkedImage(PlainEntry, h) : h \in HookBodies \cup CopyHooks}

(* The hook stores Large through an address that is one of two stack words,
   then calls what it reads back from the one that held Small. *)
AmbiguousImages ==
  {LinkedImage(PlainEntry,
     <<Addi("sp", "sp", -3), Sw("ra", "sp", 0), Li("a1", Small), Sw("a1", "sp", 1),
       Beqz("a0", 37), Addi("a1", "sp", 1), Jal("zero", 38), Addi("a1", "sp", 2),
       Li("a0", Large), Sw("a0", "a1", 0), Lw("a0", "sp", 1), Jalr("ra", "a0"),
       Lw("ra", "sp", 0), Addi("sp", "sp", 3), Ret>>)}

MCIntervalSpec == IntervalInit /\ [][IntervalNext]_intervalVars
=============================================================================
