------------------------------- MODULE MCLinux ------------------------------
(***************************************************************************)
(* The parts of the support for Linux guests, side by side: which of them  *)
(* a behaviour is about is chosen in its first state, and the others stay  *)
(* in an initial state.                                                    *)
(***************************************************************************)
EXTENDS LinuxTasks, LinuxModules, LinuxUnwind, TLC

VARIABLE part

-----------------------------------------------------------------------------
(* Programs for LinuxUnwind.  On x86_64: a start function, one that keeps  *)
(* a frame pointer, one that does not and whose rules keep the base        *)
(* pointer, one whose rules say nothing about it, one without unwind       *)
(* rules, one in a second module that has none, JIT code, and the kernel.  *)
(* On aarch64: a start function, one that saves its link register, and two *)
(* leaf functions, without a rule for the link register and with one that  *)
(* says it is unchanged.  Some rules are ones that iter does not support.  *)

CONSTANTS libc, asm, f2

Reg(how, off) == [how |-> how, off |-> off]
Rule(cfaReg, off, b, i) == [cfa |-> cfaReg, off |-> off, bp |-> b, ip |-> i]

Kept == Reg("same", 0)
Saved == Reg("offset", -2)
No == Reg("undefined", 0)
AtRet == Reg("offset", -1)

BootX86 == 10
Framed == 20
Frameless == 30
Silent == 40
Stub == 45
Bare == 50
Jit == 60
EntryPoint == 70
BootArm == 80
Saves == 84
Leaf == 90
Linked == 92

MCArchs == {"x86_64", "aarch64"}
MCBoot == [x \in MCArchs |-> IF x = "x86_64" THEN BootX86 ELSE BootArm]
MCEntries == [x \in MCArchs |-> IF x = "x86_64"
                                THEN {Framed, Frameless, Silent, Stub, Bare, Jit, EntryPoint}
                                ELSE {Saves, Leaf, Linked}]

Body(a, s) == [k \in a..(a + Len(s) - 1) |-> s[k - a + 1]]

MCCode ==
  Body(BootX86, <<"call", "halt">>)
  @@ Body(Framed, <<"push bp", "mov bp, sp", "call", "pop bp", "ret">>)
  @@ Body(Frameless, <<"sub sp", "call", "add sp", "ret">>)
  @@ Body(Silent, <<"call", "ret">>)
  @@ Body(Stub, <<"call", "ret">>)
  @@ Body(Bare, <<"call", "ret">>)
  @@ Body(Jit, <<"call", "ret">>)
  @@ Body(EntryPoint, <<"ret">>)
  @@ Body(BootArm, <<"call", "halt">>)
  @@ Body(Saves, <<"push lr", "push bp", "mov bp, sp", "call", "pop bp", "pop lr", "ret lr">>)
  @@ Body(Leaf, <<"ret lr">>)
  @@ Body(Linked, <<"ret lr">>)

MCRules ==
  Body(BootX86, <<Rule("sp", 1, No, No), Rule("sp", 1, Reg("sp", 0), No)>>)
  @@ Body(Framed, <<Rule("sp", 1, Kept, AtRet), Rule("sp", 2, Saved, AtRet), Rule("bp", 2, Saved, AtRet),
                    Rule("bp", 2, Saved, AtRet), Rule("sp", 1, Reg("bp", 0), AtRet)>>)
  @@ Body(Frameless, <<Rule("unreadable", 0, No, AtRet), Rule("sp", 2, Kept, AtRet), Rule("sp", 2, Kept, AtRet),
                       Rule("expression", 0, Kept, AtRet)>>)
  @@ Body(Silent, <<Rule("sp", 1, Reg("other", 0), AtRet), Rule("sp", 1, No, AtRet)>>)
  @@ Body(BootArm, <<Rule("sp", 0, No, No), Rule("sp", 0, No, No)>>)
  @@ Body(Saves, <<Rule("sp", 0, No, No), Rule("sp", 1, No, AtRet), Rule("sp", 2, Saved, AtRet), Rule("bp", 2, Saved, AtRet),
                   Rule("sp", 2, Saved, AtRet), Rule("sp", 1, No, Reg("none", 0)), Rule("sp", 0, No, No)>>)
  @@ Body(Leaf, <<Rule("sp", 0, No, No)>>)
  @@ Body(Linked, <<Rule("sp", 0, No, Reg("same", 0))>>)

\* The shape of each frame.
At(d, r, b) == [depth |-> d, ra |-> r, bp |-> b]

MCShape ==
  Body(BootX86, <<At(0, "none", "outermost"), At(0, "none", "outermost")>>)
  @@ Body(BootArm, <<At(0, "none", "outermost"), At(0, "none", "outermost")>>)
  @@ Body(Framed, <<At(1, "saved", "kept"), At(2, "saved", "saved"), At(2, "saved", "framed"),
                    At(2, "saved", "framed"), At(1, "saved", "kept")>>)
  @@ Body(Frameless, <<At(1, "saved", "kept"), At(2, "saved", "kept"), At(2, "saved", "kept"),
                       At(1, "saved", "kept")>>)
  @@ Body(Saves, <<At(0, "link", "kept"), At(1, "saved", "kept"), At(2, "saved", "saved"), At(2, "saved", "framed"),
                   At(2, "saved", "framed"), At(1, "saved", "kept"), At(0, "link", "kept")>>)
  @@ Body(Leaf, <<At(0, "link", "kept")>>)
  @@ Body(Linked, <<At(0, "link", "kept")>>)
  @@ [a \in DOMAIN MCCode |-> At(1, "saved", "kept")]

MCModuleOf ==
  [a \in DOMAIN MCCode |-> IF a \in Jit..EntryPoint THEN NoModule ELSE IF a \in Bare..Jit THEN asm ELSE libc]

MCExec == {a \in DOMAIN MCCode : a >= Jit /\ a < EntryPoint}
MCKernel == {EntryPoint}

-----------------------------------------------------------------------------
(* The composition *)

\* Two files are alike, so the first area need not be of the second one.
Init ==
  /\ part \in {"tasks", "modules", "stacks"}
  /\ part # "tasks" => query = "collect"
  /\ part # "modules" => mapped = {}
  /\ LinuxTasksInit /\ LinuxModulesInit /\ LinuxUnwindInit
  /\ part # "stacks" => arch = "x86_64"
  /\ IF first = NoVma THEN TRUE ELSE vma[first].file # f2

Processes == part = "tasks" /\ LinuxTasksNext /\ UNCHANGED <<moduleVars, linuxUnwindVars, part>>
Modules == part = "modules" /\ LinuxModulesNext /\ UNCHANGED <<taskVars, linuxUnwindVars, part>>
Stacks == part = "stacks" /\ LinuxUnwindNext /\ UNCHANGED <<taskVars, moduleVars, part>>

Next == Processes \/ Modules \/ Stacks

Spec == Init /\ [][Next]_<<taskVars, moduleVars, linuxUnwindVars, part>> /\ LinuxTasksFairness

=============================================================================
