------------------------------ MODULE MCWindows -----------------------------
(***************************************************************************)
(* The parts of the support for Windows guests, side by side: which of     *)
(* them a behaviour is about is chosen in its first state, and the others  *)
(* stay in an initial state.                                               *)
(***************************************************************************)
EXTENDS WindowsTasks, WindowsVad, WindowsMemory, WindowsPe, WindowsUnwind, TLC

VARIABLE part

-----------------------------------------------------------------------------
(* Areas: one page, several pages across a boundary of the low part.       *)

MCVads == <<[first |-> 1, last |-> 1], [first |-> 2, last |-> 5],
            [first |-> 7, last |-> 7], [first |-> 10, last |-> 11]>>

(* Images: a record in one or three pages, of the kernel or not, in memory *)
(* of text; and in two pages of zeros, the first of which is not mapped.   *)

Filled(n, fill) == [k \in 1 .. n * PageCells |-> fill]
Paste(cells, at, rec) == [k \in DOMAIN cells |-> IF k >= at /\ k < at + Len(rec) THEN rec[k - at + 1] ELSE cells[k]]
MCImages ==
  {[cells |-> Paste(Filled(n, "x"), at, <<"RSDS", "id", name>>), holes |-> {}, sized |-> FALSE] :
     n \in {1, 3}, at \in {1, 3, 4, 5, 6, 8, 10, 11, 13}, name \in {"kernel", "other", "x"}}
  \union
  {[cells |-> Paste(Filled(2, "0"), at, <<"RSDS", "id", "kernel">>), holes |-> {0}, sized |-> s] :
     at \in {1, 7}, s \in BOOLEAN}

(* Code: a function with a frame pointer, one whose body is elsewhere and  *)
(* has it for its mother, a leaf, an interrupt handler, and generated code *)
(* outside of the modules.                                                 *)

Lay(a, s) == [k \in a .. a + Len(s) - 1 |-> s[k - a + 1]]
MCProgram ==
     Lay(10, << <<"call">>, <<"halt">> >>)
  @@ Lay(20, << <<"push", "bp">>, <<"sub", 2>>, <<"set fp", 1>>, <<"call">>, <<"lea sp", 1>>, <<"pop", "bp">>, <<"ret">> >>)
  @@ Lay(30, << <<"push", "bx">>, <<"sub", 1>>, <<"jmp", 50>> >>)
  @@ Lay(40, << <<"call">>, <<"ret">> >>)
  @@ Lay(50, << <<"save bp", 0>>, <<"call">>, <<"load bp", 0>>, <<"add", 1>>, <<"pop", "bx">>, <<"ret">> >>)
  @@ Lay(60, << <<"push", "bp">>, <<"call">>, <<"iret">> >>)
  @@ Lay(70, << <<"call">>, <<"ret">> >>)

Extent(s, e) == [start |-> s, end |-> e]
MCFunctions == <<Extent(10, 12), Extent(20, 27), Extent(30, 33), Extent(50, 56), Extent(60, 63)>>
MCSpans == {Extent(10, 45), Extent(50, 65)}

UnwindCode(offset, op, reg, size) == [offset |-> offset, op |-> op, reg |-> reg, size |-> size]
Infos(codes, fp, mother) == [codes |-> codes, fp |-> fp, mother |-> mother]
MCUnwinds == <<
  Infos(<<>>, Absent, Absent),
  Infos(<<UnwindCode(3, "set fp", "none", 0), UnwindCode(2, "alloc", "none", 2), UnwindCode(1, "push", "bp", 0)>>, 1, Absent),
  Infos(<<UnwindCode(2, "alloc", "none", 1), UnwindCode(1, "push", "bx", 0)>>, Absent, Absent),
  Infos(<<UnwindCode(1, "save", "bp", 0)>>, Absent, 3),
  Infos(<<UnwindCode(1, "push", "bp", 0), UnwindCode(0, "mach frame", "none", 0)>>, Absent, Absent) >>

-----------------------------------------------------------------------------
(* The composition *)

Init ==
  /\ part \in {"tasks", "vads", "memory", "kernel", "stacks"}
  /\ part # "vads" => era = "new"
  /\ part # "memory" =>
       /\ home = <<"zero", 0>> /\ shared = TRUE /\ touched = TRUE
       /\ noTable = FALSE /\ inverted = FALSE /\ withProc = TRUE
       /\ content = [f \in Frames |-> IF f = 1 THEN "table" ELSE "other"]
  /\ part # "kernel" => images = <<CHOOSE i \in Images : TRUE>>
  /\ part # "stacks" => hidden = [funs |-> {}, codes |-> {}, headers |-> {}]
  /\ WinTasksInit /\ VadInit /\ MemInit /\ PeInit /\ WinUnwindInit

Tasks == part = "tasks" /\ WinTasksNext /\ UNCHANGED <<vadVars, memVars, peVars, winUnwindVars, part>>
Areas == part = "vads" /\ VadNext /\ UNCHANGED <<winTaskVars, memVars, peVars, winUnwindVars, part>>
SoftPages == part = "memory" /\ MemNext /\ UNCHANGED <<winTaskVars, vadVars, peVars, winUnwindVars, part>>
Kernel == part = "kernel" /\ PeNext /\ UNCHANGED <<winTaskVars, vadVars, memVars, winUnwindVars, part>>
Stacks == part = "stacks" /\ WinUnwindNext /\ UNCHANGED <<winTaskVars, vadVars, memVars, peVars, part>>

Next == Tasks \/ Areas \/ SoftPages \/ Kernel \/ Stacks

\* Reads of guest memory return.
Spec ==
  /\ Init /\ [][Next]_<<winTaskVars, vadVars, memVars, peVars, winUnwindVars, part>>
  /\ WinTasksFairness

=============================================================================
