---------------------------- MODULE WindowsUnwind ----------------------------
(***************************************************************************)
(* Call stacks of a Windows process (vminer/src/os/windows/callstack.rs):  *)
(* iter_callstack finds the module of a frame, emulates what is left of an *)
(* epilog, or looks the function up in the table of the module and undoes  *)
(* its unwind codes, and reads the registers of the caller.                *)
(*                                                                         *)
(* The process is a small machine that is interrupted anywhere and keeps   *)
(* its true call chain on the side.  The stack is made of words of 8 bytes *)
(* and grows down from StackTop; unwind codes are decoded, their offsets   *)
(* are counted in instructions.  Pages of the table and of the codes may   *)
(* not be mapped.  PE parsing is external.                                 *)
(***************************************************************************)
EXTENDS Integers, Sequences, SequencesExt

CONSTANTS
  Program,     \* Program[a]: the instruction at code address a, a tuple
  Callable,    \* addresses that can be called
  Handler,     \* where interrupts go
  Starting,    \* where the process starts
  ModuleSpans, \* the modules: start and end, in any order
  JitCode,     \* code addresses outside of the modules
  Functions,   \* the table of runtime functions: start, end, codes; sorted
  Unwinds,     \* Unwinds[i]: codes, frame pointer offset and mother of function i
  StackTop,    \* the highest word of the stack
  Absent,      \* None: an absent offset, function or base pointer
  MaxCalls,    \* bound: calls and interrupts of the process
  MaxSteps     \* bound: instructions executed while the stack is unwound

ASSUME WinUnwindAssumption ==
  /\ StackTop \in Nat /\ MaxCalls \in Nat /\ MaxSteps \in Nat
  /\ \A k \in 1 .. Len(Functions) - 1 : Functions[k].end <= Functions[k + 1].start
  /\ DOMAIN Unwinds = DOMAIN Functions

VARIABLES
  stackMem, rip, rsp, rbp,
  trueCallers, \* the true chain of callers, the innermost first
  ncalls, nsteps,
  hidden,      \* what is not mapped: entries of the table, unwind codes of
               \* functions, headers of modules
  unwAt,       \* "idle", "locate", "ip", "sp", "bp" or "ended"
  cur,         \* the frame: instruction and stack pointer
  curBp,       \* base_pointer
  step,        \* the UnwindResult
  sent,        \* the frames given to the closure, with their start
  ended,       \* "none", "ok", "stopped" or "err"
  trueChain,   \* ghost: the true frames when the registers were read
  floor,       \* ghost: the stack pointer then
  written      \* ghost: the highest word written since

machineVars == <<stackMem, rip, rsp, rbp, trueCallers, ncalls, nsteps>>
winUnwindVars == <<machineVars, hidden, unwAt, cur, curBp, step, sent, ended, trueChain, floor, written>>
stillVars == <<machineVars, hidden, trueChain, floor, written>>

At(i, s) == [ip |-> i, sp |-> s]

\* The outermost function returns to null.
WinUnwindInit ==
  /\ stackMem = [a \in 0 .. StackTop |-> 0]
  /\ rip = Starting /\ rsp = StackTop /\ rbp = 0 /\ trueCallers = <<>> /\ ncalls = 0 /\ nsteps = 0
  /\ hidden \in {[funs |-> f, codes |-> c, headers |-> h] :
                    f, c \in {{}} \union {{k} : k \in DOMAIN Functions}, h \in {{}, ModuleSpans}}
  /\ hidden.funs = {} \/ hidden.codes = {}
  /\ hidden.headers # {} => hidden.funs = {} /\ hidden.codes = {}
  /\ unwAt = "idle" /\ cur = At(0, 0) /\ curBp = 0 /\ step = <<>> /\ sent = <<>> /\ ended = "none"
  /\ trueChain = <<>> /\ floor = 0 /\ written = -1

-----------------------------------------------------------------------------
(* The process *)

\* A word, or several, are pushed.
PushWords(ws) ==
  /\ rsp >= Len(ws)
  /\ rsp' = rsp - Len(ws)
  /\ stackMem' = [a \in DOMAIN stackMem |-> IF a \in rsp' .. rsp - 1 THEN ws[a - rsp' + 1] ELSE stackMem[a]]
  /\ written' = IF unwAt = "idle" \/ written > rsp - 1 THEN written ELSE rsp - 1

Executing ==
  /\ unwAt # "ended"
  /\ unwAt # "idle" => nsteps < MaxSteps
  /\ nsteps' = IF unwAt = "idle" THEN 0 ELSE nsteps + 1
  /\ UNCHANGED <<hidden, unwAt, cur, curBp, step, sent, ended, trueChain, floor>>

Quiet == UNCHANGED <<stackMem, written>>

\* The end of an interrupt restores the registers at once: its code is no
\* epilog, and no unwind code describes it.
Instruction ==
  /\ Executing
  /\ LET i == Program[rip]
         op == i[1]
     IN CASE op = "push" ->
               PushWords(<<IF i[2] = "bp" THEN rbp ELSE 0>>) /\ rip' = rip + 1 /\ UNCHANGED <<rbp, trueCallers, ncalls>>
          [] op = "pop" ->
               /\ Quiet /\ rsp' = rsp + 1 /\ rbp' = IF i[2] = "bp" THEN stackMem[rsp] ELSE rbp
               /\ rip' = rip + 1 /\ UNCHANGED <<trueCallers, ncalls>>
          [] op = "sub" -> Quiet /\ rsp >= i[2] /\ rsp' = rsp - i[2] /\ rip' = rip + 1 /\ UNCHANGED <<rbp, trueCallers, ncalls>>
          [] op = "add" -> Quiet /\ rsp' = rsp + i[2] /\ rip' = rip + 1 /\ UNCHANGED <<rbp, trueCallers, ncalls>>
          [] op = "set fp" -> Quiet /\ rbp' = rsp + i[2] /\ rip' = rip + 1 /\ UNCHANGED <<rsp, trueCallers, ncalls>>
          [] op = "lea sp" -> Quiet /\ rsp' = rbp + i[2] /\ rip' = rip + 1 /\ UNCHANGED <<rbp, trueCallers, ncalls>>
          [] op = "save bp" ->
               /\ stackMem' = [stackMem EXCEPT ![rsp + i[2]] = rbp] /\ rbp' = 0 /\ rip' = rip + 1
               /\ written' = IF unwAt = "idle" \/ written > rsp + i[2] THEN written ELSE rsp + i[2]
               /\ UNCHANGED <<rsp, trueCallers, ncalls>>
          [] op = "load bp" -> Quiet /\ rbp' = stackMem[rsp + i[2]] /\ rip' = rip + 1 /\ UNCHANGED <<rsp, trueCallers, ncalls>>
          [] op = "jmp" -> Quiet /\ rip' = i[2] /\ UNCHANGED <<rsp, rbp, trueCallers, ncalls>>
          [] op = "call" ->
               \/ /\ ncalls < MaxCalls
                  /\ \E f \in Callable :
                       /\ PushWords(<<rip + 1>>)
                       /\ rip' = f /\ trueCallers' = <<At(rip + 1, rsp)>> \o trueCallers
                       /\ ncalls' = ncalls + 1 /\ UNCHANGED rbp
               \/ Quiet /\ rip' = rip + 1 /\ UNCHANGED <<rsp, rbp, trueCallers, ncalls>>
          [] op = "ret" ->
               /\ Quiet /\ rip' = stackMem[rsp] /\ rsp' = rsp + 1
               /\ trueCallers' = Tail(trueCallers) /\ UNCHANGED <<rbp, ncalls>>
          [] op = "iret" ->
               /\ Quiet /\ rbp' = stackMem[rsp] /\ rip' = stackMem[rsp + 1] /\ rsp' = stackMem[rsp + 4]
               /\ trueCallers' = Tail(trueCallers) /\ UNCHANGED ncalls
          [] op = "halt" -> FALSE

\* The machine frame: instruction pointer, two words, stack pointer, a word.
Interrupt ==
  /\ Executing /\ ncalls < MaxCalls
  /\ PushWords(<<rip, 0, 0, rsp, 0>>)
  /\ rip' = Handler /\ trueCallers' = <<At(rip, rsp)>> \o trueCallers
  /\ ncalls' = ncalls + 1 /\ UNCHANGED rbp

-----------------------------------------------------------------------------
(* Functions *)

\* The table as it was read: an entry that is not mapped is zeros.
IsValid(k) == k \notin hidden.funs
InFunction(k, a) == Functions[k].start <= a /\ a < Functions[k].end

\* The entries a binary search for a looks at.
RECURSIVE Probed(_, _, _)
Probed(a, lo, hi) ==
  IF lo > hi THEN {}
  ELSE LET mid == (lo + hi) \div 2
       IN {mid} \union (IF Functions[mid].start = a THEN {}
                        ELSE IF Functions[mid].start < a THEN Probed(a, mid + 1, hi) ELSE Probed(a, lo, mid - 1))

\* The linear search: the last entry before a, when what lies between it
\* and a is known.
LinearSearch(a) ==
  LET before == {k \in DOMAIN Functions : IsValid(k) /\ Functions[k].start <= a}
      hits == {k \in before : a < Functions[k].end}
      stop == {k \in DOMAIN Functions : IsValid(k) /\ a < Functions[k].start}
      last == IF stop = {} THEN Len(Functions) ELSE (CHOOSE k \in stop : \A j \in stop : k <= j) - 1
  IN IF hits # {} THEN [found |-> CHOOSE k \in hits : TRUE]
     ELSE IF last > 0 /\ IsValid(last) THEN [found |-> Absent]
     ELSE [error |-> "unmapped unwind data"]

\* find_runtime_function: a binary search, unless it meets an entry that is
\* not mapped.
FindRuntimeFunction(a) ==
  IF \E k \in Probed(a, 1, Len(Functions)) : ~IsValid(k) THEN LinearSearch(a)
  ELSE LET hits == {k \in DOMAIN Functions : InFunction(k, a)}
       IN [found |-> IF hits = {} THEN Absent ELSE CHOOSE k \in hits : TRUE]

\* parse_function fails on codes that are not mapped: their version is 0.
Parses(k) == k \notin hidden.codes

\* AllModules::find_by_address
ModulesAt(a) == {m \in ModuleSpans : m.start <= a /\ a < m.end}

-----------------------------------------------------------------------------
(* Unwinding a frame *)

Failure == [error |-> TRUE]

\* read_epilog: pops and additions up to a return are carried out; anything
\* else is no epilog.
RECURSIVE Epilog(_, _, _)
Epilog(a, sp, bpAddr) ==
  IF a \notin DOMAIN Program THEN Absent
  ELSE LET i == Program[a]
       IN CASE i[1] = "pop" -> Epilog(a + 1, sp + 1, IF i[2] = "bp" THEN sp ELSE bpAddr)
            [] i[1] = "add" -> Epilog(a + 1, sp + i[2], bpAddr)
            [] i[1] = "ret" -> [sp |-> sp + 1, ip |-> sp, bp |-> bpAddr]
            [] OTHER -> Absent

\* Mutant: a part of a function is taken for a function.
MotherItself(k) == IF Parses(k) THEN Functions[k].start ELSE Absent

\* The function a frame is reported in: the one its chain of mothers leads
\* to, when all of it can be read.
RECURSIVE Mother(_)
Mother(k) ==
  IF ~Parses(k) THEN Absent
  ELSE IF Unwinds[k].mother = Absent THEN Functions[k].start ELSE Mother(Unwinds[k].mother)

StartOf(a) ==
  LET f == FindRuntimeFunction(a)
  IN IF "error" \in DOMAIN f \/ f.found = Absent THEN Absent ELSE Mother(f.found)

\* What a sequence of unwind codes moved the stack pointer by, and where it
\* put the base pointer; the other registers are not followed.
Undo(codes) ==
  LET upTo[n \in 0 .. Len(codes)] ==
        IF n = 0 THEN [sp |-> 0, bp |-> Absent]
        ELSE LET acc == upTo[n - 1]
                 c == codes[n]
             IN CASE c.op = "push" -> [sp |-> acc.sp + 1, bp |-> IF c.reg = "bp" THEN acc.sp ELSE acc.bp]
                  [] c.op = "alloc" -> [acc EXCEPT !.sp = @ + c.size]
                  [] c.op = "save" -> [acc EXCEPT !.bp = IF c.reg = "bp" THEN c.size ELSE @]
                  [] OTHER -> acc
  IN upTo[Len(codes)]

\* The codes whose instruction was executed; all of them in a mother.
CarriedOut(k, off) == SelectSeq(Unwinds[k].codes, LAMBDA c : off = Absent \/ c.offset <= off)

IsMach(c) == c.op = "mach frame"

\* read_unwind_codes: an invalid code is an error, and so is a machine frame
\* before other codes or in a function with a mother.
ReadUnwindCodes(k, off) ==
  LET all == Unwinds[k].codes
      done == CarriedOut(k, off)
      machs == {c \in Range(done) : IsMach(c)}
  IN IF \/ \E c \in Range(all) : c.op = "invalid"
        \/ machs # {} /\ (~IsMach(all[Len(all)]) \/ Unwinds[k].mother # Absent)
     THEN Failure
     ELSE [sp |-> Undo(done).sp, bp |-> Undo(done).bp, mach |-> machs]

\* The loop of unwind_with_infos, over the mothers of a function.  A machine
\* frame may have an error code before it.
RECURSIVE UnwindFrom(_, _, _, _)
UnwindFrom(k, off, sp, bpAddr) ==
  LET r == IF Parses(k) THEN ReadUnwindCodes(k, off) ELSE Failure
      top == sp + r.sp
      bp == IF r.bp = Absent THEN bpAddr ELSE sp + r.bp
      mother == Unwinds[k].mother
      mach == top + (CHOOSE c \in r.mach : TRUE).size
      start == Functions[k].start
  IN IF r = Failure THEN Failure
     ELSE IF r.mach # {} THEN [sp |-> Absent, spAt |-> mach + 3, ip |-> mach, bp |-> bp, start |-> start]
     ELSE IF mother # Absent THEN UnwindFrom(mother, Absent, top, bp)
     ELSE [sp |-> top + 1, spAt |-> Absent, ip |-> top, bp |-> bp, start |-> start]

\* unwind_with_infos: with a frame pointer, it says where the stack pointer
\* was at the end of the prolog, except at the first instruction.
UnwindWithInfos(k) ==
  LET off == cur.ip - Functions[k].start
      fp == Unwinds[k].fp
  IN IF ~Parses(k) THEN Failure
     ELSE IF fp = Absent \/ off = 0 THEN UnwindFrom(k, off, cur.sp, Absent)
     ELSE IF curBp = Absent THEN Failure
     ELSE UnwindFrom(k, off, curBp - fp, Absent)

\* unwind_function: an epilog, a function of the table, or a leaf.
UnwindFunction(m) ==
  LET e == Epilog(cur.ip, cur.sp, Absent)
      f == FindRuntimeFunction(cur.ip)
  IN IF m \in hidden.headers THEN Failure
     ELSE IF e # Absent THEN [sp |-> e.sp, spAt |-> Absent, ip |-> e.ip, bp |-> e.bp, start |-> StartOf(cur.ip)]
     ELSE IF "error" \in DOMAIN f THEN Failure
     ELSE IF f.found = Absent
     THEN [sp |-> cur.sp + 1, spAt |-> Absent, ip |-> cur.sp, bp |-> Absent, start |-> Absent]
     ELSE UnwindWithInfos(f.found)

-----------------------------------------------------------------------------
(* iter_callstack *)

ReadRegisters ==
  /\ unwAt = "idle"
  /\ cur' = At(rip, rsp) /\ curBp' = rbp /\ unwAt' = "locate"
  /\ trueChain' = <<At(rip, rsp)>> \o trueCallers /\ floor' = rsp
  /\ UNCHANGED <<machineVars, hidden, step, sent, ended, written>>

EndUnwind(r) == unwAt' = "ended" /\ ended' = r

SendFrame(s) == sent' = Append(sent, [ip |-> cur.ip, sp |-> cur.sp, start |-> s])

\* handle_invalid_address: the frame is sent when both of its pointers are
\* in a VMA, and unwinding ends.
OutsideModules ==
  /\ unwAt = "locate" /\ ModulesAt(cur.ip) = {}
  /\ IF cur.ip \in JitCode /\ cur.sp \in DOMAIN stackMem
     THEN SendFrame(Absent) /\ (EndUnwind("stopped") \/ EndUnwind("err"))
     ELSE UNCHANGED sent /\ EndUnwind("err")
  /\ UNCHANGED <<stillVars, cur, curBp, step>>

\* The frame is sent, with what is known of it, before the one of its
\* caller is read; the closure may stop there.
UnwindStep ==
  /\ unwAt = "locate" /\ ModulesAt(cur.ip) # {}
  /\ LET r == UnwindFunction(CHOOSE m \in ModulesAt(cur.ip) : TRUE)
     IN IF r = Failure
        THEN SendFrame(Absent) /\ (EndUnwind("stopped") \/ EndUnwind("err")) /\ UNCHANGED step
        ELSE /\ SendFrame(r.start)
             /\ \/ EndUnwind("stopped") /\ UNCHANGED step
                \/ step' = r /\ unwAt' = "ip" /\ UNCHANGED ended
  /\ UNCHANGED <<stillVars, cur, curBp>>

\* One word of the stack, or an error.
ReadWord(a, at, c, b) ==
  IF a \in DOMAIN stackMem THEN cur' = c /\ curBp' = b /\ unwAt' = at /\ UNCHANGED ended
  ELSE EndUnwind("err") /\ UNCHANGED <<cur, curBp>>

ReadIp ==
  /\ unwAt = "ip"
  /\ ReadWord(step.ip, "sp", [cur EXCEPT !.ip = stackMem[step.ip]], curBp)
  /\ UNCHANGED <<stillVars, step, sent>>

ReadSp ==
  /\ unwAt = "sp"
  /\ IF step.sp # Absent
     THEN cur' = [cur EXCEPT !.sp = step.sp] /\ unwAt' = "bp" /\ UNCHANGED <<curBp, ended>>
     ELSE ReadWord(step.spAt, "bp", [cur EXCEPT !.sp = stackMem[step.spAt]], curBp)
  /\ UNCHANGED <<stillVars, step, sent>>

\* The base pointer is kept when the function did not save it; a null
\* instruction pointer is the end.
ReadBp ==
  /\ unwAt = "bp"
  /\ LET next == IF cur.ip = 0 THEN "ended" ELSE "locate"
     IN IF step.bp # Absent /\ step.bp \notin DOMAIN stackMem
        THEN EndUnwind("err") /\ UNCHANGED curBp
        ELSE /\ curBp' = IF step.bp = Absent THEN curBp ELSE stackMem[step.bp]
             /\ unwAt' = next /\ ended' = IF next = "ended" THEN "ok" ELSE ended
  /\ UNCHANGED <<stillVars, cur, step, sent>>

UnwinderStep == OutsideModules \/ UnwindStep \/ ReadIp \/ ReadSp \/ ReadBp

WinUnwindNext == Instruction \/ Interrupt \/ ReadRegisters \/ UnwinderStep

-----------------------------------------------------------------------------
(* Properties *)

\* Code after the first instruction of a function with a frame pointer,
\* before it sets it: its unwind codes are undone from the wrong place.
BeforeFp(a) ==
  \E k \in DOMAIN Functions :
    /\ InFunction(k, a) /\ Unwinds[k].fp # Absent
    /\ a > Functions[k].start
    /\ \E c \in Range(Unwinds[k].codes) : c.op = "set fp" /\ a - Functions[k].start < c.offset

\* The function an address is in, whatever can be read of it.
RECURSIVE TrueMother(_)
TrueMother(k) == IF Unwinds[k].mother = Absent THEN Functions[k].start ELSE TrueMother(Unwinds[k].mother)

\* The frames are the true ones, in order, each in the function it is in,
\* wherever the process was interrupted and whichever pages of the tables
\* are missing: up to the first one that had not set its frame pointer yet,
\* and as long as the process does not write over them.
WinTrueFrames ==
  written < floor =>
    \A k \in DOMAIN sent :
      (\A j \in 1 .. k - 1 : ~BeforeFp(sent[j].ip)) =>
        /\ k \in DOMAIN trueChain
        /\ sent[k].ip = trueChain[k].ip /\ sent[k].sp = trueChain[k].sp
        /\ sent[k].start # Absent =>
             \E f \in DOMAIN Functions : InFunction(f, sent[k].ip) /\ sent[k].start = TrueMother(f)

\* Unwinding that ends well gave the whole chain.
WinWholeChain ==
  ended = "ok" /\ written < floor /\ (\A k \in DOMAIN sent : ~BeforeFp(sent[k].ip)) =>
    Len(sent) = Len(trueChain)

\* Both, of every call stack.
WinCallStackTrue == WinTrueFrames /\ WinWholeChain

=============================================================================
