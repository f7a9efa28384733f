----------------------------- MODULE LinuxUnwind ----------------------------
(***************************************************************************)
(* Call stacks of a Linux process (iter, handle_invalid_address and        *)
(* get_unwind_data of vminer/src/os/linux/callstack.rs): from the          *)
(* registers of a vCPU, frame by frame, with the unwind rules of the       *)
(* function each frame is in.                                              *)
(*                                                                         *)
(* The process is a small machine of either architecture that pushes,      *)
(* calls and returns, and keeps its true call chain on the side.  It may   *)
(* go on running after its registers were read.  Memory is made of words,  *)
(* and the stack grows down from Top.  On x86_64 a call pushes the return  *)
(* address; on aarch64 it is in the link register, and a function that     *)
(* calls others pushes it itself.  Finding and parsing .eh_frame is        *)
(* external.  That a compiler emitted rules that describe its code, and    *)
(* code that keeps the calling convention, is assumed.                     *)
(***************************************************************************)
EXTENDS Integers, Sequences, SequencesExt

CONSTANTS
  Archs,       \* architectures of guests: "x86_64" and "aarch64"
  Code,        \* Code[a]: the instruction at code address a
  Entries,     \* Entries[x]: addresses that can be called, on architecture x
  Boot,        \* Boot[x]: where the program starts
  ModuleOf,    \* ModuleOf[a]: the module of a, or NoModule
  NoModule,
  Rules,       \* Rules[a]: the unwind rules at a, for the addresses that have a FDE
  Exec,        \* code addresses outside modules that are in an executable VMA
  Kernel,      \* code addresses of the kernel
  Top,         \* the highest word of the stack
  NoBase,      \* an absent value
  Shape,       \* Shape[a]: the frame of a function at a (Shapes)
  MaxUnwindFaults,   \* bound: reads that fail
  MaxRun,      \* bound: instructions executed while the stack is unwound
  MaxFrames    \* bound: frames

ASSUME UnwindAssumption ==
  /\ Top \in Nat /\ MaxRun \in Nat /\ MaxUnwindFaults \in Nat /\ MaxFrames \in Nat
  /\ Archs \subseteq {"x86_64", "aarch64"}
  /\ \A x \in Archs : Boot[x] \in DOMAIN Code /\ Entries[x] \subseteq DOMAIN Code
  /\ DOMAIN ModuleOf = DOMAIN Code
  /\ \A a \in Exec \union Kernel : a \in DOMAIN Code /\ ModuleOf[a] = NoModule
  /\ DOMAIN Rules \subseteq {a \in DOMAIN Code : ModuleOf[a] # NoModule}

Instructions == {"push bp", "mov bp, sp", "pop bp", "sub sp", "add sp", "ret", "call",
                 "push lr", "pop lr", "ret lr", "halt"}

\* A frame: the words between the stack pointer and the canonical frame
\* address, which is the stack pointer of the caller; where the return address
\* is, the word below the canonical frame address or the link register; and
\* where the base pointer of the caller is, still in bp, in the word below the
\* return address, or there with bp pointing to it.  An outermost function has
\* no caller.
Shapes == [depth : Nat, ra : {"saved", "link", "none"}, bp : {"kept", "saved", "framed", "outermost"}]

\* The function at a goes on with the next instruction, in this shape.
Continues(a, d, r, b) == a + 1 \in DOMAIN Code /\ Shape[a + 1] = [depth |-> d, ra |-> r, bp |-> b]

\* The calling convention: what each instruction may do to the frame of its
\* function.
ASSUME CodeAssumption ==
  /\ DOMAIN Code \subseteq Nat
  /\ Code \in [DOMAIN Code -> Instructions] /\ Shape \in [DOMAIN Code -> Shapes]
  /\ \A x \in Archs : Shape[Boot[x]] = [depth |-> 0, ra |-> "none", bp |-> "outermost"]
  /\ \A x \in Archs : \A a \in Entries[x] :
       Shape[a] = IF x = "x86_64" THEN [depth |-> 1, ra |-> "saved", bp |-> "kept"]
                                  ELSE [depth |-> 0, ra |-> "link", bp |-> "kept"]
  /\ \A a \in DOMAIN Code : LET d == Shape[a].depth
                                r == Shape[a].ra
                                b == Shape[a].bp
                            IN
       /\ r = "none" <=> b = "outermost"
       /\ r = "saved" => d > 0
       /\ b \in {"saved", "framed"} => d > 1
       /\ Code[a] = "push bp" => Continues(a, d + 1, r, IF b = "kept" /\ d = 1 THEN "saved" ELSE b)
       /\ Code[a] = "mov bp, sp" =>
            b # "kept" /\ Continues(a, d, r, IF b = "outermost" THEN b ELSE IF d = 2 THEN "framed" ELSE "saved")
       /\ Code[a] = "pop bp" =>
            /\ b # "kept" /\ d > 0
            /\ Continues(a, d - 1, r, IF b = "outermost" THEN b ELSE IF d = 2 THEN "kept" ELSE "saved")
       /\ Code[a] = "sub sp" => Continues(a, d + 1, r, b)
       /\ Code[a] = "add sp" => d > 0 /\ Continues(a, d - 1, r, b)
       /\ Code[a] = "push lr" => d = 0 /\ r = "link" /\ Continues(a, 1, "saved", b)
       /\ Code[a] = "pop lr" => d = 1 /\ r = "saved" /\ Continues(a, 0, "link", b)
       /\ Code[a] = "call" => r # "link" /\ Continues(a, d, r, b)
       /\ Code[a] = "ret" => d = 1 /\ r = "saved" /\ b = "kept"
       /\ Code[a] = "ret lr" => d = 0 /\ r = "link" /\ b = "kept"

\* gimli::RegisterRule: how the value of a register in the caller is found.
\* "sp", "ip" and "bp" are the registers that iter knows, "other" any other one,
\* and "none" an expression.
RegisterRules == [how : {"undefined", "same", "offset", "val", "sp", "ip", "bp", "other", "none"}, off : Int]

\* The unwind rules describe the code they are for; where they need more than
\* iter supports, or cannot be evaluated, is left open.
ASSUME RulesAssumption ==
  \A a \in DOMAIN Rules : LET r == Rules[a]
                               s == Shape[a]
                           IN
    /\ r \in [cfa : {"sp", "bp", "other", "expression", "unreadable"}, off : Int,
              bp : RegisterRules, ip : RegisterRules]
    /\ s.ra = "none" => r.ip.how \in {"undefined", "other", "none"}
    /\ s.ra # "none" =>
         /\ r.cfa = "sp" => r.off = s.depth
         /\ r.cfa = "bp" => r.off = 2 /\ s.bp = "framed"
         /\ r.bp.how \in {"undefined", "same", "offset", "bp", "other", "none"}
         /\ r.bp.how \in {"same", "bp"} => s.bp = "kept"
         /\ r.bp.how = "offset" => r.bp.off = -2 /\ s.bp \in {"saved", "framed"}
         /\ r.ip.how \in {"undefined", "same", "offset", "other", "none"}
         /\ r.ip.how = "offset" => r.ip.off = -1 /\ s.ra = "saved"
         /\ r.ip.how \in {"undefined", "same"} => s.ra = "link"

VARIABLES
  \* The process
  mem,         \* mem[a]: the stack
  arch,        \* its architecture
  ip, sp, bp, lr,  \* its registers; lr is the link register of aarch64
  callers,     \* the true chain of its callers, the innermost first
  nrun,
  \* The unwinder
  stage,          \* "idle", "locate", "base", "return" or "ended"
  frame,       \* instruction_pointer and stack_pointer of the frame
  base,        \* base_pointer, or NoBase
  oldBase,     \* old_bp
  cfa,         \* the canonical frame address
  known,       \* the modules whose .eh_frame was found
  frames,      \* the frames given to the closure
  result,      \* "none", "ok", "stopped", "err" or "panic"
  nUnwindFaults,
  \* At the time the registers were read
  chain,       \* the true frames
  low,         \* the stack pointer
  touched      \* the highest word written since

procVars == <<mem, arch, ip, sp, bp, lr, callers, nrun>>
unwindVars == <<stage, frame, base, oldBase, cfa, known, frames, result, nUnwindFaults>>
unwindGhostVars == <<chain, low, touched>>
linuxUnwindVars == <<procVars, unwindVars, unwindGhostVars>>

Words == 0..Top
Frame(i, s) == [ip |-> i, sp |-> s]

Frames == [ip : DOMAIN Code, sp : Words]

LinuxUnwindTypeOK ==
  /\ mem \in [Words -> Nat] /\ arch \in Archs
  /\ ip \in DOMAIN Code /\ sp \in Words /\ bp \in Nat /\ lr \in Nat /\ callers \in Seq(Frames)
  /\ nrun \in 0..MaxRun /\ nUnwindFaults \in 0..MaxUnwindFaults
  /\ stage \in {"idle", "locate", "base", "return", "ended"}
  /\ frame \in [ip : Int, sp : Int] /\ cfa \in Int
  /\ base \in Int \union {NoBase} /\ oldBase \in Int \union {NoBase}
  /\ stage \in {"base", "return"} => frame.ip \in DOMAIN Rules
  /\ frames \in Seq([ip : Int, sp : Int])
  /\ result \in {"none", "ok", "stopped", "err", "panic"} /\ (result = "none" <=> stage # "ended")
  /\ chain \in Seq(Frames) /\ low \in Words /\ touched \in Words

LinuxUnwindInit ==
  /\ mem = [a \in Words |-> 0] /\ arch \in Archs
  /\ ip = Boot[arch] /\ sp = Top /\ bp = 0 /\ lr = 0 /\ callers = <<>> /\ nrun = 0
  /\ stage = "idle" /\ frame = Frame(Boot[arch], Top) /\ base = NoBase /\ oldBase = NoBase /\ cfa = 0
  /\ known = {} /\ frames = <<>> /\ result = "none" /\ nUnwindFaults = 0
  /\ chain = <<>> /\ low = 0 /\ touched = 0

-----------------------------------------------------------------------------
(* The process *)

Push(x) ==
  /\ sp > 0
  /\ mem' = [mem EXCEPT ![sp - 1] = x]
  /\ sp' = sp - 1
  /\ touched' = IF stage = "idle" \/ touched > sp - 1 THEN touched ELSE sp - 1

NoWrite == UNCHANGED <<mem, touched>>

\* Calls a function of the program, which returns to the next instruction.
Calls ==
  /\ ip' \in Entries[arch]
  /\ callers' = <<Frame(ip + 1, sp)>> \o callers

Returns(a) == ip' = a /\ callers' = Tail(callers)

ToNext == ip' = ip + 1 /\ UNCHANGED callers

Execute ==
  /\ stage # "ended"
  /\ stage # "idle" => nrun < MaxRun
  /\ nrun' = IF stage = "idle" THEN nrun ELSE nrun + 1
  /\ CASE Code[ip] = "push bp" -> Push(bp) /\ ToNext /\ UNCHANGED <<bp, lr>>
       [] Code[ip] = "mov bp, sp" -> NoWrite /\ bp' = sp /\ ToNext /\ UNCHANGED <<sp, lr>>
       [] Code[ip] = "pop bp" -> NoWrite /\ bp' = mem[sp] /\ sp' = sp + 1 /\ ToNext /\ UNCHANGED lr
       [] Code[ip] = "sub sp" -> NoWrite /\ sp > 0 /\ sp' = sp - 1 /\ ToNext /\ UNCHANGED <<bp, lr>>
       [] Code[ip] = "add sp" -> NoWrite /\ sp' = sp + 1 /\ ToNext /\ UNCHANGED <<bp, lr>>
       [] Code[ip] = "push lr" -> Push(lr) /\ ToNext /\ UNCHANGED <<bp, lr>>
       [] Code[ip] = "pop lr" -> NoWrite /\ lr' = mem[sp] /\ sp' = sp + 1 /\ ToNext /\ UNCHANGED bp
       [] Code[ip] = "ret" -> NoWrite /\ Returns(mem[sp]) /\ sp' = sp + 1 /\ UNCHANGED <<bp, lr>>
       [] Code[ip] = "ret lr" -> NoWrite /\ Returns(lr) /\ UNCHANGED <<sp, bp, lr>>
       [] Code[ip] = "call" ->
            \/ arch = "x86_64" /\ Push(ip + 1) /\ Calls /\ UNCHANGED <<bp, lr>>
            \/ arch = "aarch64" /\ NoWrite /\ lr' = ip + 1 /\ Calls /\ UNCHANGED <<sp, bp>>
            \/ NoWrite /\ ToNext /\ UNCHANGED <<sp, bp, lr>>
       [] Code[ip] = "halt" -> FALSE
  /\ UNCHANGED <<unwindVars, chain, low, arch>>

-----------------------------------------------------------------------------
(* The unwinder *)

\* process_callstack reads the registers of the vCPU.
StartUnwind ==
  /\ stage = "idle"
  /\ frame' = Frame(ip, sp) /\ base' = bp
  /\ stage' = "locate"
  /\ chain' = <<Frame(ip, sp)>> \o callers /\ low' = sp
  /\ UNCHANGED <<procVars, oldBase, cfa, known, frames, result, nUnwindFaults, touched>>

End(r) == stage' = "ended" /\ result' = r

\* The closure is given the frame; it goes on, breaks or fails.
Send == frames' = Append(frames, frame)

\* An address the unwinder may read, of the stack.
Readable(a) == a \in Words

Keep == UNCHANGED <<procVars, unwindGhostVars, frame, nUnwindFaults>>

\* find_module_by_address
HasModule == frame.ip \in DOMAIN Code /\ ModuleOf[frame.ip] # NoModule

\* handle_invalid_address: the frame is sent when it is in the kernel or in
\* JIT code, and unwinding ends there with an error, unless the closure breaks.
Outside ==
  /\ stage = "locate" /\ ~HasModule
  /\ IF frame.ip \in Kernel \/ (frame.ip \in Exec /\ Readable(frame.sp))
     THEN Send /\ (End("stopped") \/ End("err"))
     ELSE UNCHANGED frames /\ End("err")
  /\ UNCHANGED <<base, oldBase, cfa, known>>
  /\ Keep

\* get_unwind_data: the first address in a module must have a FDE, or its
\* .eh_frame is not recognized.
NoSection ==
  /\ stage = "locate" /\ HasModule
  /\ frame.ip \notin DOMAIN Rules /\ ModuleOf[frame.ip] \notin known
  /\ End("err")
  /\ UNCHANGED <<base, oldBase, cfa, known, frames>>
  /\ Keep

\* Without a FDE the frame is sent, incomplete, and is the last one.
NoFde ==
  /\ stage = "locate" /\ HasModule
  /\ frame.ip \notin DOMAIN Rules /\ ModuleOf[frame.ip] \in known
  /\ Send /\ (End("ok") \/ End("err"))
  /\ UNCHANGED <<base, oldBase, cfa, known>>
  /\ Keep

\* dwarf_registers: on aarch64 there is no register for the base pointer.
HasBp == arch = "x86_64"

\* row.cfa(), or NoBase when it needs another register or an expression.
CfaOf(r) ==
  CASE r.cfa = "sp" -> frame.sp + r.off
    [] r.cfa = "bp" -> IF HasBp /\ base # NoBase THEN base + r.off ELSE NoBase
    [] OTHER -> NoBase

\* The frame is complete and sent, the row for its address evaluated, which
\* must succeed, and the CFA computed.
Unwind ==
  /\ stage = "locate" /\ HasModule
  /\ frame.ip \in DOMAIN Rules
  /\ Len(frames) < MaxFrames
  /\ known' = known \union {ModuleOf[frame.ip]}
  /\ Send
  /\ LET r == Rules[frame.ip]
     IN \/ (End("stopped") \/ End("err")) /\ UNCHANGED cfa
        \/ r.cfa = "unreadable" /\ End("panic") /\ UNCHANGED cfa
        \/ /\ CfaOf(r) # NoBase
           /\ cfa' = CfaOf(r)
           /\ stage' = "base" /\ UNCHANGED result
  /\ UNCHANGED <<base, oldBase>>
  /\ Keep

\* What a rule gives for a register that is now own, in a frame whose base
\* pointer is b; NoBase when it fails.
ValueOf(r, own, b) ==
  CASE r.how = "same" -> own
    [] r.how = "offset" -> IF Readable(cfa + r.off) THEN mem[cfa + r.off] ELSE NoBase
    [] r.how = "val" -> cfa + r.off
    [] r.how = "sp" -> frame.sp
    [] r.how = "ip" -> frame.ip
    [] r.how = "bp" -> IF HasBp THEN b ELSE NoBase
    [] OTHER -> NoBase

\* base_pointer of the caller, or nothing when there is no register or no
\* rule for it.
ReadBase ==
  /\ stage = "base"
  /\ oldBase' = base
  /\ LET r == Rules[frame.ip].bp
         v == ValueOf(r, base, base)
         lost == ~HasBp \/ r.how \in {"undefined", "none"}
     IN IF lost \/ v # NoBase
        THEN base' = (IF lost THEN NoBase ELSE v) /\ stage' = "return" /\ UNCHANGED result
        ELSE UNCHANGED base /\ End("err")
  /\ UNCHANGED <<cfa, known, frames>>
  /\ Keep

\* Mutant: the stack pointer of the caller is not set.
ReadReturnKeepingSp ==
  /\ stage = "return"
  /\ LET r == Rules[frame.ip].ip
         v == ValueOf(r, frame.ip, oldBase)
     IN CASE r.how = "undefined" -> End("ok") /\ UNCHANGED frame
          [] r.how # "undefined" /\ v = NoBase -> End("err") /\ UNCHANGED frame
          [] r.how # "undefined" /\ v # NoBase ->
               frame' = Frame(v, frame.sp) /\ stage' = "locate" /\ UNCHANGED result
  /\ UNCHANGED <<procVars, unwindGhostVars, base, oldBase, cfa, known, frames, nUnwindFaults>>

\* instruction_pointer and stack_pointer of the caller.  Without a rule for the
\* register that has the return address, the frame is the last one.
ReadReturn ==
  /\ stage = "return"
  /\ LET r == Rules[frame.ip].ip
         v == ValueOf(r, frame.ip, oldBase)
     IN CASE r.how = "undefined" -> End("ok") /\ UNCHANGED frame
          [] r.how # "undefined" /\ v = NoBase -> End("err") /\ UNCHANGED frame
          [] r.how # "undefined" /\ v # NoBase ->
               frame' = Frame(v, cfa) /\ stage' = "locate" /\ UNCHANGED result
  /\ UNCHANGED <<procVars, unwindGhostVars, base, oldBase, cfa, known, frames, nUnwindFaults>>

\* A read that fails ends the unwinding, while .eh_frame is searched too.
UnwindFault ==
  /\ stage \in {"locate", "base", "return"} /\ nUnwindFaults < MaxUnwindFaults
  /\ nUnwindFaults' = nUnwindFaults + 1
  /\ End("err")
  /\ UNCHANGED <<procVars, unwindGhostVars, frame, base, oldBase, cfa, known, frames>>

Unwinder == Outside \/ NoSection \/ NoFde \/ Unwind \/ ReadBase \/ ReadReturn

LinuxUnwindNext == Execute \/ StartUnwind \/ Unwinder \/ UnwindFault

LinuxUnwindSpec == LinuxUnwindInit /\ [][LinuxUnwindNext]_linuxUnwindVars

-----------------------------------------------------------------------------
(* Properties *)

\* The process has not written over the frames since its registers were read.
Untouched == touched < low

\* The rules of the innermost frame say that its return address is still in the
\* link register.  iter takes the address of the frame itself for it and goes
\* on with the same frame, without end when that has no stack.
Repeated ==
  /\ chain # <<>> /\ chain[1].ip \in DOMAIN Rules
  /\ Rules[chain[1].ip].ip.how = "same"

\* Every frame given to the closure is a frame of the call chain, in order,
\* even of a process that runs, as long as it only used new stack.
TrueFrames == Untouched /\ ~Repeated => IsPrefix(frames, chain)

\* Unwinding that ends well gave the whole chain, down to the outermost frame,
\* to the first function without unwind rules, or to one that has its return
\* address in the link register: iter has no value for that register, so a call
\* stack that begins in a leaf function of aarch64 has one frame.
WholeChain ==
  (Untouched /\ ~Repeated /\ result = "ok") =>
    \E k \in DOMAIN chain :
      /\ frames = SubSeq(chain, 1, k)
      /\ \/ k = Len(chain) \/ chain[k].ip \notin DOMAIN Rules
         \/ k = 1 /\ Shape[chain[1].ip].ra = "link"

\* Both, of every call stack.
CallStackTrue == TrueFrames /\ WholeChain

-----------------------------------------------------------------------------
(* Why it holds *)

\* Frame f was called by frame g, in memory m; their base pointers are b and d.
Called(f, g, m, b, d) ==
  /\ g.sp = f.sp + Shape[f.ip].depth
  /\ Shape[f.ip].ra = "saved" => m[g.sp - 1] = g.ip
  /\ Shape[f.ip].bp = "kept" => d = b
  /\ Shape[f.ip].bp \in {"saved", "framed"} => d = m[g.sp - 2]
  /\ Shape[f.ip].bp = "framed" => b = g.sp - 2

\* c is a call chain in memory m, the innermost frame first, and B[k] what
\* the base pointer is in its k-th frame.  Only the innermost frame can have
\* its return address in the link register.
Chained(c, m, B) ==
  /\ c # <<>>
  /\ \A k \in DOMAIN c : Shape[c[k].ip].bp = "outermost" <=> k = Len(c)
  /\ \A k \in DOMAIN c : k # 1 => Shape[c[k].ip].ra # "link"
  /\ c[Len(c)].sp + Shape[c[Len(c)].ip].depth = Top
  /\ \A j, k \in DOMAIN c : j <= k => c[j].sp <= c[k].sp
  /\ \A k \in DOMAIN c : k # Len(c) => Called(c[k], c[k + 1], m, B[k], B[k + 1])

\* What the process has on its stack and in its link register is its chain.
ProcessRight ==
  LET c == <<Frame(ip, sp)>> \o callers
  IN /\ \E B \in [DOMAIN c -> Nat] : Chained(c, mem, B) /\ B[1] = bp
     /\ Shape[ip].ra = "link" => callers # <<>> /\ callers[1].ip = lr

\* The unwinder is in the frame behind those it gave away, with its base
\* pointer or none; once the rules of a frame that has a caller were read, the
\* CFA is the stack pointer of the caller.
UnwinderRight(B) ==
  LET n == Len(frames)
  IN /\ n <= Len(chain) /\ \A k \in 1..n : frames[k] = chain[k]
     /\ stage = "locate" => n < Len(chain) /\ frame = chain[n + 1] /\ base \in {NoBase, B[n + 1]}
     /\ stage \in {"base", "return"} =>
          /\ n > 0 /\ frame = chain[n]
          /\ n < Len(chain) => cfa = chain[n + 1].sp
     /\ stage = "base" => base \in {NoBase, B[n]}
     /\ stage = "return" /\ n < Len(chain) => base \in {NoBase, B[n + 1]}
     /\ result = "ok" =>
          /\ n > 0
          /\ \/ n = Len(chain) \/ chain[n].ip \notin DOMAIN Rules
             \/ n = 1 /\ Shape[chain[1].ip].ra = "link"

\* The inductive invariant: the true chain, of now and of the time when the
\* registers were read, and the place of the unwinder in the latter.
UnwindInv ==
  /\ LinuxUnwindTypeOK /\ ProcessRight
  /\ stage = "idle" => frames = <<>>
  /\ stage # "idle" /\ Untouched =>
       /\ chain # <<>> /\ chain[1].sp = low
       /\ \E B \in [DOMAIN chain -> Nat] : Chained(chain, mem, B) /\ (~Repeated => UnwinderRight(B))

=============================================================================
