------------------------------- MODULE Ptrace -------------------------------
(***************************************************************************)
(* The ptraced thread of a QEMU process, and the system calls that         *)
(* vminer/src/backends/kvm/ptrace.rs makes on it (RawTracee, Tracee).      *)
(*                                                                         *)
(* A vminer process i attaches to a QEMU process v, saves its registers    *)
(* and three bytes of its text, replaces the text by `call rax; int3`,     *)
(* makes the thread call functions by setting its registers, and puts      *)
(* everything back when the Tracee is dropped.  Registers are abstracted   *)
(* to what they make the thread execute; the text to whether it is the     *)
(* original one.  A system call on a thread that is not ptrace-stopped     *)
(* fails with ESRCH, and none works on a dead process.                     *)
(*                                                                         *)
(* The module defines the steps on this state; KvmAttach says when the     *)
(* vminer process takes them.                                              *)
(***************************************************************************)
EXTENDS KvmProcesses

CONSTANT
  MaxSignals   \* bound: signals sent to the traced QEMU threads

ASSUME PtraceAssumption == MaxSignals \in Nat

VARIABLES
  tracer,      \* tracer[v]: the vminer process attached to v, or NoInst
  run,         \* run[v]: scheduling state of v's main thread
  pend,        \* pend[v]: signals queued for it and not yet reported
  text,        \* text[v]: the bytes at instrs_addr
  regs,        \* regs[v]: its registers
  saved,       \* saved[i]: the text and the registers a Tracee of i keeps
  nsig         \* signals sent so far, at most MaxSignals

ptraceVars == <<tracer, run, pend, text, regs, saved, nsig>>

\* "stopped" is a ptrace-stop; "halted" a job-control stop nobody will undo.
RunStates == {"running", "stopped", "halted", "dead"}

\* "own": QEMU's own code, with its own registers.  A call enters at
\* "entry", is inside the payload's loop at "body", has its return value in
\* rax at "ret", and has hit the int3 at "trap".  A call that returns into
\* text which is no longer `call rax; int3` goes "wild".
Places == {"own", "entry", "body", "ret", "trap", "wild"}

Signals == {"STOP", "OTHER"}

\* The functions that attach makes QEMU call.
Functions == {"mmap", "errno", "dlopen", "dlerror", "dlsym", "payload", "dlclose"}

Texts == {"orig", "patched"}

OwnRegs == [at |-> "own", fun |-> "mmap", by |-> NoInst, rv |-> "ok"]

\* Either its own registers (whose other fields mean nothing), or where in a
\* call the thread is, of which function, on whose behalf, and the value it
\* returns ("bad" is what attach takes for an error: 0, -1, an errno).
Registers ==
  {OwnRegs} \cup
  [at : Places \ {"own"}, fun : Functions, by : Insts, rv : {"ok", "bad"}]

\* The thread goes to another place, or returns a value, in the same call.
MovedTo(r, place) == [at |-> place, fun |-> r.fun, by |-> r.by, rv |-> r.rv]
Returning(r, value) == [at |-> "ret", fun |-> r.fun, by |-> r.by, rv |-> value]

CallRegs(i, f) == [at |-> "entry", fun |-> f, by |-> i, rv |-> "ok"]

PtraceTypeOK ==
  /\ tracer \in [Vms -> Insts \cup {NoInst}]
  /\ run \in [Vms -> RunStates]
  /\ pend \in [Vms -> SUBSET Signals]
  /\ text \in [Vms -> Texts]
  /\ regs \in [Vms -> Registers]
  /\ saved \in [Insts -> [text : Texts, regs : Registers]]
  /\ nsig \in 0..MaxSignals

PtraceInit ==
  /\ tracer = [v \in Vms |-> NoInst]
  /\ run = [v \in Vms |-> "running"]
  /\ pend = [v \in Vms |-> {}]
  /\ text = [v \in Vms |-> "orig"]
  /\ regs = [v \in Vms |-> OwnRegs]
  /\ saved = [i \in Insts |-> [text |-> "orig", regs |-> OwnRegs]]
  /\ nsig = 0

\* The bytes and the registers QEMU had before anyone attached.
Intact(v) == text[v] = "orig" /\ regs[v] = OwnRegs

Alive(v) == run[v] # "dead"

-----------------------------------------------------------------------------
(* System calls of RawTracee and Tracee *)

\* PTRACE_ATTACH can only succeed on a thread that nobody traces.
CanAttach(v) == tracer[v] = NoInst /\ run[v] = "running"

\* RawTracee::attach up to its wait: the kernel queues a SIGSTOP.
PtraceAttach(i, v) ==
  /\ CanAttach(v)
  /\ tracer' = [tracer EXCEPT ![v] = i]
  /\ pend' = [pend EXCEPT ![v] = @ \cup {"STOP"}]
  /\ UNCHANGED <<run, text, regs, saved, nsig>>

\* RawTracee::wait: waitpid reports any stop, and the end of the process.
\* The code passes no status pointer, so it cannot tell them apart.
WaitReturns(v) == run[v] \in {"stopped", "dead"}

\* PTRACE_GETREGSET, PTRACE_SETREGSET, PTRACE_CONT and PTRACE_DETACH work
\* on a ptrace-stopped thread only.
PtraceWorks(i, v) == tracer[v] = i /\ run[v] = "stopped"

\* Tracee::attach: PTRACE_GETREGSET.
SaveRegs(i, v) ==
  /\ saved' = [saved EXCEPT ![i] = [text |-> @.text, regs |-> regs[v]]]
  /\ UNCHANGED <<tracer, run, pend, text, regs, nsig>>

\* Mutant: the bytes are saved after they were replaced.
PatchTextThenSave(i, v) ==
  /\ saved' = [saved EXCEPT ![i] = [text |-> "patched", regs |-> @.regs]]
  /\ text' = [text EXCEPT ![v] = "patched"]
  /\ UNCHANGED <<tracer, run, pend, regs, nsig>>

\* Tracee::attach: the first bytes of the text are read, and replaced by
\* INSTRUCTIONS.
PatchText(i, v) ==
  /\ saved' = [saved EXCEPT ![i] = [text |-> text[v], regs |-> @.regs]]
  /\ text' = [text EXCEPT ![v] = "patched"]
  /\ UNCHANGED <<tracer, run, pend, regs, nsig>>

\* Tracee::do_funcall: registers for a call at instrs_addr, then PTRACE_CONT
\* with no signal to deliver: the one that stopped the thread is discarded.
SetRegsAndCont(i, v, f) ==
  /\ regs' = [regs EXCEPT ![v] = CallRegs(i, f)]
  /\ run' = [run EXCEPT ![v] = "running"]
  /\ UNCHANGED <<tracer, pend, text, saved, nsig>>

\* Tracee::drop, first half: the saved bytes go back (/proc/pid/mem can be
\* written whether the thread is stopped or not).
RestoreText(i, v) ==
  /\ text' = [text EXCEPT ![v] = saved[i].text]
  /\ UNCHANGED <<tracer, run, pend, regs, saved, nsig>>

\* Tracee::drop, second half: the saved registers go back.
RestoreRegs(i, v) ==
  /\ regs' = [regs EXCEPT ![v] = saved[i].regs]
  /\ UNCHANGED <<tracer, run, pend, text, saved, nsig>>

\* RawTracee::drop.  A SIGSTOP still queued is then delivered to an untraced
\* process, which it stops; other signals reach QEMU's own handlers.
PtraceDetach(v) ==
  /\ tracer' = [tracer EXCEPT ![v] = NoInst]
  /\ run' = [run EXCEPT ![v] = IF "STOP" \in pend[v] THEN "halted" ELSE "running"]
  /\ pend' = [pend EXCEPT ![v] = {}]
  /\ UNCHANGED <<text, regs, saved, nsig>>

-----------------------------------------------------------------------------
(* The kernel and the thread itself *)

\* Somebody (a timer, an I/O completion) signals the traced thread.
SignalArrives(v) ==
  /\ nsig < MaxSignals
  /\ tracer[v] # NoInst /\ Alive(v)
  /\ "OTHER" \notin pend[v]
  /\ pend' = [pend EXCEPT ![v] = @ \cup {"OTHER"}]
  /\ nsig' = nsig + 1
  /\ UNCHANGED <<tracer, run, text, regs, saved>>

\* A traced thread stops before it handles a signal; queued signals are
\* reported in no order the tracer controls.
SignalStop(v) ==
  /\ tracer[v] # NoInst /\ run[v] = "running"
  /\ \E s \in pend[v] : pend' = [pend EXCEPT ![v] = @ \ {s}]
  /\ run' = [run EXCEPT ![v] = "stopped"]
  /\ UNCHANGED <<tracer, text, regs, saved, nsig>>

\* The called function returns to the byte after `call rax`.  The int3 there
\* stops a traced thread and kills an untraced one; restored text does
\* whatever it does with the registers of the call.
CallReturns(v) ==
  /\ run[v] = "running" /\ regs[v].at = "ret"
  /\ regs' = [regs EXCEPT ![v] = MovedTo(@, IF text[v] = "patched" THEN "trap" ELSE "wild")]
  /\ run' = [run EXCEPT ![v] = IF text[v] = "orig" THEN "running"
                               ELSE IF tracer[v] = NoInst THEN "dead" ELSE "stopped"]
  /\ UNCHANGED <<tracer, pend, text, saved, nsig>>

\* QEMU exits or is killed.
Dies(v) ==
  /\ Alive(v)
  /\ run' = [run EXCEPT ![v] = "dead"]
  /\ UNCHANGED <<tracer, pend, text, regs, saved, nsig>>

\* The tracer's process ends: the kernel detaches its tracees as they are.
TracerGone(i) ==
  /\ tracer' = [v \in Vms |-> IF tracer[v] = i THEN NoInst ELSE tracer[v]]
  /\ run' = [v \in Vms |-> IF tracer[v] = i /\ Alive(v)
                           THEN IF "STOP" \in pend[v] THEN "halted" ELSE "running"
                           ELSE run[v]]
  /\ pend' = [v \in Vms |-> IF tracer[v] = i THEN {} ELSE pend[v]]
  /\ UNCHANGED <<text, regs, saved, nsig>>

=============================================================================
