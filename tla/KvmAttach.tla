----------------------------- MODULE KvmAttach ------------------------------
(***************************************************************************)
(* get_regs and attach of vminer/src/backends/kvm/mod.rs: how a vminer     *)
(* process obtains the registers of a running guest.  Its main thread      *)
(* starts a listener thread, attaches to QEMU with ptrace, makes QEMU map  *)
(* a page, dlopen the payload library, run the payload and dlclose it,     *)
(* then restores QEMU, detaches and joins the listener thread.             *)
(*                                                                         *)
(* One action is one system call of the main thread, with the checks and   *)
(* the early returns after it; every one that can fail does.  QEMU's       *)
(* thread, the listener thread, signals, the death of QEMU, the death of   *)
(* the vminer process and waits interrupted by a signal handler of the     *)
(* vminer process (EINTR) interleave with them.                            *)
(***************************************************************************)
EXTENDS Ptrace, RegsSocket, Integers, FiniteSets

CONSTANTS
  MaxCrashes,  \* bound: vminer processes that are killed
  MaxDeaths,   \* bound: QEMU processes that die
  MaxEintr     \* bound: waitpid calls interrupted by a signal handler

ASSUME KvmAttachAssumption == {MaxCrashes, MaxDeaths, MaxEintr} \subseteq Nat

VARIABLES
  pc,          \* pc[i]: where the main thread of i is
  callee,      \* callee[i]: the remote function it is calling
  handle,      \* handle[i]: _do_dlclose is armed
  result,      \* result[i]: what get_regs returns
  libs,        \* libs[v]: references to the payload library
  pages,       \* pages[v]: pages mapped for vminer
  ncrash,      \* vminer processes killed so far
  ndeath,      \* QEMU processes that died so far
  neintr,      \* interrupted waits so far
  spoiled      \* spoiled[v]: its tracer was killed, or its wait interrupted

mainVars == <<pc, callee, handle, result>>
loadVars == <<libs, pages>>
faultVars == <<ncrash, ndeath, neintr, spoiled>>
vars == <<ptraceVars, socketVars, mainVars, loadVars, faultVars>>

PcStates == {"fds", "unlink", "bind", "chmod", "libs", "open", "ptrace",
             "stop", "save", "text", "patch", "call", "await", "poke_names",
             "poke_fds", "restore_text", "restore_regs", "detach", "join",
             "returned", "killed"}

TypeOK ==
  /\ PtraceTypeOK
  /\ SocketTypeOK
  /\ pc \in [Insts -> PcStates]
  /\ callee \in [Insts -> Functions]
  /\ handle \in [Insts -> BOOLEAN]
  /\ result \in [Insts -> {"none", "ok", "err"}]
  /\ libs \in [Vms -> Int]
  /\ pages \in [Vms -> Nat]
  /\ ncrash \in 0..MaxCrashes
  /\ ndeath \in 0..MaxDeaths
  /\ neintr \in 0..MaxEintr
  /\ spoiled \in [Vms -> BOOLEAN]

Init ==
  /\ PtraceInit
  /\ SocketInit
  /\ pc = [i \in Insts |-> "fds"]
  /\ callee = [i \in Insts |-> "mmap"]
  /\ handle = [i \in Insts |-> FALSE]
  /\ result = [i \in Insts |-> "none"]
  /\ libs = [v \in Vms |-> 0]
  /\ pages = [v \in Vms |-> 0]
  /\ ncrash = 0
  /\ ndeath = 0
  /\ neintr = 0
  /\ spoiled = [v \in Vms |-> FALSE]

-----------------------------------------------------------------------------
(* Control of the main thread *)

At(i, l) == pc[i] = l

Goto(i, l) == pc' = [pc EXCEPT ![i] = l] /\ UNCHANGED <<callee, handle, result>>

\* An early return of get_regs: nobody joins the listener thread any more.
ReturnErr(i) ==
  /\ pc' = [pc EXCEPT ![i] = "returned"]
  /\ result' = [result EXCEPT ![i] = "err"]
  /\ UNCHANGED <<callee, handle>>

\* Mutant: no drop detaches when the initialization of Tracee fails.
FailRawLeaking(i) ==
  /\ pc' = [pc EXCEPT ![i] = "returned"]
  /\ result' = [result EXCEPT ![i] = "err"]
  /\ UNCHANGED <<callee, handle>>

\* An error inside attach once RawTracee exists but Tracee does not: the
\* former's drop detaches.
FailRaw(i) ==
  /\ pc' = [pc EXCEPT ![i] = "detach"]
  /\ result' = [result EXCEPT ![i] = "err"]
  /\ UNCHANGED <<callee, handle>>

Call(i, f) ==
  /\ pc' = [pc EXCEPT ![i] = "call"]
  /\ callee' = [callee EXCEPT ![i] = f]
  /\ UNCHANGED <<handle, result>>

\* Mutant: the drop of Tracee detaches first.
UnwindDetachFirst(i, r) ==
  /\ result' = [result EXCEPT ![i] = r]
  /\ pc' = [pc EXCEPT ![i] = "detach"]
  /\ UNCHANGED <<callee, handle>>

\* Mutant: _do_dlclose is not disarmed once it ran.
UnwindArmed(i, r) ==
  /\ result' = [result EXCEPT ![i] = r]
  /\ IF handle[i]
     THEN /\ pc' = [pc EXCEPT ![i] = "call"]
          /\ callee' = [callee EXCEPT ![i] = "dlclose"]
     ELSE pc' = [pc EXCEPT ![i] = "restore_text"] /\ UNCHANGED callee
  /\ UNCHANGED handle

\* The end of attach with a Tracee and the result r: the drop of _do_dlclose,
\* if it was created, calls dlclose; the drop of Tracee restores.
Unwind(i, r) ==
  /\ result' = [result EXCEPT ![i] = r]
  /\ IF handle[i]
     THEN /\ pc' = [pc EXCEPT ![i] = "call"]
          /\ callee' = [callee EXCEPT ![i] = "dlclose"]
          /\ handle' = [handle EXCEPT ![i] = FALSE]
     ELSE pc' = [pc EXCEPT ![i] = "restore_text"] /\ UNCHANGED <<callee, handle>>

\* dlopen returned a handle: _do_dlclose is created, and dlsym called.
ArmDlclose(i) ==
  /\ pc' = [pc EXCEPT ![i] = "call"]
  /\ callee' = [callee EXCEPT ![i] = "dlsym"]
  /\ handle' = [handle EXCEPT ![i] = TRUE]
  /\ UNCHANGED result

\* _do_dlclose is running: the result of attach was decided before.
Closing(i) == result[i] # "none"

-----------------------------------------------------------------------------
(* get_regs: descriptors and listener *)

GetVcpusFds(i) ==
  /\ At(i, "fds")
  /\ Goto(i, "unlink") \/ ReturnErr(i)
  /\ UNCHANGED <<ptraceVars, socketVars, loadVars, faultVars>>

RemoveFile(i) ==
  /\ At(i, "unlink")
  /\ UnlinkPath
  /\ Goto(i, "bind")
  /\ UNCHANGED <<ptraceVars, loadVars, faultVars>>

BindListener(i) ==
  /\ At(i, "bind")
  /\ \/ BindWorks /\ Bind(i) /\ Goto(i, "chmod")
     \/ UNCHANGED socketVars /\ ReturnErr(i)
  /\ UNCHANGED <<ptraceVars, loadVars, faultVars>>

SetPermissions(i) ==
  /\ At(i, "chmod")
  /\ \/ ChmodWorks /\ SpawnListener(i) /\ Goto(i, "libs")
     \/ DropListener(i) /\ ReturnErr(i)
  /\ UNCHANGED <<ptraceVars, loadVars, faultVars>>

-----------------------------------------------------------------------------
(* attach and Tracee::attach *)

\* find_lib in both processes: /proc/pid/maps may not open or not name libc.
FindLibs(i) ==
  /\ At(i, "libs")
  /\ (Alive(Target[i]) /\ Goto(i, "open")) \/ ReturnErr(i)
  /\ UNCHANGED <<ptraceVars, socketVars, loadVars, faultVars>>

OpenMem(i) ==
  /\ At(i, "open")
  /\ (Alive(Target[i]) /\ Goto(i, "ptrace")) \/ ReturnErr(i)
  /\ UNCHANGED <<ptraceVars, socketVars, loadVars, faultVars>>

RawAttach(i) ==
  /\ At(i, "ptrace")
  /\ \/ PtraceAttach(i, Target[i]) /\ Goto(i, "stop")
     \/ UNCHANGED ptraceVars /\ ReturnErr(i)
  /\ UNCHANGED <<socketVars, loadVars, faultVars>>

\* The wait of RawTracee::attach.
WaitStop(i) ==
  /\ At(i, "stop") /\ WaitReturns(Target[i])
  /\ Goto(i, "save")
  /\ UNCHANGED <<ptraceVars, socketVars, loadVars, faultVars>>

GetRegisters(i) ==
  /\ At(i, "save")
  /\ IF PtraceWorks(i, Target[i])
     THEN SaveRegs(i, Target[i]) /\ Goto(i, "text")
     ELSE UNCHANGED ptraceVars /\ FailRaw(i)
  /\ UNCHANGED <<socketVars, loadVars, faultVars>>

\* find_lib(pid, "/").
FindText(i) ==
  /\ At(i, "text")
  /\ (Alive(Target[i]) /\ Goto(i, "patch")) \/ FailRaw(i)
  /\ UNCHANGED <<ptraceVars, socketVars, loadVars, faultVars>>

\* Reads the original bytes and writes INSTRUCTIONS; the kernel may refuse
\* to write read-only pages through /proc/pid/mem.
PatchInstrs(i) ==
  /\ At(i, "patch")
  /\ \/ Alive(Target[i]) /\ PatchText(i, Target[i]) /\ Call(i, "mmap")
     \/ UNCHANGED ptraceVars /\ FailRaw(i)
  /\ UNCHANGED <<socketVars, loadVars, faultVars>>

-----------------------------------------------------------------------------
(* attach: remote calls *)

\* What attach does with the outcome of a remote call: "ok", a return value
\* it takes for an error ("bad"), or an error of do_funcall itself ("err").
AfterCall(i, outcome) ==
  LET f == callee[i] IN
  \/ f = "mmap" /\ outcome = "ok" /\ Goto(i, "poke_names")
  \/ f = "mmap" /\ outcome = "bad" /\ Call(i, "errno")
  \/ f = "dlopen" /\ outcome = "ok" /\ ArmDlclose(i)
  \/ f = "dlsym" /\ outcome = "ok" /\ Goto(i, "poke_fds")
  \/ f \in {"dlopen", "dlsym", "dlclose"} /\ outcome = "bad" /\ Call(i, "dlerror")
  \/ f = "payload" /\ outcome = "ok" /\ Unwind(i, "ok")
  \/ f = "payload" /\ outcome # "ok" /\ Unwind(i, "err")
  \/ f \in {"mmap", "dlopen", "dlsym"} /\ outcome = "err" /\ Unwind(i, "err")
  \/ f = "errno" /\ Unwind(i, "err")
  \/ f = "dlerror" /\ ~Closing(i) /\ Unwind(i, "err")
  \/ f = "dlerror" /\ Closing(i) /\ Goto(i, "restore_text")
  \/ f = "dlclose" /\ outcome # "bad" /\ Goto(i, "restore_text")

\* do_funcall up to PTRACE_CONT.
StartCall(i) ==
  LET v == Target[i] IN
  /\ At(i, "call")
  /\ IF PtraceWorks(i, v)
     THEN SetRegsAndCont(i, v, callee[i]) /\ Goto(i, "await")
     ELSE UNCHANGED ptraceVars /\ AfterCall(i, "err")
  /\ UNCHANGED <<socketVars, loadVars, faultVars>>

\* Mutant: do_funcall goes on waiting when another signal stopped the thread.
FinishCallOnTrap(i) ==
  /\ At(i, "await") /\ WaitReturns(Target[i]) /\ regs[Target[i]].at = "trap"
  /\ AfterCall(i, regs[Target[i]].rv)
  /\ UNCHANGED <<ptraceVars, socketVars, loadVars, faultVars>>

\* do_funcall from its wait: any stop ends it, and the instruction pointer
\* tells whether the call returned.
FinishCall(i) ==
  LET v == Target[i] IN
  /\ At(i, "await") /\ WaitReturns(v)
  /\ AfterCall(i, IF PtraceWorks(i, v) /\ regs[v].at = "trap" THEN regs[v].rv ELSE "err")
  /\ UNCHANGED <<ptraceVars, socketVars, loadVars, faultVars>>

\* Writes the arguments of dlopen and dlsym in the new page.
PokeNames(i) ==
  /\ At(i, "poke_names")
  /\ (Alive(Target[i]) /\ Call(i, "dlopen")) \/ Unwind(i, "err")
  /\ UNCHANGED <<ptraceVars, socketVars, loadVars, faultVars>>

\* Writes the descriptors there, then calls payload(mmap_addr, fds.len()).
PokeFds(i) ==
  /\ At(i, "poke_fds")
  /\ (Alive(Target[i]) /\ Call(i, "payload")) \/ Unwind(i, "err")
  /\ UNCHANGED <<ptraceVars, socketVars, loadVars, faultVars>>

-----------------------------------------------------------------------------
(* Drop of Tracee and of RawTracee, then the end of get_regs *)

\* Mutant: the registers are not put back.
DropTextOnly(i) ==
  /\ At(i, "restore_text")
  /\ IF Alive(Target[i]) THEN RestoreText(i, Target[i]) ELSE UNCHANGED ptraceVars
  /\ Goto(i, "detach")
  /\ UNCHANGED <<socketVars, loadVars, faultVars>>

\* A failed poke skips set_registers.
DropText(i) ==
  /\ At(i, "restore_text")
  /\ IF Alive(Target[i])
     THEN RestoreText(i, Target[i]) /\ Goto(i, "restore_regs")
     ELSE UNCHANGED ptraceVars /\ Goto(i, "detach")
  /\ UNCHANGED <<socketVars, loadVars, faultVars>>

DropRegs(i) ==
  /\ At(i, "restore_regs")
  /\ IF PtraceWorks(i, Target[i]) THEN RestoreRegs(i, Target[i]) ELSE UNCHANGED ptraceVars
  /\ Goto(i, "detach")
  /\ UNCHANGED <<socketVars, loadVars, faultVars>>

DropRaw(i) ==
  /\ At(i, "detach")
  /\ IF PtraceWorks(i, Target[i]) THEN PtraceDetach(Target[i]) ELSE UNCHANGED ptraceVars
  /\ Goto(i, IF result[i] = "ok" THEN "join" ELSE "returned")
  /\ UNCHANGED <<socketVars, loadVars, faultVars>>

JoinListener(i) ==
  /\ At(i, "join") /\ thr[i] \in {"ok", "err"}
  /\ pc' = [pc EXCEPT ![i] = "returned"]
  /\ result' = [result EXCEPT ![i] = thr[i]]
  /\ UNCHANGED <<ptraceVars, socketVars, callee, handle, loadVars, faultVars>>

MainStep(i) ==
  \/ GetVcpusFds(i) \/ RemoveFile(i) \/ BindListener(i) \/ SetPermissions(i)
  \/ FindLibs(i) \/ OpenMem(i) \/ RawAttach(i) \/ WaitStop(i) \/ GetRegisters(i)
  \/ FindText(i) \/ PatchInstrs(i) \/ StartCall(i) \/ FinishCall(i)
  \/ PokeNames(i) \/ PokeFds(i) \/ DropText(i) \/ DropRegs(i) \/ DropRaw(i)
  \/ JoinListener(i)

-----------------------------------------------------------------------------
(* QEMU's thread, executing what it was made to call *)

Executing(v, f, l) == run[v] = "running" /\ regs[v].fun = f /\ regs[v].at = l

GotoRet(v, value) ==
  /\ regs' = [regs EXCEPT ![v] = Returning(@, value)]
  /\ UNCHANGED <<tracer, run, pend, text, saved, nsig>>

RunMmap(v) ==
  /\ Executing(v, "mmap", "entry")
  /\ \/ GotoRet(v, "ok") /\ pages' = [pages EXCEPT ![v] = @ + 1]
     \/ GotoRet(v, "bad") /\ UNCHANGED pages
  /\ UNCHANGED <<socketVars, mainVars, libs, faultVars>>

RunDlopen(v) ==
  /\ Executing(v, "dlopen", "entry")
  /\ \/ GotoRet(v, "ok") /\ libs' = [libs EXCEPT ![v] = @ + 1]
     \/ GotoRet(v, "bad") /\ UNCHANGED libs
  /\ UNCHANGED <<socketVars, mainVars, pages, faultVars>>

RunDlclose(v) ==
  /\ Executing(v, "dlclose", "entry")
  /\ \/ GotoRet(v, "ok") /\ libs' = [libs EXCEPT ![v] = @ - 1]
     \/ GotoRet(v, "bad") /\ UNCHANGED libs
  /\ UNCHANGED <<socketVars, mainVars, pages, faultVars>>

\* dlsym may find nothing; dlerror and __errno_location return a pointer.
RunLookup(v) ==
  /\ \/ Executing(v, "dlsym", "entry") /\ \E value \in {"ok", "bad"} : GotoRet(v, value)
     \/ Executing(v, "dlerror", "entry") /\ GotoRet(v, "ok")
     \/ Executing(v, "errno", "entry") /\ GotoRet(v, "ok")
  /\ UNCHANGED <<socketVars, mainVars, libs, pages, faultVars>>

\* vminer_payload, send_fds: UnixStream::connect.
PayloadConnect(v) ==
  /\ Executing(v, "payload", "entry")
  /\ \/ /\ ConnectWorks
        /\ Connect(regs[v].by)
        /\ regs' = [regs EXCEPT ![v] = MovedTo(@, "body")]
        /\ UNCHANGED <<tracer, run, pend, text, saved, nsig>>
     \/ ~ConnectWorks /\ GotoRet(v, "bad") /\ UNCHANGED socketVars
  /\ UNCHANGED <<mainVars, libs, pages, faultVars>>

\* The ioctls of the next vCPU may fail, and so may the writes.
PayloadSend(v) ==
  LET i == regs[v].by IN
  /\ Executing(v, "payload", "body") /\ Len(sent[i]) < Fds(i)
  /\ \/ WriteWorks(i) /\ SendVcpu(i) /\ UNCHANGED ptraceVars
     \/ CloseStream(i) /\ GotoRet(v, "bad")
  /\ UNCHANGED <<mainVars, libs, pages, faultVars>>

PayloadDone(v) ==
  LET i == regs[v].by IN
  /\ Executing(v, "payload", "body") /\ Len(sent[i]) = Fds(i)
  /\ CloseStream(i) /\ GotoRet(v, "ok")
  /\ UNCHANGED <<mainVars, libs, pages, faultVars>>

ReturnFromCall(v) ==
  /\ CallReturns(v)
  /\ UNCHANGED <<socketVars, mainVars, loadVars, faultVars>>

GuestStep(v) ==
  \/ RunMmap(v) \/ RunDlopen(v) \/ RunDlclose(v) \/ RunLookup(v)
  \/ PayloadConnect(v) \/ PayloadSend(v) \/ PayloadDone(v) \/ ReturnFromCall(v)

-----------------------------------------------------------------------------
(* Listener thread, signals and faults *)

Listener(i) == ListenerStep(i) /\ UNCHANGED <<ptraceVars, mainVars, loadVars, faultVars>>
ListenerAnswers(i) == Answers(i) /\ UNCHANGED <<ptraceVars, mainVars, loadVars, faultVars>>

SendSignal(v) == SignalArrives(v) /\ UNCHANGED <<socketVars, mainVars, loadVars, faultVars>>

StopOnSignal(v) == SignalStop(v) /\ UNCHANGED <<socketVars, mainVars, loadVars, faultVars>>

QemuDies(v) ==
  /\ ndeath < MaxDeaths
  /\ Dies(v)
  /\ CloseAllOf(v)
  /\ ndeath' = ndeath + 1
  /\ UNCHANGED <<mainVars, loadVars, ncrash, neintr, spoiled>>

\* waitpid returns -1 with EINTR, which `wait` reports as an error: in
\* RawTracee::attach the value `this` is dropped, in do_funcall the call fails.
WaitInterrupted(i) ==
  /\ neintr < MaxEintr
  /\ \/ At(i, "stop") /\ FailRaw(i)
     \/ At(i, "await") /\ AfterCall(i, "err")
  /\ neintr' = neintr + 1
  /\ spoiled' = [spoiled EXCEPT ![Target[i]] = TRUE]
  /\ UNCHANGED <<ptraceVars, socketVars, loadVars, ncrash, ndeath>>

\* The vminer process is killed: no drop runs.
Killed(i) ==
  /\ ncrash < MaxCrashes
  /\ pc[i] \notin {"returned", "killed"}
  /\ pc' = [pc EXCEPT ![i] = "killed"]
  /\ ncrash' = ncrash + 1
  /\ spoiled' = [v \in Vms |-> spoiled[v] \/ tracer[v] = i]
  /\ TracerGone(i)
  /\ ListenerGone(i)
  /\ handle' = [handle EXCEPT ![i] = FALSE]
  /\ UNCHANGED <<callee, result, loadVars, ndeath, neintr>>

Next ==
  \/ \E i \in Insts : MainStep(i) \/ Listener(i) \/ WaitInterrupted(i) \/ Killed(i)
  \/ \E v \in Vms : GuestStep(v) \/ SendSignal(v) \/ StopOnSignal(v) \/ QemuDies(v)

Spec == Init /\ [][Next]_vars

\* The threads of both processes keep running, and a traced thread with a
\* queued signal stops.  Nothing says that a system call works, that signals
\* come, or that a process dies.
Fairness ==
  /\ \A i \in Insts : WF_vars(MainStep(i)) /\ WF_vars(ListenerAnswers(i))
  /\ \A v \in Vms : WF_vars(GuestStep(v)) /\ WF_vars(StopOnSignal(v))

FairSpec == Spec /\ Fairness

-----------------------------------------------------------------------------
(* The inductive invariant behind Restored, Released and CallsOnPatchedText *)

\* From PTRACE_ATTACH to the drop of RawTracee.
SessionPcs == {"stop", "save", "text", "patch", "call", "await", "poke_names",
               "poke_fds", "restore_text", "restore_regs", "detach"}

Original == [text |-> "orig", regs |-> OwnRegs]

\* What each phase of a session knows about its QEMU process v.
Phase(i, v) ==
  /\ pc[i] \notin {"stop", "await"} => run[v] = "stopped"
  /\ pc[i] \in {"stop", "save", "text", "patch", "detach"} => Intact(v)
  /\ pc[i] \in {"text", "patch"} => saved[i].regs = OwnRegs
  /\ pc[i] \in {"call", "await", "poke_names", "poke_fds", "restore_text"} =>
       text[v] = "patched" /\ saved[i] = Original
  /\ pc[i] = "restore_regs" => text[v] = "orig" /\ saved[i] = Original

\* A session holds its target and no other process; while nobody was killed
\* or interrupted each phase finds the process as the previous one left it;
\* and outside sessions a process is as it was before any.
SessionInv ==
  /\ \A v \in Vms : tracer[v] # NoInst => Target[tracer[v]] = v
  /\ \A i \in Insts : pc[i] \in SessionPcs => tracer[Target[i]] = i
  /\ \A v \in Vms : Alive(v) /\ ~spoiled[v] =>
       IF tracer[v] = NoInst
       THEN Intact(v)
       ELSE pc[tracer[v]] \in SessionPcs /\ Phase(tracer[v], v)

-----------------------------------------------------------------------------
(* The inductive invariant behind LibraryLoaded *)

\* Before the first remote call of i.
EarlyPcs == {"fds", "unlink", "bind", "chmod", "libs", "open", "ptrace", "stop", "save", "text", "patch"}

\* While i has registers of its target to put back.
SavedPcs == {"text", "patch", "call", "await", "poke_names", "poke_fds", "restore_text", "restore_regs"}

\* With the registers r the thread is about to run the dlclose of j.
Closes(r, j) == r.at = "entry" /\ r.fun = "dlclose" /\ r.by = j

\* So it is in v now, or will be when a tracer puts back what it found: the
\* dlclose of a process that was killed is run by nobody's order.
ClosePending(j, v) ==
  \/ Closes(regs[v], j)
  \/ \E k \in Insts : Target[k] = v /\ pc[k] \in SavedPcs /\ Closes(saved[k].regs, j)

CallsDlclose(j) == pc[j] = "call" /\ callee[j] = "dlclose"

\* The dlopen of j returned a handle, and j has not seen it yet.
Opened(j) ==
  /\ pc[j] = "await" /\ callee[j] = "dlopen"
  /\ regs[Target[j]].at \in {"ret", "trap"} /\ regs[Target[j]].rv = "ok"

\* The processes that can still make v close the library, each once.
Owner(j, v) == Target[j] = v /\ (handle[j] \/ CallsDlclose(j) \/ Opened(j) \/ ClosePending(j, v))
Owners(v) == {j \in Insts : Owner(j, v)}

\* The handle is there when it is needed, and given up when dlclose is called.
HandleKept(i) ==
  /\ pc[i] = "poke_fds" => handle[i]
  /\ pc[i] \in {"call", "await"} /\ callee[i] \in {"dlsym", "payload"} => handle[i]
  /\ pc[i] \in {"call", "await"} /\ callee[i] = "dlclose" => ~handle[i]

\* Whose call a thread is in: never one of a process that made none, always
\* one of a process that was given its PID, and while a session waits or has
\* let the thread run, its own.
CallsKnown(i) ==
  LET v == Target[i] IN
  /\ pc[i] \in EarlyPcs => (\A w \in Vms : regs[w].by # i) /\ (\A k \in Insts : saved[k].regs.by # i)
  /\ saved[i].regs.by # i
  /\ saved[i].regs.by # NoInst /\ pc[i] \in SavedPcs => Target[saved[i].regs.by] = v
  /\ pc[i] \in SavedPcs \cup {"save"} => run[v] \in {"stopped", "dead"} \/ regs[v].by = i
  /\ pc[i] = "await" => regs[v].by = i /\ regs[v].fun = callee[i]

\* No process is counted twice, and every reference somebody can still give
\* up is one that dlopen took.
LibraryInv ==
  /\ \A i \in Insts : HandleKept(i) /\ CallsKnown(i)
  /\ \A v \in Vms : regs[v].by # NoInst => Target[regs[v].by] = v
  /\ \A j \in Insts, v \in Vms : ClosePending(j, v) => ~handle[j] /\ ~CallsDlclose(j)
  /\ \A v \in Vms : IsFiniteSet(Owners(v)) /\ Cardinality(Owners(v)) <= libs[v]

-----------------------------------------------------------------------------
(* The inductive invariant behind OwnRegisters *)

\* The records of one vCPU after the other of the QEMU process v.
InOrder(s, v) == \A k \in 1..Len(s) : s[k] = <<v, k>>

\* A listener reads, in order, the records of the process whose payload it
\* accepted, and get_regs returns all that it read or an error: whether that
\* is the process it was given is another matter.
AnswerRight(i) ==
  /\ InOrder(sent[i], Target[i])
  /\ got[i] # <<>> => InOrder(got[i], Target[peer[i]])
  /\ pc[i] \in {"fds", "unlink", "bind", "chmod"} => got[i] = <<>> /\ thr[i] = "none"
  /\ thr[i] = "accept" => got[i] = <<>>
  /\ thr[i] = "ok" => peer[i] \in Insts /\ Len(got[i]) = Fds(i)
  /\ pc[i] = "returned" /\ result[i] = "ok" => thr[i] = "ok"

AnswerInv == \A i \in Insts : AnswerRight(i)

-----------------------------------------------------------------------------
(* Properties *)

\* Whatever fails on the way (a call, a signal in the middle of a remote
\* function, the payload), a live QEMU process that vminer no longer traces
\* has its own text and registers again: what the drop order of attach and
\* Tracee::drop are for.  Only a killed vminer process or an interrupted
\* wait can prevent it.
Restored ==
  \A v \in Vms : tracer[v] = NoInst /\ Alive(v) /\ ~spoiled[v] => Intact(v)

\* get_regs never returns with QEMU still attached, hence stopped: every
\* early return after PTRACE_ATTACH goes through the drop of RawTracee.
Released ==
  \A i \in Insts :
    pc[i] \in {"join", "returned"} /\ Alive(Target[i]) /\ ~spoiled[Target[i]]
      => tracer[Target[i]] # i

\* A live QEMU thread runs with the registers of a call only while
\* `call rax; int3` is in place, and what its tracer saved to put back is what
\* QEMU had before any session: sessions never overlap on one process.
CallsOnPatchedText ==
  \A v \in Vms : Alive(v) /\ ~spoiled[v] =>
    /\ run[v] = "running" /\ regs[v] # OwnRegs => text[v] = "patched"
    /\ text[v] = "patched" =>
         tracer[v] # NoInst /\ saved[tracer[v]] = [text |-> "orig", regs |-> OwnRegs]

\* dlsym, the payload and dlclose are only called while the library that
\* dlopen returned a handle to is loaded, and it is closed at most once,
\* also when several vminer processes visit one QEMU process in turn.
LibraryLoaded ==
  /\ \A v \in Vms : libs[v] >= 0
  /\ \A i \in Insts :
       handle[i] \/ (pc[i] \in {"call", "await"} /\ callee[i] \in {"dlsym", "payload"})
         => libs[Target[i]] > 0

\* When get_regs(pid) returns Ok, the registers are those of the QEMU process
\* pid.
OwnRegisters ==
  \A i \in Insts : pc[i] = "returned" /\ result[i] = "ok" => got[i] = AllRecords(i)

\* A QEMU process is never left stopped: the promise of the comment on
\* RawTracee.
NeverHalted == \A v \in Vms : run[v] # "halted"

\* A session implements VmLease: exclusive, and leaving no trace.
Lease == INSTANCE VmLease WITH
  holder <- tracer,
  intact <- [v \in Vms |-> Intact(v)],
  lost <- [v \in Vms |-> spoiled[v] \/ ~Alive(v)]

\* Every step of the two processes is one the lease allows: QEMU is changed
\* by its one tracer only, and given back as it was taken.
ImplementsLease == Lease!LeaseSpec

\* get_regs always returns, whatever fails: no wait, no accept and no join
\* blocks for ever.
Terminates == \A i \in Insts : <>(pc[i] \in {"returned", "killed"})

=============================================================================
