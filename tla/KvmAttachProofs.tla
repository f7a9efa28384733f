-------------------------- MODULE KvmAttachProofs ---------------------------
(***************************************************************************)
(* Proofs about KvmAttach for any number of vminer and QEMU processes, any *)
(* vCPU counts and any number of signals, deaths, kills and interruptions. *)
(***************************************************************************)
EXTENDS KvmAttach, FiniteSetTheorems, TLAPS

USE ProcessesAssumption, PtraceAssumption, KvmAttachAssumption

-----------------------------------------------------------------------------
(* Where the early returns and the unwinding of attach lead *)

\* The state of the main threads alone.
MainTypeOK ==
  /\ pc \in [Insts -> PcStates]
  /\ callee \in [Insts -> Functions]
  /\ handle \in [Insts -> BOOLEAN]
  /\ result \in [Insts -> {"none", "ok", "err"}]

\* Continuing at one place keeps the types of the main thread's state.
LEMMA GotoType ==
  ASSUME NEW i \in Insts, NEW l \in PcStates, MainTypeOK, Goto(i, l)
  PROVE  MainTypeOK'
  BY DEF MainTypeOK, Goto

\* So do an early return of get_regs and of Tracee::attach,
LEMMA ReturnType ==
  ASSUME NEW i \in Insts, MainTypeOK, ReturnErr(i) \/ FailRaw(i)
  PROVE  MainTypeOK'
  BY DEF MainTypeOK, ReturnErr, FailRaw, PcStates

\* the start of a remote call,
LEMMA CallType ==
  ASSUME NEW i \in Insts, NEW f \in Functions, MainTypeOK, Call(i, f)
  PROVE  MainTypeOK'
  BY DEF MainTypeOK, Call, PcStates

\* and the unwinding of attach.
LEMMA UnwindType ==
  ASSUME NEW i \in Insts, NEW r \in {"ok", "err"}, MainTypeOK, Unwind(i, r)
  PROVE  MainTypeOK'
  BY DEF MainTypeOK, Unwind, PcStates, Functions

\* What attach does after a remote call keeps them too.
LEMMA AfterCallType ==
  ASSUME NEW i \in Insts, NEW o, MainTypeOK, AfterCall(i, o)
  PROVE  MainTypeOK'
  <1> USE DEF PcStates, Functions
  <1>1. CASE Goto(i, "poke_names") \/ Goto(i, "poke_fds") \/ Goto(i, "restore_text")
    BY <1>1, GotoType
  <1>2. CASE Call(i, "errno") \/ Call(i, "dlerror")
    BY <1>2, CallType
  <1>3. CASE Unwind(i, "ok") \/ Unwind(i, "err")
    BY <1>3, UnwindType
  <1>4. CASE ArmDlclose(i)
    BY <1>4 DEF ArmDlclose, MainTypeOK
  <1> QED BY <1>1, <1>2, <1>3, <1>4 DEF AfterCall

\* After a remote call the main thread stays inside the part of the session
\* in which the text is patched.
LEMMA AfterCallPc ==
  ASSUME NEW i \in Insts, NEW o, AfterCall(i, o)
  PROVE  \E l \in {"call", "poke_names", "poke_fds", "restore_text"} :
           pc' = [pc EXCEPT ![i] = l]
  BY DEF AfterCall, Goto, Call, Unwind, ArmDlclose

-----------------------------------------------------------------------------
(* Type correctness *)

FaultTypeOK ==
  /\ ncrash \in 0..MaxCrashes
  /\ ndeath \in 0..MaxDeaths
  /\ neintr \in 0..MaxEintr
  /\ spoiled \in [Vms -> BOOLEAN]

LoadTypeOK ==
  /\ libs \in [Vms -> Int]
  /\ pages \in [Vms -> Nat]

\* TypeOK, by component.
LEMMA TypeParts ==
  /\ TypeOK <=> PtraceTypeOK /\ SocketTypeOK /\ MainTypeOK /\ LoadTypeOK /\ FaultTypeOK
  /\ TypeOK' <=>
       PtraceTypeOK' /\ SocketTypeOK' /\ MainTypeOK' /\ LoadTypeOK' /\ FaultTypeOK'
  BY DEF TypeOK, MainTypeOK, LoadTypeOK, FaultTypeOK

\* A step that leaves a component alone keeps its types.
LEMMA UnchangedTypes ==
  /\ PtraceTypeOK /\ UNCHANGED ptraceVars => PtraceTypeOK'
  /\ SocketTypeOK /\ UNCHANGED socketVars => SocketTypeOK'
  /\ MainTypeOK /\ UNCHANGED mainVars => MainTypeOK'
  /\ LoadTypeOK /\ UNCHANGED loadVars => LoadTypeOK'
  /\ FaultTypeOK /\ UNCHANGED faultVars => FaultTypeOK'
  BY DEF PtraceTypeOK, SocketTypeOK, MainTypeOK, LoadTypeOK, FaultTypeOK,
         ptraceVars, socketVars, mainVars, loadVars, faultVars

\* The ptrace system calls keep the types of the traced threads.
LEMMA PtraceCallTypes ==
  ASSUME NEW i \in Insts, NEW v \in Vms, PtraceTypeOK,
         \/ PtraceAttach(i, v) \/ SaveRegs(i, v) \/ PatchText(i, v)
         \/ \E f \in Functions : SetRegsAndCont(i, v, f)
         \/ RestoreText(i, v) \/ RestoreRegs(i, v) \/ PtraceDetach(v)
  PROVE  PtraceTypeOK'
  <1> USE DEF PtraceTypeOK, RunStates, Texts, Signals
  <1>1. CASE PtraceAttach(i, v)  BY <1>1 DEF PtraceAttach
  <1>2. CASE SaveRegs(i, v)  BY <1>2 DEF SaveRegs
  <1>3. CASE PatchText(i, v)  BY <1>3 DEF PatchText
  <1>4. ASSUME NEW f \in Functions, SetRegsAndCont(i, v, f)  PROVE PtraceTypeOK'
    BY <1>4 DEF SetRegsAndCont, CallRegs, Registers, Places
  <1>5. CASE RestoreText(i, v)  BY <1>5 DEF RestoreText
  <1>6. CASE RestoreRegs(i, v)  BY <1>6 DEF RestoreRegs
  <1>7. CASE PtraceDetach(v)  BY <1>7 DEF PtraceDetach
  <1> QED BY <1>1, <1>2, <1>3, <1>4, <1>5, <1>6, <1>7

\* So do the steps of the kernel and of the thread itself.
LEMMA PtraceEventTypes ==
  ASSUME NEW v \in Vms, PtraceTypeOK,
         \/ SignalArrives(v) \/ SignalStop(v) \/ CallReturns(v) \/ Dies(v)
         \/ \E value \in {"ok", "bad"} : regs[v].at # "own" /\ GotoRet(v, value)
  PROVE  PtraceTypeOK'
  <1> USE DEF PtraceTypeOK, RunStates, Texts, Signals
  <1>1. CASE SignalArrives(v)  BY <1>1 DEF SignalArrives
  <1>2. CASE SignalStop(v)  BY <1>2 DEF SignalStop
  <1>3. CASE CallReturns(v)  BY <1>3 DEF CallReturns, MovedTo, Registers, OwnRegs, Places
  <1>4. CASE Dies(v)  BY <1>4 DEF Dies
  <1>5. ASSUME NEW value \in {"ok", "bad"}, regs[v].at # "own", GotoRet(v, value)
        PROVE  PtraceTypeOK'
    BY <1>5 DEF GotoRet, Returning, Registers, OwnRegs, Places
  <1> QED BY <1>1, <1>2, <1>3, <1>4, <1>5

\* The listener thread keeps the types of the sockets.
LEMMA ListenerTypes ==
  ASSUME NEW i \in Insts, SocketTypeOK, ListenerStep(i)
  PROVE  SocketTypeOK'
  <1> USE DEF SocketTypeOK
  <1>1. CASE Accept(i)  BY <1>1, SMTT(40) DEF Accept
  <1>2. CASE ReadVcpu(i)
    BY <1>2 DEF ReadVcpu
  <1>3. CASE ReadEof(i)  BY <1>3 DEF ReadEof, EndThread
  <1>4. CASE ReadAll(i)  BY <1>4 DEF ReadAll, EndThread
  <1>5. CASE AcceptFails(i)  BY <1>5 DEF AcceptFails, EndThread
  <1> QED BY <1>1, <1>2, <1>3, <1>4, <1>5 DEF ListenerStep, Answers

\* So do the steps of the main thread and of the payload on them.
LEMMA SocketCallTypes ==
  ASSUME NEW i \in Insts, NEW p \in Insts, NEW v \in Vms, SocketTypeOK,
         \/ UnlinkPath \/ Bind(i) \/ SpawnListener(i) \/ DropListener(i)
         \/ ConnectWorks /\ Connect(p)
         \/ SendVcpu(p) \/ CloseStream(p) \/ CloseAllOf(v) \/ ListenerGone(i)
  PROVE  SocketTypeOK'
  <1> USE DEF SocketTypeOK
  <1>1. CASE UnlinkPath  BY <1>1 DEF UnlinkPath
  <1>2. CASE Bind(i)  BY <1>2 DEF Bind
  <1>3. CASE SpawnListener(i)  BY <1>3 DEF SpawnListener
  <1>4. CASE DropListener(i)  BY <1>4 DEF DropListener
  <1>5. CASE ConnectWorks /\ Connect(p)  BY <1>5, SMTT(40) DEF ConnectWorks, Connect
  <1>6. CASE SendVcpu(p)
    <2>1. <<Target[p], Len(sent[p]) + 1>> \in Records
      BY SMTT(40) DEF Records
    <2>2. Append(sent[p], <<Target[p], Len(sent[p]) + 1>>) \in Seq(Records)
      BY <2>1
    <2> QED BY <1>6, <2>2 DEF SendVcpu
  <1>7. CASE CloseStream(p)  BY <1>7 DEF CloseStream
  <1>8. CASE CloseAllOf(v)  BY <1>8 DEF CloseAllOf
  <1>9. CASE ListenerGone(i)  BY <1>9 DEF ListenerGone
  <1> QED BY <1>1, <1>2, <1>3, <1>4, <1>5, <1>6, <1>7, <1>8, <1>9

\* Every step of a main thread keeps the types.
LEMMA MainStepType ==
  ASSUME NEW i \in Insts, TypeOK, MainStep(i)
  PROVE  TypeOK'
  <1> DEFINE v == Target[i]
  <1> USE TypeParts, UnchangedTypes DEF PcStates, Functions
  <1>0. v \in Vms  OBVIOUS
  <1>1. CASE GetVcpusFds(i)
    BY <1>1, GotoType, ReturnType DEF GetVcpusFds
  <1>2. CASE RemoveFile(i)
    BY <1>2, GotoType, SocketCallTypes DEF RemoveFile
  <1>3. CASE BindListener(i)
    BY <1>3, GotoType, ReturnType, SocketCallTypes DEF BindListener
  <1>4. CASE SetPermissions(i)
    BY <1>4, GotoType, ReturnType, SocketCallTypes DEF SetPermissions
  <1>5. CASE FindLibs(i)
    BY <1>5, GotoType, ReturnType DEF FindLibs
  <1>6. CASE OpenMem(i)
    BY <1>6, GotoType, ReturnType DEF OpenMem
  <1>7. CASE RawAttach(i)
    BY <1>0, <1>7, GotoType, ReturnType, PtraceCallTypes DEF RawAttach
  <1>8. CASE WaitStop(i)
    BY <1>8, GotoType DEF WaitStop
  <1>9. CASE GetRegisters(i)
    BY <1>0, <1>9, GotoType, ReturnType, PtraceCallTypes DEF GetRegisters
  <1>10. CASE FindText(i)
    BY <1>10, GotoType, ReturnType DEF FindText
  <1>11. CASE PatchInstrs(i)
    BY <1>0, <1>11, CallType, ReturnType, PtraceCallTypes DEF PatchInstrs
  <1>12. CASE StartCall(i)
    <2>1. callee[i] \in Functions  BY DEF MainTypeOK
    <2> QED BY <1>0, <1>12, <2>1, GotoType, AfterCallType, PtraceCallTypes DEF StartCall
  <1>13. CASE FinishCall(i)
    BY <1>13, AfterCallType DEF FinishCall
  <1>14. CASE PokeNames(i)
    BY <1>14, CallType, UnwindType DEF PokeNames
  <1>15. CASE PokeFds(i)
    BY <1>15, CallType, UnwindType DEF PokeFds
  <1>16. CASE DropText(i)
    BY <1>0, <1>16, GotoType, PtraceCallTypes DEF DropText
  <1>17. CASE DropRegs(i)
    BY <1>0, <1>17, GotoType, PtraceCallTypes DEF DropRegs
  <1>18. CASE DropRaw(i)
    BY <1>0, <1>18, GotoType, PtraceCallTypes DEF DropRaw
  <1>19. CASE JoinListener(i)
    <2>1. MainTypeOK'  BY <1>19 DEF JoinListener, MainTypeOK
    <2> QED BY <1>19, <2>1 DEF JoinListener
  <1> QED BY <1>1, <1>2, <1>3, <1>4, <1>5, <1>6, <1>7, <1>8, <1>9, <1>10, <1>11,
             <1>12, <1>13, <1>14, <1>15, <1>16, <1>17, <1>18, <1>19 DEF MainStep

\* Every step of a QEMU thread keeps the types.
LEMMA GuestStepType ==
  ASSUME NEW v \in Vms, TypeOK, GuestStep(v)
  PROVE  TypeOK'
  <1> USE TypeParts, UnchangedTypes
  <1>0. ASSUME NEW f, NEW l \in {"entry", "body"}, Executing(v, f, l)
        PROVE  regs[v].at # "own" /\ regs[v].by \in Insts
    BY <1>0 DEF Executing, PtraceTypeOK, Registers, OwnRegs
  <1>1. CASE RunMmap(v)
    <2>1. LoadTypeOK'  BY <1>1 DEF RunMmap, LoadTypeOK
    <2> QED BY <1>0, <1>1, <2>1, PtraceEventTypes DEF RunMmap
  <1>2. CASE RunDlopen(v)
    <2>1. LoadTypeOK'  BY <1>2 DEF RunDlopen, LoadTypeOK
    <2> QED BY <1>0, <1>2, <2>1, PtraceEventTypes DEF RunDlopen
  <1>3. CASE RunDlclose(v)
    <2>1. LoadTypeOK'  BY <1>3 DEF RunDlclose, LoadTypeOK
    <2> QED BY <1>0, <1>3, <2>1, PtraceEventTypes DEF RunDlclose
  <1>4. CASE RunLookup(v)
    <2>1. LoadTypeOK'  BY <1>4 DEF RunLookup, LoadTypeOK
    <2>2. regs[v].at # "own" /\ \E value \in {"ok", "bad"} : GotoRet(v, value)
      BY <1>0, <1>4 DEF RunLookup
    <2> QED BY <1>4, <2>1, <2>2, PtraceEventTypes DEF RunLookup
  <1>5. CASE PayloadConnect(v)
    <2>1. LoadTypeOK'  BY <1>5 DEF PayloadConnect, LoadTypeOK
    <2>2. regs[v].at # "own" /\ regs[v].by \in Insts
      BY <1>0, <1>5 DEF PayloadConnect
    <2>3. CASE ConnectWorks
      <3>1. SocketTypeOK'
        BY <1>5, <2>2, <2>3, SocketCallTypes DEF PayloadConnect
      <3>2. PtraceTypeOK'
        BY <1>5, <2>2, <2>3 DEF PayloadConnect, PtraceTypeOK, MovedTo, Registers, OwnRegs, Places
      <3> QED BY <1>5, <2>1, <3>1, <3>2 DEF PayloadConnect
    <2>4. CASE ~ConnectWorks
      BY <1>5, <2>1, <2>2, <2>4, PtraceEventTypes DEF PayloadConnect
    <2> QED BY <2>3, <2>4
  <1>6. CASE PayloadSend(v)
    <2>1. LoadTypeOK'  BY <1>6 DEF PayloadSend, LoadTypeOK
    <2>2. regs[v].at # "own" /\ regs[v].by \in Insts
      BY <1>0, <1>6 DEF PayloadSend
    <2> QED BY <1>6, <2>1, <2>2, PtraceEventTypes, SocketCallTypes DEF PayloadSend
  <1>7. CASE PayloadDone(v)
    <2>1. LoadTypeOK'  BY <1>7 DEF PayloadDone, LoadTypeOK
    <2>2. regs[v].at # "own" /\ regs[v].by \in Insts
      BY <1>0, <1>7 DEF PayloadDone
    <2> QED BY <1>7, <2>1, <2>2, PtraceEventTypes, SocketCallTypes DEF PayloadDone
  <1>8. CASE ReturnFromCall(v)
    BY <1>8, PtraceEventTypes DEF ReturnFromCall
  <1> QED BY <1>1, <1>2, <1>3, <1>4, <1>5, <1>6, <1>7, <1>8 DEF GuestStep

\* So does everything else: the listener thread, signals and faults.
LEMMA OtherStepType ==
  ASSUME NEW i \in Insts, NEW v \in Vms, TypeOK,
         \/ Listener(i) \/ WaitInterrupted(i) \/ Killed(i)
         \/ SendSignal(v) \/ StopOnSignal(v) \/ QemuDies(v)
  PROVE  TypeOK'
  <1> USE TypeParts, UnchangedTypes
  <1>1. CASE Listener(i)
    BY <1>1, ListenerTypes DEF Listener
  <1>2. CASE WaitInterrupted(i)
    <2>1. FaultTypeOK'  BY <1>2 DEF WaitInterrupted, FaultTypeOK
    <2> QED BY <1>2, <2>1, ReturnType, AfterCallType DEF WaitInterrupted
  <1>3. CASE Killed(i)
    <2>1. FaultTypeOK'  BY <1>3 DEF Killed, FaultTypeOK
    <2>2. MainTypeOK'  BY <1>3 DEF Killed, MainTypeOK, PcStates
    <2>3. PtraceTypeOK'
      BY <1>3 DEF Killed, TracerGone, PtraceTypeOK, RunStates
    <2> QED BY <1>3, <2>1, <2>2, <2>3, SocketCallTypes DEF Killed
  <1>4. CASE SendSignal(v)
    BY <1>4, PtraceEventTypes DEF SendSignal
  <1>5. CASE StopOnSignal(v)
    BY <1>5, PtraceEventTypes DEF StopOnSignal
  <1>6. CASE QemuDies(v)
    <2>1. FaultTypeOK'  BY <1>6 DEF QemuDies, FaultTypeOK
    <2> QED BY <1>6, <2>1, PtraceEventTypes, SocketCallTypes DEF QemuDies
  <1> QED BY <1>1, <1>2, <1>3, <1>4, <1>5, <1>6

\* The types hold initially, whatever the processes are.
LEMMA InitType == Init => TypeOK
  <1> SUFFICES ASSUME Init PROVE TypeOK
    OBVIOUS
  <1>1. PtraceTypeOK
    BY DEF Init, PtraceInit, PtraceTypeOK, RunStates, Texts, Registers
  <1>2. SocketTypeOK
    BY DEF Init, SocketInit, SocketTypeOK
  <1>3. MainTypeOK
    BY DEF Init, MainTypeOK, PcStates, Functions
  <1>4. LoadTypeOK
    BY DEF Init, LoadTypeOK
  <1>5. FaultTypeOK
    BY DEF Init, FaultTypeOK
  <1> QED BY <1>1, <1>2, <1>3, <1>4, <1>5, TypeParts

\* Any step keeps them.
LEMMA NextType == TypeOK /\ [Next]_vars => TypeOK'
  <1> SUFFICES ASSUME TypeOK, [Next]_vars PROVE TypeOK'
    OBVIOUS
  <1>1. CASE UNCHANGED vars
    BY <1>1, TypeParts, UnchangedTypes DEF vars
  <1>2. CASE Next
    <2>1. ASSUME NEW i \in Insts, MainStep(i) PROVE TypeOK'
      BY <2>1, MainStepType
    <2>2. ASSUME NEW v \in Vms, GuestStep(v) PROVE TypeOK'
      BY <2>2, GuestStepType
    <2>3. ASSUME NEW i \in Insts, Listener(i) \/ WaitInterrupted(i) \/ Killed(i)
          PROVE  TypeOK'
      BY <2>3, OtherStepType
    <2>4. ASSUME NEW v \in Vms, SendSignal(v) \/ StopOnSignal(v) \/ QemuDies(v)
          PROVE  TypeOK'
      <3>1. PICK i \in Insts : TRUE
        BY SomeInst
      <3> QED BY <2>4, <3>1, OtherStepType
    <2> QED BY <1>2, <2>1, <2>2, <2>3, <2>4 DEF Next
  <1> QED BY <1>1, <1>2

\* Type correctness of the whole attach protocol: main threads, listener
\* threads, sockets and traced QEMU threads, under every interleaving, failure
\* and fault.
THEOREM TypeCorrect == Spec => []TypeOK
  BY InitType, NextType, PTL DEF Spec

-----------------------------------------------------------------------------
(* The session invariant *)

\* A step of a main thread outside sessions, which leaves QEMU alone.
LEMMA OutsideStep ==
  ASSUME NEW i \in Insts, NEW l \in PcStates, TypeOK, SessionInv,
         pc[i] \notin SessionPcs, l \notin SessionPcs,
         pc' = [pc EXCEPT ![i] = l], UNCHANGED <<ptraceVars, spoiled>>
  PROVE  SessionInv'
  BY DEF TypeOK, PtraceTypeOK, SessionInv, Phase, Intact, Alive, ptraceVars

\* A step of a main thread from one phase of its session to another one,
\* which finds in QEMU what it expects there.  Nobody else has a session on
\* the same process, and no other process is touched.
LEMMA InsideStep ==
  ASSUME NEW i \in Insts, NEW v \in Vms, NEW l \in SessionPcs, TypeOK, SessionInv,
         v = Target[i], pc[i] \in SessionPcs, pc' = [pc EXCEPT ![i] = l],
         tracer' = tracer, spoiled' = spoiled,
         \A w \in Vms \ {v} : run'[w] = run[w] /\ text'[w] = text[w] /\ regs'[w] = regs[w],
         \A j \in Insts \ {i} : saved'[j] = saved[j],
         Alive(v)' => Alive(v),
         Alive(v) /\ ~spoiled[v] /\ Phase(i, v) => Phase(i, v)'
  PROVE  SessionInv'
  <1> USE DEF TypeOK, PtraceTypeOK
  <1>1. tracer[v] = i
    BY DEF SessionInv
  <1>2. \A w \in Vms : tracer'[w] # NoInst => Target[tracer'[w]] = w
    BY DEF SessionInv
  <1>3. \A j \in Insts : pc'[j] \in SessionPcs => tracer'[Target[j]] = j
    BY DEF SessionInv
  <1>4. ASSUME NEW w \in Vms \ {v}, Alive(w)', ~spoiled'[w]
        PROVE  IF tracer'[w] = NoInst
               THEN Intact(w)'
               ELSE pc'[tracer'[w]] \in SessionPcs /\ Phase(tracer[w], w)'
    <2>1. Alive(w)  BY <1>4 DEF Alive
    <2>2. CASE tracer[w] = NoInst
      BY <1>4, <2>1, <2>2 DEF SessionInv, Intact
    <2>3. CASE tracer[w] # NoInst
      <3>1. tracer[w] \in Insts \ {i}
        BY <1>2, <2>3
      <3>2. pc'[tracer[w]] = pc[tracer[w]]
        BY <3>1
      <3>3. pc[tracer[w]] \in SessionPcs /\ Phase(tracer[w], w)
        BY <1>4, <2>1, <2>3 DEF SessionInv
      <3> QED BY <2>3, <3>1, <3>2, <3>3 DEF Phase, Intact
    <2> QED BY <2>2, <2>3
  <1>5. ASSUME Alive(v)', ~spoiled'[v]
        PROVE  pc'[i] \in SessionPcs /\ Phase(i, v)'
    <2>1. Alive(v) /\ ~spoiled[v] /\ Phase(i, v)
      BY <1>1, <1>5 DEF SessionInv
    <2> QED BY <2>1
  <1> QED BY <1>1, <1>2, <1>3, <1>4, <1>5 DEF SessionInv

\* A step of QEMU's thread or of the kernel on it, which does not surprise
\* its tracer.
LEMMA EventStep ==
  ASSUME NEW v \in Vms, TypeOK, SessionInv,
         pc' = pc, tracer' = tracer, spoiled' = spoiled, text' = text, saved' = saved,
         \A w \in Vms \ {v} : run'[w] = run[w] /\ regs'[w] = regs[w],
         Alive(v)' => Alive(v),
         Alive(v) /\ ~spoiled[v] /\ tracer[v] = NoInst /\ Intact(v) => Intact(v)',
         ASSUME NEW i \in Insts, i = tracer[v], Alive(v)', Alive(v), ~spoiled[v], Phase(i, v)
         PROVE  Phase(i, v)'
  PROVE  SessionInv'
  <1> USE DEF TypeOK, PtraceTypeOK
  <1>1. ASSUME NEW w \in Vms, Alive(w)', ~spoiled'[w]
        PROVE  IF tracer'[w] = NoInst
               THEN Intact(w)'
               ELSE pc'[tracer'[w]] \in SessionPcs /\ Phase(tracer[w], w)'
    <2>1. CASE w = v
      BY <1>1, <2>1 DEF SessionInv
    <2>2. CASE w # v
      BY <1>1, <2>2 DEF SessionInv, Alive, Intact, Phase
    <2> QED BY <2>1, <2>2
  <1> QED BY <1>1 DEF SessionInv

\* The main threads keep the session invariant.
LEMMA MainStepSession ==
  ASSUME NEW i \in Insts, TypeOK, TypeOK', SessionInv, MainStep(i)
  PROVE  SessionInv'
  <1> DEFINE v == Target[i]
  <1>0. v \in Vms  OBVIOUS
  <1> USE DEF PcStates, SessionPcs, At, ptraceVars, faultVars, Alive
  <1>1. CASE GetVcpusFds(i)
    BY <1>1, OutsideStep DEF GetVcpusFds, Goto, ReturnErr
  <1>2. CASE RemoveFile(i)
    BY <1>2, OutsideStep DEF RemoveFile, Goto
  <1>3. CASE BindListener(i)
    BY <1>3, OutsideStep DEF BindListener, Goto, ReturnErr
  <1>4. CASE SetPermissions(i)
    BY <1>4, OutsideStep DEF SetPermissions, Goto, ReturnErr
  <1>5. CASE FindLibs(i)
    BY <1>5, OutsideStep DEF FindLibs, Goto, ReturnErr
  <1>6. CASE OpenMem(i)
    BY <1>6, OutsideStep DEF OpenMem, Goto, ReturnErr
  <1>19. CASE JoinListener(i)
    BY <1>19, OutsideStep DEF JoinListener
  <1>8. CASE WaitStop(i)
    <2>1. Alive(v) /\ Phase(i, v) => Phase(i, v)'
      BY <1>0, <1>8 DEF WaitStop, Goto, WaitReturns, Phase, Intact, TypeOK
    <2> QED BY <1>0, <1>8, <2>1, InsideStep DEF WaitStop, Goto
  <1>9. CASE GetRegisters(i)
    <2>1. CASE PtraceWorks(i, v)
      <3>1. Phase(i, v) => Phase(i, v)'
        BY <1>0, <1>9, <2>1 DEF GetRegisters, Goto, SaveRegs, Phase, Intact, TypeOK, PtraceTypeOK
      <3>2. \A j \in Insts \ {i} : saved'[j] = saved[j]
        BY <1>9, <2>1 DEF GetRegisters, SaveRegs, TypeOK, PtraceTypeOK
      <3> QED BY <1>0, <1>9, <2>1, <3>1, <3>2, InsideStep DEF GetRegisters, Goto, SaveRegs
    <2>2. CASE ~PtraceWorks(i, v)
      <3>1. Alive(v) /\ ~spoiled[v] => ~Phase(i, v)
        BY <1>0, <1>9, <2>2 DEF GetRegisters, PtraceWorks, Phase, SessionInv
      <3> QED BY <1>0, <1>9, <2>2, <3>1, InsideStep DEF GetRegisters, FailRaw
    <2> QED BY <2>1, <2>2
  <1>10. CASE FindText(i)
    <2>1. Phase(i, v) => Phase(i, v)'
      BY <1>0, <1>10 DEF FindText, Goto, FailRaw, Phase, Intact, TypeOK
    <2> QED BY <1>0, <1>10, <2>1, InsideStep DEF FindText, Goto, FailRaw
  <1>11. CASE PatchInstrs(i)
    <2>1. CASE UNCHANGED ptraceVars /\ FailRaw(i)
      <3>1. Phase(i, v) => Phase(i, v)'
        BY <1>0, <1>11, <2>1 DEF PatchInstrs, FailRaw, Phase, Intact, TypeOK
      <3> QED BY <1>0, <1>11, <2>1, <3>1, InsideStep DEF PatchInstrs, FailRaw
    <2>2. CASE PatchText(i, v) /\ Call(i, "mmap")
      <3>1. Phase(i, v) => Phase(i, v)'
        BY <1>0, <1>11, <2>2
        DEF PatchInstrs, PatchText, Call, Phase, Intact, Original, TypeOK, PtraceTypeOK
      <3>2. /\ \A j \in Insts \ {i} : saved'[j] = saved[j]
            /\ \A w \in Vms \ {v} : text'[w] = text[w]
        BY <2>2 DEF PatchText, TypeOK, PtraceTypeOK
      <3> QED BY <1>0, <1>11, <2>2, <3>1, <3>2, InsideStep DEF PatchInstrs, PatchText, Call
    <2> QED BY <1>11, <2>1, <2>2 DEF PatchInstrs
  <1>12. CASE StartCall(i)
    <2>1. CASE PtraceWorks(i, v)
      <3>1. Phase(i, v) => Phase(i, v)'
        BY <1>0, <1>12, <2>1
        DEF StartCall, Goto, SetRegsAndCont, Phase, Intact, TypeOK, PtraceTypeOK
      <3>2. \A w \in Vms \ {v} : run'[w] = run[w] /\ regs'[w] = regs[w]
        BY <1>12, <2>1 DEF StartCall, SetRegsAndCont, TypeOK, PtraceTypeOK
      <3>3. Alive(v)
        BY <2>1 DEF PtraceWorks
      <3> QED BY <1>0, <1>12, <2>1, <3>1, <3>2, <3>3, InsideStep DEF StartCall, Goto, SetRegsAndCont
    <2>2. CASE ~PtraceWorks(i, v)
      <3>1. Alive(v) /\ ~spoiled[v] => ~Phase(i, v)
        BY <1>0, <1>12, <2>2 DEF StartCall, PtraceWorks, Phase, SessionInv
      <3>2. PICK l \in {"call", "poke_names", "poke_fds", "restore_text"} :
              pc' = [pc EXCEPT ![i] = l]
        BY <1>12, <2>2, AfterCallPc DEF StartCall
      <3> QED BY <1>0, <1>12, <2>2, <3>1, <3>2, InsideStep DEF StartCall
    <2> QED BY <2>1, <2>2
  <1>13. CASE FinishCall(i)
    <2>1. PICK l \in {"call", "poke_names", "poke_fds", "restore_text"} :
            pc' = [pc EXCEPT ![i] = l]
      BY <1>13, AfterCallPc DEF FinishCall
    <2>2. Alive(v) /\ Phase(i, v) => Phase(i, v)'
      BY <1>0, <1>13, <2>1 DEF FinishCall, WaitReturns, Phase, Intact, TypeOK
    <2> QED BY <1>0, <1>13, <2>1, <2>2, InsideStep DEF FinishCall
  <1>14. CASE PokeNames(i)
    <2>1. PICK l \in {"call", "restore_text"} : pc' = [pc EXCEPT ![i] = l]
      BY <1>14 DEF PokeNames, Call, Unwind
    <2>2. Phase(i, v) => Phase(i, v)'
      BY <1>0, <1>14, <2>1 DEF PokeNames, Phase, Intact, TypeOK
    <2> QED BY <1>0, <1>14, <2>1, <2>2, InsideStep DEF PokeNames
  <1>15. CASE PokeFds(i)
    <2>1. PICK l \in {"call", "restore_text"} : pc' = [pc EXCEPT ![i] = l]
      BY <1>15 DEF PokeFds, Call, Unwind
    <2>2. Phase(i, v) => Phase(i, v)'
      BY <1>0, <1>15, <2>1 DEF PokeFds, Phase, Intact, TypeOK
    <2> QED BY <1>0, <1>15, <2>1, <2>2, InsideStep DEF PokeFds
  <1>16. CASE DropText(i)
    <2>1. Alive(v) /\ Phase(i, v) => Phase(i, v)'
      BY <1>0, <1>16
      DEF DropText, Goto, RestoreText, Phase, Intact, Original, TypeOK, PtraceTypeOK
    <2>2. PICK l \in {"restore_regs", "detach"} : pc' = [pc EXCEPT ![i] = l]
      BY <1>16 DEF DropText, Goto
    <2>3. \A w \in Vms \ {v} : run'[w] = run[w] /\ text'[w] = text[w] /\ regs'[w] = regs[w]
      BY <1>16 DEF DropText, RestoreText, TypeOK, PtraceTypeOK
    <2>4. UNCHANGED <<tracer, run, saved, spoiled>>
      BY <1>16 DEF DropText, RestoreText
    <2> QED BY <1>0, <1>16, <2>1, <2>2, <2>3, <2>4, InsideStep DEF DropText
  <1>17. CASE DropRegs(i)
    <2>1. Alive(v) /\ ~spoiled[v] /\ Phase(i, v) => Phase(i, v)'
      BY <1>0, <1>17
      DEF DropRegs, Goto, PtraceWorks, RestoreRegs, Phase, Intact, Original, SessionInv,
          TypeOK, PtraceTypeOK
    <2>2. \A w \in Vms \ {v} : run'[w] = run[w] /\ text'[w] = text[w] /\ regs'[w] = regs[w]
      BY <1>17 DEF DropRegs, RestoreRegs, TypeOK, PtraceTypeOK
    <2>3. UNCHANGED <<tracer, run, saved, spoiled>>
      BY <1>17 DEF DropRegs, RestoreRegs
    <2> QED BY <1>0, <1>17, <2>1, <2>2, <2>3, InsideStep DEF DropRegs, Goto
  <1> USE DEF TypeOK, PtraceTypeOK
  <1>7. CASE RawAttach(i)
    <2>1. CASE UNCHANGED ptraceVars /\ ReturnErr(i)
      BY <1>7, <2>1, OutsideStep DEF RawAttach, ReturnErr
    <2>2. CASE PtraceAttach(i, v) /\ Goto(i, "stop")
      <3>1. tracer[v] = NoInst /\ tracer' = [tracer EXCEPT ![v] = i] /\ pc' = [pc EXCEPT ![i] = "stop"]
        BY <2>2 DEF PtraceAttach, CanAttach, Goto
      <3>2. UNCHANGED <<run, text, regs, saved, spoiled>>
        BY <1>7, <2>2 DEF PtraceAttach, RawAttach
      <3>3. \A w \in Vms : tracer'[w] # NoInst => Target[tracer'[w]] = w
        BY <1>0, <3>1 DEF SessionInv
      <3>4. \A j \in Insts : pc'[j] \in SessionPcs => tracer'[Target[j]] = j
        BY <1>0, <3>1 DEF SessionInv
      <3>5. ASSUME NEW w \in Vms, Alive(w)', ~spoiled'[w]
            PROVE  IF tracer'[w] = NoInst
                   THEN Intact(w)'
                   ELSE pc'[tracer'[w]] \in SessionPcs /\ Phase(tracer[w], w)'
        <4>1. CASE w = v
          BY <1>0, <3>1, <3>2, <3>5, <4>1 DEF SessionInv, Phase, Intact
        <4>2. CASE w # v
          <5>1. tracer'[w] = tracer[w] /\ (tracer[w] # NoInst => tracer[w] # i)
            BY <3>1, <4>2 DEF SessionInv
          <5> QED BY <3>1, <3>2, <3>5, <4>2, <5>1 DEF SessionInv, Phase, Intact
        <4> QED BY <4>1, <4>2
      <3> QED BY <3>3, <3>4, <3>5 DEF SessionInv
    <2> QED BY <1>7, <2>1, <2>2 DEF RawAttach
  <1>18. CASE DropRaw(i)
    <2>0. tracer[v] = i
      BY <1>18 DEF DropRaw, SessionInv
    <2>1. PICK l \in {"join", "returned"} : pc' = [pc EXCEPT ![i] = l]
      BY <1>18 DEF DropRaw, Goto
    <2>2. UNCHANGED <<text, regs, saved, spoiled>>
      BY <1>18 DEF DropRaw, PtraceDetach
    <2>3. /\ \A w \in Vms \ {v} : tracer'[w] = tracer[w] /\ run'[w] = run[w]
          /\ tracer'[v] \in {i, NoInst}
      BY <1>0, <1>18, <2>0 DEF DropRaw, PtraceDetach, PtraceWorks
    <2>4. ASSUME Alive(v), ~spoiled[v]  PROVE tracer'[v] = NoInst /\ Intact(v)
      <3>1. Phase(i, v)
        BY <1>0, <2>0, <2>4 DEF SessionInv
      <3> QED BY <1>0, <1>18, <2>0, <3>1 DEF DropRaw, PtraceDetach, PtraceWorks, Phase
    <2>5. Alive(v)' => Alive(v)
      BY <1>0, <1>18 DEF DropRaw, PtraceDetach, PtraceWorks
    <2>6. ASSUME NEW w \in Vms, tracer'[w] # NoInst  PROVE Target[tracer'[w]] = w
      <3>1. CASE w = v  BY <2>3, <2>6, <3>1
      <3>2. CASE w # v  BY <2>3, <2>6, <3>2 DEF SessionInv
      <3> QED BY <3>1, <3>2
    <2>7. \A j \in Insts : pc'[j] \in SessionPcs => tracer'[Target[j]] = j
      BY <1>0, <2>0, <2>1, <2>3 DEF SessionInv
    <2>8. ASSUME NEW w \in Vms, Alive(w)', ~spoiled'[w]
          PROVE  IF tracer'[w] = NoInst
                 THEN Intact(w)'
                 ELSE pc'[tracer'[w]] \in SessionPcs /\ Phase(tracer[w], w)'
      <3>1. CASE w = v
        BY <2>2, <2>4, <2>5, <2>8, <3>1 DEF Intact
      <3>2. CASE w # v
        <4>1. tracer'[w] = tracer[w] /\ run'[w] = run[w] /\ (tracer[w] # NoInst => tracer[w] # i)
          BY <2>3, <3>2 DEF SessionInv
        <4> QED BY <2>1, <2>2, <2>8, <3>2, <4>1 DEF SessionInv, Phase, Intact
      <3> QED BY <3>1, <3>2
    <2> QED BY <2>6, <2>7, <2>8 DEF SessionInv
  <1> QED BY <1>1, <1>2, <1>3, <1>4, <1>5, <1>6, <1>7, <1>8, <1>9, <1>10, <1>11,
             <1>12, <1>13, <1>14, <1>15, <1>16, <1>17, <1>18, <1>19 DEF MainStep

\* QEMU's threads keep it: outside calls they run their own code, and inside
\* one only `call rax; int3` can end it.
LEMMA GuestStepSession ==
  ASSUME NEW v \in Vms, TypeOK, SessionInv, GuestStep(v)
  PROVE  SessionInv'
  <1> USE DEF TypeOK, PtraceTypeOK, Alive
  <1>1. /\ run[v] = "running" /\ regs[v].at # "own"
        /\ UNCHANGED <<pc, tracer, spoiled, text, saved>>
        /\ \A w \in Vms \ {v} : run'[w] = run[w] /\ regs'[w] = regs[w]
    <2> USE DEF Executing, GotoRet, mainVars, ptraceVars, faultVars
    <2>1. CASE RunMmap(v)  BY <2>1 DEF RunMmap
    <2>2. CASE RunDlopen(v)  BY <2>2 DEF RunDlopen
    <2>3. CASE RunDlclose(v)  BY <2>3 DEF RunDlclose
    <2>4. CASE RunLookup(v)  BY <2>4 DEF RunLookup
    <2>5. CASE PayloadConnect(v)  BY <2>5 DEF PayloadConnect
    <2>6. CASE PayloadSend(v)  BY <2>6 DEF PayloadSend
    <2>7. CASE PayloadDone(v)  BY <2>7 DEF PayloadDone
    <2>8. CASE ReturnFromCall(v)  BY <2>8 DEF ReturnFromCall, CallReturns
    <2> QED BY <2>1, <2>2, <2>3, <2>4, <2>5, <2>6, <2>7, <2>8 DEF GuestStep
  <1>2. ~Intact(v)
    BY <1>1 DEF Intact, OwnRegs
  <1>3. ASSUME NEW i \in Insts, i = tracer[v], ~spoiled[v], Phase(i, v)
        PROVE  Phase(i, v)'
    <2>1. pc[i] = "await"
      <3>1. pc[i] \in SessionPcs
        BY <1>1, <1>3 DEF SessionInv
      <3> QED BY <1>1, <1>2, <1>3, <3>1 DEF Phase, SessionPcs
    <2> QED BY <1>1, <1>3, <2>1 DEF Phase, Intact
  <1> QED BY <1>1, <1>2, <1>3, EventStep

\* Signals and deaths of QEMU keep it: they end a wait, or the process.
LEMMA SignalStepSession ==
  ASSUME NEW v \in Vms, TypeOK, SessionInv, SendSignal(v) \/ StopOnSignal(v) \/ QemuDies(v)
  PROVE  SessionInv'
  <1> USE DEF TypeOK, PtraceTypeOK, Alive, mainVars, faultVars
  <1>1. CASE SendSignal(v)
    BY <1>1, EventStep DEF SendSignal, SignalArrives, Phase, Intact
  <1>2. CASE StopOnSignal(v)
    <2>1. /\ UNCHANGED <<pc, tracer, spoiled, text, regs, saved>>
          /\ \A w \in Vms \ {v} : run'[w] = run[w]
          /\ run'[v] = "stopped" /\ Alive(v)
      BY <1>2 DEF StopOnSignal, SignalStop
    <2>2. ASSUME NEW i \in Insts, Phase(i, v)  PROVE Phase(i, v)'
      BY <2>1, <2>2 DEF Phase, Intact
    <2> QED BY <2>1, <2>2, EventStep DEF Intact
  <1>3. CASE QemuDies(v)
    <2>1. /\ UNCHANGED <<pc, tracer, spoiled, text, regs, saved>>
          /\ \A w \in Vms \ {v} : run'[w] = run[w]
          /\ ~Alive(v)' /\ Alive(v)
      BY <1>3 DEF QemuDies, Dies
    <2> QED BY <2>1, EventStep DEF Intact
  <1> QED BY <1>1, <1>2, <1>3

\* Interruptions and kills keep it: they spoil the process they happen to.
LEMMA FaultStepSession ==
  ASSUME NEW i \in Insts, TypeOK, SessionInv, WaitInterrupted(i) \/ Killed(i)
  PROVE  SessionInv'
  <1> DEFINE v == Target[i]
  <1>0. v \in Vms  OBVIOUS
  <1> USE DEF TypeOK, PtraceTypeOK, Alive, SessionPcs
  <1>1. CASE WaitInterrupted(i)
    <2>1. PICK l \in {"detach", "call", "poke_names", "poke_fds", "restore_text"} :
            pc' = [pc EXCEPT ![i] = l]
      BY <1>1, AfterCallPc DEF WaitInterrupted, FailRaw
    <2>2. /\ pc[i] \in SessionPcs /\ spoiled' = [spoiled EXCEPT ![v] = TRUE]
          /\ UNCHANGED <<tracer, run, text, regs, saved>>
      BY <1>1 DEF WaitInterrupted, At, ptraceVars
    <2>3. \A w \in Vms : tracer'[w] # NoInst => Target[tracer'[w]] = w
      BY <2>2 DEF SessionInv
    <2>4. \A j \in Insts : pc'[j] \in SessionPcs => tracer'[Target[j]] = j
      BY <2>1, <2>2 DEF SessionInv
    <2>5. ASSUME NEW w \in Vms, Alive(w)', ~spoiled'[w]
          PROVE  IF tracer'[w] = NoInst
                 THEN Intact(w)'
                 ELSE pc'[tracer'[w]] \in SessionPcs /\ Phase(tracer[w], w)'
      <3>1. w # v /\ ~spoiled[w]
        BY <1>0, <2>2, <2>5
      <3>2. tracer[w] # NoInst => tracer[w] # i
        BY <3>1 DEF SessionInv
      <3> QED BY <2>1, <2>2, <2>5, <3>1, <3>2 DEF SessionInv, Phase, Intact
    <2> QED BY <2>3, <2>4, <2>5 DEF SessionInv
  <1>2. CASE Killed(i)
    <2>1. /\ pc' = [pc EXCEPT ![i] = "killed"] /\ UNCHANGED <<text, regs, saved>>
          /\ \A w \in Vms : spoiled'[w] = (spoiled[w] \/ tracer[w] = i)
          /\ \A w \in Vms : tracer'[w] = IF tracer[w] = i THEN NoInst ELSE tracer[w]
          /\ \A w \in Vms : tracer[w] # i => run'[w] = run[w]
      BY <1>2 DEF Killed, TracerGone
    <2>2. \A w \in Vms : tracer'[w] # NoInst => Target[tracer'[w]] = w
      BY <2>1 DEF SessionInv
    <2>3. \A j \in Insts : pc'[j] \in SessionPcs => tracer'[Target[j]] = j
      BY <2>1 DEF SessionInv
    <2>4. ASSUME NEW w \in Vms, Alive(w)', ~spoiled'[w]
          PROVE  IF tracer'[w] = NoInst
                 THEN Intact(w)'
                 ELSE pc'[tracer'[w]] \in SessionPcs /\ Phase(tracer[w], w)'
      <3>1. ~spoiled[w] /\ tracer[w] # i /\ tracer'[w] = tracer[w] /\ run'[w] = run[w]
        BY <2>1, <2>4
      <3> QED BY <2>1, <2>4, <3>1 DEF SessionInv, Phase, Intact
    <2> QED BY <2>2, <2>3, <2>4 DEF SessionInv
  <1> QED BY <1>1, <1>2

\* The session invariant holds initially,
LEMMA InitSession == Init => SessionInv
  BY DEF Init, PtraceInit, SessionInv, SessionPcs, Intact

\* and any step keeps it.
LEMMA NextSession == TypeOK /\ TypeOK' /\ SessionInv /\ [Next]_vars => SessionInv'
  <1> SUFFICES ASSUME TypeOK, TypeOK', SessionInv, [Next]_vars PROVE SessionInv'
    OBVIOUS
  <1>1. CASE UNCHANGED vars
    BY <1>1 DEF vars, ptraceVars, mainVars, faultVars, SessionInv, Phase, Intact, Alive
  <1>2. ASSUME NEW i \in Insts, Listener(i) PROVE SessionInv'
    BY <1>2 DEF Listener, ptraceVars, mainVars, faultVars, SessionInv, Phase, Intact, Alive
  <1>3. CASE Next
    BY <1>2, <1>3, MainStepSession, GuestStepSession, SignalStepSession, FaultStepSession DEF Next
  <1> QED BY <1>1, <1>3

\* Whoever attaches, whatever fails and however the processes interleave, each
\* phase of a session finds its QEMU process as the previous phase left it.
THEOREM SessionCorrect == Spec => []SessionInv
  <1>1. Init => TypeOK /\ SessionInv
    BY InitType, InitSession
  <1>2. TypeOK /\ SessionInv /\ [Next]_vars => TypeOK' /\ SessionInv'
    BY NextType, NextSession
  <1> QED BY <1>1, <1>2, PTL DEF Spec

\* A live QEMU process that no vminer process traces, and whose tracers were
\* neither killed nor interrupted, has its own text and registers.
THEOREM AlwaysRestored == Spec => []Restored
  <1>1. SessionInv => Restored
    BY DEF SessionInv, Restored
  <1> QED BY <1>1, SessionCorrect, PTL

\* When get_regs returns, or waits for its listener thread, its QEMU process
\* is detached, so that it runs again.
THEOREM AlwaysReleased == Spec => []Released
  <1>1. SessionInv => Released
    BY DEF SessionInv, Released, SessionPcs
  <1> QED BY <1>1, SessionCorrect, PTL

\* QEMU only ever runs a remote call over the patched text, and what its
\* tracer saved is the original text and registers.
THEOREM AlwaysCallsOnPatchedText == Spec => []CallsOnPatchedText
  <1>1. TypeOK /\ SessionInv => CallsOnPatchedText
    <2> SUFFICES ASSUME TypeOK, SessionInv, NEW v \in Vms, Alive(v), ~spoiled[v]
                 PROVE  /\ run[v] = "running" /\ regs[v] # OwnRegs => text[v] = "patched"
                        /\ text[v] = "patched" =>
                             tracer[v] # NoInst /\ saved[tracer[v]] = Original
      BY DEF CallsOnPatchedText, Original
    <2>1. CASE tracer[v] = NoInst
      BY <2>1 DEF SessionInv, Intact
    <2>2. CASE tracer[v] # NoInst
      <3>1. pc[tracer[v]] \in SessionPcs /\ Phase(tracer[v], v)
        BY <2>2 DEF SessionInv
      <3> QED BY <2>2, <3>1 DEF Phase, Intact, SessionPcs
    <2> QED BY <2>1, <2>2
  <1> QED BY <1>1, TypeCorrect, SessionCorrect, PTL

-----------------------------------------------------------------------------
(* The lease *)

\* A step that changes nothing the lease speaks of.
LEMMA LeaseStutter ==
  ASSUME UNCHANGED <<tracer, text, regs, spoiled>>, \A v \in Vms : Alive(v)' = Alive(v)
  PROVE  UNCHANGED Lease!leaseVars
  BY DEF Lease!leaseVars, Intact

\* A step that touches one QEMU process, in a way the lease allows.
LEMMA LeaseStepAt ==
  ASSUME NEW v \in Vms,
         \A w \in Vms \ {v} :
           /\ tracer'[w] = tracer[w] /\ text'[w] = text[w] /\ regs'[w] = regs[w]
           /\ spoiled'[w] = spoiled[w] /\ Alive(w)' = Alive(w),
         \/ spoiled'[v] \/ ~Alive(v)'
         \/ /\ ~spoiled[v] /\ Alive(v)
            /\ \/ tracer[v] = NoInst /\ tracer'[v] \in Insts /\ Intact(v) /\ Intact(v)'
               \/ tracer[v] # NoInst /\ tracer'[v] = tracer[v]
               \/ tracer[v] # NoInst /\ tracer'[v] = NoInst /\ Intact(v) /\ Intact(v)'
  PROVE  Lease!LeaseNext
  <1>1. Lease!OthersKept(v)
    BY DEF Lease!OthersKept, Intact
  <1>2. CASE spoiled'[v] \/ ~Alive(v)'
    <2>1. Lease!Lose(v)
      BY <1>1, <1>2 DEF Lease!Lose
    <2> QED BY <2>1 DEF Lease!LeaseNext
  <1>3. CASE ~spoiled'[v] /\ Alive(v)'
    <2>1. Lease!Take(v) \/ Lease!Modify(v) \/ Lease!GiveBack(v)
      BY <1>1, <1>3 DEF Lease!Take, Lease!Modify, Lease!GiveBack
    <2> QED BY <2>1 DEF Lease!LeaseNext
  <1> QED BY <1>2, <1>3

\* A step of a main thread is a step of the lease.
LEMMA MainStepLease ==
  ASSUME NEW i \in Insts, TypeOK, TypeOK', SessionInv, MainStep(i)
  PROVE  Lease!LeaseNext \/ UNCHANGED Lease!leaseVars
  <1> DEFINE v == Target[i]
  <1>0. v \in Vms  OBVIOUS
  <1> USE DEF TypeOK, PtraceTypeOK, Alive, ptraceVars, faultVars
  <1>1. CASE UNCHANGED <<ptraceVars, faultVars>>
    BY <1>1, LeaseStutter
  <1>2. ASSUME pc[i] \in SessionPcs  PROVE tracer[v] = i
    BY <1>2 DEF SessionInv
  <1>3. CASE RawAttach(i)
    <2>1. CASE PtraceAttach(i, v)
      <3>1. ~spoiled[v] => Intact(v)
        BY <1>0, <2>1 DEF PtraceAttach, CanAttach, SessionInv
      <3> QED BY <1>0, <1>3, <2>1, <3>1, LeaseStepAt DEF RawAttach, PtraceAttach, CanAttach, Intact
    <2> QED BY <1>1, <1>3, <2>1 DEF RawAttach
  <1>4. CASE GetRegisters(i)
    BY <1>1, <1>4, LeaseStutter DEF GetRegisters, SaveRegs
  <1>5. CASE PatchInstrs(i)
    <2>1. CASE Alive(v) /\ PatchText(i, v)
      BY <1>0, <1>2, <1>5, <2>1, LeaseStepAt DEF PatchInstrs, PatchText, At, SessionPcs
    <2> QED BY <1>1, <1>5, <2>1 DEF PatchInstrs
  <1>6. CASE StartCall(i)
    <2>1. CASE PtraceWorks(i, v)
      BY <1>0, <1>6, <2>1, LeaseStepAt DEF StartCall, SetRegsAndCont, PtraceWorks
    <2> QED BY <1>1, <1>6, <2>1 DEF StartCall
  <1>7. CASE DropText(i)
    <2>1. CASE Alive(v)
      BY <1>0, <1>2, <1>7, <2>1, LeaseStepAt DEF DropText, RestoreText, At, SessionPcs
    <2> QED BY <1>1, <1>7, <2>1 DEF DropText
  <1>8. CASE DropRegs(i)
    <2>1. CASE PtraceWorks(i, v)
      BY <1>0, <1>8, <2>1, LeaseStepAt DEF DropRegs, RestoreRegs, PtraceWorks
    <2> QED BY <1>1, <1>8, <2>1 DEF DropRegs
  <1>9. CASE DropRaw(i)
    <2>1. CASE PtraceWorks(i, v)
      <3>1. ~spoiled[v] => Intact(v)
        BY <1>0, <1>9, <2>1 DEF DropRaw, PtraceWorks, SessionInv, Phase, At
      <3>2. /\ UNCHANGED <<text, regs, spoiled>> /\ Alive(v) /\ tracer[v] # NoInst
            /\ tracer'[v] = NoInst
            /\ \A w \in Vms \ {v} : tracer'[w] = tracer[w] /\ run'[w] = run[w]
        BY <1>0, <1>9, <2>1 DEF DropRaw, PtraceDetach, PtraceWorks
      <3> QED BY <1>0, <3>1, <3>2, LeaseStepAt DEF Intact
    <2> QED BY <1>1, <1>9, <2>1 DEF DropRaw
  <1>10. CASE \/ GetVcpusFds(i) \/ RemoveFile(i) \/ BindListener(i) \/ SetPermissions(i)
              \/ FindLibs(i) \/ OpenMem(i) \/ WaitStop(i) \/ FindText(i) \/ FinishCall(i)
              \/ PokeNames(i) \/ PokeFds(i) \/ JoinListener(i)
    BY <1>1, <1>10
    DEF GetVcpusFds, RemoveFile, BindListener, SetPermissions, FindLibs, OpenMem, WaitStop,
        FindText, FinishCall, PokeNames, PokeFds, JoinListener
  <1> QED BY <1>3, <1>4, <1>5, <1>6, <1>7, <1>8, <1>9, <1>10 DEF MainStep

\* So is a step of anything else.
LEMMA OtherStepLease ==
  ASSUME NEW i \in Insts, NEW v \in Vms, TypeOK, TypeOK', SessionInv,
         \/ Listener(i) \/ WaitInterrupted(i) \/ Killed(i)
         \/ GuestStep(v) \/ SendSignal(v) \/ StopOnSignal(v) \/ QemuDies(v)
  PROVE  Lease!LeaseNext \/ UNCHANGED Lease!leaseVars
  <1> USE DEF TypeOK, PtraceTypeOK, Alive
  <1>1. CASE Listener(i)
    BY <1>1, LeaseStutter DEF Listener, ptraceVars, faultVars
  <1>2. CASE WaitInterrupted(i)
    <2>1. UNCHANGED <<tracer, text, regs, run>>
      BY <1>2 DEF WaitInterrupted, ptraceVars
    <2>2. /\ Target[i] \in Vms /\ spoiled'[Target[i]]
          /\ \A w \in Vms \ {Target[i]} : spoiled'[w] = spoiled[w]
      BY <1>2 DEF WaitInterrupted
    <2> QED BY <2>1, <2>2, LeaseStepAt
  <1>3. CASE Killed(i)
    <2>1. /\ UNCHANGED <<text, regs>>
          /\ \A w \in Vms : spoiled'[w] = (spoiled[w] \/ tracer[w] = i)
          /\ \A w \in Vms : tracer'[w] = IF tracer[w] = i THEN NoInst ELSE tracer[w]
          /\ \A w \in Vms : Alive(w)' = Alive(w)
      BY <1>3 DEF Killed, TracerGone
    <2>2. \A w \in Vms : tracer[w] = i => w = Target[i]
      BY DEF SessionInv
    <2>3. CASE tracer[Target[i]] = i
      <3>1. /\ Target[i] \in Vms /\ spoiled'[Target[i]]
            /\ \A w \in Vms \ {Target[i]} :
                 tracer'[w] = tracer[w] /\ spoiled'[w] = spoiled[w]
        <4>1. Target[i] \in Vms  OBVIOUS
        <4>2. spoiled'[Target[i]]
          BY <2>1, <2>3, <4>1
        <4>3. ASSUME NEW w \in Vms \ {Target[i]}
              PROVE  tracer'[w] = tracer[w] /\ spoiled'[w] = spoiled[w]
          <5>1. tracer[w] # i  BY <2>2
          <5>2. spoiled[w] \in BOOLEAN  OBVIOUS
          <5> QED BY <2>1, <5>1, <5>2
        <4> QED BY <4>1, <4>2, <4>3
      <3> QED BY <2>1, <3>1, LeaseStepAt
    <2>4. CASE tracer[Target[i]] # i
      <3>1. tracer' = tracer /\ spoiled' = spoiled
        BY <2>1, <2>2, <2>4
      <3> QED BY <2>1, <3>1, LeaseStutter
    <2> QED BY <2>3, <2>4
  <1>4. CASE GuestStep(v)
    <2>1. /\ run[v] = "running" /\ regs[v].at # "own"
          /\ UNCHANGED <<tracer, spoiled, text>>
          /\ \A w \in Vms \ {v} : run'[w] = run[w] /\ regs'[w] = regs[w]
      <3> USE DEF Executing, GotoRet, ptraceVars, faultVars
      <3>1. CASE RunMmap(v)  BY <3>1 DEF RunMmap
      <3>2. CASE RunDlopen(v)  BY <3>2 DEF RunDlopen
      <3>3. CASE RunDlclose(v)  BY <3>3 DEF RunDlclose
      <3>4. CASE RunLookup(v)  BY <3>4 DEF RunLookup
      <3>5. CASE PayloadConnect(v)  BY <3>5 DEF PayloadConnect
      <3>6. CASE PayloadSend(v)  BY <3>6 DEF PayloadSend
      <3>7. CASE PayloadDone(v)  BY <3>7 DEF PayloadDone
      <3>8. CASE ReturnFromCall(v)  BY <3>8 DEF ReturnFromCall, CallReturns
      <3> QED BY <1>4, <3>1, <3>2, <3>3, <3>4, <3>5, <3>6, <3>7, <3>8 DEF GuestStep
    <2>2. ~spoiled[v] => tracer[v] # NoInst
      BY <2>1 DEF SessionInv, Intact, OwnRegs
    <2> QED BY <2>1, <2>2, LeaseStepAt
  <1>5. CASE SendSignal(v)
    BY <1>5, LeaseStutter DEF SendSignal, SignalArrives, faultVars
  <1>6. CASE StopOnSignal(v)
    <2>1. UNCHANGED <<tracer, text, regs, spoiled>> /\ \A w \in Vms : Alive(w)' = Alive(w)
      BY <1>6 DEF StopOnSignal, SignalStop, faultVars
    <2> QED BY <2>1, LeaseStutter
  <1>7. CASE QemuDies(v)
    <2>1. /\ UNCHANGED <<tracer, text, regs, spoiled>> /\ ~Alive(v)'
          /\ \A w \in Vms \ {v} : run'[w] = run[w]
      BY <1>7 DEF QemuDies, Dies
    <2> QED BY <2>1, LeaseStepAt
  <1> QED BY <1>1, <1>2, <1>3, <1>4, <1>5, <1>6, <1>7

\* The attach protocol implements the lease: QEMU is changed by one vminer
\* process at a time, the one that traces it, and given back as it was found.
THEOREM AttachImplementsLease == Spec => ImplementsLease
  <1>1. Init => Lease!LeaseInit
    <2> SUFFICES ASSUME Init PROVE Lease!LeaseInit
      OBVIOUS
    <2>1. \A v \in Vms : Intact(v) = TRUE /\ (spoiled[v] \/ ~Alive(v)) = FALSE
      BY DEF Init, PtraceInit, Intact, Alive
    <2> QED BY <2>1 DEF Init, PtraceInit, Lease!LeaseInit
  <1>2. TypeOK /\ TypeOK' /\ SessionInv /\ [Next]_vars
          => [Lease!LeaseNext]_(Lease!leaseVars)
    <2> SUFFICES ASSUME TypeOK, TypeOK', SessionInv, [Next]_vars
                 PROVE  Lease!LeaseNext \/ UNCHANGED Lease!leaseVars
      OBVIOUS
    <2>1. CASE UNCHANGED vars
      BY <2>1, LeaseStutter DEF vars, ptraceVars, faultVars, Alive
    <2>2. ASSUME NEW i \in Insts, MainStep(i)
          PROVE  Lease!LeaseNext \/ UNCHANGED Lease!leaseVars
      BY <2>2, MainStepLease
    <2>3. ASSUME NEW i \in Insts, Listener(i) \/ WaitInterrupted(i) \/ Killed(i)
          PROVE  Lease!LeaseNext \/ UNCHANGED Lease!leaseVars
      BY <2>3, OtherStepLease, Target[i] \in Vms
    <2>4. ASSUME NEW v \in Vms,
                 GuestStep(v) \/ SendSignal(v) \/ StopOnSignal(v) \/ QemuDies(v)
          PROVE  Lease!LeaseNext \/ UNCHANGED Lease!leaseVars
      <3>1. PICK i \in Insts : TRUE
        BY SomeInst
      <3> QED BY <2>4, <3>1, OtherStepLease
    <2> QED BY <2>1, <2>2, <2>3, <2>4 DEF Next
  <1> QED BY <1>1, <1>2, TypeCorrect, SessionCorrect, PTL DEF Spec, ImplementsLease, Lease!LeaseSpec

-----------------------------------------------------------------------------
(* The payload library *)

\* What changes in a set of owners, and in the references, that keeps at
\* least one reference for each owner.
LEMMA OwnersKept ==
  ASSUME NEW v \in Vms, IsFiniteSet(Owners(v)), Cardinality(Owners(v)) <= libs[v],
         \A j \in Insts : Owner(j, v)' => Owner(j, v),
         libs[v] \in Int, libs'[v] = libs[v]
  PROVE  IsFiniteSet(Owners(v)') /\ Cardinality(Owners(v)') <= libs'[v]
  <1>1. Owners(v)' \subseteq Owners(v)  BY DEF Owners
  <1>2. IsFiniteSet(Owners(v)') /\ Cardinality(Owners(v)') <= Cardinality(Owners(v))
    BY <1>1, FS_Subset
  <1>3. Cardinality(Owners(v)') \in Nat /\ Cardinality(Owners(v)) \in Nat
    BY <1>2, FS_CardinalityType
  <1> QED BY <1>2, <1>3

LEMMA OwnerTaken ==
  ASSUME NEW v \in Vms, NEW m, IsFiniteSet(Owners(v)), Cardinality(Owners(v)) <= libs[v],
         \A j \in Insts : Owner(j, v)' => Owner(j, v) \/ j = m,
         libs[v] \in Int, libs'[v] = libs[v] + 1
  PROVE  IsFiniteSet(Owners(v)') /\ Cardinality(Owners(v)') <= libs'[v]
  <1> DEFINE S == Owners(v) \cup {m}
  <1>1. Owners(v)' \subseteq S  BY DEF Owners
  <1>2. IsFiniteSet(S) /\ (Cardinality(S) = Cardinality(Owners(v)) \/ Cardinality(S) = Cardinality(Owners(v)) + 1)
    BY FS_AddElement
  <1>3. IsFiniteSet(Owners(v)') /\ Cardinality(Owners(v)') <= Cardinality(S)
    BY <1>1, <1>2, FS_Subset
  <1>4. Cardinality(Owners(v)') \in Nat /\ Cardinality(Owners(v)) \in Nat /\ Cardinality(S) \in Nat
    BY <1>2, <1>3, FS_CardinalityType
  <1> QED BY <1>2, <1>3, <1>4

LEMMA OwnerGone ==
  ASSUME NEW v \in Vms, NEW m \in Insts, IsFiniteSet(Owners(v)), Cardinality(Owners(v)) <= libs[v],
         Owner(m, v), \A j \in Insts : Owner(j, v)' => Owner(j, v) /\ j # m,
         libs[v] \in Int, libs'[v] \in {libs[v], libs[v] - 1}
  PROVE  IsFiniteSet(Owners(v)') /\ Cardinality(Owners(v)') <= libs'[v]
  <1> DEFINE S == Owners(v) \ {m}
  <1>1. Owners(v)' \subseteq S /\ m \in Owners(v)  BY DEF Owners
  <1>2. IsFiniteSet(S) /\ Cardinality(S) = Cardinality(Owners(v)) - 1
    BY <1>1, FS_RemoveElement
  <1>3. IsFiniteSet(Owners(v)') /\ Cardinality(Owners(v)') <= Cardinality(S)
    BY <1>1, <1>2, FS_Subset
  <1>4. Cardinality(Owners(v)') \in Nat /\ Cardinality(Owners(v)) \in Nat /\ Cardinality(S) \in Nat
    BY <1>2, <1>3, FS_CardinalityType
  <1> QED BY <1>2, <1>3, <1>4

\* A step of i that leaves the calls of the QEMU threads alone.
LEMMA MoveKeepsLibrary ==
  ASSUME NEW i \in Insts, TypeOK, LibraryInv, UNCHANGED <<regs, libs>>,
         \A k \in Insts : saved'[k].regs = saved[k].regs,
         \A k \in Insts \ {i} : pc'[k] = pc[k] /\ callee'[k] = callee[k] /\ handle'[k] = handle[k],
         \A k \in Insts \ {i} : pc[k] \in SavedPcs \cup {"save"} => run'[Target[k]] = run[Target[k]],
         HandleKept(i)', CallsKnown(i)',
         pc'[i] \in SavedPcs => pc[i] \in SavedPcs \/ \A j \in Insts : ~Closes(saved[i].regs, j),
         pc'[i] # "await",
         handle'[i] \/ CallsDlclose(i)' => handle[i] \/ CallsDlclose(i) \/ Opened(i),
         handle'[i] \/ CallsDlclose(i)' => \A v \in Vms : ~ClosePending(i, v)
  PROVE  LibraryInv'
  <1>1. ASSUME NEW k \in Insts \ {i} PROVE HandleKept(k)' /\ CallsKnown(k)'
    <2>1. HandleKept(k) /\ CallsKnown(k)  BY DEF LibraryInv
    <2>2. HandleKept(k)'  BY <2>1 DEF HandleKept
    <2>3. CallsKnown(k)'  BY <2>1 DEF CallsKnown
    <2> QED BY <2>2, <2>3
  <1>2. ASSUME NEW j \in Insts, NEW v \in Vms, ClosePending(j, v)' PROVE ClosePending(j, v)
    BY <1>2 DEF ClosePending, Closes
  <1>3. ASSUME NEW j \in Insts, NEW v \in Vms, Owner(j, v)' PROVE Owner(j, v)
    <2>1. CASE j = i
      BY <1>2, <1>3, <2>1 DEF Owner, Opened
    <2>2. CASE j # i
      BY <1>2, <1>3, <2>2 DEF Owner, Opened, CallsDlclose
    <2> QED BY <2>1, <2>2
  <1>4. ASSUME NEW j \in Insts, NEW v \in Vms, ClosePending(j, v)'
        PROVE  ~handle'[j] /\ ~CallsDlclose(j)'
    <2>1. ClosePending(j, v) /\ ~handle[j] /\ ~CallsDlclose(j)  BY <1>2, <1>4 DEF LibraryInv
    <2>2. CASE j = i  BY <2>1, <2>2
    <2>3. CASE j # i  BY <2>1, <2>3 DEF CallsDlclose
    <2> QED BY <2>2, <2>3
  <1>5. \A v \in Vms : (regs[v].by # NoInst => Target[regs[v].by] = v)'  BY DEF LibraryInv
  <1>6. ASSUME NEW v \in Vms PROVE IsFiniteSet(Owners(v)') /\ Cardinality(Owners(v)') <= libs'[v]
    BY <1>3, OwnersKept DEF LibraryInv, TypeOK
  <1> QED BY <1>1, <1>4, <1>5, <1>6 DEF LibraryInv

\* Such a step that goes to l and leaves the handle alone.
LEMMA PlainMove ==
  ASSUME NEW i \in Insts, NEW l \in PcStates \ {"await"}, TypeOK, LibraryInv,
         UNCHANGED <<regs, libs, handle>>,
         \A k \in Insts : saved'[k].regs = saved[k].regs,
         pc' = [pc EXCEPT ![i] = l],
         \A k \in Insts \ {i} : callee'[k] = callee[k],
         \A k \in Insts \ {i} : pc[k] \in SavedPcs \cup {"save"} => run'[Target[k]] = run[Target[k]],
         l = "call" => callee'[i] # "dlclose" /\ (callee'[i] \in {"dlsym", "payload"} => handle[i]),
         l = "poke_fds" => handle[i],
         l \in EarlyPcs => pc[i] \in EarlyPcs,
         l \in SavedPcs => pc[i] \in SavedPcs,
         l \in SavedPcs \cup {"save"} => run'[Target[i]] \in {"stopped", "dead"} \/ regs[Target[i]].by = i
  PROVE  LibraryInv'
  <1>1. pc'[i] = l /\ \A k \in Insts \ {i} : pc'[k] = pc[k] /\ callee'[k] = callee[k] /\ handle'[k] = handle[k]
    BY DEF TypeOK
  <1>2. HandleKept(i) /\ CallsKnown(i)  BY DEF LibraryInv
  <1>3. HandleKept(i)'  BY <1>1, <1>2 DEF HandleKept
  <1>4. CallsKnown(i)'  BY <1>1, <1>2 DEF CallsKnown
  <1>5. ~CallsDlclose(i)'  BY <1>1 DEF CallsDlclose
  <1>6. handle[i] => \A v \in Vms : ~ClosePending(i, v)  BY DEF LibraryInv
  <1> QED BY <1>1, <1>3, <1>4, <1>5, <1>6, MoveKeepsLibrary

\* The unwinding of attach turns the handle into a call of dlclose.
LEMMA UnwindMove ==
  ASSUME NEW i \in Insts, NEW r, TypeOK, LibraryInv, UNCHANGED <<regs, libs, saved, run>>,
         Unwind(i, r), pc[i] \in SavedPcs \ EarlyPcs
  PROVE  LibraryInv'
  <1>1. CASE handle[i]
    <2>1. /\ pc'[i] = "call" /\ callee'[i] = "dlclose" /\ ~handle'[i]
          /\ \A k \in Insts \ {i} : pc'[k] = pc[k] /\ callee'[k] = callee[k] /\ handle'[k] = handle[k]
      BY <1>1 DEF Unwind, TypeOK
    <2>2. HandleKept(i) /\ CallsKnown(i)  BY DEF LibraryInv
    <2>3. HandleKept(i)'  BY <2>1 DEF HandleKept
    <2>4. CallsKnown(i)'  BY <2>1, <2>2 DEF CallsKnown, SavedPcs, EarlyPcs
    <2>5. \A v \in Vms : ~ClosePending(i, v)  BY <1>1 DEF LibraryInv
    <2> QED BY <1>1, <2>1, <2>3, <2>4, <2>5, MoveKeepsLibrary
  <1>2. CASE ~handle[i]
    <2>1. pc' = [pc EXCEPT ![i] = "restore_text"] /\ UNCHANGED <<callee, handle>>
      BY <1>2 DEF Unwind
    <2>2. CallsKnown(i)  BY DEF LibraryInv
    <2>3. run[Target[i]] \in {"stopped", "dead"} \/ regs[Target[i]].by = i  BY <2>2 DEF CallsKnown
    <2> QED BY <2>1, <2>3, PlainMove DEF PcStates, SavedPcs, EarlyPcs
  <1> QED BY <1>1, <1>2

\* The handle that dlopen returned is not one that somebody is giving up.
LEMMA ArmMove ==
  ASSUME NEW i \in Insts, TypeOK, SessionInv, LibraryInv, UNCHANGED <<regs, libs, saved, run>>,
         ArmDlclose(i), pc[i] = "await", callee[i] = "dlopen",
         regs[Target[i]].at = "trap", regs[Target[i]].rv = "ok"
  PROVE  LibraryInv'
  <1>1. /\ pc'[i] = "call" /\ callee'[i] = "dlsym" /\ handle'[i]
        /\ \A k \in Insts \ {i} : pc'[k] = pc[k] /\ callee'[k] = callee[k] /\ handle'[k] = handle[k]
    BY DEF ArmDlclose, TypeOK
  <1>2. HandleKept(i) /\ CallsKnown(i)  BY DEF LibraryInv
  <1>3. HandleKept(i)'  BY <1>1 DEF HandleKept
  <1>4. CallsKnown(i)'  BY <1>1, <1>2 DEF CallsKnown, SavedPcs, EarlyPcs
  <1>5. ASSUME NEW v \in Vms, ClosePending(i, v) PROVE FALSE
    <2>1. CASE Closes(regs[v], i)
      <3>1. regs[v].by = i /\ regs[v].fun = "dlclose"  BY <2>1 DEF Closes
      <3>2. Target[i] = v  BY <3>1 DEF LibraryInv
      <3> QED BY <1>2, <3>1, <3>2 DEF CallsKnown
    <2>2. ASSUME NEW k \in Insts, Target[k] = v, pc[k] \in SavedPcs, Closes(saved[k].regs, i) PROVE FALSE
      <3>1. saved[k].regs.by = i  BY <2>2 DEF Closes
      <3>2. Target[i] = v /\ k # i  BY <2>2, <3>1 DEF LibraryInv, CallsKnown
      <3>3. tracer[Target[i]] = i /\ tracer[Target[k]] = k
        BY <2>2 DEF SessionInv, SessionPcs, SavedPcs
      <3> QED BY <2>2, <3>2, <3>3
    <2> QED BY <1>5, <2>1, <2>2 DEF ClosePending
  <1>6. Opened(i)  BY DEF Opened
  <1> QED BY <1>1, <1>3, <1>4, <1>5, <1>6, MoveKeepsLibrary DEF SavedPcs

\* What attach does after a remote call.
LEMMA AfterCallLibrary ==
  ASSUME NEW i \in Insts, NEW o, TypeOK, SessionInv, LibraryInv, UNCHANGED <<regs, libs, saved, run>>,
         AfterCall(i, o), pc[i] \in {"call", "await"},
         o = "ok" => pc[i] = "await" /\ regs[Target[i]].at = "trap" /\ regs[Target[i]].rv = "ok"
  PROVE  LibraryInv'
  <1> USE DEF PcStates, SavedPcs, EarlyPcs
  <1>1. HandleKept(i) /\ CallsKnown(i)  BY DEF LibraryInv
  <1>2. run[Target[i]] \in {"stopped", "dead"} \/ regs[Target[i]].by = i  BY <1>1 DEF CallsKnown
  <1>3. CASE Goto(i, "poke_names") \/ Goto(i, "restore_text")
    BY <1>2, <1>3, PlainMove DEF Goto
  <1>4. CASE callee[i] = "dlsym" /\ Goto(i, "poke_fds")
    <2>1. handle[i]  BY <1>1, <1>4 DEF HandleKept
    <2> QED BY <1>2, <1>4, <2>1, PlainMove DEF Goto
  <1>5. CASE Call(i, "errno") \/ Call(i, "dlerror")
    <2>1. callee'[i] \in {"errno", "dlerror"} /\ \A k \in Insts \ {i} : callee'[k] = callee[k]
      BY <1>5 DEF Call, TypeOK
    <2> QED BY <1>2, <1>5, <2>1, PlainMove DEF Call
  <1>6. CASE Unwind(i, "ok") \/ Unwind(i, "err")
    BY <1>6, UnwindMove
  <1>7. CASE callee[i] = "dlopen" /\ o = "ok" /\ ArmDlclose(i)
    BY <1>7, ArmMove
  <1> QED BY <1>3, <1>4, <1>5, <1>6, <1>7 DEF AfterCall

\* PTRACE_GETREGSET: i saves registers of a call that is not its own.
LEMMA SaveLibrary ==
  ASSUME NEW i \in Insts, TypeOK, LibraryInv, pc[i] = "save", PtraceWorks(i, Target[i]),
         GetRegisters(i)
  PROVE  LibraryInv'
  <1> DEFINE v == Target[i]
  <1>0. v \in Vms  OBVIOUS
  <1>1. /\ pc'[i] = "text" /\ \A k \in Insts \ {i} : pc'[k] = pc[k] /\ saved'[k] = saved[k]
        /\ saved'[i].regs = regs[v] /\ UNCHANGED <<regs, run, libs, callee, handle>>
    BY DEF GetRegisters, Goto, SaveRegs, loadVars, TypeOK, PtraceTypeOK
  <1>2. HandleKept(i) /\ CallsKnown(i)  BY DEF LibraryInv
  <1>3. regs[v].by # i /\ (regs[v].by # NoInst => Target[regs[v].by] = v)
    BY <1>0, <1>2 DEF LibraryInv, CallsKnown, EarlyPcs
  <1>4. HandleKept(i)'  BY <1>1 DEF HandleKept
  <1>5. CallsKnown(i)'
    BY <1>0, <1>1, <1>2, <1>3 DEF CallsKnown, EarlyPcs, SavedPcs
  <1>6. ASSUME NEW k \in Insts \ {i} PROVE HandleKept(k)' /\ CallsKnown(k)'
    <2>1. HandleKept(k) /\ CallsKnown(k)  BY DEF LibraryInv
    <2>2. HandleKept(k)'  BY <1>1, <2>1 DEF HandleKept
    <2>3. pc[k] \in EarlyPcs => regs[v].by # k  BY <1>0, <2>1 DEF CallsKnown
    <2>4. CallsKnown(k)'  BY <1>1, <2>1, <2>3 DEF CallsKnown
    <2> QED BY <2>2, <2>4
  <1>7. ASSUME NEW j \in Insts, NEW w \in Vms, ClosePending(j, w)' PROVE ClosePending(j, w)
    BY <1>1, <1>7 DEF ClosePending, Closes
  <1>8. \A j \in Insts : CallsDlclose(j)' => CallsDlclose(j)  BY <1>1 DEF CallsDlclose
  <1>9. \A j \in Insts, w \in Vms : Owner(j, w)' => Owner(j, w)
    BY <1>1, <1>7, <1>8 DEF Owner, Opened
  <1>10. \A w \in Vms : IsFiniteSet(Owners(w)') /\ Cardinality(Owners(w)') <= libs'[w]
    BY <1>1, <1>9, OwnersKept DEF LibraryInv, TypeOK
  <1>11. \A j \in Insts, w \in Vms : ClosePending(j, w)' => ~handle'[j] /\ ~CallsDlclose(j)'
    BY <1>1, <1>7, <1>8 DEF LibraryInv
  <1>12. \A w \in Vms : (regs[w].by # NoInst => Target[regs[w].by] = w)'  BY <1>1 DEF LibraryInv
  <1> QED BY <1>4, <1>5, <1>6, <1>10, <1>11, <1>12 DEF LibraryInv

\* Only one session stands between its attach and its detach on a process.
LEMMA AloneInSession ==
  ASSUME NEW i \in Insts, NEW k \in Insts, SessionInv, pc[i] \in SessionPcs, pc[k] \in SessionPcs,
         Target[k] = Target[i]
  PROVE  k = i
  BY DEF SessionInv

\* do_funcall: the registers of the last call give way to those of the next.
LEMMA StartLibrary ==
  ASSUME NEW i \in Insts, TypeOK, SessionInv, LibraryInv, PtraceWorks(i, Target[i]), StartCall(i)
  PROVE  LibraryInv'
  <1> DEFINE v == Target[i]
             f == callee[i]
  <1>0. v \in Vms  OBVIOUS
  <1>1. /\ pc[i] = "call" /\ pc'[i] = "await" /\ \A k \in Insts \ {i} : pc'[k] = pc[k]
        /\ regs'[v] = CallRegs(i, f) /\ \A w \in Vms \ {v} : regs'[w] = regs[w] /\ run'[w] = run[w]
        /\ UNCHANGED <<saved, libs, callee, handle>>
    BY <1>0 DEF StartCall, At, Goto, SetRegsAndCont, loadVars, TypeOK, PtraceTypeOK
  <1>2. regs'[v].at = "entry" /\ regs'[v].fun = f /\ regs'[v].by = i
    BY <1>1 DEF CallRegs
  <1>3. HandleKept(i) /\ CallsKnown(i)  BY DEF LibraryInv
  <1>4. HandleKept(i)'  BY <1>1, <1>3 DEF HandleKept
  <1>5. CallsKnown(i)'
    BY <1>0, <1>1, <1>2, <1>3 DEF CallsKnown, EarlyPcs, SavedPcs
  <1>6. \A k \in Insts \ {i} : pc[k] \in SavedPcs \cup {"save"} => Target[k] # v
    BY <1>1, AloneInSession DEF SessionPcs, SavedPcs
  <1>7. ASSUME NEW k \in Insts \ {i} PROVE HandleKept(k)' /\ CallsKnown(k)'
    <2>1. HandleKept(k) /\ CallsKnown(k)  BY DEF LibraryInv
    <2>2. HandleKept(k)'  BY <1>1, <2>1 DEF HandleKept
    <2>3. \A w \in Vms : pc[k] \in EarlyPcs => regs'[w].by # k
      BY <1>1, <1>2, <2>1 DEF CallsKnown
    <2>4. pc[k] \in SavedPcs \cup {"save"} =>
            regs'[Target[k]] = regs[Target[k]] /\ run'[Target[k]] = run[Target[k]]
      BY <1>1, <1>6
    <2>5. CallsKnown(k)'  BY <1>1, <2>1, <2>3, <2>4 DEF CallsKnown, SavedPcs
    <2> QED BY <2>2, <2>5
  <1>8. ASSUME NEW j \in Insts, NEW w \in Vms, ClosePending(j, w)'
        PROVE  ClosePending(j, w) \/ (j = i /\ w = v /\ f = "dlclose")
    <2>1. CASE w = v
      BY <1>1, <1>2, <1>8, <2>1 DEF ClosePending, Closes, SavedPcs
    <2>2. CASE w # v
      BY <1>1, <1>8, <2>2 DEF ClosePending, Closes, SavedPcs
    <2> QED BY <2>1, <2>2
  <1>9. \A j \in Insts : CallsDlclose(j)' => CallsDlclose(j)  BY <1>1 DEF CallsDlclose
  <1>10. ~CallsDlclose(i)'  BY <1>1 DEF CallsDlclose
  <1>11. f = "dlclose" => CallsDlclose(i) /\ ~handle[i]  BY <1>1, <1>3 DEF CallsDlclose, HandleKept
  <1>12. ASSUME NEW j \in Insts, Opened(j)' PROVE Opened(j)
    <2>1. CASE j = i  BY <1>2, <1>12, <2>1 DEF Opened
    <2>2. CASE j # i
      BY <1>0, <1>1, <1>6, <1>12, <2>2 DEF Opened, SavedPcs
    <2> QED BY <2>1, <2>2
  <1>13. \A j \in Insts, w \in Vms : Owner(j, w)' => Owner(j, w)
    BY <1>1, <1>8, <1>9, <1>11, <1>12 DEF Owner
  <1>14. \A w \in Vms : IsFiniteSet(Owners(w)') /\ Cardinality(Owners(w)') <= libs'[w]
    BY <1>1, <1>13, OwnersKept DEF LibraryInv, TypeOK
  <1>15. \A j \in Insts, w \in Vms : ClosePending(j, w)' => ~handle'[j] /\ ~CallsDlclose(j)'
    BY <1>1, <1>8, <1>9, <1>10, <1>11 DEF LibraryInv
  <1>16. \A w \in Vms : (regs[w].by # NoInst => Target[regs[w].by] = w)'
    BY <1>1, <1>2 DEF LibraryInv
  <1> QED BY <1>4, <1>5, <1>7, <1>14, <1>15, <1>16 DEF LibraryInv

\* Tracee::drop: the registers that were found are back.
LEMMA RestoreLibrary ==
  ASSUME NEW i \in Insts, TypeOK, SessionInv, LibraryInv, PtraceWorks(i, Target[i]), DropRegs(i)
  PROVE  LibraryInv'
  <1> DEFINE v == Target[i]
  <1>0. v \in Vms  OBVIOUS
  <1>1. /\ pc[i] = "restore_regs" /\ pc'[i] = "detach" /\ \A k \in Insts \ {i} : pc'[k] = pc[k]
        /\ regs'[v] = saved[i].regs /\ \A w \in Vms \ {v} : regs'[w] = regs[w]
        /\ UNCHANGED <<run, saved, libs, callee, handle>>
    BY <1>0 DEF DropRegs, At, Goto, RestoreRegs, loadVars, TypeOK, PtraceTypeOK
  <1>3. HandleKept(i) /\ CallsKnown(i)  BY DEF LibraryInv
  <1>4. HandleKept(i)'  BY <1>1, <1>3 DEF HandleKept
  <1>5. CallsKnown(i)'
    BY <1>0, <1>1, <1>3 DEF CallsKnown, EarlyPcs, SavedPcs
  <1>6. \A k \in Insts \ {i} : pc[k] \in SavedPcs \cup {"save"} => Target[k] # v
    BY <1>1, AloneInSession DEF SessionPcs, SavedPcs
  <1>7. ASSUME NEW k \in Insts \ {i} PROVE HandleKept(k)' /\ CallsKnown(k)'
    <2>1. HandleKept(k) /\ CallsKnown(k)  BY DEF LibraryInv
    <2>2. HandleKept(k)'  BY <1>1, <2>1 DEF HandleKept
    <2>3. \A w \in Vms : pc[k] \in EarlyPcs => regs'[w].by # k
      BY <1>1, <2>1 DEF CallsKnown
    <2>4. pc[k] \in SavedPcs \cup {"save"} => regs'[Target[k]] = regs[Target[k]]
      BY <1>1, <1>6
    <2>5. CallsKnown(k)'  BY <1>1, <2>1, <2>3, <2>4 DEF CallsKnown, SavedPcs
    <2> QED BY <2>2, <2>5
  <1>8. ASSUME NEW j \in Insts, NEW w \in Vms, ClosePending(j, w)' PROVE ClosePending(j, w)
    <2>1. CASE w = v
      BY <1>1, <1>8, <2>1 DEF ClosePending, Closes, SavedPcs
    <2>2. CASE w # v
      BY <1>1, <1>8, <2>2 DEF ClosePending, Closes, SavedPcs
    <2> QED BY <2>1, <2>2
  <1>9. \A j \in Insts : CallsDlclose(j)' => CallsDlclose(j)  BY <1>1 DEF CallsDlclose
  <1>12. ASSUME NEW j \in Insts, Opened(j)' PROVE Opened(j)
    <2>1. CASE j = i  BY <1>1, <1>12, <2>1 DEF Opened
    <2>2. CASE j # i
      BY <1>0, <1>1, <1>6, <1>12, <2>2 DEF Opened, SavedPcs
    <2> QED BY <2>1, <2>2
  <1>13. \A j \in Insts, w \in Vms : Owner(j, w)' => Owner(j, w)
    BY <1>1, <1>8, <1>9, <1>12 DEF Owner
  <1>14. \A w \in Vms : IsFiniteSet(Owners(w)') /\ Cardinality(Owners(w)') <= libs'[w]
    BY <1>1, <1>13, OwnersKept DEF LibraryInv, TypeOK
  <1>15. \A j \in Insts, w \in Vms : ClosePending(j, w)' => ~handle'[j] /\ ~CallsDlclose(j)'
    BY <1>1, <1>8, <1>9 DEF LibraryInv
  <1>16. \A w \in Vms : (regs[w].by # NoInst => Target[regs[w].by] = w)'
    BY <1>1, <1>3 DEF LibraryInv, CallsKnown, SavedPcs
  <1> QED BY <1>4, <1>5, <1>7, <1>14, <1>15, <1>16 DEF LibraryInv

\* The main threads keep the invariant of the library.
LEMMA MainStepLibrary ==
  ASSUME NEW i \in Insts, TypeOK, SessionInv, LibraryInv, MainStep(i)
  PROVE  LibraryInv'
  <1> DEFINE v == Target[i]
  <1>0. v \in Vms /\ HandleKept(i) /\ CallsKnown(i)  BY DEF LibraryInv
  <1> USE DEF PcStates, SavedPcs, EarlyPcs, At, ptraceVars, loadVars
  <1>1. CASE GetVcpusFds(i) \/ RemoveFile(i) \/ BindListener(i) \/ SetPermissions(i) \/ FindLibs(i) \/ OpenMem(i)
    <2>1. PICK l \in {"unlink", "bind", "chmod", "libs", "open", "ptrace", "returned"} :
            pc' = [pc EXCEPT ![i] = l]
      BY <1>1 DEF GetVcpusFds, RemoveFile, BindListener, SetPermissions, FindLibs, OpenMem, Goto, ReturnErr
    <2>2. /\ UNCHANGED <<regs, run, saved, libs, callee, handle>>
          /\ pc[i] \in {"fds", "unlink", "bind", "chmod", "libs", "open"}
      BY <1>1 DEF GetVcpusFds, RemoveFile, BindListener, SetPermissions, FindLibs, OpenMem, Goto, ReturnErr
    <2> QED BY <2>1, <2>2, PlainMove
  <1>2. CASE RawAttach(i)
    <2>1. PICK l \in {"stop", "returned"} : pc' = [pc EXCEPT ![i] = l]
      BY <1>2 DEF RawAttach, Goto, ReturnErr
    <2>2. UNCHANGED <<regs, run, saved, libs, callee, handle>> /\ pc[i] = "ptrace"
      BY <1>2 DEF RawAttach, Goto, ReturnErr, PtraceAttach
    <2> QED BY <2>1, <2>2, PlainMove
  <1>3. CASE WaitStop(i)
    <2>1. /\ UNCHANGED <<regs, run, saved, libs, callee, handle>> /\ pc[i] = "stop"
          /\ pc' = [pc EXCEPT ![i] = "save"] /\ run[v] \in {"stopped", "dead"}
      BY <1>3 DEF WaitStop, Goto, WaitReturns
    <2> QED BY <2>1, PlainMove
  <1>4. CASE GetRegisters(i)
    <2>1. CASE PtraceWorks(i, v)  BY <1>4, <2>1, SaveLibrary DEF GetRegisters
    <2>2. CASE ~PtraceWorks(i, v)
      BY <1>4, <2>2, PlainMove DEF GetRegisters, FailRaw
    <2> QED BY <2>1, <2>2
  <1>5. CASE FindText(i)
    <2>1. PICK l \in {"patch", "detach"} : pc' = [pc EXCEPT ![i] = l]
      BY <1>5 DEF FindText, Goto, FailRaw
    <2>2. UNCHANGED <<regs, run, saved, libs, callee, handle>> /\ pc[i] = "text"
      BY <1>5 DEF FindText, Goto, FailRaw
    <2>3. run[v] \in {"stopped", "dead"} \/ regs[v].by = i  BY <1>0, <2>2 DEF CallsKnown
    <2> QED BY <2>1, <2>2, <2>3, PlainMove
  <1>6. CASE PatchInstrs(i)
    <2>1. CASE UNCHANGED ptraceVars /\ FailRaw(i)
      BY <1>6, <2>1, PlainMove DEF PatchInstrs, FailRaw
    <2>2. CASE PatchText(i, v) /\ Call(i, "mmap")
      <3>1. /\ pc' = [pc EXCEPT ![i] = "call"] /\ UNCHANGED <<regs, run, libs, handle>> /\ pc[i] = "patch"
            /\ callee'[i] = "mmap" /\ \A k \in Insts \ {i} : callee'[k] = callee[k]
        BY <1>6, <2>2 DEF PatchInstrs, PatchText, Call, TypeOK
      <3>2. \A k \in Insts : saved'[k].regs = saved[k].regs
        BY <2>2 DEF PatchText, TypeOK, PtraceTypeOK
      <3>3. run[v] \in {"stopped", "dead"} \/ regs[v].by = i  BY <1>0, <3>1 DEF CallsKnown
      <3> QED BY <3>1, <3>2, <3>3, PlainMove
    <2> QED BY <1>6, <2>1, <2>2 DEF PatchInstrs
  <1>7. CASE StartCall(i)
    <2>1. CASE PtraceWorks(i, v)  BY <1>7, <2>1, StartLibrary
    <2>2. CASE ~PtraceWorks(i, v)
      BY <1>7, <2>2, AfterCallLibrary DEF StartCall
    <2> QED BY <2>1, <2>2
  <1>8. CASE FinishCall(i)
    <2> DEFINE o == IF PtraceWorks(i, v) /\ regs[v].at = "trap" THEN regs[v].rv ELSE "err"
    <2>1. AfterCall(i, o) /\ pc[i] = "await" /\ UNCHANGED <<regs, libs, saved, run>>
      BY <1>8 DEF FinishCall
    <2>2. o = "ok" => regs[v].at = "trap" /\ regs[v].rv = "ok"  OBVIOUS
    <2> HIDE DEF o
    <2> QED BY <2>1, <2>2, AfterCallLibrary
  <1>9. CASE PokeNames(i) \/ PokeFds(i)
    <2>1. CASE Unwind(i, "err")
      BY <1>9, <2>1, UnwindMove DEF PokeNames, PokeFds
    <2>2. CASE Call(i, "dlopen") \/ (pc[i] = "poke_fds" /\ Call(i, "payload"))
      <3>1. /\ pc' = [pc EXCEPT ![i] = "call"] /\ UNCHANGED <<regs, run, saved, libs, handle>>
            /\ pc[i] \in {"poke_names", "poke_fds"}
        BY <1>9, <2>2 DEF PokeNames, PokeFds, Call
      <3>2. /\ callee'[i] = "dlopen" \/ (callee'[i] = "payload" /\ pc[i] = "poke_fds")
            /\ \A k \in Insts \ {i} : callee'[k] = callee[k]
        BY <2>2 DEF Call, TypeOK
      <3>3. run[v] \in {"stopped", "dead"} \/ regs[v].by = i  BY <1>0, <3>1 DEF CallsKnown
      <3>4. pc[i] = "poke_fds" => handle[i]  BY <1>0 DEF HandleKept
      <3> QED BY <3>1, <3>2, <3>3, <3>4, PlainMove
    <2> QED BY <1>9, <2>1, <2>2 DEF PokeNames, PokeFds
  <1>10. CASE DropText(i)
    <2>1. PICK l \in {"restore_regs", "detach"} : pc' = [pc EXCEPT ![i] = l]
      BY <1>10 DEF DropText, Goto
    <2>2. UNCHANGED <<regs, run, saved, libs, callee, handle>> /\ pc[i] = "restore_text"
      BY <1>10 DEF DropText, Goto, RestoreText
    <2>3. run[v] \in {"stopped", "dead"} \/ regs[v].by = i  BY <1>0, <2>2 DEF CallsKnown
    <2> QED BY <2>1, <2>2, <2>3, PlainMove
  <1>11. CASE DropRegs(i)
    <2>1. CASE PtraceWorks(i, v)  BY <1>11, <2>1, RestoreLibrary
    <2>2. CASE ~PtraceWorks(i, v)
      BY <1>11, <2>2, PlainMove DEF DropRegs, Goto
    <2> QED BY <2>1, <2>2
  <1>12. CASE DropRaw(i)
    <2>1. PICK l \in {"join", "returned"} : pc' = [pc EXCEPT ![i] = l]
      BY <1>12 DEF DropRaw, Goto
    <2>2. /\ UNCHANGED <<regs, saved, libs, callee, handle>> /\ pc[i] = "detach"
          /\ \A w \in Vms \ {v} : run'[w] = run[w]
      BY <1>0, <1>12 DEF DropRaw, Goto, PtraceDetach, TypeOK, PtraceTypeOK
    <2>3. \A k \in Insts \ {i} : pc[k] \in SavedPcs \cup {"save"} => Target[k] # v
      BY <2>2, AloneInSession DEF SessionPcs
    <2> QED BY <2>1, <2>2, <2>3, PlainMove
  <1>13. CASE JoinListener(i)
    BY <1>13, PlainMove DEF JoinListener
  <1> QED BY <1>1, <1>2, <1>3, <1>4, <1>5, <1>6, <1>7, <1>8, <1>9, <1>10, <1>11, <1>12, <1>13
          DEF MainStep

\* A kill drops what a process owned, and an interrupted wait is a failed
\* call whatever the call is doing.
LEMMA FaultStepLibrary ==
  ASSUME NEW i \in Insts, TypeOK, SessionInv, LibraryInv, WaitInterrupted(i) \/ Killed(i)
  PROVE  LibraryInv'
  <1> DEFINE v == Target[i]
  <1>0. v \in Vms /\ HandleKept(i) /\ CallsKnown(i)  BY DEF LibraryInv
  <1>1. CASE WaitInterrupted(i)
    <2>1. UNCHANGED <<regs, run, saved, libs>>  BY <1>1 DEF WaitInterrupted, ptraceVars, loadVars
    <2>2. CASE pc[i] = "stop" /\ FailRaw(i)
      BY <2>1, <2>2, PlainMove DEF FailRaw, PcStates, SavedPcs, EarlyPcs
    <2>3. CASE pc[i] = "await" /\ AfterCall(i, "err")
      BY <2>1, <2>3, AfterCallLibrary
    <2> QED BY <1>1, <2>2, <2>3 DEF WaitInterrupted, At
  <1>2. CASE Killed(i)
    <2>1. /\ pc'[i] = "killed" /\ ~handle'[i] /\ UNCHANGED <<regs, saved, libs, callee>>
          /\ \A k \in Insts \ {i} : pc'[k] = pc[k] /\ handle'[k] = handle[k]
          /\ \A w \in Vms : tracer[w] # i => run'[w] = run[w]
      BY <1>2 DEF Killed, TracerGone, loadVars, TypeOK, PtraceTypeOK
    <2>2. \A k \in Insts \ {i} : pc[k] \in SavedPcs \cup {"save"} => run'[Target[k]] = run[Target[k]]
      BY <2>1 DEF SessionInv, SessionPcs, SavedPcs
    <2>3. HandleKept(i)' /\ CallsKnown(i)'
      BY <1>0, <2>1 DEF HandleKept, CallsKnown, SavedPcs, EarlyPcs
    <2>4. ~CallsDlclose(i)'  BY <2>1 DEF CallsDlclose
    <2> QED BY <2>1, <2>2, <2>3, <2>4, MoveKeepsLibrary DEF SavedPcs
  <1> QED BY <1>1, <1>2

\* A QEMU thread goes on in its call: what it closes it no longer will.
LEMMA ThreadMove ==
  ASSUME NEW v \in Vms, TypeOK, LibraryInv, UNCHANGED <<pc, callee, handle, saved>>,
         \A w \in Vms \ {v} : run'[w] = run[w] /\ regs'[w] = regs[w] /\ libs'[w] = libs[w],
         regs'[v].by = regs[v].by, regs'[v].fun = regs[v].fun,
         regs'[v].at # "entry" \/ regs'[v].at = regs[v].at,
         run[v] \in {"stopped", "dead"} => run'[v] \in {"stopped", "dead"},
         IsFiniteSet(Owners(v)'), Cardinality(Owners(v)') <= libs'[v]
  PROVE  LibraryInv'
  <1>1. ASSUME NEW k \in Insts PROVE HandleKept(k)' /\ CallsKnown(k)'
    <2>1. HandleKept(k) /\ CallsKnown(k)  BY DEF LibraryInv
    <2>2. HandleKept(k)'  BY <2>1 DEF HandleKept
    <2>3. \A w \in Vms : regs'[w].by = regs[w].by /\ regs'[w].fun = regs[w].fun
                         /\ (run[w] \in {"stopped", "dead"} => run'[w] \in {"stopped", "dead"})
      OBVIOUS
    <2>4. CallsKnown(k)'  BY <2>1, <2>3 DEF CallsKnown
    <2> QED BY <2>2, <2>4
  <1>2. ASSUME NEW j \in Insts, NEW w \in Vms, ClosePending(j, w)' PROVE ClosePending(j, w)
    <2>1. CASE w = v  BY <1>2, <2>1 DEF ClosePending, Closes
    <2>2. CASE w # v  BY <1>2, <2>2 DEF ClosePending, Closes
    <2> QED BY <2>1, <2>2
  <1>3. \A j \in Insts, w \in Vms : ClosePending(j, w)' => ~handle'[j] /\ ~CallsDlclose(j)'
    BY <1>2 DEF LibraryInv, CallsDlclose
  <1>4. \A w \in Vms : (regs[w].by # NoInst => Target[regs[w].by] = w)'
    BY DEF LibraryInv
  <1>5. ASSUME NEW w \in Vms \ {v} PROVE IsFiniteSet(Owners(w)') /\ Cardinality(Owners(w)') <= libs'[w]
    <2>1. \A j \in Insts : Owner(j, w)' => Owner(j, w)
      BY <1>2 DEF Owner, Opened, CallsDlclose
    <2> QED BY <2>1, OwnersKept DEF LibraryInv, TypeOK
  <1> QED BY <1>1, <1>3, <1>4, <1>5 DEF LibraryInv

\* In a call that does not touch the library, nobody becomes an owner.
LEMMA ThreadMoveNoOwner ==
  ASSUME NEW v \in Vms, TypeOK, LibraryInv, UNCHANGED <<pc, callee, handle, saved, libs>>,
         \A w \in Vms \ {v} : run'[w] = run[w] /\ regs'[w] = regs[w],
         regs'[v].by = regs[v].by, regs'[v].fun = regs[v].fun,
         regs'[v].at # "entry" \/ regs'[v].at = regs[v].at,
         run[v] \in {"stopped", "dead"} => run'[v] \in {"stopped", "dead"},
         \/ regs[v].fun # "dlopen"
         \/ regs'[v].rv = "ok" /\ regs'[v].at \in {"ret", "trap"}
            => regs[v].rv = "ok" /\ regs[v].at \in {"ret", "trap"}
  PROVE  LibraryInv'
  <1>1. ASSUME NEW j \in Insts, Target[j] = v, Opened(j)' PROVE Opened(j)
    <2>1. CallsKnown(j)  BY DEF LibraryInv
    <2>2. pc[j] = "await" /\ callee[j] = "dlopen"  BY <1>1 DEF Opened
    <2>3. regs[v].fun = "dlopen"  BY <1>1, <2>1, <2>2 DEF CallsKnown
    <2> QED BY <1>1, <2>2, <2>3 DEF Opened
  <1>2. ASSUME NEW j \in Insts, ClosePending(j, v)' PROVE ClosePending(j, v)
    BY <1>2 DEF ClosePending, Closes
  <1>3. \A j \in Insts : Owner(j, v)' => Owner(j, v)
    BY <1>1, <1>2 DEF Owner, CallsDlclose
  <1>4. IsFiniteSet(Owners(v)') /\ Cardinality(Owners(v)') <= libs'[v]
    BY <1>3, OwnersKept DEF LibraryInv, TypeOK
  <1> QED BY <1>4, ThreadMove

\* What a thread that returns from a call has in its registers.
LEMMA ReturningRegs ==
  ASSUME NEW v \in Vms, NEW r, PtraceTypeOK, GotoRet(v, r)
  PROVE  /\ regs'[v].at = "ret" /\ regs'[v].by = regs[v].by /\ regs'[v].fun = regs[v].fun
         /\ regs'[v].rv = r /\ \A w \in Vms \ {v} : regs'[w] = regs[w]
         /\ UNCHANGED <<run, saved>>
  BY DEF GotoRet, Returning, PtraceTypeOK

\* dlopen takes a reference, for the process that called it.
LEMMA DlopenLibrary ==
  ASSUME NEW v \in Vms, TypeOK, LibraryInv, RunDlopen(v) PROVE LibraryInv'
  <1>0. PtraceTypeOK /\ libs \in [Vms -> Int]  BY DEF TypeOK
  <1>1. /\ UNCHANGED <<pc, callee, handle>> /\ run[v] = "running"
        /\ regs[v].fun = "dlopen" /\ regs[v].at = "entry"
    BY DEF RunDlopen, Executing, mainVars
  <1>2. CASE GotoRet(v, "bad") /\ UNCHANGED libs
    BY <1>0, <1>1, <1>2, ReturningRegs, ThreadMoveNoOwner
  <1>3. CASE GotoRet(v, "ok") /\ libs' = [libs EXCEPT ![v] = @ + 1]
    <2>1. /\ regs'[v].at = "ret" /\ regs'[v].by = regs[v].by /\ regs'[v].fun = regs[v].fun
          /\ \A w \in Vms \ {v} : regs'[w] = regs[w]
          /\ UNCHANGED <<run, saved>>
      BY <1>0, <1>3, ReturningRegs
    <2>2. libs'[v] = libs[v] + 1 /\ \A w \in Vms \ {v} : libs'[w] = libs[w]
      BY <1>0, <1>3
    <2> DEFINE m == regs[v].by
    <2>3. ASSUME NEW j \in Insts, Target[j] = v, Opened(j)' PROVE j = m
      <3>1. CallsKnown(j)  BY DEF LibraryInv
      <3>2. pc[j] = "await"  BY <1>1, <2>3 DEF Opened
      <3> QED BY <2>3, <3>1, <3>2 DEF CallsKnown
    <2>4. ASSUME NEW j \in Insts, ClosePending(j, v)' PROVE ClosePending(j, v)
      BY <1>1, <2>1, <2>4 DEF ClosePending, Closes
    <2>5. \A j \in Insts : Owner(j, v)' => Owner(j, v) \/ j = m
      BY <1>1, <2>3, <2>4 DEF Owner, CallsDlclose
    <2>6. /\ IsFiniteSet(Owners(v)) /\ Cardinality(Owners(v)) <= libs[v] /\ libs[v] \in Int
      BY <1>0 DEF LibraryInv
    <2> HIDE DEF m
    <2>7. IsFiniteSet(Owners(v)') /\ Cardinality(Owners(v)') <= libs'[v]
      BY <2>2, <2>5, <2>6, OwnerTaken
    <2> QED BY <1>1, <2>1, <2>2, <2>7, ThreadMove
  <1> QED BY <1>2, <1>3 DEF RunDlopen

\* dlclose gives one up, and the process that called it owns none any more:
\* it gave up its handle, and no tracer holds registers to do it again.
LEMMA DlcloseLibrary ==
  ASSUME NEW v \in Vms, TypeOK, LibraryInv, RunDlclose(v) PROVE LibraryInv'
  <1>0. PtraceTypeOK /\ libs \in [Vms -> Int]  BY DEF TypeOK
  <1>1. /\ UNCHANGED <<pc, callee, handle>> /\ run[v] = "running"
        /\ regs[v].fun = "dlclose" /\ regs[v].at = "entry"
    BY DEF RunDlclose, Executing, mainVars
  <1>2. PICK r \in {"ok", "bad"} : GotoRet(v, r)  BY DEF RunDlclose
  <1>3. libs'[v] \in {libs[v], libs[v] - 1} /\ \A w \in Vms \ {v} : libs'[w] = libs[w]
    BY <1>0 DEF RunDlclose
  <1>4. /\ regs'[v].at = "ret" /\ regs'[v].by = regs[v].by /\ regs'[v].fun = regs[v].fun
        /\ \A w \in Vms \ {v} : regs'[w] = regs[w]
        /\ UNCHANGED <<run, saved>>
    BY <1>0, <1>2, ReturningRegs
  <1>5. PICK m \in Insts : regs[v].by = m
    BY <1>0, <1>1 DEF PtraceTypeOK, Registers, OwnRegs
  <1>6. Target[m] = v  BY <1>5 DEF LibraryInv
  <1>7. ClosePending(m, v) /\ Owner(m, v)  BY <1>1, <1>5, <1>6 DEF Owner, ClosePending, Closes
  <1>8. ASSUME NEW j \in Insts, Target[j] = v PROVE ~Opened(j)'
    <2>1. CallsKnown(j)  BY DEF LibraryInv
    <2>2. pc[j] = "await" => callee[j] = "dlclose"  BY <1>1, <1>8, <2>1 DEF CallsKnown
    <2> QED BY <1>1, <2>2 DEF Opened
  <1>9. ASSUME NEW j \in Insts, ClosePending(j, v)' PROVE ClosePending(j, v) /\ j # m
    <2>1. PICK k \in Insts : Target[k] = v /\ pc[k] \in SavedPcs /\ Closes(saved[k].regs, j)
      BY <1>1, <1>4, <1>9 DEF ClosePending, Closes
    <2>2. CallsKnown(k)  BY DEF LibraryInv
    <2>3. regs[v].by = k /\ saved[k].regs.by # k  BY <1>1, <2>1, <2>2 DEF CallsKnown
    <2>4. j # m  BY <1>5, <2>1, <2>3 DEF Closes
    <2> QED BY <2>1, <2>4 DEF ClosePending
  <1>10. ~handle[m] /\ ~CallsDlclose(m)  BY <1>7 DEF LibraryInv
  <1>11. \A j \in Insts : Owner(j, v)' => Owner(j, v) /\ j # m
    BY <1>1, <1>8, <1>9, <1>10 DEF Owner, CallsDlclose
  <1>12. IsFiniteSet(Owners(v)) /\ Cardinality(Owners(v)) <= libs[v] /\ libs[v] \in Int
    BY <1>0 DEF LibraryInv
  <1>13. IsFiniteSet(Owners(v)') /\ Cardinality(Owners(v)') <= libs'[v]
    BY <1>3, <1>7, <1>11, <1>12, OwnerGone
  <1> QED BY <1>1, <1>3, <1>4, <1>13, ThreadMove

\* QEMU's threads, signals and deaths keep the invariant of the library.
LEMMA ThreadStepLibrary ==
  ASSUME NEW v \in Vms, TypeOK, LibraryInv,
         GuestStep(v) \/ SendSignal(v) \/ StopOnSignal(v) \/ QemuDies(v)
  PROVE  LibraryInv'
  <1>0. PtraceTypeOK  BY DEF TypeOK
  <1> USE DEF mainVars, loadVars, ptraceVars
  <1>1. CASE RunMmap(v) \/ RunLookup(v)
    <2>1. \E r \in {"ok", "bad"} : GotoRet(v, r)  BY <1>1 DEF RunMmap, RunLookup
    <2>2. UNCHANGED <<pc, callee, handle, libs>> /\ run[v] = "running" /\ regs[v].fun # "dlopen"
      BY <1>1 DEF RunMmap, RunLookup, Executing
    <2> QED BY <1>0, <2>1, <2>2, ReturningRegs, ThreadMoveNoOwner
  <1>2. CASE RunDlopen(v)  BY <1>2, DlopenLibrary
  <1>3. CASE RunDlclose(v)  BY <1>3, DlcloseLibrary
  <1>4. CASE PayloadConnect(v) \/ PayloadSend(v) \/ PayloadDone(v)
    <2>1. UNCHANGED <<pc, callee, handle, libs>> /\ run[v] = "running" /\ regs[v].fun # "dlopen"
      BY <1>4 DEF PayloadConnect, PayloadSend, PayloadDone, Executing
    <2>2. CASE \E r \in {"ok", "bad"} : GotoRet(v, r)
      BY <1>0, <2>1, <2>2, ReturningRegs, ThreadMoveNoOwner
    <2>3. CASE UNCHANGED ptraceVars
      BY <2>1, <2>3, ThreadMoveNoOwner
    <2>4. CASE regs' = [regs EXCEPT ![v] = MovedTo(@, "body")] /\ UNCHANGED <<run, saved>>
      <3>1. /\ regs'[v].at = "body" /\ regs'[v].by = regs[v].by /\ regs'[v].fun = regs[v].fun
            /\ \A w \in Vms \ {v} : regs'[w] = regs[w]
        BY <1>0, <2>4 DEF MovedTo, PtraceTypeOK
      <3> QED BY <2>1, <2>4, <3>1, ThreadMoveNoOwner
    <2> QED BY <1>4, <2>2, <2>3, <2>4 DEF PayloadConnect, PayloadSend, PayloadDone
  <1>5. CASE ReturnFromCall(v)
    <2>1. /\ UNCHANGED <<pc, callee, handle, saved, libs>> /\ run[v] = "running" /\ regs[v].at = "ret"
          /\ \A w \in Vms \ {v} : run'[w] = run[w] /\ regs'[w] = regs[w]
      BY <1>0, <1>5 DEF ReturnFromCall, CallReturns, PtraceTypeOK
    <2>2. /\ regs'[v].at # "entry" /\ regs'[v].by = regs[v].by /\ regs'[v].fun = regs[v].fun
          /\ regs'[v].rv = regs[v].rv
      BY <1>0, <1>5 DEF ReturnFromCall, CallReturns, MovedTo, PtraceTypeOK
    <2> QED BY <2>1, <2>2, ThreadMoveNoOwner
  <1>6. CASE SendSignal(v) \/ StopOnSignal(v) \/ QemuDies(v)
    <2>1. /\ UNCHANGED <<pc, callee, handle, saved, libs, regs>>
          /\ \A w \in Vms \ {v} : run'[w] = run[w]
          /\ run'[v] = run[v] \/ run'[v] \in {"stopped", "dead"}
      BY <1>0, <1>6
      DEF SendSignal, SignalArrives, StopOnSignal, SignalStop, QemuDies, Dies, PtraceTypeOK
    <2> QED BY <2>1, ThreadMoveNoOwner
  <1> QED BY <1>1, <1>2, <1>3, <1>4, <1>5, <1>6 DEF GuestStep

\* It holds before anybody attaches.
LEMMA InitLibrary == Init => LibraryInv
  <1> SUFFICES ASSUME Init PROVE LibraryInv  OBVIOUS
  <1>1. /\ \A i \in Insts : pc[i] = "fds" /\ ~handle[i] /\ saved[i].regs = OwnRegs
        /\ \A v \in Vms : regs[v] = OwnRegs /\ libs[v] = 0
    BY DEF Init, PtraceInit
  <1>2. OwnRegs.by = NoInst /\ OwnRegs.at = "own"  BY DEF OwnRegs
  <1>3. \A i \in Insts : HandleKept(i) /\ CallsKnown(i)
    BY <1>1, <1>2 DEF HandleKept, CallsKnown, SavedPcs
  <1>4. \A j \in Insts, v \in Vms : ~ClosePending(j, v)
    BY <1>1, <1>2 DEF ClosePending, Closes
  <1>5. ASSUME NEW v \in Vms PROVE IsFiniteSet(Owners(v)) /\ Cardinality(Owners(v)) <= libs[v]
    <2>1. Owners(v) = {}
      BY <1>1, <1>4 DEF Owners, Owner, CallsDlclose, Opened
    <2> QED BY <1>1, <2>1, FS_EmptySet
  <1> QED BY <1>1, <1>2, <1>3, <1>4, <1>5 DEF LibraryInv

\* Every step keeps it.
LEMMA NextLibrary == TypeOK /\ SessionInv /\ LibraryInv /\ [Next]_vars => LibraryInv'
  <1> SUFFICES ASSUME TypeOK, SessionInv, LibraryInv, [Next]_vars PROVE LibraryInv'
    OBVIOUS
  <1>1. ASSUME UNCHANGED <<ptraceVars, mainVars, loadVars>> PROVE LibraryInv'
    <2>1. UNCHANGED <<pc, callee, handle, saved, libs, regs, run>>
      BY <1>1 DEF ptraceVars, mainVars, loadVars
    <2>2. \A v \in Vms : Owners(v)' = Owners(v)
      BY <2>1 DEF Owners, Owner, CallsDlclose, Opened, ClosePending, Closes
    <2>3. \A i \in Insts : HandleKept(i)' /\ CallsKnown(i)'
      BY <2>1 DEF LibraryInv, HandleKept, CallsKnown
    <2>4. \A j \in Insts, v \in Vms : ClosePending(j, v)' => ~handle'[j] /\ ~CallsDlclose(j)'
      BY <2>1 DEF LibraryInv, ClosePending, CallsDlclose, Closes
    <2> QED BY <2>1, <2>2, <2>3, <2>4 DEF LibraryInv
  <1>2. CASE UNCHANGED vars  BY <1>1, <1>2 DEF vars
  <1>3. ASSUME NEW i \in Insts, Listener(i) PROVE LibraryInv'
    BY <1>1, <1>3 DEF Listener
  <1>4. CASE Next
    BY <1>3, <1>4, MainStepLibrary, FaultStepLibrary, ThreadStepLibrary DEF Next
  <1> QED BY <1>2, <1>4

\* Whatever is killed or interrupted, every reference to the library that a
\* vminer process, or a call it left behind in QEMU, can still give up is one
\* that a dlopen took.
THEOREM LibraryCorrect == Spec => []LibraryInv
  <1>1. Init => TypeOK /\ SessionInv /\ LibraryInv
    BY InitType, InitSession, InitLibrary
  <1>2. TypeOK /\ SessionInv /\ LibraryInv /\ [Next]_vars => (TypeOK /\ SessionInv /\ LibraryInv)'
    BY NextType, NextSession, NextLibrary
  <1> QED BY <1>1, <1>2, PTL DEF Spec

\* attach calls dlsym, the payload and dlclose only while the library is
\* loaded in QEMU, and never closes it once too often, with any number of
\* vminer processes on one QEMU process.
THEOREM AlwaysLibraryLoaded == Spec => []LibraryLoaded
  <1>1. TypeOK /\ LibraryInv => LibraryLoaded
    <2> SUFFICES ASSUME TypeOK, LibraryInv PROVE LibraryLoaded  OBVIOUS
    <2>1. ASSUME NEW v \in Vms PROVE Cardinality(Owners(v)) \in Nat /\ libs[v] \in Int
      BY FS_CardinalityType DEF LibraryInv, TypeOK
    <2>2. \A v \in Vms : libs[v] >= 0  BY <2>1 DEF LibraryInv
    <2>3. ASSUME NEW i \in Insts, handle[i] PROVE libs[Target[i]] > 0
      <3>1. i \in Owners(Target[i])  BY <2>3 DEF Owners, Owner
      <3>2. IsFiniteSet(Owners(Target[i]))  BY DEF LibraryInv
      <3>3. Cardinality(Owners(Target[i])) # 0  BY <3>1, <3>2, FS_EmptySet
      <3> QED BY <2>1, <3>3 DEF LibraryInv
    <2>4. \A i \in Insts : pc[i] \in {"call", "await"} /\ callee[i] \in {"dlsym", "payload"} => handle[i]
      BY DEF LibraryInv, HandleKept
    <2> QED BY <2>2, <2>3, <2>4 DEF LibraryLoaded
  <1> QED BY <1>1, TypeCorrect, LibraryCorrect, PTL

-----------------------------------------------------------------------------
(* The registers that get_regs returns *)

\* A step of i that leaves the streams and the listeners alone.
LEMMA AnswerMove ==
  ASSUME NEW i \in Insts, AnswerInv, UNCHANGED <<sent, got, peer, thr>>,
         \A k \in Insts \ {i} : pc'[k] = pc[k] /\ result'[k] = result[k],
         pc'[i] \in {"fds", "unlink", "bind", "chmod"} => pc[i] \in {"fds", "unlink", "bind", "chmod"},
         pc'[i] = "returned" /\ result'[i] = "ok" => thr[i] = "ok"
  PROVE  AnswerInv'
  <1> SUFFICES ASSUME NEW k \in Insts PROVE AnswerRight(k)'  BY DEF AnswerInv
  <1>1. CASE k = i  BY <1>1 DEF AnswerInv, AnswerRight
  <1>2. CASE k # i  BY <1>2 DEF AnswerInv, AnswerRight
  <1> QED BY <1>1, <1>2

\* A step that leaves the main threads alone, and of the streams and the
\* listeners only changes those of i.
LEMMA AnswerStream ==
  ASSUME NEW i \in Insts, AnswerInv, UNCHANGED <<pc, result>>,
         \A k \in Insts \ {i} : sent'[k] = sent[k] /\ got'[k] = got[k] /\ peer'[k] = peer[k] /\ thr'[k] = thr[k],
         InOrder(sent'[i], Target[i]),
         got'[i] # <<>> => InOrder(got'[i], Target[peer'[i]]),
         pc[i] \in {"fds", "unlink", "bind", "chmod"} => got'[i] = <<>> /\ thr'[i] = "none",
         thr'[i] = "accept" => got'[i] = <<>>,
         thr'[i] = "ok" => peer'[i] \in Insts /\ Len(got'[i]) = Fds(i),
         thr[i] = "ok" => thr'[i] = "ok"
  PROVE  AnswerInv'
  <1> SUFFICES ASSUME NEW k \in Insts PROVE AnswerRight(k)'  BY DEF AnswerInv
  <1>1. CASE k = i  BY <1>1 DEF AnswerInv, AnswerRight
  <1>2. CASE k # i  BY <1>2 DEF AnswerInv, AnswerRight
  <1> QED BY <1>1, <1>2

\* The next record after those in order.
LEMMA AppendInOrder ==
  ASSUME NEW s \in Seq(Records), NEW v \in Vms, InOrder(s, v), NEW r \in Records, r = <<v, Len(s) + 1>>
  PROVE  InOrder(Append(s, r), v)
  BY DEF InOrder

\* The main threads keep the invariant of the answers.
LEMMA MainStepAnswer ==
  ASSUME NEW i \in Insts, TypeOK, AnswerInv, MainStep(i)
  PROVE  AnswerInv'
  <1> USE DEF At, socketVars
  <1>0. pc \in [Insts -> PcStates] /\ result \in [Insts -> {"none", "ok", "err"}]
        /\ thr \in [Insts -> {"none", "accept", "read", "ok", "err"}]
    BY DEF TypeOK, SocketTypeOK
  <1>1. CASE SetPermissions(i)
    <2>1. CASE SpawnListener(i) /\ Goto(i, "libs")
      <3>1. /\ UNCHANGED <<sent, got, peer>> /\ thr'[i] = "accept" /\ pc[i] = "chmod"
            /\ \A k \in Insts \ {i} : thr'[k] = thr[k] /\ pc'[k] = pc[k] /\ result'[k] = result[k]
            /\ pc'[i] = "libs"
        BY <1>0, <1>1, <2>1 DEF SetPermissions, SpawnListener, Goto
      <3>2. got[i] = <<>>  BY <3>1 DEF AnswerInv, AnswerRight
      <3> SUFFICES ASSUME NEW k \in Insts PROVE AnswerRight(k)'  BY DEF AnswerInv
      <3>3. CASE k = i  BY <3>1, <3>2, <3>3 DEF AnswerInv, AnswerRight
      <3>4. CASE k # i  BY <3>1, <3>4 DEF AnswerInv, AnswerRight
      <3> QED BY <3>3, <3>4
    <2>2. CASE DropListener(i) /\ ReturnErr(i)
      BY <1>0, <1>1, <2>2, AnswerMove DEF DropListener, ReturnErr
    <2> QED BY <1>1, <2>1, <2>2 DEF SetPermissions
  <1>2. CASE GetVcpusFds(i) \/ RemoveFile(i) \/ BindListener(i) \/ FindLibs(i) \/ OpenMem(i)
    <2>1. UNCHANGED <<sent, got, peer, thr>>
      BY <1>2 DEF GetVcpusFds, RemoveFile, BindListener, FindLibs, OpenMem, UnlinkPath, Bind
    <2>2. \/ pc[i] = "fds" /\ Goto(i, "unlink")
          \/ pc[i] = "unlink" /\ Goto(i, "bind")
          \/ pc[i] = "bind" /\ Goto(i, "chmod")
          \/ Goto(i, "open") \/ Goto(i, "ptrace") \/ ReturnErr(i)
      BY <1>2 DEF GetVcpusFds, RemoveFile, BindListener, FindLibs, OpenMem
    <2> QED BY <1>0, <2>1, <2>2, AnswerMove DEF Goto, ReturnErr
  <1>3. CASE RawAttach(i) \/ WaitStop(i) \/ GetRegisters(i) \/ FindText(i) \/ PatchInstrs(i) \/ StartCall(i)
             \/ FinishCall(i) \/ PokeNames(i) \/ PokeFds(i) \/ DropText(i) \/ DropRegs(i)
    <2>1. UNCHANGED <<sent, got, peer, thr>>
      BY <1>3 DEF RawAttach, WaitStop, GetRegisters, FindText, PatchInstrs, StartCall,
                  FinishCall, PokeNames, PokeFds, DropText, DropRegs
    <2>2. \/ \E l \in {"stop", "save", "text", "patch", "await", "restore_regs", "detach"} : Goto(i, l)
          \/ ReturnErr(i) \/ FailRaw(i) \/ (\E f \in {"mmap", "dlopen", "payload"} : Call(i, f))
          \/ Unwind(i, "err") \/ \E o \in {"ok", "bad", "err"} \cup {regs[Target[i]].rv} : AfterCall(i, o)
      BY <1>3 DEF RawAttach, WaitStop, GetRegisters, FindText, PatchInstrs, StartCall,
                  FinishCall, PokeNames, PokeFds, DropText, DropRegs
    <2>3. /\ \A k \in Insts \ {i} : pc'[k] = pc[k] /\ result'[k] = result[k]
          /\ pc'[i] \notin {"fds", "unlink", "bind", "chmod"}
          /\ pc'[i] = "returned" => result'[i] = "err"
      BY <1>0, <2>2 DEF Goto, ReturnErr, FailRaw, Call, Unwind, AfterCall, ArmDlclose
    <2> QED BY <2>1, <2>3, AnswerMove
  <1>4. CASE DropRaw(i)
    BY <1>0, <1>4, AnswerMove DEF DropRaw, Goto
  <1>5. CASE JoinListener(i)
    BY <1>0, <1>5, AnswerMove DEF JoinListener
  <1> QED BY <1>1, <1>2, <1>3, <1>4, <1>5 DEF MainStep

\* So do the listener threads,
LEMMA ListenerAnswer ==
  ASSUME NEW i \in Insts, TypeOK, AnswerInv, Listener(i)
  PROVE  AnswerInv'
  <1>0. SocketTypeOK /\ ListenerStep(i) /\ UNCHANGED <<pc, result>>  BY DEF TypeOK, Listener, mainVars
  <1>1. /\ InOrder(sent[i], Target[i]) /\ (got[i] # <<>> => InOrder(got[i], Target[peer[i]]))
        /\ pc[i] \in {"fds", "unlink", "bind", "chmod"} => got[i] = <<>> /\ thr[i] = "none"
        /\ thr[i] = "accept" => got[i] = <<>>
    BY DEF AnswerInv, AnswerRight
  <1>2. CASE Accept(i)
    <2>1. /\ UNCHANGED <<sent, got>> /\ thr[i] = "accept" /\ thr'[i] = "read"
          /\ \A k \in Insts \ {i} : peer'[k] = peer[k] /\ thr'[k] = thr[k]
      BY <1>0, <1>2 DEF Accept, SocketTypeOK
    <2> QED BY <1>0, <1>1, <2>1, AnswerStream
  <1>3. CASE ReadVcpu(i)
    <2> DEFINE p == peer[i]
               r == sent[p][Len(got[i]) + 1]
    <2>1. /\ UNCHANGED <<sent, thr, peer>> /\ thr[i] = "read" /\ Len(got[i]) < Len(sent[p])
          /\ got'[i] = Append(got[i], r) /\ \A k \in Insts \ {i} : got'[k] = got[k]
      BY <1>0, <1>3 DEF ReadVcpu, SocketTypeOK
    <2>2. p \in Insts  BY <1>0, <2>1 DEF SocketTypeOK
    <2>3. got[i] \in Seq(Records) /\ sent[p] \in Seq(Records)  BY <1>0, <2>2 DEF SocketTypeOK
    <2>4. Len(got[i]) + 1 \in 1..Len(sent[p])  BY <2>1, <2>3
    <2>5. InOrder(sent[p], Target[p]) /\ Target[p] \in Vms  BY <2>2 DEF AnswerInv, AnswerRight
    <2>6. r = <<Target[p], Len(got[i]) + 1>> /\ r \in Records  BY <2>3, <2>4, <2>5, SMTT(40) DEF InOrder
    <2>7. InOrder(got[i], Target[p])  BY <1>1 DEF InOrder
    <2> HIDE DEF r
    <2>8. InOrder(got'[i], Target[p])  BY <2>1, <2>3, <2>5, <2>6, <2>7, AppendInOrder
    <2> QED BY <1>0, <1>1, <2>1, <2>8, AnswerStream
  <1>4. CASE ReadEof(i) \/ ReadAll(i)
    <2>1. /\ UNCHANGED <<sent, got, peer>> /\ thr[i] = "read"
          /\ \A k \in Insts \ {i} : thr'[k] = thr[k]
          /\ thr'[i] \in {"ok", "err"} /\ (thr'[i] = "ok" => Len(got[i]) = Fds(i))
      BY <1>0, <1>4 DEF ReadEof, ReadAll, EndThread, SocketTypeOK
    <2>2. peer[i] \in Insts  BY <1>0, <2>1 DEF SocketTypeOK
    <2> QED BY <1>0, <1>1, <2>1, <2>2, AnswerStream
  <1>5. CASE AcceptFails(i)
    <2>1. /\ UNCHANGED <<sent, got, peer>> /\ thr[i] = "accept" /\ thr'[i] = "err"
          /\ \A k \in Insts \ {i} : thr'[k] = thr[k]
      BY <1>0, <1>5 DEF AcceptFails, EndThread, SocketTypeOK
    <2> QED BY <1>0, <1>1, <2>1, AnswerStream
  <1> QED BY <1>0, <1>2, <1>3, <1>4, <1>5 DEF ListenerStep, Answers

\* and everything else: QEMU's threads, signals, deaths and faults.
LEMMA OtherStepAnswer ==
  ASSUME NEW i \in Insts, NEW v \in Vms, TypeOK, AnswerInv,
         \/ WaitInterrupted(i) \/ Killed(i) \/ GuestStep(v)
         \/ SendSignal(v) \/ StopOnSignal(v) \/ QemuDies(v)
  PROVE  AnswerInv'
  <1> USE DEF mainVars, socketVars
  <1>0. pc \in [Insts -> PcStates] /\ result \in [Insts -> {"none", "ok", "err"}] /\ SocketTypeOK
    BY DEF TypeOK
  <1>1. CASE WaitInterrupted(i)
    <2>1. /\ UNCHANGED <<sent, got, peer, thr>>
          /\ \A k \in Insts \ {i} : pc'[k] = pc[k] /\ result'[k] = result[k]
          /\ pc'[i] \notin {"fds", "unlink", "bind", "chmod", "returned"}
      BY <1>0, <1>1 DEF WaitInterrupted, FailRaw, AfterCall, Goto, Call, Unwind, ArmDlclose
    <2> QED BY <2>1, AnswerMove
  <1>2. CASE Killed(i)
    <2>1. /\ UNCHANGED <<sent, got, peer, result>> /\ pc'[i] = "killed" /\ thr'[i] = "none"
          /\ \A k \in Insts \ {i} : pc'[k] = pc[k] /\ thr'[k] = thr[k]
      BY <1>0, <1>2 DEF Killed, ListenerGone, SocketTypeOK
    <2> SUFFICES ASSUME NEW k \in Insts PROVE AnswerRight(k)'  BY DEF AnswerInv
    <2>2. CASE k = i  BY <2>1, <2>2 DEF AnswerInv, AnswerRight
    <2>3. CASE k # i  BY <2>1, <2>3 DEF AnswerInv, AnswerRight
    <2> QED BY <2>2, <2>3
  <1>3. ASSUME UNCHANGED <<sent, got, peer, thr, pc, result>> PROVE AnswerInv'
    BY <1>3, AnswerMove DEF AnswerInv, AnswerRight
  <1>4. CASE SendSignal(v) \/ StopOnSignal(v) \/ QemuDies(v)
    BY <1>3, <1>4 DEF SendSignal, StopOnSignal, QemuDies, CloseAllOf
  <1>5. CASE RunMmap(v) \/ RunDlopen(v) \/ RunDlclose(v) \/ RunLookup(v) \/ PayloadConnect(v) \/ PayloadDone(v)
             \/ ReturnFromCall(v)
    BY <1>3, <1>5 DEF RunMmap, RunDlopen, RunDlclose, RunLookup, PayloadConnect, PayloadDone, ReturnFromCall,
                      Connect, CloseStream
  <1>6. CASE PayloadSend(v)
    <2> DEFINE p == regs[v].by
    <2>1. CASE CloseStream(p)
      BY <1>3, <1>6, <2>1 DEF PayloadSend, CloseStream
    <2>2. CASE SendVcpu(p)
      <3>1. p \in Insts
        BY <1>6 DEF PayloadSend, Executing, TypeOK, PtraceTypeOK, Registers, OwnRegs
      <3> HIDE DEF p
      <3> DEFINE r == <<Target[p], Len(sent[p]) + 1>>
      <3>2. /\ UNCHANGED <<got, peer, thr, pc, result>> /\ sent'[p] = Append(sent[p], r)
            /\ \A k \in Insts \ {p} : sent'[k] = sent[k]
        BY <1>0, <1>6, <2>2, <3>1 DEF PayloadSend, SendVcpu, SocketTypeOK
      <3>3. sent[p] \in Seq(Records) /\ Target[p] \in Vms  BY <1>0, <3>1 DEF SocketTypeOK
      <3>4. r \in Records  BY <3>3 DEF Records
      <3>5. InOrder(sent[p], Target[p])  BY <3>1 DEF AnswerInv, AnswerRight
      <3> HIDE DEF r
      <3>6. InOrder(sent'[p], Target[p])  BY <3>2, <3>3, <3>4, <3>5, AppendInOrder DEF r
      <3>7. /\ (got[p] # <<>> => InOrder(got[p], Target[peer[p]]))
            /\ pc[p] \in {"fds", "unlink", "bind", "chmod"} => got[p] = <<>> /\ thr[p] = "none"
            /\ thr[p] = "accept" => got[p] = <<>>
            /\ thr[p] = "ok" => peer[p] \in Insts /\ Len(got[p]) = Fds(p)
        BY <3>1 DEF AnswerInv, AnswerRight
      <3> QED BY <3>1, <3>2, <3>6, <3>7, AnswerStream
    <2> QED BY <1>6, <2>1, <2>2 DEF PayloadSend
  <1> QED BY <1>1, <1>2, <1>4, <1>5, <1>6 DEF GuestStep

\* Any step keeps it.
LEMMA NextAnswer == TypeOK /\ AnswerInv /\ [Next]_vars => AnswerInv'
  <1> SUFFICES ASSUME TypeOK, AnswerInv, [Next]_vars PROVE AnswerInv'
    OBVIOUS
  <1>0. PICK i0 \in Insts : TRUE  BY SomeInst
  <1>1. CASE UNCHANGED vars
    <2>1. UNCHANGED <<sent, got, peer, thr, pc, result>>  BY <1>1 DEF vars, socketVars, mainVars
    <2> QED BY <2>1 DEF AnswerInv, AnswerRight
  <1>2. ASSUME NEW i \in Insts, MainStep(i) \/ Listener(i) PROVE AnswerInv'
    BY <1>2, MainStepAnswer, ListenerAnswer
  <1>3. ASSUME NEW i \in Insts, WaitInterrupted(i) \/ Killed(i) PROVE AnswerInv'
    BY <1>3, OtherStepAnswer, Target[i] \in Vms
  <1>4. ASSUME NEW v \in Vms, GuestStep(v) \/ SendSignal(v) \/ StopOnSignal(v) \/ QemuDies(v)
        PROVE  AnswerInv'
    BY <1>0, <1>4, OtherStepAnswer
  <1> QED BY <1>1, <1>2, <1>3, <1>4 DEF Next

\* A listener returns, in order and whole, the registers of the process whose
\* payload it accepted, whatever the other processes do to the socket.
THEOREM AnswersCorrect == Spec => []AnswerInv
  <1>1. Init => AnswerInv
    <2> SUFFICES ASSUME Init, NEW i \in Insts PROVE AnswerRight(i)  BY DEF AnswerInv
    <2>1. sent[i] = <<>> /\ got[i] = <<>> /\ thr[i] = "none" /\ pc[i] = "fds"
      BY DEF Init, SocketInit
    <2>2. InOrder(sent[i], Target[i])  BY <2>1 DEF InOrder
    <2> QED BY <2>1, <2>2 DEF AnswerRight
  <1>2. TypeOK /\ AnswerInv /\ [Next]_vars => AnswerInv'  BY NextAnswer
  <1> QED BY <1>1, <1>2, TypeCorrect, PTL DEF Spec

\* When all vminer processes look at one QEMU process, as many as they are,
\* get_regs returns the registers of that process or an error: the path of
\* the socket that they share then only mixes up equal answers.
THEOREM OwnRegistersOfOneGuest ==
  ASSUME \A i, j \in Insts : Target[i] = Target[j]
  PROVE  Spec => []OwnRegisters
  <1>1. TypeOK /\ AnswerInv => OwnRegisters
    <2> SUFFICES ASSUME TypeOK, AnswerInv, NEW i \in Insts, pc[i] = "returned", result[i] = "ok"
                 PROVE  got[i] = AllRecords(i)
      BY DEF OwnRegisters
    <2>1. peer[i] \in Insts /\ Len(got[i]) = Fds(i)  BY DEF AnswerInv, AnswerRight
    <2>2. Target[peer[i]] = Target[i]  BY <2>1
    <2>3. got[i] \in Seq(Records)  BY DEF TypeOK, SocketTypeOK
    <2>4. \A k \in 1..Len(got[i]) : got[i][k] = <<Target[i], k>>
      BY <2>2, <2>3 DEF AnswerInv, AnswerRight, InOrder
    <2>5. got[i] = [k \in 1..Len(got[i]) |-> got[i][k]]  BY <2>3
    <2> QED BY <2>1, <2>4, <2>5 DEF AllRecords
  <1> QED BY <1>1, TypeCorrect, AnswersCorrect, PTL

=============================================================================
