---------------------------- MODULE WindowsTasks ----------------------------
(***************************************************************************)
(* Families of processes of a running Windows guest (vminer/src/os/        *)
(* windows/mod.rs): process_for_each_child and process_parent, which both  *)
(* walk the list at PsActiveProcessHead with iterate_list and compare      *)
(* identifiers.                                                            *)
(*                                                                         *)
(* One action is one read of guest memory.  Between two of them the guest  *)
(* creates processes at the tail of the list and takes exited ones off it; *)
(* RemoveEntryList leaves the links of the entry as they are.  Windows     *)
(* gives the identifier of an exited process to a new one, and the memory  *)
(* of its structure too.                                                   *)
(***************************************************************************)
EXTENDS Naturals, Sequences, Functions

CONSTANTS
  Eprocs,      \* structures of processes
  PsHead,      \* PsActiveProcessHead
  Pids,        \* identifiers
  NoProc,      \* no process: the null pointer
  MaxCreates   \* bound: processes the guest creates

ASSUME WinTasksAssumption ==
  /\ PsHead \notin Eprocs /\ NoProc \notin Eprocs
  /\ Pids \subseteq Nat \ {0} /\ MaxCreates \in Nat
  /\ \E a, b \in Eprocs : a # b
  /\ \E i, j \in Pids : i # j

VARIABLES
  flink,       \* flink[e]: ActiveProcessLinks.Flink
  running,     \* the processes on the list
  pid, ppid,   \* UniqueProcessId, InheritedFromUniqueProcessId
  ncreates,
  famOp,       \* what is asked: "children", "parent" or "none"
  of,          \* of which process
  famAt,       \* the next read
  key,         \* the identifier that is compared
  pos,         \* where the walk is
  seen,        \* the processes given to the closure
  parent,      \* what process_parent returns
  \* Ghosts:
  maker,       \* maker[e]: the process that created e, NoProc when its structure is
               \* another's
  stable,      \* the processes that were on the list all the time of the call
  recycled,    \* whether, during the call, a structure was given to a new process
  again        \* whether a process was given an identifier that another, or a child
               \* of another, still has

winTaskVars == <<flink, running, pid, ppid, ncreates, famOp, of, famAt, key, pos, seen, parent,
                 maker, stable, recycled, again>>
guestTaskVars == <<flink, running, pid, ppid, ncreates, maker, recycled, again>>

\* The System process, which does not exit, and one that it created.
System == CHOOSE e \in Eprocs : TRUE
FirstChild == CHOOSE e \in Eprocs : e # System
SystemPid == CHOOSE i \in Pids : TRUE
ChildPid == CHOOSE i \in Pids : i # SystemPid

WinTasksInit ==
  /\ running = {System, FirstChild}
  /\ flink = [e \in Eprocs \union {PsHead} |->
                IF e = PsHead THEN System ELSE IF e = System THEN FirstChild ELSE PsHead]
  /\ pid = [e \in Eprocs |-> IF e = System THEN SystemPid ELSE IF e = FirstChild THEN ChildPid ELSE 0]
  /\ ppid = [e \in Eprocs |-> IF e = FirstChild THEN SystemPid ELSE 0]
  /\ maker = [e \in Eprocs |-> IF e = FirstChild THEN System ELSE NoProc]
  /\ ncreates = 0 /\ recycled = FALSE /\ again = FALSE
  /\ famOp = "none" /\ of = NoProc /\ famAt = "idle" /\ key = 0 /\ pos = PsHead
  /\ seen = <<>> /\ parent = NoProc /\ stable = {}

-----------------------------------------------------------------------------
(* The guest *)

PrevLink(e) == CHOOSE p \in running \union {PsHead} : flink[p] = e

\* InsertTailList, of a structure that may have been another process's.
CreateProcess(e, by, i) ==
  /\ e \notin running /\ by \in running /\ ncreates < MaxCreates
  /\ \A o \in running : pid[o] # i
  /\ flink' = [flink EXCEPT ![PrevLink(PsHead)] = e, ![e] = PsHead]
  /\ running' = running \union {e}
  /\ pid' = [pid EXCEPT ![e] = i] /\ ppid' = [ppid EXCEPT ![e] = pid[by]]
  /\ maker' = [x \in Eprocs |-> IF x = e THEN by ELSE IF maker[x] = e THEN NoProc ELSE maker[x]]
  /\ ncreates' = ncreates + 1
  /\ recycled' = (recycled \/ (famAt # "idle" /\ pid[e] # 0))
  /\ again' = (again \/ \E o \in Eprocs : i \in {pid[o], ppid[o]})
  /\ UNCHANGED <<famOp, of, famAt, key, pos, seen, parent, stable>>

\* RemoveEntryList; what it created keeps its parent's identifier.
ExitProcess(e) ==
  /\ e \in running /\ e # System
  /\ flink' = [flink EXCEPT ![PrevLink(e)] = flink[e]]
  /\ running' = running \ {e}
  /\ stable' = stable \ {e}
  /\ UNCHANGED <<maker, pid, ppid, ncreates, recycled, again, famOp, of, famAt, key, pos, seen, parent>>

-----------------------------------------------------------------------------
(* The calls *)

\* The caller has the process from a walk; it may have exited since.
\* process_id, or process_parent_id, is the first read.
CallFamily(op, e) ==
  /\ famAt = "idle" /\ pid[e] # 0
  /\ famOp' = op /\ of' = e
  /\ key' = IF op = "children" THEN pid[e] ELSE ppid[e]
  /\ famAt' = "next" /\ pos' = PsHead /\ seen' = <<>>
  /\ stable' = running
  /\ UNCHANGED <<guestTaskVars, parent>>

\* Mutant: the walk goes past the head.
NextLinkEndless ==
  /\ famAt = "next"
  /\ pos' = flink[pos]
  /\ famAt' = IF flink[pos] = PsHead THEN "next" ELSE "read"
  /\ UNCHANGED <<guestTaskVars, famOp, of, key, seen, parent, stable>>

\* iterate_list: Flink, until it is the head; then process_parent gives the
\* process itself (unwrap_or).
NextLink ==
  /\ famAt = "next"
  /\ pos' = flink[pos]
  /\ famAt' = IF flink[pos] = PsHead THEN "done" ELSE "read"
  /\ parent' = IF flink[pos] = PsHead /\ famOp = "parent" THEN of ELSE parent
  /\ UNCHANGED <<guestTaskVars, famOp, of, key, seen, stable>>

\* Mutant: the children are the processes with the identifier itself.
ReadProcessOwn ==
  /\ famAt = "read"
  /\ IF famOp = "parent" /\ pid[pos] = key
     THEN famAt' = "done" /\ parent' = pos
     ELSE famAt' = "next" /\ UNCHANGED parent
  /\ seen' = IF famOp = "children" /\ pid[pos] = key THEN Append(seen, pos) ELSE seen
  /\ UNCHANGED <<guestTaskVars, famOp, of, key, pos, stable>>

\* The closures: process_for_each_child compares the identifier of the
\* parent and goes on, find_process_by_id compares the identifier and stops.
ReadProcess ==
  /\ famAt = "read"
  /\ IF famOp = "parent" /\ pid[pos] = key
     THEN famAt' = "done" /\ parent' = pos
     ELSE famAt' = "next" /\ UNCHANGED parent
  /\ seen' = IF famOp = "children" /\ ppid[pos] = key THEN Append(seen, pos) ELSE seen
  /\ UNCHANGED <<guestTaskVars, famOp, of, key, pos, stable>>

\* A read fails, and with it the call.
ReadFault ==
  /\ famAt \in {"next", "read"}
  /\ famAt' = "failed"
  /\ UNCHANGED <<guestTaskVars, famOp, of, key, pos, seen, parent, stable>>

WinGuest == \E e \in Eprocs : ExitProcess(e) \/ \E by \in Eprocs, i \in Pids : CreateProcess(e, by, i)

Family == NextLink \/ ReadProcess

WinTasksNext ==
  \/ WinGuest \/ Family \/ ReadFault
  \/ \E op \in {"children", "parent"}, e \in Eprocs : CallFamily(op, e)

WinTasksSpec == WinTasksInit /\ [][WinTasksNext]_winTaskVars

\* A read of memory returns.
WinTasksFairness == WF_winTaskVars(Family)

-----------------------------------------------------------------------------
(* Properties *)

\* The children of a process, as long as no structure is given to a new
\* process during the call: every process that has it for its parent and
\* stays, each one once, and nothing that another process created unless an
\* identifier was used twice.
ChildrenRight ==
  famOp = "children" /\ famAt = "done" /\ ~recycled =>
    /\ \A e \in stable : ppid[e] = key => e \in Range(seen)
    /\ IsInjective(seen)
    /\ ~again => \A e \in Range(seen) : maker[e] = of

\* The parent of a process is the one that created it, or the process
\* itself when its creator is gone; only an identifier that is used twice
\* can lead to another process.
ParentRight ==
  famOp = "parent" /\ famAt = "done" /\ ~again /\ ~recycled =>
    \/ parent = maker[of]
    \/ parent = of /\ maker[of] \notin stable

\* What process_for_each_child and process_parent say of a live family.
FamilyRight == ChildrenRight /\ ParentRight

\* Why it holds.  A creator's identifier is the one its children have; as
\* long as none is used twice, it is that of no other process.
Identifiers ==
  /\ \A e \in running : pid[e] # 0
  /\ \A e \in Eprocs : maker[e] # NoProc => pid[maker[e]] # 0 /\ ppid[e] = pid[maker[e]]
  /\ ~again => /\ \A o, u \in Eprocs : pid[o] # 0 /\ pid[o] = pid[u] => o = u
               /\ \A e, o \in Eprocs : pid[o] # 0 /\ ppid[e] = pid[o] => maker[e] = o

\* New processes are linked at the tail: with b[e] the number of the creation
\* of e, the list is in the order of b, whole and closed.
ProcsInOrder(b) ==
  LET list == running \union {PsHead}
  IN /\ b[PsHead] = 0 /\ \A e \in running : b[e] > 0
     /\ \A u, w \in running : b[u] = b[w] => u = w
     /\ \A u \in list : flink[u] \in list /\ \E p \in list : flink[p] = u
     /\ \A u \in list : flink[u] # PsHead => b[u] < b[flink[u]]
     /\ \A u \in list : \A w \in running : b[u] < b[w] => flink[u] # PsHead /\ b[flink[u]] <= b[w]

\* What the walk may come to: the processes that were on the list during the
\* call are those with a number.
Met(b) == {e \in Eprocs : b[e] > 0} \union {PsHead}

\* The processes that the walk has compared.
Passed(b) == {e \in Met(b) : b[e] < b[pos] \/ (e = pos /\ e # PsHead /\ famAt = "next")}

\* What the comparison of e has led to.
Compared(e) == IF famOp = "children" THEN ppid[e] = key => e \in Range(seen) ELSE pid[e] # key

\* The links that the walk can follow, those of exited processes too, are in
\* order, and none leads past a process that stays.
FamilyInOrder(b) ==
  /\ running \subseteq Met(b) /\ pos \in Met(b) /\ Range(seen) \subseteq Met(b) \ {PsHead}
  /\ \A e \in Met(b) \ {PsHead} : pid[e] # 0
  /\ \A u, w \in Met(b) : b[u] = b[w] => u = w
  /\ \A u \in Met(b) : flink[u] \in Met(b) /\ (flink[u] # PsHead => b[u] < b[flink[u]])
  /\ \A u \in Met(b) : \A w \in stable : b[u] < b[w] => flink[u] # PsHead /\ b[flink[u]] <= b[w]
  /\ famAt \in {"next", "read"} =>
       Range(seen) \subseteq Passed(b) /\ \A w \in stable \intersect Passed(b) : Compared(w)

\* The call compares the identifier it read first, and gives its process's
\* children only.
CallRight ==
  /\ stable \subseteq running
  /\ famAt = "read" => pos # PsHead
  /\ famAt # "idle" => famOp # "none"
  /\ famAt # "idle" /\ ~recycled =>
       /\ of \in Eprocs /\ pid[of] # 0 /\ key = IF famOp = "children" THEN pid[of] ELSE ppid[of]
       /\ IsInjective(seen)
       /\ ~again => \A e \in Range(seen) : maker[e] = of

\* Where the variables are.
WinTasksTypeOK ==
  /\ flink \in [Eprocs \union {PsHead} -> Eprocs \union {PsHead}] /\ running \subseteq Eprocs
  /\ pid \in [Eprocs -> Pids \union {0}] /\ ppid \in [Eprocs -> Pids \union {0}]
  /\ ncreates \in 0..MaxCreates
  /\ famOp \in {"none", "children", "parent"} /\ famAt \in {"idle", "next", "read", "done", "failed"}
  /\ of \in Eprocs \union {NoProc} /\ key \in Nat
  /\ pos \in Eprocs \union {PsHead} /\ seen \in Seq(Eprocs) /\ parent \in Eprocs \union {NoProc}
  /\ maker \in [Eprocs -> Eprocs \union {NoProc}] /\ stable \subseteq Eprocs
  /\ recycled \in BOOLEAN /\ again \in BOOLEAN

\* The invariant of the calls.
WinTasksInv ==
  /\ WinTasksTypeOK /\ Identifiers /\ CallRight
  /\ \E b \in [Eprocs \union {PsHead} -> 0 .. ncreates + 2] :
       ProcsInOrder(b) /\ (~recycled /\ famAt # "idle" => FamilyInOrder(b))
  /\ FamilyRight

\* Every walk ends: the guest does not create processes for ever.
FamilyEnds == famAt = "next" ~> famAt \in {"done", "failed"}

=============================================================================
