------------------------------ MODULE VmLease -------------------------------
(***************************************************************************)
(* What a ptrace session promises to the QEMU process it borrows: at most  *)
(* one vminer process holds it at a time, only its holder modifies it, and *)
(* it is given back as it was found.  A process whose holder was killed or *)
(* interrupted, or that died, is lost: nothing is promised about it.       *)
(***************************************************************************)
CONSTANTS
  Insts,       \* who may hold a process
  Vms,         \* the processes
  NoInst       \* nobody

VARIABLES
  holder,      \* holder[v]: who holds v, or NoInst
  intact,      \* intact[v]: v has its own text and registers
  lost         \* lost[v]: nothing is promised about v any more

leaseVars == <<holder, intact, lost>>

LeaseInit ==
  /\ holder = [v \in Vms |-> NoInst]
  /\ intact = [v \in Vms |-> TRUE]
  /\ lost = [v \in Vms |-> FALSE]

\* A step concerns one process.
OthersKept(v) ==
  \A w \in Vms \ {v} : holder'[w] = holder[w] /\ intact'[w] = intact[w] /\ lost'[w] = lost[w]

Take(v) ==
  /\ ~lost[v] /\ holder[v] = NoInst /\ intact[v]
  /\ holder'[v] \in Insts /\ intact'[v] /\ ~lost'[v]
  /\ OthersKept(v)

Modify(v) ==
  /\ ~lost[v] /\ holder[v] # NoInst
  /\ holder'[v] = holder[v] /\ ~lost'[v]
  /\ OthersKept(v)

GiveBack(v) ==
  /\ ~lost[v] /\ holder[v] # NoInst /\ intact[v]
  /\ holder'[v] = NoInst /\ intact'[v] /\ ~lost'[v]
  /\ OthersKept(v)

Lose(v) ==
  /\ lost'[v]
  /\ OthersKept(v)

LeaseNext == \E v \in Vms : Take(v) \/ Modify(v) \/ GiveBack(v) \/ Lose(v)

LeaseSpec == LeaseInit /\ [][LeaseNext]_leaseVars

=============================================================================
