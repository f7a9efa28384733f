---------------------------- MODULE KvmProcesses ----------------------------
(***************************************************************************)
(* The processes that meet when vminer reads the registers of a KVM guest: *)
(* vminer processes, and the QEMU processes they are given the PIDs of.    *)
(***************************************************************************)
EXTENDS Naturals

CONSTANTS
  Insts,       \* vminer processes, each calling Kvm::create once
  Vms,         \* QEMU processes
  NoInst,      \* no vminer process
  Target,      \* Target[i]: the QEMU process that i is given the PID of
  VcpuCount    \* VcpuCount[v]: the number of vCPU descriptors v has open

ASSUME ProcessesAssumption ==
  /\ NoInst \notin Insts
  /\ Target \in [Insts -> Vms]
  /\ VcpuCount \in [Vms -> Nat]

ASSUME SomeInst == Insts # {}

=============================================================================
