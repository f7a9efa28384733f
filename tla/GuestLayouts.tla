---------------------------- MODULE GuestLayouts ----------------------------
(***************************************************************************)
(* How the code gets at the fields of a guest's structures: the profile    *)
(* that Linux and Windows make of the symbols they are given               *)
(* (vminer/src/os/linux/profile.rs and windows/profile.rs), and the typed  *)
(* pointers that read a field with it (vminer/src/os/pointer.rs).          *)
(*                                                                         *)
(* A profile is made even when structures or fields are missing from the   *)
(* symbols; using one of them fails later.  The types of the fields are    *)
(* checked by the compiler and left out, and so is what is read.  An       *)
(* address of the upper half is negative, as in VirtualAddress::is_kernel. *)
(***************************************************************************)
EXTENDS Integers, Sequences, SequencesExt

CONSTANTS
  NoValue,     \* None: no offset, layout or address
  Pointers     \* the addresses pointers may hold

VARIABLES
  system,      \* "linux" or "windows"
  given,       \* the symbols that are given: which modules, addresses and structures
  profile,     \* the profile that was made of them
  built,       \* "no", "ok", or the error of the build
  access,      \* the last use of a pointer: its space, address, structure and field
  result       \* and what it did: an error, or the memory it read

layoutVars == <<system, given, profile, built, access, result>>

-----------------------------------------------------------------------------
(* What is asked of the symbols *)

LinuxStructs ==
  [dentry |-> <<"d_name", "d_parent">>,
   file |-> <<"f_path">>,
   list_head |-> <<"next", "prev">>,
   mm_struct |-> <<"exe_file", "mmap", "pgd">>,
   path |-> <<"dentry">>,
   qstr |-> <<"name">>,
   task_struct |-> <<"active_mm", "children", "comm", "flags", "group_leader", "mm", "pid",
                     "real_parent", "sibling", "tasks", "tgid", "thread_group">>,
   vm_area_struct |-> <<"vm_end", "vm_file", "vm_flags", "vm_next", "vm_start", "vm_pgoff">>]

WindowsStructs ==
  [_CLIENT_ID |-> <<"UniqueThread">>,
   _EPROCESS |-> <<"ActiveProcessLinks", "ImageFileName", "ImageFilePointer", "InheritedFromUniqueProcessId",
                   "Pcb", "Peb", "ThreadListHead", "UniqueProcessId", "VadRoot">>,
   _ETHREAD |-> <<"Tcb", "Cid", "ThreadListEntry", "ThreadName">>,
   _FILE_OBJECT |-> <<"FileName">>,
   _KPCR |-> <<"Prcb">>,
   _KPRCB |-> <<"CurrentThread", "KernelDirectoryTableBase">>,
   _KPROCESS |-> <<"DirectoryTableBase", "UserDirectoryTableBase">>,
   _KTHREAD |-> <<"Process">>,
   _KUSER_SHARED_DATA |-> <<"NtMajorVersion", "NtMinorVersion">>,
   _LDR_DATA_TABLE_ENTRY |-> <<"BaseDllName", "DllBase", "FullDllName", "InLoadOrderLinks", "SizeOfImage">>,
   _LIST_ENTRY |-> <<"Flink", "Blink">>,
   _MMVAD_SHORT |-> <<"EndingVpn", "EndingVpnHigh", "StartingVpn", "StartingVpnHigh", "u",
                      "LeftChild", "RightChild", "VadNode">>,
   _MMVAD |-> <<"FirstPrototypePte">>,
   _PEB |-> <<"Ldr">>,
   _PEB_LDR_DATA |-> <<"InLoadOrderModuleList">>,
   _RTL_AVL_TREE |-> <<"Root">>,
   _RTL_BALANCED_NODE |-> <<"Left", "Right">>,
   _UNICODE_STRING |-> <<"Length", "Buffer">>]

Structs(s) == IF s = "linux" THEN LinuxStructs ELSE WindowsStructs

\* define_for: the structures that are in the memory of a process, and
\* those that are in either.  All of Linux's are the kernel's.
SpacesOf(s, n) ==
  IF n \in {"_PEB", "_PEB_LDR_DATA"} THEN {"process"}
  ELSE IF n \in {"_LDR_DATA_TABLE_ENTRY", "_LIST_ENTRY", "_UNICODE_STRING"} THEN {"kernel", "process"}
  ELSE {"kernel"}

\* The addresses a profile needs, and the one it can do without.
Required(s) == IF s = "linux" THEN <<"__per_cpu_offset", "init_task", "linux_banner">>
               ELSE <<"PsActiveProcessHead", "PsLoadedModuleList">>
Optional(s) == IF s = "linux" THEN "current_task" ELSE "KiImplementedPhysicalBits"

\* The modules that hold the addresses and the structures: of the latter
\* the first that is there.
AddressModule(s) == IF s = "linux" THEN "System.map" ELSE "ntoskrnl.exe"
TypeModules(s) == IF s = "linux" THEN <<"vmlinux", "module.ko">> ELSE <<"ntoskrnl.exe">>

-----------------------------------------------------------------------------
(* The symbols *)

\* A structure of the symbols: its fields in order, each with an offset
\* that depends on the module, so that they can be told apart.  One of them
\* may be missing; the name of one may occur again further on, as it does
\* when anonymous members are flattened.
Fields(s, m, n) ==
  LET all == Structs(s)[n]
      place == IF m = "module.ko" THEN 4 ELSE 0
      at(k) == [name |-> all[k], offset |-> 8 * k + place]
      kept == SelectSeq([k \in 1 .. Len(all) |-> at(k)], LAMBDA f : f.name # given.field)
  IN kept \o (IF kept = <<>> THEN <<>> ELSE <<[name |-> kept[1].name, offset |-> 8 * Len(all) + 8]>>)

HasStruct(m, n) == m \in given.modules /\ n # given.struct

\* Every address and structure is given but at most one of each.
Given(s) ==
  [modules : SUBSET ({AddressModule(s)} \union Range(TypeModules(s))),
   address : Range(Required(s)) \union {Optional(s), NoValue},
   struct : {NoValue, CHOOSE n \in DOMAIN Structs(s) : Len(Structs(s)[n]) > 5},
   field : {NoValue} \union UNION {{Head(Structs(s)[n]), Last(Structs(s)[n])} : n \in DOMAIN Structs(s)}]

LayoutInit ==
  /\ system \in {"linux", "windows"}
  /\ given \in Given(system)
  /\ profile = NoValue /\ built = "no" /\ access = NoValue /\ result = NoValue

-----------------------------------------------------------------------------
(* The profile *)

\* Mutant: the last field of the name is taken.
FindOffsetLast(fields, name) ==
  IF \E k \in DOMAIN fields : fields[k].name = name
  THEN fields[CHOOSE k \in DOMAIN fields : fields[k].name = name /\ \A j \in k + 1 .. Len(fields) : fields[j].name # name].offset
  ELSE NoValue

\* StructRef::find_offset: the first field of the name.
FindOffset(fields, name) ==
  IF \E k \in DOMAIN fields : fields[k].name = name
  THEN fields[CHOOSE k \in DOMAIN fields : fields[k].name = name /\ \A j \in 1 .. k - 1 : fields[j].name # name].offset
  ELSE NoValue

\* Layouts::new: an offset for every field that is wanted, if it is there.
LayoutsNew(s, m) ==
  [n \in DOMAIN Structs(s) |->
     IF HasStruct(m, n)
     THEN [f \in Range(Structs(s)[n]) |-> FindOffset(Fields(s, m, n), f)]
     ELSE NoValue]

\* Profile::new: the addresses are required one after the other, then the
\* module of the structures.
MissingAddresses(s) == SelectSeq(Required(s), LAMBDA a : a = given.address)
Present(s) == SelectSeq(TypeModules(s), LAMBDA m : m \in given.modules)

ProfileNew ==
  /\ built = "no"
  /\ built' = IF AddressModule(system) \notin given.modules THEN "missing module"
              ELSE IF MissingAddresses(system) # <<>> THEN "missing symbol"
              ELSE IF Present(system) = <<>> THEN "missing module"
              ELSE "ok"
  /\ profile' = IF built' = "ok"
                THEN [layouts |-> LayoutsNew(system, Head(Present(system))),
                      optional |-> Optional(system) # given.address]
                ELSE NoValue
  /\ UNCHANGED <<system, given, access, result>>

-----------------------------------------------------------------------------
(* Pointers *)

\* The memory a read at an address goes to: KernelSpace and ProcSpace.
MemoryOf(space, addr) == IF space = "kernel" \/ addr < 0 THEN "kernel" ELSE "process"

\* Pointer::field, read_field and read_pointer_field: a null pointer, a
\* structure and then a field that is not in the profile are refused.
ReadField(space, addr, n, f) ==
  IF addr = 0 THEN [error |-> "null pointer"]
  ELSE IF profile.layouts[n] = NoValue THEN [error |-> "missing symbol"]
  ELSE IF profile.layouts[n][f] = NoValue THEN [error |-> "missing field"]
  ELSE LET at == addr + profile.layouts[n][f] IN [error |-> "none", memory |-> MemoryOf(space, at), addr |-> at]

\* What a use does depends on nothing that came before but the profile: one
\* use in each behaviour is enough.
UsePointer ==
  /\ built = "ok" /\ access = NoValue
  /\ \E n \in DOMAIN Structs(system), addr \in Pointers :
       \E f \in Range(Structs(system)[n]), space \in SpacesOf(system, n) :
         /\ access' = [space |-> space, addr |-> addr, struct |-> n, field |-> f]
         /\ result' = ReadField(space, addr, n, f)
  /\ UNCHANGED <<system, given, profile, built>>

LayoutNext == ProfileNew \/ UsePointer

-----------------------------------------------------------------------------
(* Properties *)

\* The profile is made unless an address it needs or every module that
\* could hold the structures is missing.  Whatever else the symbols lack,
\* a field is read where the preferred one of the modules that are there
\* puts it, or not at all: never through a null pointer, at the offset of
\* another field, or of another module's layout; and a pointer into a
\* process that leads to the upper half reads the kernel's memory.
FieldsWhereSymbolsSay ==
  /\ built = "ok" => /\ AddressModule(system) \in given.modules
                     /\ given.address \notin Range(Required(system))
  /\ access # NoValue =>
       LET types == IF system = "windows" THEN "ntoskrnl.exe"
                    ELSE IF "vmlinux" \in given.modules THEN "vmlinux" ELSE "module.ko"
           fields == Fields(system, types, access.struct)
           position == CHOOSE k \in DOMAIN Structs(system)[access.struct] :
                         Structs(system)[access.struct][k] = access.field
           missing == given.struct = access.struct \/ given.field = access.field
       IN /\ result.error = "none" <=> access.addr # 0 /\ ~missing
          /\ result.error = "none" =>
               /\ [name |-> access.field, offset |-> result.addr - access.addr] \in Range(fields)
               /\ result.addr - access.addr = 8 * position + (IF types = "module.ko" THEN 4 ELSE 0)
               /\ result.memory = "process" => access.space = "process" /\ result.addr >= 0

=============================================================================
