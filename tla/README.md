# vminer in TLA+

vminer introspects running virtual machines from the outside. It attaches to
the QEMU process of a KVM guest (or opens a dump of one), reads the guest's
registers and physical memory, translates virtual addresses by walking the
guest's page tables, finds the guest's kernel, and answers questions about its
processes, threads, memory areas, modules and call stacks.

This directory models the parts of it where a mistake is hard to see in a test:
the session in which vminer takes over a thread of QEMU, the loops that read and
search guest memory, the dump file, the walks of the data structures of a Linux or a
Windows guest that runs meanwhile, the call stacks of both, the symbols that all of this
needs, and the interface to C programs. Paths below are relative to the root of
the repository.

## Inventory

| Component | State | Operations | Hard part | Module |
|---|---|---|---|---|
| KVM attach: `vminer/src/backends/kvm/{mod,ptrace,x86_64}.rs`, `kvm_patch/` | the saved registers and text of the QEMU thread, the socket, the listener thread | `get_regs`, `attach`, `start_listener`, `RawTracee`, `Tracee`, the payload | two processes and a listener thread interleave; signals, deaths, kills; every early return runs drops | `KvmProcesses`, `Ptrace`, `RegsSocket`, `KvmAttach`, `VmLease` |
| KVM memory: `kvm/mod.rs:272-408` | the mapping of guest memory in QEMU | `find_memory`, `with_default_qemu_mappings`, `create` | text parsing, constants of QEMU's memory layout | not modelled |
| Virtual reads: `vminer-core/src/lib.rs`, `backend.rs` | position in the buffer and in the address space | `read_virtual_memory`, `try_read_virtual_memory` | page boundaries, end of the address space, a guest that remaps | `PageRead` |
| Translation and search: `vminer-core/src/arch`, `backend.rs`, `mem.rs` | the iterator over the occurrences | `virtual_to_physical`, `find_in_kernel_memory`, `iter_in_kernel_memory`, `Memory::search` | chunk and page boundaries, restarting inside a page, missing pages | `Mmu`, `KernelSearch` |
| Physical memory: `vminer-core/src/mem.rs` | mappings | `read`, `search`, `dump`, `MemRemap` | offsets of mappings | `DumpFile`, `KernelSearch` |
| Dumps: `vminer/src/backends/kvm_dump` | the file and the buffer in front of it | `DumbDump::write`, `read` | partial writes, crashes | `DumpFile` |
| Linux guests: `vminer/src/os/linux` | none of its own: it reads a live kernel | list walks, tasks, VMAs, modules, paths | the guest runs while its lists are followed | `LinuxTasks`, `LinuxModules`, `GuestLayouts` |
| Windows guests: `vminer/src/os/windows` | none of its own: it reads a live kernel | process list, tree of areas, software PTEs, PDB record of an image, search for the kernel | as above; reads that follow an entry which the guest changes; records at page boundaries | `WindowsTasks`, `WindowsVad`, `WindowsMemory`, `WindowsPe`, `GuestLayouts` |
| Call stacks: `os/{linux,windows}/callstack.rs` | frames, modules | unwinding | loops over guest data, a thread interrupted anywhere, tables that are partly unmapped | `LinuxUnwind`, `WindowsUnwind` |
| Symbols: `vminer-core/src/symbols`, `os/windows/loader.rs`, `os/{linux,windows}/profile.rs` | symbol tables, module cache, directory of PDB files, layouts of structures | loading, lookup, formatting, DWARF and PDB types, typed pointers | threads and processes that load at the same time, interrupted downloads, nested anonymous members, missing symbols | `SymbolCache`, `SymbolTable`, `DwarfTypes`, `PdbTypes`, `GuestLayouts` |
| C interface: `native/src` | the last error of a thread, backends and guests | every call of `os.rs`, `backend.rs`, `error.rs`; arrays and strings | callbacks that call again, ownership on failure, buffers at their limit | `NativeApi` |
| Python bindings, command line tools: `python`, `bin` | handles | forwarding | - | not modelled |

How they interact: a backend (`Kvm`, `DumbDump`) offers registers and a `Memory`;
`Backend` adds translated reads and searches on top of both; the `Os`
implementations use only `Backend`; the bindings and tools use only `Os` and
`Backend`. The only concurrency inside one vminer process is the listener thread
of `get_regs`, the callers that share a `SymbolsIndexer`, and the threads of a C program.
Everything else that moves is outside: the QEMU process, other vminer processes (which
share the socket path and the directory of PDB files), and the guest, which
goes on running while its memory is read. `README.md:108` advises to pause the
guest; the models of guest structures do not assume it, so what they show is what
still holds when nobody did.

What makes each part correct:

* attach: QEMU gets back what was taken, on every path; an answer is the answer of
  the guest that was asked; a session ends.
* reads and translation: a byte is the one at its own virtual address; a hole is
  the only thing that is passed over; a search misses nothing and invents nothing.
* dumps: a dump that is accepted is the memory that was dumped.
* guest structures: what is reported was there; what was there all the time is
  reported; a walk ends whatever the guest does to the structure under it.
* call stacks: the frames reported are those of the thread, from the top and
  without a gap.
* symbols: an address gets the symbol that contains it; a module is loaded once, and from
  its own file; a field is read where the symbols put it.
* C interface: a thread finds its own error; what the program gave away is dropped once;
  nothing is written past a buffer.

## Modules

### The attach session

`KvmProcesses` declares the vminer processes (`Insts`), the QEMU processes
(`Vms`), which one each vminer process attaches to (`Target`) and the number of
vCPUs of each guest (`VcpuCount`).

`Ptrace` is the remote thread and the operating system's side of ptrace (external,
as the code uses it), with `RawTracee` and `Tracee` on top of it: attaching, the
stop and its signal, saving and patching the text, a remote call, the two drops.

`RegsSocket` is the path `/tmp/get_fds`, `start_listener` with its thread
(bind, accept, the reads until the end of the stream), and the payload of
`kvm_patch` that runs in QEMU (connect, one message per vCPU).

`KvmAttach` composes them into `get_regs`: the main thread's program counter goes
through `start_listener`, `attach` (mmap, two string writes, dlopen, the payload,
dlclose), the drops on every early return, and the join. Its variables: `pc`
and `callee`, where the main thread is and which remote function it calls; `handle`,
whether the guard that calls dlclose is armed; `result`; `libs` and `pages`, what is
loaded and mapped in QEMU; counters of the failures so far; and `spoiled`, set
when a tracer was killed or a wait interrupted.
The environment sends signals to QEMU (at most `MaxSignals`), kills QEMU
(`MaxDeaths`), kills vminer (`MaxCrashes`) and interrupts its waits
(`MaxEintr`). Every system call may fail where the code has a `?`, with two exceptions:
the write that puts the text back (`ptrace.rs:223`) fails only when QEMU is dead, and
`PTRACE_ATTACH` (`ptrace.rs:25`) is refused for a process that is stopped already, where the kernel
would accept it.

`VmLease` is the abstract specification: a QEMU process is free or leased to one
vminer process, which may alter it only while it holds the lease and gives it
back unaltered, unless it is killed or its wait is interrupted. `KvmAttach`
implements it (`ImplementsLease`).

### Reads

`PageRead` is one call of `read_virtual_memory` or `try_read_virtual_memory`: one
step per page, with the position in the buffer and the address, against a page
table that the guest changes between two steps (`MaxRemaps`). A page is mapped,
unmapped or failing. Addresses wrap at `Space` (2^64 in the code).

### Translation and search

`Mmu` walks the tables: levels, large pages, invalid entries, tables outside
memory and tables whose read fails in another way (`IoTables`), which ends a search. `KernelSearch` adds the default `search` of a page in overlapping chunks,
`find_in_kernel_memory` from an address, and the iterator that restarts behind an
occurrence, with a guest that writes between two calls (`MaxWrites`). The needle
is a run of cells; what memory holds is the set `hits` of the places where it
begins.

### Dumps

`DumpFile` writes a dump item by item through a `BufWriter` of capacity `BufCap`
on a disk that may write less than asked or fail, of a memory any read of which may fail,
with a crash at any moment; it
reads what is there with the checks of `DumbDump::read`, and reads memory through
`MemRemap`.

### Linux guests

`LinuxTasks` walks the task list (`iterate_list`) for three questions: all the
processes, the process with an identifier, and the process whose page table the vCPU
uses (`current_thread` without `current_task`). One action is one read of guest memory:
`Advance` reads `tasks.next` and calls the closure; `ReadMm`, `ReadActiveMm`, `ReadPgd`
and `ReadFlags` are `process_mm`, `process_pgd` and `process_is_kernel`. Between two
reads the guest forks, exits, reaps and schedules kernel threads. A reaped task keeps
its next pointer, as after `list_del_rcu`, until its structure is given to a new one;
`reused` records that this happened during the walk, and the properties that depend on
it say so. `always`, `ever` and `held` record what the list was during the walk.

`LinuxModules` is the walk of the VMAs by `process_for_each_module`, `module_span` for
each module, the vector `Context.modules` of the unwinder, and the two lookups in it by
address. Between two reads the process maps, unmaps and shrinks VMAs. The structure of an
unmapped VMA keeps its contents (`Reuse` is FALSE in the run): when it is used again
under the walk, `module_span` can read the start of one VMA and the end of another, and
the spans that `LookupsRight` needs (`Searchable`) may be empty.

`LinuxUnwind` is the loop of `iter` with `handle_invalid_address` and
`get_unwind_data`, on x86_64 and on aarch64. The thread that is unwound is a small machine
that pushes, calls and returns through functions with and without a frame pointer, leaf
functions that keep the return address in the link register (aarch64), functions without
unwind rules, of JIT code and of the kernel, and can be interrupted at every instruction; `chain`
is its true call chain when its registers were read. It may go on running, and so overwrite
its stack, while it is unwound. All the arms of `callstack.rs:320-385` are there: a CFA on the
stack pointer, the base pointer (which aarch64 does not have here, `callstack.rs:400-404`),
another register or an expression, a row that gimli cannot evaluate (the `unwrap` of line 328
panics), and every `RegisterRule` for the base pointer and the return address. `Shape` is not
state of the program: it states what the compiler guarantees about each instruction. The
rules are assumed to agree with it where they have a meaning, and may instead be of a kind
that `iter` refuses. A return address that is still in the link register has no rule, or one that
says the register is unchanged; nothing is assumed away there. `MaxFrames` bounds the frames of
a call stack: with a rule of the second kind the loop need not end.

### Windows guests

`WindowsTasks` is `process_for_each_child` and `process_parent`: a walk of the list at
`PsActiveProcessHead` that compares identifiers, one read of guest memory per action. The
guest creates processes and takes exited ones off the list between two reads, and gives
their identifiers (`again`) and their structures (`recycled`) to new ones; what these two
break is stated by the properties and nothing else is. `maker` is who really created a
process: a structure that is recycled after it was given to the closure has another one,
so `ChildrenRight` excludes it. (That a fresh identifier does not help there was met in the
proof; it takes four identifiers to happen, which is why the run has four.)

`WindowsVad` is `process_find_vma_by_address` and `process_for_each_vma`. The tree is
rebalanced one write of a link after the other, areas are inserted and removed. The
layouts are those of the two generations of Windows that the profile distinguishes, and
of a profile that has no links: page numbers in one word or in a low and a high part,
and a root that is a node inside of the process or a pointer. The code asks for these with
three separate tests of the profile (`windows/mod.rs:69`, `357`, `755`); that they agree, as in the
profiles of real systems, is assumed (`era`).

`WindowsMemory` is `read_virtual_memory_raw` of `memory.rs`: the entry that stopped
the translation is a transition entry, a prototype entry, one that leads to the VAD, a
demand-zero page or the page file. One action is one read, any of which may fail (`Fails`: the
translation, the tree of areas, the prototype entry, the frame; `lost` records which), and the guest
trims, faults in or gives away the page in between. Frame numbers have their inverted bit
(`unswizzle`), which is what tells two of the kinds apart on newer systems.

`WindowsPe` is `pe_get_pdb_guid` with `find_kernel`, `quick_check` and `build`: the
pages of an image go through a buffer with the end of the page before, and the first
CodeView record with a name counts. A failing read ends the search for the kernel
(`map_while`, `windows/mod.rs:275`).

`WindowsUnwind` is `iter_callstack` with `find_runtime_function`, the epilog detection,
the undoing of unwind codes, chained functions and machine frames. Like in `LinuxUnwind`
a small machine runs, is interrupted anywhere and keeps its true chain of callers;
`hidden` says which entries of the tables are not mapped. The functions of the machine have rbp or no
frame register; the code takes any frame register for rbp (`callstack.rs:285`, `559`), so nothing is
claimed of functions that have another one.

### Symbols

`SymbolCache` goes from `module_symbols` over the `SymbolsIndexer` of the process, with
its once cells, to the loader and the directory of PDB files that all processes of the
user share. A file is the set of its pieces that were written; a write, a download, a
read or a parse can fail, a parse can panic (which ends the process, or unwinds out of the once
cell), and a process can be killed between two steps. A download that cannot be parsed leaves its
file behind and counts as no symbols (`loader.rs:77`, `93-95`). `spoiled` holds the PDBs
whose file was read while it was being written or left unfinished: by a thread of a process
that was killed, or that ended because another of its threads panicked over a file.

`SymbolTable` reads, sorts and looks up the symbols of one module and formats an
address. Sorting is unstable and a binary search may stop at any of several equal
keys: a lookup is the set of what it may return.

`DwarfTypes` and `PdbTypes` are the readers of structures: the entries of a unit or of
the type stream, in the order in which they come, then the structures with the fields of
their anonymous members, or with the fields behind forward references. An entry that has a child,
a name or a type of an unexpected form is passed over with a warning (`Readable`,
`dwarf/mod.rs:556`), where the rest of the file is kept. Both run
against small families of files that contain the cases the code distinguishes.

`GuestLayouts` makes the profile of a Linux or a Windows guest out of the symbols that
are given, some of which are missing, and reads fields through typed pointers with it.

### The C interface

`NativeApi` has the threads of a C program, each with a stack of calls in progress: a call
may call the backend of the program back, and the callback may call again. It has the
error of each thread, who holds each backend (the program, a call, a guest) and
when its drop callback runs (in one step: it does not call the interface again), and how arrays and strings are filled. The functions of
`os.rs` are grouped by how they return (a value, an array, a string, nothing).

### Compositions

The parts of the support for one kind of guest do not share state, so they are put side by
side: `MCLinux`, `MCWindows`, `MCSymbols` and `MCBackends` choose in the first state which
part a behaviour is about (`part`); the others stay as they are. `KvmAttach`
composes parts that do interact, and so does `KernelSearch` with `Mmu`.

## Runs

| Run | Instance | Shows |
|---|---|---|
| `attach_one` | one vminer process (two of them are in the theorems), a guest with 2 vCPUs, 2 signals, 1 kill, 1 death, 1 interrupted wait | QEMU gets its text and registers back before it is released (`Restored`), nothing stays attached after the return (`Released`), remote calls run on patched text and the saved state is the original (`CallsOnPatchedText`), the session is a lease (`ImplementsLease`), and `get_regs` returns (`Terminates`) |
| `attach_shared` | two vminer processes on one guest, one may be killed | when they compete, dlsym, the payload and dlclose find the library loaded (`LibraryLoaded`; a missing dlclose is not covered) and a successful answer has the registers of the right guest (`OwnRegisters`); the other properties are proved for any number of them |
| `attach_crossed` | two on two, nothing fails | violated: an answer can come from the other guest |
| `attach_halted` | one, one signal | violated: QEMU left stopped |
| `search` | all table contents with 2 entries per table and 3 levels, a table that cannot be read, pages larger than the buffer, one occurrence and one write of the guest | no occurrence is missed (`NothingMissed`), each is returned once and in order, and in a page that fits in the buffer nothing else is (`FoundRight`) |
| `search_huge` | pages larger than the buffer | violated: wrong addresses returned |
| `page_read` | pages of 3 cells, 9 addresses, lengths to 9, one remap | bytes in place (`InPlace`), only holes skipped (`OnlyHolesSkipped`), failure in order (`FailsInOrder`), the loop returns (`Returns`) |
| `backends` | five layouts of mappings, 0 to 2 vCPUs; a C program with two threads, two backends and 3 calls up to depth 2, buffers of 0 to 2 or none, 3 items | an accepted dump is exact (`ReadIsExact`), Ok means complete (`OkIsComplete`), remapping is right (`RemapFaithful`); a thread sees its own error (`OwnLastError`), a backend is dropped once and when nothing uses it (`DroppedOnce`), buffers hold the first items, are not overrun and strings end (`BuffersRight`) |
| `linux` | tasks: two processes, a kernel thread, two memory descriptors, 3 forks, 1 switch, 1 failing read; modules: three VMAs of two files in 4 pages, two steps of the process; call stacks: programs of both architectures with every kind of rule, a stack of 6 words, at most 7 frames, one failing read, two instructions executed meanwhile | no process that stays is missed (`NoneMissed`), none is given twice and none that never was (`EachOnce`), what is found is what was looked for (`FoundMatches`), the walk ends (`WalkEnds`); modules are sorted and not empty and both lookups give the module that contains the address (`LookupsRight`); frames are a prefix of the true chain, and when the unwinding ends well all of it, or its part down to a function without rules, or the one frame of a function with its return address in the link register (`CallStackTrue`) |
| `tasks_zombie` | the tasks of `linux` without failing reads | violated: one zombie ends the search for the current process |
| `symbols` | 3 threads of 2 processes, 4 modules, PDBs of 3 pieces, 3 calls, one kill, one fault; tables of up to 3 symbols; small families of DWARF units and PDB streams; every single missing module, structure, field or address of a profile | symbols are whole unless a file was left unfinished (`WholeUnlessSpoiled`) and those of the right PDB (`RightPdb`), what is kept stays (`KeptForEver`), every call returns (`Answered`); lookups match the set of symbols (`LookupsFaithful`), and the text of an address adds up to it, but for the arm named in the findings (`TextDenotesAddress`); a structure is there exactly when one of its definitions can be read, with the size, fields and offsets of the last such one (`StructsRight`), and a field is read there or not at all (`FieldsWhereSymbolsSay`) |
| `windows` | 4 process structures, 4 identifiers, 2 creations; 4 areas, one change; 3 frames, 3 moves; pages of 5 cells, two images; 2 calls or interrupts and one instruction executed meanwhile | children and parents are right unless an identifier or a structure is used again (`FamilyRight`), the walk ends (`FamilyEnds`); an area that is found has the page, and none is missed in a tree that keeps still (`VmaLookupRight`, `VmasInOrder`); a page that is out of the tables but in memory is read, or a read that it needs failed (`SoftPagesRight`); the kernel is found unless the search is cut off, and what is found is the kernel (`KernelFound`); frames are those of the true chain whichever pages of the tables are missing (`WinCallStackTrue`) |

Why the bounds are enough: two signals cover the one that competes with the SIGSTOP of
the attach and one during a remote call; one kill or death puts a failure at every
point of the session; a third process would meet the same two relations (same guest,
same path) that two already have. Three pages with three cells give a read a first, a
middle and a last page, each entered or left at every offset, and a wrap over
the end of the space. Two entries per table and three levels give every pair of
neighbours (same table, next table, a large page beside a table, a hole between).
An occurrence that is there and one that the guest writes give overlap, adjacency
and the restart behind the first. Chunks of
2 and mappings of 2 to 4 cells put a chunk, a flush and a crash at every boundary.
Three tasks give the walk a first, a middle and a last one, each of which the guest
can unlink while the walk stands on it or on a neighbour; a third fork in a list of two
gives a structure to a new task under the walk. Three VMAs give a module of one, two or
three of them, before or after a hole or another file; the two files are alike, so the first
VMA is never of the second one. A stack of six words holds two frames of
every kind and three of most; two instructions are enough to return and overwrite the return
address with another call. Of tables that no entry points to, the run has only empty ones.

Four process structures with two creations give a process its parent, a brother, and one
that takes over an identifier or a structure under the walk. Four areas make every shape of
tree with a rotation above, at and below the search, and areas that cross a boundary of the
low part of a page number. Three moves take a page out of the tables, give its frame away
and bring it back. Images of one to three pages have a first, a middle and a last page with
a record at every place of each, and a second image before or after. Two calls or
interrupts put every kind of function above every other.

Two threads of one process meet in a once cell, and a thread of another process meets them
in the directory; three calls are a failing load, the retry and a second module. Three
pieces are a file that is too short to be recognized, one that is recognized and not whole,
and a whole one. Two threads with calls of depth two put a call of another thread, and one
of the callback, between the failure and the look at the error. Buffers of length two
are shorter than, as long as and longer than what is put in.

Deadlock is not checked: every one of these systems ends in a final state.

## Fairness

`KvmAttach!FairSpec` has weak fairness of the main thread, of the listener thread where it has
something to accept or to read (`ListenerAnswers`; a failing accept is never fair)
and of the QEMU thread, and of the delivery of a stop to a traced thread: the
operating system schedules runnable threads and a traced thread reports its stop.
No failure, signal, kill or death is fair. `Terminates` is claimed for
one vminer process; with two on one path, one can remove the other's socket and the
join then waits for an accept nobody answers. `PageRead` has weak fairness of the
loop's own step and of none of the guest's; so have the walks of the process lists
(`TaskWalk` in `LinuxTasks`, `Family` in `WindowsTasks`): a read of guest memory returns.
They end because the guest creates finitely many tasks (`MaxForks`, `MaxCreates`) while a
walk has to come to its end. `SymbolCache` has weak fairness of each thread: a download, a read
or a write returns, if only with an error, and a thread that waits for a once cell
is woken when the cell is filled or given up. A kill is never fair. No liveness is claimed
for the unwinders, whose loops end by a read that fails.

## Proofs

Eight modules hold theorems. Each safety theorem follows from an inductive invariant that
is defined, with the reasons for it, at the end of the module it is about.

| Module | Invariant | Theorems on properties of a run |
|---|---|---|
| `KvmAttachProofs` | `TypeOK`, `SessionInv`, `LibraryInv`, `AnswerInv` | `Restored`, `Released`, `CallsOnPatchedText`, `ImplementsLease`, `LibraryLoaded`, `OwnRegisters` (one guest) |
| `PageReadProofs` | `LoopInv` | `InPlace`, `OnlyHolesSkipped`, `FailsInOrder` |
| `SymbolsProofs` | `LoaderInv`, `TableInv` | `RightPdb`, `WholeUnlessSpoiled`, `KeptForEver`, `LookupsFaithful`, `TextDenotesAddress` |
| `BackendsProofs` | `NativeInv`, `DumpInv` | `OwnLastError`, `DroppedOnce`, `BuffersRight`, `ReadIsExact`, `OkIsComplete`, `RemapFaithful` |
| `LinuxProofs` | `LinuxTasksInv`, `ModulesInv`, `UnwindInv` | `NoneMissed`, `EachOnce`, `FoundMatches`, `LookupsRight` (no structure used again), `CallStackTrue` |
| `WindowsProofs` | `WinTasksInv`, `MemInv` | `FamilyRight`, `SoftPagesRight` |
| `WindowsVadProofs` | `VadInv`, `OrderInv` | `VmaLookupRight`, `VmasInOrder` |
| `NatLemmas` | | none: the least element of a set of numbers, induction up to a number, sequences as functions, for the other modules |

**Attach.** For any number of vminer and QEMU processes and any number of vCPUs. In
`SessionInv` the phase of a vminer process determines whether it traces its target,
whether the text of the target is patched, what is saved, and whether the thread is
stopped. `Restored` alone is not inductive: a drop puts back what was saved, and that this
is the original needs to be known from the moment of the saving, across every step of the
other processes, by ptrace's rule that a thread has one tracer. `LibraryInv` counts for
each QEMU process those who can still make it call dlclose: a session that holds the
handle, one that is about to call, one whose dlopen returned and which has not seen it yet,
and one that was killed and whose call is in the registers of the thread, or among those
that the next tracer saved and will put back. There are never more of them than references,
so dlclose finds the library loaded. `AnswerInv` says that a listener returns, whole and
in order, what the payload that it accepted sent. From it follows `OwnRegisters`
when all processes look at one guest (`OwnRegistersOfOneGuest`, with that hypothesis);
without it the property is false, which is `attach_crossed`. Assumptions:
`ProcessesAssumption`, `SomeInst`, `PtraceAssumption`, `KvmAttachAssumption` (types of the
constants and a value that is not a process).

**Reads.** For every page size and every address space that is a multiple of it and larger
than one page (`PageReadAssumption`). `LoopInv` relates the address, the position and the
length that remain; the lemmas are about the offset of an address in its page and the
distance to the next one.

**Symbols.** For any processes, threads, modules and kills (`CacheAssumption`;
`MarksAssumption`: the values that mark an absent file or symbol are not those of a
present one). `OneLoader`: who is past the once cell has the key to itself and
found nothing there; `FilesRight`: a file that is not whole has a writer who wrote what is
in it, or is spoiled. The second one is what makes `WholeUnlessSpoiled` inductive, and its
proof showed that a panic spoils files too.

**Symbol tables.** For any symbols, spans and addresses (`TableAssumption`). Whatever order
the unstable sorts leave equal keys in, the two tables have the elements of the file
(`Orders` is about bijections) in their order. The recursion of the binary search has a
solution on every length up to that of the table, and on sorted keys it finds
all the equal ones, or the place of the first greater one: both by looking at the least length
for which it would not. From that, each lookup is right whichever equal element it returns, and
the base and the offset in the text of an address add up to the address, except where the text is
`Reversed`.

**C interface.** For any threads, backends, depth of calls and capacity of buffers
(`NativeAssumption`). `HoldersRight` says who may use a backend in each step of a call, and
that two calls never own one; `FillsRight` what a buffer holds half way.

**Dumps.** For any guests, mappings, sizes of chunks and of the buffer (`DumpAssumption`: a
chunk is not smaller than the buffer, as in the code). `DumpInv`: what is on the disk and
what is in the buffer make together a beginning of the dump of the guest, and the position of
the writer says how long a beginning; so a crash leaves a beginning, and only the whole one
has the length that the header of the file asks for. The dump is the concatenation of
all mappings; its length and where each mapping is in it follow by induction over the mappings.

**Tasks of Linux, processes of Windows.** For any number of tasks, forks, exits and reads
(`TasksAssumption`, `WinTasksAssumption`: at least two structures and two identifiers, for
the system process and its first child). Both kernels link new tasks at the end, so there
is a numbering of the tasks, by creation, that grows along the list, and also along the
pointers of those that were unlinked and that the walk may still stand on; none of these
pointers leads past a task that stays. The invariant is that such a numbering exists
(`ListInOrder` and `WalkInOrder`, `ProcsInOrder` and `FamilyInOrder`) and that the walk has
given the closure what is behind it. `Identifiers` adds, for Windows, that an
identifier that was not used again leads to the creator.

**Modules of a Linux process.** For any VMAs, files, pages and changes (`ModulesAssumption`),
when no structure of a VMA is used again (the hypothesis `~Reuse` of the theorem, which is
also that of the run). `ListRight`: the links of the VMAs lead to higher addresses, and so do
those of the VMAs that were unmapped and on which the walk may stand; with this the modules that
were pushed are sorted and not empty whatever the process does (`Sorted`,
`WalkUpwards`). `SpansRight`: in a process that keeps still each of them is a run of VMAs of one
file, which is what the two lookups need.

**Call stacks of Linux.** For any code, any depth of the stack, and a thread stopped at any
instruction that goes on running meanwhile (`UnwindAssumption`). What the compiler guarantees and
this code relies on is assumed and named: `CodeAssumption`, that functions keep the calling
convention (`Shape` is how deep each instruction is in its frame, and where its return address and
the base pointer of the caller are), and `RulesAssumption`, that the unwind rules, where there are any
and they have a meaning to `iter`, describe that shape. They may also be refused, or impossible to
evaluate. TLC evaluates both assumptions on the programs of the run. `ProcessRight`: the stack and the
link register are the chain of calls, each return address and saved base pointer at its place. `UnwinderRight`: the
unwinder is in the frame behind those it gave away, with the base pointer of that frame or
none, and once the rules were read the CFA is the stack pointer of the caller. Writes
below the stack pointer at which the registers were read keep this, which is where `Untouched`
comes from.

**Areas of Windows.** For any areas, any width of the low part of a page number and any
number of changes (`VadAssumption`: the areas are in order and do not overlap). `TreeRight`:
there are a set of nodes and the set of nodes below each that make the links, with those
that a rotation under way has replaced put back, a search tree; lemmas show it for an
inserted leaf, a removed one and a finished rotation. `SearchRight`: in a tree that keeps still
the areas with the page are below the node of the search, on the side it turns to. `Bounds`
shows that the page numbers put together by `vma_start` and `vma_end` are those of the area,
in both layouts. `WalkOrdered` is about the recursive walk: the calls in progress have,
between them, exactly what was not given to the closure, the inner calls before the
outer ones, and all of it behind what was given.

**Software page table entries.** For any frames and any width of frame numbers
(`MemoryAssumption`). `FollowsPage`: each step of the read stands on an entry of the page,
of now or of earlier in the read, as long as its frame was not given away, and the VAD is only asked
for when the process had not used the page; so an error that is not one of a read on the way
(`Needed`) is that of a page on disk, or of a missing process. A frame that is given to another page
during the read is left out (`reusedFrame`): what is read then is the other page.

TLC checked each of these invariants on a small instance before it was proved. They are
not in a run: the properties that follow from them are in both.

Induction over data goes through the least element of a set of numbers (`LeastNat`,
`InductionUpTo`): the library's induction theorems take an operator as a parameter, which the
prover does not instantiate.

Only model-checked:

* liveness (`Terminates`, `Returns`, `WalkEnds`, `FamilyEnds`, `Answered`), which is beyond
  the prover;
* `NothingMissed`, `FoundRight`, `StructsRight`, `WinCallStackTrue`: `Mmu`, `KernelSearch`,
  `DwarfTypes`, `PdbTypes` and `WindowsUnwind` use RECURSIVE operators, which the prover does
  not handle;
* `KernelFound`: where a record is in the buffer is made of products and quotients by the size
  of a page, which is a variable here, and the provers do linear arithmetic;
* `FieldsWhereSymbolsSay`: it is about two fixed lists of names, all of which the run has.

## Findings

* `attach_crossed`: `"/tmp/get_fds"` is the same path for every session
  (`kvm/mod.rs:253`, `kvm_patch/src/lib.rs:28`).
* `attach_halted`: the first stop after `PTRACE_ATTACH` need not be its SIGSTOP
  (`kvm/ptrace.rs:28`).
* `search_huge`: the index of an occurrence in a page is relative to the chunk
  (`vminer-core/src/mem.rs:60`).
* `tasks_zombie`: `process_pgd` is an error for a zombie, and `current_thread` passes it
  on (`vminer/src/os/linux/mod.rs:413`).

Met while modelling, without a run of their own: `waitpid` is not retried after EINTR
(`kvm/ptrace.rs:33`), and the drops then run on a thread that is not stopped and fail
(`spoiled` in `KvmAttach`); the first frame in a module that has no FDE is not sent,
because `.eh_frame` is only accepted when it has one for that address
(`linux/callstack.rs:283`, action `NoSection`), although a frame without a FDE is
sent in any other place (`NoFde`).

Also met, and left out of a property by a condition that names it:

* `os/windows/mod.rs:256`: of an image with several pages the last one is never searched and
  the first one twice; a record that crosses a page is read again at a wrong place, and
  bytes that are zero count as an empty name (`Clean` and the last lines of `KernelFound`).
* `os/windows/callstack.rs:557`: between the first instruction and the one that sets the frame
  pointer, the frame pointer of the caller is used (`BeforeFp`).
* `os/windows/memory.rs:82`: the area of a private page is read as `_MMVAD` although it is a
  `_MMVAD_SHORT`; `memory.rs:136`: an entry of an upper level that is in transition is
  followed like the last one (`shared \/ touched` and `~noTable` in `SoftPagesRight`).
* `os/windows/loader.rs:70`: an interrupted download leaves a file that is taken for
  the PDB from then on (`spoiled` in `WholeUnlessSpoiled`).
* `vminer-core/src/os.rs:468`, `472`: an address in a VMA without a module, in a function, is printed
  with the start of the VMA less that of the function, where lines 420 and 475 print the other
  difference; the text does not add up to the address (`Reversed` in `TextDenotesAddress`). The
  frames that this code makes without a module have no start (`linux/callstack.rs:223`,
  `windows/callstack.rs:655`), so only a caller's own `StackFrame` is printed this way.
* `linux/callstack.rs:368` with `400-404`: on aarch64 a leaf function has its return address in X30,
  for which there is no rule; the loop takes this for the outermost frame and returns Ok with a
  single frame (the last line of `WholeChain`). With a rule that says X30 is unchanged, line 369
  takes the address of the frame itself for the return address and sends the frame again
  (`Repeated`).
* `dwarf/mod.rs:556`: a structure with one child that cannot be read is missing, though the file
  loads (`readable` in `StructsRight`).
* `os/windows/memory.rs:136`: when the frame is given to another page after its entry was read, that
  other page is read (`reusedFrame` in `SoftPagesRight`).

And without a property: the `unwrap` of `linux/callstack.rs:328` panics on rules that gimli cannot
evaluate (`"panic"` in `LinuxUnwind`); the page mapped in QEMU by an attach is never unmapped
(`kvm/mod.rs:126`); a file name of 255 bytes reaches a `todo!()` (`linux/mod.rs:75`); the rules of
a frame are looked up at its return address, which is in the next function when a
function ends with a call that does not return (`linux/callstack.rs:285`).

## Not modelled

* `find_memory` and the mappings of QEMU (`kvm/mod.rs:272-408`): parsing of `/proc/pid/maps` and a
  table of constants; attach on aarch64, which is the same protocol with another trap.
* `find_kernel_pgd` and the accessors of registers (`vminer-core/src/arch`): a test of bits.
* Linux guests: paths, names, and the search for the banner in `build`; the lists of children and
  threads, which are unlinked with `list_del_init` and `list_move_tail` and can lead
  a walk into itself (`linux/mod.rs:447`).
* Windows guests: names, paths, threads, versions.
* Decoding of ELF, DWARF, PE and PDB (gimli, object, pdb), relocations, demangling.
* C interface: constructors of errors, the logger, the allocator, `symbols_*`.
* Python bindings and command line tools: forwarding without a protocol of their own. Errors and
  endianness: conversions without state.
* The locks inside of libc that a remote dlopen may need (`kvm/mod.rs:149`).
* An interrupt return in `WindowsUnwind` is one step.

Theorems worth proving next: `NothingMissed` and `FoundRight` of `KernelSearch`, with the walk
of the tables as a recursive function of the level (the page that has an address is the one
that the walk from that address on meets first), and `WinCallStackTrue` of `WindowsUnwind`
along the lines of `UnwindInv`, with the shape of a frame read off its unwind codes.
