------------------------------ MODULE DumpFile ------------------------------
(***************************************************************************)
(* Dumps of a guest (vminer/src/backends/kvm_dump/mod.rs): DumbDump::write *)
(* saves a header, the memory mappings, the vCPUs and the memory through a *)
(* BufWriter; DumbDump::read accepts a file or rejects it, and then serves *)
(* reads of physical memory through a MemRemap over the file (mem.rs).     *)
(*                                                                         *)
(* The file is a sequence of items, in file order: the header, one item    *)
(* per mapping, three per vCPU and one per memory cell.  A disk write may  *)
(* stop half way, the process may be killed, and the file may be read at   *)
(* any moment, also while it is written.                                   *)
(***************************************************************************)
EXTENDS Integers, Sequences, SequencesExt

CONSTANTS
  Guests,      \* guests that are dumped: [mappings, vcpus]
  ChunkLen,    \* cells that Memory::dump reads at once, 64 KiB
  BufCap,      \* items that BufWriter holds back at most, 8 KiB
  MaxAddr      \* bound: the reads of a loaded dump that are compared

ASSUME DumpAssumption ==
  /\ \A g \in Guests : /\ g.mappings \in Seq([start : Nat, end : Nat])
                       /\ \A m \in DOMAIN g.mappings : g.mappings[m].start <= g.mappings[m].end
                       /\ g.vcpus \in Nat
  /\ BufCap \in Nat \ {0} /\ ChunkLen \in Nat /\ ChunkLen >= BufCap
  /\ MaxAddr \in Nat

VARIABLES
  guest,       \* the guest that is dumped
  file,        \* what the disk has of the file, or NoFile
  pending,     \* what BufWriter holds back
  head,        \* items of header, mappings and vCPUs given to BufWriter
  map, addr,   \* the mapping and the address that Memory::dump is at
  wresult,     \* result of write, "none" while it runs
  closed,      \* the BufWriter was dropped, or the process is gone
  loaded       \* result of read

vars == <<guest, file, pending, head, map, addr, wresult, closed, loaded>>

NoFile == << <<"no file">> >>

-----------------------------------------------------------------------------
(* The layout of a dump *)

Size(g, m) == g.mappings[m].end - g.mappings[m].start

HeaderOf(g) == <<"header", Len(g.mappings), g.vcpus>>
MappingItems(g) == [m \in 1..Len(g.mappings) |-> <<"mapping", g.mappings[m].start, g.mappings[m].end>>]
\* registers, special_registers and other_registers of each vCPU.
VcpuItems(g) == [k \in 1..(3 * g.vcpus) |-> <<"vcpu", k>>]

\* What write puts before the memory.
Prelude(g) == <<HeaderOf(g)>> \o MappingItems(g) \o VcpuItems(g)

Cells(a, n) == [k \in 1..n |-> <<"cell", a + k - 1>>]

\* The memory of the first m mappings.
MemoryUpTo(g) ==
  LET upto[m \in 0..Len(g.mappings)] ==
        IF m = 0 THEN <<>> ELSE upto[m - 1] \o Cells(g.mappings[m].start, Size(g, m))
  IN upto

Memory(g) == MemoryUpTo(g)[Len(g.mappings)]

\* A complete dump.
Full(g) == Prelude(g) \o Memory(g)

Item == UNION {Range(Full(g)) : g \in Guests}

TypeOK ==
  /\ guest \in Guests
  /\ file = NoFile \/ file \in Seq(Item)
  /\ pending \in Seq(Item) /\ Len(pending) <= BufCap
  /\ head \in 0..Len(Prelude(guest))
  /\ map \in 1..(Len(guest.mappings) + 1)
  /\ addr \in Nat
  /\ wresult \in {"none", "ok", "err"}
  /\ closed \in BOOLEAN
  /\ loaded \in {"none", "ok", "err"}

Start(g, m) == IF m <= Len(g.mappings) THEN g.mappings[m].start ELSE 0

Init ==
  /\ guest \in Guests
  /\ file = NoFile
  /\ pending = <<>>
  /\ head = 0
  /\ map = 1 /\ addr = Start(guest, 1)
  /\ wresult = "none"
  /\ closed = FALSE
  /\ loaded = "none"

-----------------------------------------------------------------------------
(* DumbDump::write *)

Writing == wresult = "none" /\ ~closed

\* fs::File::create
Create ==
  /\ Writing /\ file = NoFile
  /\ \/ file' = <<>> /\ UNCHANGED <<wresult, closed>>
     \/ wresult' = "err" /\ closed' = TRUE /\ UNCHANGED file
  /\ UNCHANGED <<guest, pending, head, map, addr, loaded>>

\* A prefix of what BufWriter hands to the disk is written, and then an
\* error is met; BufWriter forgets what was written and keeps the rest.
DiskFails(items) ==
  /\ \E n \in 0..(Len(items) - 1) :
       /\ file' = file \o SubSeq(items, 1, n)
       /\ pending' = SubSeq(pending, n + 1, Len(pending))
  /\ wresult' = "err"
  /\ UNCHANGED <<head, map, addr>>

\* write_all of the header, of a mapping or of a register set: BufWriter
\* keeps it, after a flush when it is full.
WriteItem ==
  /\ Writing /\ file # NoFile /\ head < Len(Prelude(guest))
  /\ \/ /\ Len(pending) < BufCap
        /\ pending' = Append(pending, Prelude(guest)[head + 1])
        /\ head' = head + 1
        /\ UNCHANGED <<file, map, addr, wresult>>
     \/ /\ Len(pending) = BufCap
        /\ file' = file \o pending
        /\ pending' = <<Prelude(guest)[head + 1]>>
        /\ head' = head + 1
        /\ UNCHANGED <<map, addr, wresult>>
     \/ Len(pending) = BufCap /\ DiskFails(pending)
  /\ UNCHANGED <<guest, closed, loaded>>

AtMemory == Writing /\ file # NoFile /\ head = Len(Prelude(guest)) /\ map <= Len(guest.mappings)

\* Mutant: chunks are held back like everything else.
ChunkBuffered(cells) ==
  /\ file' = file \o pending
  /\ pending' = cells
  /\ UNCHANGED wresult

\* write_all of more than BufWriter can hold: it flushes, then writes.
ChunkWritten(cells) ==
  /\ file' = file \o pending \o cells
  /\ pending' = <<>>
  /\ UNCHANGED wresult

\* Memory::dump of MemRemap: the next chunk is read, in full, and written.
DumpChunk ==
  LET end == guest.mappings[map].end
      cells == Cells(addr, ChunkLen)
  IN
  /\ AtMemory /\ addr < end
  /\ \/ /\ addr + ChunkLen <= end
        /\ ChunkWritten(cells)
        /\ addr' = addr + ChunkLen
        /\ UNCHANGED <<head, map>>
     \/ addr + ChunkLen <= end /\ DiskFails(pending \o cells)
     \/ \* read_physical fails: it does when the chunk is not inside the
        \* mapping, and may do when it is.
        /\ wresult' = "err"
        /\ UNCHANGED <<file, pending, head, map, addr>>
  /\ UNCHANGED <<guest, closed, loaded>>

NextMapping ==
  /\ AtMemory /\ addr >= guest.mappings[map].end
  /\ map' = map + 1
  /\ addr' = Start(guest, map + 1)
  /\ UNCHANGED <<guest, file, pending, head, wresult, closed, loaded>>

ReturnOk ==
  /\ Writing /\ file # NoFile
  /\ head = Len(Prelude(guest)) /\ map > Len(guest.mappings)
  /\ wresult' = "ok"
  /\ UNCHANGED <<guest, file, pending, head, map, addr, closed, loaded>>

\* The BufWriter is dropped: it flushes, and nobody hears of an error.
DropWriter ==
  /\ wresult # "none" /\ ~closed
  /\ \E n \in 0..Len(pending) : file' = file \o SubSeq(pending, 1, n)
  /\ pending' = <<>>
  /\ closed' = TRUE
  /\ UNCHANGED <<guest, head, map, addr, wresult, loaded>>

\* The process is killed.
Crash ==
  /\ ~closed
  /\ pending' = <<>>
  /\ closed' = TRUE
  /\ UNCHANGED <<guest, file, head, map, addr, wresult, loaded>>

-----------------------------------------------------------------------------
(* DumbDump::read *)

\* The header and what it says about the rest of the file.
NMappings(f) == f[1][2]
NVcpus(f) == f[1][3]
MappingAt(f, m) == [start |-> f[1 + m][2], end |-> f[1 + m][3]]
MemStart(f) == 1 + NMappings(f) + 3 * NVcpus(f)

\* The size of the first m mappings.
SizeUpTo(f) ==
  LET upto[m \in 0..NMappings(f)] ==
        IF m = 0 THEN 0 ELSE upto[m - 1] + (MappingAt(f, m).end - MappingAt(f, m).start)
  IN upto

MemSize(f) == SizeUpTo(f)[NMappings(f)]

\* Mutant: the size of the memory is not compared.
AcceptsShort(f) == Len(f) >= 1 /\ Len(f) >= MemStart(f)

\* Everything up to the memory can be read, and the rest has the right size.
Accepts(f) ==
  /\ Len(f) >= 1
  /\ Len(f) >= MemStart(f)
  /\ Len(f) - MemStart(f) = MemSize(f)

Read ==
  /\ file # NoFile
  /\ loaded' = IF Accepts(file) THEN "ok" ELSE "err"
  /\ UNCHANGED <<guest, file, pending, head, map, addr, wresult, closed>>

Next ==
  \/ Create \/ WriteItem \/ DumpChunk \/ NextMapping \/ ReturnOk \/ DropWriter
  \/ Crash \/ Read

Spec == Init /\ [][Next]_vars

-----------------------------------------------------------------------------
(* MemRemap::read_physical over the file *)

\* Mutant: the memory of a mapping is looked for at its physical address.
RemapAtStart(f, m) == MappingAt(f, m).start

\* remap_at: the memory of a mapping comes after that of those before it.
RemapAt(f, m) == SizeUpTo(f)[m - 1]

OutOfBounds == <<"out of bounds">>

\* The first mapping that holds the range is used.
ReadPhysical(f, a, n) ==
  LET holds == {m \in 1..NMappings(f) : MappingAt(f, m).start <= a /\ a + n <= MappingAt(f, m).end}
      m == Min(holds)
      offset == RemapAt(f, m) + a - MappingAt(f, m).start
  IN IF holds = {} THEN OutOfBounds
     ELSE IF offset + n > Len(f) - MemStart(f) THEN OutOfBounds
     ELSE SubSeq(f, MemStart(f) + offset + 1, MemStart(f) + offset + n)

-----------------------------------------------------------------------------
(* Properties *)

\* read accepts no file but a complete dump: one that a crash, a full disk or
\* a writer that is not done left behind is rejected, whatever its length.
ReadIsExact == loaded = "ok" => file = Full(guest)

\* When write returns Ok, of a guest with memory, the dump is on the disk
\* although the BufWriter is never flushed explicitly: the last chunk of
\* memory goes past its buffer.
OkIsComplete ==
  wresult = "ok" /\ Memory(guest) # <<>> => file = Full(guest)

\* A guest address reads the same from a loaded dump as from the guest, and a
\* range that is not inside one mapping is refused.
RemapFaithful ==
  loaded = "ok" =>
    \A a \in 0..MaxAddr : \A n \in 0..(MaxAddr - a) :
      ReadPhysical(file, a, n) =
        IF \E m \in DOMAIN guest.mappings :
             guest.mappings[m].start <= a /\ a + n <= guest.mappings[m].end
        THEN Cells(a, n) ELSE OutOfBounds

=============================================================================
