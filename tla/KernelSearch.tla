---------------------------- MODULE KernelSearch ----------------------------
(***************************************************************************)
(* The search for a byte pattern in the kernel's address space:            *)
(* find_in_kernel_memory_inner (vminer-core/src/arch/mod.rs) walks the     *)
(* tables from a virtual address on, Memory::search (mem.rs) looks into    *)
(* each page, through a buffer that may be smaller than the page, and      *)
(* KernelSearchIterator (backend.rs) restarts the walk one byte after the  *)
(* last occurrence.  The guest runs and writes to its memory meanwhile.    *)
(*                                                                         *)
(* Memory is abstracted to the cells at which an occurrence of the needle  *)
(* starts; one is seen by a search of all of its Needle cells.             *)
(***************************************************************************)
EXTENDS Mmu

CONSTANTS
  Needle,      \* length of the needle
  BufLen,      \* length of the search buffer
  KernelBase,  \* where the search starts
  MaxWrites    \* bound: writes of the guest during the search

ASSUME KernelSearchAssumption ==
  /\ Needle \in Nat \ {0} /\ BufLen \in Nat /\ BufLen > Needle
  /\ KernelBase \in 0..(VirtSize - 1)
  /\ MaxWrites \in Nat

VARIABLES
  hits,        \* the cells at which the needle starts
  stable,      \* those at which it started all the time
  base,        \* base_search_addr
  yielded,     \* the addresses the iterator has returned
  status,      \* "going", "ended", or "overflow" of base_search_addr
  nwrites      \* writes so far

vars == <<tables, hits, stable, base, yielded, status, nwrites>>

-----------------------------------------------------------------------------
(* Memory::search *)

None == [kind |-> "none", at |-> 0]
Failed(outcome) == [kind |-> outcome, at |-> 0]
Some(i) == [kind |-> "some", at |-> i]

\* read_physical of size cells at addr, then Finder::find in them.
FindIn(addr, size) ==
  LET seen == {i \in 0..(size - Needle) : addr + i \in hits} IN
  IF ReadOutcome(addr, size) # "ok" THEN Failed(ReadOutcome(addr, size))
  ELSE IF seen = {} THEN None
  ELSE Some(Min(seen))

\* Mutant: the chunks do not overlap.
SearchNoOverlap(addr, size) ==
  LET offsets == {o \in 0..(size - 1) : o % BufLen = 0}
      Chunk(o) == FindIn(addr + o, Min({BufLen, size - o}))
      last == {o \in offsets : Chunk(o) # None}
  IN IF last = {} THEN None ELSE Chunk(Min(last))

\* The default Memory::search: the page fits in the buffer, or chunks of it
\* are read that overlap by the length of the needle.  The index returned is
\* the one in the chunk.
Search(addr, size) ==
  LET offsets == {o \in 0..(size - 1) : o % (BufLen - Needle) = 0}
      Chunk(o) == FindIn(addr + o, Min({BufLen, size - o}))
      last == {o \in offsets : Chunk(o) # None}
  IN IF size <= BufLen THEN FindIn(addr, size)
     ELSE IF last = {} THEN None
     ELSE Chunk(Min(last))

-----------------------------------------------------------------------------
(* find_in_kernel_memory_inner *)

\* Mutant: the offset of the search in the page is forgotten.
FoundAtPage(base_addr, offset, i) == base_addr + i

\* The virtual address of an occurrence at index i of what was searched.
FoundAt(base_addr, offset, i) == base_addr + offset + i

\* The search in the table at t for virtual addresses from `from` on; the
\* digits of `from` above level n are the prefix of everything the table maps.
\* A table outside memory has nothing; another error of its read is returned.
RECURSIVE FindFrom(_, _, _)
FindFrom(t, from, n) ==
  IF t \in IoTables THEN Failed("io")
  ELSE IF t \notin DOMAIN tables THEN None
  ELSE
  LET prefix == from - (from % (Fanout * Span(n)))
      first == Index(n, from)
      Offset(index) == IF index = first THEN from % Span(n) ELSE 0
      Visit(index) ==
        LET e == tables[t][index]
            base_addr == prefix + index * Span(n)
            found == Search(TakeBits(n, e.addr) + Offset(index), Span(n) - Offset(index))
        IN IF ~IsPage(n, e) THEN FindFrom(e.addr, base_addr + Offset(index), n + 1)
           ELSE IF found.kind = "some" THEN Some(FoundAt(base_addr, Offset(index), found.at))
           ELSE IF found.kind = "io" THEN found
           ELSE None
      stop == {index \in first..(Fanout - 1) : tables[t][index].valid /\ Visit(index) # None}
  IN IF stop = {} THEN None ELSE Visit(Min(stop))

\* find_in_kernel_memory_raw.
FindInKernelMemory(from) == FindFrom(Root, from, 1)

-----------------------------------------------------------------------------
(* KernelSearchIterator::next *)

\* base_search_addr = addr + 1, which does not fit after the last address.
Restart(addr) ==
  /\ base' = addr + 1
  /\ status' = IF addr + 1 = VirtSize THEN "overflow" ELSE status

NextFound ==
  LET found == FindInKernelMemory(base) IN
  /\ status = "going" /\ found.kind = "some"
  /\ yielded' = Append(yielded, found.at)
  /\ Restart(found.at)
  /\ UNCHANGED <<tables, hits, stable, nwrites>>

\* The error is returned to the caller, who may call next again.
NextErr ==
  /\ status = "going" /\ FindInKernelMemory(base).kind = "io"
  /\ Restart(base)
  /\ UNCHANGED <<tables, hits, stable, yielded, nwrites>>

NextNone ==
  /\ status = "going" /\ FindInKernelMemory(base).kind = "none"
  /\ status' = "ended"
  /\ UNCHANGED <<tables, hits, stable, base, yielded, nwrites>>

\* The guest writes or overwrites an occurrence.
GuestWrites ==
  /\ status = "going" /\ nwrites < MaxWrites
  /\ \E c \in 0..(PhysSize - Needle) :
       /\ hits' = IF c \in hits THEN hits \ {c} ELSE hits \cup {c}
       /\ stable' = stable \ {c}
  /\ nwrites' = nwrites + 1
  /\ UNCHANGED <<tables, base, yielded, status>>

Next == NextFound \/ NextErr \/ NextNone \/ GuestWrites

\* tables and hits are given by the instance.
SearchInit ==
  /\ stable = hits
  /\ base = KernelBase
  /\ yielded = <<>>
  /\ status = "going"
  /\ nwrites = 0

-----------------------------------------------------------------------------
(* Properties *)

TypeOK ==
  /\ \A t \in DOMAIN tables : tables[t] \in [0..(Fanout - 1) -> Entries]
  /\ hits \subseteq 0..(PhysSize - Needle) /\ stable \subseteq hits
  /\ base \in KernelBase..VirtSize
  /\ yielded \in Seq(KernelBase..(VirtSize - 1))
  /\ status \in {"going", "ended", "overflow"}
  /\ nwrites \in 0..MaxWrites

\* The size of the page that maps va.
RECURSIVE PageSpan(_, _, _)
PageSpan(t, va, n) ==
  LET e == tables[t][Index(n, va)] IN
  IF IsPage(n, e) THEN Span(n) ELSE PageSpan(e.addr, va, n + 1)

\* The needle fits in the page that maps va, which can be read from va on.
CanBeSeen(va) ==
  LET span == PageSpan(Root, va, 1)
      size == span - (va % span)
  IN size >= Needle /\ ReadOutcome(VirtualToPhysical(va), size) = "ok"

\* The iterator ends only when it has returned every kernel address at which
\* the needle was all the time, inside one page: no restart, no chunk
\* boundary and no unreadable or unmapped page before it makes it miss one.
NothingMissed ==
  status # "going" =>
    \A va \in KernelBase..(VirtSize - 1) :
      VirtualToPhysical(va) \in stable /\ CanBeSeen(va) =>
        \E k \in DOMAIN yielded : yielded[k] = va

\* No address is returned twice, nor out of order, even when the guest
\* writes between two calls of next; and one in a page that fits in the
\* buffer is where the needle is.
FoundRight ==
  [][\A k \in DOMAIN yielded' \ DOMAIN yielded :
       LET va == yielded'[k]
       IN /\ k > 1 => yielded'[k - 1] < va
          /\ PageSpan(Root, va, 1) <= BufLen => VirtualToPhysical(va) \in hits]_vars

\* "Returns the index of the needle within the page if found." (mem.rs, on
\* search): an address that next returns translates to a cell where the needle is.
FoundIsThere ==
  [][yielded' # yielded => VirtualToPhysical(yielded'[Len(yielded')]) \in hits]_vars

=============================================================================
