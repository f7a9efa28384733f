-------------------------------- MODULE Mmu ---------------------------------
(***************************************************************************)
(* The translation tables of a guest and the generic walk through them:    *)
(* virtual_to_physical of vminer-core/src/arch/mod.rs, which each          *)
(* architecture parameterises by LEVELS, is_valid and is_large.            *)
(*                                                                         *)
(* Addresses are numbers of cells.  A table has Fanout entries (512 in the *)
(* code); level n of the walk picks one by the digit of the virtual        *)
(* address that weighs Span(n), where the code shifts and masks.  The      *)
(* virtual addresses here are those below the sign-extended prefix.        *)
(***************************************************************************)
EXTENDS Integers, Sequences, FiniteSetsExt

CONSTANTS
  Fanout,      \* entries of a table
  PageSize,    \* cells of a page of the last level
  Levels,      \* LEVELS[n]: whether a large page can be met at level n
  PhysSize,    \* physical memory is one mapping, of cells 0 .. PhysSize - 1
  IoCells,     \* cells whose read fails with an I/O error
  IoTables,    \* addresses of tables whose read does
  Root         \* the address of the first table (the PGD)

ASSUME MmuAssumption ==
  /\ {Fanout, PageSize, PhysSize} \subseteq Nat \ {0}
  /\ Levels \in Seq(BOOLEAN) /\ Len(Levels) > 0
  /\ IoCells \subseteq 0..(PhysSize - 1)

VARIABLE
  tables       \* tables[t]: the entries of the table at address t

\* An entry: its valid bit, its large bit and the address in it, flags
\* masked away (the low bits of a large page's address are still there).
Entries == [valid : BOOLEAN, large : BOOLEAN, addr : Int]

\* The virtual cells one entry of level n stands for: 1 << shift.
Span(n) == PageSize * Fanout^(Len(Levels) - n)

VirtSize == Fanout * Span(1)

\* (addr >> shift) & mask(9)
Index(n, va) == (va \div Span(n)) % Fanout

\* take_bits(shift, ADDR_BITS): the bits below the shift are dropped.
TakeBits(n, addr) == (addr \div Span(n)) * Span(n)

\* An entry of level n that maps a page, as opposed to another table.
IsPage(n, e) == n = Len(Levels) \/ (Levels[n] /\ e.large)

\* Memory::is_valid and the outcome of Memory::read_physical.
IsValid(addr, size) == 0 <= addr /\ addr + size <= PhysSize

ReadOutcome(addr, size) ==
  IF ~IsValid(addr, size) THEN "oob"
  ELSE IF IoCells \cap (addr .. (addr + size - 1)) # {} THEN "io"
  ELSE "ok"

Unmapped == -1

\* virtual_to_physical from level n on, in the table at t.
RECURSIVE WalkFrom(_, _, _)
WalkFrom(t, va, n) ==
  IF t \notin DOMAIN tables THEN Unmapped
  ELSE LET e == tables[t][Index(n, va)] IN
       IF ~e.valid THEN Unmapped
       ELSE IF IsPage(n, e) THEN TakeBits(n, e.addr) + (va % Span(n))
       ELSE WalkFrom(e.addr, va, n + 1)

VirtualToPhysical(va) == WalkFrom(Root, va, 1)

=============================================================================
