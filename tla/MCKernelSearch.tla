--------------------------- MODULE MCKernelSearch ---------------------------
(***************************************************************************)
(* Instances of KernelSearch for TLC: every small set of translation       *)
(* tables, with pages shared by several addresses, large pages, pages and  *)
(* tables outside memory, tables that cannot be read, and every placement  *)
(* of a few occurrences.                                                   *)
(***************************************************************************)
EXTENDS KernelSearch

CONSTANTS
  MaxHits,     \* bound: occurrences of the needle in memory
  RootEntries  \* what the entries of the first table can be

\* Tables are at addresses of their own, apart from the cells searched.
MidTable == 100
LeafTable == 200
NoTable == 300
BadTable == 400

MCIoTables == {BadTable}

MCRoot == 0

\* Large pages can be met at the second level of three.
ThreeLevels == <<FALSE, TRUE, FALSE>>

Entry(addr, large) == [valid |-> TRUE, large |-> large, addr |-> addr]
Invalid == [valid |-> FALSE, large |-> FALSE, addr |-> 0]

AnyRoot == {Invalid, Entry(MidTable, FALSE), Entry(NoTable, FALSE), Entry(BadTable, FALSE)}
MappedRoot == {Entry(MidTable, FALSE)}
MidEntries == {Invalid, Entry(LeafTable, FALSE), Entry(0, TRUE), Entry(2 * PageSize + 1, TRUE)}
LeafEntries == {Invalid, Entry(PageSize, FALSE), Entry(PhysSize, FALSE)}

Slots == 0..(Fanout - 1)

\* A table that no entry points to is empty, as it is never read.
Used(t, above) == \E i \in Slots : above[i] = Entry(t, FALSE)
NoEntries == [i \in Slots |-> Invalid]

Init ==
  /\ \E r \in [Slots -> RootEntries], m \in [Slots -> MidEntries], l \in [Slots -> LeafEntries] :
       /\ ~Used(MidTable, r) => m = NoEntries
       /\ ~Used(LeafTable, m) => l = NoEntries
       /\ tables = [t \in {MCRoot, MidTable, LeafTable} |->
                      CASE t = MCRoot -> r [] t = MidTable -> m [] t = LeafTable -> l]
  /\ hits \in UNION {kSubset(k, 0..(PhysSize - Needle)) : k \in 0..MaxHits}
  /\ SearchInit

Spec == Init /\ [][Next]_vars

=============================================================================
