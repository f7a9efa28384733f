------------------------------ MODULE MCSymbols -----------------------------
(***************************************************************************)
(* The components that make and keep symbols, side by side: which of them  *)
(* a behaviour is about is chosen in its first state, and the others stay  *)
(* in their initial states.                                                *)
(***************************************************************************)
EXTENDS SymbolCache, SymbolTable, DwarfTypes, PdbTypes, GuestLayouts, TLC

CONSTANTS p1, p2, t1, t2, t3, m1, m2, m3, m4, i1, i2

VARIABLE part

-----------------------------------------------------------------------------
(* Cache: two threads of one process and one of another; m1 and m2 have a  *)
(* PDB, m3 has none, m4 is loaded by the user.                             *)

MCProcOf == t1 :> p1 @@ t2 :> p1 @@ t3 :> p2
MCNameOf == m1 :> "a" @@ m2 :> "b" @@ m3 :> "c" @@ m4 :> "u"
MCIdOf == m1 :> i1 @@ m2 :> i2 @@ m3 :> NoId @@ m4 :> NoId

(* Table *)

MCSpans == {[start |-> 3, end |-> 7]}

(* DWARF: a unit with a base type, an aggregate, an aggregate or another   *)
(* type that may hold the first one, and a structure that may hold both;   *)
(* and a unit with a definition or a declaration of the same name.  Some   *)
(* have a member or a dimension that cannot be read.                       *)

Field(l, n, t) == [location |-> l, name |-> n, type |-> t]
Aggregate(tag, n, decl, s, f) == [tag |-> tag, name |-> n, declaration |-> decl, size |-> s, fields |-> f]
Dim(b, c) == [bound |-> b, count |-> c]
Base == [tag |-> "base", name |-> "int", size |-> 4, signed |-> TRUE]
Leaf == {Field(0, "f", 1), Field(2, Missing, 1), Field(Missing, "g", 1), Field(4, "h", 3)}
Leaves == {<<>>} \union {<<a>> : a \in Leaf} \union {<<a, b>> : a, b \in Leaf}
          \union {<<Field(0, "f", Missing)>>, <<Field(0, "f", 1), Field(Wrong, "w", 1)>>}
Outer == {Field(0, Missing, 2), Field(8, Missing, 2), Field(8, "x", 2), Field(8, Missing, 3),
          Field(Missing, Missing, 2), Field(8, Missing, 9)}
Others == {[tag |-> "pointer", name |-> Missing, type |-> Missing],
           [tag |-> "pointer", name |-> Missing, type |-> 2],
           [tag |-> "typedef", name |-> "T", type |-> 2],
           [tag |-> "array", name |-> Missing, type |-> 1, ranges |-> <<Dim(1, Missing), Dim(Missing, 2)>>],
           [tag |-> "array", name |-> Missing, type |-> 2, ranges |-> <<Dim(-1, 3)>>],
           [tag |-> "array", name |-> Missing, type |-> 1, ranges |-> <<Wrong>>],
           [tag |-> "typedef", name |-> "T", type |-> Missing],
           [tag |-> "function", name |-> Missing],
           [tag |-> "const", name |-> Missing]}
Inner == {Aggregate(g, n, FALSE, 8, f) : g \in {"struct", "union"}, n \in {"A", Missing}, f \in Leaves}
Middle == {Aggregate(g, n, FALSE, 16, <<o>>) :
             g \in {"struct", "union"}, n \in {"B", Missing}, o \in {x \in Outer : x.type # 3}}
Tops == {Aggregate(g, "S", FALSE, 24, <<o, Field(12, Missing, 3), p>>) :
           g \in {"struct", "union"}, o \in Outer, p \in {Field(0, "f", 1), Field(Missing, "g", 1)}}
        \union {Aggregate("struct", "S", TRUE, 0, <<>>), Aggregate("struct", "S", FALSE, 24, <<Field(0, Wrong, 1)>>)}
MCDies == <<<< {Base}, Inner, Middle \union Others, Tops >>,
            << {Aggregate("struct", "S", d, 1, <<>>) : d \in BOOLEAN}
               \union {Aggregate("struct", "S", FALSE, 1, <<Field(Wrong, "w", 1)>>)} >>>>

(* PDB: forward references before and after the definitions of S and T.    *)

StructRec(n, f, s) == [kind |-> "struct", name |-> n, fields |-> f, size |-> s]
FieldsRec(m) == [kind |-> "fieldlist", members |-> m]
Member(n, o, t) == [member |-> TRUE, name |-> n, offset |-> o, type |-> t]
Method == [member |-> FALSE]
Of(k, t) == [kind |-> k, of |-> t, dim |-> 3]
MCRecords == <<
  {StructRec("S", NoFields, 0), [kind |-> "bitfield"], [kind |-> "other"]},
  {Of("pointer", i) : i \in {3, 99, 4096}}
    \union {Of("array", 1556), Of("array", 4096), Of("modifier", 4096), Of("enum", 116)},
  {FieldsRec(<<a, b>>) : a \in {Member("f", 0, i) : i \in {17, 1539, 4096, 4097, 4110}},
                         b \in {Method, Member("g", 8, 4097)}},
  {StructRec("S", f, 16) : f \in {4097, 4098, 4110}}
    \union {[StructRec("S", 4098, 16) EXCEPT !.kind = k] : k \in {"class", "union"}},
  {FieldsRec(<<>>), FieldsRec(<<Member("h", 4, 4099), Method>>)},
  {StructRec("S", NoFields, 0), StructRec("S", 4100, 24), StructRec("T", 4100, 24), StructRec("T", 4098, 8)} >>

(* Layouts: a kernel address, one that ends up in the lower half once an   *)
(* offset is added, null and a user address.                               *)

MCPointers == {-64, -12, 0, 64}

-----------------------------------------------------------------------------
(* The composition *)

Init ==
  /\ part \in {"cache", "table", "dwarf", "pdb", "layout"}
  /\ CacheInit /\ TableInit /\ DwarfInit /\ PdbInit
  /\ LayoutInit
  /\ part # "layout" => given = CHOOSE g \in Given(system) : TRUE
  /\ part # "layout" => system = "linux"

Cache == part = "cache" /\ CacheNext /\ UNCHANGED <<tableVars, dwarfVars, pdbVars, layoutVars, part>>
Table == part = "table" /\ TableNext /\ UNCHANGED <<cacheVars, dwarfVars, pdbVars, layoutVars, part>>
Dwarf == part = "dwarf" /\ DwarfNext /\ UNCHANGED <<cacheVars, tableVars, pdbVars, layoutVars, part>>
PdbFile == part = "pdb" /\ PdbNext /\ UNCHANGED <<cacheVars, tableVars, dwarfVars, layoutVars, part>>
Layout == part = "layout" /\ LayoutNext /\ UNCHANGED <<cacheVars, tableVars, dwarfVars, pdbVars, part>>

Next == Cache \/ Table \/ Dwarf \/ PdbFile \/ Layout

\* A thread that loads symbols goes on, as threads do.
Spec == Init /\ [][Next]_<<cacheVars, tableVars, dwarfVars, pdbVars, layoutVars, part>> /\ CacheFairness

\* The structures that are read from a file are the ones it defines, with
\* their own fields and offsets, for both formats: dwarf::load_types and
\* pdb::load_types.
StructsRight == DwarfStructsRight /\ PdbStructsRight

=============================================================================
