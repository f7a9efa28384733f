----------------------------- MODULE DwarfTypes -----------------------------
(***************************************************************************)
(* The structures that are read from DWARF (vminer-core/src/symbols/dwarf/ *)
(* mod.rs): load_types_from_dwarf goes through the units, fill reads the   *)
(* entries of a unit into a TypeList, and then adds every named structure  *)
(* with the fields of its anonymous members flattened into it.             *)
(*                                                                         *)
(* An entry is a record of the attributes that are read.  Iterating over   *)
(* the entries and decoding attributes are gimli's.  The memo of get_type  *)
(* is left out: the list does not change any more when it is used.         *)
(***************************************************************************)
EXTENDS Integers, Sequences, FiniteSets, SequencesExt

CONSTANTS
  Dies,        \* Dies[u][o]: the entries that may be at offset o of unit u
  Missing,     \* an attribute that is not there
  Wrong        \* one that is not of the form expected, or is needed and not there

VARIABLES
  unit,        \* the unit that is read
  offset,      \* the offset of its next entry
  types,       \* the TypeList: a sequence of offset and entry
  structs,     \* the structures that were added: a function of their names
  defined,     \* ghost: the definitions of every name, in the order of the
               \* file, with whether each can be read
  outcome      \* "reading", "ok" or "err"

dwarfVars == <<unit, offset, types, structs, defined, outcome>>

Empty == [x \in {} |-> x]

DwarfInit ==
  /\ unit = 1 /\ offset = 1 /\ types = <<>>
  /\ structs = Empty /\ defined = Empty
  /\ outcome = "reading"

-----------------------------------------------------------------------------
(* Types *)

\* find_by_offset, by binary search: the entries are in order of offset.
HasEntry(list, o) == \E k \in DOMAIN list : list[k].offset = o
FindByOffset(list, o) == list[CHOOSE k \in DOMAIN list : list[k].offset = o].die

\* to_primitive
ToPrimitive(d) == IF d.size \in {1, 2, 4, 8} THEN <<"primitive", d.size, d.signed>> ELSE <<"unknown">>

\* read_array: the number of elements, over all the dimensions (32 bits in
\* the code; no array of the instances comes near that).  A negative bound
\* makes it 0, and so does a dimension with neither a bound nor a count.
ArrayLen(d) ==
  LET size(r) == IF r.bound # Missing THEN (IF r.bound < 0 THEN 0 ELSE r.bound + 1)
                 ELSE IF r.count # Missing THEN r.count ELSE 0
  IN FoldLeft(LAMBDA n, r : n * size(r), 1, d.ranges)

\* get_type and classify_type: the type at an offset, or Missing.
RECURSIVE GetType(_, _)
GetType(list, o) ==
  IF ~HasEntry(list, o) THEN Missing
  ELSE LET d == FindByOffset(list, o)
           inner == IF d.tag \in {"pointer", "typedef", "array"} /\ d.type # Missing
                    THEN GetType(list, d.type) ELSE Missing
       IN CASE d.tag = "base" -> ToPrimitive(d)
            [] d.tag \in {"struct", "union"} -> IF d.name = Missing THEN Missing ELSE <<d.tag, d.name>>
            [] d.tag = "pointer" -> <<"pointer", IF inner = Missing THEN <<"unknown">> ELSE inner>>
            [] d.tag = "typedef" -> inner
            [] d.tag = "array" -> IF inner = Missing THEN Missing ELSE <<"array", inner, ArrayLen(d)>>
            [] d.tag = "function" -> <<"function">>

FieldType(list, o) == IF GetType(list, o) = Missing THEN <<"unknown">> ELSE GetType(list, o)

IsAggregate(list, o) ==
  /\ HasEntry(list, o)
  /\ FindByOffset(list, o).tag \in {"struct", "union"} /\ ~FindByOffset(list, o).declaration

\* read_struct_member, and read_union_member, whose offset is 0.
MemberOffset(d, f) == IF d.tag = "union" THEN 0 ELSE f.location

\* Mutant: the offset of the anonymous member is not added.
RECURSIVE CollectFieldsFlat(_, _, _)
CollectFieldsFlat(list, base, d) ==
  FoldLeft(LAMBDA acc, f :
    IF d.tag = "struct" /\ f.location = Missing THEN acc
    ELSE IF f.name # Missing
    THEN Append(acc, [name |-> f.name, offset |-> base + MemberOffset(d, f), type |-> FieldType(list, f.type)])
    ELSE IF IsAggregate(list, f.type)
    THEN acc \o CollectFieldsFlat(list, base, FindByOffset(list, f.type))
    ELSE acc,
    <<>>, d.fields)

\* collect_fields_into: bitfields (which have no byte offset) are passed
\* over, and so are anonymous members that are not aggregates.
RECURSIVE CollectFields(_, _, _)
CollectFields(list, base, d) ==
  FoldLeft(LAMBDA acc, f :
    IF d.tag = "struct" /\ f.location = Missing THEN acc
    ELSE IF f.name # Missing
    THEN Append(acc, [name |-> f.name, offset |-> base + MemberOffset(d, f), type |-> FieldType(list, f.type)])
    ELSE IF IsAggregate(list, f.type)
    THEN acc \o CollectFields(list, base + MemberOffset(d, f), FindByOffset(list, f.type))
    ELSE acc,
    <<>>, d.fields)

-----------------------------------------------------------------------------
(* Reading *)

\* The tags read_type knows.
Known == {"base", "pointer", "typedef", "struct", "union", "array", "function"}

IsDefinition(d) == d.tag = "struct" /\ d.name # Missing /\ ~d.declaration

\* read_struct_member and read_union_member: a member of a structure is at
\* a byte or, in a bitfield, at a bit (a location that is Missing).
ReadableMember(d, f) ==
  /\ f.type \notin {Missing, Wrong} /\ f.name # Wrong
  /\ d.tag = "struct" => f.location # Wrong

\* read_type: whether it gives a type.  One child that cannot be read, a
\* member of an aggregate or a dimension of an array, spoils the whole entry.
Readable(d) ==
  /\ d.name # Wrong
  /\ d.tag \in {"typedef", "array"} => d.type \notin {Missing, Wrong}
  /\ d.tag = "pointer" => d.type # Wrong
  /\ d.tag = "base" => d.size \notin {Missing, Wrong}
  /\ d.tag = "array" => Wrong \notin Range(d.ranges)
  /\ d.tag \in {"struct", "union"} /\ ~d.declaration =>
       d.size # Wrong /\ \A f \in Range(d.fields) : ReadableMember(d, f)

\* Ghost: one more definition of its name.
Noted(d) ==
  [n \in DOMAIN defined \union {d.name} |->
     (IF n \in DOMAIN defined THEN defined[n] ELSE <<>>)
     \o (IF n = d.name THEN <<[at |-> <<unit, offset>>, readable |-> Readable(d)]>> ELSE <<>>)]

\* The first pass of fill: an entry is kept, or passed over when its tag is
\* unknown or it cannot be read, with a warning.
ReadEntry ==
  /\ outcome = "reading" /\ offset \in DOMAIN Dies[unit]
  /\ \E d \in Dies[unit][offset] :
       /\ types' = IF d.tag \in Known /\ Readable(d)
                   THEN Append(types, [offset |-> offset, die |-> d]) ELSE types
       /\ defined' = IF IsDefinition(d) THEN Noted(d) ELSE defined
  /\ offset' = offset + 1
  /\ UNCHANGED <<unit, structs, outcome>>

\* gimli cannot parse an entry or one of its attributes: load_types fails,
\* and with it the file.
ParseError ==
  /\ outcome = "reading" /\ offset \in DOMAIN Dies[unit]
  /\ outcome' = "err"
  /\ UNCHANGED <<unit, offset, types, structs, defined>>

\* The last pass of fill: the named structures are added, and replace the
\* ones of the same name; then the next unit, with a list of its own.
AddStructs ==
  /\ outcome = "reading" /\ offset \notin DOMAIN Dies[unit]
  /\ LET new == {k \in DOMAIN types : IsDefinition(types[k].die)}
         named(n) == {k \in new : types[k].die.name = n}
         last(n) == CHOOSE k \in named(n) : \A j \in named(n) : j <= k
     IN structs' = [n \in DOMAIN structs \union {types[k].die.name : k \in new} |->
                      IF named(n) = {} THEN structs[n]
                      ELSE [size |-> types[last(n)].die.size,
                            from |-> <<unit, types[last(n)].offset>>,
                            in |-> types,
                            fields |-> CollectFields(types, 0, types[last(n)].die)]]
  /\ types' = <<>> /\ offset' = 1
  /\ unit' = IF unit + 1 \in DOMAIN Dies THEN unit + 1 ELSE unit
  /\ outcome' = IF unit + 1 \in DOMAIN Dies THEN "reading" ELSE "ok"
  /\ UNCHANGED defined

DwarfNext == ReadEntry \/ ParseError \/ AddStructs

-----------------------------------------------------------------------------
(* Properties *)

\* The named fields that are reached from d over anonymous members, with
\* the sum of the offsets on the way, level by level.
MembersOf(s) == {s.fields[k] : k \in DOMAIN s.fields}

Reached(list, d) ==
  LET inside(x) ==
        {<<FindByOffset(list, f.type), x[2] + MemberOffset(x[1], f)>> :
           f \in {g \in MembersOf(x[1]) : /\ g.name = Missing /\ IsAggregate(list, g.type)
                                          /\ (x[1].tag = "struct" => g.location # Missing)}}
      level1 == {<<d, 0>>}
      level2 == UNION {inside(x) : x \in level1}
      level3 == UNION {inside(x) : x \in level2}
  IN UNION {{<<f.name, x[2] + MemberOffset(x[1], f)>> :
               f \in {g \in MembersOf(x[1]) : g.name # Missing /\ (x[1].tag = "struct" => g.location # Missing)}} :
              x \in level1 \union level2 \union level3}

\* When a file was read, a structure is there exactly when one of its
\* definitions can be read, with the size and the fields of the last such
\* definition and never of a declaration; its fields are all of the named
\* ones, those of the anonymous members that can be read too, each at its
\* offset from the start of the whole structure.
DwarfStructsRight ==
  outcome = "ok" =>
    LET read(n) == SelectSeq(defined[n], LAMBDA x : x.readable) IN
    /\ DOMAIN structs = {n \in DOMAIN defined : read(n) # <<>>}
    /\ \A n \in DOMAIN structs :
         LET s == structs[n]
             d == FindByOffset(s.in, s.from[2])
         IN /\ s.from = Last(read(n)).at /\ s.size = d.size
            /\ {<<s.fields[k].name, s.fields[k].offset>> : k \in DOMAIN s.fields} = Reached(s.in, d)

=============================================================================
