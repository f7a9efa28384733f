------------------------------ MODULE PdbTypes ------------------------------
(***************************************************************************)
(* The structures that are read from a PDB (vminer-core/src/symbols/pdb/   *)
(* mod.rs): load_types parses the whole type stream, and then adds the     *)
(* structures that have a field list.  A structure is in the stream any    *)
(* number of times as a forward reference, without fields, and types refer *)
(* to it by whichever of these came first.                                 *)
(*                                                                         *)
(* A record of the stream is what the pdb crate parses it to.  The memo of *)
(* get_type is left out: the list does not change when it is used.         *)
(***************************************************************************)
EXTENDS Integers, Sequences, SequencesExt

CONSTANTS
  Records,     \* Records[k]: the records that may be the k-th of the stream
  NoFields,    \* the field list of a forward reference
  NoType       \* a type that cannot be resolved

VARIABLES
  stream,      \* the records that were parsed
  layouts,     \* the structures that were added: a function of their names
  parsed       \* "parsing", "ok" or "err"

pdbVars == <<stream, layouts, parsed>>

PdbInit == stream = <<>> /\ layouts = [n \in {} |-> n] /\ parsed = "parsing"

\* Indices below are primitive types, the first record has this one.
FirstIndex == 4096

-----------------------------------------------------------------------------
(* Types *)

\* The primitive types and their codes.
Primitive ==
  [void |-> {3}, i8 |-> {16, 104}, u8 |-> {32, 105}, i16 |-> {17, 114}, u16 |-> {33, 115},
   i32 |-> {18, 116}, u32 |-> {34, 117}, i64 |-> {19, 118}, u64 |-> {35, 119}]

PointerBit == 1536

\* classify_primitive
ClassifyPrimitive(code) ==
  LET named(c) == {t \in DOMAIN Primitive : c \in Primitive[t]}
  IN IF named(code) # {} THEN <<CHOOSE t \in named(code) : TRUE>>
     ELSE IF named(code - PointerBit) # {} THEN <<"pointer", <<CHOOSE t \in named(code - PointerBit) : TRUE>>>>
     ELSE NoType

InList(list, i) == i - FirstIndex + 1 \in DOMAIN list
Get(list, i) == list[i - FirstIndex + 1]

\* get_type and classify_type
RECURSIVE TypeOf(_, _)
TypeOf(list, i) ==
  IF i < FirstIndex THEN ClassifyPrimitive(i)
  ELSE IF ~InList(list, i) THEN NoType
  ELSE LET r == Get(list, i)
           of == IF r.kind \in {"array", "enum", "modifier", "pointer"} THEN TypeOf(list, r.of) ELSE NoType
       IN CASE r.kind \in {"struct", "class"} -> <<"struct", r.name>>
            [] r.kind = "union" -> <<"union", r.name>>
            [] r.kind \in {"bitfield", "procedure"} -> <<r.kind>>
            [] r.kind \in {"enum", "modifier"} -> of
            [] r.kind = "pointer" -> IF of = NoType THEN NoType ELSE <<"pointer", of>>
            [] r.kind = "array" -> IF of = NoType THEN NoType ELSE <<"array", of, r.dim>>
            [] OTHER -> NoType

\* collect_fields: what is not a member (a nested type, a method) is passed
\* over.
FieldsOf(list, members) ==
  [k \in DOMAIN SelectSeq(members, LAMBDA m : m.member) |->
     LET m == SelectSeq(members, LAMBDA x : x.member)[k]
         t == TypeOf(list, m.type)
     IN [name |-> m.name, offset |-> m.offset, type |-> IF t = NoType THEN <<"unknown">> ELSE t]]

-----------------------------------------------------------------------------
(* Reading *)

ParseRecord ==
  /\ parsed = "parsing" /\ Len(stream) < Len(Records)
  /\ \E r \in Records[Len(stream) + 1] : stream' = Append(stream, r)
  /\ UNCHANGED <<layouts, parsed>>

\* A record cannot be parsed: the module gets the symbols of the file
\* (read_bytes only warns) and none of its types.
RecordError ==
  /\ parsed = "parsing" /\ Len(stream) < Len(Records)
  /\ parsed' = "err"
  /\ UNCHANGED <<stream, layouts>>

\* The classes of kind struct whose field list is there.
HasLayout(list, r) ==
  /\ r.kind = "struct" /\ r.fields # NoFields
  /\ InList(list, r.fields) /\ Get(list, r.fields).kind = "fieldlist"

\* The end of load_types: of two structures of one name, the later is kept.
AddLayouts ==
  /\ parsed = "parsing" /\ Len(stream) = Len(Records)
  /\ layouts' =
       FoldLeft(LAMBDA acc, r :
                  IF ~HasLayout(stream, r) THEN acc
                  ELSE [n \in DOMAIN acc \union {r.name} |->
                          IF n = r.name
                          THEN [size |-> r.size, fields |-> FieldsOf(stream, Get(stream, r.fields).members)]
                          ELSE acc[n]],
                layouts, stream)
  /\ parsed' = "ok" /\ UNCHANGED stream

PdbNext == ParseRecord \/ RecordError \/ AddLayouts

-----------------------------------------------------------------------------
(* Properties *)

\* When a file was read, a structure is there exactly when the stream
\* defines it, wherever its forward references are, with the size of its
\* last definition and the members of it, in their order, each at its
\* offset; and a field whose type is a pointer to a structure leads to the
\* name that structure is kept under.
PdbStructsRight ==
  parsed = "ok" =>
    LET definitions(n) == {k \in DOMAIN stream : HasLayout(stream, stream[k]) /\ stream[k].name = n}
        members(k) == Get(stream, stream[k].fields).members
        placed(s) == [i \in DOMAIN s |-> <<s[i].name, s[i].offset>>]
    IN /\ \A k \in DOMAIN stream : HasLayout(stream, stream[k]) => stream[k].name \in DOMAIN layouts
       /\ \A n \in DOMAIN layouts : \E k \in definitions(n) :
            /\ \A j \in definitions(n) : j <= k
            /\ layouts[n].size = stream[k].size
            /\ placed(layouts[n].fields) = placed(SelectSeq(members(k), LAMBDA x : x.member))
            /\ \A m \in Range(members(k)) :
                 /\ m.member /\ InList(stream, m.type) /\ Get(stream, m.type).kind = "pointer"
                 /\ InList(stream, Get(stream, m.type).of) /\ Get(stream, Get(stream, m.type).of).kind = "struct"
                 => \E f \in Range(layouts[n].fields) :
                      f.name = m.name /\ f.type = <<"pointer", <<"struct", Get(stream, Get(stream, m.type).of).name>>>>

=============================================================================
