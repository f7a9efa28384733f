----------------------------- MODULE SymbolTable ----------------------------
(***************************************************************************)
(* The symbols of a module (ModuleSymbolsBuilder and ModuleSymbols of      *)
(* vminer-core/src/symbols/mod.rs): how they are read, sorted and looked   *)
(* up, and how an address is resolved and shown to the user                *)
(* (module_resolve_symbol and format_symbol of vminer-core/src/os.rs).     *)
(*                                                                         *)
(* Names are numbers, in the order of the strings.  A text is the record   *)
(* of what it is made of.  The sorts are unstable and a binary search may  *)
(* return any of several equal elements, so a lookup has a set of possible *)
(* results.                                                                *)
(***************************************************************************)
EXTENDS Integers, Sequences, FiniteSets, SequencesExt

CONSTANTS
  Offsets,     \* addresses of symbols, from the start of the module
  SymNames,    \* names of symbols
  Spans,       \* the module that has the symbols: where it begins and ends
  Starts,      \* where the VMA may begin, outside of the module
  Addresses,   \* addresses to resolve
  Nothing,     \* Option::None
  MaxSymbols   \* bound: symbols in a file

ASSUME TableAssumption ==
  /\ Offsets \subseteq Nat /\ SymNames \subseteq Nat /\ Addresses \subseteq Nat /\ Starts \subseteq Nat
  /\ Spans \subseteq [start : Nat, end : Nat] /\ \A s \in Spans : s.start < s.end
  /\ MaxSymbols \in Nat

VARIABLES
  stage,       \* "read", "built" or "shown"
  nread,       \* symbols of the file that were read
  pushed,      \* the symbols that were kept, in the order of the file
  symbols,     \* sorted by address
  addresses,   \* sorted by name
  query,       \* the address, the start of its function, the module and the VMA, each or Nothing
  text         \* what is shown

tableVars == <<stage, nread, pushed, symbols, addresses, query, text>>

TableInit ==
  /\ stage = "read" /\ nread = 0
  /\ pushed = <<>> /\ symbols = <<>> /\ addresses = <<>>
  /\ query = Nothing /\ text = Nothing

-----------------------------------------------------------------------------
(* Building the table *)

\* One symbol of the file.  A symbols file keeps the lines of kind T, A, D
\* and R; of a PDB the public symbols that have an address are kept.
ReadSymbol ==
  /\ stage = "read" /\ nread < MaxSymbols
  /\ nread' = nread + 1
  /\ \E kept \in BOOLEAN, a \in Offsets, n \in SymNames :
       pushed' = IF kept THEN Append(pushed, [addr |-> a, name |-> n]) ELSE pushed
  /\ UNCHANGED <<stage, symbols, addresses, query, text>>

\* The orders sort_unstable_by_key can leave the sequence s in, by the
\* address and by the name.
Orders(s) == {[k \in DOMAIN s |-> s[p[k]]] : p \in Bijection(DOMAIN s, DOMAIN s)}
SortsByAddr(s) == {r \in Orders(s) : \A i, j \in DOMAIN r : i < j => r[i].addr <= r[j].addr}
SortsByName(s) == {r \in Orders(s) : \A i, j \in DOMAIN r : i < j => r[i].name <= r[j].name}

\* Mutant: the symbols stay in the order of the file.
BuildUnsorted ==
  /\ stage = "read"
  /\ symbols' = pushed
  /\ addresses' \in SortsByName(symbols')
  /\ stage' = "built"
  /\ UNCHANGED <<nread, pushed, query, text>>

\* build
BuildTable ==
  /\ stage = "read"
  /\ symbols' \in SortsByAddr(pushed)
  /\ addresses' \in SortsByName(symbols')
  /\ stage' = "built"
  /\ UNCHANGED <<nread, pushed, query, text>>

-----------------------------------------------------------------------------
(* Lookups *)

\* binary_search_by_key of a sequence of keys: the indexes it may return, and
\* where a key that is not there would be inserted.  On a sequence that is
\* not sorted it follows the halves it looks at.  part[n][lo] is the search
\* of the n keys from lo on.
Search(keys, k) ==
  LET part[n \in 0 .. Len(keys)] ==
        [lo \in 1 .. Len(keys) + 1 |->
           LET half == (n - 1) \div 2
               mid == lo + half
           IN IF n = 0 THEN [found |-> {}, insert |-> lo]
              ELSE IF keys[mid] = k THEN [found |-> {i \in lo .. lo + n - 1 : keys[i] = k}, insert |-> mid]
              ELSE IF keys[mid] < k THEN part[n - 1 - half][mid + 1] ELSE part[half][lo]]
  IN part

BinarySearch(keys, k) == Search(keys, k)[Len(keys)][1]

Addrs == [i \in DOMAIN symbols |-> symbols[i].addr]
NamesInOrder == [i \in DOMAIN addresses |-> addresses[i].name]

GetSymbol(a) ==
  LET r == BinarySearch(Addrs, a)
  IN IF r.found = {} THEN {Nothing} ELSE {symbols[i].name : i \in r.found}

GetSymbolInexact(a) ==
  LET r == BinarySearch(Addrs, a)
  IN IF r.found # {} THEN {[name |-> symbols[i].name, off |-> 0] : i \in r.found}
     ELSE IF r.insert = 1 THEN {Nothing}
     ELSE {[name |-> symbols[r.insert - 1].name, off |-> a - symbols[r.insert - 1].addr]}

GetAddress(n) ==
  LET r == BinarySearch(NamesInOrder, n)
  IN IF r.found = {} THEN {Nothing} ELSE {addresses[i].addr : i \in r.found}

-----------------------------------------------------------------------------
(* Resolving and showing an address *)

\* module_resolve_symbol_exact and module_resolve_symbol, of a module that
\* has symbols or not; an address outside of it is an error, which
\* format_symbol_with_module logs and takes for no symbol.
InModule(q, a) == q.span.start <= a /\ a < q.span.end

ModuleResolveSymbolExact(q, a) ==
  IF ~q.loaded \/ ~InModule(q, a) THEN {Nothing} ELSE GetSymbol(a - q.span.start)

ModuleResolveSymbol(q, a) ==
  IF ~q.loaded \/ ~InModule(q, a) THEN {Nothing} ELSE GetSymbolInexact(a - q.span.start)

\* The symbol, and how far the address is behind it.
SymbolFor(q) ==
  IF q.fun = Nothing THEN ModuleResolveSymbol(q, q.addr)
  ELSE {IF s = Nothing THEN Nothing ELSE [name |-> s, off |-> q.addr - q.fun] :
          s \in ModuleResolveSymbolExact(q, q.fun)}

\* format_symbol_with_module: module!symbol+offset, or module!offset of the
\* function+offset, or module!offset.
FormatWithModule(q) ==
  {IF s # Nothing THEN [of |-> "symbol", name |-> s.name, off |-> s.off]
   ELSE IF q.fun # Nothing THEN [of |-> "module", at |-> q.fun - q.span.start, off |-> q.addr - q.fun]
   ELSE [of |-> "module", at |-> q.addr - q.span.start, off |-> 0] : s \in SymbolFor(q)}

\* Mutant: the offset in the function is not added.
FormatWithoutModuleShort(q) ==
  {IF q.vma # Nothing
   THEN IF q.fun # Nothing THEN [of |-> "vma", at |-> q.vma - q.fun, off |-> q.addr - q.fun]
        ELSE [of |-> "vma", at |-> q.addr - q.vma, off |-> 0]
   ELSE IF q.fun # Nothing THEN [of |-> "none", at |-> q.fun, off |-> 0]
   ELSE [of |-> "none", at |-> q.addr, off |-> 0]}

\* format_symbol_without_module.  In a VMA, the offset of the function is
\* the start of the VMA minus that of the function, a negative number.
FormatWithoutModule(q) ==
  {IF q.vma # Nothing
   THEN IF q.fun # Nothing THEN [of |-> "vma", at |-> q.vma - q.fun, off |-> q.addr - q.fun]
        ELSE [of |-> "vma", at |-> q.addr - q.vma, off |-> 0]
   ELSE IF q.fun # Nothing THEN [of |-> "none", at |-> q.fun, off |-> q.addr - q.fun]
   ELSE [of |-> "none", at |-> q.addr, off |-> 0]}

\* format_symbol and format_stackframe_symbol: with the module or without.
\* The function of a frame begins at or before its instruction pointer, and
\* in the VMA of it.
ShowAddress ==
  /\ stage = "built"
  /\ \E a \in Addresses, loaded \in BOOLEAN, span \in Spans \union {Nothing},
        vma \in Starts \union {Nothing}, fun \in Addresses \union {Nothing} :
       /\ fun # Nothing => fun <= a
       /\ vma # Nothing => span = Nothing /\ vma <= a /\ (fun # Nothing => vma <= fun)
       /\ span # Nothing => span.start <= a /\ a < span.end
       /\ query' = [addr |-> a, fun |-> fun, span |-> span, vma |-> vma, loaded |-> loaded]
       /\ text' \in IF span # Nothing THEN FormatWithModule(query') ELSE FormatWithoutModule(query')
  /\ stage' = "shown"
  /\ UNCHANGED <<nread, pushed, symbols, addresses>>

TableNext == ReadSymbol \/ BuildTable \/ ShowAddress

TableSpec == TableInit /\ [][TableNext]_tableVars

-----------------------------------------------------------------------------
(* Properties *)

\* Whatever the order of the file and however many symbols share an address
\* or a name: the exact lookup finds a symbol of that address, the inexact
\* one the nearest symbol that is not behind the address and its distance,
\* and a name is found at one of its addresses; nothing is found only where
\* there is nothing.
LookupsFaithful ==
  stage = "built" =>
    /\ \A a \in Offsets \union Addresses :
         LET here == {s \in Range(pushed) : s.addr = a}
             before == {s \in Range(pushed) : s.addr <= a}
             nearest == {s \in before : \A o \in before : o.addr <= s.addr}
         IN /\ GetSymbol(a) = IF here = {} THEN {Nothing} ELSE {s.name : s \in here}
            /\ \A r \in GetSymbolInexact(a) :
                 IF before = {} THEN r = Nothing
                 ELSE \E s \in nearest : r = [name |-> s.name, off |-> a - s.addr]
    /\ \A n \in SymNames :
         LET named == {s.addr : s \in {t \in Range(pushed) : t.name = n}}
         IN GetAddress(n) = IF named = {} THEN {Nothing} ELSE named

\* The text that does not denote its address: a function that is given, and
\* is not the beginning of the VMA that stands in for the module.
Reversed == text.of = "vma" /\ query.fun \notin {Nothing, query.vma}

\* Every other text that is shown denotes the address: what stands before
\* the "!" (the module, the VMA or nothing), what stands behind it (an
\* offset, or one of the addresses of the symbol) and what is added with a
\* "+" have the address for their sum.
TextDenotesAddress ==
  stage = "shown" /\ ~Reversed =>
    /\ text.of = "symbol" =>
         \E s \in Range(pushed) : s.name = text.name /\ query.span.start + s.addr + text.off = query.addr
    /\ text.of = "module" => query.span.start + text.at + text.off = query.addr
    /\ text.of = "vma" => query.vma + text.at + text.off = query.addr
    /\ text.of = "none" => text.at + text.off = query.addr

\* Why they hold: the two tables have the symbols that were kept, each in its
\* order.
TableInv ==
  /\ stage \in {"read", "built", "shown"}
  /\ pushed \in Seq([addr : Offsets, name : SymNames])
  /\ stage # "read" => symbols \in SortsByAddr(pushed) /\ addresses \in SortsByName(symbols)
  /\ TextDenotesAddress

=============================================================================
