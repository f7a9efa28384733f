---------------------------- MODULE LinuxModules ----------------------------
(***************************************************************************)
(* The modules of a process of a running Linux guest: the walk of its VMAs *)
(* by process_for_each_module, module_span for each one that is a module   *)
(* (vminer/src/os/linux/mod.rs), the vector that the unwinder makes of     *)
(* them, and the two lookups by address: the one of the unwinder           *)
(* (linux/callstack.rs) and the one of Os (vminer-core/src/os.rs).         *)
(*                                                                         *)
(* One action of the walk is one read of guest memory; between two of them *)
(* the process maps and unmaps.  The kernel frees the structure of a VMA   *)
(* that it unmaps, and the walk may still be on it.                        *)
(***************************************************************************)
EXTENDS Integers, FiniteSets, Sequences, SequencesExt

CONSTANTS
  Vmas,        \* vm_area_struct structures
  Files,       \* files that are mapped
  NoFile,      \* vm_file of anonymous memory
  NoVma,        \* the null pointer
  Pages,       \* pages of the address space
  MaxVmas,     \* bound: VMAs when the walk begins
  MaxWrites,   \* bound: steps of the process during the walk
  Reuse        \* whether the structure of an unmapped VMA is used again

ASSUME ModulesAssumption ==
  /\ NoFile \notin Files /\ NoVma \notin Vmas
  /\ IsFiniteSet(Vmas)
  /\ Pages \in Nat /\ MaxVmas \in 0..Cardinality(Vmas) /\ MaxWrites \in Nat /\ Reuse \in BOOLEAN

VARIABLES
  vma,         \* vma[v]: the fields of v
  first,       \* mm.mmap
  mapped,      \* the structures that are VMAs of the process
  freed,       \* the structures that were
  nwrites,
  doing,          \* the next read of the walk
  cur,         \* the VMA that process_for_each_vma is at
  at, ahead,   \* the VMA that module_span is at, and the one behind it
  file, start, \* what module_span has read
  modules      \* Context.modules

vmaVars == <<vma, first, mapped, freed, nwrites>>
scanVars == <<doing, cur, at, ahead, file, start, modules>>
moduleVars == <<vmaVars, scanVars>>

Bounds == {b \in (0..Pages) \X (0..Pages) : b[1] < b[2]}
Backing == (Files \X {0, 1}) \union {<<NoFile, 0>>}

Area(b, f, next) == [start |-> b[1], end |-> b[2], file |-> f[1], off |-> f[2], next |-> next]
Unused == [start |-> 0, end |-> 0, file |-> NoFile, off |-> 0, next |-> NoVma]

LinuxModulesTypeOK ==
  /\ vma \in [Vmas -> [start : 0..Pages, end : 0..Pages, file : Files \union {NoFile},
                       off : 0..Pages + 1, next : Vmas \union {NoVma}]]
  /\ {first, cur, at, ahead} \subseteq Vmas \union {NoVma}
  /\ mapped \subseteq Vmas /\ freed \subseteq Vmas
  /\ nwrites \in 0..MaxWrites
  /\ doing \in {"first", "off", "path", "file", "start", "next", "next_file", "end", "vm_next", "done", "err"}
  /\ file \in Files \union {NoFile} /\ start \in 0..Pages
  /\ modules \in Seq([module : Vmas, file : Files \union {NoFile}, start : 0..Pages, end : 0..Pages])

\* The VMAs of a process: disjoint and linked by growing address.
Layouts == {bs \in UNION {[1..n -> Bounds] : n \in 0..MaxVmas} :
              \A i, k \in DOMAIN bs : i < k => bs[i][2] <= bs[k][1]}

LinuxModulesInit ==
  /\ \E order \in Layouts :
       LET n == Len(order)
           ids == SetToSeq(Vmas)
           Link(k) == IF k < n THEN ids[k + 1] ELSE NoVma
       IN \E f \in [1..n -> Backing] :
            /\ vma = [v \in Vmas |->
                        LET k == CHOOSE k \in DOMAIN ids : ids[k] = v
                        IN IF k <= n THEN Area(order[k], f[k], Link(k)) ELSE Unused]
            /\ first = Link(0)
            /\ mapped = {ids[k] : k \in 1..n}
  /\ freed = {} /\ nwrites = 0
  /\ doing = "first" /\ cur = NoVma /\ at = NoVma /\ ahead = NoVma
  /\ file = NoFile /\ start = 0 /\ modules = <<>>

-----------------------------------------------------------------------------
(* The process *)

\* The last VMA below page p, or NoVma: the one whose link changes.
Below(p) ==
  LET low == {v \in mapped : vma[v].end <= p}
  IN IF low = {} THEN NoVma ELSE CHOOSE v \in low : \A w \in low : vma[w].end <= vma[v].end

After(v) == IF v = NoVma THEN first ELSE vma[v].next

\* vma and first, with x in place of what followed v.
Relink(v, x, fields) ==
  IF v = NoVma THEN first' = x /\ vma' = fields
  ELSE first' = first /\ vma' = [fields EXCEPT ![v].next = x]

Write == doing \notin {"done", "err"} /\ nwrites < MaxWrites /\ nwrites' = nwrites + 1 /\ UNCHANGED scanVars

Map(v) ==
  /\ Write
  /\ v \notin mapped /\ (v \in freed => Reuse)
  /\ \E b \in Bounds, f \in Backing :
       /\ \A w \in mapped : b[2] <= vma[w].start \/ vma[w].end <= b[1]
       /\ LET p == Below(b[1]) IN Relink(p, v, [vma EXCEPT ![v] = Area(b, f, After(p))])
  /\ mapped' = mapped \union {v}
  /\ UNCHANGED freed

\* The structure that is freed keeps its contents until it is used again.
Unmap(v) ==
  /\ Write
  /\ v \in mapped
  /\ Relink(Below(vma[v].start), vma[v].next, vma)
  /\ mapped' = mapped \ {v} /\ freed' = freed \union {v}

\* The first page, or the last one, of a VMA is unmapped.
Trim(v) ==
  /\ Write
  /\ v \in mapped /\ vma[v].end - vma[v].start > 1
  /\ \/ vma' = [vma EXCEPT ![v].end = @ - 1]
     \/ vma' = [vma EXCEPT ![v].start = @ + 1, ![v].off = @ + 1]
  /\ UNCHANGED <<first, mapped, freed>>

Process == \E v \in Vmas : Map(v) \/ Unmap(v) \/ Trim(v)

-----------------------------------------------------------------------------
(* process_for_each_vma and process_for_each_module *)

\* The next round of the loop, or its end.
Round(v) == cur' = v /\ doing' = IF v = NoVma THEN "done" ELSE "off"

ReadFirst ==
  /\ doing = "first" /\ Round(first)
  /\ UNCHANGED <<vmaVars, at, ahead, file, start, modules>>

ReadNextVma ==
  /\ doing = "vm_next" /\ Round(vma[cur].next)
  /\ UNCHANGED <<vmaVars, at, ahead, file, start, modules>>

\* vma_offset
ReadOffset ==
  /\ doing = "off"
  /\ doing' = IF vma[cur].off = 0 THEN "path" ELSE "vm_next"
  /\ UNCHANGED <<vmaVars, cur, at, ahead, file, start, modules>>

\* vma_path
ReadPath ==
  /\ doing = "path"
  /\ doing' = IF vma[cur].file # NoFile THEN "file" ELSE "vm_next"
  /\ UNCHANGED <<vmaVars, cur, at, ahead, file, start, modules>>

(* module_span *)

ReadFile ==
  /\ doing = "file"
  /\ file' = vma[cur].file /\ doing' = "start"
  /\ UNCHANGED <<vmaVars, cur, at, ahead, start, modules>>

ReadStart ==
  /\ doing = "start"
  /\ start' = vma[cur].start /\ at' = cur /\ doing' = "next"
  /\ UNCHANGED <<vmaVars, cur, ahead, file, modules>>

ReadNext ==
  /\ doing = "next"
  /\ ahead' = vma[at].next
  /\ doing' = IF vma[at].next = NoVma THEN "end" ELSE "next_file"
  /\ UNCHANGED <<vmaVars, cur, at, file, start, modules>>

\* Mutant: the span goes on over the memory of other files.
ReadNextFileAny ==
  /\ doing = "next_file"
  /\ doing' = "next" /\ at' = ahead
  /\ UNCHANGED <<vmaVars, cur, ahead, file, start, modules>>

ReadNextFile ==
  /\ doing = "next_file"
  /\ IF vma[ahead].file # file
     THEN doing' = "end" /\ UNCHANGED at
     ELSE doing' = "next" /\ at' = ahead
  /\ UNCHANGED <<vmaVars, cur, ahead, file, start, modules>>

\* The span is complete, and the module is pushed.
ReadEnd ==
  /\ doing = "end"
  /\ modules' = Append(modules, [module |-> cur, file |-> file, start |-> start, end |-> vma[at].end])
  /\ doing' = "vm_next"
  /\ UNCHANGED <<vmaVars, cur, at, ahead, file, start>>

\* Any read can fail, and ends the walk.
ModuleFault ==
  /\ doing \notin {"done", "err"}
  /\ doing' = "err"
  /\ UNCHANGED <<vmaVars, cur, at, ahead, file, start, modules>>

ModuleWalk ==
  \/ ReadFirst \/ ReadNextVma \/ ReadOffset \/ ReadPath
  \/ ReadFile \/ ReadStart \/ ReadNext \/ ReadNextFile \/ ReadEnd

LinuxModulesNext == Process \/ ModuleWalk \/ ModuleFault

LinuxModulesSpec == LinuxModulesInit /\ [][LinuxModulesNext]_moduleVars

-----------------------------------------------------------------------------
(* Lookup by address *)

InSpan(m, a) == m.start <= a /\ a < m.end

NotFound == [module |-> NoVma, file |-> NoFile, start |-> 0, end |-> 0]

\* Context::find_module_by_address: a binary search over the starts.
CtxFind(a) ==
  LET exact == {k \in DOMAIN modules : modules[k].start = a}
      i == Cardinality({k \in DOMAIN modules : modules[k].start < a})
  IN IF exact # {} THEN modules[CHOOSE k \in exact : TRUE]
     ELSE IF i = 0 \/ ~InSpan(modules[i], a) THEN NotFound
     ELSE modules[i]

\* Os::find_module_by_address: the first module of the walk that contains it.
OsFind(a) ==
  LET k == SelectInSeq(modules, LAMBDA m : InSpan(m, a))
  IN IF k = 0 THEN NotFound ELSE modules[k]

-----------------------------------------------------------------------------
(* Properties *)

Quiet == doing = "done" /\ nwrites = 0

VmaAt(a) == {v \in mapped : vma[v].start <= a /\ a < vma[v].end}

\* v belongs to a module: the VMAs of its file in front of it reach back
\* without interruption to one with offset 0.
InModule(v) ==
  /\ vma[v].file # NoFile
  /\ \E m \in mapped :
       /\ vma[m].off = 0 /\ vma[m].start <= vma[v].start
       /\ \A w \in mapped : vma[m].start <= vma[w].start /\ vma[w].start <= vma[v].start
                              => vma[w].file = vma[v].file

\* "This is sorted by growing address so we can do binary searches"
\* (linux/callstack.rs): also when the process maps and unmaps under the
\* walk; and discover_sections allocates a buffer of the size of a span.
Searchable ==
  /\ \A k \in 1..(Len(modules) - 1) : modules[k].start < modules[k + 1].start
  /\ \A k \in DOMAIN modules : modules[k].start < modules[k].end

\* The modules can be searched; and with a process that did not change its
\* memory, both lookups find a module of the right file for every address
\* of a module, and never give an address to the module of another file.
LookupsRight ==
  /\ Searchable
  /\ Quiet => \A a \in 0..(Pages - 1) : \A v \in VmaAt(a) :
             \A m \in {CtxFind(a), OsFind(a)} :
               m.file = IF InModule(v) THEN vma[v].file ELSE NoFile

-----------------------------------------------------------------------------
(* Why it holds, when no structure is used again *)

Used == mapped \union freed

\* x is the first VMA of the process at page a or behind it.
Follows(a, x) ==
  IF x = NoVma THEN \A u \in mapped : vma[u].start < a
  ELSE /\ x \in mapped /\ a <= vma[x].start
       /\ \A u \in mapped : a <= vma[u].start => vma[x].start <= vma[u].start

\* The list of the process has its VMAs in the order of their addresses; and
\* the link of a VMA that was unmapped still leads to a higher address.
ListRight ==
  /\ Follows(0, first)
  /\ \A v \in mapped : Follows(vma[v].end, vma[v].next)
  /\ \A v, w \in mapped : v # w => vma[v].end <= vma[w].start \/ vma[w].end <= vma[v].start
  /\ \A v \in Used : vma[v].start < vma[v].end
  /\ \A v \in Vmas : vma[v].off <= vma[v].start + 1
  /\ \A v \in Used : vma[v].next # NoVma =>
       vma[v].next \in Used /\ vma[v].end <= vma[vma[v].next].start

Sorted ==
  /\ \A i, k \in DOMAIN modules : i < k => modules[i].start < modules[k].start
  /\ \A k \in DOMAIN modules : modules[k].start < modules[k].end

AtVma == doing \in {"off", "path", "file", "start"}
InSpanOf == doing \in {"next", "next_file", "end"}

\* The walk only goes to higher addresses.
WalkUpwards ==
  /\ doing = "first" => modules = <<>>
  /\ (AtVma \/ InSpanOf \/ doing = "vm_next") => cur \in Used
  /\ InSpanOf => at \in Used /\ start <= vma[at].start /\ start <= vma[cur].start
  /\ doing = "next_file" => ahead \in Used /\ start <= vma[ahead].start
  /\ \A k \in DOMAIN modules :
       /\ AtVma => modules[k].start < vma[cur].start
       /\ InSpanOf => modules[k].start < start
       /\ doing = "vm_next" => modules[k].start <= vma[cur].start

IsModule(v) == vma[v].off = 0 /\ vma[v].file # NoFile

\* The VMAs from page s to e are of file f, and the one behind is not.
Run(s, e, f) ==
  /\ e \in mapped /\ s <= vma[e].start
  /\ \A w \in mapped : s <= vma[w].start /\ vma[w].start <= vma[e].start => vma[w].file = f
EndsAt(e, f) == vma[e].next = NoVma \/ vma[vma[e].next].file # f

\* A module is what its span says, and those the walk got past are there.
SpansRight ==
  /\ freed = {}
  /\ \A k \in DOMAIN modules : LET m == modules[k] IN
       /\ m.module \in mapped /\ IsModule(m.module)
       /\ m.file = vma[m.module].file /\ m.start = vma[m.module].start
       /\ \E e \in mapped : m.end = vma[e].end /\ Run(m.start, e, m.file) /\ EndsAt(e, m.file)
  /\ doing \in {"path", "file", "start"} \/ InSpanOf => vma[cur].off = 0
  /\ doing \in {"file", "start"} \/ InSpanOf => vma[cur].file # NoFile
  /\ doing = "start" \/ InSpanOf => file = vma[cur].file
  /\ InSpanOf => start = vma[cur].start /\ Run(start, at, file)
  /\ doing = "next_file" => ahead = vma[at].next
  /\ doing = "end" => EndsAt(at, file)
  /\ doing \notin {"first", "err"} => \A v \in mapped : IsModule(v) =>
       \/ \E k \in DOMAIN modules : modules[k].module = v
       \/ (AtVma \/ InSpanOf) /\ vma[cur].start <= vma[v].start
       \/ doing = "vm_next" /\ vma[cur].start < vma[v].start

\* The invariant of the walk.
ModulesInv ==
  /\ LinuxModulesTypeOK
  /\ mapped \intersect freed = {}
  /\ ListRight /\ Sorted /\ WalkUpwards
  /\ nwrites = 0 => SpansRight

=============================================================================
