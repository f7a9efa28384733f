----------------------------- MODULE SymbolCache ----------------------------
(***************************************************************************)
(* How the symbols of a Windows module are obtained: module_symbols of     *)
(* vminer/src/os/windows/mod.rs asks the SymbolsIndexer of its process     *)
(* (vminer-core/src/symbols/mod.rs), which loads a module once; the loader *)
(* (windows/loader.rs) takes the PDB from a directory that all the vminer  *)
(* processes of the user share, or downloads it and saves it there.        *)
(*                                                                         *)
(* A PDB is made of Pieces: the first one ends inside of its signature.    *)
(* fs::write truncates the file and writes piece after piece, each at its  *)
(* place, so a file is the set of the pieces that are in it.  A process    *)
(* may be killed between any two steps; its threads start again.           *)
(***************************************************************************)
EXTENDS Naturals

CONSTANTS
  Procs,       \* vminer processes that share the directory
  Threads,     \* their threads
  ProcOf,      \* ProcOf[t]: the process of thread t
  Modules,     \* modules of the guest
  NameOf,      \* NameOf[m]: the name of module m, which is the key of the indexer
  IdOf,        \* IdOf[m]: name and identifier of its PDB, or NoId when the image has none
  NoId,
  Preloaded,   \* names that load_dir loads when a process starts
  NPieces,     \* pieces of a PDB
  NoFile, Absent, NoThread,
  NoSymbols,   \* Ok(None)
  Failed,      \* an error
  Panicked,    \* a panic
  NoModule,
  MaxAsks,     \* bound: calls of module_symbols
  MaxCrashes,  \* bound: times a process is killed
  MaxFaults    \* bound: reads, downloads and writes that fail

ASSUME CacheAssumption ==
  /\ ProcOf \in [Threads -> Procs]
  /\ DOMAIN NameOf = Modules /\ DOMAIN IdOf = Modules
  /\ NPieces \in Nat /\ NPieces > 2
  /\ {MaxAsks, MaxCrashes, MaxFaults} \subseteq Nat

VARIABLES
  disk,        \* disk[i]: the file of PDB i: whose content it is and its pieces, or NoFile
  slot,        \* slot[p][n]: what the indexer of p has for the name n, or Absent
  owner,       \* owner[p][n]: the thread of p that loads n, or NoThread
  at,          \* at[t]: the next step of thread t
  asked,       \* asked[t]: the module whose symbols it wants
  piece,       \* piece[t]: the pieces it has written
  boots,       \* boots[p]: times p was started again
  nasks, nfaults, ncrashes,
  spoiled      \* the PDBs whose file some process left unfinished, or was read unfinished

cacheVars == <<disk, slot, owner, at, asked, piece, boots, nasks, nfaults, ncrashes, spoiled>>

Names == {NameOf[m] : m \in Modules} \union Preloaded
Ids == {IdOf[m] : m \in Modules} \ {NoId}
Pieces == 1..NPieces

\* Symbols that were parsed from the pieces s of the PDB i.
Symbols(i, s) == [of |-> i, pieces |-> s]
Values == {Symbols(i, s) : i \in Ids \union {"user"}, s \in SUBSET Pieces} \union {NoSymbols}

CacheTypeOK ==
  /\ disk \in [Ids -> [of : Ids, pieces : SUBSET Pieces] \union {NoFile}]
  /\ slot \in [Procs -> [Names -> Values \union {Absent}]]
  /\ owner \in [Procs -> [Names -> Threads \union {NoThread}]]
  /\ at \in [Threads -> {"idle", "insert", "codeview", "exists", "read", "download", "create", "write", "parse"}]
  /\ asked \in [Threads -> Modules \union {NoModule}] /\ piece \in [Threads -> 0..NPieces]
  /\ boots \in [Procs -> Nat]
  /\ nasks \in 0..MaxAsks /\ nfaults \in 0..MaxFaults /\ ncrashes \in 0..MaxCrashes
  /\ spoiled \subseteq Ids

\* The marks are nothing else that they could be taken for.
ASSUME MarksAssumption ==
  /\ "user" \notin Ids /\ NoThread \notin Threads /\ NoModule \notin Modules
  /\ NoFile \notin {Symbols(i, s) : i \in Ids, s \in SUBSET Pieces}
  /\ NoSymbols \notin {Symbols(i, s) : i \in Ids \union {"user"}, s \in SUBSET Pieces}
  /\ Absent \notin Values
  /\ Panicked # Failed /\ \A s \in SUBSET Pieces : s # Panicked /\ s # Failed

\* load_dir: the files that can be read are loaded under their file names,
\* the others are passed over.
LoadDir == [n \in Names |-> IF n \in Preloaded THEN Symbols("user", Pieces) ELSE Absent]

CacheInit ==
  /\ disk = [i \in Ids |-> NoFile]
  /\ slot = [p \in Procs |-> LoadDir]
  /\ owner = [p \in Procs |-> [n \in Names |-> NoThread]]
  /\ at = [t \in Threads |-> "idle"]
  /\ asked = [t \in Threads |-> NoModule]
  /\ piece = [t \in Threads |-> 0]
  /\ boots = [p \in Procs |-> 0]
  /\ nasks = 0 /\ nfaults = 0 /\ ncrashes = 0 /\ spoiled = {}

Key(t) == NameOf[asked[t]]
Pdb(t) == IdOf[asked[t]]

\* Mutant: the path has the name of the PDB and not its identifier.
PathByName(t) == CHOOSE i \in Ids : TRUE

\* The path of load: root, name, identifier and name.
Path(t) == Pdb(t)

Goto(t, s) == at' = [at EXCEPT ![t] = s]

\* module_symbols returns.
Return(t) ==
  /\ at' = [at EXCEPT ![t] = "idle"]
  /\ asked' = [asked EXCEPT ![t] = NoModule]
  /\ piece' = [piece EXCEPT ![t] = 0]

\* Mutant: the key stays taken when the closure fails.
FailTaken(t) ==
  /\ Return(t)
  /\ UNCHANGED <<disk, slot, owner, boots, nasks, ncrashes>>

\* The closure fails: the key is free again, and the next caller loads again.
Fail(t) ==
  /\ owner' = [owner EXCEPT ![ProcOf[t]][Key(t)] = NoThread]
  /\ Return(t)
  /\ UNCHANGED <<disk, slot, boots, nasks, ncrashes>>

\* The closure returns v, which the indexer keeps.
Keep(t, v) ==
  /\ slot' = [slot EXCEPT ![ProcOf[t]][Key(t)] = v]
  /\ owner' = [owner EXCEPT ![ProcOf[t]][Key(t)] = NoThread]
  /\ Return(t)
  /\ UNCHANGED <<boots, nasks, ncrashes>>

\* The process ends; what its threads were writing stays as it is.
End(p) ==
  /\ slot' = [slot EXCEPT ![p] = LoadDir]
  /\ owner' = [owner EXCEPT ![p] = [n \in Names |-> NoThread]]
  /\ at' = [t \in Threads |-> IF ProcOf[t] = p THEN "idle" ELSE at[t]]
  /\ asked' = [t \in Threads |-> IF ProcOf[t] = p THEN NoModule ELSE asked[t]]
  /\ piece' = [t \in Threads |-> IF ProcOf[t] = p THEN 0 ELSE piece[t]]
  /\ boots' = [boots EXCEPT ![p] = @ + 1]
  /\ UNCHANGED <<disk, nasks, nfaults>>

Writing(i) == {t \in Threads : at[t] = "write" /\ Pdb(t) = i}

\* The PDBs whose files are left unfinished when p ends.
Unfinished(p) == {i \in Ids : \E t \in Writing(i) : ProcOf[t] = p}

-----------------------------------------------------------------------------
(* One thread *)

\* module_symbols reads the name of a module.
AskFor(t) ==
  /\ at[t] = "idle" /\ nasks < MaxAsks
  /\ \E m \in Modules : asked' = [asked EXCEPT ![t] = m]
  /\ nasks' = nasks + 1
  /\ Goto(t, "insert")
  /\ UNCHANGED <<disk, slot, owner, piece, boots, nfaults, ncrashes, spoiled>>

\* Mutant: two threads may load the same key.
TryInsertRacy(t) ==
  /\ at[t] = "insert"
  /\ LET v == slot[ProcOf[t]][Key(t)]
     IN IF v # Absent
        THEN Return(t) /\ UNCHANGED owner
        ELSE owner' = [owner EXCEPT ![ProcOf[t]][Key(t)] = t] /\ Goto(t, "codeview") /\ UNCHANGED <<asked, piece>>
  /\ UNCHANGED <<disk, slot, boots, nasks, nfaults, ncrashes, spoiled>>

\* try_insert of OnceMap: what is there is returned; otherwise one thread
\* loads, and the others that want the same key wait for it.
TryInsert(t) ==
  /\ at[t] = "insert"
  /\ LET v == slot[ProcOf[t]][Key(t)]
     IN \/ v # Absent /\ Return(t) /\ UNCHANGED owner
        \/ /\ v = Absent /\ owner[ProcOf[t]][Key(t)] = NoThread
           /\ owner' = [owner EXCEPT ![ProcOf[t]][Key(t)] = t]
           /\ Goto(t, "codeview") /\ UNCHANGED <<asked, piece>>
  /\ UNCHANGED <<disk, slot, boots, nasks, nfaults, ncrashes, spoiled>>

\* module_codeview: a module without a record has no symbols.
ReadCodeview(t) ==
  /\ at[t] = "codeview"
  /\ IF Pdb(t) = NoId
     THEN Keep(t, NoSymbols) /\ UNCHANGED <<disk, nfaults, spoiled>>
     ELSE /\ Goto(t, "exists")
          /\ UNCHANGED <<disk, slot, owner, asked, piece, boots, nasks, nfaults, ncrashes, spoiled>>

CodeviewFails(t) ==
  at[t] = "codeview" /\ nfaults < MaxFaults /\ nfaults' = nfaults + 1 /\ Fail(t) /\ UNCHANGED spoiled

\* path.exists()
Exists(t) ==
  /\ at[t] = "exists"
  /\ Goto(t, IF disk[Path(t)] = NoFile THEN "download" ELSE "read")
  /\ UNCHANGED <<disk, slot, owner, asked, piece, boots, nasks, nfaults, ncrashes, spoiled>>

\* What read_bytes makes of the pieces s.  No bytes at all are a symbols
\* file without symbols, a few bytes a line that is too short (a panic).  A
\* PDB that is not whole is refused, or read without what is missing; what
\* does not begin with the signature is a symbols file, refused or without
\* symbols.
ReadBytes(s) ==
  CASE s \in {{}, Pieces} -> {s}
    [] s = {1} -> {Panicked}
    [] 1 \in s /\ s # {1} /\ s # Pieces -> {Failed, s}
    [] 1 \notin s /\ s # {} -> {Failed, {}}

\* from_file.  A panic unwinds through try_insert, which frees the key, to a
\* caller who catches it, or ends the process.
ReadFile(t) ==
  /\ at[t] = "read"
  /\ LET file == disk[Path(t)]
         early == IF Writing(Path(t)) = {} THEN {} ELSE {Path(t)}
     IN \E r \in ReadBytes(file.pieces) :
          \/ /\ r = Panicked /\ End(ProcOf[t]) /\ UNCHANGED ncrashes
             /\ spoiled' = spoiled \union early \union Unfinished(ProcOf[t])
          \/ /\ r \in {Panicked, Failed} /\ Fail(t) /\ UNCHANGED nfaults
             /\ spoiled' = spoiled \union early
          \/ /\ r \notin {Panicked, Failed}
             /\ Keep(t, Symbols(file.of, r)) /\ UNCHANGED <<disk, nfaults>>
             /\ spoiled' = spoiled \union early

\* fs::read fails.
ReadFails(t) ==
  at[t] = "read" /\ nfaults < MaxFaults /\ nfaults' = nfaults + 1 /\ Fail(t) /\ UNCHANGED spoiled

\* Mutant: a transfer that breaks off is taken for its end.
DownloadShort(t) ==
  /\ at[t] = "download"
  /\ \/ Goto(t, "create") /\ UNCHANGED <<slot, owner, asked, piece, boots, nasks, ncrashes, nfaults>>
     \/ nfaults < MaxFaults /\ nfaults' = nfaults + 1 /\ Keep(t, Symbols(Pdb(t), {1, 2}))
  /\ UNCHANGED <<disk, spoiled>>

\* The PDB is downloaded, all of it; an error is logged and the module has
\* no symbols, for as long as the process runs.
Download(t) ==
  /\ at[t] = "download"
  /\ \/ Goto(t, "create") /\ UNCHANGED <<slot, owner, asked, piece, boots, nasks, ncrashes, nfaults>>
     \/ nfaults < MaxFaults /\ nfaults' = nfaults + 1 /\ Keep(t, NoSymbols)
  /\ UNCHANGED <<disk, spoiled>>

\* create_dir_all, and fs::write opens and truncates; errors are only logged.
Create(t) ==
  /\ at[t] = "create"
  /\ \/ /\ disk' = [disk EXCEPT ![Path(t)] = Symbols(Pdb(t), {})]
        /\ piece' = [piece EXCEPT ![t] = 0]
        /\ Goto(t, "write") /\ UNCHANGED nfaults
     \/ /\ nfaults < MaxFaults /\ nfaults' = nfaults + 1
        /\ Goto(t, "parse") /\ UNCHANGED <<disk, piece>>
  /\ UNCHANGED <<slot, owner, asked, boots, nasks, ncrashes, spoiled>>

\* fs::write writes on, or fails, which is only logged.
Write(t) ==
  /\ at[t] = "write"
  /\ \/ /\ piece' = [piece EXCEPT ![t] = @ + 1]
        /\ disk' = [disk EXCEPT ![Path(t)].pieces = @ \union {piece'[t]}]
        /\ Goto(t, IF piece'[t] = NPieces THEN "parse" ELSE "write")
        /\ UNCHANGED <<nfaults, spoiled>>
     \/ /\ nfaults < MaxFaults /\ nfaults' = nfaults + 1
        /\ Goto(t, "parse")
        /\ spoiled' = spoiled \union {Path(t)}
        /\ UNCHANGED <<disk, piece>>
  /\ UNCHANGED <<slot, owner, asked, boots, nasks, ncrashes>>

\* from_bytes of what was downloaded, whatever became of the file.  When it
\* is no PDB that can be read, the module has no symbols, and the file stays.
ParseDownload(t) ==
  /\ at[t] = "parse"
  /\ \/ Keep(t, Symbols(Pdb(t), Pieces)) /\ UNCHANGED nfaults
     \/ nfaults < MaxFaults /\ nfaults' = nfaults + 1 /\ Keep(t, NoSymbols)
  /\ UNCHANGED <<disk, spoiled>>

\* The process is killed.
Kill(p) ==
  /\ ncrashes < MaxCrashes /\ ncrashes' = ncrashes + 1
  /\ \E t \in Threads : ProcOf[t] = p /\ at[t] # "idle"
  /\ spoiled' = spoiled \union Unfinished(p)
  /\ End(p)

Thread(t) ==
  \/ TryInsert(t) \/ ReadCodeview(t) \/ CodeviewFails(t) \/ Exists(t) \/ ReadFile(t) \/ ReadFails(t)
  \/ Download(t) \/ Create(t) \/ Write(t) \/ ParseDownload(t)

CacheNext == (\E t \in Threads : AskFor(t) \/ Thread(t)) \/ (\E p \in Procs : Kill(p))

CacheSpec == CacheInit /\ [][CacheNext]_cacheVars

CacheFairness == \A t \in Threads : WF_cacheVars(Thread(t))

-----------------------------------------------------------------------------
(* Properties *)

\* Why they hold.  A thread that loads knows its module, has the key of the
\* indexer for itself, and found nothing under it.
OneLoader ==
  \A t \in Threads :
    /\ at[t] # "idle" => asked[t] \in Modules
    /\ at[t] \notin {"idle", "insert"} =>
         owner[ProcOf[t]][Key(t)] = t /\ slot[ProcOf[t]][Key(t)] = Absent
    /\ at[t] \notin {"idle", "insert", "codeview"} => Pdb(t) # NoId

\* A file is at the path of its PDB; one that is not whole is being written
\* by a thread that has written the beginning, or was left to itself.
FilesRight ==
  /\ \A t \in Threads : at[t] \in {"read", "write"} => disk[Pdb(t)] # NoFile
  /\ \A t \in Threads : at[t] = "write" => piece[t] < NPieces
  /\ \A i \in Ids : disk[i] # NoFile =>
       /\ disk[i].of = i
       /\ \/ disk[i].pieces = Pieces \/ i \in spoiled
          \/ \E t \in Writing(i) : 1..piece[t] \subseteq disk[i].pieces

\* Symbols that are not whole come from a file that a process left
\* unfinished (it was killed, or its disk failed) or was still writing: in
\* one process, with no crash and no failing disk, try_insert and the order
\* of the steps of load never give a part of a PDB, whatever fails.
WholeUnlessSpoiled ==
  \A p \in Procs, n \in Names :
    LET v == slot[p][n]
    IN v \notin {Absent, NoSymbols} => v.pieces = Pieces \/ v.of \in spoiled

\* The symbols kept under a name are the ones of a module of the guest with
\* that name, or the ones the user loaded under it: the file of another
\* version of a PDB is never used.
RightPdb ==
  \A p \in Procs, n \in Names :
    LET v == slot[p][n]
    IN v \notin {Absent, NoSymbols} =>
         IF v.of = "user" THEN n \in Preloaded
         ELSE \E m \in Modules : NameOf[m] = n /\ IdOf[m] = v.of

\* The references module_symbols returned stay good: what the indexer keeps
\* is never replaced while the process runs.
KeptForEver ==
  [][\A p \in Procs, n \in Names :
       slot[p][n] # Absent => slot'[p][n] = slot[p][n] \/ boots'[p] # boots[p]]_cacheVars

\* The invariant of the loader.
LoaderInv == CacheTypeOK /\ OneLoader /\ FilesRight /\ RightPdb /\ WholeUnlessSpoiled

\* Every call of module_symbols returns: a thread that waits for another
\* one's load goes on when that load succeeds, when it fails and when it
\* panics.
Answered == \A t \in Threads : at[t] = "insert" ~> at[t] = "idle"

=============================================================================
