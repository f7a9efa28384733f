---------------------------- MODULE WindowsMemory ----------------------------
(***************************************************************************)
(* Reads of pages that Windows took out of the page tables but not out of  *)
(* memory (vminer/src/os/windows/memory.rs): read_virtual_memory_raw looks *)
(* at the entry that stopped the translation and follows it.               *)
(*                                                                         *)
(* One action is one read of guest memory, and between two of them the     *)
(* guest moves pages.  An entry is a record of the bits that are tested;   *)
(* its upper bits are a number whose highest bit is the one that Windows   *)
(* inverts in invalid entries (the swizzle bit says that it did not).      *)
(***************************************************************************)
EXTENDS Integers, FiniteSets

CONSTANTS
  Frames,      \* physical pages
  InvBit,      \* the bit that is inverted; all upper bits are set in 2 * InvBit - 1
  MaxMoves     \* bound: moves of the guest during the read

ASSUME MemoryAssumption ==
  /\ InvBit \in Nat /\ InvBit > 1 /\ Frames \subseteq 1 .. InvBit - 2 /\ MaxMoves \in Nat

VARIABLES
  home,        \* where the page is: see Homes
  shared,      \* whether it is a page of a section, behind a prototype entry
  touched,     \* whether the process used it, so that its entry is not empty
  noTable,     \* whether the page table that holds its entry is out of the page tables
  inverted,    \* whether the guest inverts bits, and KiImplementedPhysicalBits is not 0
  content,     \* content[f]: what is in a frame, "page" or something else
  nmoves,
  withProc,    \* whether the process is given (read_process_memory), for an
               \* address of the lower half: VADs are of no use for the kernel
  readAt,      \* the next read
  entry,       \* the entry that was read
  answer,      \* "none", "page", "zero", "other" or "err"
  lost,        \* ghost: the read of guest memory that failed, "none" when none did
  startHome,   \* ghost: where the page was when the read began
  startTouched,\* ghost: and whether it was used
  reusedFrame  \* ghost: whether a frame got another content during the read

memVars == <<home, shared, touched, noTable, inverted, content, nmoves, withProc, readAt, entry, answer, lost, startHome, startTouched, reusedFrame>>
guestMemVars == <<home, shared, touched, noTable, inverted, content, nmoves, startHome, startTouched, reusedFrame>>

\* In a frame that the tables point to, in one that they do not any more,
\* not there yet, or on disk.
Homes == ({"valid", "transition"} \X Frames) \union {<<"zero", 0>>, <<"disk", 0>>}

-----------------------------------------------------------------------------
(* Entries, as Windows writes them (external) *)

Pte(v, s, t, h) == [valid |-> v, soft |-> s, trans |-> t, high |-> h, swizzle |-> FALSE, zero |-> FALSE]
EmptyPte == [Pte(FALSE, FALSE, FALSE, 0) EXCEPT !.zero = TRUE]

\* An invalid entry has its highest bit set, and says when it was set anyway.
Invalid(p) ==
  IF ~inverted THEN p
  ELSE IF p.high < InvBit THEN [p EXCEPT !.high = @ + InvBit]
  ELSE [p EXCEPT !.swizzle = TRUE]

\* The entry of a page by where it is: the prototype entry of a shared page.
PteAt(h) ==
  IF h[1] = "valid" THEN Pte(TRUE, FALSE, FALSE, h[2])
  ELSE IF h[1] = "transition" THEN Invalid(Pte(FALSE, FALSE, TRUE, h[2]))
  ELSE Invalid(Pte(FALSE, FALSE, FALSE, IF h[1] = "zero" THEN 0 ELSE 1))

HomePte == PteAt(home)

\* The entry in the page table: of a shared page it points to the prototype
\* entry or to the VAD, which knows where the prototype entries begin.
TablePte ==
  IF ~shared THEN (IF touched THEN HomePte ELSE EmptyPte)
  ELSE IF touched THEN Invalid(Pte(FALSE, TRUE, FALSE, 1))
  ELSE Invalid(Pte(FALSE, TRUE, FALSE, 2 * InvBit - 1))

\* The entry of a page table that is out of the tables itself.
NoTablePte == Invalid(Pte(FALSE, FALSE, TRUE, CHOOSE f \in Frames : content[f] = "table"))

-----------------------------------------------------------------------------
(* The guest *)

MemInit ==
  /\ home \in Homes /\ shared \in BOOLEAN /\ touched \in BOOLEAN
  /\ noTable \in BOOLEAN /\ inverted \in BOOLEAN
  /\ (~shared /\ ~touched) => home = <<"zero", 0>>
  /\ \E t \in Frames \ {home[2]} :
       content = [f \in Frames |-> IF f = home[2] THEN "page" ELSE IF f = t THEN "table" ELSE "other"]
  /\ nmoves = 0 /\ withProc \in BOOLEAN
  /\ readAt = "translate" /\ entry = EmptyPte /\ answer = "none" /\ lost = "none"
  /\ startHome = home /\ startTouched = touched /\ reusedFrame = FALSE

Moves == readAt # "done" /\ nmoves < MaxMoves /\ nmoves' = nmoves + 1

\* The page leaves the tables, and comes back to them.
Trim ==
  /\ home[1] = "valid" /\ Moves
  /\ home' = <<"transition", home[2]>>
  /\ UNCHANGED <<shared, touched, noTable, inverted, content, withProc, readAt, entry, answer, lost, startHome, startTouched, reusedFrame>>

SoftFault ==
  /\ home[1] = "transition" /\ Moves
  /\ home' = <<"valid", home[2]>> /\ touched' = TRUE
  /\ UNCHANGED <<shared, noTable, inverted, content, withProc, readAt, entry, answer, lost, startHome, startTouched, reusedFrame>>

\* Its frame is taken for something else.
Repurpose ==
  /\ home[1] = "transition" /\ Moves
  /\ content' = [content EXCEPT ![home[2]] = "other"]
  /\ home' = <<"disk", 0>> /\ reusedFrame' = TRUE
  /\ UNCHANGED <<shared, touched, noTable, inverted, withProc, readAt, entry, answer, lost, startHome, startTouched>>

MemGuest == Trim \/ SoftFault \/ Repurpose

-----------------------------------------------------------------------------
(* The read *)

AllUpper == 2 * InvBit - 1

\* unswizzle: the bit is cleared unless the entry says it is its own; the
\* mask keeps everything when the number of bits is 0 or unknown.
Unswizzle(p) ==
  IF inverted /\ ~p.swizzle /\ p.high >= InvBit THEN [p EXCEPT !.high = @ - InvBit] ELSE p

\* Mutant: the transition bit is tested first.
ClassifyTransitionFirst(p) ==
  IF p.trans \/ p.soft THEN "transition"
  ELSE IF p.zero THEN "vad" ELSE IF p.high = 0 THEN "zero" ELSE "unknown"

\* classify
Classify(p) ==
  IF p.soft THEN (IF p.high = AllUpper THEN "vad" ELSE "software")
  ELSE IF p.zero THEN "vad"
  ELSE IF p.trans THEN "transition"
  ELSE IF p.high = 0 THEN "zero"
  ELSE "unknown"

EndRead(a) == readAt' = "done" /\ answer' = a /\ UNCHANGED lost

Read(e, at) == entry' = e /\ readAt' = at /\ UNCHANGED <<answer, lost>>

\* The backend fails, or what has to be read on the way is not there.
Fails == readAt' = "done" /\ answer' = "err" /\ lost' = readAt /\ UNCHANGED entry

\* The backend's translation: the entry that stops it is an upper one when
\* the page table is not there.  An error of the memory is returned as it is.
Translate ==
  /\ readAt = "translate"
  /\ \/ LET e == IF noTable THEN NoTablePte ELSE TablePte
        IN IF e.valid THEN Read(e, "copy") ELSE Read(e, "classify")
     \/ Fails
  /\ UNCHANGED <<guestMemVars, withProc>>

\* read_virtual_memory_raw: an entry of the table.  Without the process the
\* VAD cannot be found.
FollowEntry ==
  /\ readAt = "classify"
  /\ LET p == Unswizzle(entry)
         kind == Classify(p)
     IN \/ kind = "software" /\ Read(p, "prototype")
        \/ kind = "transition" /\ Read(p, "copy")
        \/ kind = "vad" /\ withProc /\ Read(p, "vad")
        \/ kind = "vad" /\ ~withProc /\ EndRead("err") /\ UNCHANGED entry
        \/ kind = "zero" /\ EndRead("zero") /\ UNCHANGED entry
        \/ kind = "unknown" /\ EndRead("err") /\ UNCHANGED entry
  /\ UNCHANGED <<guestMemVars, withProc>>

\* read_vad_pte: finds the area, and the prototype entry of the page in it.
\* One of the reads of the tree may fail, or find no area.
\* The structure of a private area ends before FirstPrototypePte, and what
\* comes after it is taken for the pointer: it leads nowhere, or anywhere.
ReadVadPte ==
  /\ readAt = "vad"
  /\ \/ Fails
     \/ shared /\ Read(entry, "prototype")
     \/ ~shared /\ EndRead("err") /\ UNCHANGED entry
     \/ ~shared /\ \E f \in Frames : Read(Pte(TRUE, FALSE, FALSE, f), "classify prototype")
  /\ UNCHANGED <<guestMemVars, withProc>>

\* The prototype entry is in memory of the kernel that may be out of the
\* tables itself, and is not looked for any further.
ReadPrototype ==
  /\ readAt = "prototype"
  /\ Read(HomePte, "classify prototype") \/ Fails
  /\ UNCHANGED <<guestMemVars, withProc>>

\* read_prototype_pte
FollowPrototype ==
  /\ readAt = "classify prototype"
  /\ LET p == Unswizzle(entry)
     IN IF entry.valid THEN Read(entry, "copy")
        ELSE \/ Classify(p) = "transition" /\ Read(p, "copy")
             \/ Classify(p) = "zero" /\ EndRead("zero") /\ UNCHANGED entry
             \/ Classify(p) \notin {"transition", "zero"} /\ EndRead("err") /\ UNCHANGED entry
  /\ UNCHANGED <<guestMemVars, withProc>>

\* read_physical: an address that has no memory behind it fails.
CopyFrame ==
  /\ readAt = "copy"
  /\ \/ EndRead(IF entry.high \in Frames THEN content[entry.high] ELSE "err") /\ UNCHANGED entry
     \/ Fails
  /\ UNCHANGED <<guestMemVars, withProc>>

MemNext ==
  MemGuest \/ Translate \/ FollowEntry \/ ReadVadPte \/ ReadPrototype \/ FollowPrototype \/ CopyFrame

MemSpec == MemInit /\ [][MemNext]_memVars

-----------------------------------------------------------------------------
(* Properties *)

Ptes == [valid : BOOLEAN, soft : BOOLEAN, trans : BOOLEAN, high : Nat, swizzle : BOOLEAN, zero : BOOLEAN]

MemTypeOK ==
  /\ home \in Homes /\ startHome \in Homes
  /\ {shared, touched, noTable, inverted, withProc, startTouched, reusedFrame} \subseteq BOOLEAN
  /\ content \in [Frames -> {"page", "table", "other"}]
  /\ nmoves \in 0..MaxMoves
  /\ readAt \in {"translate", "classify", "vad", "prototype", "classify prototype", "copy", "done"}
  /\ entry \in Ptes /\ answer \in {"none", "page", "table", "other", "zero", "err"}
  /\ lost \in {"none", "translate", "vad", "prototype", "copy"}

\* The reads that reach the page: of the tables and of its frame, of the
\* prototype entry of a shared page, and of the VAD of one that the process
\* did not use.
Needed(r) ==
  \/ r \in {"translate", "copy"}
  \/ r = "prototype" /\ shared
  \/ r = "vad" /\ shared /\ ~startTouched

\* When the page table is there, no frame changes hands during the read, and
\* the page is not a private one that was never used, what is read is the
\* page, or zeros for a page that has no content yet; and a page that is in
\* memory is read, unless a read that it needs fails, or its VAD is needed
\* and the process is not given.
SoftPagesRight ==
  readAt = "done" /\ ~noTable /\ ~reusedFrame /\ (shared \/ touched) =>
    /\ answer \in {"page", "zero", "err"}
    /\ answer = "zero" => startHome[1] = "zero"
    /\ answer = "err" => startHome[1] = "disk" \/ Needed(lost) \/ (~withProc /\ shared /\ ~startTouched)

\* Why it holds.  While its frame is not taken, a page is where it was when
\* the read began, in the tables or not.
SameHome(h) ==
  \/ h = startHome
  \/ {h[1], startHome[1]} \subseteq {"valid", "transition"} /\ h[2] = startHome[2]

\* The entry e was, at some time of the read, the one of the page.
HomeEntry(e) == \E h \in Homes : SameHome(h) /\ e = PteAt(h)

\* The entry e was in the page table: of a shared page that the process did
\* not use before the read, it may point to the VAD.
TableEntry(e) ==
  IF ~shared THEN HomeEntry(e)
  ELSE \/ e = Invalid(Pte(FALSE, TRUE, FALSE, 1))
       \/ e = Invalid(Pte(FALSE, TRUE, FALSE, AllUpper)) /\ ~startTouched

\* Each step of the read stands on an entry of the page, also an old one.
FollowsPage ==
  /\ SameHome(home)
  /\ readAt = "classify" => TableEntry(entry) /\ ~entry.valid
  /\ readAt \in {"vad", "prototype", "classify prototype"} => shared
  /\ readAt = "vad" => ~startTouched
  /\ readAt = "classify prototype" => HomeEntry(entry)
  /\ readAt = "copy" => startHome[1] \in {"valid", "transition"} /\ entry.high = startHome[2]

\* The page is in its frame, and the page table is in one of its own.
FramesRight ==
  /\ home[1] \in {"valid", "transition"} => content[home[2]] = "page"
  /\ \E f \in Frames : content[f] = "table"

\* The invariant of the read.
MemInv ==
  /\ MemTypeOK /\ FramesRight
  /\ (~shared /\ ~touched) => home = <<"zero", 0>>
  /\ startTouched => touched
  /\ ~noTable /\ ~reusedFrame /\ (shared \/ touched) => FollowsPage
  /\ SoftPagesRight

=============================================================================
