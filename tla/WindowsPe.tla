------------------------------ MODULE WindowsPe ------------------------------
(***************************************************************************)
(* How the kernel of a Windows guest and the PDB of an image are found     *)
(* (vminer/src/os/windows/mod.rs): pe_get_pdb_guid searches an image for   *)
(* its CodeView record, page by page, with the end of the last page in     *)
(* front of the next one; find_kernel does so for the images it meets      *)
(* until one names the kernel's PDB, for quick_check and for build.        *)
(*                                                                         *)
(* Memory is cells: the signature "RSDS" is one, and a record is RecCells  *)
(* of them, the signature first, the identifier in the middle and the name *)
(* last.  Pages that are not mapped keep what the buffer had.              *)
(***************************************************************************)
EXTENDS Integers, Sequences, SequencesExt

CONSTANTS
  PageCells,   \* cells of a page, 0x1000
  Carry,       \* cells that are kept of the page before, 8
  RecCells,    \* cells of a record, 52
  Images,      \* images: cells, pages that are not mapped, whether the size is known
  MaxImages,   \* bound: images in kernel memory
  NoRecord     \* no record was found

ASSUME PeAssumption ==
  /\ PageCells \in Nat /\ Carry \in 1 .. PageCells /\ RecCells \in 3 .. PageCells
  /\ \A i \in Images : Len(i.cells) % PageCells = 0

VARIABLES
  images,      \* the images of kernel memory, in the order of their addresses
  cand,        \* the one that is searched, 0 before the first
  peAt,        \* "next", "first", "search", "page", "done", "failed" or "cut"
  turnPage,    \* the page of the loop
  buffer,      \* Carry + PageCells cells
  record,      \* what was found
  builder      \* quick_check's result

peVars == <<images, cand, peAt, turnPage, buffer, record, builder>>

Blank == [i \in 1 .. Carry + PageCells |-> "0"]

PeInit ==
  /\ images \in UNION {[1 .. n -> Images] : n \in 1 .. MaxImages}
  /\ cand = 0 /\ peAt = "next" /\ turnPage = 0 /\ buffer = Blank /\ record = NoRecord
  /\ builder = NoRecord

-----------------------------------------------------------------------------
(* Memory and records *)

Image == images[cand]
NPages == Len(Image.cells) \div PageCells

\* try_read_memory: cells from a place of the image, over what was there.
TryRead(at, old) ==
  [i \in DOMAIN old |->
     LET c == at + i
     IN IF c \in DOMAIN Image.cells /\ ((c - 1) \div PageCells) \notin Image.holes THEN Image.cells[c] ELSE old[i]]

\* Codeview::name: printable and ended by a zero; zeros are an empty name.
HasName(r) == r[RecCells] \in {"kernel", "other", "0"}

\* Mutant: a record that ends with the buffer is taken for one that does not.
FitsShort(i) == i + RecCells - 1 < Carry + PageCells

\* The record is read from the buffer when it is whole.
Fits(i) == i + RecCells - 1 <= Carry + PageCells

\* Otherwise it is read again, at the place of the match in the buffer
\* counted from the page of the loop.
RecordAt(i) ==
  IF Fits(i) THEN SubSeq(buffer, i, i + RecCells - 1)
  ELSE TryRead(turnPage * PageCells + i - 1, [j \in 1 .. RecCells |-> "0"])

Matches == {i \in DOMAIN buffer : buffer[i] = "RSDS" /\ HasName(RecordAt(i))}

-----------------------------------------------------------------------------
(* pe_get_pdb_guid *)

\* The first page; without a size, the header of the image has it.
ReadFirst ==
  /\ peAt = "first"
  /\ buffer' = SubSeq(Blank, 1, Carry) \o TryRead(0, SubSeq(Blank, Carry + 1, Carry + PageCells))
  /\ turnPage' = 0
  /\ peAt' = IF ~Image.sized /\ 0 \in Image.holes THEN "next" ELSE "search"
  /\ UNCHANGED <<images, cand, record, builder>>

\* The records of the buffer, in order, until one has a name; the kernel's
\* is what find_kernel wants.
SearchPage ==
  /\ peAt = "search"
  /\ IF Matches # {}
     THEN LET r == RecordAt(CHOOSE i \in Matches : \A j \in Matches : i <= j)
          IN IF r[RecCells] = "kernel"
             THEN peAt' = "done" /\ record' = [of |-> cand, cells |-> r]
             ELSE peAt' = "next" /\ UNCHANGED record
     ELSE peAt' = "page" /\ UNCHANGED record
  /\ UNCHANGED <<images, cand, turnPage, buffer, builder>>

\* The loop: the end of the buffer goes to its front, the page of this turn
\* behind it; the last page that is read is not searched any more.
NextPage ==
  /\ peAt = "page"
  /\ buffer' = SubSeq(buffer, PageCells + 1, PageCells + Carry)
               \o TryRead(turnPage * PageCells, SubSeq(buffer, Carry + 1, Carry + PageCells))
  /\ turnPage' = turnPage + 1
  /\ peAt' = IF turnPage + 1 < NPages THEN "search" ELSE "next"
  /\ UNCHANGED <<images, cand, record, builder>>

-----------------------------------------------------------------------------
(* find_kernel *)

\* Errors of an image are passed over; after the last one there is no
\* kernel.  An error of the search for images ends it too, as if there were
\* no more of them.
NextImage ==
  /\ peAt = "next"
  /\ \/ cand < Len(images) /\ cand' = cand + 1 /\ peAt' = "first"
     \/ cand = Len(images) /\ peAt' = "failed" /\ UNCHANGED cand
     \/ peAt' = "cut" /\ UNCHANGED cand
  /\ UNCHANGED <<images, turnPage, buffer, record, builder>>

\* quick_check keeps what it found for build.
QuickCheck ==
  /\ peAt = "done" /\ builder = NoRecord
  /\ builder' = record
  /\ UNCHANGED <<images, cand, peAt, turnPage, buffer, record>>

PeNext == ReadFirst \/ SearchPage \/ NextPage \/ NextImage \/ QuickCheck

-----------------------------------------------------------------------------
(* Properties *)

PageOf(c) == (c - 1) \div PageCells

\* The records of an image, and whether each lies in one page.
Signatures(i) == {c \in DOMAIN i.cells : i.cells[c] = "RSDS"}
Whole(i, c) == c + RecCells - 1 \in DOMAIN i.cells /\ PageOf(c) = PageOf(c + RecCells - 1)
Clean(i) == \A c \in Signatures(i) : Whole(i, c)

\* As long as no signature is so close to the end of its page that the
\* record goes over it: the kernel that is found is an image with the
\* kernel's record, whose identifier is the one that is kept; and no
\* kernel is passed over whose record is the only one, is mapped, and is
\* not in the last of several pages, unless the search is cut off.
KernelFound ==
  (\A k \in DOMAIN images : Clean(images[k])) =>
    /\ peAt = "done" =>
         \E c \in Signatures(images[record.of]) :
           /\ record.cells = SubSeq(images[record.of].cells, c, c + RecCells - 1)
           /\ images[record.of].cells[c + RecCells - 1] = "kernel"
           /\ PageOf(c) \notin images[record.of].holes
    /\ \A k \in DOMAIN images : \A c \in Signatures(images[k]) :
         LET i == images[k]
         IN /\ Signatures(i) = {c} /\ i.cells[c + RecCells - 1] = "kernel"
            /\ i.holes = {} /\ (PageOf(c) = 0 \/ PageOf(c) + 1 < Len(i.cells) \div PageCells)
            => peAt # "failed" /\ (peAt = "done" => record.of <= k)

=============================================================================
