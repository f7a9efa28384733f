------------------------------ MODULE PageRead ------------------------------
(***************************************************************************)
(* read_virtual_memory and try_read_virtual_memory of                      *)
(* vminer-core/src/lib.rs: every read of guest virtual memory is split at  *)
(* page boundaries, and each piece is translated and read on its own       *)
(* (default_read_virtual_memory of backend.rs) while the guest runs and    *)
(* may map or unmap pages.  Addresses wrap at 2^64; the first form fails   *)
(* at the first page that is not mapped, the second one leaves the bytes   *)
(* of such pages as they were.                                             *)
(*                                                                         *)
(* A byte of the buffer is abstracted to where it was copied from: a page  *)
(* and an offset in the physical frame the page is mapped to.              *)
(***************************************************************************)
EXTENDS Integers

CONSTANTS
  PageSize,    \* 0x1000
  Space,       \* number of virtual addresses, 2^64
  MaxLen,      \* bound: length of the buffer
  MaxRemaps,   \* bound: changes the guest makes to its page table
  Untouched    \* a byte of the buffer that was not written

ASSUME PageReadAssumption ==
  /\ PageSize \in Nat \ {0}
  /\ Space \in Nat /\ Space > PageSize /\ Space % PageSize = 0
  /\ MaxLen \in 0..Space
  /\ MaxRemaps \in Nat
  /\ Untouched \notin Nat \X Nat

VARIABLES
  trying,      \* the call is try_read_virtual_memory
  start, len,  \* its address and the length of its buffer
  addr,        \* where the rest of the buffer is to be read from
  next_page,   \* the page of addr
  done,        \* bytes of the buffer that are behind
  buf,         \* the buffer
  outcome,     \* the result, or "none"
  status,      \* status[p]: what reading page p does
  steady,      \* pages whose status never changed
  nremaps      \* changes so far

callVars == <<trying, start, len>>
guestVars == <<status, steady, nremaps>>
vars == <<callVars, addr, next_page, done, buf, outcome, guestVars>>

Addresses == 0..(Space - 1)

\* addr & !0xfff
PageStart(a) == a - (a % PageSize)

PageStarts == {PageStart(a) : a \in Addresses}

\* "invalid": the translation fails; "fault": it works, and the memory it
\* leads to cannot be read.
Statuses == {"mapped", "invalid", "fault"}

\* wrapping_add of an address and at most Space.
WrappingAdd(a, n) == IF a + n >= Space THEN a + n - Space ELSE a + n

\* The difference of two addresses, wrapping.
WrappingSub(a, b) == IF a >= b THEN a - b ELSE a - b + Space

\* The byte j bytes after address a, in the frame that a is translated to.
FrameByte(a, j) == <<PageStart(a), a - PageStart(a) + j>>

TypeOK ==
  /\ trying \in BOOLEAN
  /\ start \in Addresses /\ len \in 0..MaxLen
  /\ addr \in Addresses /\ next_page \in Addresses
  /\ done \in 0..len
  /\ buf \in [0..(len - 1) -> (Nat \X Nat) \cup {Untouched}]
  /\ outcome \in {"none", "ok", "invalid", "fault"}
  /\ status \in [PageStarts -> Statuses]
  /\ steady \subseteq PageStarts
  /\ nremaps \in 0..MaxRemaps

Init ==
  /\ trying \in BOOLEAN
  /\ start \in Addresses /\ len \in 0..MaxLen
  /\ addr = start
  /\ next_page = PageStart(start)
  /\ done = 0
  /\ buf = [k \in 0..(len - 1) |-> Untouched]
  /\ outcome = "none"
  /\ status \in [PageStarts -> Statuses]
  /\ steady = PageStarts
  /\ nremaps = 0

-----------------------------------------------------------------------------
(* One turn of the loop *)

\* Mutant: next_page stays at the last page.
SaturatingPage == IF next_page + PageSize >= Space THEN next_page ELSE next_page + PageSize

NextPage == WrappingAdd(next_page, PageSize)

Diff == WrappingSub(NextPage, addr)

IsLast == Diff >= len - done

ChunkLen == IF IsLast THEN len - done ELSE Diff

\* The piece is copied from the frame its first byte is translated to.
Copied ==
  [k \in 0..(len - 1) |-> IF k \in done..(done + ChunkLen - 1) THEN FrameByte(addr, k - done)
                          ELSE buf[k]]

\* Mutant: the rest of the buffer is read at the same address again.
AdvanceSameAddr ==
  IF IsLast
  THEN done' = len /\ outcome' = "ok" /\ UNCHANGED <<addr, next_page>>
  ELSE /\ next_page' = NextPage
       /\ done' = done + Diff
       /\ UNCHANGED <<addr, outcome>>

\* The loop returns, or goes on with the rest of the buffer.
Advance ==
  IF IsLast
  THEN done' = len /\ outcome' = "ok" /\ UNCHANGED <<addr, next_page>>
  ELSE /\ next_page' = NextPage
       /\ addr' = NextPage
       /\ done' = done + Diff
       /\ UNCHANGED outcome

PageStatus == status[PageStart(addr)]

CopyChunk ==
  /\ outcome = "none" /\ PageStatus = "mapped"
  /\ buf' = Copied
  /\ Advance
  /\ UNCHANGED <<callVars, guestVars>>

\* Mutant: try_read_virtual_memory skips a page whose memory fails, too.
SkipAnyChunk ==
  /\ outcome = "none" /\ trying /\ PageStatus \in {"invalid", "fault"}
  /\ Advance
  /\ UNCHANGED <<callVars, buf, guestVars>>

\* try_read_virtual_memory: an unmapped page is logged and passed over.
SkipChunk ==
  /\ outcome = "none" /\ trying /\ PageStatus = "invalid"
  /\ Advance
  /\ UNCHANGED <<callVars, buf, guestVars>>

\* Mutant: the buffer is written before the error is met.
FailAfterCopy ==
  /\ outcome = "none"
  /\ PageStatus = "fault" \/ (PageStatus = "invalid" /\ ~trying)
  /\ outcome' = PageStatus
  /\ buf' = Copied
  /\ UNCHANGED <<callVars, addr, next_page, done, guestVars>>

FailChunk ==
  /\ outcome = "none"
  /\ PageStatus = "fault" \/ (PageStatus = "invalid" /\ ~trying)
  /\ outcome' = PageStatus
  /\ UNCHANGED <<callVars, addr, next_page, done, buf, guestVars>>

\* The guest changes a mapping between two pieces.
GuestRemaps ==
  /\ outcome = "none" /\ nremaps < MaxRemaps
  /\ \E p \in PageStarts : \E s \in Statuses \ {status[p]} :
       status' = [status EXCEPT ![p] = s] /\ steady' = steady \ {p}
  /\ nremaps' = nremaps + 1
  /\ UNCHANGED <<callVars, addr, next_page, done, buf, outcome>>

Next == CopyChunk \/ SkipChunk \/ FailChunk \/ GuestRemaps

Spec == Init /\ [][Next]_vars

\* The loop runs on.
FairSpec == Spec /\ WF_vars(CopyChunk \/ SkipChunk \/ FailChunk)

-----------------------------------------------------------------------------
(* Properties *)

\* The address of the k-th byte of the buffer, and the byte that is there.
AddrOf(k) == WrappingAdd(start, k)
ByteOf(k) == FrameByte(AddrOf(k), 0)

\* Whatever the outcome, every byte that was written is the one at its own
\* virtual address: pieces neither overlap, nor leave gaps, nor run over the
\* end of a page into a frame that belongs to another one, at the end of the
\* address space included.
InPlace == \A k \in 0..(len - 1) : buf[k] \in {Untouched, ByteOf(k)}

\* A call that returns Ok left out no byte it could have read: only
\* try_read_virtual_memory leaves bytes out, and of a page whose mapping did
\* not change meanwhile only when the page is not mapped.
OnlyHolesSkipped ==
  outcome = "ok" =>
    \A k \in 0..(len - 1) : buf[k] = Untouched =>
      /\ trying
      /\ PageStart(AddrOf(k)) \in steady => status[PageStart(AddrOf(k))] = "invalid"

\* A call that returns an error does it for a page of the buffer (or of its
\* address, when the buffer is empty) and wrote nothing from that page on.
FailsInOrder ==
  outcome \in {"invalid", "fault"} =>
    /\ done < len \/ len = 0
    /\ \A k \in done..(len - 1) : buf[k] = Untouched
    /\ PageStart(AddrOf(done)) \in steady => status[PageStart(AddrOf(done))] = outcome

\* The inductive invariant: where the loop is, and what is behind it.
LoopInv ==
  /\ next_page = PageStart(addr)
  /\ outcome # "ok" => addr = AddrOf(done) /\ (done < len \/ len = 0)
  /\ outcome = "ok" => done = len
  /\ outcome \in {"invalid", "fault"} =>
       status[PageStart(addr)] = outcome /\ (outcome = "invalid" => ~trying)
  /\ \A k \in done..(len - 1) : buf[k] = Untouched
  /\ \A k \in 0..(done - 1) :
       \/ buf[k] = ByteOf(k)
       \/ /\ buf[k] = Untouched /\ trying
          /\ PageStart(AddrOf(k)) \in steady => status[PageStart(AddrOf(k))] = "invalid"

\* The read returns: no turn of the loop makes no progress.
Returns == <>(outcome # "none")

=============================================================================
