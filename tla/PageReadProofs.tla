--------------------------- MODULE PageReadProofs ---------------------------
(***************************************************************************)
(* Proofs about PageRead, for every page size, every size of the address   *)
(* space that is a multiple of it, and every buffer no longer than that.   *)
(***************************************************************************)
EXTENDS PageRead, TLAPS

USE PageReadAssumption

-----------------------------------------------------------------------------
(* Arithmetic of page boundaries *)

\* A multiple of the page size is the only one less than a page below a number.
LEMMA OneMultiple ==
  ASSUME NEW p \in Int, NEW q \in Int, NEW r \in 0..(PageSize - 1), NEW s \in 0..(PageSize - 1),
         PageSize * p + r = PageSize * q + s
  PROVE  p = q /\ r = s
  <1>1. CASE p < q
    <2>1. PageSize * (q - p) >= PageSize
      BY <1>1
    <2> QED BY <2>1
  <1>2. CASE q < p
    <2>1. PageSize * (p - q) >= PageSize
      BY <1>2
    <2> QED BY <2>1
  <1> QED BY <1>1, <1>2

\* What % means.
LEMMA Division ==
  ASSUME NEW a \in Nat
  PROVE  /\ a % PageSize \in 0..(PageSize - 1)
         /\ a \div PageSize \in Nat
         /\ a = PageSize * (a \div PageSize) + (a % PageSize)
  OBVIOUS

LEMMA StartOfPage ==
  ASSUME NEW a \in Nat
  PROVE  /\ PageStart(a) \in Nat
         /\ PageStart(a) <= a /\ a < PageStart(a) + PageSize
         /\ \E q \in Nat : PageStart(a) = PageSize * q
  <1>1. /\ a % PageSize \in 0..(PageSize - 1)
        /\ a \div PageSize \in Nat
        /\ a = PageSize * (a \div PageSize) + (a % PageSize)
    BY Division
  <1>2. PageStart(a) = PageSize * (a \div PageSize)
    BY <1>1 DEF PageStart
  <1>3. PageStart(a) \in Nat
    BY <1>1, <1>2
  <1>4. PageStart(a) <= a /\ a < PageStart(a) + PageSize
    BY <1>1 DEF PageStart
  <1> QED BY <1>1, <1>2, <1>3, <1>4

\* Every address less than a page after a boundary is in the page there.
LEMMA SamePage ==
  ASSUME NEW b \in Nat, NEW q \in Nat, b = PageSize * q, NEW x \in b..(b + PageSize - 1)
  PROVE  PageStart(x) = b
  <1>1. x \in Nat  OBVIOUS
  <1>2. /\ x % PageSize \in 0..(PageSize - 1)
        /\ x \div PageSize \in Nat
        /\ x = PageSize * (x \div PageSize) + (x % PageSize)
    BY <1>1, Division
  <1>3. x - b \in 0..(PageSize - 1) /\ x = PageSize * q + (x - b)
    OBVIOUS
  <1>4. x % PageSize = x - b
    <2> DEFINE p == x \div PageSize
               r == x % PageSize
               s == x - b
    <2>1. /\ p \in Int /\ q \in Int /\ r \in 0..(PageSize - 1) /\ s \in 0..(PageSize - 1)
          /\ PageSize * p + r = PageSize * q + s
      BY <1>2, <1>3
    <2> HIDE DEF p, r, s
    <2>2. r = s
      BY <2>1, OneMultiple
    <2> QED BY <2>2 DEF r, s
  <1> QED BY <1>4 DEF PageStart

\* The page after one inside the address space: it starts where that one ends,
\* or at 0.
LEMMA PageAfter ==
  ASSUME NEW a \in Addresses
  PROVE  /\ PageStart(a) \in Addresses /\ PageStart(a) + PageSize <= Space
         /\ WrappingAdd(PageStart(a), PageSize) \in Addresses
         /\ PageStart(WrappingAdd(PageStart(a), PageSize)) = WrappingAdd(PageStart(a), PageSize)
         /\ WrappingSub(WrappingAdd(PageStart(a), PageSize), a) = PageStart(a) + PageSize - a
  <1> DEFINE b == PageStart(a)
  <1>1. a \in Nat /\ a < Space  BY DEF Addresses
  <1>2. b \in Nat /\ b <= a /\ a < b + PageSize
    BY <1>1, StartOfPage
  <1>3. PICK q \in Nat : b = PageSize * q
    BY <1>1, StartOfPage
  <1>4. Space = PageSize * (Space \div PageSize) /\ Space \div PageSize \in Nat
    BY Division
  <1> HIDE DEF b
  <1>5. q < Space \div PageSize
    <2> SUFFICES ASSUME q >= Space \div PageSize PROVE FALSE
      BY <1>4
    <2>1. PageSize * q >= PageSize * (Space \div PageSize)
      BY <1>4
    <2> QED BY <1>1, <1>2, <1>3, <1>4, <2>1
  <1>6. b + PageSize <= Space
    <2>1. PageSize * (q + 1) <= PageSize * (Space \div PageSize)
      BY <1>4, <1>5
    <2>2. PageSize * (q + 1) = b + PageSize
      BY <1>3
    <2> QED BY <1>4, <2>1, <2>2
  <1>7. PageStart(0) = 0
    <2>1. 0 = PageSize * 0  OBVIOUS
    <2> QED BY <2>1, SamePage
  <1>8. PageStart(b + PageSize) = b + PageSize
    <2>1. q + 1 \in Nat /\ b + PageSize \in Nat /\ b + PageSize = PageSize * (q + 1)
      BY <1>2, <1>3
    <2> QED BY <2>1, SamePage
  <1>9. WrappingAdd(b, PageSize) = IF b + PageSize = Space THEN 0 ELSE b + PageSize
    BY <1>2, <1>6 DEF WrappingAdd
  <1>10. WrappingSub(WrappingAdd(b, PageSize), a) = b + PageSize - a
    BY <1>1, <1>2, <1>6, <1>9 DEF WrappingSub
  <1> QED BY <1>1, <1>2, <1>6, <1>7, <1>8, <1>9, <1>10 DEF Addresses, b

\* The bytes up to the end of a page are those of its frame.
LEMMA BytesOfPage ==
  ASSUME NEW a \in Addresses, NEW j \in Nat, j < PageStart(a) + PageSize - a
  PROVE  /\ a + j \in Addresses
         /\ PageStart(a + j) = PageStart(a)
         /\ FrameByte(a + j, 0) = FrameByte(a, j)
  <1> DEFINE b == PageStart(a)
  <1>1. /\ a \in Nat /\ b \in Nat /\ b <= a /\ b + PageSize <= Space
    BY StartOfPage, PageAfter DEF Addresses
  <1>2. PICK q \in Nat : b = PageSize * q
    BY <1>1, StartOfPage
  <1>3. PageStart(a + j) = b
    <2>1. a + j \in b..(b + PageSize - 1)
      BY <1>1
    <2> HIDE DEF b
    <2> QED BY <1>1, <1>2, <2>1, SamePage
  <1> QED BY <1>1, <1>3 DEF FrameByte, Addresses

-----------------------------------------------------------------------------
(* One turn of the loop *)

\* The piece a turn handles is not longer than what is left of the page, and
\* its bytes are those the buffer wants.
LEMMA Chunk ==
  ASSUME TypeOK, LoopInv, outcome = "none"
  PROVE  /\ NextPage \in Addresses /\ PageStart(NextPage) = NextPage
         /\ ChunkLen \in Nat /\ done + ChunkLen <= len
         /\ IsLast => done + ChunkLen = len
         /\ ~IsLast => /\ Diff \in Nat /\ ChunkLen = Diff /\ done + Diff < len
                       /\ NextPage = AddrOf(done + Diff)
         /\ \A k \in done..(done + ChunkLen - 1) :
              /\ PageStart(AddrOf(k)) = PageStart(addr)
              /\ FrameByte(addr, k - done) = ByteOf(k)
  <1> DEFINE b == PageStart(addr)
  <1>1. /\ addr \in Nat /\ addr < Space /\ start \in Nat /\ start < Space
        /\ len \in Nat /\ len <= Space /\ done \in Nat /\ done <= len
        /\ next_page = b /\ addr = AddrOf(done)
    BY DEF TypeOK, LoopInv, Addresses
  <1>2. /\ b \in Nat /\ b <= addr /\ addr < b + PageSize /\ b + PageSize <= Space
        /\ NextPage \in Addresses /\ PageStart(NextPage) = NextPage
        /\ Diff = b + PageSize - addr
    BY <1>1, StartOfPage, PageAfter DEF Addresses, NextPage, Diff
  <1>3. NextPage = IF b + PageSize = Space THEN 0 ELSE b + PageSize
    BY <1>1, <1>2 DEF NextPage, WrappingAdd
  <1> HIDE DEF b
  <1>4. ChunkLen \in Nat /\ done + ChunkLen <= len /\ ChunkLen <= Diff
    BY <1>1, <1>2 DEF ChunkLen, IsLast
  <1>5. IsLast => done + ChunkLen = len
    BY <1>1 DEF ChunkLen
  <1>6. ~IsLast => Diff \in Nat /\ ChunkLen = Diff /\ done + Diff < len
    BY <1>1, <1>2 DEF ChunkLen, IsLast
  <1>7. ~IsLast => NextPage = AddrOf(done + Diff)
    BY <1>1, <1>2, <1>3, <1>6 DEF AddrOf, WrappingAdd
  <1>8. ASSUME NEW k \in done..(done + ChunkLen - 1)
        PROVE  PageStart(AddrOf(k)) = PageStart(addr) /\ FrameByte(addr, k - done) = ByteOf(k)
    <2> DEFINE j == k - done
    <2>1. j \in Nat /\ j < b + PageSize - addr
      BY <1>1, <1>2, <1>4
    <2>2. AddrOf(k) = addr + j
      BY <1>1, <1>2, <2>1 DEF AddrOf, WrappingAdd
    <2>3. addr \in Addresses  BY <1>1 DEF Addresses
    <2>4. PageStart(addr + j) = PageStart(addr) /\ FrameByte(addr + j, 0) = FrameByte(addr, j)
      BY <2>1, <2>3, BytesOfPage DEF b
    <2> QED BY <2>2, <2>4 DEF ByteOf
  <1> QED BY <1>2, <1>4, <1>5, <1>6, <1>7, <1>8

LEMMA FrameByteType ==
  ASSUME NEW a \in Addresses, NEW j \in Nat
  PROVE  FrameByte(a, j) \in Nat \X Nat
  <1>1. a \in Nat  BY DEF Addresses
  <1>2. PageStart(a) \in Nat /\ PageStart(a) <= a
    BY <1>1, StartOfPage
  <1>3. a - PageStart(a) + j \in Nat
    BY <1>1, <1>2
  <1> QED BY <1>2, <1>3 DEF FrameByte

\* What CopyChunk and SkipChunk have in common: the loop moves on, and the
\* bytes of the piece are either those at their addresses, or left out
\* because the page is not mapped.
LEMMA AdvanceKeeps ==
  ASSUME TypeOK, LoopInv, outcome = "none", Advance, UNCHANGED <<callVars, guestVars>>,
         buf' \in [0..(len - 1) -> (Nat \X Nat) \cup {Untouched}],
         \A k \in 0..(len - 1) :
           k \notin done..(done + ChunkLen - 1) => buf'[k] = buf[k],
         \A k \in done..(done + ChunkLen - 1) :
           \/ buf'[k] = ByteOf(k)
           \/ buf'[k] = Untouched /\ trying /\ status[PageStart(addr)] = "invalid"
  PROVE  TypeOK' /\ LoopInv'
  <1> USE DEF callVars, guestVars
  <1>1. /\ NextPage \in Addresses /\ PageStart(NextPage) = NextPage
        /\ ChunkLen \in Nat /\ done + ChunkLen <= len
        /\ IsLast => done + ChunkLen = len
        /\ ~IsLast => /\ Diff \in Nat /\ ChunkLen = Diff /\ done + Diff < len
                      /\ NextPage = AddrOf(done + Diff)
    BY Chunk
  <1>2. \A k \in done..(done + ChunkLen - 1) : PageStart(AddrOf(k)) = PageStart(addr)
    BY Chunk
  <1>3. /\ len \in Nat /\ done \in Nat /\ done <= len
    BY DEF TypeOK
  <1>4. done' = done + ChunkLen
    BY <1>1, <1>3 DEF Advance
  <1>5. TypeOK'
    <2>1. addr' \in Addresses /\ next_page' \in Addresses /\ outcome' \in {"none", "ok"}
      BY <1>1 DEF Advance, TypeOK
    <2>2. done' \in 0..len'
      BY <1>1, <1>3, <1>4
    <2> QED BY <2>1, <2>2 DEF TypeOK
  <1>6. \A k : AddrOf(k)' = AddrOf(k) /\ ByteOf(k)' = ByteOf(k)
    BY DEF AddrOf, ByteOf
  <1>7. ASSUME NEW k \in 0..(done' - 1)
        PROVE  \/ buf'[k] = ByteOf(k)
               \/ /\ buf'[k] = Untouched /\ trying
                  /\ PageStart(AddrOf(k)) \in steady => status[PageStart(AddrOf(k))] = "invalid"
    <2>1. CASE k < done
      BY <1>3, <1>1, <1>4, <2>1 DEF LoopInv
    <2>2. CASE k >= done
      BY <1>1, <1>2, <1>3, <1>4, <2>2
    <2> QED BY <1>3, <2>1, <2>2
  <1>8. ASSUME NEW k \in done'..(len - 1)
        PROVE  buf'[k] = Untouched
    BY <1>1, <1>3, <1>4 DEF LoopInv
  <1>9. /\ next_page' = PageStart(addr')
        /\ outcome' # "ok" => addr' = AddrOf(done') /\ (done' < len \/ len = 0)
        /\ outcome' = "ok" => done' = len
        /\ outcome' \notin {"invalid", "fault"}
    BY <1>1 DEF Advance, LoopInv
  <1> QED
    <2>1. AddrOf(done)' = AddrOf(done')  BY DEF AddrOf
    <2>2. len' = len /\ trying' = trying /\ status' = status /\ steady' = steady
      OBVIOUS
    <2> HIDE DEF callVars, guestVars
    <2> QED BY <1>5, <1>6, <1>7, <1>8, <1>9, <2>1, <2>2 DEF LoopInv

-----------------------------------------------------------------------------
(* The invariant *)

LEMMA InitInv == Init => TypeOK /\ LoopInv
  <1> SUFFICES ASSUME Init PROVE TypeOK /\ LoopInv
    OBVIOUS
  <1>1. start \in Nat /\ start < Space /\ len \in Nat /\ len <= MaxLen
    BY DEF Init, Addresses
  <1>2. PageStart(start) \in Addresses
    BY PageAfter DEF Init
  <1>3. TypeOK
    BY <1>1, <1>2 DEF Init, TypeOK
  <1>4. AddrOf(0) = start
    BY <1>1 DEF AddrOf, WrappingAdd
  <1>5. LoopInv
    BY <1>1, <1>4 DEF Init, LoopInv
  <1> QED BY <1>3, <1>5

LEMMA CopyInv ==
  ASSUME TypeOK, LoopInv, CopyChunk
  PROVE  TypeOK' /\ LoopInv'
  <1>1. \A k \in done..(done + ChunkLen - 1) : FrameByte(addr, k - done) = ByteOf(k)
    BY Chunk DEF CopyChunk
  <1>2. ChunkLen \in Nat /\ done + ChunkLen <= len /\ done \in Nat /\ len \in Nat
    BY Chunk DEF CopyChunk, TypeOK
  <1>3. \A k \in 0..(len - 1) :
          buf'[k] = IF k \in done..(done + ChunkLen - 1) THEN FrameByte(addr, k - done) ELSE buf[k]
    BY DEF CopyChunk, Copied
  <1>4. \A k \in done..(done + ChunkLen - 1) : FrameByte(addr, k - done) \in Nat \X Nat
    <2>1. addr \in Addresses /\ \A k \in done..(done + ChunkLen - 1) : k - done \in Nat
      BY <1>2 DEF TypeOK
    <2> QED BY <2>1, FrameByteType
  <1>5. buf' \in [0..(len - 1) -> (Nat \X Nat) \cup {Untouched}]
    <2>1. \A k \in 0..(len - 1) : buf[k] \in (Nat \X Nat) \cup {Untouched}
      BY DEF TypeOK
    <2> QED BY <1>4, <2>1 DEF CopyChunk, Copied
  <1>6. \A k \in done..(done + ChunkLen - 1) : buf'[k] = ByteOf(k)
    BY <1>1, <1>2, <1>3
  <1>7. outcome = "none" /\ Advance /\ UNCHANGED <<callVars, guestVars>>
    BY DEF CopyChunk
  <1> QED BY <1>3, <1>5, <1>6, <1>7, AdvanceKeeps

LEMMA SkipInv ==
  ASSUME TypeOK, LoopInv, SkipChunk
  PROVE  TypeOK' /\ LoopInv'
  <1>1. /\ outcome = "none" /\ Advance /\ UNCHANGED <<callVars, guestVars>> /\ buf' = buf
        /\ trying /\ status[PageStart(addr)] = "invalid"
    BY DEF SkipChunk, PageStatus
  <1>2. ChunkLen \in Nat /\ done + ChunkLen <= len /\ done \in Nat /\ len \in Nat
    BY <1>1, Chunk DEF TypeOK
  <1>3. \A k \in done..(done + ChunkLen - 1) : buf[k] = Untouched
    BY <1>2 DEF LoopInv
  <1> QED BY <1>1, <1>3, AdvanceKeeps DEF TypeOK

LEMMA FailInv ==
  ASSUME TypeOK, LoopInv, FailChunk
  PROVE  TypeOK' /\ LoopInv'
  <1>1. UNCHANGED <<trying, start, len, addr, next_page, done, buf, status, steady, nremaps>>
    BY DEF FailChunk, callVars, guestVars
  <1>2. /\ outcome = "none" /\ outcome' \in {"invalid", "fault"}
        /\ status[PageStart(addr)] = outcome' /\ (outcome' = "invalid" => ~trying)
    BY DEF FailChunk, PageStatus
  <1>3. \A k : AddrOf(k)' = AddrOf(k) /\ ByteOf(k)' = ByteOf(k)
    BY <1>1 DEF AddrOf, ByteOf
  <1>4. TypeOK'
    BY <1>1, <1>2 DEF TypeOK
  <1>5. AddrOf(done)' = AddrOf(done)
    BY <1>1 DEF AddrOf
  <1> QED BY <1>1, <1>2, <1>3, <1>4, <1>5 DEF LoopInv

LEMMA RemapInv ==
  ASSUME TypeOK, LoopInv, GuestRemaps
  PROVE  TypeOK' /\ LoopInv'
  <1>1. UNCHANGED <<trying, start, len, addr, next_page, done, buf, outcome>>
    BY DEF GuestRemaps, callVars
  <1>2. PICK p \in PageStarts : \E s \in Statuses \ {status[p]} :
          status' = [status EXCEPT ![p] = s] /\ steady' = steady \ {p}
    BY DEF GuestRemaps
  <1>3. TypeOK'
    BY <1>1, <1>2 DEF GuestRemaps, TypeOK
  <1>4. \A k : AddrOf(k)' = AddrOf(k) /\ ByteOf(k)' = ByteOf(k)
    BY <1>1 DEF AddrOf, ByteOf
  <1>5. \A x \in steady' : x \in steady /\ status'[x] = status[x]
    BY <1>2 DEF TypeOK
  <1>6. AddrOf(done)' = AddrOf(done)
    BY <1>1 DEF AddrOf
  <1> QED BY <1>1, <1>3, <1>4, <1>5, <1>6 DEF LoopInv, GuestRemaps

\* In every state of every read the loop is at the address of the first byte
\* that is not behind it, and what is behind is right.
THEOREM LoopCorrect == Spec => [](TypeOK /\ LoopInv)
  <1>1. TypeOK /\ LoopInv /\ [Next]_vars => (TypeOK /\ LoopInv)'
    <2> SUFFICES ASSUME TypeOK, LoopInv, [Next]_vars PROVE (TypeOK /\ LoopInv)'
      OBVIOUS
    <2>1. CASE UNCHANGED vars
      <3>1. UNCHANGED <<trying, start, len, addr, next_page, done, buf, outcome, status, steady, nremaps>>
        BY <2>1 DEF vars, callVars, guestVars
      <3>2. TypeOK'  BY <3>1 DEF TypeOK
      <3>3. \A k : AddrOf(k)' = AddrOf(k) /\ ByteOf(k)' = ByteOf(k)
        BY <3>1 DEF AddrOf, ByteOf
      <3>4. AddrOf(done)' = AddrOf(done)
        BY <3>1 DEF AddrOf
      <3> QED BY <3>1, <3>2, <3>3, <3>4 DEF LoopInv
    <2> QED BY <2>1, CopyInv, SkipInv, FailInv, RemapInv DEF Next
  <1> QED BY <1>1, InitInv, PTL DEF Spec

\* Every byte written is the one at its own virtual address.
THEOREM AlwaysInPlace == Spec => []InPlace
  <1>1. TypeOK /\ LoopInv => InPlace
    BY DEF TypeOK, LoopInv, InPlace
  <1> QED BY <1>1, LoopCorrect, PTL

\* A successful read leaves out bytes of unmapped pages only.
THEOREM AlwaysOnlyHolesSkipped == Spec => []OnlyHolesSkipped
  <1>1. TypeOK /\ LoopInv => OnlyHolesSkipped
    <2> SUFFICES ASSUME TypeOK, LoopInv, outcome = "ok", NEW k \in 0..(len - 1), buf[k] = Untouched
                 PROVE  /\ trying
                        /\ PageStart(AddrOf(k)) \in steady => status[PageStart(AddrOf(k))] = "invalid"
      BY DEF OnlyHolesSkipped
    <2>1. done = len  BY DEF LoopInv
    <2>2. AddrOf(k) \in Addresses
      BY DEF TypeOK, AddrOf, WrappingAdd, Addresses
    <2>3. ByteOf(k) # Untouched
      BY <2>2, FrameByteType DEF ByteOf
    <2> QED BY <2>1, <2>3 DEF LoopInv
  <1> QED BY <1>1, LoopCorrect, PTL

\* A failed read wrote nothing from the page that failed on.
THEOREM AlwaysFailsInOrder == Spec => []FailsInOrder
  <1>1. TypeOK /\ LoopInv => FailsInOrder
    BY DEF TypeOK, LoopInv, FailsInOrder
  <1> QED BY <1>1, LoopCorrect, PTL

=============================================================================
