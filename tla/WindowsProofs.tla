--------------------------- MODULE WindowsProofs ----------------------------
(***************************************************************************)
(* Proofs about WindowsTasks for any number of structures, identifiers and *)
(* processes that the guest creates; and about WindowsMemory for any set of*)
(* frames, any position of the inverted bit and any number of moves of the *)
(* guest during the read.                                                  *)
(***************************************************************************)
EXTENDS WindowsTasks, WindowsMemory, TLAPS

Entries == Eprocs \union {PsHead}

USE WinTasksAssumption DEF Entries

-----------------------------------------------------------------------------
(* The list *)

\* What the invariant says of an order of the processes.
Ordered(b) == ProcsInOrder(b) /\ (~recycled /\ famAt # "idle" => FamilyInOrder(b))

\* Every entry of the list has one before it, and only one.
LEMMA PrevIs ==
  ASSUME WinTasksTypeOK, NEW b \in [Entries -> 0 .. ncreates + 2], ProcsInOrder(b),
         NEW e \in running \union {PsHead}
  PROVE  /\ PrevLink(e) \in running \union {PsHead} /\ flink[PrevLink(e)] = e
         /\ \A q \in running \union {PsHead} : flink[q] = e => q = PrevLink(e)
  <1>1. PrevLink(e) \in running \union {PsHead} /\ flink[PrevLink(e)] = e
    <2>1. \E p \in running \union {PsHead} : flink[p] = e  BY DEF ProcsInOrder
    <2> QED BY <2>1 DEF PrevLink
  <1>2. ASSUME NEW p \in running \union {PsHead}, NEW q \in running \union {PsHead},
               flink[p] = e, flink[q] = e, b[p] < b[q]
        PROVE  FALSE
    <2>1. p \in Entries /\ q \in Entries /\ e \in Entries /\ b[p] \in Nat /\ b[q] \in Nat /\ b[e] \in Nat
      BY DEF WinTasksTypeOK
    <2>2. q \in running  BY <1>2, <2>1 DEF ProcsInOrder
    <2>3. e # PsHead /\ b[e] <= b[q]  BY <1>2, <2>2 DEF ProcsInOrder
    <2>4. b[q] < b[e]  BY <1>2, <2>3 DEF ProcsInOrder
    <2> QED BY <2>1, <2>3, <2>4
  <1>3. ASSUME NEW q \in running \union {PsHead}, flink[q] = e PROVE q = PrevLink(e)
    <2> DEFINE p == PrevLink(e)
    <2>1. p \in Entries /\ q \in Entries /\ b[p] \in Nat /\ b[q] \in Nat
      BY <1>1 DEF WinTasksTypeOK
    <2> HIDE DEF p
    <2>2. b[p] = b[q]  BY <1>1, <1>2, <1>3, <2>1 DEF p
    <2> QED BY <1>1, <2>2 DEF ProcsInOrder, p
  <1> QED BY <1>1, <1>3

\* A new process comes last, with the largest number.
LEMMA CreateOrder ==
  ASSUME WinTasksTypeOK, CallRight, NEW b \in [Entries -> 0 .. ncreates + 2], Ordered(b),
         NEW e \in Eprocs, NEW by \in Eprocs, NEW i \in Pids, CreateProcess(e, by, i)
  PROVE  \E c \in [Entries -> 0 .. ncreates' + 2] : Ordered(c)'
  <1> DEFINE n == ncreates + 3
             p == PrevLink(PsHead)
  <1>0. /\ ncreates \in Nat /\ ncreates' = ncreates + 1 /\ e \notin running /\ e # PsHead /\ e \in Entries
        /\ flink' = [flink EXCEPT ![p] = e, ![e] = PsHead]
        /\ running' = running \union {e} /\ running \subseteq Eprocs
        /\ flink \in [Entries -> Entries]
    BY DEF CreateProcess, WinTasksTypeOK
  <1>1. /\ p \in running \union {PsHead} /\ flink[p] = PsHead
        /\ \A q \in running \union {PsHead} : flink[q] = PsHead => q = p
    BY PrevIs DEF Ordered
  <1> HIDE DEF p
  <1>2. PICK c \in [Entries -> 0 .. ncreates' + 2] :
          c[e] = n /\ \A u \in Entries : u # e => c[u] = b[u] /\ b[u] < n /\ b[u] \in Nat
    <2> DEFINE d == [b EXCEPT ![e] = n]
    <2>1. d \in [Entries -> 0 .. ncreates' + 2] /\ d[e] = n /\ \A u \in Entries : u # e => d[u] = b[u]  BY <1>0
    <2>2. \A u \in Entries : b[u] < n /\ b[u] \in Nat  BY <1>0
    <2> HIDE DEF d
    <2> QED BY <2>1, <2>2
  <1>3. p # e /\ p \in Entries /\ flink'[p] = e /\ flink'[e] = PsHead
    BY <1>0, <1>1
  <1>4. \A u \in Entries : u # p /\ u # e => flink'[u] = flink[u]
    BY <1>0
  <1>5. ProcsInOrder(c)'
    <2>1. c[PsHead] = 0 /\ \A u \in running' : c[u] > 0
      BY <1>0, <1>2 DEF Ordered, ProcsInOrder
    <2>2. \A u, w \in running' : c[u] = c[w] => u = w
      BY <1>0, <1>2 DEF Ordered, ProcsInOrder
    <2>3. ASSUME NEW u \in running' \union {PsHead}
          PROVE  flink'[u] \in running' \union {PsHead} /\ \E q \in running' \union {PsHead} : flink'[q] = u
      <3>1. flink'[u] \in running' \union {PsHead}
        BY <1>0, <1>1, <1>3, <1>4 DEF Ordered, ProcsInOrder
      <3>2. CASE u = e  BY <1>0, <1>1, <1>3, <3>1, <3>2
      <3>3. CASE u = PsHead  BY <1>0, <1>3, <3>1, <3>3
      <3>4. CASE u \in running
        <4>1. PICK q \in running \union {PsHead} : flink[q] = u  BY <3>4 DEF Ordered, ProcsInOrder
        <4>2. q # p /\ q # e  BY <1>0, <1>1, <3>4, <4>1
        <4> QED BY <1>0, <1>4, <3>1, <4>1, <4>2
      <3> QED BY <1>0, <3>2, <3>3, <3>4
    <2>4. ASSUME NEW u \in running' \union {PsHead}, flink'[u] # PsHead PROVE c[u] < c[flink'[u]]
      <3>1. CASE u = p  BY <1>2, <1>3, <3>1
      <3>2. CASE u # p
        <4>1. u # e /\ u \in Entries  BY <1>0, <1>3, <2>4
        <4>2. flink'[u] = flink[u] /\ u \in running \union {PsHead}  BY <1>0, <1>4, <3>2, <4>1
        <4>3. flink[u] \in running  BY <2>4, <4>2 DEF Ordered, ProcsInOrder
        <4> QED BY <1>0, <1>2, <2>4, <4>1, <4>2, <4>3 DEF Ordered, ProcsInOrder
      <3> QED BY <3>1, <3>2
    <2>5. ASSUME NEW u \in running' \union {PsHead}, NEW w \in running', c[u] < c[w]
          PROVE  flink'[u] # PsHead /\ c[flink'[u]] <= c[w]
      <3>1. u # e  BY <1>0, <1>2, <2>5
      <3>2. u \in running \union {PsHead} /\ u \in Entries /\ w \in Entries  BY <1>0, <3>1
      <3>3. CASE w = e
        <4>1. CASE u = p  BY <1>0, <1>2, <1>3, <3>3, <4>1
        <4>2. CASE u # p
          <5>1. flink'[u] = flink[u] /\ flink[u] \in running
            BY <1>1, <1>4, <3>1, <3>2, <4>2 DEF Ordered, ProcsInOrder
          <5> QED BY <1>0, <1>2, <3>3, <5>1
        <4> QED BY <4>1, <4>2
      <3>4. CASE w # e
        <4>1. w \in running /\ b[u] < b[w]  BY <1>0, <1>2, <2>5, <3>1, <3>2, <3>4
        <4>2. flink[u] # PsHead /\ b[flink[u]] <= b[w]  BY <3>2, <4>1 DEF Ordered, ProcsInOrder
        <4>3. u # p /\ flink'[u] = flink[u] /\ flink[u] \in running
          BY <1>1, <1>4, <3>1, <3>2, <4>2 DEF Ordered, ProcsInOrder
        <4> QED BY <1>0, <1>2, <3>2, <3>4, <4>2, <4>3
      <3> QED BY <3>3, <3>4
    <2> QED BY <2>1, <2>2, <2>3, <2>4, <2>5 DEF ProcsInOrder
  <1>6. ASSUME ~recycled', famAt' # "idle" PROVE FamilyInOrder(c)'
    <2>0. /\ ~recycled /\ famAt # "idle" /\ pid[e] = 0 /\ i # 0
          /\ UNCHANGED <<famAt, famOp, key, pos, seen, stable>>
          /\ pid' = [pid EXCEPT ![e] = i] /\ ppid' = [ppid EXCEPT ![e] = pid[by]]
          /\ pid \in [Eprocs -> Pids \union {0}] /\ ppid \in [Eprocs -> Pids \union {0}] /\ stable \subseteq running
      BY <1>6 DEF CreateProcess, WinTasksTypeOK, CallRight
    <2>1. FamilyInOrder(b)  BY <2>0 DEF Ordered
    <2>2. /\ running \subseteq Met(b) /\ pos \in Met(b) /\ Range(seen) \subseteq Met(b) \ {PsHead}
          /\ \A u \in Met(b) \ {PsHead} : pid[u] # 0
          /\ \A u, w \in Met(b) : b[u] = b[w] => u = w
          /\ \A u \in Met(b) : flink[u] \in Met(b) /\ (flink[u] # PsHead => b[u] < b[flink[u]])
          /\ \A u \in Met(b) : \A w \in stable : b[u] < b[w] => flink[u] # PsHead /\ b[flink[u]] <= b[w]
          /\ Met(b) \subseteq Entries /\ PsHead \in Met(b)
      BY <2>1 DEF FamilyInOrder, Met
    <2>3. e \notin Met(b)  BY <1>0, <2>0, <2>2
    <2>4. Met(c) = Met(b) \union {e}
      BY <1>0, <1>2, <2>3 DEF Met
    <2>5. \A u \in Met(b) : u # e /\ u \in Entries /\ c[u] = b[u] /\ b[u] < n /\ b[u] \in Nat
      BY <1>2, <2>2, <2>3
    <2>6. n \in Nat /\ p \in Met(b) /\ stable \subseteq Met(b)
      BY <1>0, <1>1, <2>0, <2>2
    <2>7. \A u \in Met(b) : u # p => flink'[u] = flink[u]
      BY <1>4, <2>5
    <2>8. running' \subseteq Met(c) /\ pos' \in Met(c) /\ Range(seen') \subseteq Met(c) \ {PsHead}
      BY <1>0, <2>0, <2>2, <2>4
    <2>9. \A u \in Met(c) \ {PsHead} : pid'[u] # 0
      BY <2>0, <2>2, <2>4, <2>5 DEF Met
    <2>10. \A u, w \in Met(c) : c[u] = c[w] => u = w
      BY <1>2, <2>2, <2>4, <2>5, <2>6
    <2>11. ASSUME NEW u \in Met(c) PROVE flink'[u] \in Met(c) /\ (flink'[u] # PsHead => c[u] < c[flink'[u]])
      <3>1. CASE u = e  BY <1>3, <2>2, <2>4, <3>1
      <3>2. CASE u = p  BY <1>2, <1>3, <2>4, <2>5, <2>6, <3>2
      <3>3. CASE u # e /\ u # p
        <4>1. u \in Met(b) /\ flink'[u] = flink[u]  BY <2>4, <2>7, <3>3
        <4>2. flink[u] \in Met(b)  BY <2>2, <4>1
        <4> QED BY <2>2, <2>4, <2>5, <4>1, <4>2
      <3> QED BY <3>1, <3>2, <3>3
    <2>12. ASSUME NEW u \in Met(c), NEW w \in stable', c[u] < c[w]
           PROVE  flink'[u] # PsHead /\ c[flink'[u]] <= c[w]
      <3>1. w \in stable /\ w \in Met(b)  BY <2>0, <2>6
      <3>2. u # e  BY <1>2, <2>5, <2>6, <2>12, <3>1
      <3>3. u \in Met(b) /\ b[u] < b[w]  BY <2>4, <2>5, <2>12, <3>1, <3>2
      <3>4. flink[u] # PsHead /\ b[flink[u]] <= b[w] /\ flink[u] \in Met(b)  BY <2>2, <3>1, <3>3
      <3>5. flink'[u] = flink[u]  BY <1>1, <2>7, <3>3, <3>4
      <3> QED BY <2>5, <3>1, <3>4, <3>5
    <2>13. ASSUME famAt' \in {"next", "read"}
           PROVE  Range(seen') \subseteq Passed(c)' /\ \A w \in stable' \intersect Passed(c)' : Compared(w)'
      <3>1. Range(seen) \subseteq Passed(b) /\ \A w \in stable \intersect Passed(b) : Compared(w)
        BY <2>0, <2>1, <2>13 DEF FamilyInOrder
      <3>2. Passed(b) \subseteq Passed(c)'
        BY <2>0, <2>2, <2>4, <2>5 DEF Passed
      <3>3. \A w \in Met(b) : w \in Passed(c)' => w \in Passed(b)
        BY <2>0, <2>2, <2>4, <2>5 DEF Passed
      <3>4. ASSUME NEW w \in stable' \intersect Passed(c)' PROVE Compared(w)'
        <4>1. w \in stable /\ w \in Passed(b) /\ w \in Eprocs /\ w # e
          BY <1>0, <2>0, <2>5, <2>6, <3>3
        <4>2. pid'[w] = pid[w] /\ ppid'[w] = ppid[w]  BY <2>0, <4>1
        <4> QED BY <2>0, <3>1, <4>1, <4>2 DEF Compared
      <3> QED BY <2>0, <3>1, <3>2, <3>4
    <2>14. Met(c)' = Met(c)  BY DEF Met
    <2> QED BY <2>8, <2>9, <2>10, <2>11, <2>12, <2>13, <2>14 DEF FamilyInOrder
  <1>7. Ordered(c)'  BY <1>5, <1>6 DEF Ordered
  <1> QED BY <1>2, <1>7

\* A process that exits is passed over: the one before it points to the one
\* after it, and it still points there itself.
LEMMA ExitOrder ==
  ASSUME WinTasksTypeOK, CallRight, NEW b \in [Entries -> 0 .. ncreates + 2], Ordered(b), NEW e \in Eprocs, ExitProcess(e)
  PROVE  Ordered(b)'
  <1> DEFINE p == PrevLink(e)
  <1>0. /\ ncreates \in Nat /\ e \in running /\ e # PsHead /\ e \in Entries
        /\ flink' = [flink EXCEPT ![p] = flink[e]]
        /\ running' = running \ {e} /\ running \subseteq Eprocs
        /\ flink \in [Entries -> Entries]
    BY DEF ExitProcess, WinTasksTypeOK
  <1>1. /\ p \in running \union {PsHead} /\ flink[p] = e
        /\ \A q \in running \union {PsHead} : flink[q] = e => q = p
    BY <1>0, PrevIs DEF Ordered
  <1> HIDE DEF p
  <1>2. \A u \in Entries : b[u] \in Nat  BY <1>0
  <1>3. b[p] < b[e] /\ b[e] > 0  BY <1>0, <1>1 DEF Ordered, ProcsInOrder
  <1>4. p # e /\ p \in Entries /\ flink'[p] = flink[e] /\ flink[e] \in running \union {PsHead} /\ flink[e] # e
    <2>1. p # e /\ p \in Entries  BY <1>0, <1>1, <1>2, <1>3
    <2>2. flink[e] \in running \union {PsHead}  BY <1>0 DEF Ordered, ProcsInOrder
    <2>3. flink[e] # e  BY <1>0, <1>1, <2>1
    <2> QED BY <1>0, <2>1, <2>2, <2>3
  <1>5. \A u \in Entries : u # p => flink'[u] = flink[u]
    BY <1>0
  <1>6. flink[e] # PsHead => b[e] < b[flink[e]] /\ flink[e] \in Entries
    BY <1>0, <1>4 DEF Ordered, ProcsInOrder
  <1>7. ProcsInOrder(b)'
    <2>1. b[PsHead] = 0 /\ (\A u \in running' : b[u] > 0) /\ \A u, w \in running' : b[u] = b[w] => u = w
      BY <1>0 DEF Ordered, ProcsInOrder
    <2>2. ASSUME NEW u \in running' \union {PsHead}
          PROVE  flink'[u] \in running' \union {PsHead} /\ \E q \in running' \union {PsHead} : flink'[q] = u
      <3>1. flink'[u] \in running' \union {PsHead}
        <4>1. CASE u = p  BY <1>0, <1>4, <4>1
        <4>2. CASE u # p
          <5>1. u \in running \union {PsHead} /\ u \in Entries  BY <1>0
          <5>2. flink'[u] = flink[u] /\ flink[u] # e  BY <1>1, <1>5, <4>2, <5>1
          <5> QED BY <1>0, <5>1, <5>2 DEF Ordered, ProcsInOrder
        <4> QED BY <4>1, <4>2
      <3>2. u \in running \union {PsHead} /\ u # e  BY <1>0
      <3>3. PICK q \in running \union {PsHead} : flink[q] = u  BY <3>2 DEF Ordered, ProcsInOrder
      <3>4. q # p  BY <1>1, <3>2, <3>3
      <3>5. CASE q = e  BY <1>0, <1>1, <1>4, <3>1, <3>3, <3>5
      <3>6. CASE q # e  BY <1>0, <1>5, <3>1, <3>3, <3>4, <3>6
      <3> QED BY <3>5, <3>6
    <2>3. ASSUME NEW u \in running' \union {PsHead}, flink'[u] # PsHead PROVE b[u] < b[flink'[u]]
      <3>1. u \in running \union {PsHead} /\ u \in Entries  BY <1>0
      <3>2. CASE u = p  BY <1>0, <1>2, <1>3, <1>4, <1>6, <2>3, <3>2
      <3>3. CASE u # p  BY <1>5, <2>3, <3>1, <3>3 DEF Ordered, ProcsInOrder
      <3> QED BY <3>2, <3>3
    <2>4. ASSUME NEW u \in running' \union {PsHead}, NEW w \in running', b[u] < b[w]
          PROVE  flink'[u] # PsHead /\ b[flink'[u]] <= b[w]
      <3>1. u \in running \union {PsHead} /\ u \in Entries /\ w \in running /\ w # e /\ w \in Entries  BY <1>0
      <3>2. flink[u] # PsHead /\ b[flink[u]] <= b[w]  BY <2>4, <3>1 DEF Ordered, ProcsInOrder
      <3>3. CASE u # p  BY <1>5, <3>1, <3>2, <3>3
      <3>4. CASE u = p
        <4>1. b[e] # b[w]  BY <1>0, <3>1 DEF Ordered, ProcsInOrder
        <4>2. b[e] < b[w]  BY <1>0, <1>1, <1>2, <3>1, <3>2, <3>4, <4>1
        <4>3. flink[e] # PsHead /\ b[flink[e]] <= b[w]  BY <1>0, <3>1, <4>2 DEF Ordered, ProcsInOrder
        <4> QED BY <1>4, <3>4, <4>3
      <3> QED BY <3>3, <3>4
    <2> QED BY <2>1, <2>2, <2>3, <2>4 DEF ProcsInOrder
  <1>8. ASSUME ~recycled', famAt' # "idle" PROVE FamilyInOrder(b)'
    <2>0. /\ ~recycled /\ famAt # "idle" /\ stable' = stable \ {e} /\ stable \subseteq running
          /\ UNCHANGED <<famAt, famOp, key, pos, seen, pid, ppid>>
      BY <1>8 DEF ExitProcess, CallRight
    <2>1. FamilyInOrder(b)  BY <2>0 DEF Ordered
    <2>2. /\ running \subseteq Met(b) /\ pos \in Met(b) /\ Range(seen) \subseteq Met(b) \ {PsHead}
          /\ \A u \in Met(b) \ {PsHead} : pid[u] # 0
          /\ \A u, w \in Met(b) : b[u] = b[w] => u = w
          /\ \A u \in Met(b) : flink[u] \in Met(b) /\ (flink[u] # PsHead => b[u] < b[flink[u]])
          /\ \A u \in Met(b) : \A w \in stable : b[u] < b[w] => flink[u] # PsHead /\ b[flink[u]] <= b[w]
          /\ Met(b) \subseteq Entries /\ PsHead \in Met(b)
      BY <2>1 DEF FamilyInOrder, Met
    <2>3. Met(b)' = Met(b) /\ e \in Met(b) /\ p \in Met(b)
      BY <1>0, <1>1, <2>2 DEF Met
    <2>4. ASSUME NEW u \in Met(b) PROVE flink'[u] \in Met(b) /\ (flink'[u] # PsHead => b[u] < b[flink'[u]])
      <3>1. CASE u = p  BY <1>0, <1>2, <1>3, <1>4, <1>6, <2>2, <2>3, <3>1
      <3>2. CASE u # p  BY <1>5, <2>2, <3>2
      <3> QED BY <3>1, <3>2
    <2>5. ASSUME NEW u \in Met(b), NEW w \in stable', b[u] < b[w]
          PROVE  flink'[u] # PsHead /\ b[flink'[u]] <= b[w]
      <3>1. u \in Entries /\ w \in stable /\ w \in Met(b) /\ w # e /\ w \in Entries
        BY <2>0, <2>2
      <3>2. flink[u] # PsHead /\ b[flink[u]] <= b[w]  BY <2>2, <2>5, <3>1
      <3>3. CASE u # p  BY <1>5, <3>1, <3>2, <3>3
      <3>4. CASE u = p
        <4>1. b[e] # b[w]  BY <2>2, <2>3, <3>1
        <4>2. b[e] < b[w]  BY <1>0, <1>1, <1>2, <3>1, <3>2, <3>4, <4>1
        <4>3. flink[e] # PsHead /\ b[flink[e]] <= b[w]  BY <2>2, <2>3, <3>1, <4>2
        <4> QED BY <1>4, <3>4, <4>3
      <3> QED BY <3>3, <3>4
    <2>6. ASSUME famAt' \in {"next", "read"}
          PROVE  Range(seen') \subseteq Passed(b)' /\ \A w \in stable' \intersect Passed(b)' : Compared(w)'
      <3>1. Range(seen) \subseteq Passed(b) /\ \A w \in stable \intersect Passed(b) : Compared(w)
        BY <2>0, <2>1, <2>6 DEF FamilyInOrder
      <3>2. Passed(b)' = Passed(b)  BY <2>0, <2>3 DEF Passed
      <3>3. \A w : Compared(w)' = Compared(w)  BY <2>0 DEF Compared
      <3> QED BY <2>0, <3>1, <3>2, <3>3
    <2>7. running' \subseteq Met(b) /\ pos' \in Met(b) /\ Range(seen') \subseteq Met(b) \ {PsHead}
      BY <1>0, <2>0, <2>2
    <2>8. \A u \in Met(b) \ {PsHead} : pid'[u] # 0  BY <2>0, <2>2
    <2> QED BY <2>2, <2>3, <2>4, <2>5, <2>6, <2>7, <2>8 DEF FamilyInOrder
  <1> QED BY <1>7, <1>8 DEF Ordered

-----------------------------------------------------------------------------
(* The guest under the walk *)

\* The types are kept by the guest.
LEMMA GuestTypes ==
  ASSUME WinTasksInv, NEW e \in Eprocs, ExitProcess(e) \/ \E by \in Eprocs, i \in Pids : CreateProcess(e, by, i)
  PROVE  WinTasksTypeOK'
  <1> USE DEF WinTasksInv
  <1>0. PICK b \in [Entries -> 0 .. ncreates + 2] : ProcsInOrder(b)  OBVIOUS
  <1>1. \A u \in running \union {PsHead} : PrevLink(u) \in Entries
    BY <1>0, PrevIs DEF WinTasksTypeOK
  <1>2. CASE ExitProcess(e)
    <2>1. flink' \in [Entries -> Entries]  BY <1>1, <1>2 DEF ExitProcess, WinTasksTypeOK
    <2> QED BY <1>2, <2>1 DEF ExitProcess, WinTasksTypeOK
  <1>3. ASSUME NEW by \in Eprocs, NEW i \in Pids, CreateProcess(e, by, i) PROVE WinTasksTypeOK'
    <2>1. flink' \in [Entries -> Entries]  BY <1>1, <1>3 DEF CreateProcess, WinTasksTypeOK
    <2>2. pid' \in [Eprocs -> Pids \union {0}] /\ ppid' \in [Eprocs -> Pids \union {0}]
      BY <1>3 DEF CreateProcess, WinTasksTypeOK
    <2>3. maker' \in [Eprocs -> Eprocs \union {NoProc}]
      BY <1>3 DEF CreateProcess, WinTasksTypeOK
    <2>4. ncreates' \in 0..MaxCreates /\ running' \subseteq Eprocs
      <3>1. ncreates < MaxCreates /\ ncreates' = ncreates + 1 /\ running' = running \union {e}
        BY <1>3 DEF CreateProcess
      <3>2. ncreates \in 0..MaxCreates /\ running \subseteq Eprocs  BY DEF WinTasksTypeOK
      <3> QED BY <3>1, <3>2
    <2>5. recycled' \in BOOLEAN
      BY <1>3, Zenon DEF CreateProcess
    <2>6. again' \in BOOLEAN
      BY <1>3, Zenon DEF CreateProcess
    <2> QED BY <1>3, <2>1, <2>2, <2>3, <2>4, <2>5, <2>6 DEF CreateProcess, WinTasksTypeOK
  <1> QED BY <1>2, <1>3

\* The identifiers stay those of the creators.
LEMMA GuestIdentifiers ==
  ASSUME WinTasksTypeOK, Identifiers, NEW e \in Eprocs,
         ExitProcess(e) \/ \E by \in Eprocs, i \in Pids : CreateProcess(e, by, i)
  PROVE  Identifiers'
  <1>1. CASE ExitProcess(e)
    BY <1>1 DEF ExitProcess, Identifiers
  <1>2. ASSUME NEW by \in Eprocs, NEW i \in Pids, CreateProcess(e, by, i) PROVE Identifiers'
    <2>0. /\ e \notin running /\ by \in running /\ by # e /\ i # 0 /\ running' = running \union {e}
          /\ running \subseteq Eprocs
          /\ pid'[e] = i /\ \A u \in Eprocs : u # e => pid'[u] = pid[u]
          /\ ppid'[e] = pid[by] /\ \A u \in Eprocs : u # e => ppid'[u] = ppid[u]
          /\ maker'[e] = by
          /\ \A u \in Eprocs : u # e => maker'[u] = IF maker[u] = e THEN NoProc ELSE maker[u]
      BY <1>2 DEF CreateProcess, WinTasksTypeOK
    <2>1. ~again' => ~again /\ \A o \in Eprocs : i # pid[o] /\ i # ppid[o]
      BY <1>2 DEF CreateProcess, WinTasksTypeOK
    <2>2. /\ \A u \in running : pid[u] # 0
          /\ \A u \in Eprocs : maker[u] # NoProc => pid[maker[u]] # 0 /\ ppid[u] = pid[maker[u]]
          /\ \A u \in Eprocs : maker[u] \in Eprocs \union {NoProc}
      BY DEF Identifiers, WinTasksTypeOK
    <2>3. \A u \in running' : pid'[u] # 0  BY <2>0, <2>2
    <2>4. \A u \in Eprocs : maker'[u] # NoProc => pid'[maker'[u]] # 0 /\ ppid'[u] = pid'[maker'[u]]
      BY <2>0, <2>2
    <2>5. ASSUME ~again'
          PROVE  /\ \A o, u \in Eprocs : pid'[o] # 0 /\ pid'[o] = pid'[u] => o = u
                 /\ \A u, o \in Eprocs : pid'[o] # 0 /\ ppid'[u] = pid'[o] => maker'[u] = o
      <3>1. /\ \A o, u \in Eprocs : pid[o] # 0 /\ pid[o] = pid[u] => o = u
            /\ \A u, o \in Eprocs : pid[o] # 0 /\ ppid[u] = pid[o] => maker[u] = o
            /\ \A o \in Eprocs : i # pid[o] /\ i # ppid[o]
        BY <2>1, <2>5 DEF Identifiers
      <3>2. \A o, u \in Eprocs : pid'[o] # 0 /\ pid'[o] = pid'[u] => o = u  BY <2>0, <3>1
      <3>3. ASSUME NEW u \in Eprocs, NEW o \in Eprocs, pid'[o] # 0, ppid'[u] = pid'[o] PROVE maker'[u] = o
        <4>1. o # e  BY <2>0, <3>1, <3>3
        <4>2. CASE u = e  BY <2>0, <2>2, <3>1, <3>3, <4>1, <4>2
        <4>3. CASE u # e  BY <2>0, <2>2, <3>1, <3>3, <4>1, <4>3
        <4> QED BY <4>2, <4>3
      <3> QED BY <3>2, <3>3
    <2> QED BY <2>3, <2>4, <2>5 DEF Identifiers
  <1> QED BY <1>1, <1>2

\* What the call knows stays so, whatever the guest does next.
LEMMA GuestCall ==
  ASSUME WinTasksInv, NEW e \in Eprocs, ExitProcess(e) \/ \E by \in Eprocs, i \in Pids : CreateProcess(e, by, i)
  PROVE  CallRight' /\ FamilyRight'
  <1> USE DEF WinTasksInv
  <1>0. UNCHANGED <<famOp, of, famAt, key, pos, seen, parent>>
    BY DEF ExitProcess, CreateProcess
  <1>1. stable' \subseteq stable /\ stable' \subseteq running' /\ stable \subseteq running /\ stable \subseteq Eprocs
    BY DEF ExitProcess, CreateProcess, CallRight, WinTasksTypeOK
  <1>2. (~recycled' => ~recycled) /\ (~again' => ~again)
    BY DEF ExitProcess, CreateProcess, WinTasksTypeOK
  <1>3. ASSUME famAt # "idle", ~recycled'
        PROVE  /\ \A u \in Eprocs : pid[u] # 0 => pid'[u] = pid[u] /\ ppid'[u] = ppid[u] /\ maker'[u] = maker[u]
               /\ \A u \in Range(seen) : u \in Eprocs /\ pid[u] # 0
    <2>1. ~recycled  BY <1>2, <1>3
    <2>2. PICK b \in [Entries -> 0 .. ncreates + 2] : FamilyInOrder(b)  BY <1>3, <2>1
    <2>3. \A u \in Range(seen) : u \in Eprocs /\ pid[u] # 0  BY <2>2 DEF FamilyInOrder, Met
    <2>4. CASE ExitProcess(e)  BY <2>3, <2>4 DEF ExitProcess
    <2>5. ASSUME NEW by \in Eprocs, NEW i \in Pids, CreateProcess(e, by, i)
          PROVE  \A u \in Eprocs : pid[u] # 0 => pid'[u] = pid[u] /\ ppid'[u] = ppid[u] /\ maker'[u] = maker[u]
      <3>1. pid[e] = 0  BY <1>3, <2>5 DEF CreateProcess, WinTasksTypeOK
      <3>2. \A u \in Eprocs : maker[u] # e  BY <3>1 DEF Identifiers
      <3> QED BY <2>5, <3>1, <3>2 DEF CreateProcess, WinTasksTypeOK
    <2> QED BY <2>3, <2>4, <2>5
  <1>4. ASSUME famAt # "idle", ~recycled'
        PROVE  \A u \in stable' : u \in Eprocs /\ pid[u] # 0
    BY <1>1 DEF Identifiers
  <1>5. CallRight'
    <2>1. ASSUME famAt' # "idle", ~recycled'
          PROVE  /\ of' \in Eprocs /\ pid'[of'] # 0 /\ key' = IF famOp' = "children" THEN pid'[of'] ELSE ppid'[of']
                 /\ IsInjective(seen')
                 /\ ~again' => \A u \in Range(seen') : maker'[u] = of'
      <3>1. /\ of \in Eprocs /\ pid[of] # 0 /\ key = IF famOp = "children" THEN pid[of] ELSE ppid[of]
            /\ IsInjective(seen) /\ (~again => \A u \in Range(seen) : maker[u] = of)
        BY <1>0, <1>2, <2>1 DEF CallRight
      <3> QED BY <1>0, <1>2, <1>3, <2>1, <3>1
    <2> QED BY <1>0, <1>1, <2>1 DEF CallRight
  <1>6. ChildrenRight'
    <2>1. ASSUME famOp = "children", famAt = "done", ~recycled'
          PROVE  /\ \A u \in stable' : ppid'[u] = key => u \in Range(seen)
                 /\ IsInjective(seen)
                 /\ ~again' => \A u \in Range(seen) : maker'[u] = of
      BY <1>1, <1>2, <1>3, <1>4, <2>1 DEF FamilyRight, ChildrenRight
    <2> QED BY <1>0, <2>1 DEF ChildrenRight
  <1>7. ParentRight'
    <2>1. ASSUME famOp = "parent", famAt = "done", ~again', ~recycled'
          PROVE  parent = maker'[of] \/ (parent = of /\ maker'[of] \notin stable')
      <3>1. parent = maker[of] \/ (parent = of /\ maker[of] \notin stable)
        BY <1>2, <2>1 DEF FamilyRight, ParentRight
      <3>2. of \in Eprocs /\ pid[of] # 0  BY <1>2, <2>1 DEF CallRight
      <3> QED BY <1>1, <1>3, <2>1, <3>1, <3>2
    <2> QED BY <1>0, <2>1 DEF ParentRight
  <1> QED BY <1>5, <1>6, <1>7 DEF FamilyRight

\* A step of the guest keeps the invariant.
LEMMA GuestInv ==
  ASSUME WinTasksInv, WinGuest
  PROVE  WinTasksInv'
  <1>0. PICK e \in Eprocs : ExitProcess(e) \/ \E by \in Eprocs, i \in Pids : CreateProcess(e, by, i)  BY DEF WinGuest
  <1>1. WinTasksTypeOK' /\ Identifiers' /\ CallRight' /\ FamilyRight'
    BY <1>0, GuestTypes, GuestIdentifiers, GuestCall DEF WinTasksInv
  <1>2. PICK b \in [Entries -> 0 .. ncreates + 2] : Ordered(b)
    BY DEF WinTasksInv, Ordered
  <1>3. \E c \in [Entries -> 0 .. ncreates' + 2] : Ordered(c)'
    <2>1. CASE ExitProcess(e)
      <3>1. ncreates' = ncreates  BY <2>1 DEF ExitProcess
      <3> QED BY <1>2, <2>1, <3>1, ExitOrder DEF WinTasksInv
    <2>2. ASSUME NEW by \in Eprocs, NEW i \in Pids, CreateProcess(e, by, i)
          PROVE  \E c \in [Entries -> 0 .. ncreates' + 2] : Ordered(c)'
      BY <1>2, <2>2, CreateOrder DEF WinTasksInv
    <2> QED BY <1>0, <2>1, <2>2
  <1> QED BY <1>1, <1>3 DEF WinTasksInv, Ordered

-----------------------------------------------------------------------------
(* The calls *)

\* A call begins at the head, with nothing behind it: from then on only the
\* processes on the list matter, and the others lose their numbers.
LEMMA CallFamilyInv ==
  ASSUME WinTasksInv, NEW op \in {"children", "parent"}, NEW e \in Eprocs, CallFamily(op, e)
  PROVE  WinTasksInv'
  <1> USE DEF WinTasksInv
  <1>0. /\ UNCHANGED <<flink, running, pid, ppid, ncreates, maker, recycled, again, parent>>
        /\ pid[e] # 0 /\ famOp' = op /\ of' = e /\ key' = (IF op = "children" THEN pid[e] ELSE ppid[e])
        /\ famAt' = "next" /\ pos' = PsHead /\ seen' = <<>> /\ stable' = running
    BY DEF CallFamily, guestTaskVars
  <1>1. running \subseteq Eprocs /\ PsHead \notin running /\ Range(seen') = {} /\ IsInjective(seen') /\ seen' \in Seq(Eprocs)
    BY <1>0 DEF WinTasksTypeOK, Range, IsInjective
  <1>2. WinTasksTypeOK'
    <2>1. pid[e] \in Nat /\ ppid[e] \in Nat  BY SMTT(40) DEF WinTasksTypeOK
    <2> QED BY <1>0, <1>1, <2>1 DEF WinTasksTypeOK
  <1>3. Identifiers'  BY <1>0 DEF Identifiers
  <1>4. CallRight' /\ FamilyRight'
    BY <1>0, <1>1 DEF CallRight, FamilyRight, ChildrenRight, ParentRight
  <1>5. PICK b \in [Entries -> 0 .. ncreates + 2] : ProcsInOrder(b)  OBVIOUS
  <1>6. PICK c \in [Entries -> 0 .. ncreates + 2] :
          \A u \in Entries : c[u] = IF u \in running THEN b[u] ELSE 0
    <2> DEFINE d == [u \in Entries |-> IF u \in running THEN b[u] ELSE 0]
    <2>1. d \in [Entries -> 0 .. ncreates + 2]
      <3>1. 0 \in 0 .. ncreates + 2  BY DEF WinTasksTypeOK
      <3>2. \A u \in Entries : b[u] \in 0 .. ncreates + 2  OBVIOUS
      <3> QED BY <3>1, <3>2
    <2>2. \A u \in Entries : d[u] = IF u \in running THEN b[u] ELSE 0  OBVIOUS
    <2> QED BY <2>1, <2>2
  <1>7. b[PsHead] = 0 /\ \A u \in running : b[u] > 0  BY <1>5 DEF ProcsInOrder
  <1>8. \A u \in running \union {PsHead} : c[u] = b[u]  BY <1>1, <1>6, <1>7
  <1>9. Met(c) = running \union {PsHead}
    <2>1. \A u \in Eprocs : c[u] > 0 <=> u \in running  BY <1>1, <1>6, <1>7, SMTT(40)
    <2> QED BY <1>1, <2>1 DEF Met
  <1>10. ProcsInOrder(c)'
    <2>1. \A u \in running \union {PsHead} : flink[u] \in running \union {PsHead}  BY <1>5 DEF ProcsInOrder
    <2> HIDE DEF WinTasksInv
    <2> QED BY <1>0, <1>5, <1>8, <2>1 DEF ProcsInOrder
  <1>11. FamilyInOrder(c)'
    <2>1. /\ \A u, w \in Met(c) : c[u] = c[w] => u = w
          /\ \A u \in Met(c) : flink[u] \in Met(c) /\ (flink[u] # PsHead => c[u] < c[flink[u]])
          /\ \A u \in Met(c) : \A w \in running : c[u] < c[w] => flink[u] # PsHead /\ c[flink[u]] <= c[w]
      BY <1>5, <1>8, <1>9 DEF ProcsInOrder
    <2>2. \A u \in Met(c) \ {PsHead} : pid[u] # 0  BY <1>9 DEF Identifiers
    <2>3. \A w \in running : w \notin Passed(c)'
      <3>1. \A w \in Entries : c[w] \in Nat
        <4>1. ncreates \in Nat  BY DEF WinTasksTypeOK
        <4> HIDE DEF WinTasksInv
        <4> QED BY <4>1
      <3>2. c[PsHead] = 0  BY <1>7, <1>8
      <3> QED BY <1>0, <1>1, <3>1, <3>2, SMTT(40) DEF Passed
    <2>4. Met(c)' = Met(c)  BY DEF Met
    <2> QED BY <1>0, <1>1, <1>9, <2>1, <2>2, <2>3, <2>4 DEF FamilyInOrder
  <1> QED BY <1>0, <1>2, <1>3, <1>4, <1>10, <1>11

\* The next link: nothing that stays lies between.
LEMMA NextLinkInv ==
  ASSUME WinTasksInv, NextLink
  PROVE  WinTasksInv'
  <1> USE DEF WinTasksInv
  <1> DEFINE v == flink[pos]
  <1>0. /\ UNCHANGED <<flink, running, pid, ppid, ncreates, maker, recycled, again, famOp, of, key, seen, stable>>
        /\ famAt = "next" /\ pos' = v
        /\ famAt' = (IF v = PsHead THEN "done" ELSE "read")
        /\ parent' = IF v = PsHead /\ famOp = "parent" THEN of ELSE parent
    BY DEF NextLink, guestTaskVars
  <1>1. v \in Entries /\ pos \in Entries  BY DEF WinTasksTypeOK
  <1> HIDE DEF v
  <1>2. WinTasksTypeOK'  BY <1>0, <1>1 DEF WinTasksTypeOK
  <1>3. Identifiers'  BY <1>0 DEF Identifiers
  <1>4. CallRight'  BY <1>0 DEF CallRight
  <1>5. PICK b \in [Entries -> 0 .. ncreates + 2] : ProcsInOrder(b) /\ (~recycled => FamilyInOrder(b))
    BY <1>0
  <1>6. ProcsInOrder(b)'  BY <1>0, <1>5 DEF ProcsInOrder
  <1>7. b[PsHead] = 0 /\ \A u \in Entries : b[u] \in Nat  BY <1>5, SMTT(40) DEF ProcsInOrder, WinTasksTypeOK
  <1>8. ASSUME ~recycled PROVE FamilyInOrder(b)' /\ (v = PsHead => \A w \in stable : Compared(w))
    <2>1. /\ running \subseteq Met(b) /\ pos \in Met(b) /\ Range(seen) \subseteq Met(b) \ {PsHead}
          /\ \A u \in Met(b) \ {PsHead} : pid[u] # 0
          /\ \A u, w \in Met(b) : b[u] = b[w] => u = w
          /\ \A u \in Met(b) : flink[u] \in Met(b) /\ (flink[u] # PsHead => b[u] < b[flink[u]])
          /\ \A u \in Met(b) : \A w \in stable : b[u] < b[w] => flink[u] # PsHead /\ b[flink[u]] <= b[w]
          /\ Range(seen) \subseteq Passed(b) /\ \A w \in stable \intersect Passed(b) : Compared(w)
          /\ Met(b) \subseteq Entries
      BY <1>0, <1>5, <1>8 DEF FamilyInOrder, Met
    <2>2. stable \subseteq running /\ stable \subseteq Met(b) /\ PsHead \notin stable
      BY <2>1 DEF CallRight, WinTasksTypeOK
    <2>3. \A w \in Met(b) : w \in Passed(b) <=> b[w] < b[pos] \/ (w = pos /\ w # PsHead)
      BY <1>0 DEF Passed
    <2>4. Met(b)' = Met(b)  BY DEF Met
    <2>5. \A w : Compared(w)' = Compared(w)  BY <1>0 DEF Compared
    <2>6. CASE v = PsHead
      <3>1. \A w \in stable : ~(b[pos] < b[w])  BY <2>1, <2>6 DEF v
      <3>2. ASSUME NEW w \in stable PROVE w \in Passed(b)
        <4>1. b[w] \in Nat /\ b[pos] \in Nat /\ w \in Met(b) /\ w # PsHead  BY <1>1, <1>7, <2>1, <2>2
        <4>2. b[w] < b[pos] \/ b[w] = b[pos]  BY <3>1, <4>1
        <4>3. b[w] = b[pos] => w = pos  BY <2>1, <4>1
        <4> QED BY <2>3, <4>1, <4>2, <4>3
      <3>3. \A w \in stable : Compared(w)  BY <2>1, <3>2
      <3>4. v \in Met(b)  BY <2>1 DEF v
      <3>5. FamilyInOrder(b)'  BY <1>0, <2>1, <2>4, <2>6, <3>4 DEF FamilyInOrder
      <3> QED BY <3>3, <3>5
    <2>7. CASE v # PsHead
      <3>1. v \in Met(b) /\ b[pos] < b[v] /\ famAt' = "read"  BY <1>0, <2>1, <2>7 DEF v
      <3>2. \A w \in Met(b) : w \in Passed(b)' <=> b[w] < b[v]
        BY <1>0, <2>4, <3>1 DEF Passed
      <3>3. Range(seen) \subseteq Passed(b)'
        <4>1. ASSUME NEW w \in Range(seen) PROVE b[w] < b[v]
          <5>1. w \in Met(b) /\ (b[w] < b[pos] \/ w = pos)  BY <2>1, <2>3
          <5>2. b[w] \in Nat /\ b[pos] \in Nat /\ b[v] \in Nat  BY <1>1, <1>7, <2>1, <5>1
          <5> QED BY <3>1, <5>1, <5>2
        <4> QED BY <2>1, <3>2, <4>1
      <3>4. ASSUME NEW w \in stable \intersect Passed(b)' PROVE Compared(w)
        <4>1. w \in Met(b) /\ w # PsHead /\ b[w] < b[v]  BY <2>2, <3>2
        <4>2. b[w] \in Nat /\ b[pos] \in Nat /\ b[v] \in Nat  BY <1>1, <1>7, <2>1, <4>1
        <4>3. ~(b[pos] < b[w])
          <5>1. b[pos] < b[w] => b[v] <= b[w]  BY <2>1 DEF v
          <5> QED BY <4>1, <4>2, <5>1
        <4>4. b[w] < b[pos] \/ b[w] = b[pos]  BY <4>2, <4>3
        <4>5. b[w] = b[pos] => w = pos  BY <2>1, <4>1
        <4>6. w \in Passed(b)  BY <2>3, <4>1, <4>4, <4>5
        <4> QED BY <2>1, <4>6
      <3>5. FamilyInOrder(b)'
        BY <1>0, <2>1, <2>4, <2>5, <3>1, <3>3, <3>4 DEF FamilyInOrder
      <3> QED BY <2>7, <3>5
    <2> QED BY <2>6, <2>7
  <1>9. ChildrenRight'
    BY <1>0, <1>8 DEF ChildrenRight, CallRight, Compared
  <1>10. ParentRight'
    <2>1. ASSUME famOp = "parent", v = PsHead, ~recycled PROVE maker[of] \notin stable
      <3>1. \A w \in stable : pid[w] # key  BY <1>8, <2>1 DEF Compared
      <3>2. of \in Eprocs /\ key = ppid[of]  BY <1>0, <2>1 DEF CallRight
      <3>3. maker[of] \in stable => maker[of] # NoProc  BY DEF WinTasksTypeOK
      <3> QED BY <3>1, <3>2, <3>3 DEF Identifiers
    <2> QED BY <1>0, <2>1 DEF ParentRight
  <1> QED BY <1>0, <1>2, <1>3, <1>4, <1>5, <1>6, <1>8, <1>9, <1>10 DEF FamilyRight

\* What is appended to a sequence is in it.
LEMMA RangeAppend ==
  ASSUME NEW S, NEW s \in Seq(S), NEW x \in S
  PROVE  /\ Append(s, x) \in Seq(S)
         /\ Range(Append(s, x)) = Range(s) \union {x}
         /\ IsInjective(s) /\ x \notin Range(s) => IsInjective(Append(s, x))
  <1> DEFINE a == Append(s, x)
  <1>1. /\ a \in Seq(S) /\ DOMAIN a = 1 .. Len(s) + 1 /\ DOMAIN s = 1 .. Len(s) /\ Len(s) \in Nat
        /\ a[Len(s) + 1] = x /\ \A i \in DOMAIN s : a[i] = s[i]
    OBVIOUS
  <1> HIDE DEF a
  <1>2. Range(a) = Range(s) \union {x}
    <2>1. Range(a) \subseteq Range(s) \union {x}  BY <1>1 DEF Range
    <2>2. Range(s) \subseteq Range(a)  BY <1>1 DEF Range
    <2>3. x \in Range(a)  BY <1>1 DEF Range
    <2> QED BY <2>1, <2>2, <2>3
  <1>3. IsInjective(s) /\ x \notin Range(s) => IsInjective(a)
    BY <1>1 DEF IsInjective, Range
  <1> QED BY <1>1, <1>2, <1>3 DEF a

\* A process is compared: it was not compared before, and an identifier that
\* is not used twice leads to the right one.
LEMMA ReadProcessInv ==
  ASSUME WinTasksInv, ReadProcess
  PROVE  WinTasksInv'
  <1> USE DEF WinTasksInv
  <1> DEFINE child == famOp = "children" /\ ppid[pos] = key
             found == famOp = "parent" /\ pid[pos] = key
  <1>0. /\ UNCHANGED <<flink, running, pid, ppid, ncreates, maker, recycled, again, famOp, of, key, pos, stable>>
        /\ famAt = "read"
        /\ IF found THEN famAt' = "done" /\ parent' = pos ELSE famAt' = "next" /\ UNCHANGED parent
        /\ seen' = IF child THEN Append(seen, pos) ELSE seen
    BY DEF ReadProcess, guestTaskVars
  <1>1. pos \in Eprocs /\ pos # PsHead /\ seen \in Seq(Eprocs)  BY <1>0 DEF WinTasksTypeOK, CallRight
  <1>2. /\ Append(seen, pos) \in Seq(Eprocs) /\ Range(Append(seen, pos)) = Range(seen) \union {pos}
        /\ IsInjective(seen) /\ pos \notin Range(seen) => IsInjective(Append(seen, pos))
    BY <1>1, RangeAppend
  <1>3. seen' \in Seq(Eprocs) /\ Range(seen') = IF child THEN Range(seen) \union {pos} ELSE Range(seen)
    BY <1>0, <1>1, <1>2
  <1>4. WinTasksTypeOK'  BY <1>0, <1>1, <1>3 DEF WinTasksTypeOK
  <1>5. Identifiers'  BY <1>0 DEF Identifiers
  <1>6. PICK b \in [Entries -> 0 .. ncreates + 2] : ProcsInOrder(b) /\ (~recycled => FamilyInOrder(b))
    BY <1>0
  <1>7. ProcsInOrder(b)'  BY <1>0, <1>6 DEF ProcsInOrder
  <1>8. ncreates \in Nat  BY DEF WinTasksTypeOK
  <1>9. ASSUME ~recycled PROVE FamilyInOrder(b)' /\ pos \notin Range(seen) /\ pid[pos] # 0
    <2>1. /\ running \subseteq Met(b) /\ pos \in Met(b) /\ Range(seen) \subseteq Met(b) \ {PsHead}
          /\ \A u \in Met(b) \ {PsHead} : pid[u] # 0
          /\ Range(seen) \subseteq Passed(b) /\ \A w \in stable \intersect Passed(b) : Compared(w)
          /\ Met(b) \subseteq Entries
      BY <1>0, <1>6, <1>9 DEF FamilyInOrder, Met
    <2>2. Met(b)' = Met(b)  BY DEF Met
    <2>3. \A w \in Met(b) : w \in Passed(b) <=> b[w] < b[pos]
      BY <1>0 DEF Passed
    <2>4. pos \notin Range(seen)
      <3>1. b[pos] \in Nat  BY <1>1, <1>8
      <3> QED BY <2>1, <2>3, <3>1
    <2>5. Range(seen') \subseteq Met(b) \ {PsHead}  BY <1>1, <1>3, <2>1
    <2>6. ASSUME famAt' \in {"next", "read"}
          PROVE  Range(seen') \subseteq Passed(b)' /\ \A w \in stable' \intersect Passed(b)' : Compared(w)'
      <3>1. ~found /\ famAt' = "next"  BY <1>0, <2>6
      <3>2. \A w \in Met(b) : w \in Passed(b)' <=> w \in Passed(b) \/ w = pos
        BY <1>0, <1>1, <2>2, <2>3, <3>1 DEF Passed
      <3>3. Range(seen') \subseteq Passed(b)'  BY <1>3, <2>1, <3>2
      <3>4. ASSUME NEW w \in stable' \intersect Passed(b)' PROVE Compared(w)'
        <4>1. w \in stable /\ w \in Met(b)  BY <1>0, <2>2 DEF Passed
        <4>2. CASE w = pos
          <5>1. famOp \in {"children", "parent"}  BY <1>0 DEF CallRight, WinTasksTypeOK
          <5> QED BY <1>0, <1>3, <3>1, <4>2, <5>1 DEF Compared
        <4>3. CASE w # pos
          <5>1. Compared(w)  BY <2>1, <3>2, <4>1, <4>3
          <5> QED BY <1>0, <1>3, <5>1 DEF Compared
        <4> QED BY <4>2, <4>3
      <3> QED BY <3>3, <3>4
    <2>7. FamilyInOrder(b)'
      <3>1. FamilyInOrder(b)  BY <1>6, <1>9
      <3> HIDE DEF WinTasksInv
      <3> QED BY <1>0, <2>2, <2>5, <2>6, <3>1 DEF FamilyInOrder
    <2> QED BY <1>1, <2>1, <2>4, <2>7
  <1>10. ASSUME ~recycled
         PROVE  /\ of \in Eprocs /\ pid[of] # 0 /\ key = (IF famOp = "children" THEN pid[of] ELSE ppid[of])
                /\ IsInjective(seen') /\ (~again => \A u \in Range(seen') : maker[u] = of)
    <2>1. /\ of \in Eprocs /\ pid[of] # 0 /\ key = (IF famOp = "children" THEN pid[of] ELSE ppid[of])
          /\ IsInjective(seen) /\ (~again => \A u \in Range(seen) : maker[u] = of)
      BY <1>0, <1>10 DEF CallRight
    <2>2. IsInjective(seen')  BY <1>0, <1>2, <1>9, <1>10, <2>1
    <2>3. ~again /\ child => maker[pos] = of  BY <1>1, <2>1 DEF Identifiers
    <2> QED BY <1>3, <2>1, <2>2, <2>3
  <1>11. CallRight'
    <2>1. stable \subseteq running  BY DEF CallRight
    <2> QED BY <1>0, <1>10, <2>1 DEF CallRight
  <1>12. FamilyRight'
    <2>1. ChildrenRight'  BY <1>0 DEF ChildrenRight
    <2>2. ASSUME found, ~again, ~recycled PROVE pos = maker[of]
      BY <1>1, <1>9, <1>10, <2>2 DEF Identifiers
    <2>3. ParentRight'  BY <1>0, <2>2 DEF ParentRight
    <2> QED BY <2>1, <2>3 DEF FamilyRight
  <1> QED BY <1>0, <1>4, <1>5, <1>6, <1>7, <1>9, <1>11, <1>12

\* A read fails.
LEMMA ReadFaultInv ==
  ASSUME WinTasksInv, ReadFault
  PROVE  WinTasksInv'
  <1> USE DEF WinTasksInv
  <1>0. /\ UNCHANGED <<flink, running, pid, ppid, ncreates, maker, recycled, again, famOp, of, key, pos, seen, parent, stable>>
        /\ famAt # "idle" /\ famAt' = "failed"
    BY DEF ReadFault, guestTaskVars
  <1>1. WinTasksTypeOK' /\ Identifiers' /\ CallRight' /\ FamilyRight'
    BY <1>0 DEF WinTasksTypeOK, Identifiers, CallRight, FamilyRight, ChildrenRight, ParentRight
  <1>2. PICK b \in [Entries -> 0 .. ncreates + 2] : ProcsInOrder(b) /\ (~recycled => FamilyInOrder(b))
    BY <1>0
  <1>3. ProcsInOrder(b)'  BY <1>0, <1>2 DEF ProcsInOrder
  <1>4. ASSUME ~recycled PROVE FamilyInOrder(b)'
    <2>1. FamilyInOrder(b) /\ Met(b)' = Met(b)  BY <1>2, <1>4 DEF Met
    <2> HIDE DEF WinTasksInv
    <2> QED BY <1>0, <2>1 DEF FamilyInOrder
  <1> QED BY <1>0, <1>1, <1>2, <1>3, <1>4

-----------------------------------------------------------------------------
(* Theorems *)

\* Two processes are on the list, and nothing is asked yet.
LEMMA WinTasksInitInv == WinTasksInit => WinTasksInv
  <1> SUFFICES ASSUME WinTasksInit PROVE WinTasksInv
    OBVIOUS
  <1>0. /\ System \in Eprocs /\ FirstChild \in Eprocs /\ System # FirstChild
        /\ SystemPid \in Pids /\ ChildPid \in Pids /\ SystemPid # ChildPid
    <2>1. System \in Eprocs  BY DEF System
    <2>2. \E e \in Eprocs : e # System  BY <2>1
    <2>3. FirstChild \in Eprocs /\ FirstChild # System  BY <2>2 DEF FirstChild
    <2>4. SystemPid \in Pids  BY DEF SystemPid
    <2>5. \E i \in Pids : i # SystemPid  BY <2>4
    <2>6. ChildPid \in Pids /\ ChildPid # SystemPid  BY <2>5 DEF ChildPid
    <2> QED BY <2>1, <2>3, <2>4, <2>6
  <1>1. /\ running = {System, FirstChild}
        /\ flink = [e \in Entries |-> IF e = PsHead THEN System ELSE IF e = System THEN FirstChild ELSE PsHead]
        /\ pid = [e \in Eprocs |-> IF e = System THEN SystemPid ELSE IF e = FirstChild THEN ChildPid ELSE 0]
        /\ ppid = [e \in Eprocs |-> IF e = FirstChild THEN SystemPid ELSE 0]
        /\ maker = [e \in Eprocs |-> IF e = FirstChild THEN System ELSE NoProc]
        /\ ncreates = 0 /\ recycled = FALSE /\ again = FALSE
        /\ famOp = "none" /\ of = NoProc /\ famAt = "idle" /\ key = 0 /\ pos = PsHead
        /\ seen = <<>> /\ parent = NoProc /\ stable = {}
    BY DEF WinTasksInit
  <1>2. WinTasksTypeOK
    <2>1. flink \in [Entries -> Entries]  BY <1>0, <1>1
    <2>2. pid \in [Eprocs -> Pids \union {0}] /\ ppid \in [Eprocs -> Pids \union {0}]  BY <1>0, <1>1
    <2>3. maker \in [Eprocs -> Eprocs \union {NoProc}]  BY <1>0, <1>1
    <2>4. seen \in Seq(Eprocs) /\ ncreates \in 0..MaxCreates /\ running \subseteq Eprocs  BY <1>0, <1>1
    <2> QED BY <1>1, <2>1, <2>2, <2>3, <2>4 DEF WinTasksTypeOK
  <1>3. Identifiers
    <2>1. \A e \in running : pid[e] # 0  BY <1>0, <1>1
    <2>2. \A e \in Eprocs : maker[e] # NoProc => pid[maker[e]] # 0 /\ ppid[e] = pid[maker[e]]  BY <1>0, <1>1
    <2>3. \A o, u \in Eprocs : pid[o] # 0 /\ pid[o] = pid[u] => o = u  BY <1>0, <1>1
    <2>4. \A e, o \in Eprocs : pid[o] # 0 /\ ppid[e] = pid[o] => maker[e] = o  BY <1>0, <1>1
    <2> QED BY <2>1, <2>2, <2>3, <2>4 DEF Identifiers
  <1>4. CallRight /\ FamilyRight
    BY <1>1 DEF CallRight, FamilyRight, ChildrenRight, ParentRight
  <1>5. PICK b \in [Entries -> 0 .. ncreates + 2] :
          b[PsHead] = 0 /\ b[System] = 1 /\ b[FirstChild] = 2
    <2> DEFINE d == [u \in Entries |-> IF u = System THEN 1 ELSE IF u = FirstChild THEN 2 ELSE 0]
    <2>1. d \in [Entries -> 0 .. ncreates + 2]  BY <1>1
    <2>2. d[PsHead] = 0 /\ d[System] = 1 /\ d[FirstChild] = 2  BY <1>0
    <2> QED BY <2>1, <2>2
  <1>6. flink[PsHead] = System /\ flink[System] = FirstChild /\ flink[FirstChild] = PsHead
    BY <1>0, <1>1
  <1>7. running \union {PsHead} = {PsHead, System, FirstChild}  BY <1>1
  <1>8. ProcsInOrder(b)
    BY <1>0, <1>1, <1>5, <1>6, <1>7 DEF ProcsInOrder
  <1> QED BY <1>1, <1>2, <1>3, <1>4, <1>8 DEF WinTasksInv

\* Whatever the guest does between two reads, WinTasksInv holds.
THEOREM WinTasksInvariant == WinTasksSpec => []WinTasksInv
  <1>1. ASSUME WinTasksInv, [WinTasksNext]_winTaskVars PROVE WinTasksInv'
    <2>1. CASE UNCHANGED winTaskVars
      <3>1. UNCHANGED <<flink, running, pid, ppid, ncreates, famOp, of, famAt, key, pos, seen, parent,
                        maker, stable, recycled, again>>
        BY <2>1 DEF winTaskVars
      <3>2. WinTasksTypeOK' /\ Identifiers' /\ CallRight' /\ FamilyRight'
        BY <1>1, <3>1 DEF WinTasksInv, WinTasksTypeOK, Identifiers, CallRight, FamilyRight, ChildrenRight, ParentRight
      <3>3. PICK b \in [Entries -> 0 .. ncreates + 2] : Ordered(b)  BY <1>1 DEF WinTasksInv, Ordered
      <3>4. ProcsInOrder(b)'  BY <3>1, <3>3 DEF Ordered, ProcsInOrder
      <3>5. Met(b)' = Met(b) /\ Passed(b)' = Passed(b) /\ \A w : Compared(w)' = Compared(w)
        BY <3>1 DEF Met, Passed, Compared
      <3>6. FamilyInOrder(b) => FamilyInOrder(b)'  BY <3>1, <3>5 DEF FamilyInOrder
      <3>7. Ordered(b)'  BY <3>1, <3>3, <3>4, <3>6 DEF Ordered
      <3> QED BY <3>1, <3>2, <3>7 DEF WinTasksInv, Ordered
    <2> QED BY <1>1, <2>1, GuestInv, CallFamilyInv, NextLinkInv, ReadProcessInv, ReadFaultInv
            DEF WinTasksNext, Family
  <1> QED BY <1>1, WinTasksInitInv, PTL DEF WinTasksSpec

\* process_for_each_child and process_parent say the truth of a family that
\* lives on while they walk the list.
THEOREM FamilyRightAlways == WinTasksSpec => []FamilyRight
  <1>1. WinTasksInv => FamilyRight  BY DEF WinTasksInv
  <1> QED BY <1>1, WinTasksInvariant, PTL

HIDE WinTasksAssumption DEF Entries

USE MemoryAssumption

-----------------------------------------------------------------------------
(* Entries *)

\* What Windows does to an invalid entry, unswizzle undoes.
LEMMA UnswizzleInvalid ==
  ASSUME inverted \in BOOLEAN, NEW v \in BOOLEAN, NEW s \in BOOLEAN, NEW t \in BOOLEAN,
         NEW h \in Nat, h < InvBit \/ h = AllUpper
  PROVE  LET e == Invalid(Pte(v, s, t, h))
             p == Unswizzle(e)
         IN /\ e \in Ptes /\ e.valid = v /\ p \in Ptes
            /\ p.soft = s /\ p.trans = t /\ p.high = h /\ p.zero = FALSE
  <1> DEFINE q == Pte(v, s, t, h)
  <1>1. q \in Ptes /\ q.valid = v /\ q.soft = s /\ q.trans = t /\ q.high = h /\ q.zero = FALSE /\ q.swizzle = FALSE
    BY DEF Pte, Ptes
  <1> HIDE DEF q
  <1>2. CASE ~inverted
    BY <1>1, <1>2 DEF Invalid, Unswizzle, q
  <1>3. CASE inverted /\ h < InvBit
    <2> DEFINE k == h + InvBit
               e == [q EXCEPT !.high = k]
    <2>1. k \in Nat /\ k >= InvBit /\ k - InvBit = h  OBVIOUS
    <2>2. Invalid(q) = e  BY <1>1, <1>3 DEF Invalid
    <2> HIDE DEF k
    <2>3. /\ e \in Ptes /\ e.valid = v /\ e.soft = s /\ e.trans = t /\ e.high = k /\ e.zero = FALSE
          /\ e.swizzle = FALSE
      BY <1>1, <2>1 DEF Ptes
    <2> HIDE DEF e
    <2>4. Unswizzle(e) = [e EXCEPT !.high = h]  BY <1>3, <2>1, <2>3 DEF Unswizzle
    <2>5. [e EXCEPT !.high = h] \in Ptes /\ [e EXCEPT !.high = h].soft = s /\ [e EXCEPT !.high = h].trans = t
          /\ [e EXCEPT !.high = h].high = h /\ [e EXCEPT !.high = h].zero = FALSE
      BY <2>3 DEF Ptes
    <2> QED BY <2>2, <2>3, <2>4, <2>5 DEF q
  <1>4. CASE inverted /\ ~(h < InvBit)
    <2> DEFINE e == [q EXCEPT !.swizzle = TRUE]
    <2>1. Invalid(q) = e  BY <1>1, <1>4 DEF Invalid
    <2>2. /\ e \in Ptes /\ e.valid = v /\ e.soft = s /\ e.trans = t /\ e.high = h /\ e.zero = FALSE
          /\ e.swizzle = TRUE
      BY <1>1 DEF Ptes
    <2> HIDE DEF e
    <2>3. Unswizzle(e) = e  BY <2>2 DEF Unswizzle
    <2> QED BY <2>1, <2>2, <2>3 DEF q
  <1> QED BY <1>2, <1>3, <1>4

\* The entry of a page says where the page is.
LEMMA PteAtRight ==
  ASSUME inverted \in BOOLEAN, NEW h \in Homes
  PROVE  LET e == PteAt(h)
             p == Unswizzle(e)
         IN /\ e \in Ptes /\ p \in Ptes
            /\ e.valid <=> h[1] = "valid"
            /\ h[1] = "valid" => e.high = h[2]
            /\ h[1] = "transition" => Classify(p) = "transition" /\ p.high = h[2]
            /\ h[1] = "zero" => Classify(p) = "zero"
            /\ h[1] = "disk" => Classify(p) = "unknown"
  <1>0. /\ h[1] \in {"valid", "transition", "zero", "disk"}
        /\ h[1] \in {"valid", "transition"} => h[2] \in Frames
    BY DEF Homes
  <1>1. \A f \in Frames : f \in Nat /\ f < InvBit  OBVIOUS
  <1> DEFINE e == PteAt(h)
             p == Unswizzle(e)
  <1>2. CASE h[1] = "valid"
    <2>1. PICK f \in Frames : h[2] = f  BY <1>0, <1>2
    <2>2. f \in Nat /\ f < InvBit  BY <1>1
    <2>3. e = Pte(TRUE, FALSE, FALSE, f)  BY <1>2, <2>1 DEF PteAt
    <2> HIDE DEF e
    <2>4. e \in Ptes /\ e.valid = TRUE /\ e.high = f  BY <2>2, <2>3 DEF Pte, Ptes
    <2>5. ~(e.high >= InvBit)  BY <2>2, <2>4
    <2>6. p = e  BY <2>5 DEF Unswizzle
    <2>7. e \in Ptes /\ p \in Ptes /\ e.valid = TRUE /\ e.high = h[2]  BY <2>1, <2>4, <2>6
    <2> QED BY <1>2, <2>7 DEF e
  <1>3. CASE h[1] = "transition"
    <2>1. PICK f \in Frames : h[2] = f  BY <1>0, <1>3
    <2>2. f \in Nat /\ f < InvBit  BY <1>1
    <2>3. e = Invalid(Pte(FALSE, FALSE, TRUE, f))  BY <1>3, <2>1 DEF PteAt
    <2>4. LET x == Invalid(Pte(FALSE, FALSE, TRUE, f)) IN
            /\ x \in Ptes /\ x.valid = FALSE /\ Unswizzle(x) \in Ptes
            /\ Unswizzle(x).soft = FALSE /\ Unswizzle(x).trans = TRUE
            /\ Unswizzle(x).high = f /\ Unswizzle(x).zero = FALSE
      BY <2>2, UnswizzleInvalid
    <2> HIDE DEF e
    <2>5. /\ e \in Ptes /\ e.valid = FALSE /\ p \in Ptes
          /\ p.soft = FALSE /\ p.trans = TRUE /\ p.high = h[2] /\ p.zero = FALSE
      BY <2>1, <2>3, <2>4
    <2> HIDE DEF p
    <2>6. Classify(p) = "transition"  BY <2>5 DEF Classify
    <2> QED BY <1>3, <2>5, <2>6 DEF e, p
  <1>4. CASE h[1] \in {"zero", "disk"}
    <2> DEFINE k == IF h[1] = "zero" THEN 0 ELSE 1
    <2>1. e = Invalid(Pte(FALSE, FALSE, FALSE, k))  BY <1>4 DEF PteAt
    <2>2. k \in Nat /\ k < InvBit  OBVIOUS
    <2>3. k = 0 <=> h[1] = "zero"  OBVIOUS
    <2> HIDE DEF k
    <2>4. LET x == Invalid(Pte(FALSE, FALSE, FALSE, k)) IN
            /\ x \in Ptes /\ x.valid = FALSE /\ Unswizzle(x) \in Ptes
            /\ Unswizzle(x).soft = FALSE /\ Unswizzle(x).trans = FALSE
            /\ Unswizzle(x).high = k /\ Unswizzle(x).zero = FALSE
      BY <2>2, UnswizzleInvalid
    <2> HIDE DEF e
    <2>5. /\ e \in Ptes /\ e.valid = FALSE /\ p \in Ptes
          /\ p.soft = FALSE /\ p.trans = FALSE /\ p.high = k /\ p.zero = FALSE
      BY <2>1, <2>4
    <2> HIDE DEF p
    <2>6. Classify(p) = IF k = 0 THEN "zero" ELSE "unknown"  BY <2>5 DEF Classify
    <2> QED BY <1>4, <2>3, <2>5, <2>6 DEF e, p
  <1> QED BY <1>0, <1>2, <1>3, <1>4

\* An entry of the page leads to its frame, to zeros or to the disk,
\* whenever in the read it was read.
LEMMA HomeEntryRight ==
  ASSUME inverted \in BOOLEAN, startHome \in Homes, NEW e, HomeEntry(e)
  PROVE  LET p == Unswizzle(e)
             there == startHome[1] \in {"valid", "transition"}
         IN /\ e \in Ptes /\ p \in Ptes
            /\ e.valid => there /\ e.high = startHome[2]
            /\ ~e.valid => \/ Classify(p) = "transition" /\ there /\ p.high = startHome[2]
                           \/ Classify(p) = "zero" /\ startHome[1] = "zero"
                           \/ Classify(p) = "unknown" /\ startHome[1] = "disk"
  <1>1. PICK h \in Homes : SameHome(h) /\ e = PteAt(h)  BY DEF HomeEntry
  <1>2. h[1] \in {"valid", "transition", "zero", "disk"}  BY DEF Homes
  <1>3. /\ h[1] \in {"valid", "transition"} => startHome[1] \in {"valid", "transition"} /\ h[2] = startHome[2]
        /\ h[1] \in {"zero", "disk"} => startHome[1] = h[1]
    BY <1>1 DEF SameHome
  <1> QED BY <1>1, <1>2, <1>3, PteAtRight

\* An entry in the table of a shared page leads to its prototype entry, or
\* to the VAD when the process had not used the page.
LEMMA SharedEntryRight ==
  ASSUME inverted \in BOOLEAN, shared, NEW e, TableEntry(e)
  PROVE  LET p == Unswizzle(e)
         IN /\ e \in Ptes /\ e.valid = FALSE /\ p \in Ptes
            /\ Classify(p) = "software" \/ (Classify(p) = "vad" /\ ~startTouched)
  <1>1. CASE e = Invalid(Pte(FALSE, TRUE, FALSE, 1))
    <2>1. 1 \in Nat /\ 1 < InvBit /\ 1 # AllUpper  BY DEF AllUpper
    <2>2. /\ e \in Ptes /\ e.valid = FALSE /\ Unswizzle(e) \in Ptes
          /\ Unswizzle(e).soft = TRUE /\ Unswizzle(e).high = 1
      BY <1>1, <2>1, UnswizzleInvalid
    <2> QED BY <2>1, <2>2 DEF Classify
  <1>2. CASE e = Invalid(Pte(FALSE, TRUE, FALSE, AllUpper)) /\ ~startTouched
    <2>1. AllUpper \in Nat  BY DEF AllUpper
    <2>2. /\ e \in Ptes /\ e.valid = FALSE /\ Unswizzle(e) \in Ptes
          /\ Unswizzle(e).soft = TRUE /\ Unswizzle(e).high = AllUpper
      BY <1>2, <2>1, UnswizzleInvalid
    <2> QED BY <1>2, <2>2 DEF Classify
  <1> QED BY <1>1, <1>2 DEF TableEntry

-----------------------------------------------------------------------------
(* The invariant holds at first, and the guest keeps it *)

\* The entry of an empty slot is an entry.
LEMMA EmptyPteType == EmptyPte \in Ptes
  BY DEF EmptyPte, Pte, Ptes

\* A page is in one of four states, and in a frame in two of them.
LEMMA HomeCases ==
  ASSUME NEW h \in Homes
  PROVE  /\ h[1] \in {"valid", "transition", "zero", "disk"}
         /\ h[1] \in {"valid", "transition"} => h[2] \in Frames
         /\ h[1] \notin {"valid", "transition"} => h[2] \notin Frames
  BY DEF Homes

LEMMA MemInitInv == MemInit => MemInv
  <1> SUFFICES ASSUME MemInit PROVE MemInv  OBVIOUS
  <1> USE DEF MemInit
  <1>1. MemTypeOK
    <2>1. PICK t \in Frames \ {home[2]} :
             content = [f \in Frames |-> IF f = home[2] THEN "page" ELSE IF f = t THEN "table" ELSE "other"]
      OBVIOUS
    <2>2. content \in [Frames -> {"page", "table", "other"}]  BY <2>1
    <2>3. entry \in Ptes  BY EmptyPteType
    <2>4. nmoves \in 0..MaxMoves  OBVIOUS
    <2>5. {shared, touched, noTable, inverted, withProc, startTouched, reusedFrame} \subseteq BOOLEAN
      OBVIOUS
    <2>6. home \in Homes /\ startHome \in Homes  OBVIOUS
    <2> QED BY <2>2, <2>3, <2>4, <2>5, <2>6 DEF MemTypeOK
  <1>2. FollowsPage
    BY DEF FollowsPage, SameHome
  <1>0. FramesRight
    <2>1. home[1] \in {"valid", "transition"} => home[2] \in Frames  BY HomeCases
    <2>2. home[1] \in {"valid", "transition"} => content[home[2]] = "page"  BY <2>1
    <2> QED BY <2>2 DEF FramesRight
  <1>3. SoftPagesRight  BY DEF SoftPagesRight
  <1> QED BY <1>0, <1>1, <1>2, <1>3 DEF MemInv

LEMMA MovesCounted ==
  ASSUME nmoves \in 0..MaxMoves, Moves PROVE nmoves' \in 0..MaxMoves
  <1>1. MaxMoves \in Nat /\ nmoves \in Nat  OBVIOUS
  <1>2. nmoves < MaxMoves /\ nmoves' = nmoves + 1  BY DEF Moves
  <1> HIDE MemoryAssumption
  <1> QED BY <1>1, <1>2

LEMMA TrimInv ==
  ASSUME MemInv, Trim PROVE MemInv'
  <1> USE DEF Trim, Moves
  <1>1. home[2] \in Frames  BY HomeCases DEF MemInv, MemTypeOK
  <1>2. home' \in Homes  BY <1>1 DEF Homes
  <1>3. MemTypeOK'
    <2>1. nmoves' \in 0..MaxMoves  BY MovesCounted DEF MemInv, MemTypeOK
    <2> QED BY <1>2, <2>1 DEF MemInv, MemTypeOK
  <1>4. (shared \/ touched)  BY DEF MemInv
  <1>5. ASSUME ~noTable, ~reusedFrame PROVE FollowsPage'
    <2>1. FollowsPage  BY <1>4, <1>5 DEF MemInv
    <2>2. SameHome(home)'
      BY <2>1, <1>1 DEF FollowsPage, SameHome
    <2>3. HomeEntry(entry)' <=> HomeEntry(entry)  BY DEF HomeEntry, SameHome, PteAt, Invalid
    <2>4. TableEntry(entry)' <=> TableEntry(entry)  BY <2>3 DEF TableEntry, Invalid
    <2> QED BY <2>1, <2>2, <2>3, <2>4 DEF FollowsPage
  <1>6. SoftPagesRight'  BY DEF SoftPagesRight
  <1>7. FramesRight'  BY DEF MemInv, FramesRight
  <1> QED BY <1>3, <1>4, <1>5, <1>6, <1>7 DEF MemInv

LEMMA SoftFaultInv ==
  ASSUME MemInv, SoftFault PROVE MemInv'
  <1> USE DEF SoftFault, Moves
  <1>1. home[2] \in Frames  BY HomeCases DEF MemInv, MemTypeOK
  <1>2. home' \in Homes  BY <1>1 DEF Homes
  <1>3. MemTypeOK'
    <2>1. nmoves' \in 0..MaxMoves  BY MovesCounted DEF MemInv, MemTypeOK
    <2> QED BY <1>2, <2>1 DEF MemInv, MemTypeOK
  <1>4. (shared \/ touched)  BY DEF MemInv
  <1>5. ASSUME ~noTable, ~reusedFrame PROVE FollowsPage'
    <2>1. FollowsPage  BY <1>4, <1>5 DEF MemInv
    <2>2. SameHome(home)'
      BY <2>1, <1>1 DEF FollowsPage, SameHome
    <2>3. HomeEntry(entry)' <=> HomeEntry(entry)  BY DEF HomeEntry, SameHome, PteAt, Invalid
    <2>4. TableEntry(entry)' <=> TableEntry(entry)  BY <2>3 DEF TableEntry, Invalid
    <2> QED BY <2>1, <2>2, <2>3, <2>4 DEF FollowsPage
  <1>6. SoftPagesRight'  BY DEF SoftPagesRight
  <1>7. FramesRight'  BY DEF MemInv, FramesRight
  <1> QED BY <1>3, <1>4, <1>5, <1>6, <1>7 DEF MemInv

LEMMA RepurposeInv ==
  ASSUME MemInv, Repurpose PROVE MemInv'
  <1> USE DEF Repurpose, Moves
  <1>1. home' \in Homes  BY DEF Homes
  <1>2. MemTypeOK'
    <2>1. nmoves' \in 0..MaxMoves  BY MovesCounted DEF MemInv, MemTypeOK
    <2>2. content' \in [Frames -> {"page", "table", "other"}]  BY DEF MemInv, MemTypeOK
    <2> QED BY <1>1, <2>1, <2>2 DEF MemInv, MemTypeOK
  <1>3. (shared \/ touched)  BY DEF MemInv
  <1>4. SoftPagesRight'  BY DEF SoftPagesRight
  <1>5. FramesRight'
    <2>1. PICK f \in Frames : content[f] = "table"  BY DEF MemInv, FramesRight
    <2>2. f # home[2]  BY <2>1 DEF MemInv, FramesRight
    <2>3. content'[f] = "table"  BY <2>1, <2>2 DEF MemInv, MemTypeOK
    <2> QED BY <2>3 DEF FramesRight
  <1> QED BY <1>2, <1>3, <1>4, <1>5 DEF MemInv

-----------------------------------------------------------------------------
(* The read keeps it *)

\* A step of the read changes nothing of the guest, so it keeps what the
\* invariant says of the guest.
LEMMA ReadKeepsGuest ==
  ASSUME MemInv, UNCHANGED <<guestMemVars, withProc>>,
         entry' \in Ptes,
         readAt' \in {"translate", "classify", "vad", "prototype", "classify prototype", "copy", "done"},
         answer' \in {"none", "page", "table", "other", "zero", "err"},
         lost' \in {"none", "translate", "vad", "prototype", "copy"},
         ~noTable /\ ~reusedFrame /\ (shared \/ touched) => FollowsPage',
         SoftPagesRight'
  PROVE  MemInv'
  <1>1. MemTypeOK'  BY DEF guestMemVars, MemInv, MemTypeOK
  <1>2. FramesRight'  BY DEF guestMemVars, MemInv, FramesRight
  <1> QED BY <1>1, <1>2 DEF guestMemVars, MemInv

\* What an entry says of the page is the same before and after such a step.
LEMMA EntryKept ==
  ASSUME UNCHANGED guestMemVars, NEW e, entry' = e
  PROVE  /\ HomeEntry(entry)' <=> HomeEntry(e)
         /\ TableEntry(entry)' <=> TableEntry(e)
         /\ SameHome(home)' <=> SameHome(home)
  <1>1. HomeEntry(entry)' <=> HomeEntry(e)  BY DEF guestMemVars, HomeEntry, SameHome, PteAt, Invalid
  <1>2. TableEntry(entry)' <=> TableEntry(e)  BY <1>1 DEF guestMemVars, TableEntry, Invalid
  <1>3. SameHome(home)' <=> SameHome(home)  BY DEF guestMemVars, SameHome
  <1> QED BY <1>1, <1>2, <1>3

\* A read that fails ends the whole, and is one that the page needs.
LEMMA FailsInv ==
  ASSUME MemInv, Fails, UNCHANGED <<guestMemVars, withProc>>,
         readAt \in {"translate", "vad", "prototype", "copy"}
  PROVE  MemInv'
  <1>1. readAt' = "done" /\ answer' = "err" /\ lost' = readAt /\ entry' = entry  BY DEF Fails
  <1>2. entry' \in Ptes  BY <1>1 DEF MemInv, MemTypeOK
  <1>3. ASSUME ~noTable, ~reusedFrame, shared \/ touched PROVE FollowsPage' /\ Needed(lost)'
    <2>1. FollowsPage  BY <1>3 DEF MemInv
    <2>2. SameHome(home)'  BY <2>1 DEF FollowsPage, guestMemVars, SameHome
    <2>3. FollowsPage'  BY <1>1, <2>2 DEF FollowsPage
    <2>4. Needed(lost)'  BY <1>1, <2>1 DEF FollowsPage, Needed, guestMemVars
    <2> QED BY <2>3, <2>4
  <1>4. SoftPagesRight'  BY <1>1, <1>3 DEF SoftPagesRight, Needed, guestMemVars
  <1> QED BY <1>1, <1>2, <1>3, <1>4, ReadKeepsGuest

\* The entry of a page table that is not there.
LEMMA NoTablePteType ==
  ASSUME MemInv PROVE NoTablePte \in Ptes
  <1> DEFINE f == CHOOSE f \in Frames : content[f] = "table"
  <1>1. f \in Frames  BY DEF MemInv, FramesRight
  <1>3. inverted \in BOOLEAN  BY DEF MemInv, MemTypeOK
  <1>4. NoTablePte = Invalid(Pte(FALSE, FALSE, TRUE, f))  BY DEF NoTablePte
  <1> HIDE DEF f
  <1>2. f \in Nat /\ f < InvBit  BY <1>1
  <1>5. Invalid(Pte(FALSE, FALSE, TRUE, f)) \in Ptes  BY <1>2, <1>3, UnswizzleInvalid
  <1> QED BY <1>4, <1>5

LEMMA TablePteRight ==
  ASSUME MemInv
  PROVE  /\ TablePte \in Ptes
         /\ ~noTable /\ ~reusedFrame /\ (shared \/ touched) => TableEntry(TablePte)
         /\ shared => TablePte.valid = FALSE
  <1>1. inverted \in BOOLEAN /\ home \in Homes  BY DEF MemInv, MemTypeOK
  <1>2. CASE ~shared
    <2>1. CASE touched
      <3>1. TablePte = PteAt(home)  BY <1>2, <2>1 DEF TablePte, HomePte
      <3>2. PteAt(home) \in Ptes  BY <1>1, PteAtRight
      <3>3. ~noTable /\ ~reusedFrame => SameHome(home)  BY <2>1 DEF MemInv, FollowsPage
      <3>4. ~noTable /\ ~reusedFrame => HomeEntry(PteAt(home))  BY <1>1, <3>3 DEF HomeEntry
      <3> QED BY <1>2, <3>1, <3>2, <3>4 DEF TableEntry
    <2>2. CASE ~touched
      BY <1>2, <2>2, EmptyPteType DEF TablePte
    <2> QED BY <2>1, <2>2
  <1>3. CASE shared /\ touched
    <2>1. 1 \in Nat /\ 1 < InvBit  OBVIOUS
    <2>2. TablePte = Invalid(Pte(FALSE, TRUE, FALSE, 1))  BY <1>3 DEF TablePte
    <2>3. TableEntry(TablePte)  BY <1>3, <2>2 DEF TableEntry
    <2>4. TablePte \in Ptes /\ TablePte.valid = FALSE  BY <1>1, <1>3, <2>3, SharedEntryRight
    <2> QED BY <2>3, <2>4
  <1>4. CASE shared /\ ~touched
    <2>1. ~startTouched  BY <1>4 DEF MemInv
    <2>2. TablePte = Invalid(Pte(FALSE, TRUE, FALSE, AllUpper))  BY <1>4 DEF TablePte, AllUpper
    <2>3. TableEntry(TablePte)  BY <1>4, <2>1, <2>2 DEF TableEntry
    <2>4. TablePte \in Ptes /\ TablePte.valid = FALSE  BY <1>1, <1>4, <2>3, SharedEntryRight
    <2> QED BY <2>3, <2>4
  <1> QED BY <1>2, <1>3, <1>4

LEMMA TranslateInv ==
  ASSUME MemInv, Translate PROVE MemInv'
  <1>0. SUFFICES ASSUME ~Fails PROVE MemInv'
    <2>1. readAt = "translate" /\ UNCHANGED <<guestMemVars, withProc>>  BY DEF Translate
    <2> QED BY <2>1, FailsInv
  <1> DEFINE e == IF noTable THEN NoTablePte ELSE TablePte
  <1>1. e \in Ptes  BY NoTablePteType, TablePteRight
  <1>2. /\ entry' = e /\ readAt' = IF e.valid THEN "copy" ELSE "classify"
        /\ answer' = answer /\ lost' = lost /\ UNCHANGED <<guestMemVars, withProc>>
    BY <1>0 DEF Translate, Read
  <1>3. ASSUME ~noTable, ~reusedFrame, shared \/ touched PROVE FollowsPage'
    <2>1. TableEntry(e) /\ FollowsPage /\ (shared => e.valid = FALSE)
      BY <1>3, TablePteRight DEF MemInv
    <2>2. inverted \in BOOLEAN /\ startHome \in Homes  BY DEF MemInv, MemTypeOK
    <2> HIDE DEF e
    <2>3. TableEntry(entry)' /\ SameHome(home)'  BY <1>2, <2>1, EntryKept DEF FollowsPage
    <2>4. e.valid => startHome[1] \in {"valid", "transition"} /\ e.high = startHome[2]
      BY <2>1, <2>2, HomeEntryRight DEF TableEntry
    <2> QED BY <1>2, <2>3, <2>4 DEF FollowsPage, guestMemVars
  <1> HIDE DEF e
  <1>4. SoftPagesRight'  BY <1>2 DEF SoftPagesRight
  <1>5. /\ answer' \in {"none", "page", "table", "other", "zero", "err"}
        /\ lost' \in {"none", "translate", "vad", "prototype", "copy"}
    BY <1>2 DEF MemInv, MemTypeOK
  <1>6. readAt' \in {"translate", "classify", "vad", "prototype", "classify prototype", "copy", "done"}
    BY <1>2
  <1> QED BY <1>1, <1>2, <1>3, <1>4, <1>5, <1>6, ReadKeepsGuest

LEMMA UnswizzleType ==
  ASSUME NEW e \in Ptes PROVE Unswizzle(e) \in Ptes
  <1>1. CASE e.high >= InvBit
    <2> DEFINE k == e.high - InvBit
    <2>0. e.high \in Nat  BY DEF Ptes
    <2>1. k \in Nat  BY <1>1, <2>0
    <2> HIDE DEF k
    <2>2. [e EXCEPT !.high = k] \in Ptes  BY <2>1 DEF Ptes
    <2>3. Unswizzle(e) \in {e, [e EXCEPT !.high = k]}  BY DEF Unswizzle, k
    <2> QED BY <2>2, <2>3
  <1>2. CASE ~(e.high >= InvBit)
    BY <1>2 DEF Unswizzle
  <1> QED BY <1>1, <1>2

\* An entry of the table is followed to the page, to its prototype entry or
\* to the end of the read.
LEMMA FollowEntryInv ==
  ASSUME MemInv, FollowEntry PROVE MemInv'
  <1> DEFINE p == Unswizzle(entry)
             kind == Classify(p)
  <1>1. entry \in Ptes /\ p \in Ptes /\ answer \in {"none", "page", "table", "other", "zero", "err"}
    BY UnswizzleType DEF MemInv, MemTypeOK
  <1>2. readAt = "classify" /\ UNCHANGED <<guestMemVars, withProc>>  BY DEF FollowEntry
  <1>0. lost' = lost  BY DEF FollowEntry, Read, EndRead
  <1>3. \/ kind = "software" /\ entry' = p /\ readAt' = "prototype" /\ answer' = answer
        \/ kind = "transition" /\ entry' = p /\ readAt' = "copy" /\ answer' = answer
        \/ kind = "vad" /\ withProc /\ entry' = p /\ readAt' = "vad" /\ answer' = answer
        \/ kind = "vad" /\ ~withProc /\ entry' = entry /\ readAt' = "done" /\ answer' = "err"
        \/ kind = "zero" /\ entry' = entry /\ readAt' = "done" /\ answer' = "zero"
        \/ kind = "unknown" /\ entry' = entry /\ readAt' = "done" /\ answer' = "err"
    BY DEF FollowEntry, Read, EndRead
  <1>4. ASSUME ~noTable, ~reusedFrame, shared \/ touched
        PROVE  /\ SameHome(home)
               /\ kind \in {"software", "vad"} => shared
               /\ kind = "vad" => ~startTouched
               /\ kind = "transition" => startHome[1] \in {"valid", "transition"} /\ p.high = startHome[2]
               /\ kind = "zero" => startHome[1] = "zero"
               /\ kind = "unknown" => startHome[1] = "disk"
    <2>1. SameHome(home) /\ TableEntry(entry) /\ ~entry.valid  BY <1>2, <1>4 DEF MemInv, FollowsPage
    <2>2. inverted \in BOOLEAN /\ startHome \in Homes  BY DEF MemInv, MemTypeOK
    <2>3. CASE shared
      <3>1. Classify(Unswizzle(entry)) = "software" \/ (Classify(Unswizzle(entry)) = "vad" /\ ~startTouched)
        BY <2>1, <2>2, <2>3, SharedEntryRight
      <3>2. kind = "software" \/ (kind = "vad" /\ ~startTouched)  BY <3>1
      <3> HIDE DEF kind, p
      <3> QED BY <2>1, <2>3, <3>2
    <2>4. CASE ~shared
      <3>1. HomeEntry(entry)  BY <2>1, <2>4 DEF TableEntry
      <3>2. \/ Classify(Unswizzle(entry)) = "transition" /\ startHome[1] \in {"valid", "transition"}
               /\ Unswizzle(entry).high = startHome[2]
            \/ Classify(Unswizzle(entry)) = "zero" /\ startHome[1] = "zero"
            \/ Classify(Unswizzle(entry)) = "unknown" /\ startHome[1] = "disk"
        BY <2>1, <2>2, <3>1, HomeEntryRight
      <3>3. \/ kind = "transition" /\ startHome[1] \in {"valid", "transition"} /\ p.high = startHome[2]
            \/ kind = "zero" /\ startHome[1] = "zero"
            \/ kind = "unknown" /\ startHome[1] = "disk"
        BY <3>2
      <3> HIDE DEF kind, p
      <3> QED BY <2>1, <3>3
    <2> QED BY <2>3, <2>4
  <1> HIDE DEF kind, p
  <1>5. SameHome(home)' <=> SameHome(home)  BY <1>2 DEF guestMemVars, SameHome
  <1>6. ~noTable /\ ~reusedFrame /\ (shared \/ touched) => FollowsPage'
    BY <1>2, <1>3, <1>4, <1>5 DEF FollowsPage, guestMemVars
  <1>7. SoftPagesRight'
    BY <1>2, <1>3, <1>4 DEF SoftPagesRight, Needed, guestMemVars
  <1>8. /\ entry' \in Ptes /\ answer' \in {"none", "page", "table", "other", "zero", "err"}
        /\ readAt' \in {"translate", "classify", "vad", "prototype", "classify prototype", "copy", "done"}
        /\ lost' \in {"none", "translate", "vad", "prototype", "copy"}
    BY <1>0, <1>1, <1>3 DEF MemInv, MemTypeOK
  <1> QED BY <1>2, <1>6, <1>7, <1>8, ReadKeepsGuest

LEMMA ReadVadPteInv ==
  ASSUME MemInv, ReadVadPte PROVE MemInv'
  <1>0. SUFFICES ASSUME ~Fails PROVE MemInv'
    <2>1. readAt = "vad" /\ UNCHANGED <<guestMemVars, withProc>>  BY DEF ReadVadPte
    <2> QED BY <2>1, FailsInv
  <1>1. entry \in Ptes /\ answer \in {"none", "page", "table", "other", "zero", "err"}
    BY DEF MemInv, MemTypeOK
  <1>2. readAt = "vad" /\ UNCHANGED <<guestMemVars, withProc>>  BY DEF ReadVadPte
  <1>3. \/ shared /\ entry' = entry /\ readAt' = "prototype" /\ answer' = answer
        \/ ~shared /\ entry' = entry /\ readAt' = "done" /\ answer' = "err"
        \/ ~shared /\ (\E f \in Frames : entry' = Pte(TRUE, FALSE, FALSE, f))
           /\ readAt' = "classify prototype" /\ answer' = answer
    BY <1>0 DEF ReadVadPte, Read, EndRead
  <1>10. lost' = lost  BY <1>0 DEF ReadVadPte, Read, EndRead
  <1>4. entry' \in Ptes
    <2>1. \A f \in Frames : f \in Nat  OBVIOUS
    <2>2. \A f \in Frames : Pte(TRUE, FALSE, FALSE, f) \in Ptes  BY <2>1 DEF Pte, Ptes
    <2> QED BY <1>1, <1>3, <2>2
  <1>5. ~noTable /\ ~reusedFrame /\ (shared \/ touched) => shared /\ SameHome(home)
    BY <1>2 DEF MemInv, FollowsPage
  <1>6. SameHome(home)' <=> SameHome(home)  BY <1>2 DEF guestMemVars, SameHome
  <1>7. ~noTable /\ ~reusedFrame /\ (shared \/ touched) => FollowsPage'
    BY <1>2, <1>3, <1>5, <1>6 DEF FollowsPage, guestMemVars
  <1>8. SoftPagesRight'  BY <1>2, <1>3, <1>5 DEF SoftPagesRight, Needed, guestMemVars
  <1>9. /\ answer' \in {"none", "page", "table", "other", "zero", "err"}
        /\ readAt' \in {"translate", "classify", "vad", "prototype", "classify prototype", "copy", "done"}
        /\ lost' \in {"none", "translate", "vad", "prototype", "copy"}
    BY <1>1, <1>3, <1>10 DEF MemInv, MemTypeOK
  <1> QED BY <1>2, <1>4, <1>7, <1>8, <1>9, ReadKeepsGuest

LEMMA ReadPrototypeInv ==
  ASSUME MemInv, ReadPrototype PROVE MemInv'
  <1>0. SUFFICES ASSUME ~Fails PROVE MemInv'
    <2>1. readAt = "prototype" /\ UNCHANGED <<guestMemVars, withProc>>  BY DEF ReadPrototype
    <2> QED BY <2>1, FailsInv
  <1>1. inverted \in BOOLEAN /\ home \in Homes /\ answer \in {"none", "page", "table", "other", "zero", "err"}
    BY DEF MemInv, MemTypeOK
  <1>2. /\ readAt = "prototype" /\ entry' = PteAt(home) /\ readAt' = "classify prototype"
        /\ answer' = answer /\ lost' = lost /\ UNCHANGED <<guestMemVars, withProc>>
    BY <1>0 DEF ReadPrototype, Read, HomePte
  <1>3. entry' \in Ptes  BY <1>1, <1>2, PteAtRight
  <1>4. ASSUME ~noTable, ~reusedFrame, shared \/ touched PROVE FollowsPage'
    <2>1. shared /\ SameHome(home)  BY <1>2, <1>4 DEF MemInv, FollowsPage
    <2>2. HomeEntry(PteAt(home))  BY <1>1, <2>1 DEF HomeEntry
    <2>3. HomeEntry(entry)' /\ SameHome(home)'  BY <1>2, <2>1, <2>2, EntryKept
    <2> QED BY <1>2, <2>1, <2>3 DEF FollowsPage, guestMemVars
  <1>5. SoftPagesRight'  BY <1>2 DEF SoftPagesRight
  <1>6. /\ answer' \in {"none", "page", "table", "other", "zero", "err"}
        /\ readAt' \in {"translate", "classify", "vad", "prototype", "classify prototype", "copy", "done"}
        /\ lost' \in {"none", "translate", "vad", "prototype", "copy"}
    BY <1>1, <1>2 DEF MemInv, MemTypeOK
  <1> QED BY <1>2, <1>3, <1>4, <1>5, <1>6, ReadKeepsGuest

LEMMA FollowPrototypeInv ==
  ASSUME MemInv, FollowPrototype PROVE MemInv'
  <1> DEFINE p == Unswizzle(entry)
             kind == Classify(p)
  <1>1. entry \in Ptes /\ p \in Ptes /\ answer \in {"none", "page", "table", "other", "zero", "err"}
    BY UnswizzleType DEF MemInv, MemTypeOK
  <1>2. readAt = "classify prototype" /\ UNCHANGED <<guestMemVars, withProc>>  BY DEF FollowPrototype
  <1>0. lost' = lost  BY DEF FollowPrototype, Read, EndRead
  <1>3. \/ entry.valid /\ entry' = entry /\ readAt' = "copy" /\ answer' = answer
        \/ ~entry.valid /\ kind = "transition" /\ entry' = p /\ readAt' = "copy" /\ answer' = answer
        \/ ~entry.valid /\ kind = "zero" /\ entry' = entry /\ readAt' = "done" /\ answer' = "zero"
        \/ /\ ~entry.valid /\ kind \notin {"transition", "zero"}
           /\ entry' = entry /\ readAt' = "done" /\ answer' = "err"
    BY DEF FollowPrototype, Read, EndRead
  <1>4. ASSUME ~noTable, ~reusedFrame, shared \/ touched
        PROVE  /\ SameHome(home)
               /\ entry.valid => startHome[1] \in {"valid", "transition"} /\ entry.high = startHome[2]
               /\ ~entry.valid => \/ kind = "transition" /\ startHome[1] \in {"valid", "transition"}
                                     /\ p.high = startHome[2]
                                  \/ kind = "zero" /\ startHome[1] = "zero"
                                  \/ kind = "unknown" /\ startHome[1] = "disk"
    <2>1. SameHome(home) /\ HomeEntry(entry)  BY <1>2, <1>4 DEF MemInv, FollowsPage
    <2>2. inverted \in BOOLEAN /\ startHome \in Homes  BY DEF MemInv, MemTypeOK
    <2>3. /\ entry.valid => startHome[1] \in {"valid", "transition"} /\ entry.high = startHome[2]
          /\ ~entry.valid => \/ Classify(Unswizzle(entry)) = "transition"
                                /\ startHome[1] \in {"valid", "transition"}
                                /\ Unswizzle(entry).high = startHome[2]
                             \/ Classify(Unswizzle(entry)) = "zero" /\ startHome[1] = "zero"
                             \/ Classify(Unswizzle(entry)) = "unknown" /\ startHome[1] = "disk"
      BY <2>1, <2>2, HomeEntryRight
    <2> QED BY <2>1, <2>3
  <1> HIDE DEF kind, p
  <1>5. SameHome(home)' <=> SameHome(home)  BY <1>2 DEF guestMemVars, SameHome
  <1>6. ~noTable /\ ~reusedFrame /\ (shared \/ touched) => FollowsPage'
    BY <1>2, <1>3, <1>4, <1>5 DEF FollowsPage, guestMemVars
  <1>7. SoftPagesRight'
    BY <1>2, <1>3, <1>4 DEF SoftPagesRight, Needed, guestMemVars
  <1>8. /\ entry' \in Ptes /\ answer' \in {"none", "page", "table", "other", "zero", "err"}
        /\ readAt' \in {"translate", "classify", "vad", "prototype", "classify prototype", "copy", "done"}
        /\ lost' \in {"none", "translate", "vad", "prototype", "copy"}
    BY <1>0, <1>1, <1>3 DEF MemInv, MemTypeOK
  <1> QED BY <1>2, <1>6, <1>7, <1>8, ReadKeepsGuest

\* The frame that is copied is the one of the page, which is still in it.
LEMMA CopyFrameInv ==
  ASSUME MemInv, CopyFrame PROVE MemInv'
  <1>0. SUFFICES ASSUME ~Fails PROVE MemInv'
    <2>1. readAt = "copy" /\ UNCHANGED <<guestMemVars, withProc>>  BY DEF CopyFrame
    <2> QED BY <2>1, FailsInv
  <1>1. /\ readAt = "copy" /\ readAt' = "done" /\ entry' = entry
        /\ answer' = (IF entry.high \in Frames THEN content[entry.high] ELSE "err")
        /\ lost' = lost /\ UNCHANGED <<guestMemVars, withProc>>
    BY <1>0 DEF CopyFrame, EndRead
  <1>2. /\ entry' \in Ptes /\ answer' \in {"none", "page", "table", "other", "zero", "err"}
        /\ lost' \in {"none", "translate", "vad", "prototype", "copy"}
    BY <1>1 DEF MemInv, MemTypeOK
  <1>3. ASSUME ~noTable, ~reusedFrame, shared \/ touched
        PROVE  SameHome(home) /\ answer' = "page"
    <2>1. /\ SameHome(home) /\ startHome[1] \in {"valid", "transition"} /\ entry.high = startHome[2]
          /\ startHome \in Homes
      BY <1>1, <1>3 DEF MemInv, MemTypeOK, FollowsPage
    <2>2. home[1] \in {"valid", "transition"} /\ home[2] = startHome[2]  BY <2>1 DEF SameHome
    <2>3. startHome[2] \in Frames  BY <2>1, HomeCases
    <2>4. content[home[2]] = "page"  BY <2>2 DEF MemInv, FramesRight
    <2> QED BY <1>1, <2>1, <2>2, <2>3, <2>4
  <1>4. SameHome(home)' <=> SameHome(home)  BY <1>1 DEF guestMemVars, SameHome
  <1>5. ~noTable /\ ~reusedFrame /\ (shared \/ touched) => FollowsPage'
    BY <1>1, <1>3, <1>4 DEF FollowsPage
  <1>6. SoftPagesRight'  BY <1>1, <1>3 DEF SoftPagesRight, Needed, guestMemVars
  <1>7. readAt' \in {"translate", "classify", "vad", "prototype", "classify prototype", "copy", "done"}
    BY <1>1
  <1> QED BY <1>1, <1>2, <1>5, <1>6, <1>7, ReadKeepsGuest

-----------------------------------------------------------------------------
(* The theorems *)

\* Every step keeps the invariant of the read.
THEOREM MemInductive == MemInv /\ [MemNext]_memVars => MemInv'
  <1> SUFFICES ASSUME MemInv, [MemNext]_memVars PROVE MemInv'  OBVIOUS
  <1>1. CASE Trim  BY <1>1, TrimInv
  <1>2. CASE SoftFault  BY <1>2, SoftFaultInv
  <1>3. CASE Repurpose  BY <1>3, RepurposeInv
  <1>4. CASE Translate  BY <1>4, TranslateInv
  <1>5. CASE FollowEntry  BY <1>5, FollowEntryInv
  <1>6. CASE ReadVadPte  BY <1>6, ReadVadPteInv
  <1>7. CASE ReadPrototype  BY <1>7, ReadPrototypeInv
  <1>8. CASE FollowPrototype  BY <1>8, FollowPrototypeInv
  <1>9. CASE CopyFrame  BY <1>9, CopyFrameInv
  <1>10. CASE UNCHANGED memVars
    <2>1. UNCHANGED <<guestMemVars, withProc>> /\ UNCHANGED <<readAt, entry, answer, lost>>
      BY <1>10 DEF memVars, guestMemVars
    <2>2. entry \in Ptes /\ answer \in {"none", "page", "table", "other", "zero", "err"}
          /\ lost \in {"none", "translate", "vad", "prototype", "copy"}
          /\ readAt \in {"translate", "classify", "vad", "prototype", "classify prototype", "copy", "done"}
      BY DEF MemInv, MemTypeOK
    <2>3. /\ HomeEntry(entry)' <=> HomeEntry(entry)
          /\ TableEntry(entry)' <=> TableEntry(entry)
          /\ SameHome(home)' <=> SameHome(home)
      BY <2>1, EntryKept
    <2>4. FollowsPage => FollowsPage'  BY <2>1, <2>3 DEF FollowsPage, guestMemVars
    <2>5. SoftPagesRight'  BY <2>1 DEF MemInv, SoftPagesRight, Needed, guestMemVars
    <2>6. ~noTable /\ ~reusedFrame /\ (shared \/ touched) => FollowsPage'  BY <2>4 DEF MemInv
    <2> QED BY <2>1, <2>2, <2>5, <2>6, ReadKeepsGuest
  <1> QED BY <1>1, <1>2, <1>3, <1>4, <1>5, <1>6, <1>7, <1>8, <1>9, <1>10 DEF MemNext, MemGuest

\* The invariant holds in every state of every run.
THEOREM MemInvariant == MemSpec => []MemInv
  <1>1. MemInit => MemInv  BY MemInitInv
  <1>2. MemInv /\ [MemNext]_memVars => MemInv'  BY MemInductive
  <1> QED BY <1>1, <1>2, PTL DEF MemSpec

\* What read_virtual_memory_raw gives for a page that Windows took out of
\* the page tables is that page, whatever the guest does with it meanwhile
\* short of using its frame for something else; zeros only for a page that
\* has no content yet; and an error only for a page on disk, where a read
\* that the page needs fails (of the tables, of its frame, of the prototype
\* entry or of the VAD), or where the VAD is needed and the process is not
\* given.
THEOREM SoftPagesRightAlways == MemSpec => []SoftPagesRight
  <1>1. MemInv => SoftPagesRight  BY DEF MemInv
  <1> QED BY <1>1, MemInvariant, PTL

=============================================================================
