---------------------------- MODULE SymbolsProofs ---------------------------
(***************************************************************************)
(* Proofs about SymbolTable, for any symbols, modules and addresses, and   *)
(* about SymbolCache, for any number of processes, threads, modules and    *)
(* pieces of a PDB, and any number of calls, faults and kills.             *)
(***************************************************************************)
EXTENDS SymbolCache, SymbolTable, NatLemmas

-----------------------------------------------------------------------------
(* Binary search *)

\* One call of the search: the n keys from lo on, where h is the search of
\* fewer keys.
Half(n) == (n - 1) \div 2
SearchStep(keys, k, h, n, lo) ==
  IF n = 0 THEN [found |-> {}, insert |-> lo]
  ELSE IF keys[lo + Half(n)] = k
       THEN [found |-> {i \in lo .. lo + n - 1 : keys[i] = k}, insert |-> lo + Half(n)]
  ELSE IF keys[lo + Half(n)] < k THEN h[n - 1 - Half(n)][lo + Half(n) + 1] ELSE h[Half(n)][lo]

SearchFn(keys, k, N, L, h) == [n \in 0 .. N |-> [lo \in L |-> SearchStep(keys, k, h, n, lo)]]

\* Both parts are smaller.
LEMMA Halves ==
  ASSUME NEW n \in Nat \ {0}
  PROVE  Half(n) \in 0 .. n - 1 /\ n - 1 - Half(n) \in 0 .. n - 1
  BY DEF Half

\* The recursion has a solution.
LEMMA SearchExists ==
  ASSUME NEW keys, NEW k, NEW N \in Nat, NEW L
  PROVE  \E h : h = SearchFn(keys, k, N, L, h)
  <1> DEFINE F(h, m) == [n \in 0 .. m |-> [lo \in L |-> SearchStep(keys, k, h, n, lo)]]
             G == {m \in Nat : \E h : h = F(h, m)}
  <1>1. 0 \in G
    <2> DEFINE h == [n \in 0 .. 0 |-> [lo \in L |-> [found |-> {}, insert |-> lo]]]
    <2>1. h = F(h, 0)
      <3>1. \A lo : SearchStep(keys, k, h, 0, lo) = [found |-> {}, insert |-> lo]  BY DEF SearchStep
      <3> QED BY <3>1
    <2> HIDE DEF h
    <2> QED BY <2>1
  <1>2. ASSUME NEW m \in 0 .. N - 1, m \in G PROVE m + 1 \in G
    <2>1. PICK h : h = F(h, m)  BY <1>2
    <2> DEFINE g == [n \in 0 .. m + 1 |-> IF n = m + 1 THEN [lo \in L |-> SearchStep(keys, k, h, n, lo)] ELSE h[n]]
    <2>2. \A n \in 0 .. m : g[n] = h[n] /\ n \in 0 .. m + 1  OBVIOUS
    <2>3. g[m + 1] = [lo \in L |-> SearchStep(keys, k, h, m + 1, lo)]  OBVIOUS
    <2>4. DOMAIN g = 0 .. m + 1 /\ g = [n \in 0 .. m + 1 |-> g[n]]  OBVIOUS
    <2> HIDE DEF g
    <2>5. \A n \in 0 .. m + 1 : \A lo : SearchStep(keys, k, g, n, lo) = SearchStep(keys, k, h, n, lo)
      <3> TAKE n \in 0 .. m + 1
      <3> TAKE lo
      <3>1. CASE n = 0  BY <3>1 DEF SearchStep
      <3>2. CASE n # 0
        <4>1. n \in Nat \ {0}  BY <3>2
        <4>2. Half(n) \in 0 .. n - 1 /\ n - 1 - Half(n) \in 0 .. n - 1  BY <4>1, Halves
        <4>3. Half(n) \in 0 .. m /\ n - 1 - Half(n) \in 0 .. m  BY <4>2
        <4>4. g[Half(n)] = h[Half(n)] /\ g[n - 1 - Half(n)] = h[n - 1 - Half(n)]  BY <2>2, <4>3
        <4> QED BY ONLY <4>4 DEF SearchStep
      <3> QED BY <3>1, <3>2
    <2>6. \A n \in 0 .. m + 1 : g[n] = [lo \in L |-> SearchStep(keys, k, g, n, lo)]
      <3> TAKE n \in 0 .. m + 1
      <3>1. g[n] = [lo \in L |-> SearchStep(keys, k, h, n, lo)]
        <4>1. CASE n = m + 1  BY <2>3, <4>1
        <4>2. CASE n # m + 1
          <5>1. n \in 0 .. m  BY <4>2
          <5>2. h[n] = [lo \in L |-> SearchStep(keys, k, h, n, lo)]  BY <2>1, <5>1
          <5> QED BY <2>2, <5>1, <5>2
        <4> QED BY <4>1, <4>2
      <3> QED BY <2>5, <3>1
    <2>7. g = F(g, m + 1)  BY ONLY <2>4, <2>6
    <2>8. m + 1 \in Nat  OBVIOUS
    <2> QED BY <2>7, <2>8
  <1>3. N \in G
    <2> HIDE DEF G
    <2>1. \A n \in 0 .. N : n \in G  BY <1>1, <1>2, InductionUpTo
    <2> QED BY <2>1
  <1> QED BY <1>3 DEF SearchFn

\* The recursion of the search.
LEMMA SearchIs ==
  ASSUME NEW keys, Len(keys) \in Nat, NEW k, NEW n \in 0 .. Len(keys), NEW lo \in 1 .. Len(keys) + 1
  PROVE  Search(keys, k)[n][lo] = SearchStep(keys, k, Search(keys, k), n, lo)
  <1> DEFINE F(h) == [m \in 0 .. Len(keys) |-> [l \in 1 .. Len(keys) + 1 |-> SearchStep(keys, k, h, m, l)]]
  <1>1. Search(keys, k) = CHOOSE h : h = F(h)
    BY Zenon DEF Search, SearchStep, Half
  <1>2. \E h : h = F(h)
    <2>1. PICK N \in Nat : N = Len(keys)  OBVIOUS
    <2>2. PICK L : L = 1 .. Len(keys) + 1  OBVIOUS
    <2>3. PICK h : h = SearchFn(keys, k, N, L, h)  BY SearchExists
    <2>4. h = F(h)  BY <2>1, <2>2, <2>3 DEF SearchFn
    <2> QED BY <2>4
  <1> HIDE DEF F
  <1>3. Search(keys, k) = F(Search(keys, k))  BY <1>1, <1>2, Zenon
  <1>4. PICK h : h = Search(keys, k)  OBVIOUS
  <1>5. h = F(h)  BY <1>3, <1>4
  <1>6. h[n] = [l \in 1 .. Len(keys) + 1 |-> SearchStep(keys, k, h, n, l)]  BY ONLY <1>5, n \in 0 .. Len(keys) DEF F
  <1>7. h[n][lo] = SearchStep(keys, k, h, n, lo)  BY ONLY <1>6, lo \in 1 .. Len(keys) + 1
  <1> QED BY <1>4, <1>7

\* What the search r of the n keys from lo on must say.
SearchRight(keys, k, n, lo, r) ==
  /\ r.found = {i \in lo .. lo + n - 1 : keys[i] = k}
  /\ r.found = {} => /\ r.insert \in lo .. lo + n
                     /\ \A i \in lo .. r.insert - 1 : keys[i] < k
                     /\ \A i \in r.insert .. lo + n - 1 : keys[i] > k

\* A search of sorted keys finds all that are equal to k, and where it would
\* be among them.
LEMMA SearchSorted ==
  ASSUME NEW N \in Nat, NEW keys \in [1 .. N -> Int], Len(keys) = N, NEW k \in Int,
         \A i, j \in 1 .. N : i < j => keys[i] <= keys[j]
  PROVE  \A n \in 0 .. N, lo \in 1 .. N + 1 :
           lo + n <= N + 1 => SearchRight(keys, k, n, lo, Search(keys, k)[n][lo])
  <1> DEFINE P(n) == \A lo \in 1 .. N + 1 :
                       lo + n <= N + 1 => SearchRight(keys, k, n, lo, Search(keys, k)[n][lo])
             Bad == {n \in 0 .. N : ~P(n)}
  <1> SUFFICES ASSUME Bad # {} PROVE FALSE  OBVIOUS
  <1>1. PICK n \in Bad : \A m \in Bad : n <= m
    <2>1. Bad \in SUBSET Nat  OBVIOUS
    <2> QED BY <2>1, LeastNat
  <1>2. n \in 0 .. N /\ n \in Nat /\ ~P(n)  OBVIOUS
  <1>3. \A m \in 0 .. n - 1 : P(m)
    <2> TAKE m \in 0 .. n - 1
    <2>1. m \in 0 .. N /\ ~(n <= m)  BY <1>2
    <2> QED BY <1>1, <2>1
  <1> HIDE DEF Bad
  <1> SUFFICES ASSUME NEW lo \in 1 .. N + 1, lo + n <= N + 1
                 PROVE  SearchRight(keys, k, n, lo, Search(keys, k)[n][lo])
    BY <1>2
  <1>5. PICK h : h = Search(keys, k)  OBVIOUS
  <1>6. h[n][lo] = SearchStep(keys, k, h, n, lo)  BY <1>2, <1>5, SearchIs
  <1>7. \A m \in 0 .. n - 1, l \in 1 .. N + 1 : l + m <= N + 1 => SearchRight(keys, k, m, l, h[m][l])
    BY <1>3, <1>5
  <1> HIDE DEF P
  <1>8. PICK r : r = h[n][lo]  OBVIOUS
  <1>9. SUFFICES SearchRight(keys, k, n, lo, r)  BY <1>5, <1>8
  <1>10. CASE n = 0
    <2>1. r = [found |-> {}, insert |-> lo]  BY <1>6, <1>8, <1>10 DEF SearchStep
    <2>2. r.found = {} /\ r.insert = lo  BY <2>1
    <2> QED BY <1>10, <2>2 DEF SearchRight
  <1>11. CASE n # 0
    <2>1. n \in Nat \ {0}  BY <1>2, <1>11
    <2>2. PICK d \in 0 .. n - 1 : d = Half(n) /\ n - 1 - d \in 0 .. n - 1  BY <2>1, Halves
    <2>3. PICK mid \in lo .. lo + n - 1 : mid = lo + d /\ mid \in 1 .. N
      <3>1. lo + d \in lo .. lo + n - 1 /\ lo + d \in 1 .. N  BY <1>2, <2>2
      <3> QED BY ONLY <3>1
    <2>4. r = IF keys[mid] = k THEN [found |-> {i \in lo .. lo + n - 1 : keys[i] = k}, insert |-> mid]
              ELSE IF keys[mid] < k THEN h[n - 1 - d][mid + 1] ELSE h[d][lo]
      BY <1>6, <1>8, <1>11, <2>2, <2>3 DEF SearchStep
    <2>5. \A i \in lo .. lo + n - 1 : i \in 1 .. N /\ keys[i] \in Int  BY <1>2
    <2>6. keys[mid] \in Int  BY <2>3
    <2>7. CASE keys[mid] = k
      <3>1. r.found = {i \in lo .. lo + n - 1 : keys[i] = k}  BY <2>4, <2>7
      <3>2. mid \in r.found  BY <2>3, <2>7, <3>1
      <3> QED BY <3>1, <3>2 DEF SearchRight
    <2>8. CASE keys[mid] < k
      <3>1. PICK m \in 0 .. n - 1 : m = n - 1 - d  BY <2>2
      <3>2. PICK l \in 1 .. N + 1 : l = mid + 1  BY <2>3
      <3>3. l + m = lo + n /\ l + m <= N + 1
        <4>1. l + m = (lo + d + 1) + (n - 1 - d)  BY <2>3, <3>1, <3>2
        <4> QED BY <1>2, <2>2, <4>1
      <3>4. r = h[m][l]  BY <2>4, <2>6, <2>8, <3>1, <3>2
      <3>5. SearchRight(keys, k, m, l, r)  BY <1>7, <3>3, <3>4
      <3>6. \A i \in lo .. mid : keys[i] < k /\ keys[i] # k
        <4> TAKE i \in lo .. mid
        <4>1. i \in 1 .. N /\ keys[i] \in Int  BY <2>3, <2>5
        <4>2. keys[i] <= keys[mid]  BY <2>3, <2>6, <4>1
        <4> QED BY <2>6, <2>8, <4>1, <4>2
      <3>7. l .. l + m - 1 = l .. lo + n - 1 /\ l + m - 1 = lo + n - 1  BY <1>2, <3>3
      <3>8. \A i \in lo .. lo + n - 1 : i \in lo .. mid \/ i \in l .. lo + n - 1  BY <2>3, <3>2
      <3>9. \A i \in l .. lo + n - 1 : i \in lo .. lo + n - 1  BY <2>3, <3>2
      <3>10. r.found = {i \in l .. lo + n - 1 : keys[i] = k}  BY <3>5, <3>7 DEF SearchRight
      <3>11. r.found = {i \in lo .. lo + n - 1 : keys[i] = k}  BY ONLY <3>6, <3>8, <3>9, <3>10
      <3>12. ASSUME r.found = {}
             PROVE  /\ r.insert \in lo .. lo + n
                    /\ \A i \in lo .. r.insert - 1 : keys[i] < k
                    /\ \A i \in r.insert .. lo + n - 1 : keys[i] > k
        <4>1. /\ r.insert \in l .. l + m
              /\ \A i \in l .. r.insert - 1 : keys[i] < k
              /\ \A i \in r.insert .. l + m - 1 : keys[i] > k
          BY <3>5, <3>12 DEF SearchRight
        <4>2. PICK x \in l .. lo + n : x = r.insert  BY <3>3, <4>1
        <4>3. \A i \in lo .. x - 1 : i \in lo .. mid \/ i \in l .. x - 1  BY <2>3, <3>2
        <4>4. x \in lo .. lo + n  BY <2>3, <3>2
        <4> QED BY <3>6, <3>7, <4>1, <4>2, <4>3, <4>4
      <3> QED BY <3>11, <3>12 DEF SearchRight
    <2>9. CASE keys[mid] > k
      <3>1. lo + d <= N + 1 /\ lo + d = mid  BY <2>3
      <3>2. r = h[d][lo]  BY <2>4, <2>6, <2>9
      <3>3. SearchRight(keys, k, d, lo, r)  BY <1>7, <3>1, <3>2
      <3>4. \A i \in mid .. lo + n - 1 : keys[i] > k /\ keys[i] # k
        <4> TAKE i \in mid .. lo + n - 1
        <4>1. i \in lo .. lo + n - 1  BY <2>3
        <4>2. i \in 1 .. N /\ keys[i] \in Int  BY <2>5, <4>1
        <4>3. keys[mid] <= keys[i]  BY <2>3, <2>6, <4>2
        <4> QED BY <2>6, <2>9, <4>2, <4>3
      <3>5. \A i \in lo .. lo + n - 1 : i \in lo .. mid - 1 \/ i \in mid .. lo + n - 1  BY <2>3
      <3>6. \A i \in lo .. mid - 1 : i \in lo .. lo + n - 1  BY <1>2, <2>3
      <3>7. r.found = {i \in lo .. mid - 1 : keys[i] = k}  BY <3>1, <3>3 DEF SearchRight
      <3>8. r.found = {i \in lo .. lo + n - 1 : keys[i] = k}  BY ONLY <3>4, <3>5, <3>6, <3>7
      <3>9. ASSUME r.found = {}
            PROVE  /\ r.insert \in lo .. lo + n
                   /\ \A i \in lo .. r.insert - 1 : keys[i] < k
                   /\ \A i \in r.insert .. lo + n - 1 : keys[i] > k
        <4>1. /\ r.insert \in lo .. mid
              /\ \A i \in lo .. r.insert - 1 : keys[i] < k
              /\ \A i \in r.insert .. mid - 1 : keys[i] > k
          <5>1. r.insert \in lo .. lo + d /\ (\A i \in lo .. r.insert - 1 : keys[i] < k)
                /\ \A i \in r.insert .. lo + d - 1 : keys[i] > k
            BY <3>3, <3>9 DEF SearchRight
          <5> QED BY <3>1, <5>1
        <4>2. PICK x \in lo .. mid : x = r.insert  BY <4>1
        <4>3. \A i \in x .. lo + n - 1 : i \in x .. mid - 1 \/ i \in mid .. lo + n - 1  BY <2>3
        <4>4. x \in lo .. lo + n  BY <1>2, <2>3
        <4> QED BY <3>4, <4>1, <4>2, <4>3, <4>4
      <3> QED BY <3>8, <3>9 DEF SearchRight
    <2> QED BY <2>6, <2>7, <2>8, <2>9
  <1> QED BY <1>10, <1>11

\* And so of the whole sequence.
LEMMA BinarySearchRight ==
  ASSUME NEW N \in Nat, NEW keys \in [1 .. N -> Int], Len(keys) = N, NEW k \in Int,
         \A i, j \in 1 .. N : i < j => keys[i] <= keys[j], NEW r, r = BinarySearch(keys, k)
  PROVE  /\ r.found = {i \in 1 .. N : keys[i] = k}
         /\ r.found = {} => /\ r.insert \in 1 .. N + 1
                            /\ \A i \in 1 .. r.insert - 1 : keys[i] < k
                            /\ \A i \in r.insert .. N : keys[i] > k
  <1>2. SearchRight(keys, k, N, 1, Search(keys, k)[N][1])
    <2>1. N \in 0 .. N /\ 1 \in 1 .. N + 1 /\ 1 + N <= N + 1  OBVIOUS
    <2>2. \A n \in 0 .. N, lo \in 1 .. N + 1 :
            lo + n <= N + 1 => SearchRight(keys, k, n, lo, Search(keys, k)[n][lo])
      BY SearchSorted
    <2> QED BY <2>1, <2>2
  <1>3. SearchRight(keys, k, N, 1, r)  BY <1>2 DEF BinarySearch
  <1>4. 1 + N - 1 = N /\ 1 + N = N + 1  OBVIOUS
  <1>5. r.found = {i \in 1 .. N : keys[i] = k}  BY <1>3, <1>4 DEF SearchRight
  <1>6. r.found = {} => r.insert \in 1 .. N + 1 /\ (\A i \in 1 .. r.insert - 1 : keys[i] < k)
                        /\ \A i \in r.insert .. N : keys[i] > k
    BY <1>3, <1>4 DEF SearchRight
  <1> QED BY <1>5, <1>6

-----------------------------------------------------------------------------
(* The tables *)

Entries == [addr : Offsets, name : SymNames]

\* Sorting keeps the elements.
LEMMA OrdersRight ==
  ASSUME NEW R, NEW s \in Seq(R), NEW r \in Orders(s)
  PROVE  r \in Seq(R) /\ Len(r) = Len(s) /\ Range(r) = Range(s)
  <1>1. PICK n \in Nat : n = Len(s) /\ DOMAIN s = 1 .. n  OBVIOUS
  <1>2. PICK p \in Bijection(DOMAIN s, DOMAIN s) : r = [k \in DOMAIN s |-> s[p[k]]]  BY DEF Orders
  <1>3. p \in [1 .. n -> 1 .. n] /\ \A t \in 1 .. n : \E k \in 1 .. n : p[k] = t
    BY <1>1, <1>2 DEF Bijection, Injection, Surjection
  <1>4. \A i \in 1 .. n : s[i] \in R  BY <1>1
  <1>5. r \in [1 .. n -> R] /\ \A i \in 1 .. n : r[i] = s[p[i]]  BY <1>1, <1>2, <1>3, <1>4
  <1>6. r \in Seq(R) /\ Len(r) = n  BY <1>5, SeqOfLength
  <1>7. DOMAIN r = 1 .. n  BY <1>5
  <1>8. Range(r) = Range(s)
    <2>1. \A x : x \in Range(r) <=> \E i \in 1 .. n : x = s[p[i]]  BY <1>5, <1>7 DEF Range
    <2>2. \A x : x \in Range(s) <=> \E i \in 1 .. n : x = s[i]  BY <1>1 DEF Range
    <2>3. \A i \in 1 .. n : p[i] \in 1 .. n  BY <1>3
    <2>4. ASSUME NEW x \in Range(r) PROVE x \in Range(s)
      <3>1. PICK i \in 1 .. n : x = s[p[i]]  BY <2>1
      <3> QED BY <2>2, <2>3, <3>1
    <2>5. ASSUME NEW x \in Range(s) PROVE x \in Range(r)
      <3>1. PICK i \in 1 .. n : x = s[i]  BY <2>2
      <3>2. PICK k \in 1 .. n : p[k] = i  BY <1>3
      <3> QED BY <2>1, <3>1, <3>2
    <2> QED BY ONLY <2>4, <2>5
  <1> QED BY <1>1, <1>6, <1>8

\* What is in the tables when they are built.
LEMMA TablesRight ==
  ASSUME TableInv, stage # "read"
  PROVE  /\ symbols \in Seq(Entries) /\ Range(symbols) = Range(pushed)
         /\ addresses \in Seq(Entries) /\ Range(addresses) = Range(pushed)
         /\ \A i, j \in DOMAIN symbols : i < j => symbols[i].addr <= symbols[j].addr
         /\ \A i, j \in DOMAIN addresses : i < j => addresses[i].name <= addresses[j].name
  <1>1. pushed \in Seq(Entries) /\ symbols \in SortsByAddr(pushed) /\ addresses \in SortsByName(symbols)
    BY DEF TableInv, Entries
  <1>2. symbols \in Orders(pushed) /\ \A i, j \in DOMAIN symbols : i < j => symbols[i].addr <= symbols[j].addr
    BY <1>1 DEF SortsByAddr
  <1>3. addresses \in Orders(symbols) /\ \A i, j \in DOMAIN addresses : i < j => addresses[i].name <= addresses[j].name
    BY <1>1 DEF SortsByName
  <1>4. symbols \in Seq(Entries) /\ Range(symbols) = Range(pushed)  BY <1>1, <1>2, OrdersRight
  <1>5. addresses \in Seq(Entries) /\ Range(addresses) = Range(symbols)  BY <1>3, <1>4, OrdersRight
  <1> QED BY <1>2, <1>3, <1>4, <1>5

\* Entries have numbers.
LEMMA EntryNumbers == \A e \in Entries : e.addr \in Int /\ e.addr \in Nat /\ e.name \in Int
  <1>1. Offsets \subseteq Nat /\ SymNames \subseteq Nat  BY TableAssumption
  <1>2. \A e \in Entries : e.addr \in Offsets /\ e.name \in SymNames  BY DEF Entries
  <1>3. \A x \in Nat : x \in Int  OBVIOUS
  <1> QED BY ONLY <1>1, <1>2, <1>3

\* And so have the symbols that were kept.
LEMMA PushedNumbers ==
  ASSUME TableInv
  PROVE  \A e \in Range(pushed) : e.addr \in Nat
  <1>1. pushed \in Seq(Entries)  BY DEF TableInv, Entries
  <1>2. \A i \in DOMAIN pushed : pushed[i] \in Entries  BY <1>1
  <1> QED BY <1>2, EntryNumbers DEF Range

Here(a) == {s \in Range(pushed) : s.addr = a}
Before(a) == {s \in Range(pushed) : s.addr <= a}
Nearest(a) == {s \in Before(a) : \A o \in Before(a) : o.addr <= s.addr}

\* get_symbol and get_symbol_inexact of any address.
LEMMA AddressLookups ==
  ASSUME TableInv, stage # "read", NEW a \in Int
  PROVE  /\ GetSymbol(a) = IF Here(a) = {} THEN {Nothing} ELSE {s.name : s \in Here(a)}
         /\ \A x \in GetSymbolInexact(a) :
              IF Before(a) = {} THEN x = Nothing
              ELSE \E s \in Nearest(a) : x = [name |-> s.name, off |-> a - s.addr]
  <1>1. /\ symbols \in Seq(Entries) /\ Range(symbols) = Range(pushed)
        /\ \A i, j \in DOMAIN symbols : i < j => symbols[i].addr <= symbols[j].addr
    BY TablesRight
  <1>2. PICK N \in Nat : N = Len(symbols) /\ DOMAIN symbols = 1 .. N  BY <1>1
  <1>3. \A i \in 1 .. N : symbols[i] \in Entries /\ symbols[i].addr \in Int
    <2>1. \A i \in 1 .. N : symbols[i] \in Entries  BY <1>1, <1>2
    <2> QED BY <2>1, EntryNumbers
  <1>4. PICK keys : keys = Addrs  OBVIOUS
  <1>5. keys \in [1 .. N -> Int] /\ \A i \in 1 .. N : keys[i] = symbols[i].addr
    BY <1>2, <1>3, <1>4 DEF Addrs
  <1>6. Len(keys) = N  BY <1>5, SeqOfLength
  <1>7. \A i, j \in 1 .. N : i < j => keys[i] <= keys[j]  BY <1>1, <1>2, <1>5
  <1>8. PICK r : r = BinarySearch(keys, a)  OBVIOUS
  <1>9. /\ r.found = {i \in 1 .. N : keys[i] = a}
        /\ r.found = {} => /\ r.insert \in 1 .. N + 1
                           /\ \A i \in 1 .. r.insert - 1 : keys[i] < a
                           /\ \A i \in r.insert .. N : keys[i] > a
    BY <1>5, <1>6, <1>7, <1>8, BinarySearchRight
  <1>10. \A s : s \in Range(pushed) <=> \E i \in 1 .. N : s = symbols[i]
    <2>1. Range(symbols) = {symbols[i] : i \in 1 .. N}  BY <1>2 DEF Range
    <2> QED BY <1>1, <2>1
  <1>11. \A s : s \in Here(a) <=> \E i \in r.found : s = symbols[i]
    BY ONLY <1>5, <1>9, <1>10 DEF Here
  <1>12. GetSymbol(a) = IF Here(a) = {} THEN {Nothing} ELSE {s.name : s \in Here(a)}
    <2>1. GetSymbol(a) = IF r.found = {} THEN {Nothing} ELSE {symbols[i].name : i \in r.found}
      BY <1>4, <1>8 DEF GetSymbol
    <2>2. r.found = {} <=> Here(a) = {}  BY <1>11
    <2>3. {symbols[i].name : i \in r.found} = {s.name : s \in Here(a)}  BY <1>11
    <2> QED BY ONLY <2>1, <2>2, <2>3
  <1>13. ASSUME NEW x \in GetSymbolInexact(a)
         PROVE  IF Before(a) = {} THEN x = Nothing
                ELSE \E s \in Nearest(a) : x = [name |-> s.name, off |-> a - s.addr]
    <2>1. x \in IF r.found # {} THEN {[name |-> symbols[i].name, off |-> 0] : i \in r.found}
                ELSE IF r.insert = 1 THEN {Nothing}
                ELSE {[name |-> symbols[r.insert - 1].name, off |-> a - symbols[r.insert - 1].addr]}
      BY <1>4, <1>8 DEF GetSymbolInexact
    <2>2. \A s : s \in Before(a) <=> \E i \in 1 .. N : s = symbols[i] /\ keys[i] <= a
      BY ONLY <1>5, <1>10 DEF Before
    <2>3. CASE r.found # {}
      <3>1. PICK i \in r.found : x = [name |-> symbols[i].name, off |-> 0]  BY <2>1, <2>3
      <3>2. i \in 1 .. N /\ keys[i] = a /\ symbols[i].addr = a  BY <1>5, <1>9
      <3>3. a <= a /\ a - a = 0  OBVIOUS
      <3>4. symbols[i] \in Before(a)  BY ONLY <2>2, <3>2, <3>3
      <3>5. symbols[i] \in Nearest(a)
        <4>1. \A o \in Before(a) : o.addr <= a  BY DEF Before
        <4> QED BY <3>2, <3>4, <4>1 DEF Nearest
      <3>6. x = [name |-> symbols[i].name, off |-> a - symbols[i].addr]  BY ONLY <3>1, <3>2, <3>3
      <3> QED BY <3>4, <3>5, <3>6
    <2>4. CASE r.found = {} /\ r.insert = 1
      <3>1. \A i \in 1 .. N : keys[i] > a /\ keys[i] \in Int  BY <1>5, <1>9, <2>4
      <3>2. \A i \in 1 .. N : ~(keys[i] <= a)  BY <3>1
      <3>3. Before(a) = {}  BY <2>2, <3>2
      <3>4. x = Nothing  BY <2>1, <2>4
      <3> QED BY <3>3, <3>4
    <2>5. CASE r.found = {} /\ r.insert # 1
      <3>1. PICK e \in 1 .. N + 1 : e = r.insert  BY <1>9, <2>5
      <3>2. PICK j \in 1 .. N : j = e - 1  BY <2>5, <3>1
      <3>3. keys[j] < a /\ keys[j] \in Int /\ symbols[j].addr = keys[j]
        <4>1. j \in 1 .. e - 1  BY <3>2
        <4> QED BY <1>5, <1>9, <2>5, <3>1, <4>1
      <3>4. symbols[j] \in Before(a)
        <4>1. keys[j] <= a  BY <3>3
        <4> QED BY <2>2, <4>1
      <3>5. symbols[j] \in Nearest(a)
        <4>1. ASSUME NEW o \in Before(a) PROVE o.addr <= symbols[j].addr
          <5>1. PICK i \in 1 .. N : o = symbols[i] /\ keys[i] <= a  BY <2>2
          <5>2. keys[i] \in Int /\ ~(keys[i] > a)  BY <1>5, <5>1
          <5>3. i \notin e .. N  BY <1>9, <2>5, <3>1, <5>2
          <5>4. i <= j  BY <3>2, <5>3
          <5>5. keys[i] <= keys[j]
            <6>1. CASE i < j  BY <1>7, <6>1
            <6>2. CASE i = j  BY <5>2, <6>2
            <6> QED BY <5>4, <6>1, <6>2
          <5> QED BY <1>5, <5>1, <5>5
        <4> QED BY <3>4, <4>1 DEF Nearest
      <3>6. x = [name |-> symbols[j].name, off |-> a - symbols[j].addr]  BY <2>1, <2>5, <3>1, <3>2
      <3> QED BY <3>4, <3>5, <3>6
    <2> QED BY <2>3, <2>4, <2>5
  <1> QED BY <1>12, <1>13

\* get_address of any name.
LEMMA NameLookups ==
  ASSUME TableInv, stage # "read", NEW n \in Int
  PROVE  LET named == {s.addr : s \in {t \in Range(pushed) : t.name = n}}
         IN GetAddress(n) = IF named = {} THEN {Nothing} ELSE named
  <1>1. /\ addresses \in Seq(Entries) /\ Range(addresses) = Range(pushed)
        /\ \A i, j \in DOMAIN addresses : i < j => addresses[i].name <= addresses[j].name
    BY TablesRight
  <1>2. PICK N \in Nat : N = Len(addresses) /\ DOMAIN addresses = 1 .. N  BY <1>1
  <1>3. \A i \in 1 .. N : addresses[i] \in Entries /\ addresses[i].name \in Int
    <2>1. \A i \in 1 .. N : addresses[i] \in Entries  BY <1>1, <1>2
    <2> QED BY <2>1, EntryNumbers
  <1>4. PICK keys : keys = NamesInOrder  OBVIOUS
  <1>5. keys \in [1 .. N -> Int] /\ \A i \in 1 .. N : keys[i] = addresses[i].name
    BY <1>2, <1>3, <1>4 DEF NamesInOrder
  <1>6. Len(keys) = N  BY <1>5, SeqOfLength
  <1>7. \A i, j \in 1 .. N : i < j => keys[i] <= keys[j]  BY <1>1, <1>2, <1>5
  <1>8. PICK r : r = BinarySearch(keys, n)  OBVIOUS
  <1>9. r.found = {i \in 1 .. N : keys[i] = n}
    BY <1>5, <1>6, <1>7, <1>8, BinarySearchRight
  <1>10. \A s : s \in Range(pushed) <=> \E i \in 1 .. N : s = addresses[i]
    <2>1. Range(addresses) = {addresses[i] : i \in 1 .. N}  BY <1>2 DEF Range
    <2> QED BY <1>1, <2>1
  <1>11. PICK H : H = {t \in Range(pushed) : t.name = n}  OBVIOUS
  <1>12. \A s : s \in H <=> \E i \in r.found : s = addresses[i]
    BY ONLY <1>5, <1>9, <1>10, <1>11
  <1>13. GetAddress(n) = IF r.found = {} THEN {Nothing} ELSE {addresses[i].addr : i \in r.found}
    BY <1>4, <1>8 DEF GetAddress
  <1>14. {addresses[i].addr : i \in r.found} = {s.addr : s \in H}  BY <1>12
  <1>15. r.found = {} <=> {s.addr : s \in H} = {}
    <2>1. r.found = {} <=> H = {}  BY <1>12
    <2> QED BY ONLY <2>1
  <1> QED BY ONLY <1>11, <1>13, <1>14, <1>15

-----------------------------------------------------------------------------
(* The text *)

\* format_symbol_with_module
LEMMA WithModule ==
  ASSUME TableInv, stage = "built", NEW q, NEW a \in Nat, q.addr = a, q.fun = Nothing \/ q.fun \in Nat,
         q.span.start \in Nat, NEW t \in FormatWithModule(q)
  PROVE  /\ t.of \in {"symbol", "module"}
         /\ t.of = "symbol" => \E s \in Range(pushed) : s.name = t.name /\ q.span.start + s.addr + t.off = a
         /\ t.of = "module" => q.span.start + t.at + t.off = a
  <1>1. PICK s \in SymbolFor(q) :
          t = IF s # Nothing THEN [of |-> "symbol", name |-> s.name, off |-> s.off]
              ELSE IF q.fun # Nothing THEN [of |-> "module", at |-> q.fun - q.span.start, off |-> q.addr - q.fun]
              ELSE [of |-> "module", at |-> q.addr - q.span.start, off |-> 0]
    BY DEF FormatWithModule
  <1>2. PICK b \in Nat : b = q.span.start  OBVIOUS
  <1>3. CASE s # Nothing
    <2>1. t.of = "symbol" /\ t.name = s.name /\ t.off = s.off  BY <1>1, <1>3
    <2>2. CASE q.fun = Nothing
      <3>1. s \in ModuleResolveSymbol(q, a)  BY <2>2 DEF SymbolFor
      <3>2. s \in GetSymbolInexact(a - b)  BY <1>2, <1>3, <3>1 DEF ModuleResolveSymbol
      <3>3. PICK x \in Int : x = a - b  BY <1>2
      <3>4. \E e \in Nearest(x) : s = [name |-> e.name, off |-> x - e.addr]
        BY <1>3, <3>2, <3>3, AddressLookups
      <3>5. PICK e \in Nearest(x) : s = [name |-> e.name, off |-> x - e.addr]  BY <3>4
      <3>6. e \in Range(pushed)  BY DEF Nearest, Before
      <3>7. e.addr \in Nat  BY <3>6, PushedNumbers
      <3>8. s.name = e.name /\ s.off = x - e.addr  BY <3>5
      <3>9. b + e.addr + (x - e.addr) = a  BY <1>2, <3>3, <3>7
      <3> QED BY <1>2, <2>1, <3>6, <3>8, <3>9
    <2>3. CASE q.fun # Nothing
      <3>1. PICK f \in Nat : f = q.fun  BY <2>3
      <3>2. PICK n \in ModuleResolveSymbolExact(q, f) :
              s = IF n = Nothing THEN Nothing ELSE [name |-> n, off |-> a - f]
        BY <2>3, <3>1 DEF SymbolFor
      <3>3. s = [name |-> n, off |-> a - f] /\ n # Nothing  BY <1>3, <3>2
      <3>4. n \in GetSymbol(f - b)  BY <1>2, <3>2, <3>3 DEF ModuleResolveSymbolExact
      <3>5. PICK x \in Int : x = f - b  BY <1>2, <3>1
      <3>6. PICK e \in Here(x) : n = e.name
        <4>1. GetSymbol(x) = IF Here(x) = {} THEN {Nothing} ELSE {e.name : e \in Here(x)}  BY AddressLookups
        <4> QED BY <3>3, <3>4, <3>5, <4>1
      <3>7. e \in Range(pushed) /\ e.addr = x  BY DEF Here
      <3>8. b + x + (a - f) = a  BY <1>2, <3>1, <3>5
      <3>9. s.name = n /\ s.off = a - f  BY <3>3
      <3> QED BY <1>2, <2>1, <3>6, <3>7, <3>8, <3>9
    <2> QED BY <2>2, <2>3
  <1>4. CASE s = Nothing /\ q.fun # Nothing
    <2>1. PICK f \in Nat : f = q.fun  BY <1>4
    <2>2. t.of = "module" /\ t.at = f - b /\ t.off = a - f  BY <1>1, <1>2, <1>4, <2>1
    <2>3. b + (f - b) + (a - f) = a  BY <1>2, <2>1
    <2> QED BY <1>2, <2>2, <2>3
  <1>5. CASE s = Nothing /\ q.fun = Nothing
    <2>1. t.of = "module" /\ t.at = a - b /\ t.off = 0  BY <1>1, <1>2, <1>5
    <2>2. b + (a - b) + 0 = a  BY <1>2
    <2> QED BY <1>2, <2>1, <2>2
  <1> QED BY <1>3, <1>4, <1>5

\* format_symbol_without_module
LEMMA WithoutModule ==
  ASSUME NEW q, NEW a \in Nat, q.addr = a, q.fun = Nothing \/ q.fun \in Nat,
         q.vma = Nothing \/ q.vma \in Nat, NEW t \in FormatWithoutModule(q)
  PROVE  /\ t.of \in {"vma", "none"}
         /\ t.of = "vma" /\ q.fun \in {Nothing, q.vma} => q.vma + t.at + t.off = a
         /\ t.of = "none" => t.at + t.off = a
  <1>1. CASE q.vma # Nothing /\ q.fun # Nothing
    <2>1. PICK f \in Nat : f = q.fun  BY <1>1
    <2>2. PICK v \in Nat : v = q.vma  BY <1>1
    <2>3. t.of = "vma" /\ t.at = v - f /\ t.off = a - f  BY <1>1, <2>1, <2>2 DEF FormatWithoutModule
    <2>4. f = v => v + (v - f) + (a - f) = a  BY <2>1, <2>2
    <2> QED BY <1>1, <2>1, <2>2, <2>3, <2>4
  <1>2. CASE q.vma # Nothing /\ q.fun = Nothing
    <2>1. PICK v \in Nat : v = q.vma  BY <1>2
    <2>2. t.of = "vma" /\ t.at = a - v /\ t.off = 0  BY <1>2, <2>1 DEF FormatWithoutModule
    <2>3. v + (a - v) + 0 = a  BY <2>1
    <2> QED BY <1>2, <2>1, <2>2, <2>3
  <1>3. CASE q.vma = Nothing /\ q.fun # Nothing
    <2>1. PICK f \in Nat : f = q.fun  BY <1>3
    <2>2. t.of = "none" /\ t.at = f /\ t.off = a - f  BY <1>3, <2>1 DEF FormatWithoutModule
    <2> QED BY <2>1, <2>2
  <1>4. CASE q.vma = Nothing /\ q.fun = Nothing
    <2>1. t.of = "none" /\ t.at = a /\ t.off = 0  BY <1>4 DEF FormatWithoutModule
    <2> QED BY <2>1
  <1> QED BY <1>1, <1>2, <1>3, <1>4

-----------------------------------------------------------------------------
(* The theorems of the table *)

\* Every step keeps the invariant.
LEMMA TableInductive == TableInv /\ [TableNext]_tableVars => TableInv'
  <1> SUFFICES ASSUME TableInv, [TableNext]_tableVars PROVE TableInv'  OBVIOUS
  <1>0. pushed \in Seq(Entries) /\ stage \in {"read", "built", "shown"}  BY DEF TableInv, Entries
  <1>1. CASE ReadSymbol
    <2>1. stage = "read" /\ stage' = "read"  BY <1>1 DEF ReadSymbol
    <2>2. PICK kept \in BOOLEAN, a \in Offsets, n \in SymNames :
            pushed' = IF kept THEN Append(pushed, [addr |-> a, name |-> n]) ELSE pushed
      BY <1>1 DEF ReadSymbol
    <2>3. PICK e \in Entries : e = [addr |-> a, name |-> n]  BY DEF Entries
    <2>4. pushed' \in Seq(Entries)  BY <1>0, <2>2, <2>3
    <2> QED BY <2>1, <2>4 DEF TableInv, TextDenotesAddress, Entries
  <1>2. CASE BuildTable
    <2>1. /\ symbols' \in SortsByAddr(pushed) /\ addresses' \in SortsByName(symbols')
          /\ stage' = "built" /\ pushed' = pushed
      BY <1>2 DEF BuildTable
    <2>2. symbols' \in SortsByAddr(pushed)'  BY <2>1 DEF SortsByAddr, Orders
    <2>3. addresses' \in SortsByName(symbols)'  BY <2>1 DEF SortsByName, Orders
    <2> QED BY <1>0, <2>1, <2>2, <2>3 DEF TableInv, TextDenotesAddress, Entries
  <1>3. CASE ShowAddress
    <2>1. stage = "built" /\ stage' = "shown" /\ UNCHANGED <<pushed, symbols, addresses>>
      BY <1>3 DEF ShowAddress
    <2>2. PICK a \in Addresses, loaded \in BOOLEAN, span \in Spans \union {Nothing},
               vma \in Starts \union {Nothing}, fun \in Addresses \union {Nothing} :
            /\ fun # Nothing => fun <= a
            /\ vma # Nothing => span = Nothing /\ vma <= a /\ (fun # Nothing => vma <= fun)
            /\ span # Nothing => span.start <= a /\ a < span.end
            /\ query' = [addr |-> a, fun |-> fun, span |-> span, vma |-> vma, loaded |-> loaded]
            /\ text' \in IF span # Nothing THEN FormatWithModule(query') ELSE FormatWithoutModule(query')
      BY <1>3, Zenon DEF ShowAddress
    <2>3. PICK q : q = query'  OBVIOUS
    <2>4. PICK t : t = text'  OBVIOUS
    <2>5. /\ q.addr = a /\ q.fun = fun /\ q.span = span /\ q.vma = vma
          /\ a \in Nat /\ (q.fun = Nothing \/ q.fun \in Nat) /\ (q.vma = Nothing \/ q.vma \in Nat)
      BY <2>2, <2>3, TableAssumption
    <2>6. /\ t.of = "symbol" => \E s \in Range(pushed) : s.name = t.name /\ q.span.start + s.addr + t.off = a
          /\ t.of = "module" => q.span.start + t.at + t.off = a
          /\ t.of = "vma" /\ q.fun \in {Nothing, q.vma} => q.vma + t.at + t.off = a
          /\ t.of = "none" => t.at + t.off = a
      <3>1. CASE span # Nothing
        <4>1. t \in FormatWithModule(q)  BY <2>2, <2>3, <2>4, <3>1
        <4>2. q.span.start \in Nat
          <5>1. span \in Spans /\ Spans \subseteq [start : Nat, end : Nat]  BY <2>2, <3>1, TableAssumption
          <5> QED BY <2>5, <5>1
        <4>3. /\ t.of \in {"symbol", "module"}
              /\ t.of = "symbol" => \E s \in Range(pushed) : s.name = t.name /\ q.span.start + s.addr + t.off = a
              /\ t.of = "module" => q.span.start + t.at + t.off = a
          BY <2>1, <2>5, <4>1, <4>2, WithModule
        <4> QED BY ONLY <4>3
      <3>2. CASE span = Nothing
        <4>1. t \in FormatWithoutModule(q)  BY <2>2, <2>3, <2>4, <3>2
        <4>2. /\ t.of \in {"vma", "none"}
              /\ t.of = "vma" /\ q.fun \in {Nothing, q.vma} => q.vma + t.at + t.off = a
              /\ t.of = "none" => t.at + t.off = a
          BY <2>5, <4>1, WithoutModule
        <4> QED BY ONLY <4>2
      <3> QED BY <3>1, <3>2
    <2>7. TextDenotesAddress'  BY <2>1, <2>3, <2>4, <2>5, <2>6 DEF TextDenotesAddress, Reversed
    <2>8. SortsByAddr(pushed)' = SortsByAddr(pushed) /\ SortsByName(symbols)' = SortsByName(symbols)
      BY <2>1 DEF SortsByAddr, SortsByName, Orders
    <2> QED BY <2>1, <2>7, <2>8 DEF TableInv
  <1>4. CASE UNCHANGED tableVars
    <2>1. UNCHANGED <<stage, pushed, symbols, addresses, query, text>>  BY <1>4 DEF tableVars
    <2>2. SortsByAddr(pushed)' = SortsByAddr(pushed) /\ SortsByName(symbols)' = SortsByName(symbols)
      BY <2>1 DEF SortsByAddr, SortsByName, Orders
    <2>3. TextDenotesAddress'  BY <2>1 DEF TableInv, TextDenotesAddress, Reversed
    <2> QED BY <2>1, <2>2, <2>3 DEF TableInv
  <1> QED BY <1>1, <1>2, <1>3, <1>4 DEF TableNext

\* The tables of ModuleSymbols have the symbols that were kept, one in the
\* order of the addresses and the other in that of the names.
THEOREM TableInvariant == TableSpec => []TableInv
  <1>1. TableInit => TableInv
    <2> SUFFICES ASSUME TableInit PROVE TableInv  OBVIOUS
    <2>1. stage = "read" /\ pushed = <<>>  BY DEF TableInit
    <2>2. pushed \in Seq([addr : Offsets, name : SymNames])  BY <2>1
    <2> QED BY <2>1, <2>2 DEF TableInv, TextDenotesAddress
  <1> QED BY <1>1, TableInductive, PTL DEF TableSpec

\* get_symbol, get_symbol_inexact and get_address answer from the symbols of
\* the file as they should: for any number of them, in any order, with
\* addresses and names that are used more than once.
THEOREM LookupsFaithfulAlways == TableSpec => []LookupsFaithful
  <1>1. TableInv => LookupsFaithful
    <2> SUFFICES ASSUME TableInv, stage = "built" PROVE LookupsFaithful  BY DEF LookupsFaithful
    <2>1. ASSUME NEW a \in Offsets \union Addresses
          PROVE  /\ GetSymbol(a) = IF Here(a) = {} THEN {Nothing} ELSE {s.name : s \in Here(a)}
                 /\ \A x \in GetSymbolInexact(a) :
                      IF Before(a) = {} THEN x = Nothing
                      ELSE \E s \in Nearest(a) : x = [name |-> s.name, off |-> a - s.addr]
      <3>1. a \in Int  BY TableAssumption
      <3> QED BY <3>1, AddressLookups
    <2>2. ASSUME NEW n \in SymNames
          PROVE  LET named == {s.addr : s \in {t \in Range(pushed) : t.name = n}}
                 IN GetAddress(n) = IF named = {} THEN {Nothing} ELSE named
      <3>1. n \in Int  BY TableAssumption
      <3> QED BY <3>1, NameLookups
    <2> QED BY <2>1, <2>2 DEF LookupsFaithful, Here, Before, Nearest
  <1> QED BY <1>1, TableInvariant, PTL

\* The text that format_symbol and format_stackframe_symbol make adds up to
\* the address, in a module with symbols or without, in a VMA and outside of
\* one, except for a function in the middle of a VMA without a module.
THEOREM TextDenotesAddressAlways == TableSpec => []TextDenotesAddress
  <1>1. TableInv => TextDenotesAddress  BY DEF TableInv
  <1> QED BY <1>1, TableInvariant, PTL

-----------------------------------------------------------------------------
(* The cache: keys, files and values *)

USE CacheAssumption, MarksAssumption

\* A thread that has a module has its name, and the identifier of its PDB.
LEMMA KeyType ==
  ASSUME NEW t \in Threads, asked[t] \in Modules
  PROVE  /\ ProcOf[t] \in Procs /\ Key(t) \in Names
         /\ Pdb(t) # NoId => Pdb(t) \in Ids
  BY DEF Key, Pdb, Names, Ids

\* What is parsed from a file is nothing, an error, a panic, or pieces of it;
\* of a whole file it is the whole.
LEMMA ReadBytesType ==
  ASSUME NEW s \in SUBSET Pieces, NEW r \in ReadBytes(s)
  PROVE  /\ r \notin {Panicked, Failed} => r \in SUBSET Pieces
         /\ s = Pieces => r = Pieces
  <1>1. 1 \in Pieces /\ 2 \in Pieces  BY DEF Pieces
  <1>2. CASE s = {}  BY <1>1, <1>2 DEF ReadBytes
  <1>3. CASE s = Pieces  BY <1>1, <1>3 DEF ReadBytes
  <1>4. CASE s = {1}  BY <1>1, <1>4 DEF ReadBytes
  <1>5. CASE 1 \in s /\ s # {1} /\ s # Pieces  BY <1>1, <1>5 DEF ReadBytes
  <1>6. CASE 1 \notin s /\ s # {}  BY <1>1, <1>6 DEF ReadBytes
  <1> QED BY <1>2, <1>3, <1>4, <1>5, <1>6

\* Symbols are values of the indexer, and their parts are what was put in.
LEMMA SymbolsType ==
  ASSUME NEW i \in Ids \union {"user"}, NEW s \in SUBSET Pieces
  PROVE  /\ Symbols(i, s) \in Values
         /\ Symbols(i, s).of = i /\ Symbols(i, s).pieces = s
         /\ Symbols(i, s) # NoSymbols /\ Symbols(i, s) # Absent
         /\ i \in Ids => Symbols(i, s) \in [of : Ids, pieces : SUBSET Pieces] /\ Symbols(i, s) # NoFile
  <1>1. Symbols(i, s) \in Values  BY DEF Values
  <1>2. Symbols(i, s).of = i /\ Symbols(i, s).pieces = s  BY DEF Symbols
  <1>3. Symbols(i, s) # NoSymbols /\ Symbols(i, s) # Absent  BY <1>1
  <1>4. i \in Ids => Symbols(i, s) \in [of : Ids, pieces : SUBSET Pieces] /\ Symbols(i, s) # NoFile
    BY DEF Symbols
  <1> QED BY <1>1, <1>2, <1>3, <1>4

-----------------------------------------------------------------------------
(* The initial state *)

\* Nothing is loaded but what the user gave, and there are no files.
LEMMA InitInv == CacheInit => LoaderInv
  <1> SUFFICES ASSUME CacheInit PROVE LoaderInv
    OBVIOUS
  <1> USE DEF CacheInit
  <1>1. LoadDir \in [Names -> Values \union {Absent}]
    BY SymbolsType DEF LoadDir, Pieces
  <1>2. CacheTypeOK
    BY <1>1 DEF CacheTypeOK
  <1>3. OneLoader /\ FilesRight
    BY DEF OneLoader, FilesRight
  <1>4. RightPdb /\ WholeUnlessSpoiled
    BY SymbolsType DEF RightPdb, WholeUnlessSpoiled, LoadDir
  <1> QED BY <1>2, <1>3, <1>4 DEF LoaderInv

-----------------------------------------------------------------------------
(* The ways to go on *)

\* A step that moves one thread on inside of its load.
Within(t) ==
  /\ UNCHANGED <<slot, owner, asked, boots, nasks, ncrashes>>
  /\ \A u \in Threads : u # t => at'[u] = at[u] /\ piece'[u] = piece[u]

\* Such a step keeps the key of the thread.
LEMMA WithinLoader ==
  ASSUME NEW t \in Threads, LoaderInv, Within(t), at[t] \notin {"idle", "insert"},
         at'[t] \notin {"idle", "insert", "codeview"}, Pdb(t) # NoId
  PROVE  OneLoader'
  BY DEF LoaderInv, OneLoader, Within, Key, Pdb

\* What the indexer keeps is right: nothing, or symbols of the right PDB.
Right(n, v, bad) ==
  v \notin {Absent, NoSymbols} =>
    /\ IF v.of = "user" THEN n \in Preloaded ELSE \E m \in Modules : NameOf[m] = n /\ IdOf[m] = v.of
    /\ v.pieces = Pieces \/ v.of \in bad

\* The call of a thread returns, and with it the key that it had.
LEMMA KeepLoader ==
  ASSUME NEW t \in Threads, LoaderInv, at[t] \notin {"idle", "insert"},
         NEW v \in Values, Keep(t, v), nfaults' \in 0..MaxFaults,
         spoiled \subseteq spoiled', spoiled' \subseteq Ids,
         disk' \in [Ids -> [of : Ids, pieces : SUBSET Pieces] \union {NoFile}],
         Right(Key(t), v, spoiled')
  PROVE  CacheTypeOK' /\ OneLoader' /\ RightPdb' /\ WholeUnlessSpoiled'
  <1> USE DEF LoaderInv
  <1>1. ProcOf[t] \in Procs /\ Key(t) \in Names
    BY KeyType DEF OneLoader
  <1>2. CacheTypeOK'
    BY <1>1 DEF CacheTypeOK, Keep, Return
  <1>3. OneLoader'
    BY <1>1 DEF CacheTypeOK, OneLoader, Keep, Return, Key, Pdb
  <1>4. \A p \in Procs, n \in Names : Right(n, slot'[p][n], spoiled')
    BY <1>1 DEF CacheTypeOK, Keep, Right, RightPdb, WholeUnlessSpoiled
  <1>5. RightPdb' /\ WholeUnlessSpoiled'
    BY <1>4 DEF RightPdb, WholeUnlessSpoiled, Right
  <1> QED BY <1>2, <1>3, <1>5

\* So it does when the load failed, and nothing is kept.
LEMMA FailLoader ==
  ASSUME NEW t \in Threads, LoaderInv, at[t] \notin {"idle", "insert"},
         Fail(t), nfaults' \in 0..MaxFaults, spoiled \subseteq spoiled', spoiled' \subseteq Ids
  PROVE  CacheTypeOK' /\ OneLoader' /\ RightPdb' /\ WholeUnlessSpoiled'
  <1> USE DEF LoaderInv
  <1>1. ProcOf[t] \in Procs /\ Key(t) \in Names
    BY KeyType DEF OneLoader
  <1>2. CacheTypeOK'
    BY <1>1 DEF CacheTypeOK, Fail, Return
  <1>3. OneLoader'
    BY <1>1 DEF CacheTypeOK, OneLoader, Fail, Return, Key, Pdb
  <1>4. RightPdb' /\ WholeUnlessSpoiled'
    BY DEF RightPdb, WholeUnlessSpoiled, Fail
  <1> QED BY <1>2, <1>3, <1>4

\* A process that ends forgets its threads and what they loaded.
LEMMA EndLoader ==
  ASSUME NEW p \in Procs, LoaderInv, End(p), ncrashes' \in 0..MaxCrashes,
         spoiled \union Unfinished(p) \subseteq spoiled', spoiled' \subseteq Ids
  PROVE  LoaderInv'
  <1> USE DEF LoaderInv
  <1>0. LoadDir \in [Names -> Values \union {Absent}]
    BY SymbolsType DEF LoadDir
  <1>1. CacheTypeOK'
    BY <1>0 DEF CacheTypeOK, End
  <1>2. OneLoader'
    BY DEF CacheTypeOK, OneLoader, End, Key, Pdb
  <1>3. \A i \in Ids : \A t \in Writing(i) : (t \in Writing(i)' /\ piece'[t] = piece[t]) \/ i \in spoiled'
    BY DEF Writing, Unfinished, End, CacheTypeOK, Pdb
  <1>4. FilesRight'
    BY <1>3 DEF FilesRight, End, CacheTypeOK, Pdb, Writing
  <1>5. \A q \in Procs, n \in Names : Right(n, slot'[q][n], spoiled')
    BY SymbolsType DEF CacheTypeOK, End, Right, RightPdb, WholeUnlessSpoiled, LoadDir
  <1>6. RightPdb' /\ WholeUnlessSpoiled'
    BY <1>5 DEF RightPdb, WholeUnlessSpoiled, Right
  <1> QED BY <1>1, <1>2, <1>4, <1>6

-----------------------------------------------------------------------------
(* One step *)

\* A file is only touched by the threads that load its PDB, and a thread
\* that neither creates nor writes leaves all the files as they are: what is
\* known of them stays, as long as no writer gives up.
LEMMA FilesKept ==
  ASSUME NEW t \in Threads, LoaderInv, UNCHANGED disk, spoiled \subseteq spoiled',
         at[t] # "write", at'[t] # "write",
         \A u \in Threads : u # t => at'[u] = at[u] /\ piece'[u] = piece[u] /\ asked'[u] = asked[u],
         at'[t] = "read" => disk[Pdb(t)'] # NoFile
  PROVE  FilesRight'
  <1>1. \A i \in Ids : Writing(i)' = Writing(i)
    BY DEF Writing, Pdb
  <1> QED BY <1>1 DEF LoaderInv, FilesRight, Writing, Pdb

\* The caller has no key yet.
LEMMA AskForInv ==
  ASSUME NEW t \in Threads, LoaderInv, AskFor(t)
  PROVE  LoaderInv'
  <1> USE DEF LoaderInv, AskFor, Goto
  <1>1. CacheTypeOK'  BY DEF CacheTypeOK
  <1>2. OneLoader'  BY DEF CacheTypeOK, OneLoader, Key, Pdb
  <1>3. FilesRight'  BY FilesKept DEF CacheTypeOK
  <1>4. RightPdb' /\ WholeUnlessSpoiled'  BY DEF RightPdb, WholeUnlessSpoiled
  <1> QED BY <1>1, <1>2, <1>3, <1>4

\* A thread that takes a key takes a free one, under which nothing is kept.
LEMMA TryInsertInv ==
  ASSUME NEW t \in Threads, LoaderInv, TryInsert(t)
  PROVE  LoaderInv'
  <1> USE DEF LoaderInv
  <1> DEFINE p == ProcOf[t]
             n == Key(t)
  <1>0. at[t] = "insert" /\ asked[t] \in Modules /\ p \in Procs /\ n \in Names
    BY KeyType DEF OneLoader, TryInsert
  <1>1. FilesRight'
    BY <1>0, FilesKept DEF CacheTypeOK, TryInsert, Goto, Return
  <1>2. RightPdb' /\ WholeUnlessSpoiled'  BY DEF RightPdb, WholeUnlessSpoiled, TryInsert
  <1>3. CASE Return(t) /\ UNCHANGED owner
    <2>1. CacheTypeOK'  BY <1>0, <1>3 DEF CacheTypeOK, Return, TryInsert
    <2>2. OneLoader'  BY <1>0, <1>3 DEF CacheTypeOK, OneLoader, Return, TryInsert, Key, Pdb
    <2> QED BY <1>1, <1>2, <2>1, <2>2
  <1>4. CASE /\ slot[p][n] = Absent /\ owner[p][n] = NoThread
             /\ owner' = [owner EXCEPT ![p][n] = t]
             /\ Goto(t, "codeview") /\ UNCHANGED <<asked, piece>>
    <2>1. CacheTypeOK'  BY <1>0, <1>4 DEF CacheTypeOK, Goto, TryInsert
    <2>2. OneLoader'
      <3> SUFFICES ASSUME NEW u \in Threads
                   PROVE  /\ at'[u] # "idle" => asked'[u] \in Modules
                          /\ at'[u] \notin {"idle", "insert"} =>
                               owner'[ProcOf[u]][Key(u)'] = u /\ slot'[ProcOf[u]][Key(u)'] = Absent
                          /\ at'[u] \notin {"idle", "insert", "codeview"} => Pdb(u)' # NoId
        BY DEF OneLoader
      <3>1. CASE u = t  BY <1>0, <1>4, <3>1 DEF CacheTypeOK, Goto, TryInsert, Key
      <3>2. CASE u # t
        BY <1>0, <1>4, <3>2 DEF CacheTypeOK, Goto, TryInsert, Key, Pdb, OneLoader
      <3> QED BY <3>1, <3>2
    <2> QED BY <1>1, <1>2, <2>1, <2>2
  <1> QED BY <1>3, <1>4 DEF TryInsert

\* A module without a record is kept without symbols; an error, of this
\* read or of the one of the file, frees the key.
LEMMA ReadCodeviewInv ==
  ASSUME NEW t \in Threads, LoaderInv, ReadCodeview(t) \/ CodeviewFails(t) \/ ReadFails(t)
  PROVE  LoaderInv'
  <1> USE DEF LoaderInv
  <1>1. CASE ReadCodeview(t) /\ Pdb(t) = NoId
    <2> USE <1>1 DEF ReadCodeview
    <2>1. NoSymbols \in Values /\ Right(Key(t), NoSymbols, spoiled')
      BY DEF Values, Right
    <2>2. CacheTypeOK' /\ OneLoader' /\ RightPdb' /\ WholeUnlessSpoiled'
      BY <2>1, KeepLoader DEF CacheTypeOK
    <2>3. FilesRight'  BY FilesKept DEF CacheTypeOK, Keep, Return
    <2> QED BY <2>2, <2>3
  <1>2. CASE ReadCodeview(t) /\ Pdb(t) # NoId
    <2> USE <1>2 DEF ReadCodeview, Goto
    <2>1. CacheTypeOK'  BY DEF CacheTypeOK
    <2>2. OneLoader'  BY WithinLoader DEF Within, CacheTypeOK
    <2>3. FilesRight'  BY FilesKept DEF CacheTypeOK
    <2>4. RightPdb' /\ WholeUnlessSpoiled'  BY DEF RightPdb, WholeUnlessSpoiled
    <2> QED BY <2>1, <2>2, <2>3, <2>4
  <1>3. CASE CodeviewFails(t) \/ ReadFails(t)
    <2> USE <1>3 DEF CodeviewFails, ReadFails
    <2>0. nfaults' \in 0..MaxFaults /\ spoiled' = spoiled /\ spoiled \subseteq Ids
      BY DEF CacheTypeOK
    <2>1. CacheTypeOK' /\ OneLoader' /\ RightPdb' /\ WholeUnlessSpoiled'
      BY <2>0, FailLoader
    <2>2. FilesRight'  BY FilesKept DEF CacheTypeOK, Fail, Return
    <2> QED BY <2>1, <2>2
  <1> QED BY <1>1, <1>2, <1>3

\* A file that was there stays there.
LEMMA ExistsInv ==
  ASSUME NEW t \in Threads, LoaderInv, Exists(t)
  PROVE  LoaderInv'
  <1> USE DEF LoaderInv, Exists, Goto, Path
  <1>1. CacheTypeOK'  BY DEF CacheTypeOK
  <1>2. OneLoader'  BY WithinLoader DEF Within, CacheTypeOK, OneLoader
  <1>3. FilesRight'  BY FilesKept DEF CacheTypeOK, Pdb
  <1>4. RightPdb' /\ WholeUnlessSpoiled'  BY DEF RightPdb, WholeUnlessSpoiled
  <1> QED BY <1>1, <1>2, <1>3, <1>4

\* What is read is of the right PDB, and whole unless the file is marked.
LEMMA ReadFileInv ==
  ASSUME NEW t \in Threads, LoaderInv, ReadFile(t)
  PROVE  LoaderInv'
  <1> USE DEF LoaderInv, Path
  <1> DEFINE file == disk[Pdb(t)]
             early == IF Writing(Pdb(t)) = {} THEN {} ELSE {Pdb(t)}
  <1>0. /\ at[t] = "read" /\ asked[t] \in Modules
        /\ Pdb(t) \in Ids /\ ProcOf[t] \in Procs /\ Key(t) \in Names
    BY KeyType DEF ReadFile, OneLoader
  <1>1. file \in [of : Ids, pieces : SUBSET Pieces] /\ file.of = Pdb(t)
    BY <1>0 DEF CacheTypeOK, FilesRight
  <1>2. file.pieces = Pieces \/ Pdb(t) \in spoiled \union early
    BY <1>0 DEF FilesRight
  <1>3. PICK r \in ReadBytes(file.pieces) :
          \/ /\ r = Panicked /\ End(ProcOf[t]) /\ UNCHANGED ncrashes
             /\ spoiled' = spoiled \union early \union Unfinished(ProcOf[t])
          \/ /\ r \in {Panicked, Failed} /\ Fail(t) /\ UNCHANGED nfaults
             /\ spoiled' = spoiled \union early
          \/ /\ r \notin {Panicked, Failed}
             /\ Keep(t, Symbols(file.of, r)) /\ UNCHANGED <<disk, nfaults>>
             /\ spoiled' = spoiled \union early
    BY DEF ReadFile
  <1>4. early \subseteq Ids /\ Unfinished(ProcOf[t]) \subseteq Ids /\ spoiled \subseteq Ids
    BY <1>0 DEF Unfinished, CacheTypeOK
  <1> HIDE DEF file, early
  <1>5. CASE /\ r = Panicked /\ End(ProcOf[t]) /\ UNCHANGED ncrashes
             /\ spoiled' = spoiled \union early \union Unfinished(ProcOf[t])
    <2>1. UNCHANGED ncrashes /\ spoiled' = spoiled \union early \union Unfinished(ProcOf[t])
      BY <1>5
    <2>2. ncrashes' \in 0..MaxCrashes  BY <2>1 DEF CacheTypeOK
    <2>3. spoiled \union Unfinished(ProcOf[t]) \subseteq spoiled' /\ spoiled' \subseteq Ids
      BY <1>4, <2>1
    <2> HIDE DEF LoaderInv
    <2> QED BY <1>0, <1>5, <2>2, <2>3, EndLoader
  <1>6. CASE r \in {Panicked, Failed} /\ Fail(t) /\ UNCHANGED nfaults /\ spoiled' = spoiled \union early
    <2>0. nfaults' \in 0..MaxFaults /\ spoiled' = spoiled \union early
      BY <1>6 DEF CacheTypeOK
    <2>1. CacheTypeOK' /\ OneLoader' /\ RightPdb' /\ WholeUnlessSpoiled'
      BY <1>0, <1>4, <1>6, <2>0, FailLoader
    <2>2. FilesRight'
      BY <1>0, <1>6, FilesKept DEF CacheTypeOK, Fail, Return
    <2> QED BY <2>1, <2>2
  <1>7. CASE r \notin {Panicked, Failed} /\ Keep(t, Symbols(file.of, r))
    <2>1. r \in SUBSET Pieces /\ (file.pieces = Pieces => r = Pieces)
      BY <1>1, <1>7, ReadBytesType
    <2> DEFINE v == Symbols(file.of, r)
    <2>2. v \in Values /\ v.of = Pdb(t) /\ v.pieces = r
      BY <1>0, <1>1, <2>1, SymbolsType
    <2>3. Right(Key(t), v, spoiled')
      BY <1>0, <1>2, <1>3, <1>7, <2>1, <2>2 DEF Right, Key, Pdb
    <2> HIDE DEF v
    <2>4. CacheTypeOK' /\ OneLoader' /\ RightPdb' /\ WholeUnlessSpoiled'
      BY <1>0, <1>3, <1>4, <1>7, <2>2, <2>3, KeepLoader DEF CacheTypeOK, v
    <2>5. FilesRight'
      BY <1>0, <1>3, <1>7, FilesKept DEF CacheTypeOK, Keep, Return
    <2> QED BY <2>4, <2>5
  <1> QED BY <1>3, <1>5, <1>6, <1>7

\* The next step is to save what was downloaded; a failure is kept as no symbols.
LEMMA DownloadInv ==
  ASSUME NEW t \in Threads, LoaderInv, Download(t)
  PROVE  LoaderInv'
  <1> USE DEF LoaderInv
  <1>0. at[t] = "download" /\ asked[t] \in Modules /\ Pdb(t) # NoId
    BY DEF Download, OneLoader
  <1>1. CASE Goto(t, "create") /\ UNCHANGED <<slot, owner, asked, piece, boots, nasks, ncrashes, nfaults>>
    <2> USE <1>0, <1>1 DEF Download, Goto
    <2>1. CacheTypeOK'  BY DEF CacheTypeOK
    <2>2. OneLoader'  BY WithinLoader DEF Within, CacheTypeOK
    <2>3. FilesRight'  BY FilesKept DEF CacheTypeOK
    <2>4. RightPdb' /\ WholeUnlessSpoiled'  BY DEF RightPdb, WholeUnlessSpoiled
    <2> QED BY <2>1, <2>2, <2>3, <2>4
  <1>2. CASE nfaults < MaxFaults /\ nfaults' = nfaults + 1 /\ Keep(t, NoSymbols)
    <2> USE <1>0, <1>2 DEF Download
    <2>1. NoSymbols \in Values /\ Right(Key(t), NoSymbols, spoiled')
      BY DEF Values, Right
    <2>0. /\ nfaults' \in 0..MaxFaults /\ spoiled' = spoiled /\ spoiled \subseteq Ids
          /\ disk' \in [Ids -> [of : Ids, pieces : SUBSET Pieces] \union {NoFile}]
      BY DEF CacheTypeOK
    <2>2. CacheTypeOK' /\ OneLoader' /\ RightPdb' /\ WholeUnlessSpoiled'
      BY <2>0, <2>1, KeepLoader
    <2>3. FilesRight'  BY FilesKept DEF CacheTypeOK, Keep, Return
    <2> QED BY <2>2, <2>3
  <1> QED BY <1>1, <1>2 DEF Download

\* The file is empty, and the thread has written nothing of it yet.
LEMMA CreateInv ==
  ASSUME NEW t \in Threads, LoaderInv, Create(t)
  PROVE  LoaderInv'
  <1> USE DEF LoaderInv, Path
  <1>0. at[t] = "create" /\ asked[t] \in Modules /\ Pdb(t) \in Ids /\ Pdb(t) # NoId
    BY KeyType DEF Create, OneLoader
  <1>1. CASE /\ disk' = [disk EXCEPT ![Pdb(t)] = Symbols(Pdb(t), {})]
             /\ piece' = [piece EXCEPT ![t] = 0]
             /\ Goto(t, "write") /\ UNCHANGED nfaults
    <2> USE <1>0, <1>1 DEF Create, Goto
    <2>0. /\ Symbols(Pdb(t), {}) \in [of : Ids, pieces : SUBSET Pieces]
          /\ Symbols(Pdb(t), {}).of = Pdb(t) /\ Symbols(Pdb(t), {}) # NoFile
      BY SymbolsType
    <2>1. CacheTypeOK'  BY <2>0 DEF CacheTypeOK
    <2>w. Within(t) /\ at'[t] \notin {"idle", "insert", "codeview"}
      BY DEF Within, CacheTypeOK
    <2>2. OneLoader'  BY <2>w, WithinLoader
    <2>3. FilesRight'
      <3>1. 1..piece'[t] = {} /\ \A i \in Ids : i = Pdb(t) => t \in Writing(i)'
        BY DEF Writing, Pdb, CacheTypeOK
      <3>2. \A i \in Ids : Writing(i) \subseteq Writing(i)' /\ \A u \in Writing(i) : piece'[u] = piece[u]
        BY DEF Writing, Pdb, CacheTypeOK
      <3>3. \A i \in Ids : disk'[i] # NoFile =>
              /\ disk'[i].of = i
              /\ \/ disk'[i].pieces = Pieces \/ i \in spoiled'
                 \/ \E u \in Writing(i)' : 1..piece'[u] \subseteq disk'[i].pieces
        <4> SUFFICES ASSUME NEW i \in Ids, disk'[i] # NoFile
                     PROVE  /\ disk'[i].of = i
                            /\ \/ disk'[i].pieces = Pieces \/ i \in spoiled'
                               \/ \E u \in Writing(i)' : 1..piece'[u] \subseteq disk'[i].pieces
          OBVIOUS
        <4>1. CASE i = Pdb(t)
          <5>1. disk'[i] = Symbols(Pdb(t), {})  BY <4>1 DEF CacheTypeOK
          <5> QED BY <2>0, <3>1, <4>1, <5>1
        <4>2. CASE i # Pdb(t)
          <5>1. disk'[i] = disk[i]  BY <4>2 DEF CacheTypeOK
          <5> QED BY <3>2, <5>1 DEF FilesRight
        <4> QED BY <4>1, <4>2
      <3>4. \A u \in Threads : at'[u] \in {"read", "write"} => Pdb(u)' \in Ids /\ disk'[Pdb(u)'] # NoFile
        <4> SUFFICES ASSUME NEW u \in Threads, at'[u] \in {"read", "write"}
                     PROVE  Pdb(u)' \in Ids /\ disk'[Pdb(u)'] # NoFile
          OBVIOUS
        <4>1. CASE u = t  BY <2>0, <4>1 DEF CacheTypeOK, Pdb
        <4>2. CASE u # t
          <5>1. at[u] \in {"read", "write"} /\ Pdb(u)' = Pdb(u)  BY <4>2 DEF CacheTypeOK, Pdb
          <5>2. Pdb(u) \in Ids /\ disk[Pdb(u)] # NoFile
            BY <5>1, KeyType DEF OneLoader, FilesRight
          <5> QED BY <2>0, <5>1, <5>2 DEF CacheTypeOK
        <4> QED BY <4>1, <4>2
      <3>5. \A u \in Threads : at'[u] = "write" => piece'[u] < NPieces
        BY DEF CacheTypeOK, FilesRight
      <3> QED BY <3>3, <3>4, <3>5 DEF FilesRight
    <2>4. RightPdb' /\ WholeUnlessSpoiled'  BY DEF RightPdb, WholeUnlessSpoiled
    <2> QED BY <2>1, <2>2, <2>3, <2>4
  <1>2. CASE /\ nfaults < MaxFaults /\ nfaults' = nfaults + 1
             /\ Goto(t, "parse") /\ UNCHANGED <<disk, piece>>
    <2> USE <1>0, <1>2 DEF Create, Goto
    <2>1. CacheTypeOK'  BY DEF CacheTypeOK
    <2>w. Within(t) /\ at'[t] \notin {"idle", "insert", "codeview"}
      BY DEF Within, CacheTypeOK
    <2>2. OneLoader'  BY <2>w, WithinLoader
    <2>3. FilesRight'  BY FilesKept DEF CacheTypeOK
    <2>4. RightPdb' /\ WholeUnlessSpoiled'  BY DEF RightPdb, WholeUnlessSpoiled
    <2> QED BY <2>1, <2>2, <2>3, <2>4
  <1> QED BY <1>1, <1>2 DEF Create

\* A writer goes on: its pieces are in the file, and those of the last one
\* make it whole.  One that gives up leaves it marked.
LEMMA WriteInv ==
  ASSUME NEW t \in Threads, LoaderInv, Write(t)
  PROVE  LoaderInv'
  <1> USE DEF LoaderInv, Path
  <1> DEFINE i == Pdb(t)
  <1>0. /\ at[t] = "write" /\ asked[t] \in Modules /\ i \in Ids /\ Pdb(t) # NoId
        /\ UNCHANGED <<slot, owner, asked, boots, nasks, ncrashes>>
    BY KeyType DEF Write, OneLoader
  <1>1. /\ disk[i] \in [of : Ids, pieces : SUBSET Pieces] /\ disk[i] # NoFile /\ disk[i].of = i
        /\ piece[t] \in Nat /\ piece[t] < NPieces
    BY <1>0 DEF CacheTypeOK, FilesRight
  <1>2. \A u \in Threads : Pdb(u)' = Pdb(u)
    BY <1>0 DEF Pdb
  <1>3. CASE /\ piece' = [piece EXCEPT ![t] = @ + 1]
             /\ disk' = [disk EXCEPT ![i].pieces = @ \union {piece'[t]}]
             /\ Goto(t, IF piece'[t] = NPieces THEN "parse" ELSE "write")
             /\ UNCHANGED <<nfaults, spoiled>>
    <2> DEFINE k == piece[t] + 1
    <2>k. k \in Pieces /\ 1..k = 1..piece[t] \union {k}
      BY <1>1 DEF Pieces
    <2>p. piece'[t] = k
      BY <1>3 DEF CacheTypeOK
    <2>0. /\ piece'[t] = k /\ k \in Pieces /\ 1..k = 1..piece[t] \union {k}
          /\ \A u \in Threads : u # t => piece'[u] = piece[u] /\ at'[u] = at[u]
          /\ at'[t] = IF k = NPieces THEN "parse" ELSE "write"
      BY <1>3, <2>k, <2>p DEF CacheTypeOK, Goto
    <2>1. /\ disk'[i] \in [of : Ids, pieces : SUBSET Pieces]
          /\ disk'[i].of = i /\ disk'[i].pieces = disk[i].pieces \union {k}
          /\ \A j \in Ids : j # i => disk'[j] = disk[j]
      BY <1>0, <1>1, <1>3, <2>0 DEF CacheTypeOK
    <2>2. disk'[i] # NoFile
      <3>1. disk'[i] = Symbols(disk'[i].of, disk'[i].pieces)
        BY <2>1 DEF Symbols
      <3> QED BY <2>1, <3>1, SymbolsType
    <2>3. CacheTypeOK'
      <3>1. disk' \in [Ids -> [of : Ids, pieces : SUBSET Pieces] \union {NoFile}]
        BY <1>0, <1>3, <2>1 DEF CacheTypeOK
      <3>2. piece' \in [Threads -> 0..NPieces]
        BY <1>3, <2>0 DEF CacheTypeOK, Pieces
      <3>3. at' \in [Threads -> {"idle", "insert", "codeview", "exists", "read", "download", "create", "write", "parse"}]
        BY <1>3 DEF CacheTypeOK, Goto
      <3> QED BY <1>0, <1>3, <3>1, <3>2, <3>3 DEF CacheTypeOK
    <2>4. OneLoader'
      <3>1. Within(t) /\ at'[t] \notin {"idle", "insert", "codeview"}
        BY <1>0, <2>0 DEF Within
      <3> QED BY <1>0, <3>1, WithinLoader
    <2>5. RightPdb' /\ WholeUnlessSpoiled'  BY <1>0, <1>3 DEF RightPdb, WholeUnlessSpoiled
    <2>6. \A u \in Threads : at'[u] \in {"read", "write"} => disk'[Pdb(u)'] # NoFile
      <3> SUFFICES ASSUME NEW u \in Threads, at'[u] \in {"read", "write"}
                   PROVE  disk'[Pdb(u)] # NoFile
        BY <1>2
      <3>1. at[u] \in {"read", "write"}  BY <1>0, <2>0
      <3>2. Pdb(u) \in Ids /\ disk[Pdb(u)] # NoFile
        BY <3>1, KeyType DEF OneLoader, FilesRight
      <3> QED BY <2>1, <2>2, <3>2
    <2>7. \A u \in Threads : at'[u] = "write" => piece'[u] < NPieces
      BY <1>0, <1>1, <2>0 DEF FilesRight
    <2>8. ASSUME NEW j \in Ids, disk'[j] # NoFile
          PROVE  /\ disk'[j].of = j
                 /\ \/ disk'[j].pieces = Pieces \/ j \in spoiled'
                    \/ \E u \in Writing(j)' : 1..piece'[u] \subseteq disk'[j].pieces
      <3>1. CASE j # i
        <4>1. disk'[j] = disk[j]  BY <2>1, <3>1
        <4>2. Writing(j) \subseteq Writing(j)' /\ \A u \in Writing(j) : piece'[u] = piece[u]
          BY <1>0, <1>2, <2>0, <3>1 DEF Writing
        <4> QED BY <1>3, <2>8, <4>1, <4>2 DEF FilesRight
      <3>2. CASE j = i
        <4>1. disk[i].pieces = Pieces => disk'[i].pieces = Pieces
          BY <2>0, <2>1
        <4>2. \A u \in Writing(j) : 1..piece[u] \subseteq disk[i].pieces =>
                \/ disk'[i].pieces = Pieces
                \/ u \in Writing(j)' /\ 1..piece'[u] \subseteq disk'[i].pieces
          <5> SUFFICES ASSUME NEW u \in Writing(j), 1..piece[u] \subseteq disk[i].pieces
                       PROVE  \/ disk'[i].pieces = Pieces
                              \/ u \in Writing(j)' /\ 1..piece'[u] \subseteq disk'[i].pieces
            OBVIOUS
          <5>1. CASE u # t
            BY <1>2, <2>0, <2>1, <5>1 DEF Writing
          <5>2. CASE u = t
            <6>1. 1..k \subseteq disk'[i].pieces
              BY <2>0, <2>1, <5>2
            <6>2. CASE k = NPieces
              BY <2>1, <6>1, <6>2 DEF Pieces
            <6>3. CASE k # NPieces
              BY <1>2, <2>0, <3>2, <5>2, <6>1, <6>3 DEF Writing
            <6> QED BY <6>2, <6>3
          <5> QED BY <5>1, <5>2
        <4>3. \/ disk[i].pieces = Pieces \/ i \in spoiled
              \/ \E u \in Writing(j) : 1..piece[u] \subseteq disk[i].pieces
          BY <1>0, <1>1, <3>2 DEF FilesRight
        <4>4. disk'[j] = disk'[i]  BY <3>2
        <4> QED BY <1>3, <2>1, <3>2, <4>1, <4>2, <4>3, <4>4
      <3> QED BY <3>1, <3>2
    <2> HIDE DEF i
    <2>9. FilesRight'  BY <2>6, <2>7, <2>8 DEF FilesRight
    <2> QED BY <2>3, <2>4, <2>5, <2>9
  <1>4. CASE /\ nfaults < MaxFaults /\ nfaults' = nfaults + 1
             /\ Goto(t, "parse") /\ spoiled' = spoiled \union {i}
             /\ UNCHANGED <<disk, piece>>
    <2>1. CacheTypeOK'  BY <1>0, <1>4 DEF CacheTypeOK, Goto
    <2>2. OneLoader'
      <3>1. Within(t) /\ at'[t] \notin {"idle", "insert", "codeview"}
        BY <1>0, <1>4 DEF Within, CacheTypeOK, Goto
      <3> QED BY <1>0, <3>1, WithinLoader
    <2>3. RightPdb' /\ WholeUnlessSpoiled'  BY <1>0, <1>4 DEF RightPdb, WholeUnlessSpoiled
    <2>4. \A j \in Ids : j # i => Writing(j)' = Writing(j)
      BY <1>0, <1>2, <1>4 DEF Writing, Goto, CacheTypeOK
    <2>5. FilesRight'
      BY <1>2, <1>4, <2>4 DEF FilesRight, Goto, CacheTypeOK
    <2> QED BY <2>1, <2>2, <2>3, <2>5
  <1> QED BY <1>3, <1>4 DEF Write

\* What was downloaded is whole, and of the module that was asked for; or
\* it cannot be read, and nothing is kept of it.
LEMMA ParseDownloadInv ==
  ASSUME NEW t \in Threads, LoaderInv, ParseDownload(t)
  PROVE  LoaderInv'
  <1> USE DEF LoaderInv
  <1>p. PICK v \in {Symbols(Pdb(t), Pieces), NoSymbols} :
          Keep(t, v) /\ nfaults' \in 0..MaxFaults
    BY DEF ParseDownload, CacheTypeOK
  <1>0. /\ at[t] = "parse" /\ asked[t] \in Modules /\ Pdb(t) \in Ids
        /\ Keep(t, v) /\ UNCHANGED <<disk, spoiled>>
    BY <1>p, KeyType DEF ParseDownload, OneLoader
  <1>1. v \in Values /\ (v # NoSymbols => v.of = Pdb(t) /\ v.pieces = Pieces)
    BY <1>0, <1>p, SymbolsType DEF Values
  <1>2. Right(Key(t), v, spoiled')
    BY <1>0, <1>1 DEF Right, Key, Pdb
  <1>3. /\ nfaults' \in 0..MaxFaults /\ spoiled' = spoiled /\ spoiled \subseteq Ids
        /\ disk' \in [Ids -> [of : Ids, pieces : SUBSET Pieces] \union {NoFile}]
    BY <1>0, <1>p DEF CacheTypeOK
  <1>4. CacheTypeOK' /\ OneLoader' /\ RightPdb' /\ WholeUnlessSpoiled'
    BY <1>0, <1>1, <1>2, <1>3, KeepLoader
  <1>5. FilesRight'
    BY <1>0, FilesKept DEF CacheTypeOK, Keep, Return
  <1> QED BY <1>4, <1>5

\* A kill marks what the process was writing.
LEMMA KillInv ==
  ASSUME NEW p \in Procs, LoaderInv, Kill(p)
  PROVE  LoaderInv'
  <1>1. /\ End(p) /\ ncrashes' \in 0..MaxCrashes
        /\ spoiled \union Unfinished(p) \subseteq spoiled' /\ spoiled' \subseteq Ids
    BY DEF Kill, LoaderInv, CacheTypeOK, Unfinished
  <1> QED BY <1>1, EndLoader

-----------------------------------------------------------------------------
(* Theorems *)

\* No step of the loader, and none of the operating system, breaks LoaderInv.
THEOREM LoaderInductive == LoaderInv /\ [CacheNext]_cacheVars => LoaderInv'
  <1> SUFFICES ASSUME LoaderInv, [CacheNext]_cacheVars PROVE LoaderInv'
    OBVIOUS
  <1>1. ASSUME NEW t \in Threads, AskFor(t) \/ Thread(t) PROVE LoaderInv'
    BY <1>1, AskForInv, TryInsertInv, ReadCodeviewInv, ExistsInv, ReadFileInv, DownloadInv, CreateInv,
       WriteInv, ParseDownloadInv DEF Thread
  <1>2. ASSUME NEW p \in Procs, Kill(p) PROVE LoaderInv'
    BY <1>2, KillInv
  <1>3. CASE UNCHANGED cacheVars
    BY <1>3 DEF cacheVars, LoaderInv, CacheTypeOK, OneLoader, FilesRight, RightPdb, WholeUnlessSpoiled,
       Writing, Pdb, Key
  <1> QED BY <1>1, <1>2, <1>3 DEF CacheNext

\* The invariant holds in every state of every run of the loaders.
THEOREM LoaderInvariant == CacheSpec => []LoaderInv
  BY InitInv, LoaderInductive, PTL DEF CacheSpec

\* The variables of the cache have their types.
THEOREM CacheTypes == CacheSpec => []CacheTypeOK
  <1>1. LoaderInv => CacheTypeOK  BY DEF LoaderInv
  <1> QED BY <1>1, LoaderInvariant, PTL

\* What is kept under a name is of a module of that name, or of the user,
\* whichever processes share the directory and whenever they are killed.
THEOREM RightPdbAlways == CacheSpec => []RightPdb
  <1>1. LoaderInv => RightPdb  BY DEF LoaderInv
  <1> QED BY <1>1, LoaderInvariant, PTL

\* Only a file that some process left unfinished, or was still writing,
\* gives a part of a PDB.
THEOREM WholeUnlessSpoiledAlways == CacheSpec => []WholeUnlessSpoiled
  <1>1. LoaderInv => WholeUnlessSpoiled  BY DEF LoaderInv
  <1> QED BY <1>1, LoaderInvariant, PTL

\* A thread only keeps symbols where it has the key and nothing is there, so
\* nothing that is kept is replaced until its process ends.
THEOREM KeptForEverAlways == CacheSpec => KeptForEver
  <1> DEFINE A == \A p \in Procs, n \in Names :
                    slot[p][n] # Absent => slot'[p][n] = slot[p][n] \/ boots'[p] # boots[p]
  <1>1. ASSUME LoaderInv, [CacheNext]_cacheVars PROVE [A]_cacheVars
    <2> USE <1>1
    <2> SUFFICES ASSUME NEW p \in Procs, NEW n \in Names, slot[p][n] # Absent
                 PROVE  slot'[p][n] = slot[p][n] \/ boots'[p] # boots[p]
      OBVIOUS
    <2>1. ASSUME NEW t \in Threads, NEW v, Keep(t, v), at[t] \notin {"idle", "insert"}
          PROVE  slot'[p][n] = slot[p][n]
      <3>1. slot[ProcOf[t]][Key(t)] = Absent  BY <2>1 DEF LoaderInv, OneLoader
      <3>2. ProcOf[t] \in Procs /\ Key(t) \in Names  BY <2>1, KeyType DEF LoaderInv, OneLoader
      <3>3. slot' = [slot EXCEPT ![ProcOf[t]][Key(t)] = v]  BY <2>1 DEF Keep
      <3>4. slot \in [Procs -> [Names -> Values \union {Absent}]]  BY DEF LoaderInv, CacheTypeOK
      <3> QED BY <3>1, <3>2, <3>3, <3>4
    <2>2. ASSUME NEW q \in Procs, End(q)
          PROVE  slot'[p][n] = slot[p][n] \/ boots'[p] # boots[p]
      <3>1. CASE p = q
        <4>1. boots[p] \in Nat /\ boots'[p] = boots[p] + 1
          BY <2>2, <3>1 DEF End, LoaderInv, CacheTypeOK
        <4> QED BY <4>1
      <3>2. CASE p # q
        BY <2>2, <3>2 DEF End, LoaderInv, CacheTypeOK
      <3> QED BY <3>1, <3>2
    <2>3. ASSUME NEW t \in Threads, ReadFile(t)
          PROVE  slot'[p][n] = slot[p][n] \/ boots'[p] # boots[p]
      <3>1. at[t] = "read" /\ ProcOf[t] \in Procs  BY <2>3 DEF ReadFile
      <3>2. \/ End(ProcOf[t]) \/ Fail(t) \/ \E v : Keep(t, v)
        BY <2>3 DEF ReadFile
      <3> QED BY <2>1, <2>2, <3>1, <3>2 DEF Fail
    <2>4. ASSUME NEW t \in Threads, AskFor(t) \/ Thread(t)
          PROVE  slot'[p][n] = slot[p][n] \/ boots'[p] # boots[p]
      <3>1. CASE \/ AskFor(t) \/ TryInsert(t) \/ CodeviewFails(t) \/ ReadFails(t)
                 \/ Exists(t) \/ Create(t) \/ Write(t)
        BY <3>1 DEF AskFor, TryInsert, CodeviewFails, ReadFails, Fail, Exists, Create, Write
      <3>2. CASE ReadCodeview(t) \/ Download(t) \/ ParseDownload(t)
        <4>1. at[t] \notin {"idle", "insert"} /\ (UNCHANGED slot \/ \E v : Keep(t, v))
          BY <3>2 DEF ReadCodeview, Download, ParseDownload
        <4> QED BY <2>1, <4>1
      <3> QED BY <2>3, <2>4, <3>1, <3>2 DEF Thread
    <2>5. CASE UNCHANGED cacheVars  BY <2>5 DEF cacheVars
    <2> QED BY <1>1, <2>2, <2>4, <2>5 DEF CacheNext, Kill
  <1> QED BY <1>1, LoaderInvariant, PTL DEF CacheSpec, KeptForEver

=============================================================================
