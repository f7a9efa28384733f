-------------------------- MODULE WindowsVadProofs --------------------------
(***************************************************************************)
(* Proofs about WindowsVad for any areas, any width of the low part of a   *)
(* page number, and any number of changes of the tree.                     *)
(***************************************************************************)
EXTENDS WindowsVad, TLAPS

USE DEF Null

-----------------------------------------------------------------------------
(* Page numbers in two parts *)

\* A multiple of the width does not change the low part.
LEMMA LowOfSum ==
  ASSUME NEW L \in Nat \ {0}, NEW a \in 0 .. L - 1, NEW k \in Nat
  PROVE  (a + L * k) % L = a
  <1> DEFINE s == a + L * k
             q == s \div L
             t == s % L
  <1>1. L * k \in Nat /\ s \in Nat  OBVIOUS
  <1>2. q \in Int /\ t \in 0 .. L - 1 /\ s = L * q + t
    <2> HIDE DEF s
    <2> QED BY <1>1
  <1>3. s = a + L * k  OBVIOUS
  <1> HIDE DEF s, q, t
  <1>4. L * q \in Int /\ L * (q - k) = L * q - L * k /\ L * (k - q) = L * k - L * q  BY <1>2
  <1>5. \A m \in Int : m >= 1 => L * m >= L  OBVIOUS
  <1>6. ~(q - k >= 1)
    <2>1. q - k \in Int  BY <1>2
    <2> QED BY <1>1, <1>2, <1>3, <1>4, <1>5, <2>1
  <1>7. ~(k - q >= 1)
    <2>1. k - q \in Int  BY <1>2
    <2> QED BY <1>1, <1>2, <1>3, <1>4, <1>5, <2>1
  <1>8. q = k  BY <1>2, <1>6, <1>7
  <1>9. t = a  BY <1>1, <1>2, <1>3, <1>8
  <1> QED BY <1>9 DEF s, t

\* The two parts make the number.
LEMMA Parts ==
  ASSUME NEW x \in Nat
  PROVE  Low(x) \in 0 .. LowPart - 1 /\ High(x) \in Nat /\ High(x) + Low(x) = x
         /\ \E k \in Nat : High(x) = LowPart * k
  <1>0. LowPart \in Nat \ {0}  BY VadAssumption
  <1>1. x % LowPart \in 0 .. LowPart - 1 /\ x \div LowPart \in Nat  BY <1>0
  <1>2. x = LowPart * (x \div LowPart) + (x % LowPart)  BY <1>0
  <1>3. (x \div LowPart) * LowPart = LowPart * (x \div LowPart)  BY <1>0
  <1>4. LowPart * (x \div LowPart) \in Nat  BY <1>0, <1>1
  <1> QED BY <1>0, <1>1, <1>2, <1>3, <1>4 DEF Low, High

\* The low part of a number that is put together.
LEMMA LowOfParts ==
  ASSUME NEW a \in 0 .. LowPart - 1, NEW k \in Nat
  PROVE  Low(a + LowPart * k) = a
  BY LowOfSum, VadAssumption DEF Low

\* The fields of an area are page numbers.
LEMMA VadFields ==
  ASSUME NEW n \in DOMAIN Vads
  PROVE  n \in Nat \ {0} /\ Vads[n].first \in Nat /\ Vads[n].last \in Nat
  <1> DEFINE R == [first : Nat, last : Nat]
  <1>1. Vads \in Seq(R)  BY VadAssumption
  <1>2. \A v \in R : v.first \in Nat /\ v.last \in Nat  OBVIOUS
  <1> HIDE DEF R
  <1>3. Vads[n] \in R /\ n \in 1 .. Len(Vads) /\ Len(Vads) \in Nat  BY <1>1
  <1> QED BY <1>2, <1>3

\* vma_start and vma_end give the bounds of the area, in both layouts; the
\* node inside of the process has none.
LEMMA Bounds ==
  ASSUME NEW n \in Nodes, era = "new" => n # 0
  PROVE  /\ n # 0 => VmaStart(n) = Vads[n].first /\ VmaEnd(n) = Vads[n].last + 1
         /\ n = 0 => VmaStart(n) = 0
  <1>1. CASE n = 0
    BY <1>1 DEF VmaStart, StartingVpn
  <1>2. CASE n # 0
    <2> DEFINE f == Vads[n].first
               g == Vads[n].last
    <2>1. n \in DOMAIN Vads /\ f \in Nat /\ g \in Nat
      <3>1. n \in DOMAIN Vads  BY <1>2 DEF Nodes
      <3> QED BY <3>1, VadFields
    <2> HIDE DEF f, g
    <2>2. Low(f) \in 0 .. LowPart - 1 /\ High(f) + Low(f) = f /\ High(f) \in Nat
      BY <2>1, Parts
    <2>3. Low(g) \in 0 .. LowPart - 1 /\ High(g) + Low(g) = g /\ High(g) \in Nat
      BY <2>1, Parts
    <2>4. Low(Low(f) + LowPart * Low(g)) = Low(f)
      <3>1. PICK a \in 0 .. LowPart - 1 : a = Low(f)  BY <2>2
      <3>2. PICK k \in Nat : k = Low(g)  BY <2>3
      <3>3. Low(a + LowPart * k) = a  BY LowOfParts
      <3> QED BY <3>1, <3>2, <3>3
    <2>5. Low(Low(g) + High(f)) = Low(g)
      <3>1. PICK k \in Nat : High(f) = LowPart * k  BY <2>1, Parts
      <3> QED BY <2>3, <3>1, LowOfParts
    <2>6. CASE era = "new"
      <3>1. StartingVpn(n) = Low(f) + LowPart * Low(g) /\ EndingVpn(n) = Low(g) + High(f)
        BY <1>2, <2>6 DEF StartingVpn, EndingVpn, f, g
      <3>2. VmaStart(n) = High(f) + Low(f)
        BY <2>4, <2>6, <3>1 DEF VmaStart, f
      <3>3. VmaEnd(n) = High(g) + Low(g) + 1
        BY <2>5, <2>6, <3>1 DEF VmaEnd, g
      <3> QED BY <1>2, <2>2, <2>3, <3>2, <3>3 DEF f, g
    <2>7. CASE era # "new"
      BY <1>2, <2>7 DEF VmaStart, VmaEnd, StartingVpn, EndingVpn, f, g
    <2> QED BY <2>6, <2>7
  <1> QED BY <1>1, <1>2

-----------------------------------------------------------------------------
(* Trees *)

\* Nodes are numbers, and no node is the null pointer.
LEMMA NodeNumbers == \A n \in DOMAIN Vads : n \in Nat /\ n # 0 /\ n # -1
  BY VadFields

\* n is new, m is its neighbour below (above) in T, and the link that was
\* null there leads to it.
BelowLinked(T, r, s, m, n) ==
  /\ n \in DOMAIN Vads /\ n \notin T /\ m \in T /\ m < n /\ (\A k \in T : k < n => k <= m)
  /\ r[m] = Null /\ s[m] = n /\ \A a \in DOMAIN Vads : a # m => s[a] = r[a]
AboveLinked(T, l, s, m, n) ==
  /\ n \in DOMAIN Vads /\ n \notin T /\ m \in T /\ m > n /\ (\A k \in T : k > n => k >= m)
  /\ l[m] = Null /\ s[m] = n /\ \A a \in DOMAIN Vads : a # m => s[a] = l[a]

\* A leaf to the right of m, its neighbour below.
LEMMA AddRight ==
  ASSUME NEW T \in SUBSET DOMAIN Vads, NEW D \in [T -> SUBSET T], NEW l, NEW r, NEW top, NEW s,
         NEW n, NEW m, Subtrees(T, D, l, r, top), BelowLinked(T, r, s, m, n)
  PROVE  \E E \in [T \union {n} -> SUBSET (T \union {n})] : Subtrees(T \union {n}, E, l, s, top)
  <1> DEFINE U == T \union {n}
  <1>a. /\ n \in DOMAIN Vads /\ n \notin T /\ m \in T /\ m < n /\ (\A k \in T : k < n => k <= m)
        /\ r[m] = -1 /\ s[m] = n /\ \A a \in DOMAIN Vads : a # m => s[a] = r[a]
    BY DEF BelowLinked
  <1> USE <1>a
  <1>0. \A a \in U : a \in Nat /\ a # -1 /\ a \in DOMAIN Vads  BY NodeNumbers
  <1>1. PICK E \in [U -> SUBSET U] :
          /\ E[n] = {n} /\ \A a \in T : n \in E[a] <=> m \in D[a]
          /\ \A a, b \in T : b \in E[a] <=> b \in D[a]
    <2> DEFINE F == [a \in U |-> IF a = n THEN {n} ELSE IF m \in D[a] THEN D[a] \union {n} ELSE D[a]]
    <2>1. F \in [U -> SUBSET U]  OBVIOUS
    <2>2. F[n] = {n} /\ \A a \in T : F[a] = IF m \in D[a] THEN D[a] \union {n} ELSE D[a]  OBVIOUS
    <2>3. n \notin T /\ \A a \in T : D[a] \subseteq T  OBVIOUS
    <2> HIDE DEF F
    <2> QED BY <2>1, <2>2, <2>3
  <1>2. /\ top \in T /\ D[top] = T
        /\ \A a \in T : a \in D[a] /\ {l[a], r[a]} \subseteq T \union {-1}
        /\ \A a, b \in T : (b \in D[a] /\ b < a) <=> (l[a] # -1 /\ b \in D[l[a]])
        /\ \A a, b \in T : (b \in D[a] /\ b > a) <=> (r[a] # -1 /\ b \in D[r[a]])
        /\ \A x, a, b \in T : x \in {l[a], r[a]} /\ x \in {l[b], r[b]} => a = b
        /\ \A a \in T : a = top \/ \E b \in T : a \in {l[b], r[b]}
        /\ \A a \in DOMAIN Vads \ T : l[a] = -1 /\ r[a] = -1
    BY DEF Subtrees
  <1>3. \A a \in T : (a < m => a < n) /\ (a > m => a > n)  BY <1>0
  <1>4. l[n] = -1 /\ s[n] = -1 /\ s[m] = n /\ n # m /\ \A a \in U : a # m => s[a] = r[a]
    <2>1. n \in DOMAIN Vads /\ n \notin T /\ n # m  OBVIOUS
    <2>2. l[n] = -1 /\ r[n] = -1  BY <1>2, <2>1
    <2>3. \A a \in U : a # m => s[a] = r[a]  BY <1>0
    <2> QED BY <2>1, <2>2, <2>3
  <1>5. top \in U /\ E[top] = U
    <2>1. \A b \in U : b \in E[top]  BY <1>1, <1>2
    <2>2. E[top] \subseteq U  BY <1>1, <1>2
    <2> QED BY <1>2, <2>1, <2>2
  <1>6. ASSUME NEW a \in U PROVE a \in E[a] /\ {l[a], s[a]} \subseteq U \union {-1}
    <2>1. CASE a = n  BY <1>1, <1>4, <2>1
    <2>2. CASE a \in T
      <3>1. a \in E[a] /\ l[a] \in U \union {-1} /\ r[a] \in U \union {-1}  BY <1>1, <1>2, <2>2
      <3>2. s[a] \in U \union {-1}  BY <1>4, <3>1
      <3> QED BY <3>1, <3>2
    <2> QED BY <2>1, <2>2
  <1>7. ASSUME NEW a \in U, NEW b \in U PROVE (b \in E[a] /\ b < a) <=> (l[a] # -1 /\ b \in E[l[a]])
    <2>1. CASE a = n  BY <1>0, <1>1, <1>4, <2>1
    <2>2. CASE a \in T /\ b \in T  BY <1>1, <1>2, <2>2
    <2>3. CASE a \in T /\ b = n
      <3>1. (n \in E[a] /\ n < a) <=> (m \in D[a] /\ m < a)  BY <1>0, <1>1, <1>3, <2>3
      <3>2. l[a] # -1 => l[a] \in T  BY <1>2, <2>3
      <3> QED BY <1>1, <1>2, <2>3, <3>1, <3>2
    <2> QED BY <2>1, <2>2, <2>3
  <1>8. ASSUME NEW a \in U, NEW b \in U PROVE (b \in E[a] /\ b > a) <=> (s[a] # -1 /\ b \in E[s[a]])
    <2>1. CASE a = n  BY <1>0, <1>1, <1>4, <2>1
    <2>2. CASE a = m
      <3>1. \A c \in T : ~(c \in D[m] /\ c > m)  BY <1>2
      <3> QED BY <1>0, <1>1, <1>2, <1>4, <2>2, <3>1
    <2>3. CASE a \in T /\ a # m /\ b \in T  BY <1>1, <1>2, <1>4, <2>3
    <2>4. CASE a \in T /\ a # m /\ b = n
      <3>1. (n \in E[a] /\ n > a) <=> (m \in D[a] /\ m > a)  BY <1>0, <1>1, <1>3, <2>4
      <3>2. r[a] # -1 => r[a] \in T  BY <1>2, <2>4
      <3> QED BY <1>1, <1>2, <1>4, <2>4, <3>1, <3>2
    <2> QED BY <2>1, <2>2, <2>3, <2>4
  <1>9. ASSUME NEW x \in U, NEW a \in U, NEW b \in U, x \in {l[a], s[a]}, x \in {l[b], s[b]} PROVE a = b
    <2>1. ASSUME NEW c \in U, n \in {l[c], s[c]} PROVE c = m
      <3>1. CASE c = n  BY <1>0, <1>4, <2>1, <3>1
      <3>2. CASE c \in T
        <4>1. l[c] \in T \union {-1} /\ r[c] \in T \union {-1}  BY <1>2, <3>2
        <4> QED BY <1>0, <1>4, <2>1, <4>1
      <3> QED BY <3>1, <3>2
    <2>2. CASE x = n  BY <1>9, <2>1, <2>2
    <2>3. CASE x # n
      <3>1. a \in T /\ b \in T  BY <1>0, <1>4, <1>9
      <3>2. x \in {l[a], r[a]} /\ x \in {l[b], r[b]} /\ x \in T  BY <1>4, <1>9, <2>3
      <3> QED BY <1>2, <3>1, <3>2
    <2> QED BY <2>2, <2>3
  <1>10. \A a \in U : a = top \/ \E b \in U : a \in {l[b], s[b]}
    <2>1. ASSUME NEW a \in T PROVE a = top \/ \E b \in U : a \in {l[b], s[b]}
      <3>1. CASE a # top
        <4>1. PICK b \in T : a \in {l[b], r[b]}  BY <1>2, <3>1
        <4>2. a \in {l[b], s[b]}  BY <1>0, <1>4, <4>1
        <4> QED BY <4>2
      <3> QED BY <3>1
    <2> QED BY <1>4, <2>1
  <1>11. ASSUME NEW a \in DOMAIN Vads \ U PROVE l[a] = -1 /\ s[a] = -1
    <2>1. a \in DOMAIN Vads \ T /\ a # m  OBVIOUS
    <2> QED BY <1>2, <2>1
  <1>12. Subtrees(U, E, l, s, top)
    BY <1>0, <1>5, <1>6, <1>7, <1>8, <1>9, <1>10, <1>11, SMTT(40) DEF Subtrees
  <1> QED BY <1>12

\* A leaf to the left of m, its neighbour above.
LEMMA AddLeft ==
  ASSUME NEW T \in SUBSET DOMAIN Vads, NEW D \in [T -> SUBSET T], NEW l, NEW r, NEW top, NEW s,
         NEW n, NEW m, Subtrees(T, D, l, r, top), AboveLinked(T, l, s, m, n)
  PROVE  \E E \in [T \union {n} -> SUBSET (T \union {n})] : Subtrees(T \union {n}, E, s, r, top)
  <1> DEFINE U == T \union {n}
  <1>a. /\ n \in DOMAIN Vads /\ n \notin T /\ m \in T /\ m > n /\ (\A k \in T : k > n => k >= m)
        /\ l[m] = -1 /\ s[m] = n /\ \A a \in DOMAIN Vads : a # m => s[a] = l[a]
    BY DEF AboveLinked
  <1> USE <1>a
  <1>0. \A a \in U : a \in Nat /\ a # -1 /\ a \in DOMAIN Vads  BY NodeNumbers
  <1>1. PICK E \in [U -> SUBSET U] :
          /\ E[n] = {n} /\ \A a \in T : n \in E[a] <=> m \in D[a]
          /\ \A a, b \in T : b \in E[a] <=> b \in D[a]
    <2> DEFINE F == [a \in U |-> IF a = n THEN {n} ELSE IF m \in D[a] THEN D[a] \union {n} ELSE D[a]]
    <2>1. F \in [U -> SUBSET U]  OBVIOUS
    <2>2. F[n] = {n} /\ \A a \in T : F[a] = IF m \in D[a] THEN D[a] \union {n} ELSE D[a]  OBVIOUS
    <2>3. n \notin T /\ \A a \in T : D[a] \subseteq T  OBVIOUS
    <2> HIDE DEF F
    <2> QED BY <2>1, <2>2, <2>3
  <1>2. /\ top \in T /\ D[top] = T
        /\ \A a \in T : a \in D[a] /\ {l[a], r[a]} \subseteq T \union {-1}
        /\ \A a, b \in T : (b \in D[a] /\ b > a) <=> (r[a] # -1 /\ b \in D[r[a]])
        /\ \A a, b \in T : (b \in D[a] /\ b < a) <=> (l[a] # -1 /\ b \in D[l[a]])
        /\ \A x, a, b \in T : x \in {l[a], r[a]} /\ x \in {l[b], r[b]} => a = b
        /\ \A a \in T : a = top \/ \E b \in T : a \in {l[b], r[b]}
        /\ \A a \in DOMAIN Vads \ T : r[a] = -1 /\ l[a] = -1
    BY DEF Subtrees
  <1>3. \A a \in T : (a > m => a > n) /\ (a < m => a < n)  BY <1>0
  <1>4. r[n] = -1 /\ s[n] = -1 /\ s[m] = n /\ n # m /\ \A a \in U : a # m => s[a] = l[a]
    <2>1. n \in DOMAIN Vads /\ n \notin T /\ n # m  OBVIOUS
    <2>2. r[n] = -1 /\ l[n] = -1  BY <1>2, <2>1
    <2>3. \A a \in U : a # m => s[a] = l[a]  BY <1>0
    <2> QED BY <2>1, <2>2, <2>3
  <1>5. top \in U /\ E[top] = U
    <2>1. \A b \in U : b \in E[top]  BY <1>1, <1>2
    <2>2. E[top] \subseteq U  BY <1>1, <1>2
    <2> QED BY <1>2, <2>1, <2>2
  <1>6. ASSUME NEW a \in U PROVE a \in E[a] /\ {s[a], r[a]} \subseteq U \union {-1}
    <2>1. CASE a = n  BY <1>1, <1>4, <2>1
    <2>2. CASE a \in T
      <3>1. a \in E[a] /\ r[a] \in U \union {-1} /\ l[a] \in U \union {-1}  BY <1>1, <1>2, <2>2
      <3>2. s[a] \in U \union {-1}  BY <1>4, <3>1
      <3> QED BY <3>1, <3>2
    <2> QED BY <2>1, <2>2
  <1>7. ASSUME NEW a \in U, NEW b \in U PROVE (b \in E[a] /\ b > a) <=> (r[a] # -1 /\ b \in E[r[a]])
    <2>1. CASE a = n  BY <1>0, <1>1, <1>4, <2>1
    <2>2. CASE a \in T /\ b \in T  BY <1>1, <1>2, <2>2
    <2>3. CASE a \in T /\ b = n
      <3>1. (n \in E[a] /\ n > a) <=> (m \in D[a] /\ m > a)  BY <1>0, <1>1, <1>3, <2>3
      <3>2. r[a] # -1 => r[a] \in T  BY <1>2, <2>3
      <3> QED BY <1>1, <1>2, <2>3, <3>1, <3>2
    <2> QED BY <2>1, <2>2, <2>3
  <1>8. ASSUME NEW a \in U, NEW b \in U PROVE (b \in E[a] /\ b < a) <=> (s[a] # -1 /\ b \in E[s[a]])
    <2>1. CASE a = n  BY <1>0, <1>1, <1>4, <2>1
    <2>2. CASE a = m
      <3>1. \A c \in T : ~(c \in D[m] /\ c < m)  BY <1>2
      <3> QED BY <1>0, <1>1, <1>2, <1>4, <2>2, <3>1
    <2>3. CASE a \in T /\ a # m /\ b \in T  BY <1>1, <1>2, <1>4, <2>3
    <2>4. CASE a \in T /\ a # m /\ b = n
      <3>1. (n \in E[a] /\ n < a) <=> (m \in D[a] /\ m < a)  BY <1>0, <1>1, <1>3, <2>4
      <3>2. l[a] # -1 => l[a] \in T  BY <1>2, <2>4
      <3> QED BY <1>1, <1>2, <1>4, <2>4, <3>1, <3>2
    <2> QED BY <2>1, <2>2, <2>3, <2>4
  <1>9. ASSUME NEW x \in U, NEW a \in U, NEW b \in U, x \in {s[a], r[a]}, x \in {s[b], r[b]} PROVE a = b
    <2>1. ASSUME NEW c \in U, n \in {s[c], r[c]} PROVE c = m
      <3>1. CASE c = n  BY <1>0, <1>4, <2>1, <3>1
      <3>2. CASE c \in T
        <4>1. r[c] \in T \union {-1} /\ l[c] \in T \union {-1}  BY <1>2, <3>2
        <4> QED BY <1>0, <1>4, <2>1, <4>1
      <3> QED BY <3>1, <3>2
    <2>2. CASE x = n  BY <1>9, <2>1, <2>2
    <2>3. CASE x # n
      <3>1. a \in T /\ b \in T  BY <1>0, <1>4, <1>9
      <3>2. x \in {l[a], r[a]} /\ x \in {l[b], r[b]} /\ x \in T  BY <1>4, <1>9, <2>3
      <3> QED BY <1>2, <3>1, <3>2
    <2> QED BY <2>2, <2>3
  <1>10. \A a \in U : a = top \/ \E b \in U : a \in {s[b], r[b]}
    <2>1. ASSUME NEW a \in T PROVE a = top \/ \E b \in U : a \in {s[b], r[b]}
      <3>1. CASE a # top
        <4>1. PICK b \in T : a \in {l[b], r[b]}  BY <1>2, <3>1
        <4>2. a \in {s[b], r[b]}  BY <1>0, <1>4, <4>1
        <4> QED BY <4>2
      <3> QED BY <3>1
    <2> QED BY <1>4, <2>1
  <1>11. ASSUME NEW a \in DOMAIN Vads \ U PROVE r[a] = -1 /\ s[a] = -1
    <2>1. a \in DOMAIN Vads \ T /\ a # m  OBVIOUS
    <2> QED BY <1>2, <2>1
  <1>12. Subtrees(U, E, s, r, top)
    BY <1>0, <1>5, <1>6, <1>7, <1>8, <1>9, <1>10, <1>11 DEF Subtrees
  <1> QED BY <1>12

\* A leaf goes.
LEMMA DropLeaf ==
  ASSUME NEW T \in SUBSET DOMAIN Vads, NEW D \in [T -> SUBSET T], NEW l, NEW r, NEW top, NEW l2, NEW r2,
         Subtrees(T, D, l, r, top), NEW n \in T, n # top, l[n] = Null, r[n] = Null,
         \A a \in DOMAIN Vads : l2[a] = IF l[a] = n THEN Null ELSE l[a],
         \A a \in DOMAIN Vads : r2[a] = IF r[a] = n THEN Null ELSE r[a]
  PROVE  \E E \in [T \ {n} -> SUBSET (T \ {n})] : Subtrees(T \ {n}, E, l2, r2, top)
  <1> DEFINE U == T \ {n}
  <1>0. \A a \in T : a \in Nat /\ a # -1 /\ a \in DOMAIN Vads  BY NodeNumbers
  <1>1. PICK E \in [U -> SUBSET U] : \A a, b \in U : b \in E[a] <=> b \in D[a]
    <2> DEFINE F == [a \in U |-> D[a] \ {n}]
    <2>1. F \in [U -> SUBSET U]  OBVIOUS
    <2>2. \A a \in U : F[a] = D[a] \ {n}  OBVIOUS
    <2> HIDE DEF F
    <2> QED BY <2>1, <2>2
  <1>2. /\ top \in T /\ D[top] = T
        /\ \A a \in T : a \in D[a] /\ l[a] \in T \union {-1} /\ r[a] \in T \union {-1}
        /\ \A a, b \in T : (b \in D[a] /\ b < a) <=> (l[a] # -1 /\ b \in D[l[a]])
        /\ \A a, b \in T : (b \in D[a] /\ b > a) <=> (r[a] # -1 /\ b \in D[r[a]])
        /\ \A x, a, b \in T : x \in {l[a], r[a]} /\ x \in {l[b], r[b]} => a = b
        /\ \A a \in T : a = top \/ \E b \in T : a \in {l[b], r[b]}
        /\ \A a \in DOMAIN Vads \ T : l[a] = -1 /\ r[a] = -1
    BY DEF Subtrees
  <1>3. ASSUME NEW b \in U, b \in D[n] PROVE FALSE
    <2>1. ~(b < n) /\ ~(b > n)  BY <1>2, <1>3
    <2>2. b \in Nat /\ n \in Nat /\ b # n  BY <1>0
    <2> QED BY <2>1, <2>2
  <1>4. \A a \in U : /\ l2[a] = IF l[a] = n THEN -1 ELSE l[a]
                     /\ r2[a] = IF r[a] = n THEN -1 ELSE r[a]
    BY <1>0
  <1>5. top \in U /\ E[top] = U
    <2>1. top \in U  BY <1>2
    <2>2. \A b \in U : b \in E[top]  BY <1>1, <1>2, <2>1
    <2>3. E[top] \subseteq U  BY <1>1, <2>1
    <2> QED BY <2>1, <2>2, <2>3
  <1>6. ASSUME NEW a \in U PROVE a \in E[a] /\ {l2[a], r2[a]} \subseteq U \union {-1}
    <2>1. l2[a] \in U \union {-1} /\ r2[a] \in U \union {-1}  BY <1>2, <1>4
    <2>2. a \in E[a]  BY <1>1, <1>2
    <2> QED BY <2>1, <2>2
  <1>7. ASSUME NEW a \in U, NEW b \in U
        PROVE  /\ (b \in E[a] /\ b < a) <=> (l2[a] # -1 /\ b \in E[l2[a]])
               /\ (b \in E[a] /\ b > a) <=> (r2[a] # -1 /\ b \in E[r2[a]])
    <2>1. (b \in E[a] /\ b < a) <=> (l2[a] # -1 /\ b \in E[l2[a]])
      <3>1. CASE l[a] = n  BY <1>0, <1>1, <1>2, <1>3, <1>4, <3>1
      <3>2. CASE l[a] # n  BY <1>1, <1>2, <1>4, <1>6, <3>2
      <3> QED BY <3>1, <3>2
    <2>2. (b \in E[a] /\ b > a) <=> (r2[a] # -1 /\ b \in E[r2[a]])
      <3>1. CASE r[a] = n  BY <1>0, <1>1, <1>2, <1>3, <1>4, <3>1
      <3>2. CASE r[a] # n  BY <1>1, <1>2, <1>4, <1>6, <3>2
      <3> QED BY <3>1, <3>2
    <2> QED BY <2>1, <2>2
  <1>8. ASSUME NEW x \in U, NEW a \in U, NEW b \in U, x \in {l2[a], r2[a]}, x \in {l2[b], r2[b]} PROVE a = b
    <2>1. x \in {l[a], r[a]} /\ x \in {l[b], r[b]}  BY <1>0, <1>4, <1>8
    <2> QED BY <1>2, <2>1
  <1>9. ASSUME NEW a \in U, a # top PROVE \E b \in U : a \in {l2[b], r2[b]}
    <2>1. PICK b \in T : a \in {l[b], r[b]}  BY <1>2, <1>9
    <2>2. b # n  BY <1>0, <2>1
    <2>3. a \in {l2[b], r2[b]}  BY <1>4, <2>1, <2>2
    <2> QED BY <2>2, <2>3
  <1>10. ASSUME NEW a \in DOMAIN Vads \ U PROVE l2[a] = -1 /\ r2[a] = -1
    <2>1. l[a] = -1 /\ r[a] = -1
      <3>1. CASE a = n  BY <3>1
      <3>2. CASE a # n  BY <1>2, <3>2
      <3> QED BY <3>1, <3>2
    <2>2. n # -1  BY <1>0
    <2> QED BY <2>1, <2>2
  <1>11. Subtrees(U, E, l2, r2, top)
    <2>1. \A a \in U : a \in E[a] /\ {l2[a], r2[a]} \subseteq U \union {-1}  BY <1>6
    <2>2. top # -1  BY <1>0, <1>5
    <2> QED BY <1>5, <1>7, <1>8, <1>9, <1>10, <2>1, <2>2 DEF Subtrees
  <1> QED BY <1>11

\* What a rotation to the right at p does to the links.
Turned(p, x, l, r, top, l2, r2, top2) ==
  /\ l[p] = x
  /\ l2[p] = r[x] /\ \A a \in DOMAIN Vads : a # p => l2[a] = IF l[a] = p THEN x ELSE l[a]
  /\ r2[x] = p /\ \A a \in DOMAIN Vads : a # x => r2[a] = IF r[a] = p THEN x ELSE r[a]
  /\ top2 = IF top = p THEN x ELSE top

\* The left child of p takes its place.
LEMMA TurnRight ==
  ASSUME NEW T \in SUBSET DOMAIN Vads, NEW D \in [T -> SUBSET T], NEW l, NEW r, NEW top, NEW l2, NEW r2, NEW top2,
         Subtrees(T, D, l, r, top), NEW p \in T, NEW x \in T, Turned(p, x, l, r, top, l2, r2, top2)
  PROVE  \E E \in [T -> SUBSET T] : Subtrees(T, E, l2, r2, top2)
  <1> DEFINE y == r[x]
  <1>a. /\ l[p] = x
        /\ l2[p] = r[x] /\ \A a \in DOMAIN Vads : a # p => l2[a] = IF l[a] = p THEN x ELSE l[a]
        /\ r2[x] = p /\ \A a \in DOMAIN Vads : a # x => r2[a] = IF r[a] = p THEN x ELSE r[a]
        /\ top2 = IF top = p THEN x ELSE top
    BY DEF Turned
  <1> USE <1>a
  <1>0. \A a \in T : a \in Nat /\ a # -1 /\ a \in DOMAIN Vads  BY NodeNumbers
  <1>1. /\ top \in T /\ D[top] = T
        /\ \A a \in T : a \in D[a] /\ l[a] \in T \union {-1} /\ r[a] \in T \union {-1}
        /\ \A a, b \in T : (b \in D[a] /\ b < a) <=> (l[a] # -1 /\ b \in D[l[a]])
        /\ \A a, b \in T : (b \in D[a] /\ b > a) <=> (r[a] # -1 /\ b \in D[r[a]])
        /\ \A c, a, b \in T : c \in {l[a], r[a]} /\ c \in {l[b], r[b]} => a = b
        /\ \A a \in T : a = top \/ \E b \in T : a \in {l[b], r[b]}
        /\ \A a \in DOMAIN Vads \ T : l[a] = -1 /\ r[a] = -1
    BY DEF Subtrees
  <1>2. x < p /\ x # p /\ x \in D[p] /\ \A b \in T : b \in D[x] <=> b \in D[p] /\ b < p
    BY <1>0, <1>1
  <1>3. \A a \in T : l[a] # a /\ r[a] # a /\ (l[a] # -1 => l[a] < a) /\ (r[a] # -1 => r[a] > a)
    BY <1>0, <1>1
  <1>4. \A a \in T : (l[a] = x => a = p) /\ r[a] # x
    <2>1. r[p] # x  BY <1>0, <1>2, <1>3
    <2> QED BY <1>0, <1>1, <2>1
  <1>5. y \in T \union {-1} /\ (y # -1 => y > x /\ y < p /\ y \in D[x])
    BY <1>0, <1>1, <1>2, <1>3
  <1>6. l[x] # p /\ r[x] # p /\ r[p] # p /\ y # p /\ y # x /\ top # x
    <2>1. l[x] # p  BY <1>0, <1>2, <1>3
    <2>2. y # p /\ y # x  BY <1>0, <1>2, <1>5
    <2>3. top # x  BY <1>0, <1>1, <1>2
    <2> QED BY <1>3, <2>1, <2>2, <2>3
  <1> HIDE DEF y
  <1>7. /\ l2[p] = y /\ l2[x] = l[x] /\ r2[x] = p /\ r2[p] = r[p]
        /\ \A a \in T : a # p /\ a # x => l2[a] = (IF l[a] = p THEN x ELSE l[a]) /\ r2[a] = IF r[a] = p THEN x ELSE r[a]
    <2>1. l2[p] = y /\ r2[x] = p  BY DEF y
    <2>2. l2[x] = l[x] /\ r2[p] = r[p]  BY <1>0, <1>2, <1>6
    <2>3. \A a \in T : a # p /\ a # x => l2[a] = (IF l[a] = p THEN x ELSE l[a]) /\ r2[a] = IF r[a] = p THEN x ELSE r[a]
      BY <1>0
    <2> QED BY <2>1, <2>2, <2>3
  <1>8. PICK E \in [T -> SUBSET T] :
          /\ \A b \in T : b \in E[x] <=> b \in D[p]
          /\ \A b \in T : b \in E[p] <=> b \in D[p] /\ b > x
          /\ \A a, b \in T : a # x /\ a # p => (b \in E[a] <=> b \in D[a])
    <2> DEFINE F == [a \in T |-> IF a = x THEN D[p] ELSE IF a = p THEN {b \in D[p] : b > x} ELSE D[a]]
    <2>1. F \in [T -> SUBSET T]
      <3>1. {b \in D[p] : b > x} \subseteq T /\ D[p] \subseteq T /\ \A a \in T : D[a] \subseteq T  OBVIOUS
      <3> QED BY <3>1
    <2>2. F[x] = D[p] /\ F[p] = {b \in D[p] : b > x} /\ \A a \in T : a # x /\ a # p => F[a] = D[a]  BY <1>2
    <2> HIDE DEF F
    <2> QED BY <2>1, <2>2
  <1>9. top2 \in T /\ top2 # -1 /\ E[top2] = T
    <2>1. \A b \in T : b \in E[top2]  BY <1>1, <1>6, <1>8
    <2>2. top2 \in T  BY <1>1
    <2>3. E[top2] \subseteq T  BY <1>8, <2>2
    <2> QED BY <1>0, <2>1, <2>2, <2>3
  <1>10. ASSUME NEW a \in T PROVE a \in E[a] /\ {l2[a], r2[a]} \subseteq T \union {-1}
    <2>1. a \in E[a]  BY <1>0, <1>1, <1>2, <1>8
    <2>2. l2[a] \in T \union {-1} /\ r2[a] \in T \union {-1}  BY <1>1, <1>5, <1>7
    <2> QED BY <2>1, <2>2
  <1>11. ASSUME NEW a \in T, NEW b \in T PROVE (b \in E[a] /\ b < a) <=> (l2[a] # -1 /\ b \in E[l2[a]])
    <2>1. CASE a = p
      <3>1. (b \in E[p] /\ b < p) <=> (b \in D[x] /\ b > x)  BY <1>2, <1>8
      <3>2. (b \in D[x] /\ b > x) <=> (y # -1 /\ b \in D[y])  BY <1>1 DEF y
      <3>3. y # -1 => (b \in E[y] <=> b \in D[y])  BY <1>5, <1>6, <1>8
      <3> QED BY <1>7, <2>1, <3>1, <3>2, <3>3
    <2>2. CASE a = x
      <3>1. (b \in E[x] /\ b < x) <=> (b \in D[x] /\ b < x)  BY <1>0, <1>2, <1>8
      <3>2. (b \in D[x] /\ b < x) <=> (l[x] # -1 /\ b \in D[l[x]])  BY <1>1
      <3>3. l[x] # -1 => (b \in E[l[x]] <=> b \in D[l[x]])  BY <1>1, <1>3, <1>6, <1>8
      <3> QED BY <1>7, <2>2, <3>1, <3>2, <3>3
    <2>3. CASE a # p /\ a # x
      <3>1. (b \in E[a] /\ b < a) <=> (l[a] # -1 /\ b \in D[l[a]])  BY <1>1, <1>8, <2>3
      <3>2. CASE l[a] = p  BY <1>0, <1>7, <1>8, <2>3, <3>1, <3>2
      <3>3. CASE l[a] # p  BY <1>1, <1>4, <1>7, <1>8, <2>3, <3>1, <3>3
      <3> QED BY <3>2, <3>3
    <2> QED BY <2>1, <2>2, <2>3
  <1>12. ASSUME NEW a \in T, NEW b \in T PROVE (b \in E[a] /\ b > a) <=> (r2[a] # -1 /\ b \in E[r2[a]])
    <2>1. CASE a = p
      <3>1. (b \in E[p] /\ b > p) <=> (b \in D[p] /\ b > p)  BY <1>0, <1>2, <1>8
      <3>2. (b \in D[p] /\ b > p) <=> (r[p] # -1 /\ b \in D[r[p]])  BY <1>1
      <3>3. r[p] # -1 => (b \in E[r[p]] <=> b \in D[r[p]])  BY <1>1, <1>4, <1>6, <1>8
      <3> QED BY <1>7, <2>1, <3>1, <3>2, <3>3
    <2>2. CASE a = x  BY <1>0, <1>7, <1>8, <2>2
    <2>3. CASE a # p /\ a # x
      <3>1. (b \in E[a] /\ b > a) <=> (r[a] # -1 /\ b \in D[r[a]])  BY <1>1, <1>8, <2>3
      <3>2. CASE r[a] = p  BY <1>0, <1>7, <1>8, <2>3, <3>1, <3>2
      <3>3. CASE r[a] # p  BY <1>1, <1>4, <1>7, <1>8, <2>3, <3>1, <3>3
      <3> QED BY <3>2, <3>3
    <2> QED BY <2>1, <2>2, <2>3
  <1>13. ASSUME NEW c \in T, NEW a \in T, NEW b \in T, c \in {l2[a], r2[a]}, c \in {l2[b], r2[b]} PROVE a = b
    <2>1. ASSUME NEW g \in T, p \in {l2[g], r2[g]} PROVE g = x
      BY <1>2, <1>6, <1>7, <2>1
    <2>2. ASSUME NEW g \in T, x \in {l2[g], r2[g]} PROVE p \in {l[g], r[g]}
      BY <1>2, <1>3, <1>4, <1>6, <1>7, <2>2
    <2>3. ASSUME NEW g \in T, y # -1, y \in {l2[g], r2[g]} PROVE g = p
      <3>0. y \in T  BY <1>5, <2>3
      <3>1. ASSUME NEW h \in T, y \in {l[h], r[h]} PROVE h = x
        <4>1. y \in {l[x], r[x]}  BY DEF y
        <4> QED BY <1>1, <3>0, <3>1, <4>1
      <3>2. l[x] # y  BY <1>0, <1>3, <1>5, <2>3
      <3> QED BY <1>6, <1>7, <2>3, <3>1, <3>2
    <2>4. ASSUME NEW g \in T, c # p, c # x, c # y, c \in {l2[g], r2[g]} PROVE c \in {l[g], r[g]}
      BY <1>7, <2>4
    <2>5. CASE c = p  BY <1>13, <2>1, <2>5
    <2>6. CASE c = x  BY <1>1, <1>13, <2>2, <2>6
    <2>7. CASE c = y  BY <1>0, <1>13, <2>3, <2>7
    <2>8. CASE c # p /\ c # x /\ c # y  BY <1>1, <1>13, <2>4, <2>8
    <2> QED BY <2>5, <2>6, <2>7, <2>8
  <1>14. ASSUME NEW c \in T, c # top2 PROVE \E b \in T : c \in {l2[b], r2[b]}
    <2>1. CASE c = p  BY <1>7, <2>1
    <2>2. CASE c = x
      <3>1. top # p  BY <1>14, <2>2
      <3>2. PICK g \in T : p \in {l[g], r[g]}  BY <1>1, <3>1
      <3>3. g # p /\ g # x  BY <1>3, <1>6, <3>2
      <3> QED BY <1>7, <2>2, <3>2, <3>3
    <2>3. CASE c = y  BY <1>7, <2>3
    <2>4. CASE c # p /\ c # x /\ c # y
      <3>1. c # top  BY <1>14, <2>4
      <3>2. PICK g \in T : c \in {l[g], r[g]}  BY <1>1, <3>1
      <3>3. c # l[p] /\ c # r[x]  BY <2>4 DEF y
      <3>4. c = l[g] => l2[g] = c  BY <1>7, <2>4, <3>3
      <3>5. c = r[g] => r2[g] = c  BY <1>7, <2>4, <3>3
      <3> QED BY <3>2, <3>4, <3>5
    <2> QED BY <2>1, <2>2, <2>3, <2>4
  <1>15. ASSUME NEW a \in DOMAIN Vads \ T PROVE l2[a] = -1 /\ r2[a] = -1
    <2>1. l[a] = -1 /\ r[a] = -1 /\ a # p /\ a # x /\ p # -1  BY <1>0, <1>1
    <2> QED BY <2>1
  <1>16. Subtrees(T, E, l2, r2, top2)
    <2>1. \A a \in T : a \in E[a] /\ {l2[a], r2[a]} \subseteq T \union {-1}  BY <1>10
    <2> QED BY <1>9, <1>11, <1>12, <1>13, <1>14, <1>15, <2>1 DEF Subtrees
  <1> QED BY <1>16

\* The nodes at a rotation are apart, and nothing points to the top.
LEMMA TurnFacts ==
  ASSUME NEW T \in SUBSET DOMAIN Vads, NEW D \in [T -> SUBSET T], NEW l, NEW r, NEW top,
         Subtrees(T, D, l, r, top), NEW p \in T, NEW x \in T, l[p] = x
  PROVE  /\ x # p /\ r[x] # p /\ l[x] # p
         /\ top = p => \A a \in DOMAIN Vads : l[a] # p /\ r[a] # p
  <1>0. \A a \in T : a \in Nat /\ a # -1 /\ a \in DOMAIN Vads  BY NodeNumbers
  <1>1. /\ top \in T /\ D[top] = T
        /\ \A a \in T : a \in D[a] /\ l[a] \in T \union {-1} /\ r[a] \in T \union {-1}
        /\ \A a, b \in T : (b \in D[a] /\ b < a) <=> (l[a] # -1 /\ b \in D[l[a]])
        /\ \A a, b \in T : (b \in D[a] /\ b > a) <=> (r[a] # -1 /\ b \in D[r[a]])
        /\ \A a \in DOMAIN Vads \ T : l[a] = -1 /\ r[a] = -1
    BY DEF Subtrees
  <1>2. x < p /\ \A b \in T : b \in D[x] => b < p  BY <1>0, <1>1
  <1>3. p \notin D[x] /\ x # p  BY <1>0, <1>2
  <1>4. l[x] # p /\ r[x] # p
    <2>1. l[x] = p => p \in D[x]  BY <1>0, <1>1
    <2>2. r[x] = p => p \in D[x]  BY <1>0, <1>1
    <2> QED BY <1>3, <2>1, <2>2
  <1>5. ASSUME top = p, NEW a \in DOMAIN Vads PROVE l[a] # p /\ r[a] # p
    <2>1. CASE a \in T
      <3>1. ~(a < a) /\ ~(a > a) /\ a \in D[p] /\ p # -1  BY <1>0, <1>1, <1>5, <2>1
      <3> QED BY <1>1, <2>1, <3>1
    <2>2. CASE a \notin T  BY <1>0, <1>1, <2>2
    <2> QED BY <2>1, <2>2
  <1> QED BY <1>3, <1>4, <1>5

\* Between rotations, what the links reach is the tree.
LEMMA InTreeIs ==
  ASSUME VadTypeOK, NEW T \in SUBSET DOMAIN Vads, NEW D \in [T -> SUBSET T], TreeRight(T, D), turn = <<>>
  PROVE  InTree = T /\ Subtrees(T, D, left, right, Top)
  <1>1. Subtrees(T, D, left, right, Top)  BY DEF TreeRight, LeftBefore, RightBefore
  <1>2. \A a \in DOMAIN Vads : a \in Nat /\ a # 0 /\ a # -1  BY NodeNumbers
  <1>3. left[0] = -1 /\ right[0] \in {Top, -1}
    BY DEF TreeRight, Top
  <1>4. ASSUME NEW n \in T PROVE n \in InTree
    <2>1. n = Top \/ \E a \in T : n \in {left[a], right[a]}  BY <1>1 DEF Subtrees
    <2> QED BY <2>1 DEF InTree, Nodes
  <1>5. ASSUME NEW n \in InTree PROVE n \in T
    <2>1. n \in DOMAIN Vads /\ (n = Top \/ \E p \in Nodes : n \in {left[p], right[p]})  BY DEF InTree
    <2>2. Top \in T \union {-1}  BY <1>1 DEF Subtrees
    <2>3. \A p \in DOMAIN Vads : {left[p], right[p]} \subseteq T \union {-1}  BY <1>1 DEF Subtrees
    <2> QED BY <1>2, <1>3, <2>1, <2>2, <2>3 DEF Nodes
  <1>6. InTree \subseteq DOMAIN Vads  BY DEF InTree
  <1>7. InTree = T  BY <1>4, <1>5, <1>6
  <1> QED BY <1>1, <1>7

-----------------------------------------------------------------------------
(* The guest *)

\* What a step leaves when no rotation is under way after it.
LEMMA TreeAfter ==
  ASSUME NEW T \in SUBSET DOMAIN Vads, NEW D \in [T -> SUBSET T], turn' = <<>>,
         Subtrees(T, D, left', right', Top'), left'[0] = Null,
         IF era' = "new" THEN right'[0] = Null ELSE treeRoot' = Null
  PROVE  TreeRight(T, D)'
  <1>1. LeftBefore' = left' /\ RightBefore' = right'  BY DEF LeftBefore, RightBefore
  <1>2. Subtrees(T, D, LeftBefore, RightBefore, Top)'  BY <1>1 DEF Subtrees
  <1> QED BY <1>2 DEF TreeRight

\* A new area.
LEMMA InsertTree ==
  ASSUME VadTypeOK, NEW T \in SUBSET DOMAIN Vads, NEW D \in [T -> SUBSET T], TreeRight(T, D),
         NEW n \in DOMAIN Vads, InsertVad(n)
  PROVE  \E U \in SUBSET DOMAIN Vads : \E E \in [U -> SUBSET U] : TreeRight(U, E)'
  <1>0. turn = <<>> /\ era' = era  BY DEF InsertVad, Changes
  <1>1. InTree = T /\ Subtrees(T, D, left, right, Top)  BY <1>0, InTreeIs
  <1>2. /\ left \in [Nodes -> DOMAIN Vads \union {-1}] /\ right \in [Nodes -> DOMAIN Vads \union {-1}]
        /\ n \notin T /\ left[0] = -1 /\ (IF era = "new" THEN right[0] = -1 ELSE treeRoot = -1)
        /\ \A a \in DOMAIN Vads : a \in Nat /\ a # 0 /\ a # -1 /\ a \in Nodes
        /\ 0 \in Nodes
    BY <1>1, NodeNumbers DEF VadTypeOK, InsertVad, TreeRight, Nodes
  <1>3. CASE T = {} /\ SetTop(n) /\ UNCHANGED <<left, turn>>
    <2> DEFINE E == [a \in {n} |-> {n}]
    <2>1. E \in [{n} -> SUBSET {n}] /\ E[n] = {n}  OBVIOUS
    <2> HIDE DEF E
    <2>2. \A a \in DOMAIN Vads : left'[a] = -1 /\ right'[a] = -1
      BY <1>1, <1>2, <1>3 DEF SetTop, Subtrees
    <2>3. Top' = n  BY <1>0, <1>2, <1>3 DEF SetTop, Top
    <2>4. Subtrees({n}, E, left', right', Top')
      BY <1>2, <2>1, <2>2, <2>3 DEF Subtrees
    <2>5. left'[0] = -1 /\ turn' = <<>> /\ IF era' = "new" THEN right'[0] = -1 ELSE treeRoot' = -1
      BY <1>0, <1>2, <1>3 DEF SetTop
    <2>6. TreeRight({n}, E)'  BY <2>1, <2>4, <2>5, TreeAfter
    <2> QED BY <2>1, <2>6
  <1>4. ASSUME NEW m \in T, m < n, \A k \in T : k < n => k <= m, right[m] = -1,
               right' = [right EXCEPT ![m] = n], UNCHANGED <<left, treeRoot, turn>>
        PROVE  \E U \in SUBSET DOMAIN Vads : \E E \in [U -> SUBSET U] : TreeRight(U, E)'
    <2>1. right'[m] = n /\ right'[0] = right[0] /\ \A a \in DOMAIN Vads : a # m => right'[a] = right[a]
      BY <1>2, <1>4
    <2>2. PICK E \in [T \union {n} -> SUBSET (T \union {n})] : Subtrees(T \union {n}, E, left, right', Top)
      <3>1. BelowLinked(T, right, right', m, n)  BY <1>2, <1>4, <2>1 DEF BelowLinked
      <3> QED BY <1>1, <3>1, AddRight
    <2>3. Top' = Top  BY <1>0, <1>4, <2>1 DEF Top
    <2>4. left' = left /\ turn' = <<>>  BY <1>0, <1>4
    <2>5. Subtrees(T \union {n}, E, left', right', Top')  BY <2>2, <2>3, <2>4
    <2>6. left'[0] = -1 /\ IF era' = "new" THEN right'[0] = -1 ELSE treeRoot' = -1
      BY <1>0, <1>2, <1>4, <2>1
    <2>7. TreeRight(T \union {n}, E)'  BY <2>4, <2>5, <2>6, TreeAfter
    <2> QED BY <2>7
  <1>5. ASSUME NEW m \in T, m > n, \A k \in T : k > n => k >= m, left[m] = -1,
               left' = [left EXCEPT ![m] = n], UNCHANGED <<right, treeRoot, turn>>
        PROVE  \E U \in SUBSET DOMAIN Vads : \E E \in [U -> SUBSET U] : TreeRight(U, E)'
    <2>1. left'[m] = n /\ left'[0] = left[0] /\ \A a \in DOMAIN Vads : a # m => left'[a] = left[a]
      BY <1>2, <1>5
    <2>2. PICK E \in [T \union {n} -> SUBSET (T \union {n})] : Subtrees(T \union {n}, E, left', right, Top)
      <3>1. AboveLinked(T, left, left', m, n)  BY <1>2, <1>5, <2>1 DEF AboveLinked
      <3> QED BY <1>1, <3>1, AddLeft
    <2>3. Top' = Top  BY <1>0, <1>5 DEF Top
    <2>4. right' = right /\ turn' = <<>>  BY <1>0, <1>5
    <2>5. Subtrees(T \union {n}, E, left', right', Top')  BY <2>2, <2>3, <2>4
    <2>6. left'[0] = -1 /\ IF era' = "new" THEN right'[0] = -1 ELSE treeRoot' = -1
      BY <1>0, <1>2, <1>5, <2>1
    <2>7. TreeRight(T \union {n}, E)'  BY <2>4, <2>5, <2>6, TreeAfter
    <2> QED BY <2>7
  <1> QED BY <1>1, <1>3, <1>4, <1>5 DEF InsertVad

\* An area goes.
LEMMA RemoveTree ==
  ASSUME VadTypeOK, NEW T \in SUBSET DOMAIN Vads, NEW D \in [T -> SUBSET T], TreeRight(T, D),
         NEW n \in DOMAIN Vads, RemoveVad(n)
  PROVE  \E U \in SUBSET DOMAIN Vads : \E E \in [U -> SUBSET U] : TreeRight(U, E)'
  <1>0. turn = <<>> /\ era' = era /\ left[n] = -1 /\ right[n] = -1  BY DEF RemoveVad, Changes
  <1>1. InTree = T /\ Subtrees(T, D, left, right, Top)  BY <1>0, InTreeIs
  <1>2. /\ left \in [Nodes -> DOMAIN Vads \union {-1}] /\ right \in [Nodes -> DOMAIN Vads \union {-1}]
        /\ n \in T /\ left[0] = -1 /\ (IF era = "new" THEN right[0] = -1 ELSE treeRoot = -1)
        /\ \A a \in DOMAIN Vads : a \in Nat /\ a # 0 /\ a # -1 /\ a \in Nodes
        /\ 0 \in Nodes
    BY <1>1, NodeNumbers DEF VadTypeOK, RemoveVad, TreeRight, Nodes
  <1>3. CASE n = Top /\ SetTop(-1) /\ UNCHANGED <<left, turn>>
    <2> DEFINE E == [a \in {} |-> {}]
    <2>1. E \in [{} -> SUBSET {}]  OBVIOUS
    <2> HIDE DEF E
    <2>2. T = {n}
      <3>1. D[n] = T /\ \A m \in T : ~(m \in D[n] /\ m < n) /\ ~(m \in D[n] /\ m > n)
        BY <1>0, <1>1, <1>2, <1>3 DEF Subtrees
      <3> QED BY <1>2, <3>1
    <2>3. \A a \in DOMAIN Vads : left'[a] = -1 /\ right'[a] = -1
      <3>1. \A a \in DOMAIN Vads : left[a] = -1 /\ right[a] = -1  BY <1>0, <1>1, <2>2 DEF Subtrees
      <3> QED BY <1>2, <1>3, <3>1 DEF SetTop
    <2>4. Top' = -1  BY <1>0, <1>2, <1>3 DEF SetTop, Top
    <2>5. Subtrees({}, E, left', right', Top')
      BY <2>3, <2>4 DEF Subtrees
    <2>6. left'[0] = -1 /\ turn' = <<>> /\ IF era' = "new" THEN right'[0] = -1 ELSE treeRoot' = -1
      BY <1>0, <1>2, <1>3 DEF SetTop
    <2>7. TreeRight({}, E)'  BY <2>1, <2>5, <2>6, TreeAfter
    <2> QED BY <2>1, <2>7
  <1>4. CASE /\ n # Top
             /\ left' = [m \in Nodes |-> IF left[m] = n THEN -1 ELSE left[m]]
             /\ right' = [m \in Nodes |-> IF right[m] = n THEN -1 ELSE right[m]]
             /\ UNCHANGED <<treeRoot, turn>>
    <2>1. \A a \in DOMAIN Vads : left'[a] = (IF left[a] = n THEN -1 ELSE left[a]) /\ right'[a] = IF right[a] = n THEN -1 ELSE right[a]
      BY <1>2, <1>4
    <2>2. left'[0] = -1 /\ right'[0] = right[0]
      BY <1>2, <1>4 DEF Top
    <2>3. PICK E \in [T \ {n} -> SUBSET (T \ {n})] : Subtrees(T \ {n}, E, left', right', Top)
      BY <1>0, <1>1, <1>2, <1>4, <2>1, DropLeaf
    <2>4. Top' = Top  BY <1>0, <1>4, <2>2 DEF Top
    <2>5. Subtrees(T \ {n}, E, left', right', Top')  BY <2>3, <2>4
    <2>6. turn' = <<>> /\ IF era' = "new" THEN right'[0] = -1 ELSE treeRoot' = -1
      BY <1>0, <1>2, <1>4, <2>2
    <2>7. TreeRight(T \ {n}, E)'  BY <2>2, <2>5, <2>6, TreeAfter
    <2> QED BY <2>7
  <1> QED BY <1>3, <1>4 DEF RemoveVad

\* A rotation begins: its first write.
LEMMA StartTree ==
  ASSUME VadTypeOK, NEW T \in SUBSET DOMAIN Vads, NEW D \in [T -> SUBSET T], TreeRight(T, D),
         NEW p \in DOMAIN Vads, StartRotation(p)
  PROVE  TreeRight(T, D)'
  <1>0. /\ turn = <<>> /\ era' = era /\ left[p] # -1 /\ turn' = <<p, left[p], "child">>
        /\ left' = [left EXCEPT ![p] = right[left[p]]] /\ right' = right /\ treeRoot' = treeRoot
    BY DEF StartRotation, Changes
  <1>1. InTree = T /\ Subtrees(T, D, left, right, Top)  BY <1>0, InTreeIs
  <1>2. PICK x : x = left[p]  OBVIOUS
  <1>3. p \in T /\ x \in T
    <2>1. p \in T  BY <1>1 DEF StartRotation
    <2> QED BY <1>0, <1>1, <1>2, <2>1 DEF Subtrees
  <1>4. left \in [Nodes -> DOMAIN Vads \union {-1}] /\ p \in Nodes /\ p # 0 /\ 0 \in Nodes
    BY NodeNumbers DEF VadTypeOK, Nodes
  <1>5. turn' = <<p, x, "child">> /\ turn' # <<>> /\ turn'[1] = p /\ turn'[2] = x /\ turn'[3] = "child"
    BY <1>0, <1>2
  <1>6. LeftBefore' = left
    <2>1. LeftBefore' = [left' EXCEPT ![p] = x]  BY <1>5 DEF LeftBefore
    <2>2. [left' EXCEPT ![p] = x] = left  BY <1>0, <1>2, <1>4
    <2> QED BY <2>1, <2>2
  <1>7. RightBefore' = right  BY <1>0, <1>5 DEF RightBefore
  <1>8. Top' = Top  BY <1>0 DEF Top
  <1>9. Subtrees(T, D, LeftBefore', RightBefore', Top')  BY <1>1, <1>6, <1>7, <1>8
  <1>10. left'[p] = right'[x] /\ left'[0] = left[0]  BY <1>0, <1>2, <1>4
  <1>11. left[0] = -1 /\ IF era = "new" THEN right[0] = -1 ELSE treeRoot = -1  BY DEF TreeRight
  <1>12. Subtrees(T, D, LeftBefore, RightBefore, Top)'  BY <1>9 DEF Subtrees
  <1>13. left'[0] = -1 /\ IF era' = "new" THEN right'[0] = -1 ELSE treeRoot' = -1
    BY <1>0, <1>10, <1>11
  <1> QED BY <1>3, <1>5, <1>10, <1>12, <1>13 DEF TreeRight

\* It ends.
LEMMA RotateTree ==
  ASSUME VadTypeOK, NEW T \in SUBSET DOMAIN Vads, NEW D \in [T -> SUBSET T], TreeRight(T, D), Rotate
  PROVE  \E E \in [T -> SUBSET T] : TreeRight(T, E)'
  <1>0. turn # <<>> /\ era' = era  BY DEF Rotate
  <1>1. PICK p \in DOMAIN Vads, x \in DOMAIN Vads, s \in {"child", "link"} : turn = <<p, x, s>>
    BY <1>0 DEF VadTypeOK
  <1>2. turn[1] = p /\ turn[2] = x /\ turn[3] = s  BY <1>1
  <1>3. /\ p \in T /\ x \in T
        /\ s = "child" => left[p] = right[x]
        /\ s = "link" => right[x] = p
        /\ left[0] = -1 /\ IF era = "new" THEN right[0] = -1 ELSE treeRoot = -1
    BY <1>0, <1>2 DEF TreeRight
  <1>4. /\ left \in [Nodes -> DOMAIN Vads \union {-1}] /\ right \in [Nodes -> DOMAIN Vads \union {-1}]
        /\ \A a \in DOMAIN Vads : a \in Nodes /\ a # 0 /\ a # -1
        /\ 0 \in Nodes
    BY NodeNumbers DEF VadTypeOK, Nodes
  <1>5. PICK l : l = LeftBefore  OBVIOUS
  <1>6. PICK r : r = RightBefore  OBVIOUS
  <1>7. PICK top : top = Top  OBVIOUS
  <1>8. Subtrees(T, D, l, r, top)  BY <1>5, <1>6, <1>7 DEF TreeRight
  <1>9. l = [left EXCEPT ![p] = x]  BY <1>0, <1>2, <1>5 DEF LeftBefore
  <1>10. CASE s = "child"
    <2>1. right' = [right EXCEPT ![x] = p] /\ turn' = <<p, x, "link">> /\ left' = left /\ treeRoot' = treeRoot
      BY <1>2, <1>10 DEF Rotate
    <2>2. turn' # <<>> /\ turn'[1] = p /\ turn'[2] = x /\ turn'[3] = "link"  BY <2>1
    <2>3. LeftBefore' = l  BY <1>9, <2>1, <2>2 DEF LeftBefore
    <2>4. RightBefore' = r
      <3>1. r = right  BY <1>2, <1>6, <1>10 DEF RightBefore
      <3>2. RightBefore' = [right' EXCEPT ![x] = left'[p]]  BY <2>2 DEF RightBefore
      <3>3. [right' EXCEPT ![x] = left'[p]] = right  BY <1>3, <1>4, <1>10, <2>1
      <3> QED BY <3>1, <3>2, <3>3
    <2>5. right'[0] = right[0] /\ right'[x] = p  BY <1>4, <2>1
    <2>6. Top' = top  BY <1>0, <1>7, <2>1, <2>5 DEF Top
    <2>7. Subtrees(T, D, LeftBefore', RightBefore', Top')  BY <1>8, <2>3, <2>4, <2>6
    <2>8. Subtrees(T, D, LeftBefore, RightBefore, Top)'  BY <2>7 DEF Subtrees
    <2>9. left'[0] = -1 /\ IF era' = "new" THEN right'[0] = -1 ELSE treeRoot' = -1
      BY <1>0, <1>3, <2>1, <2>5
    <2>10. TreeRight(T, D)'  BY <1>3, <2>2, <2>5, <2>8, <2>9 DEF TreeRight
    <2> QED BY <2>10
  <1>11. CASE s = "link"
    <2>1. r = [right EXCEPT ![x] = left[p]]  BY <1>0, <1>2, <1>6, <1>11 DEF RightBefore
    <2>2. l[p] = x /\ r[x] = left[p] /\ right[x] = p  BY <1>3, <1>4, <1>9, <1>11, <2>1
    <2>3. \A a \in DOMAIN Vads : (a # p => l[a] = left[a]) /\ (a # x => r[a] = right[a])
      BY <1>4, <1>9, <2>1
    <2>4. /\ x # p /\ r[x] # p /\ l[x] # p
          /\ top = p => \A a \in DOMAIN Vads : l[a] # p /\ r[a] # p
      BY <1>3, <1>8, <2>2, TurnFacts
    <2>5. turn' = <<>>  BY <1>2, <1>11 DEF Rotate
    <2>6. /\ Turned(p, x, l, r, top, left', right', Top')
          /\ left'[0] = -1 /\ IF era' = "new" THEN right'[0] = -1 ELSE treeRoot' = -1
      <3>1. CASE p = Top
        <4>1. SetTop(x) /\ left' = left  BY <1>2, <1>11, <3>1 DEF Rotate
        <4>2. \A a \in DOMAIN Vads : right'[a] = right[a]  BY <1>4, <4>1 DEF SetTop
        <4>3. Top' = x  BY <1>0, <1>4, <4>1 DEF SetTop, Top
        <4>4. IF era' = "new" THEN right'[0] = -1 ELSE treeRoot' = -1  BY <1>0, <1>3, <4>1 DEF SetTop
        <4> QED BY <1>3, <1>7, <2>2, <2>3, <2>4, <3>1, <4>1, <4>2, <4>3, <4>4 DEF Turned
      <3>2. CASE p # Top
        <4>1. /\ left' = [m \in Nodes |-> IF m # x /\ left[m] = p THEN x ELSE left[m]]
              /\ right' = [m \in Nodes |-> IF m # x /\ right[m] = p THEN x ELSE right[m]]
              /\ treeRoot' = treeRoot
          BY <1>2, <1>11, <3>2 DEF Rotate
        <4>2. \A a \in DOMAIN Vads : /\ left'[a] = IF a # x /\ left[a] = p THEN x ELSE left[a]
                                     /\ right'[a] = IF a # x /\ right[a] = p THEN x ELSE right[a]
          BY <1>4, <4>1
        <4>3. left'[0] = -1 /\ right'[0] = right[0]
          BY <1>3, <1>4, <3>2, <4>1 DEF Top
        <4>4. Top' = top  BY <1>0, <1>7, <4>1, <4>3 DEF Top
        <4>5. \A a \in DOMAIN Vads : a # p => left'[a] = IF l[a] = p THEN x ELSE l[a]
          BY <2>3, <2>4, <4>2
        <4>6. left'[p] = r[x] /\ right'[x] = p  BY <2>2, <2>4, <4>2
        <4>7. \A a \in DOMAIN Vads : a # x => right'[a] = IF r[a] = p THEN x ELSE r[a]
          BY <2>3, <4>2
        <4>8. Turned(p, x, l, r, top, left', right', Top')
          BY <1>7, <2>2, <3>2, <4>4, <4>5, <4>6, <4>7 DEF Turned
        <4> QED BY <1>0, <1>3, <4>1, <4>3, <4>8
      <3> QED BY <3>1, <3>2
    <2>7. PICK E \in [T -> SUBSET T] : Subtrees(T, E, left', right', Top')
      BY <1>3, <1>8, <2>6, TurnRight
    <2>8. TreeRight(T, E)'  BY <2>5, <2>6, <2>7, TreeAfter
    <2> QED BY <2>8
  <1> QED BY <1>10, <1>11

\* The guest takes a step.
LEMMA GuestInv ==
  ASSUME VadInv, VadGuest
  PROVE  VadInv'
  <1>0. VadTypeOK  BY DEF VadInv
  <1>1. PICK T \in SUBSET DOMAIN Vads : \E D \in [T -> SUBSET T] : TreeRight(T, D)  BY DEF VadInv
  <1>2. PICK D \in [T -> SUBSET T] : TreeRight(T, D)  BY <1>1
  <1>3. \E U \in SUBSET DOMAIN Vads : \E E \in [U -> SUBSET U] : TreeRight(U, E)'
    <2>1. CASE Rotate  BY <1>0, <1>2, <2>1, RotateTree
    <2>2. ASSUME NEW n \in DOMAIN Vads, InsertVad(n)
          PROVE  \E U \in SUBSET DOMAIN Vads : \E E \in [U -> SUBSET U] : TreeRight(U, E)'
      BY <1>0, <1>2, <2>2, InsertTree
    <2>3. ASSUME NEW n \in DOMAIN Vads, RemoveVad(n)
          PROVE  \E U \in SUBSET DOMAIN Vads : \E E \in [U -> SUBSET U] : TreeRight(U, E)'
      BY <1>0, <1>2, <2>3, RemoveTree
    <2>4. ASSUME NEW n \in DOMAIN Vads, StartRotation(n)
          PROVE  \E U \in SUBSET DOMAIN Vads : \E E \in [U -> SUBSET U] : TreeRight(U, E)'
      BY <1>0, <1>2, <2>4, StartTree
    <2> QED BY <2>1, <2>2, <2>3, <2>4 DEF VadGuest
  <1>4. /\ UNCHANGED <<era, vmaOp, page, vmaAt, node, vma>>
        /\ moved' \in BOOLEAN /\ (vmaAt # "idle" => moved')
    <2>1. CASE Rotate
      <3>1. UNCHANGED <<era, vmaOp, page, vmaAt, node, vma>>  BY <2>1 DEF Rotate
      <3>2. moved' = (moved \/ vmaAt # "idle")  BY <2>1 DEF Rotate
      <3>3. moved' \in BOOLEAN  BY <3>2, Zenon
      <3>4. vmaAt # "idle" => moved'  BY <3>2, Zenon
      <3> QED BY <3>1, <3>3, <3>4
    <2>2. ASSUME NEW n \in DOMAIN Vads, InsertVad(n) \/ RemoveVad(n) \/ StartRotation(n)
          PROVE  /\ UNCHANGED <<era, vmaOp, page, vmaAt, node, vma>>
                 /\ moved' \in BOOLEAN /\ (vmaAt # "idle" => moved')
      <3>1. Changes  BY <2>2 DEF InsertVad, RemoveVad, StartRotation
      <3>2. UNCHANGED <<era, vmaOp, page, vmaAt, node, vma>>  BY <3>1 DEF Changes
      <3>3. moved' = (vmaAt # "idle")  BY <3>1 DEF Changes
      <3>4. moved' \in BOOLEAN  BY <3>3, Zenon
      <3>5. vmaAt # "idle" => moved'  BY <3>3, Zenon
      <3> QED BY <3>2, <3>4, <3>5
    <2> QED BY <2>1, <2>2 DEF VadGuest
  <1>5. /\ left' \in [Nodes -> DOMAIN Vads \union {-1}] /\ right' \in [Nodes -> DOMAIN Vads \union {-1}]
        /\ treeRoot' \in DOMAIN Vads \union {-1}
        /\ turn' = <<>> \/ \E p, x \in DOMAIN Vads, s \in {"child", "link"} : turn' = <<p, x, s>>
    <2>0. /\ left \in [Nodes -> DOMAIN Vads \union {-1}] /\ right \in [Nodes -> DOMAIN Vads \union {-1}]
          /\ treeRoot \in DOMAIN Vads \union {-1} /\ DOMAIN Vads \subseteq Nodes
      BY <1>0 DEF VadTypeOK, Nodes
    <2>1. CASE Rotate
      <3>1. turn # <<>>  BY <2>1 DEF Rotate
      <3>2. PICK p \in DOMAIN Vads, x \in DOMAIN Vads, s \in {"child", "link"} : turn = <<p, x, s>>
        BY <1>0, <3>1 DEF VadTypeOK
      <3>3. turn[1] = p /\ turn[2] = x /\ turn[3] = s  BY <3>2
      <3> QED BY <2>0, <2>1, <3>3 DEF Rotate, SetTop
    <2>2. ASSUME NEW n \in DOMAIN Vads, InsertVad(n)
          PROVE  /\ left' \in [Nodes -> DOMAIN Vads \union {-1}] /\ right' \in [Nodes -> DOMAIN Vads \union {-1}]
                 /\ treeRoot' \in DOMAIN Vads \union {-1} /\ turn' = <<>>
      <3>1. turn = <<>>  BY <2>2 DEF InsertVad, Changes
      <3> QED BY <2>0, <2>2, <3>1 DEF InsertVad, SetTop
    <2>3. ASSUME NEW n \in DOMAIN Vads, RemoveVad(n)
          PROVE  /\ left' \in [Nodes -> DOMAIN Vads \union {-1}] /\ right' \in [Nodes -> DOMAIN Vads \union {-1}]
                 /\ treeRoot' \in DOMAIN Vads \union {-1} /\ turn' = <<>>
      <3>1. turn = <<>>  BY <2>3 DEF RemoveVad, Changes
      <3> QED BY <2>0, <2>3, <3>1 DEF RemoveVad, SetTop
    <2>4. ASSUME NEW n \in DOMAIN Vads, StartRotation(n)
          PROVE  /\ left' \in [Nodes -> DOMAIN Vads \union {-1}] /\ right' = right /\ treeRoot' = treeRoot
                 /\ \E p, x \in DOMAIN Vads, s \in {"child", "link"} : turn' = <<p, x, s>>
      <3>1. /\ left[n] # -1 /\ turn' = <<n, left[n], "child">> /\ right' = right /\ treeRoot' = treeRoot
            /\ left' = [left EXCEPT ![n] = right[left[n]]]
        BY <2>4 DEF StartRotation
      <3>2. left[n] \in DOMAIN Vads  BY <2>0, <3>1
      <3> QED BY <2>0, <3>1, <3>2
    <2> QED BY <2>0, <2>1, <2>2, <2>3, <2>4 DEF VadGuest
  <1>6. VadTypeOK'
    <2>1. /\ era' \in Eras /\ vmaOp' \in {"none", "find", "walk"} /\ page' \in Nat
          /\ vmaAt' \in {"idle", "compare", "left", "right", "walk", "done"}
          /\ vmaAt' \in {"compare", "left", "right"} => node' \in Nodes /\ (era' = "new" => node' # 0)
          /\ (vmaAt' = "left" => node' # 0) /\ (vmaAt' = "walk" => vmaOp' = "walk")
      BY <1>0, <1>4 DEF VadTypeOK
    <2> QED BY <1>4, <1>5, <2>1 DEF VadTypeOK
  <1>7. \A U, E : SearchRight(U, E)'  BY <1>4 DEF SearchRight
  <1>8. VmaLookupRight'
    <2>1. VmaLookupRight  BY DEF VadInv
    <2> QED BY <1>4, <2>1 DEF VmaLookupRight
  <1> QED BY <1>3, <1>6, <1>7, <1>8 DEF VadInv

-----------------------------------------------------------------------------
(* Searching and walking *)

\* A read leaves the tree as it is.
LEMMA SameTree ==
  ASSUME NEW T, NEW D, TreeRight(T, D), UNCHANGED <<era, left, right, treeRoot, turn>>
  PROVE  TreeRight(T, D)' /\ InTree' = InTree
  <1>1. LeftBefore' = LeftBefore /\ RightBefore' = RightBefore /\ Top' = Top
    BY DEF LeftBefore, RightBefore, Top
  <1>2. InTree' = InTree  BY <1>1 DEF InTree, Nodes
  <1>3. Subtrees(T, D, LeftBefore, RightBefore, Top)'
    <2>1. Subtrees(T, D, LeftBefore, RightBefore, Top)  BY DEF TreeRight
    <2> QED BY <1>1, <2>1 DEF Subtrees
  <1> QED BY <1>2, <1>3 DEF TreeRight

\* A call that is over, or a walk, leaves nothing to show for the search.
LEMMA NoSearch ==
  ASSUME VadInv, UNCHANGED <<era, left, right, treeRoot, turn>>, moved' \in BOOLEAN,
         vmaAt' \in {"walk", "done"}, ~moved' => turn = <<>>,
         vmaOp' \in {"none", "find", "walk"}, page' \in Nat, vmaAt' = "walk" => vmaOp' = "walk",
         VmaLookupRight'
  PROVE  VadInv'
  <1>1. PICK T \in SUBSET DOMAIN Vads : \E D \in [T -> SUBSET T] : TreeRight(T, D)  BY DEF VadInv
  <1>2. PICK D \in [T -> SUBSET T] : TreeRight(T, D)  BY <1>1
  <1>3. TreeRight(T, D)'  BY <1>2, SameTree
  <1>4. SearchRight(T, D)'  BY DEF SearchRight
  <1>5. VadTypeOK'  BY DEF VadInv, VadTypeOK
  <1> QED BY <1>3, <1>4, <1>5 DEF VadInv

\* A call begins at the root: the whole tree is below it.
LEMMA CallFindInv ==
  ASSUME VadInv, NEW p \in Pages, CallFind(p)
  PROVE  VadInv'
  <1>0. VadTypeOK  BY DEF VadInv
  <1>1. /\ turn = <<>> /\ UNCHANGED <<era, left, right, treeRoot, turn>> /\ moved' = FALSE
        /\ vmaOp' = "find" /\ page' = p /\ node' = VadRoot
    BY DEF CallFind
  <1>2. p \in Nat  BY VadAssumption
  <1>3. \A a \in DOMAIN Vads : a \in Nat /\ a # 0 /\ a # -1  BY NodeNumbers
  <1>4. CASE VadRoot = -1
    <2>1. vmaAt' = "done" /\ vma' = -2  BY <1>4 DEF CallFind, EndVma, VmaError
    <2>2. VmaLookupRight'  BY <1>3, <2>1 DEF VmaLookupRight
    <2> QED BY <1>1, <1>2, <2>1, <2>2, NoSearch
  <1>5. CASE VadRoot # -1
    <2>1. vmaAt' = "compare"  BY <1>5 DEF CallFind
    <2>2. PICK T \in SUBSET DOMAIN Vads : \E D \in [T -> SUBSET T] : TreeRight(T, D)  BY DEF VadInv
    <2>3. PICK D \in [T -> SUBSET T] : TreeRight(T, D)  BY <2>2
    <2>4. TreeRight(T, D)'  BY <1>1, <2>3, SameTree
    <2>5. Subtrees(T, D, left, right, Top)  BY <1>0, <1>1, <2>3, InTreeIs
    <2>6. node' \in T \union {0} /\ (era = "new" => node' # 0) /\ (node' \in T => D[node'] = T)
      BY <1>1, <1>3, <1>5, <2>5 DEF VadRoot, Top, Subtrees
    <2>7. SearchRight(T, D)'  BY <1>1, <2>1, <2>6 DEF SearchRight
    <2>8. VadTypeOK'  BY <1>0, <1>1, <1>2, <2>1, <2>6 DEF VadTypeOK, Nodes
    <2>9. VmaLookupRight'  BY <2>1 DEF VmaLookupRight
    <2> QED BY <2>4, <2>7, <2>8, <2>9 DEF VadInv
  <1> QED BY <1>4, <1>5

\* The areas that have the page are on the side that the comparison chooses.
LEMMA CompareInv ==
  ASSUME VadInv, Compare
  PROVE  VadInv'
  <1>0. VadTypeOK  BY DEF VadInv
  <1>1. /\ vmaAt = "compare" /\ UNCHANGED <<era, left, right, treeRoot, turn, moved, vmaOp, page, node>>
        /\ node \in Nodes /\ (era = "new" => node # 0) /\ page \in Nat
    BY <1>0 DEF Compare, treeVars, VadTypeOK
  <1>2. /\ node # 0 => VmaStart(node) = Vads[node].first /\ VmaEnd(node) = Vads[node].last + 1
        /\ node = 0 => VmaStart(node) = 0
    BY <1>1, Bounds
  <1>3. \A a \in DOMAIN Vads : a \in Nat \ {0} /\ Vads[a].first \in Nat /\ Vads[a].last \in Nat  BY VadFields
  <1>4. /\ \A a \in DOMAIN Vads : Vads[a].first <= Vads[a].last
        /\ \A a, b \in DOMAIN Vads : a < b => Vads[a].last < Vads[b].first
    BY VadAssumption
  <1>5. PICK T \in SUBSET DOMAIN Vads : \E D \in [T -> SUBSET T] : TreeRight(T, D) /\ SearchRight(T, D)
    BY DEF VadInv
  <1>6. PICK D \in [T -> SUBSET T] : TreeRight(T, D) /\ SearchRight(T, D)  BY <1>5
  <1>7. TreeRight(T, D)'  BY <1>1, <1>6, SameTree
  <1>8. /\ ~moved => turn = <<>>
        /\ ~moved /\ vmaOp = "find" =>
             /\ node \in T \union {0}
             /\ node \in T => \A n \in T : page \in Vads[n].first .. Vads[n].last => n \in D[node]
    BY <1>1, <1>6 DEF SearchRight
  <1>9. node # 0 => node \in DOMAIN Vads  BY <1>1 DEF Nodes
  <1>10. CASE page < VmaStart(node)
    <2>1. vmaAt' = "left"  BY <1>10 DEF Compare
    <2>2. node # 0  BY <1>1, <1>2, <1>10
    <2>3. ASSUME NEW n \in T, page \in Vads[n].first .. Vads[n].last PROVE n < node
      BY <1>1, <1>2, <1>3, <1>4, <1>9, <1>10, <2>2, <2>3
    <2>4. SearchRight(T, D)'  BY <1>1, <1>8, <2>1, <2>3 DEF SearchRight
    <2>5. VadTypeOK'  BY <1>0, <1>1, <2>1, <2>2 DEF VadTypeOK
    <2>6. VmaLookupRight'  BY <2>1 DEF VmaLookupRight
    <2> QED BY <1>7, <2>4, <2>5, <2>6 DEF VadInv
  <1>11. CASE ~(page < VmaStart(node)) /\ page < VmaEnd(node)
    <2>1. vmaAt' = "done" /\ vma' = node  BY <1>11 DEF Compare, EndVma
    <2>2. node \in DOMAIN Vads => page \in Vads[node].first .. Vads[node].last
      BY <1>1, <1>2, <1>3, <1>11
    <2>3. node # -1  BY <1>3, <1>9
    <2>4. VmaLookupRight'  BY <1>1, <2>1, <2>2, <2>3 DEF VmaLookupRight
    <2>5. moved' \in BOOLEAN /\ vmaOp' \in {"none", "find", "walk"} /\ page' \in Nat
      BY <1>0, <1>1 DEF VadTypeOK
    <2> QED BY <1>1, <1>8, <2>1, <2>4, <2>5, NoSearch
  <1>12. CASE ~(page < VmaStart(node)) /\ ~(page < VmaEnd(node))
    <2>1. vmaAt' = "right"  BY <1>12 DEF Compare
    <2>2. ASSUME node # 0, NEW n \in T, page \in Vads[n].first .. Vads[n].last PROVE n > node
      BY <1>1, <1>2, <1>3, <1>4, <1>9, <1>12, <2>2
    <2>3. 0 \notin T  BY <1>3
    <2>4. SearchRight(T, D)'  BY <1>1, <1>8, <2>1, <2>2, <2>3 DEF SearchRight
    <2>5. VadTypeOK'  BY <1>0, <1>1, <2>1 DEF VadTypeOK
    <2>6. VmaLookupRight'  BY <2>1 DEF VmaLookupRight
    <2> QED BY <1>7, <2>4, <2>5, <2>6 DEF VadInv
  <1> QED BY <1>10, <1>11, <1>12

\* The link that is followed leads to them, and when it is null there are none.
LEMMA DescendInv ==
  ASSUME VadInv, Descend
  PROVE  VadInv'
  <1>0. VadTypeOK  BY DEF VadInv
  <1> DEFINE child == IF vmaAt = "left" THEN left[node] ELSE right[node]
  <1>1. /\ vmaAt \in {"left", "right"} /\ vmaOp = "find" /\ (vmaAt = "left" => node # 0)
        /\ UNCHANGED <<era, left, right, treeRoot, turn, moved, vmaOp, page>>
        /\ node \in Nodes /\ (era = "new" => node # 0) /\ page \in Nat
        /\ moved' \in BOOLEAN
    BY <1>0 DEF Descend, treeVars, VadTypeOK
  <1>2. \A a \in DOMAIN Vads : a \in Nat /\ a # 0 /\ a # -1  BY NodeNumbers
  <1>3. PICK T \in SUBSET DOMAIN Vads : \E D \in [T -> SUBSET T] : TreeRight(T, D) /\ SearchRight(T, D)
    BY DEF VadInv
  <1>4. PICK D \in [T -> SUBSET T] : TreeRight(T, D) /\ SearchRight(T, D)  BY <1>3
  <1>5. TreeRight(T, D)' /\ InTree' = InTree  BY <1>1, <1>4, SameTree
  <1>6. ~moved => turn = <<>>  BY <1>1, <1>4 DEF SearchRight
  <1>7. ASSUME ~moved
        PROVE  /\ InTree = T /\ child \in T \union {-1}
               /\ \A n \in T : page \in Vads[n].first .. Vads[n].last => child # -1 /\ n \in D[child]
    <2>1. InTree = T /\ Subtrees(T, D, left, right, Top)  BY <1>0, <1>4, <1>6, <1>7, InTreeIs
    <2>2. /\ node \in T \union {0}
          /\ node \in T => \A n \in T : page \in Vads[n].first .. Vads[n].last =>
               /\ n \in D[node]
               /\ vmaAt = "left" => n < node
               /\ vmaAt = "right" => n > node
      BY <1>1, <1>4, <1>7 DEF SearchRight
    <2>3. CASE node \in T
      <3>1. left[node] \in T \union {-1} /\ right[node] \in T \union {-1}  BY <2>1, <2>3 DEF Subtrees
      <3>2. \A n \in T : /\ n \in D[node] /\ n < node <=> left[node] # -1 /\ n \in D[left[node]]
                         /\ n \in D[node] /\ n > node <=> right[node] # -1 /\ n \in D[right[node]]
        BY <2>1, <2>3 DEF Subtrees
      <3> QED BY <1>1, <2>1, <2>2, <2>3, <3>1, <3>2
    <2>4. CASE node = 0
      <3>1. vmaAt = "right" /\ child = Top  BY <1>1, <2>4 DEF Top
      <3>2. Top \in T \union {-1} /\ (Top = -1 => T = {}) /\ (Top # -1 => D[Top] = T)
        BY <2>1 DEF Subtrees
      <3> HIDE DEF child
      <3> QED BY <2>1, <3>1, <3>2
    <2> QED BY <2>2, <2>3, <2>4
  <1>8. child \in DOMAIN Vads \union {-1}  BY <1>0, <1>1 DEF VadTypeOK
  <1>9. CASE era = "none"
    <2>1. vmaAt' = "done" /\ vma' = -2  BY <1>9 DEF Descend, EndVma, VmaError
    <2>2. VmaLookupRight'  BY <1>2, <2>1 DEF VmaLookupRight
    <2> QED BY <1>1, <1>6, <2>1, <2>2, NoSearch
  <1>10. CASE era # "none" /\ child = -1
    <2>1. vmaAt' = "done" /\ vma' = -1  BY <1>10 DEF Descend, EndVma
    <2>2. ~moved => \A n \in InTree : page \notin Vads[n].first .. Vads[n].last  BY <1>7, <1>10
    <2>3. VmaLookupRight'  BY <1>1, <1>2, <1>5, <2>1, <2>2 DEF VmaLookupRight
    <2> QED BY <1>1, <1>6, <2>1, <2>3, NoSearch
  <1>11. CASE era # "none" /\ child # -1
    <2>1. node' = child /\ vmaAt' = "compare"  BY <1>11 DEF Descend
    <2> HIDE DEF child
    <2>2. SearchRight(T, D)'  BY <1>1, <1>6, <1>7, <1>11, <2>1 DEF SearchRight
    <2>3. VadTypeOK'  BY <1>0, <1>1, <1>2, <1>8, <1>11, <2>1 DEF VadTypeOK, Nodes
    <2>4. VmaLookupRight'  BY <2>1 DEF VmaLookupRight
    <2> QED BY <1>5, <2>2, <2>3, <2>4 DEF VadInv
  <1> QED BY <1>9, <1>10, <1>11

\* A read fails, and the steps of a walk.
LEMMA WalkInv ==
  ASSUME VadInv, VadFault \/ CallWalk \/ IterateTree \/ WalkReturns
  PROVE  VadInv'
  <1>0. VadTypeOK  BY DEF VadInv
  <1>1. \A a \in DOMAIN Vads : a # -2  BY NodeNumbers
  <1>2. vmaAt # "idle" /\ ~moved => turn = <<>>  BY DEF VadInv, SearchRight
  <1>3. vmaOp \in {"none", "find", "walk"} /\ page \in Nat /\ moved \in BOOLEAN
        /\ (vmaAt = "walk" => vmaOp = "walk")
    BY <1>0 DEF VadTypeOK
  <1>4. CASE VadFault
    <2>1. vmaAt # "idle" /\ vmaAt' = "done" /\ vma' = -2 /\ UNCHANGED <<era, left, right, treeRoot, turn, moved, vmaOp, page>>
      BY <1>4 DEF VadFault, EndVma, VmaError, treeVars
    <2>2. VmaLookupRight'  BY <1>1, <2>1 DEF VmaLookupRight
    <2> QED BY <1>2, <1>3, <2>1, <2>2, NoSearch
  <1>5. CASE CallWalk
    <2>1. vmaAt' \in {"walk", "done"} /\ vmaOp' = "walk" /\ moved' = FALSE /\ turn = <<>>
          /\ UNCHANGED <<era, left, right, treeRoot, turn, page>>
      BY <1>5 DEF CallWalk, EndVma
    <2>2. VmaLookupRight'  BY <2>1 DEF VmaLookupRight
    <2> QED BY <1>2, <1>3, <2>1, <2>2, NoSearch
  <1>6. CASE IterateTree \/ WalkReturns
    <2>1. vmaAt = "walk" /\ vmaAt' \in {"walk", "done"} /\ UNCHANGED <<era, left, right, treeRoot, turn, moved, vmaOp, page>>
      BY <1>6 DEF IterateTree, WalkReturns, EndVma, treeVars
    <2>2. VmaLookupRight'  BY <1>3, <2>1 DEF VmaLookupRight
    <2> QED BY <1>2, <1>3, <2>1, <2>2, NoSearch
  <1> QED BY <1>4, <1>5, <1>6

-----------------------------------------------------------------------------
(* The theorems *)

\* At first there is no tree.
LEMMA VadInitInv ==
  ASSUME VadInit
  PROVE  VadInv
  <1> DEFINE D == [n \in {} |-> {}]
  <1>1. D \in [{} -> SUBSET {}]  OBVIOUS
  <1> HIDE DEF D
  <1>2. \A a \in DOMAIN Vads : a \in Nodes  BY DEF Nodes
  <1>3. 0 \in Nodes  BY DEF Nodes
  <1>4. left = [n \in Nodes |-> -1] /\ right = left /\ treeRoot = -1 /\ turn = <<>>
    BY DEF VadInit
  <1>5. LeftBefore = left /\ RightBefore = right /\ Top = -1
    BY <1>3, <1>4 DEF LeftBefore, RightBefore, Top
  <1>6. Subtrees({}, D, LeftBefore, RightBefore, Top)
    BY <1>2, <1>4, <1>5 DEF Subtrees
  <1>7. TreeRight({}, D)  BY <1>1, <1>3, <1>4, <1>6 DEF TreeRight
  <1>8. SearchRight({}, D)  BY DEF SearchRight, VadInit
  <1>9. VadTypeOK  BY <1>4 DEF VadTypeOK, VadInit
  <1>10. VmaLookupRight  BY DEF VmaLookupRight, VadInit
  <1> QED BY <1>1, <1>7, <1>8, <1>9, <1>10 DEF VadInv

\* Every step keeps the invariant.
LEMMA VadInductive == VadInv /\ [VadNext]_vadVars => VadInv'
  <1> SUFFICES ASSUME VadInv, [VadNext]_vadVars PROVE VadInv'  OBVIOUS
  <1>1. CASE VadGuest  BY <1>1, GuestInv
  <1>2. ASSUME NEW p \in Pages, CallFind(p) PROVE VadInv'  BY <1>2, CallFindInv
  <1>3. CASE Compare  BY <1>3, CompareInv
  <1>4. CASE Descend  BY <1>4, DescendInv
  <1>5. CASE VadFault \/ CallWalk \/ IterateTree \/ WalkReturns  BY <1>5, WalkInv
  <1>6. CASE UNCHANGED vadVars
    <2>1. UNCHANGED <<era, left, right, treeRoot, turn, moved, vmaOp, page, vmaAt, node, vma>>
      BY <1>6 DEF vadVars
    <2>2. PICK T \in SUBSET DOMAIN Vads : \E D \in [T -> SUBSET T] : TreeRight(T, D) /\ SearchRight(T, D)
      BY DEF VadInv
    <2>3. PICK D \in [T -> SUBSET T] : TreeRight(T, D) /\ SearchRight(T, D)  BY <2>2
    <2>4. TreeRight(T, D)' /\ InTree' = InTree  BY <2>1, <2>3, SameTree
    <2>5. SearchRight(T, D)'  BY <2>1, <2>3 DEF SearchRight
    <2>6. VadTypeOK'  BY <2>1 DEF VadInv, VadTypeOK
    <2>7. VmaLookupRight'  BY <2>1, <2>4 DEF VadInv, VmaLookupRight
    <2> QED BY <2>4, <2>5, <2>6, <2>7 DEF VadInv
  <1> QED BY <1>1, <1>2, <1>3, <1>4, <1>5, <1>6 DEF VadNext

\* The guest's tree is a search tree of its areas whatever is inserted,
\* removed or rotated, and while it keeps still the areas with the page that
\* find_in_tree looks for are below the node it is at.
THEOREM VadInvariant == VadSpec => []VadInv
  <1>1. VadInit => VadInv  BY VadInitInv
  <1> QED BY <1>1, VadInductive, PTL DEF VadSpec

\* process_find_vma_by_address gives an area that has the page even when the
\* tree is rebalanced under it, and when the tree keeps still it misses none,
\* in either layout and for any width of the low part of a page number.
THEOREM VmaLookupRightAlways == VadSpec => []VmaLookupRight
  <1>1. VadInv => VmaLookupRight  BY DEF VadInv
  <1> QED BY <1>1, VadInvariant, PTL

-----------------------------------------------------------------------------
(* Walking in order *)

\* What WalkOrdered says of calls st and nodes ys given to the closure, when
\* G is to be given.
Progress(T, D, G, st, ys) ==
  /\ st \in Seq(Calls(T)) /\ ys \in Seq(G)
  /\ \A w \in G : w \in Range(ys) <=> \A i \in DOMAIN st : w \notin ToGive(T, D, st[i])
  /\ \A w \in G : w \notin Range(ys) => \A i \in DOMAIN ys : ys[i] < w
  /\ \A i, k \in DOMAIN ys : i < k => ys[i] < ys[k]
  /\ \A i, k \in DOMAIN st : i < k =>
       \A a \in Under(T, D, st[k].node), b \in ToGive(T, D, st[i]) : a < b

\* The calls of st2 are those of st but for the last one, that goes on with
\* what it is for.
GoesOn(T, st, st2) ==
  /\ st2 \in Seq(Calls(T)) /\ Len(st) > 0 /\ Len(st2) >= Len(st)
  /\ \A i \in 1 .. Len(st) - 1 : st2[i] = st[i]
  /\ st2[Len(st)].node = st[Len(st)].node

\* What a call has yet to give is a part of what it is for.
LEMMA ToGiveUnder == \A T, D, c : ToGive(T, D, c) \subseteq Under(T, D, c.node)
  BY DEF ToGive

\* A call hands what it gives next over to a call for a child, when there is
\* anything.
LEMMA HandOver ==
  ASSUME NEW T, NEW D, NEW G \in SUBSET Nat, NEW st, NEW st2, NEW ys,
         Progress(T, D, G, st, ys), GoesOn(T, st, st2),
         NEW c, NEW c2, c = st[Len(st)], c2 = st2[Len(st)],
         \/ Len(st2) = Len(st) /\ ToGive(T, D, c2) = ToGive(T, D, c)
         \/ /\ Len(st2) = Len(st) + 1
            /\ ToGive(T, D, c) = ToGive(T, D, c2) \union Under(T, D, st2[Len(st) + 1].node)
            /\ ToGive(T, D, st2[Len(st) + 1]) = Under(T, D, st2[Len(st) + 1].node)
            /\ \A a \in Under(T, D, st2[Len(st) + 1].node), b \in ToGive(T, D, c2) : a < b
  PROVE  Progress(T, D, G, st2, ys)
  <1>1. /\ st \in Seq(Calls(T)) /\ ys \in Seq(G)
        /\ \A w \in G : w \in Range(ys) <=> \A i \in DOMAIN st : w \notin ToGive(T, D, st[i])
        /\ \A i, k \in DOMAIN st : i < k =>
             \A a \in Under(T, D, st[k].node), b \in ToGive(T, D, st[i]) : a < b
    BY DEF Progress
  <1>2. PICK n \in Nat : n = Len(st) /\ DOMAIN st = 1 .. n  BY <1>1
  <1>3. /\ st2 \in Seq(Calls(T)) /\ n > 0 /\ \A i \in 1 .. n - 1 : st2[i] = st[i]
        /\ c2.node = c.node /\ c = st[n] /\ c2 = st2[n]
    BY <1>2 DEF GoesOn
  <1>4. CASE Len(st2) = n /\ ToGive(T, D, c2) = ToGive(T, D, c)
    <2>1. DOMAIN st2 = 1 .. n  BY <1>3, <1>4
    <2>2. \A i \in 1 .. n : ToGive(T, D, st2[i]) = ToGive(T, D, st[i]) /\ st2[i].node = st[i].node
      BY ONLY <1>3, <1>4, n \in Nat
    <2>3. \A i, k \in DOMAIN st2 : i < k =>
            \A a \in Under(T, D, st2[k].node), b \in ToGive(T, D, st2[i]) : a < b
      BY ONLY <1>1, <1>2, <2>1, <2>2
    <2>4. \A w \in G : w \in Range(ys) <=> \A i \in DOMAIN st2 : w \notin ToGive(T, D, st2[i])
      BY ONLY <1>1, <1>2, <2>1, <2>2
    <2> QED BY <1>3, <2>3, <2>4 DEF Progress
  <1>5. CASE /\ Len(st2) = n + 1
             /\ ToGive(T, D, c) = ToGive(T, D, c2) \union Under(T, D, st2[n + 1].node)
             /\ ToGive(T, D, st2[n + 1]) = Under(T, D, st2[n + 1].node)
             /\ \A a \in Under(T, D, st2[n + 1].node), b \in ToGive(T, D, c2) : a < b
    <2>1. DOMAIN st2 = 1 .. n + 1  BY <1>3, <1>5
    <2>2. PICK d : d = st2[n + 1]  OBVIOUS
    <2>3. \A i \in 1 .. n : st2[i].node = st[i].node /\ ToGive(T, D, st2[i]) \subseteq ToGive(T, D, st[i])
      BY ONLY <1>3, <1>5, n \in Nat
    <2>4. \A a \in Under(T, D, d.node) : a \in Under(T, D, st[n].node)
      BY <1>3, <1>5, <2>2, ToGiveUnder
    <2>5. \A i, k \in DOMAIN st2 : i < k =>
            \A a \in Under(T, D, st2[k].node), b \in ToGive(T, D, st2[i]) : a < b
      <3> SUFFICES ASSUME NEW i \in 1 .. n + 1, NEW k \in 1 .. n + 1, i < k,
                          NEW a \in Under(T, D, st2[k].node), NEW b \in ToGive(T, D, st2[i])
                   PROVE  a < b
        BY <2>1
      <3>1. i \in 1 .. n /\ i \in DOMAIN st /\ b \in ToGive(T, D, st[i])  BY <1>2, <2>3
      <3>2. CASE k \in 1 .. n
        <4>1. k \in DOMAIN st /\ a \in Under(T, D, st[k].node)  BY <1>2, <2>3, <3>2
        <4> QED BY <1>1, <3>1, <4>1
      <3>3. CASE k = n + 1 /\ i = n  BY <1>3, <1>5, <3>3
      <3>4. CASE k = n + 1 /\ i # n
        <4>1. n \in DOMAIN st /\ i < n  BY <1>2, <1>3, <3>1, <3>4
        <4>2. a \in Under(T, D, st[n].node)  BY <2>2, <2>4, <3>4
        <4> QED BY <1>1, <3>1, <4>1, <4>2
      <3> QED BY <3>2, <3>3, <3>4
    <2>6. ASSUME NEW w \in G
          PROVE  w \in Range(ys) <=> \A i \in DOMAIN st2 : w \notin ToGive(T, D, st2[i])
      <3>1. \A i \in 1 .. n - 1 : w \in ToGive(T, D, st2[i]) <=> w \in ToGive(T, D, st[i])  BY <1>3
      <3>2. w \in ToGive(T, D, st[n]) <=> w \in ToGive(T, D, st2[n]) \/ w \in ToGive(T, D, st2[n + 1])
        BY <1>3, <1>5
      <3>3. n \in 1 .. n /\ n \in 1 .. n + 1 /\ n + 1 \in 1 .. n + 1
            /\ \A i \in 1 .. n + 1 : i \in 1 .. n - 1 \/ i = n \/ i = n + 1
        BY <1>3
      <3>4. (\A i \in 1 .. n : w \notin ToGive(T, D, st[i])) <=> (\A i \in 1 .. n + 1 : w \notin ToGive(T, D, st2[i]))
        BY ONLY <3>1, <3>2, <3>3, n \in Nat
      <3> QED BY <1>1, <1>2, <2>1, <3>4
    <2> QED BY <1>3, <2>5, <2>6 DEF Progress
  <1> QED BY <1>2, <1>4, <1>5

\* A call gives its node, the least of what it has left.
LEMMA GivesNode ==
  ASSUME NEW T, NEW D, NEW G \in SUBSET Nat, NEW st, NEW st2, NEW ys,
         Progress(T, D, G, st, ys), GoesOn(T, st, st2), Len(st2) = Len(st),
         NEW c, NEW c2, c = st[Len(st)], c2 = st2[Len(st)], NEW x \in G,
         ToGive(T, D, c) = ToGive(T, D, c2) \union {x}, \A b \in ToGive(T, D, c2) : x < b
  PROVE  Progress(T, D, G, st2, Append(ys, x))
  <1>1. /\ st \in Seq(Calls(T)) /\ ys \in Seq(G)
        /\ \A w \in G : w \in Range(ys) <=> \A i \in DOMAIN st : w \notin ToGive(T, D, st[i])
        /\ \A w \in G : w \notin Range(ys) => \A i \in DOMAIN ys : ys[i] < w
        /\ \A i, k \in DOMAIN ys : i < k => ys[i] < ys[k]
        /\ \A i, k \in DOMAIN st : i < k =>
             \A a \in Under(T, D, st[k].node), b \in ToGive(T, D, st[i]) : a < b
    BY DEF Progress
  <1>2. PICK n \in Nat : n = Len(st) /\ DOMAIN st = 1 .. n  BY <1>1
  <1>3. /\ st2 \in Seq(Calls(T)) /\ n > 0 /\ \A i \in 1 .. n - 1 : st2[i] = st[i]
        /\ c2.node = c.node /\ c = st[n] /\ c2 = st2[n] /\ DOMAIN st2 = 1 .. n
    BY <1>2 DEF GoesOn
  <1>4. PICK m \in Nat : m = Len(ys) /\ DOMAIN ys = 1 .. m  BY <1>1
  <1>5. PICK zs : zs = Append(ys, x)  OBVIOUS
  <1>6. zs \in Seq(G) /\ DOMAIN zs = 1 .. m + 1 /\ zs[m + 1] = x /\ \A i \in 1 .. m : zs[i] = ys[i]
    BY <1>1, <1>4, <1>5
  <1>7. \A w : w \in Range(zs) <=> w \in Range(ys) \/ w = x
    BY ONLY <1>4, <1>6, m \in Nat DEF Range
  <1>8. n \in 1 .. n /\ \A i \in 1 .. n : i \in 1 .. n - 1 \/ i = n  BY <1>3
  <1>9. x \in Under(T, D, st[n].node) /\ x \in ToGive(T, D, st[n])
    <2>1. x \in ToGive(T, D, st[n])  BY <1>3
    <2> QED BY <2>1, ToGiveUnder
  <1>10. x \notin Range(ys)  BY <1>1, <1>2, <1>8, <1>9
  <1>11. \A i \in 1 .. n - 1 : \A b \in ToGive(T, D, st[i]) : x < b
    <2>1. \A i \in 1 .. n - 1 : i \in DOMAIN st /\ i < n /\ n \in DOMAIN st  BY <1>2, <1>8
    <2> QED BY <1>1, <1>9, <2>1
  <1>12. \A i \in 1 .. n : \A b \in ToGive(T, D, st2[i]) : x < b  BY <1>3, <1>8, <1>11
  <1>13. \A i \in 1 .. n : x \notin ToGive(T, D, st2[i])
    <2>1. ~(x < x)  OBVIOUS
    <2> QED BY ONLY <1>12, <2>1
  <1>14. \A w : \A i \in 1 .. n : w \in ToGive(T, D, st[i]) <=> w \in ToGive(T, D, st2[i]) \/ (i = n /\ w = x)
    BY ONLY <1>3, <1>8, n \in Nat, c = st[n], c2 = st2[n], ToGive(T, D, c) = ToGive(T, D, c2) \union {x}
  <1>15. \A w \in G : w \in Range(zs) <=> \A i \in DOMAIN st2 : w \notin ToGive(T, D, st2[i])
    <2>1. ASSUME NEW w \in G PROVE w \in Range(zs) <=> \A i \in 1 .. n : w \notin ToGive(T, D, st2[i])
      <3>1. CASE w = x  BY <1>7, <1>13, <3>1
      <3>2. CASE w # x
        <4>1. w \in Range(zs) <=> w \in Range(ys)  BY <1>7, <3>2
        <4>2. \A i \in 1 .. n : w \in ToGive(T, D, st[i]) <=> w \in ToGive(T, D, st2[i])  BY <1>14, <3>2
        <4> QED BY <1>1, <1>2, <4>1, <4>2
      <3> QED BY <3>1, <3>2
    <2> QED BY <1>3, <2>1
  <1>16. \A i \in 1 .. m : ys[i] < x  BY <1>1, <1>4, <1>10
  <1>17. \A w \in G : w \notin Range(zs) => \A i \in DOMAIN zs : zs[i] < w
    <2> SUFFICES ASSUME NEW w \in G, w \notin Range(zs), NEW i \in 1 .. m + 1 PROVE zs[i] < w
      BY <1>6
    <2>1. w \notin Range(ys)  BY <1>7
    <2>2. CASE i \in 1 .. m  BY <1>1, <1>4, <1>6, <2>1, <2>2
    <2>3. CASE i = m + 1
      <3>1. PICK k \in 1 .. n : w \in ToGive(T, D, st2[k])  BY <1>3, <1>15
      <3> QED BY <1>6, <1>12, <2>3, <3>1
    <2> QED BY <2>2, <2>3
  <1>18. \A i, k \in DOMAIN zs : i < k => zs[i] < zs[k]
    <2> SUFFICES ASSUME NEW i \in 1 .. m + 1, NEW k \in 1 .. m + 1, i < k PROVE zs[i] < zs[k]  BY <1>6
    <2>1. i \in 1 .. m /\ zs[i] = ys[i]  BY <1>6
    <2>2. CASE k = m + 1  BY ONLY <1>6, <1>16, <2>1, <2>2
    <2>3. CASE k # m + 1
      <3>1. k \in 1 .. m /\ zs[k] = ys[k]  BY <1>6, <2>3
      <3> QED BY <1>1, <1>4, <2>1, <3>1
    <2> QED BY <2>2, <2>3
  <1>19. \A i, k \in DOMAIN st2 : i < k =>
           \A a \in Under(T, D, st2[k].node), b \in ToGive(T, D, st2[i]) : a < b
    <2>1. \A i \in 1 .. n : st2[i].node = st[i].node  BY <1>3, <1>8
    <2>2. \A i \in 1 .. n : ToGive(T, D, st2[i]) \subseteq ToGive(T, D, st[i])  BY <1>14
    <2> QED BY ONLY <1>1, <1>2, <1>3, <2>1, <2>2
  <1> QED BY <1>3, <1>5, <1>6, <1>15, <1>17, <1>18, <1>19 DEF Progress

\* A call that has given everything returns.
LEMMA CallReturns ==
  ASSUME NEW T, NEW D, NEW G, NEW st, NEW st2, NEW ys, Progress(T, D, G, st, ys),
         Len(st) > 0, st2 \in Seq(Calls(T)), Len(st2) = Len(st) - 1,
         \A i \in DOMAIN st2 : st2[i] = st[i], ToGive(T, D, st[Len(st)]) = {}
  PROVE  Progress(T, D, G, st2, ys)
  <1>1. /\ st \in Seq(Calls(T)) /\ ys \in Seq(G)
        /\ \A w \in G : w \in Range(ys) <=> \A i \in DOMAIN st : w \notin ToGive(T, D, st[i])
        /\ \A i, k \in DOMAIN st : i < k =>
             \A a \in Under(T, D, st[k].node), b \in ToGive(T, D, st[i]) : a < b
    BY DEF Progress
  <1>2. PICK n \in Nat : n = Len(st) /\ DOMAIN st = 1 .. n  BY <1>1
  <1>3. DOMAIN st2 = 1 .. n - 1 /\ n > 0  BY <1>2
  <1>4. \A i \in 1 .. n : i \in 1 .. n - 1 \/ i = n  OBVIOUS
  <1>5. \A w \in G : w \in Range(ys) <=> \A i \in DOMAIN st2 : w \notin ToGive(T, D, st2[i])
    <2>1. \A i \in 1 .. n - 1 : i \in 1 .. n /\ st2[i] = st[i]  BY <1>3
    <2>2. \A w : w \notin ToGive(T, D, st[n])  BY <1>2
    <2> QED BY ONLY <1>1, <1>2, <1>3, <1>4, <2>1, <2>2
  <1>6. \A i, k \in DOMAIN st2 : i < k =>
           \A a \in Under(T, D, st2[k].node), b \in ToGive(T, D, st2[i]) : a < b
    <2>1. \A i \in DOMAIN st2 : i \in DOMAIN st /\ st2[i] = st[i]  BY <1>2, <1>3
    <2> QED BY <1>1, <2>1
  <1> QED BY <1>5, <1>6 DEF Progress

\* The nodes to give are numbers.
LEMMA GivenNumbers ==
  ASSUME NEW T \in SUBSET DOMAIN Vads
  PROVE  Given(T) \in SUBSET Nat /\ T \subseteq Given(T) /\ Given(T) \subseteq T \union {0}
  BY NodeNumbers DEF Given

\* While the tree keeps still, the links of a node lead to what is below it
\* on either side.
LEMMA SidesOf ==
  ASSUME VadTypeOK, NEW T \in SUBSET DOMAIN Vads, NEW D \in [T -> SUBSET T], TreeRight(T, D), turn = <<>>,
         NEW n \in T \union {0}, n = 0 => era # "new"
  PROVE  /\ n \in Under(T, D, n) /\ Under(T, D, n) \subseteq Given(T) /\ n \in Nat
         /\ left[n] \in T \union {Null} /\ right[n] \in T \union {Null}
         /\ \A m \in Under(T, D, n) : m < n <=> left[n] # Null /\ m \in Under(T, D, left[n])
         /\ \A m \in Under(T, D, n) : m > n <=> right[n] # Null /\ m \in Under(T, D, right[n])
         /\ left[n] # Null => Under(T, D, left[n]) \subseteq Under(T, D, n)
         /\ right[n] # Null => Under(T, D, right[n]) \subseteq Under(T, D, n)
  <1>0. \A a \in T : a \in Nat /\ a # -1 /\ a # 0 /\ a > 0  BY NodeNumbers
  <1>1. Subtrees(T, D, left, right, Top)  BY InTreeIs
  <1>2. \A a \in T : Under(T, D, a) = D[a] /\ D[a] \subseteq T  BY <1>0 DEF Under
  <1>3. CASE n \in T
    <2>1. n \in D[n] /\ left[n] \in T \union {-1} /\ right[n] \in T \union {-1}  BY <1>1, <1>3 DEF Subtrees
    <2>2. \A m \in T : /\ m \in D[n] /\ m < n <=> left[n] # -1 /\ m \in D[left[n]]
                       /\ m \in D[n] /\ m > n <=> right[n] # -1 /\ m \in D[right[n]]
      BY <1>1, <1>3 DEF Subtrees
    <2>3. left[n] # -1 => Under(T, D, left[n]) = D[left[n]] /\ D[left[n]] \subseteq T  BY <1>2, <2>1
    <2>4. right[n] # -1 => Under(T, D, right[n]) = D[right[n]] /\ D[right[n]] \subseteq T  BY <1>2, <2>1
    <2>5. Under(T, D, n) = D[n] /\ D[n] \subseteq T /\ n \in Nat  BY <1>0, <1>2, <1>3
    <2>6. T \subseteq Given(T)  BY DEF Given
    <2> QED BY ONLY <2>1, <2>2, <2>3, <2>4, <2>5, <2>6 DEF Null
  <1>4. CASE n = 0
    <2>1. left[0] = -1 /\ right[0] = Top  BY <1>4 DEF TreeRight, Top
    <2>2. Top \in T \union {-1} /\ (Top = -1 => T = {}) /\ (Top # -1 => D[Top] = T)  BY <1>1 DEF Subtrees
    <2>3. Under(T, D, n) = T \union {0} /\ Given(T) = T \union {0}  BY <1>4 DEF Under, Given
    <2>4. Top # -1 => Under(T, D, Top) = T  BY <1>2, <2>2
    <2>5. ~(0 < 0) /\ ~(0 > 0) /\ 0 \in Nat /\ \A a \in T : ~(a < 0) /\ a > 0  BY <1>0
    <2>6. Top # -1 => 0 \notin Under(T, D, Top)  BY <1>0, <2>4
    <2> QED BY ONLY <1>4, <2>1, <2>2, <2>3, <2>4, <2>5, <2>6 DEF Null
  <1> QED BY <1>3, <1>4

\* WalkOrdered, while a walk goes on.
LEMMA OrderedIs ==
  ASSUME NEW T, NEW D, ~moved, vmaAt = "walk"
  PROVE  WalkOrdered(T, D) <=>
           /\ Progress(T, D, Given(T), stack, yielded)
           /\ \A i \in DOMAIN stack : stack[i].node = 0 => era # "new"
           /\ era = "none" => stack # <<>>
  BY DEF WalkOrdered, Progress

LEMMA OrderedIsPrime ==
  ASSUME NEW T, NEW D, ~moved', vmaAt' = "walk"
  PROVE  WalkOrdered(T, D)' <=>
           /\ Progress(T, D, Given(T)', stack', yielded')
           /\ \A i \in DOMAIN stack' : stack'[i].node = 0 => era' # "new"
           /\ era' = "none" => stack' # <<>>
  BY DEF WalkOrdered, Progress, Under, ToGive, Calls

\* A call of iterate_tree has gone on, and there may be one more.
LEMMA CallsAre ==
  ASSUME NEW T, NEW st \in Seq(Calls(T)), NEW mid, GoesOn(T, st, mid), Len(mid) = Len(st),
         NEW x \in T \union {Null}, NEW st2, st2 = CallTree(mid, x)
  PROVE  /\ GoesOn(T, st, st2) /\ st2[Len(st)] = mid[Len(st)]
         /\ x = Null => Len(st2) = Len(st)
         /\ x # Null => Len(st2) = Len(st) + 1 /\ st2[Len(st) + 1] = [node |-> x, at |-> "left"]
  <1>1. PICK n \in Nat : n = Len(st)  OBVIOUS
  <1>2. PICK C : C = Calls(T)  OBVIOUS
  <1>3. /\ mid \in Seq(C) /\ Len(mid) = n /\ n > 0 /\ mid[n].node = st[n].node
        /\ \A i \in 1 .. n - 1 : mid[i] = st[i]
    BY <1>1, <1>2 DEF GoesOn
  <1>4. CASE x = Null
    <2>1. st2 = mid  BY <1>4 DEF CallTree
    <2> QED BY <1>4, <2>1
  <1>5. CASE x # Null
    <2>1. PICK e : e = [node |-> x, at |-> "left"]  OBVIOUS
    <2>2. e \in C  BY <1>2, <1>5, <2>1 DEF Calls
    <2>3. st2 = Append(mid, e)  BY <1>5, <2>1 DEF CallTree
    <2>4. st2 \in Seq(C) /\ Len(st2) = n + 1 /\ st2[n + 1] = e /\ st2[n] = mid[n]
          /\ \A i \in 1 .. n - 1 : st2[i] = mid[i]
      BY ONLY <1>3, <2>2, <2>3, n \in Nat
    <2>5. st2 \in Seq(Calls(T)) /\ Len(st2) = Len(st) + 1 /\ st2[Len(st) + 1] = e /\ st2[Len(st)] = mid[Len(st)]
      BY <1>1, <1>2, <2>4
    <2>6. (\A i \in 1 .. Len(st) - 1 : st2[i] = st[i]) /\ st2[Len(st)].node = st[Len(st)].node
      BY <1>1, <1>3, <2>4
    <2>7. GoesOn(T, st, st2)
      <3>1. Len(st) > 0 /\ Len(st2) >= Len(st)  BY <1>1, <1>3, <2>5
      <3> QED BY ONLY <2>5, <2>6, <3>1 DEF GoesOn
    <2> QED BY <1>5, <2>1, <2>5, <2>7
  <1> QED BY <1>4, <1>5

\* Only the outermost call of the old layout is for the node inside of the
\* process.
LEMMA RootsKept ==
  ASSUME NEW T, NEW st \in Seq(Calls(T)), NEW st2, GoesOn(T, st, st2), NEW e,
         \A i \in DOMAIN st : st[i].node = 0 => e # "new",
         Len(st2) = Len(st) \/ (Len(st2) = Len(st) + 1 /\ st2[Len(st) + 1].node # 0)
  PROVE  \A i \in DOMAIN st2 : st2[i].node = 0 => e # "new"
  <1>1. PICK n \in Nat : n = Len(st) /\ DOMAIN st = 1 .. n  OBVIOUS
  <1>2. st2 \in Seq(Calls(T)) /\ n > 0 /\ (\A i \in 1 .. n - 1 : st2[i] = st[i]) /\ st2[n].node = st[n].node
    BY <1>1 DEF GoesOn
  <1>3. \A i \in 1 .. n : st2[i].node = st[i].node  BY <1>2
  <1>4. \A i \in DOMAIN st2 : i \in 1 .. n \/ (i = n + 1 /\ st2[i].node # 0)
    <2>1. CASE Len(st2) = n
      <3>1. DOMAIN st2 = 1 .. n  BY <1>2, <2>1
      <3> QED BY <3>1
    <2>2. CASE Len(st2) = n + 1 /\ st2[n + 1].node # 0
      <3>1. DOMAIN st2 = 1 .. n + 1  BY <1>2, <2>2
      <3> QED BY ONLY <2>2, <3>1, n \in Nat
    <2> QED BY <1>1, <2>1, <2>2
  <1> QED BY <1>1, <1>3, <1>4

\* What a call has yet to give, by where it is.
LEMMA ToGiveAt ==
  ASSUME NEW T, NEW D, NEW c
  PROVE  /\ c.at = "left" => ToGive(T, D, c) = Under(T, D, c.node)
         /\ c.at = "give" => ToGive(T, D, c) = {m \in Under(T, D, c.node) : m >= c.node}
         /\ c.at = "right" => ToGive(T, D, c) = {m \in Under(T, D, c.node) : m > c.node}
         /\ c.at = "return" => ToGive(T, D, c) = {}
  BY DEF ToGive

\* iterate_tree takes a step.
LEMMA IterateOrdered ==
  ASSUME VadTypeOK, NEW T \in SUBSET DOMAIN Vads, NEW D \in [T -> SUBSET T], TreeRight(T, D), turn = <<>>,
         WalkOrdered(T, D), IterateTree, ~moved, era # "none"
  PROVE  WalkOrdered(T, D)'
  <1>0. /\ vmaAt = "walk" /\ stack # <<>> /\ ~moved' /\ vmaAt' = "walk" /\ era' = era
    BY DEF IterateTree, treeVars
  <1>1. /\ Progress(T, D, Given(T), stack, yielded)
        /\ \A i \in DOMAIN stack : stack[i].node = 0 => era # "new"
    BY <1>0, OrderedIs
  <1>2. Given(T)' = Given(T)  BY <1>0 DEF Given
  <1>3. Given(T) \in SUBSET Nat  BY GivenNumbers
  <1>4. PICK st : st = stack  OBVIOUS
  <1>5. PICK ys : ys = yielded  OBVIOUS
  <1>6. PICK st2 : st2 = stack'  OBVIOUS
  <1>7. st \in Seq(Calls(T)) /\ ys \in Seq(Given(T))  BY <1>1, <1>4, <1>5 DEF Progress
  <1>8. PICK k \in Nat : k = Len(st) /\ k > 0 /\ k \in DOMAIN st
    <2>1. Len(st) \in Nat /\ Len(st) # 0 /\ DOMAIN st = 1 .. Len(st)  BY <1>0, <1>4, <1>7
    <2>2. Len(st) > 0 /\ Len(st) \in 1 .. Len(st)  BY <2>1
    <2> QED BY ONLY <2>1, <2>2
  <1>9. PICK C : C = Calls(T)  OBVIOUS
  <1>10. PICK c \in C : c = st[k]  BY <1>7, <1>8, <1>9
  <1>11. PICK n \in T \union {0} : n = c.node /\ (n = 0 => era # "new")
    BY <1>1, <1>4, <1>8, <1>9, <1>10 DEF Calls
  <1>12. Last(stack) = c  BY <1>4, <1>8, <1>10 DEF Last
  <1>13. /\ n \in Under(T, D, n) /\ Under(T, D, n) \subseteq Given(T) /\ n \in Nat
         /\ left[n] \in T \union {Null} /\ right[n] \in T \union {Null}
         /\ \A m \in Under(T, D, n) : m < n <=> left[n] # Null /\ m \in Under(T, D, left[n])
         /\ \A m \in Under(T, D, n) : m > n <=> right[n] # Null /\ m \in Under(T, D, right[n])
         /\ left[n] # Null => Under(T, D, left[n]) \subseteq Under(T, D, n)
         /\ right[n] # Null => Under(T, D, right[n]) \subseteq Under(T, D, n)
    BY <1>11, SidesOf
  <1>14. \A m \in Under(T, D, n) : m \in Nat  BY <1>3, <1>13
  <1>15. \A x \in T : x # 0  BY NodeNumbers
  <1>16. SUFFICES /\ Progress(T, D, Given(T), st2, yielded')
                  /\ \A i \in DOMAIN st2 : st2[i].node = 0 => era # "new"
    BY <1>0, <1>2, <1>6, OrderedIsPrime
  <1> DEFINE goto(s) == [st EXCEPT ![Len(st)].at = s]
  <1>g. ASSUME NEW s \in {"left", "give", "right", "return"}
        PROVE  GoesOn(T, st, goto(s)) /\ Len(goto(s)) = Len(st) /\ goto(s)[Len(st)].at = s
    <2>1. PICK d : d = [c EXCEPT !.at = s]  OBVIOUS
    <2>2. d \in C /\ d.node = c.node /\ d.at = s  BY <1>9, <1>10, <2>1 DEF Calls
    <2>3. PICK mid : mid = [st EXCEPT ![k] = d]  OBVIOUS
    <2>4. goto(s) = mid  BY <1>8, <1>10, <2>1, <2>3
    <2>5. st \in Seq(C) /\ DOMAIN st = 1 .. k /\ Len(st) = k /\ k \in 1 .. k  BY <1>7, <1>8, <1>9
    <2>6. mid \in Seq(C) /\ Len(mid) = k /\ mid[k] = d /\ \A i \in 1 .. k - 1 : mid[i] = st[i]
      BY ONLY <2>2, <2>3, <2>5, k \in Nat
    <2>7. GoesOn(T, st, mid) /\ Len(mid) = Len(st) /\ mid[Len(st)].at = s
      <3>1. Len(mid) >= Len(st) /\ Len(st) > 0  BY <1>8, <2>6
      <3>2. mid[Len(st)].node = st[Len(st)].node /\ mid[Len(st)].at = s  BY <1>8, <1>10, <2>2, <2>6
      <3>3. mid \in Seq(Calls(T)) /\ \A i \in 1 .. Len(st) - 1 : mid[i] = st[i]  BY <1>8, <1>9, <2>6
      <3> QED BY ONLY <1>8, <2>6, <3>1, <3>2, <3>3 DEF GoesOn
    <2> QED BY <2>4, <2>7
  <1>17. CASE c.at = "left"
    <2>1. st2 = CallTree(goto("give"), left[n]) /\ yielded' = ys
      BY <1>4, <1>5, <1>6, <1>11, <1>12, <1>17 DEF IterateTree
    <2>2. PICK x \in T \union {Null} : x = left[n]  BY <1>13
    <2>3. /\ GoesOn(T, st, st2) /\ st2[Len(st)].at = "give"
          /\ x = Null => Len(st2) = Len(st)
          /\ x # Null => Len(st2) = Len(st) + 1 /\ st2[Len(st) + 1] = [node |-> x, at |-> "left"]
      <3>1. PICK mid : mid = goto("give")  OBVIOUS
      <3>2. GoesOn(T, st, mid) /\ Len(mid) = Len(st) /\ mid[Len(st)].at = "give"  BY <1>g, <3>1
      <3>3. st2 = CallTree(mid, x)  BY <2>1, <2>2, <3>1
      <3> HIDE DEF goto
      <3> QED BY <1>7, <3>2, <3>3, CallsAre
    <2>4. PICK c2 : c2 = st2[k]  OBVIOUS
    <2>5. c2.node = n /\ c2.at = "give"  BY <1>8, <1>10, <1>11, <2>3, <2>4 DEF GoesOn
    <2>6. ToGive(T, D, c) = Under(T, D, n) /\ ToGive(T, D, c2) = {m \in Under(T, D, n) : m >= n}
      BY <1>11, <1>17, <2>5, ToGiveAt
    <2>7. CASE x = Null
      <3>1. ToGive(T, D, c2) = ToGive(T, D, c)  BY <1>13, <1>14, <2>2, <2>6, <2>7
      <3>2. Progress(T, D, Given(T), st2, ys)
        BY <1>1, <1>3, <1>4, <1>5, <1>8, <1>10, <2>3, <2>4, <2>7, <3>1, HandOver
      <3>3. \A i \in DOMAIN st2 : st2[i].node = 0 => era # "new"
        <4>1. Len(st2) = Len(st) /\ \A i \in DOMAIN st : st[i].node = 0 => era # "new"  BY <1>1, <1>4, <2>3, <2>7
        <4> QED BY ONLY <1>7, <2>3, <4>1, RootsKept
      <3> QED BY <2>1, <3>2, <3>3
    <2>8. CASE x # Null
      <3>1. PICK d : d = st2[Len(st) + 1]  OBVIOUS
      <3>2. d.node = x /\ d.at = "left"  BY <2>3, <2>8, <3>1
      <3>3. ToGive(T, D, d) = Under(T, D, x)  BY <3>2, ToGiveAt
      <3>4. \A m \in Under(T, D, n) : m < n <=> m \in Under(T, D, x)  BY <1>13, <2>2, <2>8
      <3>5. Under(T, D, x) \subseteq Under(T, D, n)  BY <1>13, <2>2, <2>8
      <3>6. ToGive(T, D, c) = ToGive(T, D, c2) \union Under(T, D, x)
        BY ONLY <1>13, <1>14, <2>6, <3>4, <3>5
      <3>7. \A a \in Under(T, D, x), b \in ToGive(T, D, c2) : a < b
        BY ONLY <1>13, <1>14, <2>6, <3>4, <3>5
      <3>8. Progress(T, D, Given(T), st2, ys)
        <4>1. Progress(T, D, Given(T), st, ys)  BY <1>1, <1>4, <1>5
        <4>2. Len(st2) = Len(st) + 1 /\ GoesOn(T, st, st2) /\ c = st[Len(st)] /\ c2 = st2[Len(st)]
          BY <1>8, <1>10, <2>3, <2>4, <2>8
        <4>3. /\ ToGive(T, D, c) = ToGive(T, D, c2) \union Under(T, D, st2[Len(st) + 1].node)
              /\ ToGive(T, D, st2[Len(st) + 1]) = Under(T, D, st2[Len(st) + 1].node)
              /\ \A a \in Under(T, D, st2[Len(st) + 1].node), b \in ToGive(T, D, c2) : a < b
          BY ONLY <3>1, <3>2, <3>3, <3>6, <3>7
        <4> QED BY <1>3, <4>1, <4>2, <4>3, HandOver
      <3>9. \A i \in DOMAIN st2 : st2[i].node = 0 => era # "new"
        BY <1>1, <1>4, <1>7, <1>15, <2>3, <2>8, <3>1, <3>2, RootsKept
      <3> QED BY <2>1, <3>8, <3>9
    <2> QED BY <2>7, <2>8
  <1>18. CASE c.at = "give"
    <2>1. st2 = goto("right") /\ yielded' = Append(ys, n)
      BY <1>4, <1>5, <1>6, <1>11, <1>12, <1>18 DEF IterateTree
    <2>3. GoesOn(T, st, st2) /\ st2[Len(st)].at = "right" /\ Len(st2) = Len(st)  BY <1>g, <2>1
    <2>4. PICK c2 : c2 = st2[k]  OBVIOUS
    <2>5. c2.node = n /\ c2.at = "right"  BY <1>8, <1>10, <1>11, <2>3, <2>4 DEF GoesOn
    <2>6. /\ ToGive(T, D, c) = {m \in Under(T, D, n) : m >= n}
          /\ ToGive(T, D, c2) = {m \in Under(T, D, n) : m > n}
      BY <1>11, <1>18, <2>5, ToGiveAt
    <2>7. ToGive(T, D, c) = ToGive(T, D, c2) \union {n} /\ \A b \in ToGive(T, D, c2) : n < b
      BY ONLY <1>13, <1>14, <2>6
    <2>8. n \in Given(T)  BY <1>13
    <2>9. Progress(T, D, Given(T), st2, Append(ys, n))
      <3>1. Progress(T, D, Given(T), st, ys)  BY <1>1, <1>4, <1>5
      <3>2. c = st[Len(st)] /\ c2 = st2[Len(st)]  BY <1>8, <1>10, <2>4
      <3> QED BY <1>3, <2>3, <2>7, <2>8, <3>1, <3>2, GivesNode
    <2>10. \A i \in DOMAIN st2 : st2[i].node = 0 => era # "new"
      <3>1. \A i \in DOMAIN st : st[i].node = 0 => era # "new"  BY <1>1, <1>4
      <3> QED BY ONLY <1>7, <2>3, <3>1, RootsKept
    <2> QED BY <2>1, <2>9, <2>10
  <1>19. CASE c.at = "right"
    <2>1. st2 = CallTree(goto("return"), right[n]) /\ yielded' = ys
      BY <1>4, <1>5, <1>6, <1>11, <1>12, <1>19 DEF IterateTree
    <2>2. PICK x \in T \union {Null} : x = right[n]  BY <1>13
    <2>3. /\ GoesOn(T, st, st2) /\ st2[Len(st)].at = "return"
          /\ x = Null => Len(st2) = Len(st)
          /\ x # Null => Len(st2) = Len(st) + 1 /\ st2[Len(st) + 1] = [node |-> x, at |-> "left"]
      <3>1. PICK mid : mid = goto("return")  OBVIOUS
      <3>2. GoesOn(T, st, mid) /\ Len(mid) = Len(st) /\ mid[Len(st)].at = "return"  BY <1>g, <3>1
      <3>3. st2 = CallTree(mid, x)  BY <2>1, <2>2, <3>1
      <3> HIDE DEF goto
      <3> QED BY <1>7, <3>2, <3>3, CallsAre
    <2>4. PICK c2 : c2 = st2[k]  OBVIOUS
    <2>5. c2.node = n /\ c2.at = "return"  BY <1>8, <1>10, <1>11, <2>3, <2>4 DEF GoesOn
    <2>6. ToGive(T, D, c) = {m \in Under(T, D, n) : m > n} /\ ToGive(T, D, c2) = {}
      BY <1>11, <1>19, <2>5, ToGiveAt
    <2>7. CASE x = Null
      <3>1. ToGive(T, D, c2) = ToGive(T, D, c)  BY <1>13, <1>14, <2>2, <2>6, <2>7
      <3>2. Progress(T, D, Given(T), st2, ys)
        BY <1>1, <1>3, <1>4, <1>5, <1>8, <1>10, <2>3, <2>4, <2>7, <3>1, HandOver
      <3>3. \A i \in DOMAIN st2 : st2[i].node = 0 => era # "new"
        <4>1. Len(st2) = Len(st) /\ \A i \in DOMAIN st : st[i].node = 0 => era # "new"  BY <1>1, <1>4, <2>3, <2>7
        <4> QED BY ONLY <1>7, <2>3, <4>1, RootsKept
      <3> QED BY <2>1, <3>2, <3>3
    <2>8. CASE x # Null
      <3>1. PICK d : d = st2[Len(st) + 1]  OBVIOUS
      <3>2. d.node = x /\ d.at = "left"  BY <2>3, <2>8, <3>1
      <3>3. ToGive(T, D, d) = Under(T, D, x)  BY <3>2, ToGiveAt
      <3>4. \A m \in Under(T, D, n) : m > n <=> m \in Under(T, D, x)  BY <1>13, <2>2, <2>8
      <3>5. Under(T, D, x) \subseteq Under(T, D, n)  BY <1>13, <2>2, <2>8
      <3>6. ToGive(T, D, c) = ToGive(T, D, c2) \union Under(T, D, x)
        BY ONLY <2>6, <3>4, <3>5
      <3>8. Progress(T, D, Given(T), st2, ys)
        <4>1. Progress(T, D, Given(T), st, ys)  BY <1>1, <1>4, <1>5
        <4>2. Len(st2) = Len(st) + 1 /\ GoesOn(T, st, st2) /\ c = st[Len(st)] /\ c2 = st2[Len(st)]
          BY <1>8, <1>10, <2>3, <2>4, <2>8
        <4>3. /\ ToGive(T, D, c) = ToGive(T, D, c2) \union Under(T, D, st2[Len(st) + 1].node)
              /\ ToGive(T, D, st2[Len(st) + 1]) = Under(T, D, st2[Len(st) + 1].node)
              /\ \A a \in Under(T, D, st2[Len(st) + 1].node), b \in ToGive(T, D, c2) : a < b
          BY ONLY <2>6, <3>1, <3>2, <3>3, <3>6
        <4> QED BY <1>3, <4>1, <4>2, <4>3, HandOver
      <3>9. \A i \in DOMAIN st2 : st2[i].node = 0 => era # "new"
        BY <1>1, <1>4, <1>7, <1>15, <2>3, <2>8, <3>1, <3>2, RootsKept
      <3> QED BY <2>1, <3>8, <3>9
    <2> QED BY <2>7, <2>8
  <1>20. CASE c.at = "return"
    <2>1. st2 = (IF Len(st) = 1 THEN <<>> ELSE Front(st)) /\ yielded' = ys
      BY <1>4, <1>5, <1>6, <1>11, <1>12, <1>20 DEF IterateTree, Return
    <2>2. st2 \in Seq(Calls(T)) /\ Len(st2) = k - 1 /\ \A i \in 1 .. k - 1 : st2[i] = st[i]
      <3>1. CASE k = 1
        <4>1. st2 = <<>>  BY <1>8, <2>1, <3>1
        <4> QED BY <3>1, <4>1
      <3>2. CASE k # 1
        <4>1. st2 = SubSeq(st, 1, k - 1)  BY <1>8, <2>1, <3>2 DEF Front
        <4>2. k - 1 \in 1 .. k - 1 /\ st \in Seq(C) /\ Len(st) = k  BY <1>7, <1>8, <1>9, <3>2
        <4>3. st2 \in Seq(C) /\ Len(st2) = k - 1 /\ \A i \in 1 .. k - 1 : st2[i] = st[i]
          BY ONLY <4>1, <4>2, k \in Nat
        <4> QED BY <1>9, <4>3
      <3> QED BY <3>1, <3>2
    <2>3. DOMAIN st2 = 1 .. k - 1 /\ DOMAIN st = 1 .. k  BY <1>7, <1>8, <2>2
    <2>4. ToGive(T, D, st[Len(st)]) = {}  BY <1>8, <1>10, <1>20, ToGiveAt
    <2>5. Progress(T, D, Given(T), st2, ys)
      <3>1. Progress(T, D, Given(T), st, ys)  BY <1>1, <1>4, <1>5
      <3>2. Len(st) > 0 /\ Len(st2) = Len(st) - 1 /\ \A i \in DOMAIN st2 : st2[i] = st[i]  BY <1>8, <2>2, <2>3
      <3> QED BY <2>2, <2>4, <3>1, <3>2, CallReturns
    <2>6. \A i \in DOMAIN st2 : st2[i].node = 0 => era # "new"
      <3>1. \A i \in DOMAIN st2 : i \in DOMAIN st /\ st2[i] = st[i]  BY <2>2, <2>3
      <3> QED BY <1>1, <1>4, <3>1
    <2> QED BY <2>1, <2>5, <2>6
  <1> QED BY <1>9, <1>10, <1>17, <1>18, <1>19, <1>20 DEF Calls

\* process_for_each_vma calls iterate_tree for the root: it has everything
\* to give.
LEMMA CallWalkOrdered ==
  ASSUME VadTypeOK, NEW T \in SUBSET DOMAIN Vads, NEW D \in [T -> SUBSET T], TreeRight(T, D),
         WalkOrdered(T, D), CallWalk
  PROVE  WalkOrdered(T, D)'
  <1>1. /\ vmaAt = "idle" /\ turn = <<>> /\ moved' = FALSE /\ era' = era /\ yielded' = yielded
        /\ vmaAt' \in {"walk", "done"}
    BY DEF CallWalk, EndVma
  <1>2. yielded = <<>> /\ stack = <<>>  BY <1>1 DEF WalkOrdered
  <1>3. CASE VadRoot = Null
    <2>1. vmaAt' = "done"  BY <1>3 DEF CallWalk, EndVma
    <2> QED BY <2>1 DEF WalkOrdered
  <1>4. CASE VadRoot # Null
    <2>1. vmaAt' = "walk" /\ stack' = CallTree(<<>>, VadRoot)  BY <1>4 DEF CallWalk
    <2>2. PICK e : e = [node |-> VadRoot, at |-> "left"]  OBVIOUS
    <2>3. PICK st : st = <<e>>  OBVIOUS
    <2>4. stack' = st  BY <1>4, <2>1, <2>2, <2>3 DEF CallTree
    <2>5. Subtrees(T, D, left, right, Top)  BY <1>1, InTreeIs
    <2>6. \A a \in DOMAIN Vads : a # -1 /\ a # 0  BY NodeNumbers
    <2>7. e.at = "left" /\ e.node = VadRoot /\ Under(T, D, VadRoot) = Given(T)
          /\ VadRoot \in T \union {0} /\ (VadRoot = 0 => era # "new")
      <3>1. CASE era = "new"
        <4>1. VadRoot = treeRoot /\ Top = treeRoot /\ Given(T) = T  BY <3>1 DEF VadRoot, Top, Given
        <4>2. VadRoot \in T /\ D[VadRoot] = T  BY <1>4, <2>5, <4>1 DEF Subtrees
        <4>3. VadRoot # 0  BY <2>6, <4>2
        <4> QED BY <2>2, <4>1, <4>2, <4>3 DEF Under
      <3>2. CASE era # "new"
        BY <2>2, <3>2 DEF VadRoot, Given, Under
      <3> QED BY <3>1, <3>2
    <2>8. e \in Calls(T)  BY <2>2, <2>7 DEF Calls
    <2>9. st \in Seq(Calls(T)) /\ DOMAIN st = {1} /\ st[1] = e
      <3>1. PICK C : C = Calls(T)  OBVIOUS
      <3>2. e \in C  BY <2>8, <3>1
      <3>3. st \in Seq(C) /\ DOMAIN st = {1} /\ st[1] = e  BY ONLY <2>3, <3>2
      <3> QED BY <3>1, <3>3
    <2>10. ToGive(T, D, e) = Given(T)  BY <2>7, ToGiveAt
    <2>11. PICK ys : ys = yielded  OBVIOUS
    <2>12. ys = <<>> /\ ys \in Seq(Given(T)) /\ DOMAIN ys = {} /\ Range(ys) = {}
      <3>1. ys = <<>>  BY <1>2, <2>11
      <3>2. DOMAIN ys = {} /\ ys \in Seq(Given(T))  BY <3>1
      <3> QED BY <3>1, <3>2 DEF Range
    <2>13. Progress(T, D, Given(T), st, ys)
      <3>1. \A w \in Given(T) : w \in Range(ys) <=> \A i \in DOMAIN st : w \notin ToGive(T, D, st[i])
        BY ONLY <2>9, <2>10, <2>12
      <3>2. \A i, k \in DOMAIN st : ~(i < k)  BY <2>9
      <3> QED BY ONLY <2>9, <2>12, <3>1, <3>2 DEF Progress
    <2>14. Given(T)' = Given(T)  BY <1>1 DEF Given
    <2>15. \A i \in DOMAIN st : st[i].node = 0 => era # "new"  BY ONLY <2>7, <2>9
    <2>16. st # <<>>  BY <2>3
    <2>17. ~moved'  BY <1>1
    <2> QED BY <1>1, <2>1, <2>4, <2>11, <2>13, <2>14, <2>15, <2>16, <2>17, OrderedIsPrime
  <1> QED BY <1>3, <1>4

\* iterate_tree has returned: everything was given.
LEMMA ReturnsInOrder ==
  ASSUME VadTypeOK, NEW T \in SUBSET DOMAIN Vads, NEW D \in [T -> SUBSET T], TreeRight(T, D),
         WalkOrdered(T, D), WalkReturns, ~moved => turn = <<>>
  PROVE  VmasInOrder'
  <1>1. /\ vmaAt = "walk" /\ stack = <<>>
        /\ UNCHANGED <<era, left, right, treeRoot, turn, moved, yielded>>
    BY DEF WalkReturns, treeVars
  <1>2. SUFFICES ASSUME ~moved
                 PROVE  /\ \A i, k \in DOMAIN yielded : i < k => yielded[i] < yielded[k]
                        /\ Range(yielded) = InTree \union (IF era = "old" THEN {0} ELSE {})
    <2>1. InTree' = InTree  BY <1>1, SameTree
    <2>2. yielded' = yielded /\ era' = era /\ moved' = moved  BY <1>1
    <2> QED BY <2>1, <2>2 DEF VmasInOrder
  <1>3. Progress(T, D, Given(T), stack, yielded) /\ era # "none"  BY <1>1, <1>2, OrderedIs
  <1>4. InTree = T  BY <1>2, InTreeIs
  <1>5. era \in {"old", "new", "none"}  BY VadAssumption DEF VadTypeOK
  <1>6. Given(T) = InTree \union (IF era = "old" THEN {0} ELSE {})  BY <1>3, <1>4, <1>5 DEF Given
  <1>7. DOMAIN stack = {}  BY <1>1
  <1>8. \A w \in Given(T) : w \in Range(yielded)  BY <1>3, <1>7 DEF Progress
  <1>9. Range(yielded) \subseteq Given(T)
    <2>1. yielded \in Seq(Given(T))  BY <1>3 DEF Progress
    <2>2. \A i \in DOMAIN yielded : yielded[i] \in Given(T)  BY <2>1
    <2> QED BY <2>2 DEF Range
  <1>10. \A i, k \in DOMAIN yielded : i < k => yielded[i] < yielded[k]  BY <1>3 DEF Progress
  <1>11. Range(yielded) = Given(T)  BY <1>8, <1>9
  <1> QED BY <1>6, <1>10, <1>11

\* A step that is not one of a walk leaves nothing to show for it.
LEMMA NoWalk ==
  ASSUME NEW T, NEW D, vmaAt' \notin {"idle", "walk"} \/ (vmaAt' = "walk" /\ moved')
  PROVE  WalkOrdered(T, D)'
  BY DEF WalkOrdered

\* Every step keeps the invariant of the walk.
LEMMA OrderInductive == VadInv /\ VadInv' /\ OrderInv /\ [VadNext]_vadVars => OrderInv'
  <1> SUFFICES ASSUME VadInv, VadInv', OrderInv, [VadNext]_vadVars PROVE OrderInv'  OBVIOUS
  <1>0. VadTypeOK  BY DEF VadInv
  <1>1. PICK T \in SUBSET DOMAIN Vads : \E D \in [T -> SUBSET T] : TreeRight(T, D) /\ WalkOrdered(T, D)
    BY DEF OrderInv
  <1>2. PICK D \in [T -> SUBSET T] : TreeRight(T, D) /\ WalkOrdered(T, D)  BY <1>1
  <1>3. \A a \in Nodes : a # -1 /\ a # -2  BY NodeNumbers DEF Nodes
  <1>4. ~moved /\ vmaAt # "idle" => turn = <<>>  BY DEF VadInv, SearchRight
  <1>5. CASE VadGuest
    <2>1. UNCHANGED <<era, vmaOp, vmaAt, stack, yielded, vma>> /\ (vmaAt # "idle" => moved')
      <3>1. CASE Rotate
        <4>1. moved' = (moved \/ vmaAt # "idle")  BY <3>1 DEF Rotate
        <4>2. vmaAt # "idle" => moved'  BY <4>1, Zenon
        <4> QED BY <3>1, <4>2 DEF Rotate
      <3>2. ASSUME NEW n \in DOMAIN Vads, InsertVad(n) \/ RemoveVad(n) \/ StartRotation(n)
            PROVE  UNCHANGED <<era, vmaOp, vmaAt, stack, yielded, vma>> /\ (vmaAt # "idle" => moved')
        <4>1. Changes  BY <3>2 DEF InsertVad, RemoveVad, StartRotation
        <4>2. moved' = (vmaAt # "idle")  BY <4>1 DEF Changes
        <4>3. vmaAt # "idle" => moved'  BY <4>2, Zenon
        <4> QED BY <4>1, <4>3 DEF Changes
      <3> QED BY <1>5, <3>1, <3>2 DEF VadGuest
    <2>2. PICK U \in SUBSET DOMAIN Vads : \E E \in [U -> SUBSET U] : TreeRight(U, E)'  BY DEF VadInv
    <2>3. PICK E \in [U -> SUBSET U] : TreeRight(U, E)'  BY <2>2
    <2>4. WalkOrdered(U, E)'  BY <1>2, <2>1 DEF WalkOrdered
    <2>5. VmasInOrder'  BY <2>1 DEF VmasInOrder
    <2> QED BY <2>3, <2>4, <2>5 DEF OrderInv
  <1>6. CASE \/ VadFault \/ (\E p \in Pages : CallFind(p)) \/ Compare \/ Descend
             \/ (IterateTree /\ era = "none")
    <2>1. UNCHANGED <<era, left, right, treeRoot, turn>> /\ vmaAt' \notin {"idle", "walk"}
      BY <1>6 DEF VadFault, CallFind, Compare, Descend, IterateTree, EndVma, treeVars
    <2>2. TreeRight(T, D)' /\ WalkOrdered(T, D)'  BY <1>2, <2>1, SameTree, NoWalk
    <2>3. VmasInOrder'
      <3>1. CASE VadFault \/ (IterateTree /\ era = "none")
        <4>1. vma' = -2  BY <3>1 DEF VadFault, IterateTree, EndVma, VmaError
        <4> QED BY <4>1 DEF VmasInOrder
      <3>2. CASE \E p \in Pages : CallFind(p)
        <4>1. vmaOp' = "find"  BY <3>2 DEF CallFind
        <4> QED BY <4>1 DEF VmasInOrder
      <3>3. CASE Compare
        <4>1. node \in Nodes  BY <1>0, <3>3 DEF VadTypeOK, Compare
        <4>2. vmaAt' = "done" => vma' = node  BY <3>3 DEF Compare, EndVma
        <4> QED BY <1>3, <4>1, <4>2 DEF VmasInOrder
      <3>4. CASE Descend
        <4>1. vmaOp' = "find"  BY <3>4 DEF Descend
        <4> QED BY <4>1 DEF VmasInOrder
      <3> QED BY <1>6, <3>1, <3>2, <3>3, <3>4
    <2> QED BY <2>2, <2>3 DEF OrderInv
  <1>7. CASE CallWalk
    <2>1. UNCHANGED <<era, left, right, treeRoot, turn>> /\ (vmaAt' = "done" => vma' = -2)
      BY <1>7 DEF CallWalk, EndVma, VmaError
    <2>2. TreeRight(T, D)' /\ WalkOrdered(T, D)'  BY <1>0, <1>2, <1>7, <2>1, SameTree, CallWalkOrdered
    <2>3. VmasInOrder'  BY <2>1 DEF VmasInOrder
    <2> QED BY <2>2, <2>3 DEF OrderInv
  <1>8. CASE IterateTree /\ era # "none"
    <2>1. UNCHANGED <<era, left, right, treeRoot, turn, moved>> /\ vmaAt = "walk" /\ vmaAt' = "walk"
      BY <1>8 DEF IterateTree, treeVars
    <2>2. WalkOrdered(T, D)'
      <3>1. CASE moved  BY <2>1, <3>1, NoWalk
      <3>2. CASE ~moved  BY <1>0, <1>2, <1>4, <1>8, <2>1, <3>2, IterateOrdered
      <3> QED BY <3>1, <3>2
    <2>3. VmasInOrder'  BY <2>1 DEF VmasInOrder
    <2> QED BY <1>2, <2>1, <2>2, <2>3, SameTree DEF OrderInv
  <1>9. CASE WalkReturns
    <2>1. UNCHANGED <<era, left, right, treeRoot, turn>> /\ vmaAt = "walk" /\ vmaAt' = "done"
      BY <1>9 DEF WalkReturns, EndVma, treeVars
    <2>2. TreeRight(T, D)' /\ WalkOrdered(T, D)'  BY <1>2, <2>1, SameTree, NoWalk
    <2>3. VmasInOrder'  BY <1>0, <1>2, <1>4, <1>9, <2>1, ReturnsInOrder
    <2> QED BY <2>2, <2>3 DEF OrderInv
  <1>10. CASE UNCHANGED vadVars
    <2>1. UNCHANGED <<era, left, right, treeRoot, turn, moved, vmaOp, vmaAt, stack, yielded, vma>>
      BY <1>10 DEF vadVars
    <2>2. TreeRight(T, D)' /\ InTree' = InTree  BY <1>2, <2>1, SameTree
    <2>3. Given(T)' = Given(T)  BY <2>1 DEF Given
    <2>4. WalkOrdered(T, D)'  BY <1>2, <2>1, <2>3 DEF WalkOrdered
    <2>5. VmasInOrder'  BY <2>1, <2>2 DEF OrderInv, VmasInOrder
    <2> QED BY <2>2, <2>4, <2>5 DEF OrderInv
  <1> QED BY <1>5, <1>6, <1>7, <1>8, <1>9, <1>10 DEF VadNext

\* At first nothing was given.
LEMMA OrderInitInv ==
  ASSUME VadInit
  PROVE  OrderInv
  <1>1. VadInv  BY VadInitInv
  <1>2. PICK T \in SUBSET DOMAIN Vads : \E D \in [T -> SUBSET T] : TreeRight(T, D)  BY <1>1 DEF VadInv
  <1>3. PICK D \in [T -> SUBSET T] : TreeRight(T, D)  BY <1>2
  <1>4. vmaAt = "idle" /\ stack = <<>> /\ yielded = <<>>  BY DEF VadInit
  <1>5. WalkOrdered(T, D)  BY <1>4 DEF WalkOrdered
  <1>6. VmasInOrder  BY <1>4 DEF VmasInOrder
  <1> QED BY <1>3, <1>5, <1>6 DEF OrderInv

\* While the tree keeps still, the calls of iterate_tree in progress have
\* what was not given to the closure, in order and behind all that was.
THEOREM OrderInvariant == VadSpec => []OrderInv
  <1>1. VadInit => OrderInv  BY OrderInitInv
  <1> QED BY <1>1, VadInvariant, OrderInductive, PTL DEF VadSpec

\* process_for_each_vma gives every area of a tree that keeps still once and
\* in the order of their addresses, whatever the shape of the tree, and in
\* the old layout the node inside of the process before them.
THEOREM VmasInOrderAlways == VadSpec => []VmasInOrder
  <1>1. OrderInv => VmasInOrder  BY DEF OrderInv
  <1> QED BY <1>1, OrderInvariant, PTL

=============================================================================
