----------------------------- MODULE WindowsVad -----------------------------
(***************************************************************************)
(* The virtual memory areas of a process of a running Windows guest        *)
(* (vminer/src/os/windows/mod.rs): process_find_vma_by_address descends    *)
(* the tree of VADs and process_for_each_vma walks it in order.            *)
(*                                                                         *)
(* One action is one read of guest memory.  Between two of them the guest  *)
(* adds and removes areas and rebalances the tree, one write after the     *)
(* other.  The layouts of two generations of Windows are modelled: "old",  *)
(* where page numbers are whole and the root is a node inside of the       *)
(* process, above the tree and without an area of its own, and "new",      *)
(* where they are split in a low part, which is read with what follows it, *)
(* and a high part.                                                        *)
(***************************************************************************)
EXTENDS Integers, FiniteSets, Sequences, SequencesExt

CONSTANTS
  Vads,        \* nodes of the tree: the sequence of their areas, in order
  Eras,        \* layouts, of {"old", "new", "none"}: "none" has no links
  LowPart,     \* 2 to the number of bits of the low part of a page number
  Pages,       \* pages that are looked for
  MaxChanges   \* bound: changes of the tree during a walk

ASSUME VadAssumption ==
  /\ Vads \in Seq([first : Nat, last : Nat])
  /\ \A n \in DOMAIN Vads : Vads[n].first <= Vads[n].last
  /\ \A m, n \in DOMAIN Vads : m < n => Vads[m].last < Vads[n].first
  /\ Eras \subseteq {"old", "new", "none"}
  /\ LowPart \in Nat \ {0} /\ Pages \subseteq Nat /\ MaxChanges \in Nat

VARIABLES
  era,         \* the layout of the profile
  left, right, \* the links of the nodes; node 0 is the root of the old layout
  treeRoot,    \* the root of the new layout
  turn,        \* the rotation that is under way
  nchanges,
  vmaOp,       \* "none", "find" or "walk"
  page,        \* the page that is looked for
  vmaAt,       \* the next read
  node,        \* the node the search is at
  stack,       \* the calls of iterate_tree: nodes, and where each of them is
  yielded,      \* the nodes given to the closure
  vma,         \* the answer of the search: a node, Null or VmaError
  moved        \* ghost: whether the tree changed since the call began

Null == -1
VmaError == -2

vadVars == <<era, left, right, treeRoot, turn, nchanges, vmaOp, page, vmaAt, node, stack, yielded, vma, moved>>
treeVars == <<left, right, treeRoot, turn, nchanges, moved>>

Nodes == DOMAIN Vads \union {0}

VadInit ==
  /\ era \in Eras
  /\ left = [n \in Nodes |-> Null] /\ right = left
  /\ treeRoot = Null /\ turn = <<>> /\ nchanges = 0
  /\ vmaOp = "none" /\ page = 0 /\ vmaAt = "idle" /\ node = Null /\ stack = <<>>
  /\ yielded = <<>> /\ vma = Null /\ moved = FALSE

-----------------------------------------------------------------------------
(* The guest's tree *)

\* The top of the tree, whichever way the layout points to it.
Top == IF era = "new" THEN treeRoot ELSE right[0]

InTree == {n \in DOMAIN Vads : n = Top \/ \E p \in Nodes : n \in {left[p], right[p]}}

SetTop(n) == IF era = "new" THEN treeRoot' = n /\ UNCHANGED right ELSE right' = [right EXCEPT ![0] = n] /\ UNCHANGED treeRoot

\* Before the walk the guest builds its tree; during it, a bounded number
\* of changes.
Changes ==
  /\ turn = <<>>
  /\ vmaAt = "idle" \/ nchanges < MaxChanges
  /\ vmaAt # "done"
  /\ nchanges' = IF vmaAt = "idle" THEN nchanges ELSE nchanges + 1
  /\ moved' = (vmaAt # "idle")
  /\ UNCHANGED <<era, vmaOp, page, vmaAt, node, stack, yielded, vma>>

\* A new area: a leaf below one of its neighbours, the one that has no link
\* there.
InsertVad(n) ==
  /\ n \notin InTree /\ Changes
  /\ \/ InTree = {} /\ SetTop(n) /\ UNCHANGED <<left, turn>>
     \/ \E m \in InTree :
          /\ m < n /\ (\A k \in InTree : k < n => k <= m) /\ right[m] = Null
          /\ right' = [right EXCEPT ![m] = n] /\ UNCHANGED <<left, treeRoot, turn>>
     \/ \E m \in InTree :
          /\ m > n /\ (\A k \in InTree : k > n => k >= m) /\ left[m] = Null
          /\ left' = [left EXCEPT ![m] = n] /\ UNCHANGED <<right, treeRoot, turn>>

\* An area that is a leaf goes.
RemoveVad(n) ==
  /\ n \in InTree /\ left[n] = Null /\ right[n] = Null /\ Changes
  /\ IF n = Top THEN SetTop(Null) /\ UNCHANGED <<left, turn>>
     ELSE /\ left' = [m \in Nodes |-> IF left[m] = n THEN Null ELSE left[m]]
          /\ right' = [m \in Nodes |-> IF right[m] = n THEN Null ELSE right[m]]
          /\ UNCHANGED <<treeRoot, turn>>

\* A rotation to the right at p: its left child takes its place.
StartRotation(p) ==
  /\ p \in InTree /\ left[p] # Null /\ Changes
  /\ turn' = <<p, left[p], "child">>
  /\ left' = [left EXCEPT ![p] = right[left[p]]]
  /\ UNCHANGED <<right, treeRoot>>

\* It becomes the child of its child, and then what pointed to it points to
\* that one.
Rotate ==
  /\ turn # <<>>
  /\ LET p == turn[1]
         x == turn[2]
     IN \/ /\ turn[3] = "child"
           /\ right' = [right EXCEPT ![x] = p]
           /\ turn' = <<p, x, "link">> /\ UNCHANGED <<left, treeRoot>>
        \/ turn[3] = "link" /\ p = Top /\ SetTop(x) /\ turn' = <<>> /\ UNCHANGED left
        \/ /\ turn[3] = "link" /\ p # Top
           /\ left' = [m \in Nodes |-> IF m # x /\ left[m] = p THEN x ELSE left[m]]
           /\ right' = [m \in Nodes |-> IF m # x /\ right[m] = p THEN x ELSE right[m]]
           /\ turn' = <<>> /\ UNCHANGED treeRoot
  /\ moved' = (moved \/ vmaAt # "idle")
  /\ UNCHANGED <<era, nchanges, vmaOp, page, vmaAt, node, stack, yielded, vma>>

VadGuest == Rotate \/ \E n \in DOMAIN Vads : InsertVad(n) \/ RemoveVad(n) \/ StartRotation(n)

-----------------------------------------------------------------------------
(* Fields of a VAD *)

Low(x) == x % LowPart
High(x) == (x \div LowPart) * LowPart

\* The fields as they are in memory: in the new layout the 64 bits at
\* StartingVpn hold the low parts of both numbers, and those at EndingVpn
\* the high parts next to the low one.
StartingVpn(n) ==
  IF n = 0 THEN 0
  ELSE IF era = "new" THEN Low(Vads[n].first) + LowPart * Low(Vads[n].last) ELSE Vads[n].first
EndingVpn(n) ==
  IF n = 0 THEN 0
  ELSE IF era = "new" THEN Low(Vads[n].last) + High(Vads[n].first) ELSE Vads[n].last

\* Mutant: the low part is not cut off what follows it.
VmaStartWide(n) == IF era = "new" THEN High(Vads[n].first) + StartingVpn(n) ELSE StartingVpn(n)

\* vma_start and vma_end, in pages.
VmaStart(n) == IF era = "new" THEN High(Vads[n].first) + Low(StartingVpn(n)) ELSE StartingVpn(n)
VmaEnd(n) == IF era = "new" THEN High(Vads[n].last) + Low(EndingVpn(n)) + 1 ELSE EndingVpn(n) + 1

\* vad_root: the pointer of the tree, or the node inside of the process.
VadRoot == IF era = "new" THEN treeRoot ELSE 0

-----------------------------------------------------------------------------
(* Searching *)

\* A tree that is empty, and links the profile lacks, are an error.
EndVma(v) == vmaAt' = "done" /\ vma' = v

CallFind(p) ==
  /\ vmaAt = "idle" /\ turn = <<>>
  /\ vmaOp' = "find" /\ page' = p /\ node' = VadRoot /\ moved' = FALSE
  /\ IF VadRoot = Null THEN EndVma(VmaError) ELSE vmaAt' = "compare" /\ UNCHANGED vma
  /\ UNCHANGED <<era, left, right, treeRoot, turn, nchanges, stack, yielded>>

\* The closure of process_find_vma_by_address.
Compare ==
  /\ vmaAt = "compare"
  /\ IF page < VmaStart(node) THEN vmaAt' = "left" /\ UNCHANGED vma
     ELSE IF page < VmaEnd(node) THEN EndVma(node)
     ELSE vmaAt' = "right" /\ UNCHANGED vma
  /\ UNCHANGED <<era, treeVars, vmaOp, page, node, stack, yielded>>

\* left_child and right_child, and the next call of find_in_tree.
Descend ==
  /\ vmaAt \in {"left", "right"} /\ vmaOp = "find"
  /\ LET child == IF vmaAt = "left" THEN left[node] ELSE right[node]
     IN IF era = "none" THEN EndVma(VmaError) /\ UNCHANGED node
        ELSE IF child = Null THEN EndVma(Null) /\ UNCHANGED node
        ELSE node' = child /\ vmaAt' = "compare" /\ UNCHANGED vma
  /\ UNCHANGED <<era, treeVars, vmaOp, page, stack, yielded>>

\* A read fails, and with it the call.
VadFault ==
  /\ vmaAt \in {"compare", "left", "right", "walk"}
  /\ EndVma(VmaError)
  /\ UNCHANGED <<era, treeVars, vmaOp, page, node, stack, yielded>>

-----------------------------------------------------------------------------
(* Walking *)

\* Mutant: the left child is left out.
CallTreeRight(calls, n) == IF n = Null THEN calls ELSE Append(calls, [node |-> n, at |-> "give"])

\* A call of iterate_tree for a node, when there is one.
CallTree(calls, n) == IF n = Null THEN calls ELSE Append(calls, [node |-> n, at |-> "left"])

Return == IF Len(stack) = 1 THEN <<>> ELSE Front(stack)

CallWalk ==
  /\ vmaAt = "idle" /\ turn = <<>>
  /\ vmaOp' = "walk" /\ moved' = FALSE
  /\ IF VadRoot = Null THEN EndVma(VmaError) /\ UNCHANGED stack
     ELSE vmaAt' = "walk" /\ stack' = CallTree(<<>>, VadRoot) /\ UNCHANGED vma
  /\ UNCHANGED <<era, left, right, treeRoot, turn, nchanges, page, node, yielded>>

\* iterate_tree: the left child is read and walked, the node is given to
\* the closure, then the right child; the call returns after that.
IterateTree ==
  /\ vmaAt = "walk" /\ stack # <<>>
  /\ LET n == Last(stack).node
         at == Last(stack).at
         goto(s) == [stack EXCEPT ![Len(stack)].at = s]
     IN \/ era = "none" /\ EndVma(VmaError) /\ UNCHANGED <<stack, yielded>>
        \/ /\ era # "none"
           /\ \/ at = "left" /\ stack' = CallTree(goto("give"), left[n]) /\ UNCHANGED yielded
              \/ at = "give" /\ stack' = goto("right") /\ yielded' = Append(yielded, n)
              \/ at = "right" /\ stack' = CallTree(goto("return"), right[n]) /\ UNCHANGED yielded
              \/ at = "return" /\ stack' = Return /\ UNCHANGED yielded
           /\ UNCHANGED <<vmaAt, vma>>
  /\ UNCHANGED <<era, treeVars, vmaOp, page, node>>

WalkReturns ==
  /\ vmaAt = "walk" /\ stack = <<>>
  /\ EndVma(Null)
  /\ UNCHANGED <<era, treeVars, vmaOp, page, node, stack, yielded>>

VadNext ==
  \/ VadGuest \/ VadFault
  \/ (\E p \in Pages : CallFind(p)) \/ Compare \/ Descend
  \/ CallWalk \/ IterateTree \/ WalkReturns

VadSpec == VadInit /\ [][VadNext]_vadVars

-----------------------------------------------------------------------------
(* Properties *)

\* A search gives an area that has the page, even when the tree turns
\* under it; and when the tree keeps still it gives one if there is one.
VmaLookupRight ==
  vmaOp = "find" /\ vmaAt = "done" =>
    /\ vma \in DOMAIN Vads => page \in Vads[vma].first .. Vads[vma].last
    /\ vma = Null /\ ~moved => \A n \in InTree : page \notin Vads[n].first .. Vads[n].last

\* Why it holds.  Let D[n] be the nodes of the tree below n, n included: the
\* links of n lead to those with smaller and to those with larger areas, no
\* node has two parents, and a node outside of the tree points nowhere.
Subtrees(T, D, l, r, top) ==
  /\ top \in T \union {Null} /\ (top = Null => T = {}) /\ (top # Null => D[top] = T)
  /\ \A n \in T : n \in D[n] /\ {l[n], r[n]} \subseteq T \union {Null}
  /\ \A n, m \in T :
       /\ m \in D[n] /\ m < n <=> l[n] # Null /\ m \in D[l[n]]
       /\ m \in D[n] /\ m > n <=> r[n] # Null /\ m \in D[r[n]]
  /\ \A x, a, b \in T : x \in {l[a], r[a]} /\ x \in {l[b], r[b]} => a = b
  /\ \A n \in T : n = top \/ \E a \in T : n \in {l[a], r[a]}
  /\ \A n \in DOMAIN Vads \ T : l[n] = Null /\ r[n] = Null

\* The links as they were before the rotation that is under way.
LeftBefore == IF turn = <<>> THEN left ELSE [left EXCEPT ![turn[1]] = turn[2]]
RightBefore ==
  IF turn = <<>> \/ turn[3] = "child" THEN right ELSE [right EXCEPT ![turn[2]] = left[turn[1]]]

\* T is the tree of the process, and a rotation at p of T has done a part of
\* its writes.
TreeRight(T, D) ==
  /\ T \subseteq DOMAIN Vads /\ D \in [T -> SUBSET T]
  /\ Subtrees(T, D, LeftBefore, RightBefore, Top)
  /\ turn # <<>> =>
       /\ turn[1] \in T /\ turn[2] \in T
       /\ turn[3] = "child" => left[turn[1]] = right[turn[2]]
       /\ turn[3] = "link" => right[turn[2]] = turn[1]
  /\ left[0] = Null
  /\ IF era = "new" THEN right[0] = Null ELSE treeRoot = Null

\* As long as the tree keeps still, the areas with the page are below the
\* node that the search is at, on the side it turns to.
SearchRight(T, D) ==
  /\ ~moved /\ vmaAt # "idle" => turn = <<>>
  /\ ~moved /\ vmaOp = "find" /\ vmaAt \in {"compare", "left", "right"} =>
       /\ node \in T \union {0}
       /\ node \in T => \A n \in T : page \in Vads[n].first .. Vads[n].last =>
            /\ n \in D[node]
            /\ vmaAt = "left" => n < node
            /\ vmaAt = "right" => n > node

\* Where the variables are.
VadTypeOK ==
  /\ era \in Eras
  /\ left \in [Nodes -> DOMAIN Vads \union {Null}] /\ right \in [Nodes -> DOMAIN Vads \union {Null}]
  /\ treeRoot \in DOMAIN Vads \union {Null}
  /\ turn = <<>> \/ \E p, x \in DOMAIN Vads, s \in {"child", "link"} : turn = <<p, x, s>>
  /\ vmaOp \in {"none", "find", "walk"} /\ page \in Nat
  /\ vmaAt \in {"idle", "compare", "left", "right", "walk", "done"}
  /\ vmaAt \in {"compare", "left", "right"} => node \in Nodes /\ (era = "new" => node # 0)
  /\ (vmaAt = "left" => node # 0) /\ (vmaAt = "walk" => vmaOp = "walk")
  /\ moved \in BOOLEAN

\* The invariant of the searches.
VadInv ==
  /\ VadTypeOK
  /\ \E T \in SUBSET DOMAIN Vads : \E D \in [T -> SUBSET T] : TreeRight(T, D) /\ SearchRight(T, D)
  /\ VmaLookupRight

\* A walk of a tree that keeps still gives every area of the process once
\* and in the order of their addresses, after the root of the old layout.
VmasInOrder ==
  vmaOp = "walk" /\ vma = Null /\ vmaAt = "done" /\ ~moved =>
    /\ \A i, k \in DOMAIN yielded : i < k => yielded[i] < yielded[k]
    /\ Range(yielded) = InTree \union (IF era = "old" THEN {0} ELSE {})

\* Why it holds.  The nodes a call of iterate_tree is for, and those of them
\* that it has yet to give to the closure.
Under(T, D, n) == IF n = 0 THEN T \union {0} ELSE D[n]
ToGive(T, D, call) ==
  {m \in Under(T, D, call.node) : \/ call.at = "left"
                                  \/ call.at = "give" /\ m >= call.node
                                  \/ call.at = "right" /\ m > call.node}

Given(T) == T \union (IF era = "new" THEN {} ELSE {0})

Calls(T) == [node : T \union {0}, at : {"left", "give", "right", "return"}]

\* The calls in progress have what was not given yet, all of it behind what
\* was; and what an inner call is for comes before what the outer ones have.
WalkOrdered(T, D) ==
  /\ vmaAt = "idle" => yielded = <<>> /\ stack = <<>>
  /\ ~moved /\ vmaAt = "walk" =>
       /\ stack \in Seq(Calls(T)) /\ \A i \in DOMAIN stack : stack[i].node = 0 => era # "new"
       /\ era = "none" => stack # <<>>
       /\ yielded \in Seq(Given(T))
       /\ \A w \in Given(T) :
            w \in Range(yielded) <=> \A i \in DOMAIN stack : w \notin ToGive(T, D, stack[i])
       /\ \A w \in Given(T) : w \notin Range(yielded) => \A i \in DOMAIN yielded : yielded[i] < w
       /\ \A i, k \in DOMAIN yielded : i < k => yielded[i] < yielded[k]
       /\ \A i, k \in DOMAIN stack : i < k =>
            \A a \in Under(T, D, stack[k].node), b \in ToGive(T, D, stack[i]) : a < b

\* The invariant of the walk.
OrderInv ==
  /\ \E T \in SUBSET DOMAIN Vads : \E D \in [T -> SUBSET T] : TreeRight(T, D) /\ WalkOrdered(T, D)
  /\ VmasInOrder

=============================================================================
