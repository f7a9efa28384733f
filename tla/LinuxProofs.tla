---------------------------- MODULE LinuxProofs -----------------------------
(***************************************************************************)
(* Proofs about LinuxTasks for any number of tasks, memory descriptors,    *)
(* forks, exits, switches and failing reads; about LinuxModules for any    *)
(* number of VMAs, files and pages and any changes of the process; and     *)
(* about LinuxUnwind for any code and unwind rules that describe it.       *)
(***************************************************************************)
EXTENDS LinuxTasks, LinuxModules, LinuxUnwind, NatLemmas, FiniteSetTheorems, SequenceTheorems, TLAPS

USE TasksAssumption DEF Nodes

-----------------------------------------------------------------------------
(* The list *)

\* What the invariant says of an order of the tasks.
Ordered(b) == ListInOrder(b) /\ (~reused /\ reading # "idle" => WalkInOrder(b))

\* Every entry of the list has one before it, and only one.
LEMMA BeforeIs ==
  ASSUME LinuxTasksTypeOK, NEW b \in [Nodes -> 0..nforks], ListInOrder(b),
         NEW t \in listed \union {InitTask}
  PROVE  /\ Before(t) \in listed \union {InitTask} /\ next[Before(t)] = t
         /\ \A q \in listed \union {InitTask} : next[q] = t => q = Before(t)
  <1>1. Before(t) \in listed \union {InitTask} /\ next[Before(t)] = t
    <2>1. \E p \in listed \union {InitTask} : next[p] = t  BY DEF ListInOrder
    <2> QED BY <2>1 DEF Before
  <1>2. ASSUME NEW p \in listed \union {InitTask}, NEW q \in listed \union {InitTask},
               next[p] = t, next[q] = t, b[p] < b[q]
        PROVE  FALSE
    <2>1. p \in Nodes /\ q \in Nodes /\ t \in Nodes /\ b[p] \in Nat /\ b[q] \in Nat /\ b[t] \in Nat
      BY DEF LinuxTasksTypeOK
    <2>2. q \in listed  BY <1>2, <2>1 DEF ListInOrder
    <2>3. t # InitTask /\ b[t] <= b[q]  BY <1>2, <2>2 DEF ListInOrder
    <2>4. b[q] < b[t]  BY <1>2, <2>3 DEF ListInOrder
    <2> QED BY <2>1, <2>3, <2>4
  <1>3. ASSUME NEW q \in listed \union {InitTask}, next[q] = t PROVE q = Before(t)
    <2> DEFINE p == Before(t)
    <2>1. p \in Nodes /\ q \in Nodes /\ b[p] \in Nat /\ b[q] \in Nat
      BY <1>1 DEF LinuxTasksTypeOK
    <2> HIDE DEF p
    <2>2. b[p] = b[q]  BY <1>1, <1>2, <1>3, <2>1 DEF p
    <2> QED BY <1>1, <2>2 DEF ListInOrder, p
  <1> QED BY <1>1, <1>3

\* A new task comes last, with the largest number.
LEMMA ForkOrder ==
  ASSUME LinuxTasksTypeOK, WalkRight, NEW b \in [Nodes -> 0..nforks], Ordered(b), NEW t \in Tasks, Fork(t)
  PROVE  \E c \in [Nodes -> 0..nforks'] : Ordered(c)'
  <1> DEFINE n == nforks + 1
             p == Before(InitTask)
  <1>0. /\ nforks \in Nat /\ nforks' = n /\ t \notin listed /\ t # InitTask /\ t \in Nodes
        /\ next' = [next EXCEPT ![p] = t, ![t] = InitTask]
        /\ listed' = listed \union {t} /\ listed \subseteq Tasks
        /\ next \in [Nodes -> Nodes]
    BY DEF Fork, LinuxTasksTypeOK
  <1>1. /\ p \in listed \union {InitTask} /\ next[p] = InitTask
        /\ \A q \in listed \union {InitTask} : next[q] = InitTask => q = p
    BY BeforeIs DEF Ordered
  <1> HIDE DEF p
  <1>2. PICK c \in [Nodes -> 0..nforks'] :
          c[t] = n /\ \A u \in Nodes : u # t => c[u] = b[u] /\ b[u] < n /\ b[u] \in Nat
    <2> DEFINE e == [b EXCEPT ![t] = n]
    <2>1. e \in [Nodes -> 0..nforks'] /\ e[t] = n /\ \A u \in Nodes : u # t => e[u] = b[u]  BY <1>0
    <2>2. \A u \in Nodes : b[u] < n /\ b[u] \in Nat  BY <1>0
    <2> HIDE DEF e
    <2> QED BY <2>1, <2>2
  <1>3. p # t /\ p \in Nodes /\ next'[p] = t /\ next'[t] = InitTask
    BY <1>0, <1>1
  <1>4. \A u \in Nodes : u # p /\ u # t => next'[u] = next[u]
    BY <1>0
  <1>5. ListInOrder(c)'
    <2>1. c[InitTask] = 0 /\ \A u \in listed' : c[u] > 0
      BY <1>0, <1>2 DEF Ordered, ListInOrder
    <2>2. \A u, w \in listed' : c[u] = c[w] => u = w
      BY <1>0, <1>2 DEF Ordered, ListInOrder
    <2>3. ASSUME NEW u \in listed' \union {InitTask}
          PROVE  next'[u] \in listed' \union {InitTask} /\ \E q \in listed' \union {InitTask} : next'[q] = u
      <3>1. next'[u] \in listed' \union {InitTask}
        BY <1>0, <1>1, <1>3, <1>4 DEF Ordered, ListInOrder
      <3>2. CASE u = t  BY <1>0, <1>1, <1>3, <3>1, <3>2
      <3>3. CASE u = InitTask  BY <1>0, <1>3, <3>1, <3>3
      <3>4. CASE u \in listed
        <4>1. PICK q \in listed \union {InitTask} : next[q] = u  BY <3>4 DEF Ordered, ListInOrder
        <4>2. q # p /\ q # t  BY <1>0, <1>1, <3>4, <4>1
        <4> QED BY <1>0, <1>4, <3>1, <4>1, <4>2
      <3> QED BY <1>0, <3>2, <3>3, <3>4
    <2>4. ASSUME NEW u \in listed' \union {InitTask}, next'[u] # InitTask PROVE c[u] < c[next'[u]]
      <3>1. CASE u = p  BY <1>2, <1>3, <3>1
      <3>2. CASE u # p
        <4>1. u # t /\ u \in Nodes  BY <1>0, <1>3, <2>4
        <4>2. next'[u] = next[u] /\ u \in listed \union {InitTask}  BY <1>0, <1>4, <3>2, <4>1
        <4>3. next[u] \in listed  BY <2>4, <4>2 DEF Ordered, ListInOrder
        <4> QED BY <1>0, <1>2, <2>4, <4>1, <4>2, <4>3 DEF Ordered, ListInOrder
      <3> QED BY <3>1, <3>2
    <2>5. ASSUME NEW u \in listed' \union {InitTask}, NEW w \in listed', c[u] < c[w]
          PROVE  next'[u] # InitTask /\ c[next'[u]] <= c[w]
      <3>1. u # t  BY <1>0, <1>2, <2>5
      <3>2. u \in listed \union {InitTask} /\ u \in Nodes /\ w \in Nodes  BY <1>0, <3>1
      <3>3. CASE w = t
        <4>1. CASE u = p  BY <1>0, <1>2, <1>3, <3>3, <4>1
        <4>2. CASE u # p
          <5>1. next'[u] = next[u] /\ next[u] \in listed
            BY <1>1, <1>4, <3>1, <3>2, <4>2 DEF Ordered, ListInOrder
          <5> QED BY <1>0, <1>2, <3>3, <5>1
        <4> QED BY <4>1, <4>2
      <3>4. CASE w # t
        <4>1. w \in listed /\ b[u] < b[w]  BY <1>0, <1>2, <2>5, <3>1, <3>2, <3>4
        <4>2. next[u] # InitTask /\ b[next[u]] <= b[w]  BY <3>2, <4>1 DEF Ordered, ListInOrder
        <4>3. u # p /\ next'[u] = next[u] /\ next[u] \in listed
          BY <1>1, <1>4, <3>1, <3>2, <4>2 DEF Ordered, ListInOrder
        <4> QED BY <1>0, <1>2, <3>2, <3>4, <4>2, <4>3
      <3> QED BY <3>3, <3>4
    <2> QED BY <2>1, <2>2, <2>3, <2>4, <2>5 DEF ListInOrder
  <1>6. ASSUME ~reused', reading' # "idle" PROVE WalkInOrder(c)'
    <2>0. /\ ~reused /\ reading # "idle" /\ t \notin reaped
          /\ reading' = reading /\ outcome' = outcome /\ pos' = pos /\ reported' = reported
          /\ always' = always \intersect listed' /\ ever' = ever \union listed'
      BY <1>6 DEF Fork, Witness, taskWalkVars, LinuxTasksTypeOK
    <2>1. WalkInOrder(b)  BY <2>0 DEF Ordered
    <2>2. /\ t \notin ever /\ ever' = ever \union {t} /\ always' = always
          /\ always \subseteq listed /\ listed \subseteq ever /\ ever \subseteq Nodes
          /\ pos \in Nodes /\ pos # t /\ Range(reported) \subseteq ever
          /\ \A u \in ever \union {InitTask} : next[u] \in ever \union {InitTask}
      BY <1>0, <2>0 DEF WalkRight, LinuxTasksTypeOK
    <2>3. (\A u \in ever' : c[u] > 0) /\ \A u, w \in ever' : c[u] = c[w] => u = w
      BY <1>0, <1>2, <2>1, <2>2 DEF WalkInOrder
    <2>4. ASSUME NEW u \in ever' \union {InitTask}, next'[u] # InitTask PROVE c[u] < c[next'[u]]
      <3>1. CASE u = p  BY <1>2, <1>3, <3>1
      <3>2. CASE u # p
        <4>1. u # t /\ u \in Nodes /\ u \in ever \union {InitTask}  BY <1>0, <1>3, <2>2, <2>4
        <4>2. next'[u] = next[u]  BY <1>4, <3>2, <4>1
        <4>3. next[u] \in ever /\ b[u] < b[next[u]]  BY <2>1, <2>2, <2>4, <4>1, <4>2 DEF WalkInOrder
        <4> QED BY <1>2, <2>2, <4>1, <4>2, <4>3
      <3> QED BY <3>1, <3>2
    <2>5. ASSUME NEW u \in ever' \union {InitTask}, NEW w \in always', c[u] < c[w]
          PROVE  next'[u] # InitTask /\ c[next'[u]] <= c[w]
      <3>1. w \in always /\ w # t /\ w \in Nodes /\ c[w] = b[w]  BY <1>0, <1>2, <2>2
      <3>2. u # t  BY <1>0, <1>2, <2>5, <3>1
      <3>3. u \in ever \union {InitTask} /\ u \in Nodes /\ c[u] = b[u]  BY <1>0, <1>2, <2>2, <3>2
      <3>4. next[u] # InitTask /\ b[next[u]] <= b[w]  BY <2>1, <2>5, <3>1, <3>3 DEF WalkInOrder
      <3>5. u # p /\ next'[u] = next[u]  BY <1>1, <1>4, <3>2, <3>3, <3>4
      <3>6. next[u] \in ever  BY <2>2, <3>3, <3>4
      <3> QED BY <1>2, <2>2, <3>1, <3>4, <3>5, <3>6
    <2>6. ASSUME outcome' # "end"
          PROVE  /\ \A w \in always' : c[w] <= c[pos'] => w \in Range(reported')
                 /\ \A w \in Range(reported') : c[w] <= c[pos']
      BY <1>0, <1>2, <2>0, <2>1, <2>2, <2>6 DEF WalkInOrder
    <2> QED BY <2>3, <2>4, <2>5, <2>6 DEF WalkInOrder
  <1>7. Ordered(c)'  BY <1>5, <1>6 DEF Ordered
  <1> QED BY <1>2, <1>7

\* An unlinked task is passed over: the one before it points to the one
\* after it, and it still points there itself.
LEMMA ReapOrder ==
  ASSUME LinuxTasksTypeOK, WalkRight, NEW b \in [Nodes -> 0..nforks], Ordered(b), NEW t \in Tasks, Reap(t)
  PROVE  Ordered(b)'
  <1> DEFINE p == Before(t)
  <1>0. /\ nforks \in Nat /\ t \in listed /\ t # InitTask /\ t \in Nodes
        /\ next' = [next EXCEPT ![p] = next[t]]
        /\ listed' = listed \ {t} /\ listed \subseteq Tasks
        /\ next \in [Nodes -> Nodes]
    BY DEF Reap, LinuxTasksTypeOK
  <1>1. /\ p \in listed \union {InitTask} /\ next[p] = t
        /\ \A q \in listed \union {InitTask} : next[q] = t => q = p
    BY <1>0, BeforeIs DEF Ordered
  <1> HIDE DEF p
  <1>2. \A u \in Nodes : b[u] \in Nat  BY <1>0
  <1>3. b[p] < b[t] /\ b[t] > 0  BY <1>0, <1>1 DEF Ordered, ListInOrder
  <1>4. p # t /\ p \in Nodes /\ next'[p] = next[t] /\ next[t] \in listed \union {InitTask} /\ next[t] # t
    <2>1. p # t /\ p \in Nodes  BY <1>0, <1>1, <1>2, <1>3
    <2>2. next[t] \in listed \union {InitTask}  BY <1>0 DEF Ordered, ListInOrder
    <2>3. next[t] # t  BY <1>0, <1>1, <2>1
    <2> QED BY <1>0, <2>1, <2>2, <2>3
  <1>5. \A u \in Nodes : u # p => next'[u] = next[u]
    BY <1>0
  <1>6. next[t] # InitTask => b[t] < b[next[t]] /\ next[t] \in Nodes
    BY <1>0, <1>4 DEF Ordered, ListInOrder
  <1>7. ListInOrder(b)'
    <2>1. b[InitTask] = 0 /\ (\A u \in listed' : b[u] > 0) /\ \A u, w \in listed' : b[u] = b[w] => u = w
      BY <1>0 DEF Ordered, ListInOrder
    <2>2. ASSUME NEW u \in listed' \union {InitTask}
          PROVE  next'[u] \in listed' \union {InitTask} /\ \E q \in listed' \union {InitTask} : next'[q] = u
      <3>1. next'[u] \in listed' \union {InitTask}
        <4>1. CASE u = p  BY <1>0, <1>4, <4>1
        <4>2. CASE u # p
          <5>1. u \in listed \union {InitTask} /\ u \in Nodes  BY <1>0
          <5>2. next'[u] = next[u] /\ next[u] # t  BY <1>1, <1>5, <4>2, <5>1
          <5> QED BY <1>0, <5>1, <5>2 DEF Ordered, ListInOrder
        <4> QED BY <4>1, <4>2
      <3>2. u \in listed \union {InitTask} /\ u # t  BY <1>0
      <3>3. PICK q \in listed \union {InitTask} : next[q] = u  BY <3>2 DEF Ordered, ListInOrder
      <3>4. q # p  BY <1>1, <3>2, <3>3
      <3>5. CASE q = t  BY <1>0, <1>1, <1>4, <3>1, <3>3, <3>5
      <3>6. CASE q # t  BY <1>0, <1>5, <3>1, <3>3, <3>4, <3>6
      <3> QED BY <3>5, <3>6
    <2>3. ASSUME NEW u \in listed' \union {InitTask}, next'[u] # InitTask PROVE b[u] < b[next'[u]]
      <3>1. u \in listed \union {InitTask} /\ u \in Nodes  BY <1>0
      <3>2. CASE u = p  BY <1>0, <1>2, <1>3, <1>4, <1>6, <2>3, <3>2
      <3>3. CASE u # p  BY <1>5, <2>3, <3>1, <3>3 DEF Ordered, ListInOrder
      <3> QED BY <3>2, <3>3
    <2>4. ASSUME NEW u \in listed' \union {InitTask}, NEW w \in listed', b[u] < b[w]
          PROVE  next'[u] # InitTask /\ b[next'[u]] <= b[w]
      <3>1. u \in listed \union {InitTask} /\ u \in Nodes /\ w \in listed /\ w # t /\ w \in Nodes  BY <1>0
      <3>2. next[u] # InitTask /\ b[next[u]] <= b[w]  BY <2>4, <3>1 DEF Ordered, ListInOrder
      <3>3. CASE u # p  BY <1>5, <3>1, <3>2, <3>3
      <3>4. CASE u = p
        <4>1. b[t] # b[w]  BY <1>0, <3>1 DEF Ordered, ListInOrder
        <4>2. b[t] < b[w]  BY <1>0, <1>1, <1>2, <3>1, <3>2, <3>4, <4>1
        <4>3. next[t] # InitTask /\ b[next[t]] <= b[w]  BY <1>0, <3>1, <4>2 DEF Ordered, ListInOrder
        <4> QED BY <1>4, <3>4, <4>3
      <3> QED BY <3>3, <3>4
    <2> QED BY <2>1, <2>2, <2>3, <2>4 DEF ListInOrder
  <1>8. ASSUME ~reused', reading' # "idle" PROVE WalkInOrder(b)'
    <2>0. /\ ~reused /\ reading # "idle"
          /\ outcome' = outcome /\ pos' = pos /\ reported' = reported
          /\ always' = always \intersect listed' /\ ever' = ever \union listed'
      BY <1>8 DEF Reap, Witness, taskWalkVars
    <2>1. WalkInOrder(b)  BY <2>0 DEF Ordered
    <2>2. /\ ever' = ever /\ always' \subseteq always /\ t \notin always'
          /\ always \subseteq ever /\ t \in ever /\ p \in ever \union {InitTask} /\ ever \subseteq Nodes
          /\ \A u \in ever \union {InitTask} : next[u] \in ever \union {InitTask}
      BY <1>0, <1>1, <2>0 DEF WalkRight, LinuxTasksTypeOK
    <2>3. (\A u \in ever' : b[u] > 0) /\ \A u, w \in ever' : b[u] = b[w] => u = w
      BY <2>1, <2>2 DEF WalkInOrder
    <2>4. ASSUME NEW u \in ever' \union {InitTask}, next'[u] # InitTask PROVE b[u] < b[next'[u]]
      <3>1. CASE u = p  BY <1>0, <1>2, <1>3, <1>4, <1>6, <2>4, <3>1
      <3>2. CASE u # p  BY <1>5, <2>1, <2>2, <2>4, <3>2 DEF WalkInOrder
      <3> QED BY <3>1, <3>2
    <2>5. ASSUME NEW u \in ever' \union {InitTask}, NEW w \in always', b[u] < b[w]
          PROVE  next'[u] # InitTask /\ b[next'[u]] <= b[w]
      <3>1. u \in ever \union {InitTask} /\ u \in Nodes /\ w \in always /\ w \in ever /\ w # t /\ w \in Nodes
        BY <2>2
      <3>2. next[u] # InitTask /\ b[next[u]] <= b[w]  BY <2>1, <2>5, <3>1 DEF WalkInOrder
      <3>3. CASE u # p  BY <1>5, <3>1, <3>2, <3>3
      <3>4. CASE u = p
        <4>1. b[t] # b[w]  BY <2>1, <2>2, <3>1 DEF WalkInOrder
        <4>2. b[t] < b[w]  BY <1>0, <1>1, <1>2, <3>1, <3>2, <3>4, <4>1
        <4>3. next[t] # InitTask /\ b[next[t]] <= b[w]  BY <2>1, <2>2, <3>1, <4>2 DEF WalkInOrder
        <4> QED BY <1>4, <3>4, <4>3
      <3> QED BY <3>3, <3>4
    <2>6. outcome' # "end" =>
            /\ \A w \in always' : b[w] <= b[pos'] => w \in Range(reported')
            /\ \A w \in Range(reported') : b[w] <= b[pos']
      BY <2>0, <2>1, <2>2 DEF WalkInOrder
    <2> QED BY <2>3, <2>4, <2>5, <2>6 DEF WalkInOrder
  <1> QED BY <1>7, <1>8 DEF Ordered

\* The other steps of the guest leave the list alone.
LEMMA StillOrder ==
  ASSUME LinuxTasksTypeOK, WalkRight, NEW b \in [Nodes -> 0..nforks], Ordered(b), NEW t \in Tasks,
         Exit(t) \/ Switch(t)
  PROVE  Ordered(b)'
  <1>1. UNCHANGED <<next, listed, reused, reading, outcome, pos, reported>>
    BY DEF Exit, Switch, Witness, taskWalkVars
  <1>2. always' = always \intersect listed /\ ever' = ever \union listed
    BY <1>1 DEF Exit, Switch, Witness
  <1>3. ListInOrder(b)'  BY <1>1 DEF Ordered, ListInOrder
  <1>4. ASSUME ~reused', reading' # "idle" PROVE WalkInOrder(b)'
    <2>1. always' = always /\ ever' = ever  BY <1>1, <1>2, <1>4 DEF WalkRight
    <2> QED BY <1>1, <1>4, <2>1 DEF Ordered, WalkInOrder
  <1> QED BY <1>3, <1>4 DEF Ordered

-----------------------------------------------------------------------------
(* The guest under the walk *)

\* The types are kept by the guest.
LEMMA GuestTypes ==
  ASSUME LinuxTasksInv, NEW t \in Tasks, Fork(t) \/ Exit(t) \/ Reap(t) \/ Switch(t)
  PROVE  LinuxTasksTypeOK'
  <1> USE DEF LinuxTasksInv
  <1>0. PICK b \in [Nodes -> 0..nforks] : ListInOrder(b)  OBVIOUS
  <1>1. \A u \in listed \union {InitTask} : Before(u) \in Nodes
    BY <1>0, BeforeIs DEF LinuxTasksTypeOK
  <1>2. UNCHANGED taskWalkVars /\ always' = always \intersect listed' /\ ever' = ever \union listed'
        /\ held' = held \union HeldNow'
    BY DEF Fork, Exit, Reap, Switch, Witness
  <1>3. CASE Fork(t)
    <2>1. next' \in [Nodes -> Nodes]  BY <1>1, <1>3 DEF Fork, LinuxTasksTypeOK
    <2>2. listed' \subseteq Tasks /\ mm' \in [Tasks -> Mms \union {Null}]
      <3>1. listed \subseteq Tasks /\ mm \in [Tasks -> Mms \union {Null}]
        BY DEF LinuxTasksTypeOK
      <3>. QED BY <3>1, <1>3 DEF Fork
    <2>3. UNCHANGED <<reaped, active, nswitches>> /\ nforks' \in 0..MaxForks /\ reused' \in BOOLEAN
      BY <1>3 DEF Fork, LinuxTasksTypeOK
    <2> QED BY <1>2, <2>1, <2>2, <2>3 DEF LinuxTasksTypeOK, taskWalkVars, HeldNow
  <1>4. CASE Exit(t)
    BY <1>2, <1>4, SMTT(40) DEF Exit, LinuxTasksTypeOK, taskWalkVars, HeldNow
  <1>5. CASE Reap(t)
    <2>1. next' \in [Nodes -> Nodes]  BY <1>1, <1>5 DEF Reap, LinuxTasksTypeOK
    <2>2. listed' \subseteq Tasks /\ reaped' \subseteq Tasks /\ active' \in [Tasks -> Mms \union {Null}]
      BY <1>5 DEF Reap, LinuxTasksTypeOK
    <2>3. UNCHANGED <<mm, nforks, nswitches, reused>>
      BY <1>5 DEF Reap
    <2> QED BY <1>2, <2>1, <2>2, <2>3, SMTT(40) DEF LinuxTasksTypeOK, taskWalkVars, HeldNow
  <1>6. CASE Switch(t)
    <2>1. /\ active' \in [Tasks -> Mms \union {Null}] /\ nswitches' \in 0..MaxSwitches
          /\ UNCHANGED <<next, listed, reaped, mm, nforks, reused>>
      BY <1>6 DEF Switch, LinuxTasksTypeOK
    <2> QED BY <1>2, <2>1, SMTT(40) DEF LinuxTasksTypeOK, taskWalkVars, HeldNow
  <1> QED BY <1>3, <1>4, <1>5, <1>6

\* What the walk has seen stays so, whatever the guest does next.
LEMMA GuestWalk ==
  ASSUME LinuxTasksInv, NEW t \in Tasks, Fork(t) \/ Exit(t) \/ Reap(t) \/ Switch(t)
  PROVE  WalkRight' /\ NoneMissed' /\ EachOnce' /\ FoundMatches'
  <1> USE DEF LinuxTasksInv
  <1>0. PICK b \in [Nodes -> 0..nforks] : ListInOrder(b)  OBVIOUS
  <1>1. UNCHANGED <<query, target, reading, pos, got, reported, outcome>>
        /\ always' = always \intersect listed' /\ ever' = ever \union listed'
        /\ held' = held \union HeldNow' /\ (~reused' => ~reused)
    <2>1. Witness  BY DEF Fork, Exit, Reap, Switch
    <2>2. ~reused' => ~reused  BY DEF Fork, Exit, Reap, Switch, LinuxTasksTypeOK
    <2> QED BY <2>1, <2>2 DEF Witness, taskWalkVars
  <1>2. NoneMissed' /\ EachOnce' /\ FoundMatches'
    BY <1>1 DEF NoneMissed, EachOnce, FoundMatches, IsInjective
  <1>3. \A u \in Tasks \ listed' : mm'[u] = Null /\ active'[u] = Null
    <2>0. /\ \A u \in Tasks \ listed : mm[u] = Null /\ active[u] = Null
          /\ mm \in [Tasks -> Mms \union {Null}] /\ active \in [Tasks -> Mms \union {Null}]
      BY DEF WalkRight, LinuxTasksTypeOK
    <2>1. CASE Fork(t)  BY <2>0, <2>1 DEF Fork
    <2>2. CASE Exit(t)  BY <2>0, <2>2 DEF Exit
    <2>3. CASE Reap(t)  BY <2>0, <2>3 DEF Reap
    <2>4. CASE Switch(t)
      <3>1. t \in listed /\ listed' = listed /\ mm' = mm /\ \E m : active' = [active EXCEPT ![t] = m]
        BY <2>4 DEF Switch
      <3> QED BY <2>0, <3>1
    <2> QED BY <2>1, <2>2, <2>3, <2>4
  <1>4. ASSUME reading # "idle"
        PROVE  /\ ever' \subseteq listed' \union reaped'
               /\ \A u \in ever' \union {InitTask} : next'[u] \in ever' \union {InitTask}
    <2>0. listed \subseteq ever /\ ever \subseteq listed \union reaped /\ ever \subseteq Nodes
          /\ \A u \in ever \union {InitTask} : next[u] \in ever \union {InitTask}
      BY <1>4 DEF WalkRight, LinuxTasksTypeOK
    <2>1. CASE Exit(t) \/ Switch(t)
      <3>1. UNCHANGED <<next, listed, reaped>>  BY <2>1 DEF Exit, Switch
      <3> QED BY <1>1, <2>0, <3>1
    <2>2. CASE Fork(t)
      <3>1. Before(InitTask) \in listed \union {InitTask}
        BY <1>0, BeforeIs
      <3>2. ever' = ever \union {t}  BY <1>1, <2>0, <2>2 DEF Fork
      <3>3. next' = [next EXCEPT ![Before(InitTask)] = t, ![t] = InitTask] /\ listed' = listed \union {t} /\ reaped' = reaped
        BY <2>2 DEF Fork
      <3>4. next \in [Nodes -> Nodes]  BY DEF LinuxTasksTypeOK
      <3> QED BY <2>0, <3>1, <3>2, <3>3, <3>4
    <2>3. CASE Reap(t)
      <3>1. Before(t) \in listed \union {InitTask} /\ t \in listed
        BY <1>0, <2>3, BeforeIs DEF Reap
      <3>2. next' = [next EXCEPT ![Before(t)] = next[t]] /\ listed' = listed \ {t} /\ reaped' = reaped \union {t}
        BY <2>3 DEF Reap
      <3>3. ever' = ever  BY <1>1, <2>0, <3>2
      <3>4. next \in [Nodes -> Nodes]  BY DEF LinuxTasksTypeOK
      <3> QED BY <2>0, <3>1, <3>2, <3>3, <3>4
    <2> QED BY <2>1, <2>2, <2>3
  <1>5. reading # "idle" => pos \in ever' \union {InitTask} /\ Range(reported) \subseteq ever'
    BY <1>1 DEF WalkRight
  <1>6. reading = "pgd" => <<pos, got>> \in held'
    BY <1>1 DEF WalkRight
  <1>7. WalkRight'
    BY <1>1, <1>3, <1>4, <1>5, <1>6 DEF WalkRight
  <1> QED BY <1>2, <1>7

\* A step of the guest keeps the invariant.
LEMMA GuestInv ==
  ASSUME LinuxTasksInv, Guest
  PROVE  LinuxTasksInv'
  <1>0. PICK t \in Tasks : Fork(t) \/ Exit(t) \/ Reap(t) \/ Switch(t)  BY DEF Guest
  <1>1. LinuxTasksTypeOK' /\ WalkRight' /\ NoneMissed' /\ EachOnce' /\ FoundMatches'
    BY <1>0, GuestTypes, GuestWalk
  <1>2. PICK b \in [Nodes -> 0..nforks] : Ordered(b)
    BY DEF LinuxTasksInv, Ordered
  <1>3. \E c \in [Nodes -> 0..nforks'] : Ordered(c)'
    <2>1. CASE Fork(t)  BY <1>2, <2>1, ForkOrder DEF LinuxTasksInv
    <2>2. CASE Reap(t)
      <3>1. nforks' = nforks  BY <2>2 DEF Reap
      <3> QED BY <1>2, <2>2, <3>1, ReapOrder DEF LinuxTasksInv
    <2>3. CASE Exit(t) \/ Switch(t)
      <3>1. nforks' = nforks  BY <2>3 DEF Exit, Switch
      <3> QED BY <1>2, <2>3, <3>1, StillOrder DEF LinuxTasksInv
    <2> QED BY <1>0, <2>1, <2>2, <2>3
  <1> QED BY <1>1, <1>3 DEF LinuxTasksInv, Ordered

-----------------------------------------------------------------------------
(* The walk *)

\* The walk begins at the head, with nothing behind it.
LEMMA StartWalkInv ==
  ASSUME LinuxTasksInv, StartWalk
  PROVE  LinuxTasksInv'
  <1> USE DEF LinuxTasksInv
  <1>0. /\ UNCHANGED <<next, listed, reaped, mm, active, nforks, nswitches, query, got, reported, outcome, nTaskFaults, reused>>
        /\ reading = "idle" /\ reading' = "next" /\ pos' = InitTask
        /\ always' = listed /\ ever' = listed /\ held' = HeldNow
        /\ target' \in Tasks \union Mms \union {Kpgd, Null}
        /\ query' = "current" => target' # Kpgd
    BY DEF StartWalk, taskGuestVars, PgdOf, LinuxTasksTypeOK
  <1>1. LinuxTasksTypeOK'
    BY <1>0 DEF LinuxTasksTypeOK, HeldNow
  <1>2. reported = <<>> /\ outcome = "none" /\ Range(reported) = {}
    BY <1>0 DEF WalkRight, Range
  <1>3. PICK b \in [Nodes -> 0..nforks] : ListInOrder(b)  OBVIOUS
  <1>4. HeldNow' = HeldNow  BY <1>0 DEF HeldNow
  <1>5. WalkRight'
    <2>1. \A u \in listed \union {InitTask} : next[u] \in listed \union {InitTask}  BY <1>3 DEF ListInOrder
    <2>2. \A u \in Tasks \ listed : mm[u] = Null /\ active[u] = Null  BY DEF WalkRight
    <2> QED BY <1>0, <1>2, <1>4, <2>1, <2>2 DEF WalkRight
  <1>6. NoneMissed' /\ EachOnce' /\ FoundMatches'
    BY <1>0, <1>2 DEF NoneMissed, EachOnce, FoundMatches, IsInjective
  <1>7. ListInOrder(b)'  BY <1>0, <1>3 DEF ListInOrder
  <1>8. WalkInOrder(b)'
    <2>1. \A w \in listed : ~(b[w] <= b[InitTask])  BY <1>3 DEF ListInOrder, LinuxTasksTypeOK
    <2>2. Range(reported') = {}  BY <1>0, <1>2
    <2>3. /\ \A t \in listed : b[t] > 0
          /\ \A u, w \in listed : b[u] = b[w] => u = w
          /\ \A u \in listed \union {InitTask} : next[u] # InitTask => b[u] < b[next[u]]
          /\ \A u \in listed \union {InitTask} : \A w \in listed :
               b[u] < b[w] => next[u] # InitTask /\ b[next[u]] <= b[w]
      BY <1>3 DEF ListInOrder
    <2> QED BY <1>0, <2>1, <2>2, <2>3 DEF WalkInOrder
  <1> QED BY <1>0, <1>1, <1>5, <1>6, <1>7, <1>8

\* What is appended to a sequence is in it.
LEMMA RangeAppend ==
  ASSUME NEW S, NEW s \in Seq(S), NEW x \in S
  PROVE  /\ Append(s, x) \in Seq(S)
         /\ Range(Append(s, x)) = Range(s) \union {x}
         /\ IsInjective(s) /\ x \notin Range(s) => IsInjective(Append(s, x))
  <1> DEFINE a == Append(s, x)
  <1>1. /\ a \in Seq(S) /\ DOMAIN a = 1 .. Len(s) + 1 /\ DOMAIN s = 1 .. Len(s) /\ Len(s) \in Nat
        /\ a[Len(s) + 1] = x /\ \A i \in DOMAIN s : a[i] = s[i]
    OBVIOUS
  <1> HIDE DEF a
  <1>2. Range(a) = Range(s) \union {x}
    <2>1. Range(a) \subseteq Range(s) \union {x}  BY <1>1 DEF Range
    <2>2. Range(s) \subseteq Range(a)  BY <1>1 DEF Range
    <2>3. x \in Range(a)  BY <1>1 DEF Range
    <2> QED BY <2>1, <2>2, <2>3
  <1>3. IsInjective(s) /\ x \notin Range(s) => IsInjective(a)
    BY <1>1 DEF IsInjective, Range
  <1> QED BY <1>1, <1>2, <1>3 DEF a

\* The next entry: nothing that was there all the time lies between.
LEMMA AdvanceInv ==
  ASSUME LinuxTasksInv, Advance
  PROVE  LinuxTasksInv'
  <1> USE DEF LinuxTasksInv
  <1> DEFINE v == next[pos]
  <1>0. /\ UNCHANGED <<next, listed, reaped, mm, active, nforks, nswitches, always, ever, held, reused, query, target, got, nTaskFaults>>
        /\ reading = "next" /\ pos' = v
        /\ IF v = InitTask THEN reading' = "done" /\ outcome' = "end" /\ UNCHANGED reported
           ELSE reported' = Append(reported, v) /\ reading' = FirstRead[query] /\ UNCHANGED outcome
    BY DEF Advance, taskGuestVars, taskGhostVars, Finish
  <1>1. /\ pos \in ever \union {InitTask} /\ v \in ever \union {InitTask} /\ ever \subseteq Tasks
        /\ Range(reported) \subseteq ever /\ reported \in Seq(Tasks) /\ outcome = "none"
        /\ query \in {"collect", "id", "current"} /\ always \subseteq ever
    BY <1>0 DEF WalkRight, LinuxTasksTypeOK
  <1>2. v # InitTask =>
          /\ Append(reported, v) \in Seq(Tasks) /\ Range(Append(reported, v)) = Range(reported) \union {v}
          /\ IsInjective(reported) /\ v \notin Range(reported) => IsInjective(Append(reported, v))
    BY <1>1, RangeAppend
  <1>3. /\ query = "collect" => FirstRead[query] = "next"
        /\ query = "id" => FirstRead[query] = "id"
        /\ query = "current" => FirstRead[query] = "mm"
    BY DEF FirstRead
  <1> HIDE DEF v
  <1>4. LinuxTasksTypeOK'
    <2>1. /\ reading' \in {"idle", "next", "id", "mm", "active_mm", "pgd", "flags", "done"} /\ pos' \in Nodes
          /\ reported' \in Seq(Tasks) /\ outcome' \in {"none", "end", "found", "err"}
      BY <1>0, <1>1, <1>2, <1>3
    <2> QED BY <1>0, <2>1 DEF LinuxTasksTypeOK
  <1>5. query = "current" => target # Kpgd
    BY <1>0 DEF WalkRight
  <1>6. HeldNow' = HeldNow  BY <1>0 DEF HeldNow
  <1>7. WalkRight'
    <2>1. Range(reported') \subseteq ever  BY <1>0, <1>1, <1>2
    <2> QED BY <1>0, <1>1, <1>3, <1>5, <1>6, <2>1 DEF WalkRight
  <1>8. PICK b \in [Nodes -> 0..nforks] : ListInOrder(b) /\ (~reused => WalkInOrder(b))
    BY <1>0
  <1>9. ListInOrder(b)'  BY <1>0, <1>8 DEF ListInOrder
  <1>10. \A u \in Nodes : b[u] \in Nat  BY DEF LinuxTasksTypeOK
  <1>11. ASSUME ~reused PROVE WalkInOrder(b)' /\ NoneMissed' /\ IsInjective(reported')
    <2>1. /\ \A t \in ever : b[t] > 0
          /\ \A u, w \in ever : b[u] = b[w] => u = w
          /\ \A u \in ever \union {InitTask} : next[u] # InitTask => b[u] < b[next[u]]
          /\ \A u \in ever \union {InitTask} : \A w \in always :
               b[u] < b[w] => next[u] # InitTask /\ b[next[u]] <= b[w]
          /\ \A w \in always : b[w] <= b[pos] => w \in Range(reported)
          /\ \A w \in Range(reported) : b[w] <= b[pos]
      BY <1>1, <1>8, <1>11 DEF WalkInOrder
    <2>2. IsInjective(reported)  BY <1>11 DEF EachOnce
    <2>3. CASE v = InitTask
      <3>1. \A w \in always : ~(b[pos] < b[w])  BY <1>1, <2>1, <2>3 DEF v
      <3>2. \A w \in always : w \in Range(reported)  BY <1>1, <1>10, <2>1, <3>1
      <3>3. NoneMissed'  BY <1>0, <2>3, <3>2 DEF NoneMissed
      <3>4. WalkInOrder(b)'  BY <1>0, <2>1, <2>3 DEF WalkInOrder
      <3> QED BY <1>0, <2>2, <2>3, <3>3, <3>4
    <2>4. CASE v # InitTask
      <3>1. v \in ever /\ b[pos] < b[v]  BY <1>1, <2>1, <2>4 DEF v
      <3>2. \A w \in Range(reported) : b[w] < b[v]
        BY <1>1, <1>10, <2>1, <3>1
      <3>3. v \notin Range(reported)  BY <1>1, <1>10, <3>1, <3>2
      <3>4. IsInjective(reported')  BY <1>0, <1>2, <2>2, <2>4, <3>3
      <3>5. ASSUME NEW w \in always, b[w] <= b[v] PROVE w \in Range(reported')
        <4>1. CASE b[w] <= b[pos]  BY <1>0, <1>2, <2>1, <2>4, <4>1
        <4>2. CASE b[pos] < b[w]
          <5>1. b[v] <= b[w]  BY <1>1, <2>1, <4>2 DEF v
          <5>2. b[w] = b[v]  BY <1>1, <1>10, <3>1, <3>5, <5>1
          <5>3. w = v  BY <1>1, <2>1, <3>1, <5>2
          <5> QED BY <1>0, <1>2, <2>4, <5>3
        <4> QED BY <1>1, <1>10, <4>1, <4>2
      <3>6. \A w \in Range(reported') : b[w] <= b[v]
        <4>1. Range(reported') = Range(reported) \union {v}  BY <1>0, <1>2, <2>4
        <4>2. \A w \in Range(reported) \union {v} : b[w] \in Nat  BY <1>1, <1>10, <3>1
        <4> QED BY <3>2, <4>1, <4>2
      <3>7. WalkInOrder(b)'  BY <1>0, <2>1, <3>5, <3>6 DEF WalkInOrder
      <3>8. NoneMissed'  BY <1>0, <1>1, <2>4 DEF NoneMissed
      <3> QED BY <3>4, <3>7, <3>8
    <2> QED BY <2>3, <2>4
  <1>12. NoneMissed' /\ EachOnce' /\ FoundMatches'
    <2>1. Range(reported') \subseteq ever'  BY <1>0, <1>1, <1>2
    <2>2. FoundMatches'  BY <1>0, <1>1 DEF FoundMatches
    <2>3. NoneMissed' /\ EachOnce'  BY <1>0, <1>11, <2>1 DEF NoneMissed, EachOnce
    <2> QED BY <2>2, <2>3
  <1> QED BY <1>0, <1>4, <1>7, <1>8, <1>9, <1>11, <1>12

\* A step that only reads one field of the task: where the walk is, and what
\* it has given, stay.
LEMMA FieldRead ==
  ASSUME LinuxTasksInv, reading \notin {"idle", "done"},
         UNCHANGED <<taskGuestVars, taskGhostVars, query, target, pos, reported>>,
         reading' \in {"next", "active_mm", "pgd", "flags", "done"}, got' \in Mms \union {Null},
         outcome' \in {"none", "found", "err"}, nTaskFaults' \in 0..MaxTaskFaults,
         outcome' # "none" => reading' = "done",
         reading' \in {"active_mm", "pgd", "flags"} => query = "current" /\ pos \in Tasks /\ target # Kpgd,
         query = "current" => target # Kpgd,
         reading' = "pgd" => <<pos, got'>> \in held,
         outcome' = "found" => IF query = "id" THEN pos = target ELSE <<pos, target>> \in held
  PROVE  LinuxTasksInv'
  <1> USE DEF LinuxTasksInv
  <1>0. UNCHANGED <<next, listed, reaped, mm, active, nforks, nswitches, always, ever, held, reused, query, target, pos, reported>>
    BY DEF taskGuestVars, taskGhostVars
  <1>1. LinuxTasksTypeOK'  BY <1>0 DEF LinuxTasksTypeOK
  <1>2. HeldNow' = HeldNow  BY <1>0 DEF HeldNow
  <1>3. WalkRight'
    BY <1>0, <1>2 DEF WalkRight
  <1>4. outcome # "end"  BY DEF WalkRight
  <1>5. NoneMissed' /\ EachOnce' /\ FoundMatches'
    BY <1>0 DEF NoneMissed, EachOnce, FoundMatches, IsInjective
  <1>6. PICK b \in [Nodes -> 0..nforks] : ListInOrder(b) /\ (~reused => WalkInOrder(b))
    OBVIOUS
  <1>7. ListInOrder(b)'  BY <1>0, <1>6 DEF ListInOrder
  <1>8. ~reused' => WalkInOrder(b)'
    BY <1>0, <1>4, <1>6 DEF WalkInOrder
  <1> QED BY <1>0, <1>1, <1>3, <1>5, <1>6, <1>7, <1>8

\* process_id, process_mm, pgd and flags.
LEMMA ReadsInv ==
  ASSUME LinuxTasksInv, ReadId \/ ReadMm \/ ReadActiveMm \/ ReadPgd \/ ReadFlags \/ TaskFault
  PROVE  LinuxTasksInv'
  <1> USE DEF LinuxTasksInv
  <1>0. /\ got \in Mms \union {Null} /\ nTaskFaults \in 0..MaxTaskFaults
        /\ reading \in {"mm", "active_mm", "pgd", "flags"} => query = "current" /\ pos \in Tasks /\ target # Kpgd
        /\ reading \notin {"idle", "done"} => outcome = "none" /\ HeldNow \subseteq held /\ (query = "current" => target # Kpgd)
    BY DEF LinuxTasksTypeOK, WalkRight
  <1>1. CASE ReadId
    <2>1. reading = "id" /\ query = "id"  BY <1>1 DEF ReadId, WalkRight
    <2> QED BY <1>0, <1>1, <2>1, FieldRead DEF ReadId, Decide, Finish
  <1>2. CASE ReadMm
    <2>1. mm[pos] # Null => <<pos, mm[pos]>> \in held
      <3>1. pos \in Tasks /\ mm[pos] \in Mms \union {Null}  BY <1>0, <1>2 DEF ReadMm, LinuxTasksTypeOK
      <3>2. mm[pos] # Null => pos \in listed  BY <3>1 DEF WalkRight
      <3> QED BY <1>0, <1>2, <3>1, <3>2 DEF ReadMm, HeldNow
    <2>2. mm[pos] \in Mms \union {Null}  BY <1>0, <1>2 DEF ReadMm, LinuxTasksTypeOK
    <2> QED BY <1>0, <1>2, <2>1, <2>2, FieldRead DEF ReadMm
  <1>3. CASE ReadActiveMm
    <2>1. active[pos] # Null => <<pos, active[pos]>> \in held
      <3>1. pos \in Tasks /\ active[pos] \in Mms \union {Null}  BY <1>0, <1>3 DEF ReadActiveMm, LinuxTasksTypeOK
      <3>2. active[pos] # Null => pos \in listed  BY <3>1 DEF WalkRight
      <3> QED BY <1>0, <1>3, <3>1, <3>2 DEF ReadActiveMm, HeldNow
    <2>2. active[pos] \in Mms \union {Null}  BY <1>0, <1>3 DEF ReadActiveMm, LinuxTasksTypeOK
    <2> QED BY <1>0, <1>3, <2>1, <2>2, FieldRead DEF ReadActiveMm
  <1>4. CASE ReadPgd
    <2>1. reading = "pgd" /\ <<pos, got>> \in held  BY <1>4 DEF ReadPgd, WalkRight
    <2> QED BY <1>0, <1>4, <2>1, FieldRead DEF ReadPgd, Decide, Finish
  <1>5. CASE ReadFlags
    <2>1. reading = "flags" /\ query = "current" /\ target # Kpgd /\ outcome = "none"
      BY <1>0, <1>5 DEF ReadFlags
    <2>2. /\ UNCHANGED <<taskGuestVars, taskGhostVars, query, target, pos, got, reported, nTaskFaults>>
          /\ (reading' = "next" /\ outcome' = outcome) \/ (reading' = "done" /\ outcome' = "err")
      BY <1>5, <2>1 DEF ReadFlags, Decide, Finish
    <2> QED BY <1>0, <2>1, <2>2, FieldRead
  <1>6. CASE TaskFault
    <2>1. /\ UNCHANGED <<taskGuestVars, taskGhostVars, query, target, pos, got, reported>>
          /\ reading \notin {"idle", "done"} /\ reading' = "done" /\ outcome' = "err"
          /\ nTaskFaults' \in 0..MaxTaskFaults
      BY <1>0, <1>6 DEF TaskFault, Finish
    <2> QED BY <1>0, <2>1, FieldRead
  <1> QED BY <1>1, <1>2, <1>3, <1>4, <1>5, <1>6

-----------------------------------------------------------------------------
(* Theorems *)

\* The list is empty, and nothing is asked yet.
LEMMA LinuxTasksInitInv == LinuxTasksInit => LinuxTasksInv
  <1> SUFFICES ASSUME LinuxTasksInit PROVE LinuxTasksInv
    OBVIOUS
  <1> USE DEF LinuxTasksInit
  <1>0. WalkRight
    BY DEF WalkRight
  <1>1. LinuxTasksTypeOK
    <2>1. next \in [Nodes -> Nodes] /\ mm \in [Tasks -> Mms \union {Null}] /\ active \in [Tasks -> Mms \union {Null}]
      OBVIOUS
    <2>2. nforks \in 0..MaxForks /\ nswitches \in 0..MaxSwitches /\ nTaskFaults \in 0..MaxTaskFaults
      OBVIOUS
    <2>3. reported \in Seq(Tasks) /\ {listed, reaped, always, ever} \subseteq SUBSET Tasks
      OBVIOUS
    <2>4. /\ query \in Queries /\ target \in Tasks \union Mms \union {Kpgd, Null} /\ reading = "idle"
          /\ pos \in Nodes /\ got \in Mms \union {Null} /\ outcome = "none" /\ held = {} /\ reused = FALSE
      OBVIOUS
    <2> HIDE DEF LinuxTasksInit
    <2> QED BY <2>1, <2>2, <2>3, <2>4 DEF LinuxTasksTypeOK
  <1>2. NoneMissed /\ EachOnce /\ FoundMatches
    BY DEF NoneMissed, EachOnce, FoundMatches, Range, IsInjective
  <1>3. [u \in Nodes |-> 0] \in [Nodes -> 0..nforks] /\ ListInOrder([u \in Nodes |-> 0])
    BY DEF ListInOrder
  <1> QED BY <1>0, <1>1, <1>2, <1>3 DEF LinuxTasksInv

\* Whatever the guest does between two reads, LinuxTasksInv holds.
THEOREM LinuxTasksInvariant == LinuxTasksSpec => []LinuxTasksInv
  <1>1. ASSUME LinuxTasksInv, [LinuxTasksNext]_taskVars PROVE LinuxTasksInv'
    <2>1. CASE UNCHANGED taskVars
      <3>1. UNCHANGED <<next, listed, reaped, mm, active, nforks, nswitches, query, target, reading, pos, got,
                        reported, outcome, nTaskFaults, always, ever, held, reused>>
        BY <2>1 DEF taskVars, taskGuestVars, taskWalkVars, taskGhostVars
      <3>2. LinuxTasksTypeOK' /\ WalkRight'
        BY <1>1, <3>1, SMTT(40) DEF LinuxTasksInv, LinuxTasksTypeOK, WalkRight, HeldNow, Range
      <3>3. NoneMissed' /\ EachOnce' /\ FoundMatches'
        BY <1>1, <3>1 DEF LinuxTasksInv, NoneMissed, EachOnce, FoundMatches, Range, IsInjective
      <3>4. PICK b \in [Nodes -> 0..nforks] : Ordered(b)  BY <1>1 DEF LinuxTasksInv, Ordered
      <3>5. Ordered(b)'
        BY <3>1, <3>4 DEF Ordered, ListInOrder, WalkInOrder, Range
      <3> QED BY <3>1, <3>2, <3>3, <3>5 DEF LinuxTasksInv, Ordered
    <2> QED BY <1>1, <2>1, GuestInv, StartWalkInv, AdvanceInv, ReadsInv DEF LinuxTasksNext, TaskWalk
  <1> QED BY <1>1, LinuxTasksInitInv, PTL DEF LinuxTasksSpec

\* A walk that ends has given the closure every process that was there all
\* the time, however the guest changed the list under it.
THEOREM NoneMissedAlways == LinuxTasksSpec => []NoneMissed
  <1>1. LinuxTasksInv => NoneMissed  BY DEF LinuxTasksInv
  <1> QED BY <1>1, LinuxTasksInvariant, PTL

\* The closure is given processes that were there, each one once.
THEOREM EachOnceAlways == LinuxTasksSpec => []EachOnce
  <1>1. LinuxTasksInv => EachOnce  BY DEF LinuxTasksInv
  <1> QED BY <1>1, LinuxTasksInvariant, PTL

\* The process that is found had what was looked for.
THEOREM FoundMatchesAlways == LinuxTasksSpec => []FoundMatches
  <1>1. LinuxTasksInv => FoundMatches  BY DEF LinuxTasksInv
  <1> QED BY <1>1, LinuxTasksInvariant, PTL

HIDE TasksAssumption DEF Nodes

AreaType == [start : 0..Pages, end : 0..Pages, file : Files \union {NoFile},
             off : 0..Pages + 1, next : Vmas \union {NoVma}]

USE ModulesAssumption

-----------------------------------------------------------------------------
(* VMAs *)

\* The fields of a VMA.
LEMMA VmaTypes ==
  ASSUME LinuxModulesTypeOK
  PROVE  /\ \A v \in Vmas : /\ vma[v].start \in 0 .. Pages /\ vma[v].end \in 0 .. Pages
                            /\ vma[v].file \in Files \union {NoFile} /\ vma[v].off \in 0 .. Pages + 1
                            /\ vma[v].next \in Vmas \union {NoVma}
         /\ mapped \subseteq Vmas /\ freed \subseteq Vmas
         /\ first \in Vmas \union {NoVma}
  BY DEF LinuxModulesTypeOK

\* The fields of a module.
LEMMA ModuleTypes ==
  ASSUME LinuxModulesTypeOK
  PROVE  /\ Len(modules) \in Nat /\ DOMAIN modules = 1 .. Len(modules)
         /\ \A k \in DOMAIN modules : /\ modules[k].module \in Vmas /\ modules[k].file \in Files \union {NoFile}
                                       /\ modules[k].start \in 0 .. Pages /\ modules[k].end \in 0 .. Pages
<1>. DEFINE M == [module : Vmas, file : Files \union {NoFile}, start : 0..Pages, end : 0..Pages]
<1>1. modules \in Seq(M)
  BY DEF LinuxModulesTypeOK
<1>2. Len(modules) \in Nat /\ DOMAIN modules = 1 .. Len(modules) /\ \A k \in DOMAIN modules : modules[k] \in M
  <2>. HIDE DEF M
  <2>. QED BY <1>1
<1>. QED BY <1>2

\* The VMA whose link changes is the last one below the page.
LEMMA BelowIs ==
  ASSUME LinuxModulesTypeOK, NEW a \in 0 .. Pages
  PROVE  \/ Below(a) = NoVma /\ \A u \in mapped : ~(vma[u].end <= a)
         \/ /\ Below(a) \in mapped /\ vma[Below(a)].end <= a
            /\ \A u \in mapped : vma[u].end <= a => vma[u].end <= vma[Below(a)].end
<1>. DEFINE lower == {v \in mapped : vma[v].end <= a}
            Rest == {Pages - vma[v].end : v \in lower}
<1>. USE VmaTypes
<1>1. CASE lower = {}
  BY <1>1 DEF Below
<1>2. CASE lower # {}
  <2>p. Pages \in Nat
    OBVIOUS
  <2>0. \A v \in lower : vma[v].end \in 0 .. Pages
    OBVIOUS
  <2>1. Rest \in SUBSET Nat /\ Rest # {}
    <3>1. \A v \in lower : Pages - vma[v].end \in Nat
      BY <2>0, <2>p
    <3>2. PICK v \in lower : TRUE
      BY <1>2
    <3>3. Pages - vma[v].end \in Rest
      OBVIOUS
    <3>4. \A r \in Rest : \E w \in lower : r = Pages - vma[w].end
      OBVIOUS
    <3>. QED BY ONLY <3>1, <3>3, <3>4
  <2>2. PICK r \in Rest : \A s \in Rest : r <= s
    BY <2>1, LeastNat
  <2>3. PICK v \in lower : r = Pages - vma[v].end
    BY <2>2
  <2>4. \A w \in lower : vma[w].end <= vma[v].end
    <3>1. ASSUME NEW w \in lower PROVE vma[w].end <= vma[v].end
      <4>1. Pages - vma[w].end \in Rest
        BY <3>1
      <4>2. Pages - vma[v].end <= Pages - vma[w].end
        BY <4>1, <2>2, <2>3
      <4>3. vma[w].end \in 0 .. Pages /\ vma[v].end \in 0 .. Pages
        BY <2>0
      <4>. QED BY ONLY <4>2, <4>3, <2>p
    <3>. QED BY <3>1
  <2>5. Below(a) \in lower /\ \A w \in lower : vma[w].end <= vma[Below(a)].end
    BY <2>3, <2>4, <1>2 DEF Below
  <2>. QED BY <2>5
<1>. QED BY <1>1, <1>2

-----------------------------------------------------------------------------
(* The process *)

\* What a step of the process does not undo, on the side of the walk.
LEMMA WalkKept ==
  ASSUME ModulesInv, LinuxModulesTypeOK', UNCHANGED scanVars,
         Used \subseteq Used', \A u \in Used : vma[u].start <= vma'[u].start
  PROVE  Sorted' /\ WalkUpwards'
<1>1. doing' = doing /\ cur' = cur /\ at' = at /\ ahead' = ahead /\ start' = start /\ modules' = modules
  BY DEF scanVars
<1>2. Sorted'
  BY <1>1 DEF Sorted, ModulesInv
<1>3. LinuxModulesTypeOK /\ Used \subseteq Vmas /\ \A u \in Used : vma[u].start \in Nat /\ vma'[u].start \in Nat
  BY VmaTypes DEF ModulesInv, Used, LinuxModulesTypeOK
<1>4. \A k \in DOMAIN modules : modules[k].start \in Nat
  BY <1>3, ModuleTypes
<1>5. start \in Nat
  BY <1>3 DEF LinuxModulesTypeOK
<1>6. WalkUpwards'
  BY <1>1, <1>3, <1>4, <1>5 DEF WalkUpwards, ModulesInv, AtVma, InSpanOf
<1>. QED BY <1>2, <1>6

\* The list and the fields after the process has written.
LEMMA ProcessKept ==
  ASSUME ModulesInv, Write, LinuxModulesTypeOK', mapped' \intersect freed' = {}, ListRight',
         Used \subseteq Used', \A u \in Used : vma[u].start <= vma'[u].start
  PROVE  ModulesInv'
<1>1. UNCHANGED scanVars /\ nwrites' # 0
  BY DEF Write, ModulesInv, LinuxModulesTypeOK
<1>2. Sorted' /\ WalkUpwards'
  BY <1>1, WalkKept
<1>. QED BY <1>1, <1>2 DEF ModulesInv

\* The types after a step of the process.
LEMMA WriteTypes ==
  ASSUME LinuxModulesTypeOK, Write, vma' \in [Vmas -> AreaType], first' \in Vmas \union {NoVma},
         mapped' \subseteq Vmas, freed' \subseteq Vmas
  PROVE  LinuxModulesTypeOK'
<1>1. nwrites' \in 0..MaxWrites
  BY DEF Write, LinuxModulesTypeOK
<1>2. /\ doing' = doing /\ cur' = cur /\ at' = at /\ ahead' = ahead /\ file' = file
      /\ start' = start /\ modules' = modules
  BY DEF Write, scanVars
<1>3. {first, cur, at, ahead}' \subseteq Vmas \union {NoVma}
  BY <1>2 DEF LinuxModulesTypeOK
<1>. QED BY <1>1, <1>2, <1>3 DEF LinuxModulesTypeOK, AreaType

LEMMA TrimKeeps ==
  ASSUME ModulesInv, NEW v \in Vmas, Trim(v)
  PROVE  ModulesInv'
<1>. USE VmaTypes
<1>1. LinuxModulesTypeOK /\ ListRight /\ mapped \intersect freed = {}
  BY DEF ModulesInv
<1>0. vma[v] = [start |-> vma[v].start, end |-> vma[v].end, file |-> vma[v].file,
                off |-> vma[v].off, next |-> vma[v].next]
  BY <1>1 DEF LinuxModulesTypeOK
<1>2. v \in mapped /\ vma[v].end - vma[v].start > 1 /\ first' = first /\ mapped' = mapped /\ freed' = freed /\ Write
  BY DEF Trim
<1>3. Used' = Used
  BY <1>2 DEF Used
<1>4. vma[v].off <= vma[v].start + 1
  BY <1>1 DEF ListRight
<1>5. /\ vma' \in [Vmas -> AreaType]
      /\ \A u \in Vmas : vma'[u].next = vma[u].next /\ (u # v => vma'[u] = vma[u])
      /\ vma'[v].off <= vma'[v].start + 1
      /\ vma[v].start <= vma'[v].start /\ vma'[v].start < vma'[v].end /\ vma'[v].end <= vma[v].end
  <2>1. CASE vma' = [vma EXCEPT ![v].end = @ - 1]
    <3>1. vma'[v] = [vma[v] EXCEPT !.end = vma[v].end - 1]
      BY <2>1, <1>1 DEF LinuxModulesTypeOK
    <3>2. /\ vma'[v] = [start |-> vma[v].start, end |-> vma[v].end - 1, file |-> vma[v].file,
                        off |-> vma[v].off, next |-> vma[v].next]
      BY <3>1, <1>0
    <3>3. \A u \in Vmas : u # v => vma'[u] = vma[u]
      BY <2>1, <1>1 DEF LinuxModulesTypeOK
    <3>4. vma' \in [Vmas -> AreaType]
      <4>1. vma'[v] \in AreaType
        BY <3>2, <1>1, <1>2, <1>4 DEF AreaType
      <4>2. \A u \in Vmas : u # v => vma'[u] \in AreaType
        BY <3>3, <1>1 DEF LinuxModulesTypeOK, AreaType
      <4>3. vma' = [u \in Vmas |-> vma'[u]]
        BY <2>1, <1>1 DEF LinuxModulesTypeOK
      <4>. QED BY <4>1, <4>2, <4>3
    <3>. QED BY <3>2, <3>3, <3>4, <1>1, <1>2, <1>4
  <2>2. CASE vma' = [vma EXCEPT ![v].start = @ + 1, ![v].off = @ + 1]
    <3>1. vma'[v] = [vma[v] EXCEPT !.start = vma[v].start + 1, !.off = vma[v].off + 1]
      BY <2>2, <1>1 DEF LinuxModulesTypeOK
    <3>2. /\ vma'[v] = [start |-> vma[v].start + 1, end |-> vma[v].end, file |-> vma[v].file,
                        off |-> vma[v].off + 1, next |-> vma[v].next]
      BY <3>1, <1>0
    <3>3. \A u \in Vmas : u # v => vma'[u] = vma[u]
      BY <2>2, <1>1 DEF LinuxModulesTypeOK
    <3>4. vma' \in [Vmas -> AreaType]
      <4>1. vma'[v] \in AreaType
        BY <3>2, <1>1, <1>2, <1>4 DEF AreaType
      <4>2. \A u \in Vmas : u # v => vma'[u] \in AreaType
        BY <3>3, <1>1 DEF LinuxModulesTypeOK, AreaType
      <4>3. vma' = [u \in Vmas |-> vma'[u]]
        BY <2>2, <1>1 DEF LinuxModulesTypeOK
      <4>. QED BY <4>1, <4>2, <4>3
    <3>. QED BY <3>2, <3>3, <3>4, <1>1, <1>2, <1>4
  <2>. QED BY <2>1, <2>2 DEF Trim
<1>6. LinuxModulesTypeOK'
  BY <1>1, <1>2, <1>5, WriteTypes
<1>7. \A u \in Vmas : /\ vma[u].start <= vma'[u].start /\ vma'[u].end <= vma[u].end
                      /\ vma'[u].start \in Nat /\ vma'[u].end \in Nat
                      /\ vma[u].start \in Nat /\ vma[u].end \in Nat
  BY <1>1, <1>5 DEF AreaType
<1>8. \A u \in mapped : u # v => vma[u].end <= vma[v].start \/ vma[v].end <= vma[u].start
  BY <1>1, <1>2 DEF ListRight
<1>9. \A u \in Used : vma[u].start < vma[u].end
  BY <1>1 DEF ListRight
<1>10. Follows(0, first)'
  <2>1. Follows(0, first)
    BY <1>1 DEF ListRight
  <2>2. ASSUME first = NoVma PROVE FALSE
    BY <2>1, <2>2, <1>2, <1>7, <1>1 DEF Follows
  <2>3. ASSUME first # NoVma PROVE Follows(0, first)'
    <3>1. first \in mapped /\ \A u \in mapped : vma[first].start <= vma[u].start
      BY <2>1, <2>3, <1>7, <1>1 DEF Follows
    <3>2. \A u \in mapped : vma'[first].start <= vma'[u].start
      BY <3>1, <1>1, <1>2, <1>5, <1>7, <1>8, <1>9 DEF Used
    <3>. QED BY <3>1, <3>2, <1>2, <1>7, <1>1, <2>3 DEF Follows
  <2>. QED BY <2>2, <2>3
<1>11. ASSUME NEW w \in mapped PROVE Follows(vma[w].end, vma[w].next)'
  <2>1. Follows(vma[w].end, vma[w].next)
    BY <1>1 DEF ListRight
  <2>. DEFINE x == vma[w].next
  <2>2. vma'[w].next = x /\ w \in Vmas /\ w \in Used
    BY <1>1, <1>5 DEF Used
  <2>3. CASE x = NoVma
    <3>1. \A u \in mapped : vma[u].start < vma[w].end
      BY <2>1, <2>3 DEF Follows
    <3>2. \A u \in mapped : vma'[u].start < vma'[w].end
      <4>. SUFFICES ASSUME NEW u \in mapped PROVE vma'[u].start < vma'[w].end
        OBVIOUS
      <4>1. CASE u = w
        BY <4>1, <1>1, <1>5, <1>9, <2>2
      <4>2. CASE u # w
        <5>1. vma[u].end <= vma[w].start
          BY <4>2, <3>1, <1>1 DEF ListRight
        <5>2. u \in Vmas /\ u \in Used /\ vma'[u].start < vma'[u].end /\ vma'[w].start < vma'[w].end
          BY <1>1, <1>5, <1>9, <2>2 DEF Used
        <5>. QED BY <5>1, <5>2, <1>7, <2>2
      <4>. QED BY <4>1, <4>2
    <3>. QED BY <3>2, <1>2, <2>2, <2>3 DEF Follows
  <2>4. CASE x # NoVma
    <3>1. x \in mapped /\ vma[w].end <= vma[x].start
          /\ \A u \in mapped : vma[w].end <= vma[u].start => vma[x].start <= vma[u].start
      BY <2>1, <2>4 DEF Follows
    <3>2. ASSUME NEW u \in mapped, vma'[w].end <= vma'[u].start PROVE vma'[x].start <= vma'[u].start
      <4>1. u \in Vmas /\ x \in Vmas /\ w \in Vmas /\ u \in Used /\ x \in Used
        BY <3>1, <1>1 DEF Used
      <4>2. vma'[w].start < vma'[w].end /\ vma'[u].start < vma'[u].end /\ vma'[x].start < vma'[x].end
        BY <1>5, <1>9, <2>2, <4>1
      <4>3. u # w /\ (vma[u].end <= vma[w].start \/ vma[w].end <= vma[u].start)
        BY <4>1, <4>2, <3>2, <1>7, <1>1 DEF ListRight
      <4>4. vma[w].end <= vma[u].start
        BY <4>1, <4>2, <4>3, <3>2, <1>7
      <4>5. vma[x].start <= vma[u].start
        BY <3>1, <4>4
      <4>6. u = x \/ vma[x].end <= vma[u].start
        BY <3>1, <4>1, <4>5, <1>1, <1>9, <1>7 DEF ListRight
      <4>. QED BY <4>1, <4>2, <4>6, <1>7
    <3>3. vma'[w].end <= vma'[x].start
      BY <3>1, <1>1, <1>7, <2>2
    <3>4. mapped' = mapped /\ vma'[w].next # NoVma /\ vma'[w].next = x
      BY <2>2, <2>4, <1>2
    <3>5. x \in mapped'
      BY <3>1, <3>4
    <3>. HIDE DEF x
    <3>. QED BY ONLY <3>2, <3>3, <3>4, <3>5 DEF Follows
  <2>. QED BY <2>3, <2>4
<1>12. \A u, w \in mapped : u # w => vma'[u].end <= vma'[w].start \/ vma'[w].end <= vma'[u].start
  BY <1>1, <1>7 DEF ListRight
<1>13. \A u \in Used : /\ vma'[u].start < vma'[u].end
                       /\ vma'[u].next # NoVma => vma'[u].next \in Used /\ vma'[u].end <= vma'[vma'[u].next].start
  <2>. SUFFICES ASSUME NEW u \in Used
       PROVE  /\ vma'[u].start < vma'[u].end
              /\ vma'[u].next # NoVma => vma'[u].next \in Used /\ vma'[u].end <= vma'[vma'[u].next].start
    OBVIOUS
  <2>1. u \in Vmas /\ vma'[u].next = vma[u].next
    BY <1>1, <1>5 DEF Used
  <2>2. vma[u].next # NoVma => vma[u].next \in Used /\ vma[u].end <= vma[vma[u].next].start
    BY <1>1 DEF ListRight
  <2>. QED BY <2>1, <2>2, <1>1, <1>5, <1>7, <1>9
<1>14. \A u \in Vmas : vma'[u].off <= vma'[u].start + 1
  BY <1>1, <1>5 DEF ListRight
<1>15. ListRight'
  BY <1>2, <1>3, <1>10, <1>11, <1>12, <1>13, <1>14 DEF ListRight
<1>16. \A u \in Used : vma[u].start <= vma'[u].start
  BY <1>7, <1>1 DEF Used
<1>. QED BY <1>1, <1>2, <1>3, <1>6, <1>15, <1>16, ProcessKept

\* After a step of the process that links or unlinks v: the list is right.
LEMMA UnmapKeeps ==
  ASSUME ModulesInv, NEW v \in Vmas, Unmap(v)
  PROVE  ModulesInv'
<1>p. PICK p : p = Below(vma[v].start)
  OBVIOUS
<1>y. PICK y : y = vma[v].next
  OBVIOUS
<1>1. LinuxModulesTypeOK /\ ListRight /\ mapped \intersect freed = {}
  BY DEF ModulesInv
<1>2. v \in mapped /\ mapped' = mapped \ {v} /\ freed' = freed \union {v} /\ Write /\ Relink(p, y, vma)
  BY <1>p, <1>y DEF Unmap
<1>3. Used' = Used
  BY <1>2 DEF Used
<1>4. /\ \A u \in Vmas : /\ vma[u].start \in Nat /\ vma[u].end \in Nat /\ vma[u].start <= Pages
                         /\ vma[u].off \in Nat /\ vma[u].next \in Vmas \union {NoVma}
      /\ mapped \subseteq Vmas /\ freed \subseteq Vmas /\ first \in Vmas \union {NoVma}
  BY <1>1, VmaTypes
<1>5. \/ p = NoVma /\ \A u \in mapped : ~(vma[u].end <= vma[v].start)
      \/ /\ p \in mapped /\ vma[p].end <= vma[v].start
         /\ \A u \in mapped : vma[u].end <= vma[v].start => vma[u].end <= vma[p].end
  BY <1>1, <1>4, <1>p, BelowIs
<1>6. /\ \A u \in Vmas : vma'[u].start = vma[u].start /\ vma'[u].end = vma[u].end /\ vma'[u].off = vma[u].off
      /\ \A u \in Vmas : u # p => vma'[u].next = vma[u].next
      /\ p # NoVma => vma'[p].next = y /\ first' = first
      /\ p = NoVma => first' = y
      /\ vma' \in [Vmas -> AreaType]
  <2>1. vma \in [Vmas -> AreaType] /\ y \in Vmas \union {NoVma}
    BY <1>1, <1>4, <1>y DEF LinuxModulesTypeOK, AreaType
  <2>2. CASE p = NoVma
    BY <2>1, <2>2, <1>2 DEF Relink
  <2>3. CASE p # NoVma
    <3>1. p \in Vmas /\ first' = first /\ vma' = [vma EXCEPT ![p].next = y]
      BY <2>3, <1>2, <1>4, <1>5 DEF Relink
    <3>. QED BY <2>1, <2>3, <3>1 DEF AreaType
  <2>. QED BY <2>2, <2>3
<1>7. /\ \A u \in Used : vma[u].start < vma[u].end
      /\ \A u, w \in mapped : u # w => vma[u].end <= vma[w].start \/ vma[w].end <= vma[u].start
      /\ \A u \in mapped : Follows(vma[u].end, vma[u].next)
      /\ Follows(0, first)
      /\ \A u \in Used : vma[u].next # NoVma => vma[u].next \in Used /\ vma[u].end <= vma[vma[u].next].start
      /\ \A u \in Vmas : vma[u].off <= vma[u].start + 1
      /\ mapped \subseteq Used /\ Used \subseteq Vmas
  BY <1>1, <1>4 DEF ListRight, Used
<1>8. LinuxModulesTypeOK'
  <2>1. mapped' \subseteq Vmas /\ freed' \subseteq Vmas /\ first' \in Vmas \union {NoVma}
    BY <1>2, <1>4, <1>6, <1>y
  <2>. QED BY <2>1, <1>1, <1>2, <1>6, WriteTypes
\* What is said of a VMA that is still there is about its addresses.
<1>9. ASSUME NEW a \in Nat, NEW x, Follows(a, x), x # v PROVE Follows(a, x)'
  <2>1. CASE x = NoVma
    BY <2>1, <1>9, <1>2, <1>4, <1>6 DEF Follows
  <2>2. CASE x # NoVma
    BY <2>2, <1>9, <1>2, <1>4, <1>6 DEF Follows
  <2>. QED BY <2>1, <2>2
\* Whatever was in front of v is now in front of the one behind v.
<1>10. ASSUME NEW a \in Nat, a <= vma[v].start,
              \A u \in mapped : vma[u].end <= vma[v].start => vma[u].start < a
       PROVE  Follows(a, y)'
  <2>1. Follows(vma[v].end, y)
    BY <1>2, <1>7, <1>y
  <2>2. vma[v].start < vma[v].end /\ v \in Vmas
    BY <1>2, <1>7
  <2>3. \A u \in mapped' : u \in mapped /\ u # v /\ u \in Vmas /\ vma'[u].start = vma[u].start
    BY <1>2, <1>4, <1>6
  <2>4. \A u \in mapped' : vma[u].start < a \/ vma[v].end <= vma[u].start
    BY <2>3, <1>2, <1>7, <1>10
  <2>5. CASE y = NoVma
    <3>1. \A u \in mapped : vma[u].start < vma[v].end
      BY <2>1, <2>5 DEF Follows
    <3>2. \A u \in mapped' : vma[u].start < a
      BY <3>1, <2>3, <2>4, <1>4, <2>2
    <3>. QED BY <3>2, <2>3, <2>5 DEF Follows
  <2>6. CASE y # NoVma
    <3>1. y \in mapped /\ vma[v].end <= vma[y].start
          /\ \A u \in mapped : vma[v].end <= vma[u].start => vma[y].start <= vma[u].start
      BY <2>1, <2>6 DEF Follows
    <3>2. y \in mapped' /\ a <= vma[y].start
      BY <3>1, <2>2, <1>2, <1>4, <1>10
    <3>3. \A u \in mapped' : a <= vma[u].start => vma[y].start <= vma[u].start
      BY <3>1, <2>3, <2>4, <1>4
    <3>. QED BY <3>2, <3>3, <2>3, <2>6 DEF Follows
  <2>. QED BY <2>5, <2>6
<1>11. Follows(0, first)'
  <2>1. CASE p = NoVma
    <3>1. \A u \in mapped : vma[u].end <= vma[v].start => vma[u].start < 0
      BY <2>1, <1>5, <1>4, <1>2
    <3>2. Follows(0, y)'
      BY <3>1, <1>4, <1>10
    <3>. QED BY <3>2, <2>1, <1>6 DEF Follows
  <2>2. CASE p # NoVma
    <3>1. first # NoVma /\ first \in mapped /\ vma[first].start <= vma[p].start
      BY <2>2, <1>5, <1>7, <1>4 DEF Follows
    <3>2. vma[p].start < vma[p].end /\ vma[p].end <= vma[v].start
      BY <2>2, <1>5, <1>7
    <3>3. first # v
      BY <3>1, <3>2, <1>4, <1>2, <1>5, <2>2
    <3>4. Follows(0, first)'
      <4>1. CASE first = NoVma
        BY <3>1, <4>1
      <4>2. CASE first # NoVma
        BY <4>2, <3>1, <3>3, <1>2, <1>4, <1>6, <1>7, <2>2 DEF Follows
      <4>. QED BY <4>1, <4>2
    <3>. QED BY <3>4
  <2>. QED BY <2>1, <2>2
<1>12. ASSUME NEW w \in mapped' PROVE Follows(vma[w].end, vma[w].next)'
  <2>1. w \in mapped /\ w # v /\ w \in Vmas /\ vma'[w].end = vma[w].end /\ vma[w].end \in Nat
    BY <1>2, <1>4, <1>6
  <2>2. CASE w = p
    <3>1. vma'[w].next = y
      BY <2>1, <2>2, <1>4, <1>6
    <3>2. vma[w].end <= vma[v].start /\ \A u \in mapped : vma[u].end <= vma[v].start => vma[u].start < vma[w].end
      BY <2>1, <2>2, <1>4, <1>5, <1>7
    <3>3. PICK a \in Nat : a = vma[w].end
      BY <2>1
    <3>4. Follows(a, y)'
      BY <3>2, <3>3, <1>10
    <3>. QED BY <3>1, <3>3, <3>4, <2>1 DEF Follows
  <2>3. CASE w # p
    <3>1. vma'[w].next = vma[w].next /\ Follows(vma[w].end, vma[w].next)
      BY <2>1, <2>3, <1>6, <1>7
    <3>2. vma[w].next # v
      <4>. SUFFICES ASSUME vma[w].next = v PROVE FALSE
        OBVIOUS
      <4>1. vma[w].end <= vma[v].start /\ \A u \in mapped : vma[w].end <= vma[u].start => vma[v].start <= vma[u].start
        BY <3>1 DEF Follows
      <4>2. p \in mapped /\ vma[p].end <= vma[v].start /\ vma[w].end <= vma[p].end
        BY <4>1, <2>1, <1>5
      <4>3. vma[w].end <= vma[p].start
        BY <4>2, <2>1, <2>3, <1>4, <1>7
      <4>. QED BY <4>1, <4>2, <4>3, <1>4, <1>7, <1>2
    <3>. DEFINE a == vma[w].end
                x == vma[w].next
    <3>3. a \in Nat /\ Follows(a, x) /\ x # v
      BY <2>1, <3>1, <3>2
    <3>. HIDE DEF a, x
    <3>4. /\ x = NoVma => \A u \in mapped : vma[u].start < a
          /\ x # NoVma => /\ x \in mapped /\ a <= vma[x].start
                          /\ \A u \in mapped : a <= vma[u].start => vma[x].start <= vma[u].start
      BY <3>3 DEF Follows
    <3>5. vma'[w].end = a /\ vma'[w].next = x
      BY <2>1, <3>1 DEF a, x
    <3>6. /\ x = NoVma => \A u \in mapped' : vma'[u].start < a
          /\ x # NoVma => /\ x \in mapped' /\ a <= vma'[x].start
                          /\ \A u \in mapped' : a <= vma'[u].start => vma'[x].start <= vma'[u].start
      BY <3>3, <3>4, <1>2, <1>4, <1>6
    <3>. QED BY <3>5, <3>6 DEF Follows
  <2>. QED BY <2>2, <2>3
<1>13. \A u, w \in mapped' : u # w => vma'[u].end <= vma'[w].start \/ vma'[w].end <= vma'[u].start
  BY <1>2, <1>4, <1>6, <1>7
<1>14. \A u \in Used : vma'[u].start < vma'[u].end
  BY <1>6, <1>7
<1>15. \A u \in Used : vma'[u].next # NoVma =>
         vma'[u].next \in Used /\ vma'[u].end <= vma'[vma'[u].next].start
  <2>. SUFFICES ASSUME NEW u \in Used, vma'[u].next # NoVma
       PROVE  vma'[u].next \in Used /\ vma'[u].end <= vma'[vma'[u].next].start
    OBVIOUS
  <2>1. CASE u # p
    BY <2>1, <1>6, <1>7
  <2>2. CASE u = p
    <3>1. vma'[u].next = y /\ p \in mapped /\ vma[p].end <= vma[v].start
      BY <2>2, <1>4, <1>5, <1>6, <1>7
    <3>2. y \in Used /\ vma[v].end <= vma[y].start /\ vma[v].start < vma[v].end
      BY <3>1, <1>2, <1>7, <1>y
    <3>. QED BY <3>1, <3>2, <2>2, <1>4, <1>6, <1>7
  <2>. QED BY <2>1, <2>2
<1>16. \A u \in Vmas : vma'[u].off <= vma'[u].start + 1
  BY <1>6, <1>7
<1>17. ListRight'
  BY <1>3, <1>11, <1>12, <1>13, <1>14, <1>15, <1>16 DEF ListRight
<1>18. \A u \in Used : vma[u].start <= vma'[u].start
  BY <1>4, <1>6, <1>7
<1>19. mapped' \intersect freed' = {}
  BY <1>1, <1>2
<1>. QED BY <1>2, <1>3, <1>8, <1>17, <1>18, <1>19, ProcessKept

\* A VMA that is mapped comes between the last one below it and the one behind.
LEMMA MapKeeps ==
  ASSUME ~Reuse, ModulesInv, NEW v \in Vmas, Map(v)
  PROVE  ModulesInv'
<1>1. LinuxModulesTypeOK /\ ListRight /\ mapped \intersect freed = {}
  BY DEF ModulesInv
<1>b. PICK b \in Bounds, f \in Backing :
       /\ \A w \in mapped : b[2] <= vma[w].start \/ vma[w].end <= b[1]
       /\ Relink(Below(b[1]), v, [vma EXCEPT ![v] = Area(b, f, After(Below(b[1])))])
  BY DEF Map
<1>p. PICK p : p = Below(b[1])
  OBVIOUS
<1>y. PICK y : y = After(p)
  OBVIOUS
<1>2. /\ v \notin mapped /\ v \notin freed /\ mapped' = mapped \union {v} /\ freed' = freed /\ Write
      /\ Relink(p, v, [vma EXCEPT ![v] = Area(b, f, y)])
  BY <1>b, <1>p, <1>y DEF Map
<1>3. Used' = Used \union {v}
  BY <1>2 DEF Used
<1>4. /\ \A u \in Vmas : /\ vma[u].start \in Nat /\ vma[u].end \in Nat /\ vma[u].start <= Pages
                         /\ vma[u].off \in Nat /\ vma[u].next \in Vmas \union {NoVma}
      /\ mapped \subseteq Vmas /\ freed \subseteq Vmas /\ first \in Vmas \union {NoVma}
  BY <1>1, VmaTypes
<1>0. PICK lo \in 0 .. Pages, hi \in 0 .. Pages : lo = b[1] /\ hi = b[2] /\ lo < hi
  BY <1>b DEF Bounds
<1>5. \/ p = NoVma /\ \A u \in mapped : ~(vma[u].end <= lo)
      \/ /\ p \in mapped /\ vma[p].end <= lo
         /\ \A u \in mapped : vma[u].end <= lo => vma[u].end <= vma[p].end
  BY <1>1, <1>0, <1>p, BelowIs
<1>7. /\ \A u \in Used : vma[u].start < vma[u].end
      /\ \A u, w \in mapped : u # w => vma[u].end <= vma[w].start \/ vma[w].end <= vma[u].start
      /\ \A u \in mapped : Follows(vma[u].end, vma[u].next)
      /\ Follows(0, first)
      /\ \A u \in Used : vma[u].next # NoVma => vma[u].next \in Used /\ vma[u].end <= vma[vma[u].next].start
      /\ \A u \in Vmas : vma[u].off <= vma[u].start + 1
      /\ mapped \subseteq Used /\ Used \subseteq Vmas /\ v \notin Used
  BY <1>1, <1>2, <1>4 DEF ListRight, Used
<1>8. y \in mapped \union {NoVma}
  BY <1>y, <1>5, <1>7 DEF After, Follows
<1>a. /\ Area(b, f, y) \in AreaType /\ Area(b, f, y).start = lo /\ Area(b, f, y).end = hi
      /\ Area(b, f, y).off \in {0, 1} /\ Area(b, f, y).next = y
  <2>1. f[1] \in Files \union {NoFile} /\ f[2] \in {0, 1}
    BY <1>b DEF Backing
  <2>2. y \in Vmas \union {NoVma}
    BY <1>8, <1>4
  <2>. QED BY <2>1, <2>2, <1>0 DEF Area, AreaType
<1>6. /\ \A u \in Vmas : u # v => vma'[u].start = vma[u].start /\ vma'[u].end = vma[u].end /\ vma'[u].off = vma[u].off
      /\ \A u \in Vmas : u # p /\ u # v => vma'[u].next = vma[u].next
      /\ vma'[v].start = lo /\ vma'[v].end = hi /\ vma'[v].next = y /\ vma'[v].off \in {0, 1}
      /\ p # NoVma => vma'[p].next = v /\ first' = first
      /\ p = NoVma => first' = v
      /\ vma' \in [Vmas -> AreaType]
  <2>0. PICK A : A = Area(b, f, y)
    OBVIOUS
  <2>1. /\ vma \in [Vmas -> AreaType] /\ A \in AreaType /\ A.start = lo /\ A.end = hi
        /\ A.off \in {0, 1} /\ A.next = y /\ Relink(p, v, [vma EXCEPT ![v] = A])
    BY <2>0, <1>1, <1>a, <1>2 DEF LinuxModulesTypeOK, AreaType
  <2>2. CASE p = NoVma
    <3>1. first' = v /\ vma' = [vma EXCEPT ![v] = A]
      BY <2>1, <2>2 DEF Relink
    <3>. QED BY <2>1, <2>2, <3>1
  <2>3. CASE p # NoVma
    <3>1. p \in Vmas /\ p # v /\ first' = first /\ vma' = [[vma EXCEPT ![v] = A] EXCEPT ![p].next = v]
      BY <2>1, <2>3, <1>2, <1>4, <1>5 DEF Relink
    <3>2. /\ vma'[v] = A /\ vma'[p] = [vma[p] EXCEPT !.next = v]
          /\ \A u \in Vmas : u # v /\ u # p => vma'[u] = vma[u]
          /\ vma' = [u \in Vmas |-> vma'[u]]
      BY <2>1, <3>1
    <3>3. /\ vma'[p] \in AreaType /\ vma'[p].next = v /\ vma'[p].start = vma[p].start
          /\ vma'[p].end = vma[p].end /\ vma'[p].off = vma[p].off
      BY <2>1, <3>1, <3>2 DEF AreaType
    <3>4. vma' \in [Vmas -> AreaType]
      <4>1. \A u \in Vmas : vma'[u] \in AreaType
        BY <2>1, <3>1, <3>2, <3>3
      <4>. QED BY <4>1, <3>2
    <3>. QED BY <2>1, <2>3, <3>1, <3>2, <3>3, <3>4
  <2>. QED BY <2>2, <2>3
<1>9. LinuxModulesTypeOK'
  <2>1. mapped' \subseteq Vmas /\ freed' \subseteq Vmas /\ first' \in Vmas \union {NoVma}
    BY <1>2, <1>4, <1>6
  <2>. QED BY <2>1, <1>1, <1>2, <1>6, WriteTypes
<1>10. /\ lo \in Nat /\ hi \in Nat /\ lo < hi
       /\ \A w \in mapped : hi <= vma[w].start \/ vma[w].end <= lo
  BY <1>0, <1>b
\* The place of v.
<1>11. ASSUME NEW a \in Nat, NEW x, Follows(a, x), a <= lo => x # NoVma /\ vma[x].start <= lo
       PROVE  Follows(a, x)'
  <2>1. CASE x = NoVma
    BY <2>1, <1>11, <1>2, <1>4, <1>6, <1>10 DEF Follows
  <2>2. CASE x # NoVma
    BY <2>2, <1>11, <1>2, <1>4, <1>6, <1>10 DEF Follows
  <2>. QED BY <2>1, <2>2
<1>12. ASSUME NEW a \in Nat, a <= lo, \A u \in mapped : vma[u].end <= lo => vma[u].start < a, Follows(a, y)
       PROVE  Follows(a, v)' /\ Follows(hi, y)'
  <2>1. \A u \in mapped : a <= vma[u].start => hi <= vma[u].start
    BY <1>12, <1>10, <1>4
  <2>2. Follows(a, v)'
    BY <2>1, <1>12, <1>2, <1>4, <1>6, <1>10 DEF Follows
  <2>3. CASE y = NoVma
    BY <2>3, <1>12, <1>2, <1>4, <1>6, <1>10 DEF Follows
  <2>4. CASE y # NoVma
    BY <2>1, <2>4, <1>12, <1>2, <1>4, <1>6, <1>10 DEF Follows
  <2>. QED BY <2>2, <2>3, <2>4
<1>13. Follows(0, first)' /\ Follows(hi, y)' /\ (p # NoVma => Follows(vma[p].end, v)')
  <2>1. CASE p = NoVma
    <3>1. y = first /\ Follows(0, y)
      BY <2>1, <1>y, <1>7 DEF After
    <3>2. \A u \in mapped : vma[u].end <= lo => vma[u].start < 0
      BY <2>1, <1>5, <1>4
    <3>3. Follows(0, v)' /\ Follows(hi, y)'
      BY <3>1, <3>2, <1>10, <1>12
    <3>. QED BY <3>3, <2>1, <1>6 DEF Follows
  <2>2. CASE p # NoVma
    <3>1. p \in mapped /\ p \in Vmas /\ p # v /\ y = vma[p].next /\ Follows(vma[p].end, y)
      BY <2>2, <1>2, <1>4, <1>y, <1>5, <1>7 DEF After
    <3>2. vma[p].end \in Nat /\ vma[p].start \in Nat /\ vma[p].start < vma[p].end /\ vma[p].end <= lo
      BY <3>1, <2>2, <1>4, <1>5, <1>7
    <3>3. \A u \in mapped : vma[u].end <= lo => vma[u].start < vma[p].end
      BY <2>2, <3>2, <1>5, <1>4, <1>7
    <3>4. PICK a \in Nat : a = vma[p].end
      BY <3>2
    <3>5. Follows(a, v)' /\ Follows(hi, y)'
      BY <3>1, <3>2, <3>3, <3>4, <1>12
    <3>6. vma'[p].end = a
      BY <3>1, <3>4, <1>6
    <3>7. PICK g : g = first
      OBVIOUS
    <3>8. Follows(0, g) /\ g # NoVma /\ vma[g].start <= lo /\ g \in mapped
      BY <3>1, <3>2, <3>7, <1>7, <1>4 DEF Follows
    <3>9. Follows(0, g)'
      BY <3>8, <1>11
    <3>10. first' = g
      BY <2>2, <3>7, <1>6
    <3>. QED BY <3>5, <3>6, <3>9, <3>10 DEF Follows
  <2>. QED BY <2>1, <2>2
<1>14. ASSUME NEW w \in mapped' PROVE Follows(vma[w].end, vma[w].next)'
  <2>1. CASE w = v
    BY <2>1, <1>6, <1>13 DEF Follows
  <2>2. CASE w = p
    <3>1. p # NoVma /\ vma'[w].next = v
      BY <2>2, <1>9, <1>6 DEF LinuxModulesTypeOK
    <3>2. Follows(vma[p].end, v)'
      BY <3>1, <1>13
    <3>. QED BY <2>2, <3>1, <3>2 DEF Follows
  <2>3. CASE w # v /\ w # p
    <3>1. w \in mapped /\ w \in Vmas /\ vma'[w].end = vma[w].end /\ vma'[w].next = vma[w].next
      BY <2>3, <1>2, <1>4, <1>6
    <3>2. PICK a \in Nat, x \in Vmas \union {NoVma} : a = vma[w].end /\ x = vma[w].next
      BY <3>1, <1>4
    <3>3. Follows(a, x)
      BY <3>1, <3>2, <1>7
    <3>4. ASSUME a <= lo PROVE x # NoVma /\ vma[x].start <= lo
      <4>1. p \in mapped /\ vma[w].end <= vma[p].end /\ vma[p].end <= lo
        BY <3>1, <3>2, <3>4, <1>5
      <4>2. /\ vma[w].start < vma[w].end /\ vma[p].start < vma[p].end /\ vma[p].start \in Nat /\ vma[p].end \in Nat
            /\ vma[w].start \in Nat /\ vma[w].end \in Nat
        BY <4>1, <3>1, <1>4, <1>7
      <4>3. vma[w].end <= vma[p].start
        BY <4>1, <4>2, <3>1, <2>3, <1>7
      <4>4. x # NoVma /\ vma[x].start <= vma[p].start /\ x \in mapped
        BY <4>1, <4>2, <4>3, <3>2, <3>3 DEF Follows
      <4>5. vma[x].start \in Nat
        BY <4>4, <1>4
      <4>. QED BY <4>1, <4>2, <4>4, <4>5, <1>10
    <3>5. Follows(a, x)'
      BY <3>3, <3>4, <1>11
    <3>6. vma'[w].end = a /\ vma'[w].next = x
      BY <3>1, <3>2
    <3>. QED BY <3>5, <3>6 DEF Follows
  <2>. QED BY <2>1, <2>2, <2>3
<1>15. \A u, w \in mapped' : u # w => vma'[u].end <= vma'[w].start \/ vma'[w].end <= vma'[u].start
  BY <1>2, <1>4, <1>6, <1>7, <1>10
<1>16. \A u \in Used' : vma'[u].start < vma'[u].end
  BY <1>3, <1>6, <1>7, <1>10
<1>17. ASSUME NEW u \in Used', vma'[u].next # NoVma
       PROVE  vma'[u].next \in Used' /\ vma'[u].end <= vma'[vma'[u].next].start
  <2>1. CASE u = v
    <3>1. y # NoVma /\ y \in mapped /\ y # v /\ vma'[u].next = y /\ vma'[u].end = hi
      BY <2>1, <1>17, <1>8, <1>6, <1>2
    <3>2. Follows(hi, y)'
      BY <1>13
    <3>3. hi <= vma'[y].start
      BY <3>1, <3>2 DEF Follows
    <3>. QED BY <3>1, <3>3, <1>3, <1>7
  <2>2. CASE u = p /\ u # v
    <3>1. p # NoVma /\ vma'[u].next = v /\ p \in mapped /\ p \in Vmas /\ vma'[p].end = vma[p].end /\ vma[p].end <= lo
      BY <2>2, <1>3, <1>4, <1>5, <1>6, <1>7
    <3>. QED BY <3>1, <2>2, <1>3, <1>6
  <2>3. CASE u # p /\ u # v
    <3>1. u \in Used /\ u \in Vmas /\ vma'[u].next = vma[u].next /\ vma'[u].end = vma[u].end
      BY <2>3, <1>3, <1>6, <1>7
    <3>2. vma[u].next \in Used /\ vma[u].end <= vma[vma[u].next].start
      BY <3>1, <1>17, <1>7
    <3>3. vma[u].next # v /\ vma[u].next \in Vmas
      BY <3>2, <1>7
    <3>. QED BY <3>1, <3>2, <3>3, <1>3, <1>6
  <2>. QED BY <2>1, <2>2, <2>3
<1>18. \A u \in Vmas : vma'[u].off <= vma'[u].start + 1
  BY <1>4, <1>6, <1>7, <1>10
<1>19. ListRight'
  BY <1>13, <1>14, <1>15, <1>16, <1>17, <1>18 DEF ListRight
<1>20. \A u \in Used : vma[u].start <= vma'[u].start
  BY <1>4, <1>6, <1>7
<1>21. mapped' \intersect freed' = {} /\ Used \subseteq Used'
  BY <1>1, <1>2, <1>3
<1>. QED BY <1>2, <1>9, <1>19, <1>20, <1>21, ProcessKept

-----------------------------------------------------------------------------
(* The walk *)

\* VMAs that are mapped: numbers, order, and the one that follows.
MappedRight ==
  /\ \A v \in Vmas : vma[v].start \in Nat /\ vma[v].end \in Nat
  /\ mapped \subseteq Vmas
  /\ \A v \in mapped : vma[v].start < vma[v].end
  /\ \A v, w \in mapped : v # w => vma[v].end <= vma[w].start \/ vma[w].end <= vma[v].start
  /\ \A v \in mapped : vma[v].next = NoVma => \A u \in mapped : vma[u].start < vma[v].end
  /\ \A v \in mapped : vma[v].next # NoVma =>
       /\ vma[v].next \in mapped /\ vma[v].end <= vma[vma[v].next].start
       /\ \A u \in mapped : vma[v].end <= vma[u].start => vma[vma[v].next].start <= vma[u].start

LEMMA ListGives ==
  ASSUME ModulesInv
  PROVE  MappedRight
<1>1. LinuxModulesTypeOK /\ ListRight
  BY DEF ModulesInv
<1>2. \A v \in mapped : Follows(vma[v].end, vma[v].next)
  BY <1>1 DEF ListRight
<1>3. \A v \in mapped : vma[v].next = NoVma => \A u \in mapped : vma[u].start < vma[v].end
  BY <1>2 DEF Follows
<1>4. \A v \in mapped : vma[v].next # NoVma =>
       /\ vma[v].next \in mapped /\ vma[v].end <= vma[vma[v].next].start
       /\ \A u \in mapped : vma[v].end <= vma[u].start => vma[vma[v].next].start <= vma[u].start
  BY <1>2 DEF Follows
<1>5. \A v \in mapped : v \in Used
  BY DEF Used
<1>. QED BY <1>1, <1>3, <1>4, <1>5, VmaTypes DEF MappedRight, ListRight

\* The memory of the process does not change in a step of the walk.
LEMMA StillThere ==
  ASSUME ModulesInv, UNCHANGED vmaVars
  PROVE  /\ vma' = vma /\ first' = first /\ mapped' = mapped /\ freed' = freed /\ nwrites' = nwrites
         /\ Used' = Used /\ ListRight' /\ (mapped \intersect freed = {})'
<1>1. vma' = vma /\ first' = first /\ mapped' = mapped /\ freed' = freed /\ nwrites' = nwrites
  BY DEF vmaVars
<1>2. Used' = Used
  BY <1>1 DEF Used
<1>3. ListRight' = ListRight
  BY <1>1, <1>2 DEF ListRight, Follows
<1>. QED BY <1>1, <1>2, <1>3 DEF ModulesInv

\* What a step that only goes on has to keep, when the modules do not change.
LEMMA GoesOn ==
  ASSUME ModulesInv, UNCHANGED <<vmaVars, modules>>,
         {cur', at', ahead'} \subseteq Vmas \union {NoVma}, file' \in Files \union {NoFile}, start' \in 0 .. Pages,
         doing' \in {"first", "off", "path", "file", "start", "next", "next_file", "end", "vm_next", "done", "err"},
         WalkUpwards', nwrites = 0 => SpansRight'
  PROVE  ModulesInv'
<1>1. modules' = modules /\ UNCHANGED vmaVars
  OBVIOUS
<1>2. /\ vma' = vma /\ first' = first /\ mapped' = mapped /\ freed' = freed /\ nwrites' = nwrites
      /\ ListRight' /\ (mapped \intersect freed = {})'
  BY <1>1, StillThere
<1>3. LinuxModulesTypeOK'
  BY <1>1, <1>2 DEF ModulesInv, LinuxModulesTypeOK
<1>4. Sorted'
  BY <1>1 DEF ModulesInv, Sorted
<1>. QED BY <1>2, <1>3, <1>4 DEF ModulesInv

\* The parts of SpansRight that do not depend on where the walk is.
PushedRight ==
  /\ freed = {}
  /\ \A k \in DOMAIN modules : LET m == modules[k] IN
       /\ m.module \in mapped /\ IsModule(m.module)
       /\ m.file = vma[m.module].file /\ m.start = vma[m.module].start
       /\ \E e \in mapped : m.end = vma[e].end /\ Run(m.start, e, m.file) /\ EndsAt(e, m.file)

LEMMA PushedStays ==
  ASSUME SpansRight, vma' = vma, mapped' = mapped, freed' = freed, modules' = modules
  PROVE  PushedRight'
<1>1. PushedRight
  BY DEF SpansRight, PushedRight
<1>. QED BY <1>1 DEF PushedRight, Run, EndsAt, IsModule

\* Types of what the walk keeps.
LEMMA WalkTypes ==
  ASSUME ModulesInv
  PROVE  /\ cur \in Vmas \union {NoVma} /\ at \in Vmas \union {NoVma} /\ ahead \in Vmas \union {NoVma}
         /\ file \in Files \union {NoFile} /\ start \in 0 .. Pages
         /\ \A k \in DOMAIN modules : modules[k].start \in Nat
         /\ \A u \in Vmas : /\ vma[u].start \in 0 .. Pages /\ vma[u].end \in 0 .. Pages
                            /\ vma[u].file \in Files \union {NoFile} /\ vma[u].next \in Vmas \union {NoVma}
         /\ Used \subseteq Vmas
<1>1. LinuxModulesTypeOK
  BY DEF ModulesInv
<1>2. /\ cur \in Vmas \union {NoVma} /\ at \in Vmas \union {NoVma} /\ ahead \in Vmas \union {NoVma}
      /\ file \in Files \union {NoFile} /\ start \in 0 .. Pages /\ Used \subseteq Vmas
  BY <1>1 DEF LinuxModulesTypeOK, Used
<1>3. \A k \in DOMAIN modules : modules[k].start \in Nat
  BY <1>1, ModuleTypes
<1>. QED BY <1>1, <1>2, <1>3, VmaTypes

LEMMA FaultKeeps ==
  ASSUME ModulesInv, ModuleFault
  PROVE  ModulesInv'
<1>1. /\ doing' = "err" /\ cur' = cur /\ at' = at /\ ahead' = ahead /\ file' = file /\ start' = start
      /\ modules' = modules /\ UNCHANGED vmaVars
  BY DEF ModuleFault
<1>2. vma' = vma /\ mapped' = mapped /\ freed' = freed
  BY <1>1, StillThere
<1>3. WalkUpwards'
  BY <1>1 DEF WalkUpwards, AtVma, InSpanOf
<1>4. nwrites = 0 => SpansRight'
  <2>. SUFFICES ASSUME nwrites = 0 PROVE SpansRight'
    OBVIOUS
  <2>1. PushedRight'
    BY <1>1, <1>2, PushedStays DEF ModulesInv
  <2>. QED BY <2>1, <1>1 DEF PushedRight, SpansRight, AtVma, InSpanOf
<1>5. /\ {cur', at', ahead'} \subseteq Vmas \union {NoVma} /\ file' \in Files \union {NoFile}
      /\ start' \in 0 .. Pages
  BY <1>1, WalkTypes
<1>. QED BY <1>1, <1>3, <1>4, <1>5, GoesOn

LEMMA ReadFirstKeeps ==
  ASSUME ModulesInv, ReadFirst
  PROVE  ModulesInv'
<1>1. /\ doing = "first" /\ cur' = first /\ at' = at /\ ahead' = ahead /\ file' = file /\ start' = start
      /\ modules' = modules /\ UNCHANGED vmaVars /\ doing' = (IF first = NoVma THEN "done" ELSE "off")
  BY DEF ReadFirst, Round
<1>2. vma' = vma /\ mapped' = mapped /\ freed' = freed /\ Used' = Used /\ modules = <<>>
  BY <1>1, StillThere DEF ModulesInv, WalkUpwards
<1>3. Follows(0, first) /\ MappedRight /\ first \in Vmas \union {NoVma}
  BY ListGives, VmaTypes DEF ModulesInv, ListRight
<1>4. first # NoVma => first \in mapped /\ \A u \in mapped : vma[first].start <= vma[u].start
  BY <1>3 DEF Follows, MappedRight
<1>5. first = NoVma => mapped = {}
  BY <1>3 DEF Follows, MappedRight
<1>6. WalkUpwards'
  BY <1>1, <1>2, <1>4 DEF WalkUpwards, AtVma, InSpanOf, Used
<1>7. nwrites = 0 => SpansRight'
  <2>. SUFFICES ASSUME nwrites = 0 PROVE SpansRight'
    OBVIOUS
  <2>1. PushedRight'
    BY <1>1, <1>2, PushedStays DEF ModulesInv
  <2>2. doing' # "done" => doing' = "off" /\ \A v \in mapped' : vma'[cur'].start <= vma'[v].start
    BY <1>1, <1>2, <1>4
  <2>3. doing' = "done" => mapped' = {}
    BY <1>1, <1>2, <1>5
  <2>. QED BY <2>1, <2>2, <2>3, <1>1 DEF PushedRight, SpansRight, AtVma, InSpanOf
<1>8. /\ {cur', at', ahead'} \subseteq Vmas \union {NoVma} /\ file' \in Files \union {NoFile}
      /\ start' \in 0 .. Pages
  BY <1>1, <1>3, WalkTypes
<1>. QED BY <1>1, <1>6, <1>7, <1>8, GoesOn

LEMMA ReadNextVmaKeeps ==
  ASSUME ModulesInv, ReadNextVma
  PROVE  ModulesInv'
<1>x. PICK x : x = vma[cur].next
  OBVIOUS
<1>1. /\ doing = "vm_next" /\ cur' = x /\ at' = at /\ ahead' = ahead /\ file' = file /\ start' = start
      /\ modules' = modules /\ UNCHANGED vmaVars /\ doing' = (IF x = NoVma THEN "done" ELSE "off")
  BY <1>x DEF ReadNextVma, Round
<1>2. vma' = vma /\ mapped' = mapped /\ freed' = freed /\ Used' = Used
  BY <1>1, StillThere
<1>3. cur \in Used /\ \A k \in DOMAIN modules : modules[k].start <= vma[cur].start
  BY <1>1 DEF ModulesInv, WalkUpwards
<1>4. x # NoVma => x \in Used /\ vma[cur].start < vma[cur].end /\ vma[cur].end <= vma[x].start
  BY <1>x, <1>3 DEF ModulesInv, ListRight
<1>5. cur \in Vmas /\ vma[cur].start \in Nat /\ vma[cur].end \in Nat /\ (x # NoVma => vma[x].start \in Nat)
      /\ x \in Vmas \union {NoVma}
  BY <1>x, <1>3, <1>4, WalkTypes
<1>6. WalkUpwards'
  <2>1. x # NoVma => \A k \in DOMAIN modules : modules[k].start < vma[x].start
    BY <1>3, <1>4, <1>5, WalkTypes
  <2>. QED BY <1>1, <1>2, <1>4, <2>1 DEF WalkUpwards, AtVma, InSpanOf
<1>7. nwrites = 0 => SpansRight'
  <2>. SUFFICES ASSUME nwrites = 0 PROVE SpansRight'
    OBVIOUS
  <2>0. SpansRight
    BY DEF ModulesInv
  <2>1. PushedRight'
    BY <1>1, <1>2, <2>0, PushedStays
  <2>2. cur \in mapped
    BY <1>3, <2>0 DEF SpansRight, Used
  <2>3. \A v \in mapped : vma[cur].start < vma[v].start => vma[cur].end <= vma[v].start
    BY <2>2, ListGives DEF MappedRight
  <2>4. \A v \in mapped : vma[cur].start < vma[v].start => x # NoVma /\ vma[x].start <= vma[v].start
    BY <2>2, <2>3, <1>x, ListGives DEF MappedRight
  <2>5. \A v \in mapped : IsModule(v) =>
          (\E k \in DOMAIN modules : modules[k].module = v) \/ vma[cur].start < vma[v].start
    BY <2>0, <1>1 DEF SpansRight, AtVma, InSpanOf
  <2>6. \A v \in mapped' : IsModule(v)' =>
          (\E k \in DOMAIN modules' : modules'[k].module = v) \/ (doing' = "off" /\ vma'[cur'].start <= vma'[v].start)
    BY <2>4, <2>5, <1>1, <1>2 DEF IsModule
  <2>. QED BY <2>1, <2>6, <1>1 DEF PushedRight, SpansRight, AtVma, InSpanOf
<1>8. /\ {cur', at', ahead'} \subseteq Vmas \union {NoVma} /\ file' \in Files \union {NoFile}
      /\ start' \in 0 .. Pages
  BY <1>1, <1>5, WalkTypes
<1>. QED BY <1>1, <1>6, <1>7, <1>8, GoesOn

\* A VMA that is no module is passed.
LEMMA PassedBy ==
  ASSUME ModulesInv, AtVma, ~IsModule(cur), doing' = "vm_next",
         UNCHANGED <<vmaVars, cur, at, ahead, file, start, modules>>
  PROVE  ModulesInv'
<1>1. /\ cur' = cur /\ at' = at /\ ahead' = ahead /\ file' = file /\ start' = start
      /\ modules' = modules /\ UNCHANGED vmaVars
  OBVIOUS
<1>2. vma' = vma /\ mapped' = mapped /\ freed' = freed /\ Used' = Used
  BY <1>1, StillThere
<1>3. cur \in Used /\ \A k \in DOMAIN modules : modules[k].start < vma[cur].start
  BY DEF ModulesInv, WalkUpwards
<1>4. WalkUpwards'
  BY <1>1, <1>2, <1>3, WalkTypes DEF WalkUpwards, AtVma, InSpanOf
<1>5. nwrites = 0 => SpansRight'
  <2>. SUFFICES ASSUME nwrites = 0 PROVE SpansRight'
    OBVIOUS
  <2>0. SpansRight
    BY DEF ModulesInv
  <2>1. PushedRight'
    BY <1>1, <1>2, <2>0, PushedStays
  <2>2. cur \in mapped
    BY <1>3, <2>0 DEF SpansRight, Used
  <2>3. \A v \in mapped : vma[cur].start <= vma[v].start => v = cur \/ vma[cur].start < vma[v].start
    BY <2>2, ListGives DEF MappedRight
  <2>4. \A v \in mapped : IsModule(v) =>
          (\E k \in DOMAIN modules : modules[k].module = v) \/ vma[cur].start <= vma[v].start
    BY <2>0 DEF SpansRight, AtVma, InSpanOf
  <2>5. \A v \in mapped' : IsModule(v)' =>
          (\E k \in DOMAIN modules' : modules'[k].module = v) \/ vma'[cur'].start < vma'[v].start
    BY <2>3, <2>4, <1>1, <1>2 DEF IsModule
  <2>. QED BY <2>1, <2>5 DEF PushedRight, SpansRight, AtVma, InSpanOf
<1>6. /\ {cur', at', ahead'} \subseteq Vmas \union {NoVma} /\ file' \in Files \union {NoFile}
      /\ start' \in 0 .. Pages
  BY <1>1, WalkTypes
<1>. QED BY <1>1, <1>4, <1>5, <1>6, GoesOn

\* The walk stays at a VMA, knows more about it, and has passed no other one.
LEMMA LooksAt ==
  ASSUME ModulesInv, AtVma, doing' \in {"path", "file", "start"}, file' \in Files \union {NoFile},
         UNCHANGED <<vmaVars, cur, at, ahead, start, modules>>,
         nwrites = 0 => /\ vma[cur].off = 0
                        /\ doing' \in {"file", "start"} => vma[cur].file # NoFile
                        /\ doing' = "start" => file' = vma[cur].file
  PROVE  ModulesInv'
<1>1. /\ cur' = cur /\ at' = at /\ ahead' = ahead /\ start' = start
      /\ modules' = modules /\ UNCHANGED vmaVars
  OBVIOUS
<1>2. vma' = vma /\ mapped' = mapped /\ freed' = freed /\ Used' = Used
  BY <1>1, StillThere
<1>3. cur \in Used /\ \A k \in DOMAIN modules : modules[k].start < vma[cur].start
  BY DEF ModulesInv, WalkUpwards
<1>4. WalkUpwards'
  BY <1>1, <1>2, <1>3 DEF WalkUpwards, AtVma, InSpanOf
<1>5. nwrites = 0 => SpansRight'
  <2>. SUFFICES ASSUME nwrites = 0 PROVE SpansRight'
    OBVIOUS
  <2>0. SpansRight
    BY DEF ModulesInv
  <2>1. PushedRight'
    BY <1>1, <1>2, <2>0, PushedStays
  <2>4. \A v \in mapped : IsModule(v) =>
          (\E k \in DOMAIN modules : modules[k].module = v) \/ vma[cur].start <= vma[v].start
    BY <2>0 DEF SpansRight, AtVma, InSpanOf
  <2>5. \A v \in mapped' : IsModule(v)' =>
          (\E k \in DOMAIN modules' : modules'[k].module = v) \/ vma'[cur'].start <= vma'[v].start
    BY <2>4, <1>1, <1>2 DEF IsModule
  <2>. QED BY <2>1, <2>5, <1>1, <1>2 DEF PushedRight, SpansRight, AtVma, InSpanOf
<1>6. {cur', at', ahead'} \subseteq Vmas \union {NoVma} /\ start' \in 0 .. Pages
  BY <1>1, WalkTypes
<1>. QED BY <1>1, <1>4, <1>5, <1>6, GoesOn

LEMMA ReadOffsetKeeps ==
  ASSUME ModulesInv, ReadOffset
  PROVE  ModulesInv'
<1>1. AtVma /\ UNCHANGED <<vmaVars, cur, at, ahead, file, start, modules>>
  BY DEF ReadOffset, AtVma
<1>2. CASE vma[cur].off = 0
  BY <1>1, <1>2, LooksAt, WalkTypes DEF ReadOffset
<1>3. CASE vma[cur].off # 0
  BY <1>1, <1>3, PassedBy DEF ReadOffset, IsModule
<1>. QED BY <1>2, <1>3

LEMMA ReadPathKeeps ==
  ASSUME ModulesInv, ReadPath
  PROVE  ModulesInv'
<1>1. /\ doing = "path" /\ AtVma /\ UNCHANGED <<vmaVars, cur, at, ahead, file, start, modules>>
  BY DEF ReadPath, AtVma
<1>2. CASE vma[cur].file # NoFile
  <2>1. doing' = "file" /\ file' \in Files \union {NoFile}
    BY <1>2, WalkTypes DEF ReadPath
  <2>2. nwrites = 0 => vma[cur].off = 0
    BY <1>1 DEF ModulesInv, SpansRight
  <2>. QED BY <1>1, <1>2, <2>1, <2>2, LooksAt
<1>3. CASE vma[cur].file = NoFile
  BY <1>1, <1>3, PassedBy DEF ReadPath, IsModule
<1>. QED BY <1>2, <1>3

LEMMA ReadFileKeeps ==
  ASSUME ModulesInv, ReadFile
  PROVE  ModulesInv'
<1>1. /\ doing = "file" /\ AtVma /\ UNCHANGED <<vmaVars, cur, at, ahead, start, modules>>
      /\ file' = vma[cur].file /\ doing' = "start"
  BY DEF ReadFile, AtVma
<1>2. file' \in Files \union {NoFile}
  <2>1. cur \in Used
    BY <1>1 DEF ModulesInv, WalkUpwards
  <2>. QED BY <2>1, <1>1, WalkTypes
<1>3. nwrites = 0 => vma[cur].off = 0 /\ vma[cur].file # NoFile
  BY <1>1 DEF ModulesInv, SpansRight
<1>. QED BY <1>1, <1>2, <1>3, LooksAt

\* module_span stays in the span of the module that the walk is at.
LEMMA SpanGoesOn ==
  ASSUME ModulesInv, UNCHANGED <<vmaVars, cur, file, modules>>, InSpanOf',
         doing = "start" \/ InSpanOf,
         cur \in Used, at' \in Used, ahead' \in Vmas \union {NoVma}, start' \in 0 .. Pages,
         start' <= vma[at'].start, start' <= vma[cur].start,
         \A k \in DOMAIN modules : modules[k].start < start',
         doing' = "next_file" => ahead' \in Used /\ start' <= vma[ahead'].start,
         nwrites = 0 => /\ start' = vma[cur].start /\ Run(start', at', file)
                        /\ doing' = "next_file" => ahead' = vma[at'].next
                        /\ doing' = "end" => EndsAt(at', file)
  PROVE  ModulesInv'
<1>1. cur' = cur /\ file' = file /\ modules' = modules /\ UNCHANGED vmaVars
  OBVIOUS
<1>2. vma' = vma /\ mapped' = mapped /\ freed' = freed /\ Used' = Used
  BY <1>1, StillThere
<1>3. WalkUpwards'
  BY <1>1, <1>2 DEF WalkUpwards, AtVma, InSpanOf
<1>4. nwrites = 0 => SpansRight'
  <2>. SUFFICES ASSUME nwrites = 0 PROVE SpansRight'
    OBVIOUS
  <2>0. SpansRight
    BY DEF ModulesInv
  <2>1. PushedRight'
    BY <1>1, <1>2, <2>0, PushedStays
  <2>2. vma[cur].off = 0 /\ vma[cur].file # NoFile /\ file = vma[cur].file
    BY <2>0 DEF SpansRight, InSpanOf
  <2>3. \A v \in mapped : IsModule(v) =>
          (\E k \in DOMAIN modules : modules[k].module = v) \/ vma[cur].start <= vma[v].start
    BY <2>0 DEF SpansRight, AtVma, InSpanOf
  <2>4. \A v \in mapped' : IsModule(v)' =>
          (\E k \in DOMAIN modules' : modules'[k].module = v) \/ vma'[cur'].start <= vma'[v].start
    BY <2>3, <1>1, <1>2 DEF IsModule
  <2>5. /\ start' = vma'[cur'].start /\ Run(start, at, file)'
        /\ doing' = "next_file" => ahead' = vma'[at'].next
        /\ doing' = "end" => EndsAt(at, file)'
    BY <1>1, <1>2 DEF Run, EndsAt
  <2>. QED BY <2>1, <2>2, <2>4, <2>5, <1>1, <1>2 DEF PushedRight, SpansRight, AtVma, InSpanOf
<1>5. {cur', at', ahead'} \subseteq Vmas \union {NoVma} /\ file' \in Files \union {NoFile}
  BY <1>1, WalkTypes
<1>6. doing' \in {"first", "off", "path", "file", "start", "next", "next_file", "end", "vm_next", "done", "err"}
  BY DEF InSpanOf
<1>. QED BY <1>1, <1>3, <1>4, <1>5, <1>6, GoesOn

LEMMA ReadStartKeeps ==
  ASSUME ModulesInv, ReadStart
  PROVE  ModulesInv'
<1>1. /\ doing = "start" /\ start' = vma[cur].start /\ at' = cur /\ doing' = "next" /\ ahead' = ahead
      /\ UNCHANGED <<vmaVars, cur, file, modules>>
  BY DEF ReadStart
<1>2. cur \in Used /\ \A k \in DOMAIN modules : modules[k].start < vma[cur].start
  BY <1>1 DEF ModulesInv, WalkUpwards, AtVma
<1>3. InSpanOf'
  BY <1>1 DEF InSpanOf
<1>4. ahead' \in Vmas \union {NoVma} /\ start' \in 0 .. Pages /\ start' <= vma[at'].start /\ start' <= vma[cur].start
  BY <1>1, <1>2, WalkTypes
<1>5. nwrites = 0 => Run(start', at', file)
  <2>. SUFFICES ASSUME nwrites = 0 PROVE Run(vma[cur].start, cur, file)
    BY <1>1
  <2>1. SpansRight
    BY DEF ModulesInv
  <2>2. cur \in mapped /\ file = vma[cur].file
    BY <1>1, <1>2, <2>1 DEF SpansRight, Used
  <2>3. \A w \in mapped : vma[cur].start <= vma[w].start /\ vma[w].start <= vma[cur].start => w = cur
    BY <2>2, ListGives DEF MappedRight
  <2>. QED BY <2>2, <2>3, <1>4, <1>1 DEF Run
<1>. QED BY <1>1, <1>2, <1>3, <1>4, <1>5, SpanGoesOn

LEMMA ReadNextKeeps ==
  ASSUME ModulesInv, ReadNext
  PROVE  ModulesInv'
<1>1. /\ doing = "next" /\ start' = start /\ at' = at /\ ahead' = vma[at].next
      /\ doing' = (IF vma[at].next = NoVma THEN "end" ELSE "next_file")
      /\ UNCHANGED <<vmaVars, cur, file, modules>>
  BY DEF ReadNext
<1>2. /\ cur \in Used /\ at \in Used /\ start <= vma[at].start /\ start <= vma[cur].start
      /\ \A k \in DOMAIN modules : modules[k].start < start
  BY <1>1 DEF ModulesInv, WalkUpwards, InSpanOf
<1>3. InSpanOf' /\ InSpanOf
  BY <1>1 DEF InSpanOf
<1>4. ahead' \in Vmas \union {NoVma} /\ start \in 0 .. Pages
  BY <1>1, <1>2, WalkTypes
<1>5. doing' = "next_file" => ahead' \in Used /\ start <= vma[ahead'].start
  <2>. SUFFICES ASSUME doing' = "next_file" PROVE ahead' \in Used /\ start <= vma[ahead'].start
    OBVIOUS
  <2>1. vma[at].start < vma[at].end /\ vma[at].next \in Used /\ vma[at].end <= vma[vma[at].next].start
    BY <1>1, <1>2 DEF ModulesInv, ListRight
  <2>2. /\ vma[at].start \in Nat /\ vma[at].end \in Nat /\ vma[vma[at].next].start \in Nat
    BY <2>1, <1>2, WalkTypes
  <2>. QED BY <2>1, <2>2, <1>1, <1>2, <1>4
<1>6. nwrites = 0 => /\ start = vma[cur].start /\ Run(start, at, file)
                     /\ doing' = "end" => EndsAt(at, file)
  BY <1>1, <1>3 DEF ModulesInv, SpansRight, EndsAt
<1>. QED BY <1>1, <1>2, <1>3, <1>4, <1>5, <1>6, SpanGoesOn

LEMMA ReadNextFileKeeps ==
  ASSUME ModulesInv, ReadNextFile
  PROVE  ModulesInv'
<1>1. /\ doing = "next_file" /\ start' = start /\ ahead' = ahead
      /\ UNCHANGED <<vmaVars, cur, file, modules>>
  BY DEF ReadNextFile
<1>2. /\ cur \in Used /\ at \in Used /\ start <= vma[at].start /\ start <= vma[cur].start
      /\ ahead \in Used /\ start <= vma[ahead].start
      /\ \A k \in DOMAIN modules : modules[k].start < start
  BY <1>1 DEF ModulesInv, WalkUpwards, InSpanOf
<1>3. InSpanOf' /\ InSpanOf
  BY <1>1 DEF InSpanOf, ReadNextFile
<1>4. ahead \in Vmas \union {NoVma} /\ start \in 0 .. Pages
  BY WalkTypes
<1>5. CASE vma[ahead].file # file
  <2>1. doing' = "end" /\ at' = at
    BY <1>5 DEF ReadNextFile
  <2>2. nwrites = 0 => /\ start = vma[cur].start /\ Run(start, at, file) /\ EndsAt(at, file)
    BY <1>1, <1>3, <1>5 DEF ModulesInv, SpansRight, EndsAt
  <2>. QED BY <1>1, <1>2, <1>3, <1>4, <2>1, <2>2, SpanGoesOn
<1>6. CASE vma[ahead].file = file
  <2>1. doing' = "next" /\ at' = ahead
    BY <1>6 DEF ReadNextFile
  <2>2. ASSUME nwrites = 0 PROVE start = vma[cur].start /\ Run(start, ahead, file)
    <3>1. SpansRight
      BY <2>2 DEF ModulesInv
    <3>2. start = vma[cur].start /\ Run(start, at, file) /\ ahead = vma[at].next /\ freed = {}
      BY <3>1, <1>1, <1>3 DEF SpansRight
    <3>3. at \in mapped /\ ahead \in mapped
      BY <3>2, <1>2 DEF Used
    <3>4. ahead # NoVma
      BY <3>3, ListGives DEF MappedRight
    <3>5. \A w \in mapped : vma[at].end <= vma[w].start => vma[ahead].start <= vma[w].start
      BY <3>2, <3>3, <3>4, ListGives DEF MappedRight
    <3>6. ASSUME NEW w \in mapped, start <= vma[w].start, vma[w].start <= vma[ahead].start
          PROVE  vma[w].file = file
      <4>1. CASE w = ahead
        BY <4>1, <1>6
      <4>2. CASE w # ahead
        <5>1. vma[w].end <= vma[ahead].start /\ vma[w].start < vma[w].end
          BY <4>2, <3>3, <3>6, ListGives DEF MappedRight
        <5>2. vma[w].start <= vma[at].start
          BY <5>1, <3>3, <3>5, <3>6, ListGives DEF MappedRight
        <5>. QED BY <5>2, <3>2, <3>6 DEF Run
      <4>. QED BY <4>1, <4>2
    <3>. QED BY <3>2, <3>3, <3>6, <1>2 DEF Run
  <2>. QED BY <1>1, <1>2, <1>3, <1>4, <2>1, <2>2, SpanGoesOn
<1>. QED BY <1>5, <1>6

\* The module that is pushed is behind the others.
LEMMA ReadEndKeeps ==
  ASSUME ModulesInv, ReadEnd
  PROVE  ModulesInv'
<1>m. PICK m : m = [module |-> cur, file |-> file, start |-> start, end |-> vma[at].end]
  OBVIOUS
<1>1. /\ doing = "end" /\ modules' = Append(modules, m) /\ doing' = "vm_next" /\ UNCHANGED vmaVars
      /\ cur' = cur /\ at' = at /\ ahead' = ahead /\ file' = file /\ start' = start
  BY <1>m DEF ReadEnd
<1>2. /\ cur \in Used /\ at \in Used /\ start <= vma[at].start /\ start <= vma[cur].start
      /\ \A k \in DOMAIN modules : modules[k].start < start
  BY <1>1 DEF ModulesInv, WalkUpwards, InSpanOf
<1>3. /\ vma' = vma /\ first' = first /\ mapped' = mapped /\ freed' = freed /\ nwrites' = nwrites
      /\ Used' = Used /\ ListRight' /\ (mapped \intersect freed = {})'
  BY <1>1, StillThere
<1>4. m \in [module : Vmas, file : Files \union {NoFile}, start : 0..Pages, end : 0..Pages]
  BY <1>m, <1>2, WalkTypes
<1>5. LinuxModulesTypeOK'
  <2>1. modules' \in Seq([module : Vmas, file : Files \union {NoFile}, start : 0..Pages, end : 0..Pages])
    BY <1>1, <1>4 DEF ModulesInv, LinuxModulesTypeOK
  <2>. QED BY <2>1, <1>1, <1>3 DEF ModulesInv, LinuxModulesTypeOK
<1>6. PICK n \in Nat : n = Len(modules)
  BY ModuleTypes DEF ModulesInv
<1>7. /\ DOMAIN modules = 1 .. n /\ DOMAIN modules' = 1 .. (n + 1)
      /\ \A k \in 1 .. n : modules'[k] = modules[k]
      /\ modules'[n + 1] = m
  BY <1>1, <1>6 DEF ModulesInv, LinuxModulesTypeOK
<1>8. m.start = start /\ m.end = vma[at].end /\ m.module = cur /\ m.file = file /\ start < vma[at].end
  <2>1. vma[at].start < vma[at].end
    BY <1>2 DEF ModulesInv, ListRight
  <2>. QED BY <2>1, <1>m, <1>2, WalkTypes
<1>9. \A k \in 1 .. n : modules[k].start \in Nat /\ modules[k].start < start
  BY <1>2, <1>7, WalkTypes
<1>10. Sorted'
  <2>1. Sorted
    BY DEF ModulesInv
  <2>2. /\ \A i, k \in 1 .. n : i < k => modules[i].start < modules[k].start
        /\ \A k \in 1 .. n : modules[k].start < modules[k].end
    BY <2>1, <1>7 DEF Sorted
  <2>3. \A k \in 1 .. (n + 1) : k \in 1 .. n \/ k = n + 1
    OBVIOUS
  <2>4. ASSUME NEW i \in 1 .. (n + 1), NEW k \in 1 .. (n + 1), i < k
        PROVE  modules'[i].start < modules'[k].start
    <3>1. i \in 1 .. n
      BY <2>4
    <3>2. CASE k \in 1 .. n
      BY <3>1, <3>2, <2>2, <2>4, <1>7
    <3>3. CASE k = n + 1
      BY <3>1, <3>3, <1>7, <1>8, <1>9
    <3>. QED BY <3>2, <3>3, <2>3
  <2>5. \A k \in 1 .. (n + 1) : modules'[k].start < modules'[k].end
    BY <2>2, <2>3, <1>7, <1>8
  <2>. QED BY <2>4, <2>5, <1>7 DEF Sorted
<1>11. WalkUpwards'
  <2>1. \A k \in 1 .. (n + 1) : modules'[k].start <= vma'[cur'].start
    BY <1>1, <1>2, <1>3, <1>7, <1>8, <1>9, WalkTypes
  <2>. QED BY <2>1, <1>1, <1>2, <1>3, <1>7 DEF WalkUpwards, AtVma, InSpanOf
<1>12. nwrites = 0 => SpansRight'
  <2>. SUFFICES ASSUME nwrites = 0 PROVE SpansRight'
    OBVIOUS
  <2>0. SpansRight
    BY DEF ModulesInv
  <2>1. /\ vma[cur].off = 0 /\ vma[cur].file # NoFile /\ file = vma[cur].file
        /\ start = vma[cur].start /\ Run(start, at, file) /\ EndsAt(at, file) /\ freed = {}
    BY <2>0, <1>1 DEF SpansRight, InSpanOf
  <2>2. cur \in mapped /\ at \in mapped
    BY <2>1, <1>2 DEF Used
  <2>3. PushedRight'
    <3>1. ASSUME NEW k \in 1 .. n
          PROVE  /\ modules[k].module \in mapped /\ IsModule(modules[k].module)
                 /\ modules[k].file = vma[modules[k].module].file /\ modules[k].start = vma[modules[k].module].start
                 /\ \E e \in mapped : /\ modules[k].end = vma[e].end /\ Run(modules[k].start, e, modules[k].file)
                                      /\ EndsAt(e, modules[k].file)
      BY <2>0, <1>7 DEF SpansRight
    <3>2. /\ m.module \in mapped /\ IsModule(m.module)
          /\ m.file = vma[m.module].file /\ m.start = vma[m.module].start
          /\ \E e \in mapped : m.end = vma[e].end /\ Run(m.start, e, m.file) /\ EndsAt(e, m.file)
      BY <2>1, <2>2, <1>8 DEF IsModule
    <3>3. \A k \in 1 .. (n + 1) : k \in 1 .. n \/ k = n + 1
      OBVIOUS
    <3>4. ASSUME NEW k \in 1 .. (n + 1)
          PROVE  /\ modules'[k].module \in mapped /\ IsModule(modules'[k].module)
                 /\ modules'[k].file = vma[modules'[k].module].file /\ modules'[k].start = vma[modules'[k].module].start
                 /\ \E e \in mapped : /\ modules'[k].end = vma[e].end /\ Run(modules'[k].start, e, modules'[k].file)
                                      /\ EndsAt(e, modules'[k].file)
      <4>1. CASE k \in 1 .. n
        BY <4>1, <3>1, <1>7
      <4>2. CASE k = n + 1
        BY <4>2, <3>2, <1>7
      <4>. QED BY <4>1, <4>2, <3>3
    <3>. QED BY <3>4, <2>1, <1>3, <1>7 DEF PushedRight, IsModule, Run, EndsAt
  <2>4. \A v \in mapped : vma[cur].start <= vma[v].start => v = cur \/ vma[cur].start < vma[v].start
    BY <2>2, ListGives DEF MappedRight
  <2>5. \A v \in mapped : IsModule(v) =>
          (\E k \in DOMAIN modules : modules[k].module = v) \/ vma[cur].start <= vma[v].start
    BY <2>0, <1>1 DEF SpansRight, AtVma, InSpanOf
  <2>6. ASSUME NEW v \in mapped, IsModule(v)
        PROVE  (\E k \in DOMAIN modules' : modules'[k].module = v) \/ vma[cur].start < vma[v].start
    <3>1. CASE \E k \in DOMAIN modules : modules[k].module = v
      <4>1. PICK k \in 1 .. n : modules[k].module = v
        BY <3>1, <1>7
      <4>2. k \in DOMAIN modules' /\ modules'[k].module = v
        BY <4>1, <1>7
      <4>. QED BY <4>2
    <3>2. CASE v = cur
      <4>1. n + 1 \in DOMAIN modules' /\ modules'[n + 1].module = v
        BY <3>2, <1>7, <1>8
      <4>. QED BY <4>1
    <3>. QED BY <3>1, <3>2, <2>4, <2>5, <2>6
  <2>7. \A v \in mapped' : IsModule(v)' =>
          (\E k \in DOMAIN modules' : modules'[k].module = v) \/ vma'[cur'].start < vma'[v].start
    BY <2>6, <1>1, <1>3 DEF IsModule
  <2>. QED BY <2>3, <2>7, <1>1 DEF PushedRight, SpansRight, AtVma, InSpanOf
<1>. QED BY <1>3, <1>5, <1>10, <1>11, <1>12 DEF ModulesInv

-----------------------------------------------------------------------------
(* The invariant *)

\* The structures are numbered.
LEMMA Numbered ==
  /\ SetToSeq(Vmas) \in [1 .. Cardinality(Vmas) -> Vmas] /\ Cardinality(Vmas) \in Nat
  /\ \A i, k \in 1 .. Cardinality(Vmas) : SetToSeq(Vmas)[i] = SetToSeq(Vmas)[k] => i = k
  /\ \A v \in Vmas : \E k \in 1 .. Cardinality(Vmas) : SetToSeq(Vmas)[k] = v
<1>1. Cardinality(Vmas) \in Nat /\ ExistsBijection(1 .. Cardinality(Vmas), Vmas)
  BY FS_CardinalityType
<1>. DEFINE N == Cardinality(Vmas)
<1>2. PICK h \in [1 .. N -> Vmas] : IsInjective(h)
  BY <1>1, Zenon DEF ExistsBijection, Bijection, Injection, Surjection
<1>3. SetToSeq(Vmas) \in [1 .. N -> Vmas] /\ IsInjective(SetToSeq(Vmas))
  BY <1>2, Zenon DEF SetToSeq
<1>4. \A i, k \in 1 .. N : SetToSeq(Vmas)[i] = SetToSeq(Vmas)[k] => i = k
  BY <1>3 DEF IsInjective
<1>5. SetToSeq(Vmas) \in Surjection(1 .. N, Vmas)
  <2>1. SetToSeq(Vmas) \in Injection(1 .. N, Vmas)
    BY <1>3, Zenon DEF Injection
  <2>2. Cardinality(1 .. N) = N
    BY <1>1, FS_Interval
  <2>. QED BY <2>1, <2>2, FS_Injection, Zenon
<1>6. \A v \in Vmas : \E k \in 1 .. N : SetToSeq(Vmas)[k] = v
  BY <1>5, Zenon DEF Surjection
<1>. QED BY <1>1, <1>3, <1>4, <1>6

\* The VMAs are linked in order when the walk begins.
LEMMA InitRight ==
  ASSUME LinuxModulesInit
  PROVE  ModulesInv
<1>i. PICK ids : ids = SetToSeq(Vmas)
  OBVIOUS
<1>N. PICK N \in Nat : N = Cardinality(Vmas)
  BY Numbered
<1>1. /\ ids \in [1 .. N -> Vmas] /\ \A i, k \in 1 .. N : ids[i] = ids[k] => i = k
      /\ \A v \in Vmas : \E k \in 1 .. N : ids[k] = v
  BY <1>i, <1>N, Numbered
<1>2. PICK order \in Layouts : \E f \in [1 .. Len(order) -> Backing] :
            /\ vma = [v \in Vmas |->
                        LET k == CHOOSE k \in DOMAIN ids : ids[k] = v
                        IN IF k <= Len(order)
                           THEN Area(order[k], f[k], IF k < Len(order) THEN ids[k + 1] ELSE NoVma) ELSE Unused]
            /\ first = (IF 0 < Len(order) THEN ids[0 + 1] ELSE NoVma)
            /\ mapped = {ids[k] : k \in 1 .. Len(order)}
  BY <1>i DEF LinuxModulesInit
<1>3. PICK n \in 0 .. MaxVmas : order \in [1 .. n -> Bounds]
  BY <1>2 DEF Layouts
<1>4. Len(order) = n /\ DOMAIN order = 1 .. n /\ n \in 0 .. N
  <2>1. order \in Seq(Bounds)
    BY <1>3
  <2>2. DOMAIN order = 1 .. n /\ n \in Nat
    BY <1>3
  <2>3. Len(order) = n
    BY <2>1, <2>2, LenProperties
  <2>. QED BY <2>2, <2>3, <1>3, <1>N
<1>. DEFINE Link(k) == IF k < n THEN ids[k + 1] ELSE NoVma
<1>5. PICK f \in [1 .. n -> Backing] :
            /\ vma = [v \in Vmas |->
                        LET k == CHOOSE k \in DOMAIN ids : ids[k] = v
                        IN IF k <= n THEN Area(order[k], f[k], Link(k)) ELSE Unused]
            /\ first = Link(0)
            /\ mapped = {ids[k] : k \in 1 .. n}
  BY <1>2, <1>4
<1>. HIDE DEF Link
<1>6. ASSUME NEW j \in 1 .. N
      PROVE  vma[ids[j]] = IF j <= n THEN Area(order[j], f[j], Link(j)) ELSE Unused
  <2>1. ids[j] \in Vmas /\ DOMAIN ids = 1 .. N
    BY <1>1
  <2>2. (CHOOSE k \in DOMAIN ids : ids[k] = ids[j]) = j
    BY <1>1, <2>1
  <2>3. vma[ids[j]] = LET k == CHOOSE k \in DOMAIN ids : ids[k] = ids[j]
                      IN IF k <= n THEN Area(order[k], f[k], Link(k)) ELSE Unused
    BY <1>5, <2>1
  <2>. QED BY <2>2, <2>3
<1>7. /\ \A j \in 1 .. n : order[j][1] \in 0 .. Pages /\ order[j][2] \in 0 .. Pages /\ order[j][1] < order[j][2]
      /\ \A i, k \in 1 .. n : i < k => order[i][2] <= order[k][1]
  <2>1. \A j \in 1 .. n : order[j] \in Bounds
    BY <1>3
  <2>2. \A i, k \in DOMAIN order : i < k => order[i][2] <= order[k][1]
    BY <1>2 DEF Layouts
  <2>. QED BY <2>1, <2>2, <1>4 DEF Bounds
<1>8. \A j \in 1 .. n : f[j][1] \in Files \union {NoFile} /\ f[j][2] \in {0, 1}
  BY <1>5 DEF Backing
<1>9. \A j \in 0 .. n : Link(j) = (IF j < n THEN ids[j + 1] ELSE NoVma) /\ Link(j) \in Vmas \union {NoVma}
  <2>1. \A j \in 0 .. n : j < n => j + 1 \in 1 .. N
    BY <1>4
  <2>. QED BY <2>1, <1>1 DEF Link
<1>10. \A j \in 1 .. n : /\ j \in 1 .. N /\ ids[j] \in Vmas /\ vma[ids[j]] = Area(order[j], f[j], Link(j))
                         /\ vma[ids[j]].start = order[j][1] /\ vma[ids[j]].end = order[j][2]
                         /\ vma[ids[j]].off \in {0, 1} /\ vma[ids[j]].next = Link(j)
                         /\ vma[ids[j]] \in AreaType
  <2>1. ASSUME NEW j \in 1 .. n
        PROVE  j \in 1 .. N /\ ids[j] \in Vmas /\ vma[ids[j]] = Area(order[j], f[j], Link(j))
    BY <1>1, <1>4, <1>6
  <2>2. ASSUME NEW j \in 1 .. n PROVE Area(order[j], f[j], Link(j)) \in AreaType
    <3>1. order[j][1] \in 0 .. Pages /\ order[j][2] \in 0 .. Pages
      BY <1>7
    <3>2. f[j][1] \in Files \union {NoFile} /\ f[j][2] \in 0 .. Pages + 1
      BY <1>8
    <3>3. Link(j) \in Vmas \union {NoVma}
      BY <1>9
    <3>. QED BY <3>1, <3>2, <3>3 DEF Area, AreaType
  <2>. QED BY <2>1, <2>2, <1>8 DEF Area
<1>11. vma \in [Vmas -> AreaType]
  <2>1. ASSUME NEW v \in Vmas PROVE vma[v] \in AreaType
    <3>1. PICK j \in 1 .. N : ids[j] = v
      BY <1>1
    <3>2. CASE j <= n
      BY <3>1, <3>2, <1>10
    <3>3. CASE ~(j <= n)
      BY <3>1, <3>3, <1>6 DEF Unused, AreaType
    <3>. QED BY <3>2, <3>3
  <2>2. vma = [v \in Vmas |-> vma[v]]
    BY <1>5
  <2>. QED BY <2>1, <2>2
<1>12. /\ freed = {} /\ nwrites = 0 /\ doing = "first" /\ cur = NoVma /\ at = NoVma /\ ahead = NoVma
       /\ file = NoFile /\ start = 0 /\ modules = <<>>
  BY DEF LinuxModulesInit
<1>13. mapped \subseteq Vmas /\ first \in Vmas \union {NoVma}
  <2>1. first = Link(0) /\ 0 \in 0 .. n
    BY <1>5, <1>4
  <2>2. \A j \in 1 .. n : ids[j] \in Vmas
    BY <1>10
  <2>. QED BY <2>1, <2>2, <1>5, <1>9
<1>14. LinuxModulesTypeOK
  <2>1. modules \in Seq([module : Vmas, file : Files \union {NoFile}, start : 0..Pages, end : 0..Pages])
    BY <1>12
  <2>. QED BY <2>1, <1>11, <1>12, <1>13 DEF LinuxModulesTypeOK, AreaType
<1>15. \A v \in Vmas : vma[v].off <= vma[v].start + 1
  <2>. SUFFICES ASSUME NEW v \in Vmas PROVE vma[v].off <= vma[v].start + 1
    OBVIOUS
  <2>1. PICK j \in 1 .. N : ids[j] = v
    BY <1>1
  <2>2. CASE j <= n
    <3>1. j \in 1 .. n
      BY <2>2
    <3>2. vma[v].off \in {0, 1} /\ vma[v].start = order[j][1] /\ order[j][1] \in 0 .. Pages
      BY <3>1, <2>1, <1>7, <1>10
    <3>. QED BY <3>2
  <2>3. CASE ~(j <= n)
    BY <2>1, <2>3, <1>6 DEF Unused
  <2>. QED BY <2>2, <2>3
<1>16. \A u \in mapped : \E k \in 1 .. n : u = ids[k]
  BY <1>5
<1>17. Follows(0, first)
  <2>1. CASE n = 0
    BY <2>1, <1>5, <1>9 DEF Follows
  <2>2. CASE n # 0
    <3>1. first = ids[1] /\ 1 \in 1 .. n /\ first # NoVma
      <4>1. 0 \in 0 .. n /\ 0 < n /\ 1 \in 1 .. n /\ 0 + 1 = 1
        BY <2>2, <1>4
      <4>2. Link(0) = ids[0 + 1] /\ ids[1] \in Vmas
        BY <4>1, <1>9, <1>10
      <4>. QED BY <4>1, <4>2, <1>5
    <3>2. ids[1] \in mapped
      BY <3>1, <1>5
    <3>3. \A k \in 1 .. n : vma[ids[1]].start <= vma[ids[k]].start
      BY <3>1, <1>7, <1>10
    <3>. QED BY <3>1, <3>2, <3>3, <1>7, <1>10, <1>16 DEF Follows
  <2>. QED BY <2>1, <2>2
<1>18. ASSUME NEW j \in 1 .. n PROVE Follows(order[j][2], Link(j))
  <2>1. CASE j < n
    <3>1. Link(j) = ids[j + 1] /\ j + 1 \in 1 .. n /\ Link(j) # NoVma
      BY <2>1, <1>9, <1>10
    <3>2. ids[j + 1] \in mapped
      BY <3>1, <1>5
    <3>3. \A k \in 1 .. n : order[j][2] <= order[k][1] => order[j + 1][1] <= order[k][1]
      <4>. SUFFICES ASSUME NEW k \in 1 .. n, order[j][2] <= order[k][1] PROVE order[j + 1][1] <= order[k][1]
        OBVIOUS
      <4>0. /\ order[j][1] \in 0 .. Pages /\ order[j][2] \in 0 .. Pages /\ order[k][1] \in 0 .. Pages
            /\ order[k][2] \in 0 .. Pages /\ order[j][1] < order[j][2] /\ order[k][1] < order[k][2]
            /\ k < j => order[k][2] <= order[j][1]
        BY <1>7
      <4>1. k > j
        BY <4>0
      <4>2. k = j + 1 \/ j + 1 < k
        BY <4>1
      <4>3. /\ order[j + 1][1] \in 0 .. Pages /\ order[j + 1][2] \in 0 .. Pages
            /\ order[j + 1][1] < order[j + 1][2]
            /\ j + 1 < k => order[j + 1][2] <= order[k][1]
        BY <3>1, <1>7
      <4>4. CASE k = j + 1
        <5>1. order[k][1] = order[j + 1][1]
          BY <4>4
        <5>. QED BY ONLY <5>1, <4>3
      <4>5. CASE j + 1 < k
        BY ONLY <4>5, <4>0, <4>3
      <4>. QED BY <4>2, <4>4, <4>5
    <3>4. order[j][2] <= order[j + 1][1]
      BY <3>1, <1>7
    <3>. QED BY <3>1, <3>2, <3>3, <3>4, <1>10, <1>16 DEF Follows
  <2>2. CASE ~(j < n)
    <3>1. j = n /\ Link(j) = NoVma
      BY <2>2, <1>9
    <3>2. \A k \in 1 .. n : order[k][1] < order[j][2]
      <4>. SUFFICES ASSUME NEW k \in 1 .. n PROVE order[k][1] < order[j][2]
        OBVIOUS
      <4>1. k = j \/ k < j
        BY <3>1
      <4>2. /\ order[j][1] \in 0 .. Pages /\ order[j][2] \in 0 .. Pages /\ order[j][1] < order[j][2]
            /\ order[k][1] \in 0 .. Pages /\ order[k][2] \in 0 .. Pages /\ order[k][1] < order[k][2]
            /\ k < j => order[k][2] <= order[j][1]
        BY <1>7
      <4>3. ASSUME NEW w \in 0 .. Pages, NEW x \in 0 .. Pages, NEW y \in 0 .. Pages, NEW z \in 0 .. Pages,
                   w < x, x <= y, y < z
            PROVE  w < z
        BY <4>3, ModulesAssumption
      <4>. QED BY <4>1, <4>2, <4>3
    <3>. QED BY <3>1, <3>2, <1>10, <1>16 DEF Follows
  <2>. QED BY <2>1, <2>2
<1>19. \A v \in mapped : Follows(vma[v].end, vma[v].next)
  BY <1>18, <1>16, <1>10
<1>20. \A v, w \in mapped : v # w => vma[v].end <= vma[w].start \/ vma[w].end <= vma[v].start
  <2>. SUFFICES ASSUME NEW v \in mapped, NEW w \in mapped, v # w
       PROVE  vma[v].end <= vma[w].start \/ vma[w].end <= vma[v].start
    OBVIOUS
  <2>1. PICK i \in 1 .. n, k \in 1 .. n : v = ids[i] /\ w = ids[k]
    BY <1>16
  <2>2. i < k \/ k < i
    BY <2>1
  <2>. QED BY <2>1, <2>2, <1>7, <1>10
<1>21. Used = mapped
  BY <1>12 DEF Used
<1>22. \A v \in Used : vma[v].start < vma[v].end
  BY <1>21, <1>16, <1>10, <1>7
<1>23. \A v \in Used : vma[v].next # NoVma => vma[v].next \in Used /\ vma[v].end <= vma[vma[v].next].start
  BY <1>21, <1>19 DEF Follows
<1>24. ListRight
  BY <1>15, <1>17, <1>19, <1>20, <1>22, <1>23 DEF ListRight
<1>25. Sorted /\ WalkUpwards
  BY <1>12 DEF Sorted, WalkUpwards, AtVma, InSpanOf
<1>26. SpansRight
  BY <1>12 DEF SpansRight, AtVma, InSpanOf
<1>. QED BY <1>12, <1>14, <1>24, <1>25, <1>26 DEF ModulesInv

\* The invariant of the walk of the modules holds, unless a structure of the
\* kernel is used again under the walk.
THEOREM ModulesInvariant ==
  ASSUME ~Reuse
  PROVE  LinuxModulesSpec => []ModulesInv
<1>1. LinuxModulesInit => ModulesInv
  BY InitRight
<1>2. ModulesInv /\ [LinuxModulesNext]_moduleVars => ModulesInv'
  <2>. SUFFICES ASSUME ModulesInv, [LinuxModulesNext]_moduleVars PROVE ModulesInv'
    OBVIOUS
  <2>1. ASSUME NEW v \in Vmas, Map(v) PROVE ModulesInv'
    BY <2>1, MapKeeps
  <2>2. ASSUME NEW v \in Vmas, Unmap(v) PROVE ModulesInv'
    BY <2>2, UnmapKeeps
  <2>3. ASSUME NEW v \in Vmas, Trim(v) PROVE ModulesInv'
    BY <2>3, TrimKeeps
  <2>4. CASE ReadFirst
    BY <2>4, ReadFirstKeeps
  <2>5. CASE ReadNextVma
    BY <2>5, ReadNextVmaKeeps
  <2>6. CASE ReadOffset
    BY <2>6, ReadOffsetKeeps
  <2>7. CASE ReadPath
    BY <2>7, ReadPathKeeps
  <2>8. CASE ReadFile
    BY <2>8, ReadFileKeeps
  <2>9. CASE ReadStart
    BY <2>9, ReadStartKeeps
  <2>10. CASE ReadNext
    BY <2>10, ReadNextKeeps
  <2>11. CASE ReadNextFile
    BY <2>11, ReadNextFileKeeps
  <2>12. CASE ReadEnd
    BY <2>12, ReadEndKeeps
  <2>13. CASE ModuleFault
    BY <2>13, FaultKeeps
  <2>14. CASE UNCHANGED moduleVars
    <3>1. UNCHANGED vmaVars /\ UNCHANGED scanVars
      BY <2>14 DEF moduleVars
    <3>2. /\ vma' = vma /\ first' = first /\ mapped' = mapped /\ freed' = freed /\ nwrites' = nwrites
          /\ Used' = Used
      BY <3>1, StillThere
    <3>3. /\ doing' = doing /\ cur' = cur /\ at' = at /\ ahead' = ahead /\ file' = file
          /\ start' = start /\ modules' = modules
      BY <3>1 DEF scanVars
    <3>4. LinuxModulesTypeOK' /\ (mapped \intersect freed = {})' /\ ListRight'
      BY <3>1, <3>2, <3>3, StillThere DEF ModulesInv, LinuxModulesTypeOK
    <3>5. Sorted' /\ WalkUpwards'
      BY <3>2, <3>3 DEF ModulesInv, Sorted, WalkUpwards, AtVma, InSpanOf
    <3>6. nwrites = 0 => SpansRight'
      BY <3>2, <3>3 DEF ModulesInv, SpansRight, Run, EndsAt, IsModule, AtVma, InSpanOf
    <3>. QED BY <3>2, <3>4, <3>5, <3>6 DEF ModulesInv
  <2>. QED BY <2>1, <2>2, <2>3, <2>4, <2>5, <2>6, <2>7, <2>8, <2>9, <2>10, <2>11, <2>12, <2>13, <2>14
           DEF LinuxModulesNext, Process, ModuleWalk
<1>. QED BY <1>1, <1>2, PTL DEF LinuxModulesSpec

-----------------------------------------------------------------------------
(* Lookups *)

\* An address in the span of a module belongs to that module.
LEMMA SpanIsModule ==
  ASSUME ModulesInv, nwrites = 0, NEW a \in 0 .. (Pages - 1), NEW v \in VmaAt(a),
         NEW k \in DOMAIN modules, InSpan(modules[k], a)
  PROVE  InModule(v) /\ modules[k].file = vma[v].file
<1>1. MappedRight /\ SpansRight
  BY ListGives DEF ModulesInv
<1>2. v \in mapped /\ vma[v].start <= a /\ a < vma[v].end
  BY DEF VmaAt
<1>m. PICK m \in mapped, s \in Nat, f \in Files \union {NoFile} :
        m = modules[k].module /\ s = modules[k].start /\ f = modules[k].file
  BY <1>1, ModuleTypes DEF SpansRight, ModulesInv
<1>3. PICK e \in mapped : modules[k].end = vma[e].end /\ Run(modules[k].start, e, modules[k].file)
  BY <1>1 DEF SpansRight
<1>4. /\ IsModule(m) /\ f = vma[m].file /\ s = vma[m].start
      /\ s <= a /\ a < vma[e].end /\ Run(s, e, f)
  BY <1>1, <1>m, <1>3 DEF SpansRight, InSpan
<1>5. /\ vma[v].start \in Nat /\ vma[v].end \in Nat /\ vma[e].start \in Nat /\ vma[e].end \in Nat
      /\ vma[m].start \in Nat /\ vma[m].end \in Nat
      /\ vma[v].start < vma[v].end /\ vma[e].start < vma[e].end /\ vma[m].start < vma[m].end
      /\ v = e \/ vma[v].end <= vma[e].start \/ vma[e].end <= vma[v].start
      /\ v = m \/ vma[v].end <= vma[m].start \/ vma[m].end <= vma[v].start
  BY <1>1, <1>2 DEF MappedRight
<1>6. s <= vma[v].start /\ vma[v].start <= vma[e].start
  BY <1>2, <1>4, <1>5
<1>7. \A w \in mapped : s <= vma[w].start /\ vma[w].start <= vma[v].start => vma[w].file = f
  <2>1. \A w \in mapped : vma[w].start \in Nat
    BY <1>1 DEF MappedRight
  <2>. QED BY <2>1, <1>4, <1>5, <1>6 DEF Run
<1>8. vma[v].file = f
  BY <1>2, <1>5, <1>6, <1>7
<1>. QED BY <1>2, <1>4, <1>6, <1>7, <1>8, <1>m DEF InModule, IsModule

\* The span of a module reaches as far as its file.
LEMMA SpanReaches ==
  ASSUME ModulesInv, nwrites = 0, NEW a \in 0 .. (Pages - 1), NEW v \in VmaAt(a),
         NEW k \in DOMAIN modules, modules[k].start <= a,
         \A w \in mapped : modules[k].start <= vma[w].start /\ vma[w].start <= vma[v].start
                             => vma[w].file = vma[v].file
  PROVE  InSpan(modules[k], a)
<1>1. MappedRight /\ SpansRight
  BY ListGives DEF ModulesInv
<1>2. v \in mapped /\ vma[v].start <= a /\ a < vma[v].end
  BY DEF VmaAt
<1>m. PICK m \in mapped, s \in Nat, f \in Files \union {NoFile} :
        m = modules[k].module /\ s = modules[k].start /\ f = modules[k].file
  BY <1>1, ModuleTypes DEF SpansRight, ModulesInv
<1>3. PICK e \in mapped : /\ modules[k].end = vma[e].end /\ Run(modules[k].start, e, modules[k].file)
                          /\ EndsAt(e, modules[k].file)
  BY <1>1 DEF SpansRight
<1>4. /\ f = vma[m].file /\ s = vma[m].start /\ s <= a /\ Run(s, e, f) /\ EndsAt(e, f)
      /\ \A w \in mapped : s <= vma[w].start /\ vma[w].start <= vma[v].start => vma[w].file = vma[v].file
  BY <1>1, <1>m, <1>3 DEF SpansRight
<1>. SUFFICES ASSUME ~(a < vma[e].end) PROVE FALSE
  BY <1>3 DEF InSpan
<1>5. /\ vma[v].start \in Nat /\ vma[v].end \in Nat /\ vma[e].start \in Nat /\ vma[e].end \in Nat
      /\ vma[m].start \in Nat /\ vma[m].end \in Nat
      /\ vma[v].start < vma[v].end /\ vma[e].start < vma[e].end /\ vma[m].start < vma[m].end
      /\ v = e \/ vma[v].end <= vma[e].start \/ vma[e].end <= vma[v].start
      /\ v = m \/ vma[v].end <= vma[m].start \/ vma[m].end <= vma[v].start
  BY <1>1, <1>2 DEF MappedRight
<1>6. vma[e].end <= vma[v].start /\ s <= vma[v].start /\ s <= vma[e].start
  BY <1>2, <1>4, <1>5 DEF Run
<1>7. PICK x \in mapped : /\ x = vma[e].next /\ vma[e].end <= vma[x].start /\ vma[x].start <= vma[v].start
                          /\ vma[x].start \in Nat
  <2>1. vma[e].next # NoVma
    BY <1>1, <1>2, <1>5, <1>6 DEF MappedRight
  <2>. QED BY <2>1, <1>1, <1>2, <1>6 DEF MappedRight
<1>8. vma[x].file = vma[v].file
  BY <1>4, <1>5, <1>6, <1>7
<1>9. vma[m].file = vma[v].file
  BY <1>4, <1>5, <1>6
<1>10. x # NoVma
  BY <1>1 DEF MappedRight
<1>. QED BY <1>4, <1>7, <1>8, <1>9, <1>10 DEF EndsAt

\* A VMA of a module comes behind the start of a module of the walk.
LEMMA ModuleWasPushed ==
  ASSUME ModulesInv, Quiet, NEW v \in mapped, InModule(v)
  PROVE  \E k \in DOMAIN modules :
           /\ modules[k].start <= vma[v].start
           /\ \A w \in mapped : modules[k].start <= vma[w].start /\ vma[w].start <= vma[v].start
                                  => vma[w].file = vma[v].file
<1>1. SpansRight /\ MappedRight /\ doing = "done"
  BY ListGives DEF ModulesInv, Quiet
<1>2. PICK m \in mapped :
       /\ vma[m].off = 0 /\ vma[m].start <= vma[v].start
       /\ \A w \in mapped : vma[m].start <= vma[w].start /\ vma[w].start <= vma[v].start
                              => vma[w].file = vma[v].file
  BY DEF InModule
<1>3. IsModule(m)
  <2>1. vma[m].file = vma[v].file /\ vma[v].file # NoFile
    BY <1>1, <1>2 DEF InModule, MappedRight
  <2>. QED BY <2>1, <1>2 DEF IsModule
<1>4. PICK k \in DOMAIN modules : modules[k].module = m
  BY <1>1, <1>3 DEF SpansRight, AtVma, InSpanOf
<1>5. modules[k].start = vma[m].start
  BY <1>1, <1>4 DEF SpansRight
<1>. QED BY <1>2, <1>5

\* The modules below an address are the first ones.
LEMMA FirstOnes ==
  ASSUME ModulesInv, NEW a \in 0 .. (Pages - 1)
  PROVE  \E i \in 0 .. Len(modules) :
           /\ Cardinality({k \in DOMAIN modules : modules[k].start < a}) = i
           /\ \A k \in DOMAIN modules : modules[k].start < a <=> k <= i
<1>1. PICK n \in Nat : n = Len(modules)
  BY ModuleTypes DEF ModulesInv
<1>2. DOMAIN modules = 1 .. n /\ \A k \in 1 .. n : modules[k].start \in Nat
  BY <1>1, ModuleTypes DEF ModulesInv
<1>3. \A i, k \in 1 .. n : i < k => modules[i].start < modules[k].start
  BY <1>2 DEF ModulesInv, Sorted
<1>. DEFINE S == {k \in 1 .. n : modules[k].start < a}
            Over == {k \in 1 .. (n + 1) : k = n + 1 \/ ~(modules[k].start < a)}
<1>4. PICK l \in Over : \A k \in Over : l <= k
  <2>1. Over \in SUBSET Nat /\ n + 1 \in Over
    OBVIOUS
  <2>2. Over # {}
    BY <2>1
  <2>. QED BY <2>1, <2>2, LeastNat
<1>5. \A k \in 1 .. n : modules[k].start < a <=> k <= l - 1
  <2>. SUFFICES ASSUME NEW k \in 1 .. n PROVE modules[k].start < a <=> k <= l - 1
    OBVIOUS
  <2>1. CASE k < l
    <3>1. k \notin Over
      BY <2>1, <1>4
    <3>. QED BY <3>1, <2>1
  <2>2. CASE k = l
    BY <2>2, <1>4
  <2>3. CASE l < k
    <3>1. l \in 1 .. n /\ ~(modules[l].start < a) /\ modules[l].start < modules[k].start
      BY <2>3, <1>4, <1>3
    <3>. QED BY <3>1, <2>3, <1>2
  <2>. QED BY <2>1, <2>2, <2>3
<1>6. l - 1 \in 0 .. n
  BY <1>4
<1>. HIDE DEF Over
<1>7. S = 1 .. (l - 1)
  BY <1>5, <1>6
<1>8. Cardinality(S) = l - 1
  <2>1. 1 \in Int /\ l - 1 \in Int
    BY <1>6
  <2>2. Cardinality(1 .. (l - 1)) = IF 1 > l - 1 THEN 0 ELSE (l - 1) - 1 + 1
    BY <2>1, FS_Interval
  <2>3. (IF 1 > l - 1 THEN 0 ELSE (l - 1) - 1 + 1) = l - 1
    BY ONLY <1>6, <1>1
  <2>. QED BY ONLY <2>2, <2>3, <1>7
<1>. QED BY <1>1, <1>2, <1>5, <1>6, <1>8

\* The lookup of the unwinder.
LEMMA CtxFindRight ==
  ASSUME ModulesInv, Quiet, NEW a \in 0 .. (Pages - 1), NEW v \in VmaAt(a)
  PROVE  CtxFind(a).file = IF InModule(v) THEN vma[v].file ELSE NoFile
<1>1. v \in mapped /\ vma[v].start <= a /\ a < vma[v].end /\ nwrites = 0
  BY DEF VmaAt, Quiet
<1>2. vma[v].start \in Nat /\ \A u \in mapped : vma[u].start \in Nat
  BY <1>1, ListGives DEF MappedRight
<1>3. PICK n \in Nat : /\ n = Len(modules) /\ DOMAIN modules = 1 .. n
                       /\ \A k \in 1 .. n : modules[k].start \in Nat /\ modules[k].end \in Nat
  <2>1. LinuxModulesTypeOK
    BY DEF ModulesInv
  <2>2. Len(modules) \in Nat /\ DOMAIN modules = 1 .. Len(modules)
    BY <2>1, ModuleTypes
  <2>3. \A k \in 1 .. Len(modules) : modules[k].start \in Nat /\ modules[k].end \in Nat
    BY <2>1, <2>2, ModuleTypes
  <2>. QED BY <2>2, <2>3
<1>4. /\ \A k \in 1 .. n : modules[k].start < modules[k].end
      /\ \A i, k \in 1 .. n : i < k => modules[i].start < modules[k].start
  BY <1>3 DEF ModulesInv, Sorted
<1>5. ASSUME NEW k \in 1 .. n, InSpan(modules[k], a)
      PROVE  modules[k].file = IF InModule(v) THEN vma[v].file ELSE NoFile
  BY <1>1, <1>3, <1>5, SpanIsModule
<1>. DEFINE exact == {k \in DOMAIN modules : modules[k].start = a}
            c == Cardinality({k \in DOMAIN modules : modules[k].start < a})
<1>6. CASE exact # {}
  <2>1. PICK k \in exact : k = CHOOSE j \in exact : TRUE
    BY <1>6
  <2>2. CtxFind(a) = modules[k]
    BY <1>6, <2>1 DEF CtxFind
  <2>3. InSpan(modules[k], a)
    BY <2>1, <1>3, <1>4 DEF InSpan
  <2>. QED BY <2>2, <2>3, <1>3, <1>5
<1>7. CASE exact = {}
  <2>1. PICK i \in 0 .. n : c = i /\ \A k \in 1 .. n : modules[k].start < a <=> k <= i
    BY <1>3, FirstOnes
  <2>2. CtxFind(a) = IF i = 0 \/ ~InSpan(modules[i], a) THEN NotFound ELSE modules[i]
    BY <1>7, <2>1 DEF CtxFind
  <2>3. CASE i # 0 /\ InSpan(modules[i], a)
    BY <2>2, <2>3, <1>5
  <2>4. CASE i = 0 \/ ~InSpan(modules[i], a)
    <3>1. CtxFind(a).file = NoFile
      BY <2>2, <2>4 DEF NotFound
    <3>2. ASSUME InModule(v) PROVE FALSE
      <4>1. PICK k \in 1 .. n :
              /\ modules[k].start <= vma[v].start
              /\ \A w \in mapped : modules[k].start <= vma[w].start /\ vma[w].start <= vma[v].start
                                     => vma[w].file = vma[v].file
        BY <3>2, <1>1, <1>3, ModuleWasPushed
      <4>2. modules[k].start <= a /\ k \notin exact
        BY <4>1, <1>1, <1>2, <1>3, <1>7
      <4>3. k <= i
        BY <4>2, <2>1, <1>3
      <4>4. i \in 1 .. n /\ modules[i].start <= a /\ modules[k].start <= modules[i].start
        BY <4>3, <2>1, <1>3, <1>4
      <4>5. \A w \in mapped : modules[i].start <= vma[w].start /\ vma[w].start <= vma[v].start
                                => vma[w].file = vma[v].file
        BY <4>1, <4>4, <1>2, <1>3
      <4>6. InSpan(modules[i], a)
        BY <4>4, <4>5, <1>1, <1>3, SpanReaches
      <4>. QED BY <4>4, <4>6, <2>4
    <3>. QED BY <3>1, <3>2
  <2>. QED BY <2>3, <2>4
<1>. QED BY <1>6, <1>7

\* The lookup of Os.
LEMMA OsFindRight ==
  ASSUME ModulesInv, Quiet, NEW a \in 0 .. (Pages - 1), NEW v \in VmaAt(a)
  PROVE  OsFind(a).file = IF InModule(v) THEN vma[v].file ELSE NoFile
<1>1. v \in mapped /\ vma[v].start <= a /\ a < vma[v].end /\ nwrites = 0
  BY DEF VmaAt, Quiet
<1>2. vma[v].start \in Nat /\ \A u \in mapped : vma[u].start \in Nat
  BY <1>1, ListGives DEF MappedRight
<1>3. PICK n \in Nat : /\ n = Len(modules) /\ DOMAIN modules = 1 .. n
                       /\ \A k \in 1 .. n : modules[k].start \in Nat
  <2>1. LinuxModulesTypeOK
    BY DEF ModulesInv
  <2>2. Len(modules) \in Nat /\ DOMAIN modules = 1 .. Len(modules)
    BY <2>1, ModuleTypes
  <2>3. \A k \in 1 .. Len(modules) : modules[k].start \in Nat /\ modules[k].end \in Nat
    BY <2>1, <2>2, ModuleTypes
  <2>. QED BY <2>2, <2>3
<1>. DEFINE I == {i \in 1 .. Len(modules) : InSpan(modules[i], a)}
            k == SelectInSeq(modules, LAMBDA m : InSpan(m, a))
<1>4. k = IF I # {} THEN Min(I) ELSE 0
  BY DEF SelectInSeq
<1>5. CASE I = {}
  <2>1. OsFind(a).file = NoFile
    BY <1>4, <1>5 DEF OsFind, NotFound
  <2>2. ASSUME InModule(v) PROVE FALSE
    <3>1. PICK j \in 1 .. n :
            /\ modules[j].start <= vma[v].start
            /\ \A w \in mapped : modules[j].start <= vma[w].start /\ vma[w].start <= vma[v].start
                                   => vma[w].file = vma[v].file
      BY <2>2, <1>1, <1>3, ModuleWasPushed
    <3>2. modules[j].start <= a
      BY <3>1, <1>1, <1>2, <1>3
    <3>3. InSpan(modules[j], a)
      BY <3>1, <3>2, <1>1, <1>3, SpanReaches
    <3>. QED BY <3>3, <1>3, <1>5
  <2>. QED BY <2>1, <2>2
<1>6. CASE I # {}
  <2>1. I \in SUBSET Nat
    BY <1>3
  <2>2. Min(I) \in I
    <3>. HIDE DEF I
    <3>1. \E x \in I : \A y \in I : x <= y
      BY <2>1, <1>6, LeastNat
    <3>. QED BY <3>1 DEF Min
  <2>3. PICK j \in 1 .. n : j = k /\ j # 0 /\ InSpan(modules[j], a)
    <3>1. Min(I) \in 1 .. n /\ InSpan(modules[Min(I)], a)
      BY <2>2, <1>3
    <3>2. k = Min(I)
      BY <1>4, <1>6
    <3>. HIDE DEF I, k
    <3>. QED BY <3>1, <3>2
  <2>4. OsFind(a) = modules[j]
    BY <2>3 DEF OsFind
  <2>. QED BY <2>3, <2>4, <1>1, <1>3, SpanIsModule
<1>. QED BY <1>5, <1>6

\* The modules of a process can be searched by address, whatever it maps and
\* unmaps under the walk, unless the structure of a VMA is used again; and in
\* a process that keeps still both lookups give an address to the module of
\* its file that contains it, and to no other.
THEOREM LookupsRightAlways ==
  ASSUME ~Reuse
  PROVE  LinuxModulesSpec => []LookupsRight
<1>1. ASSUME ModulesInv PROVE LookupsRight
  <2>1. Searchable
    <3>1. \A k \in 1 .. (Len(modules) - 1) : k \in DOMAIN modules /\ k + 1 \in DOMAIN modules /\ k < k + 1
      BY <1>1, ModuleTypes DEF ModulesInv
    <3>. QED BY <1>1, <3>1 DEF ModulesInv, Sorted, Searchable
  <2>. QED BY <1>1, <2>1, CtxFindRight, OsFindRight DEF LookupsRight
<1>. QED BY <1>1, ModulesInvariant, PTL

-----------------------------------------------------------------------------
(* Call chains *)

\* What the assumptions say of the shape of a frame.
LEMMA ShapeTypes ==
  \A a \in DOMAIN Code : /\ a \in Nat /\ Shape[a].depth \in Nat
                         /\ Shape[a].bp \in {"kept", "saved", "framed", "outermost"}
                         /\ Shape[a].ra \in {"saved", "link", "none"}
                         /\ Shape[a].ra = "none" <=> Shape[a].bp = "outermost"
                         /\ Shape[a].ra = "saved" => Shape[a].depth > 0
                         /\ Shape[a].bp \in {"saved", "framed"} => Shape[a].depth > 1
<1>. SUFFICES ASSUME NEW a \in DOMAIN Code PROVE ShapeTypes!(a)  OBVIOUS
<1>1. Shape[a] \in Shapes /\ a \in Nat  BY CodeAssumption
<1>2. /\ Shape[a].ra = "none" <=> Shape[a].bp = "outermost"
      /\ Shape[a].ra = "saved" => Shape[a].depth > 0
      /\ Shape[a].bp \in {"saved", "framed"} => Shape[a].depth > 1
  BY CodeAssumption
<1>. QED BY <1>1, <1>2 DEF Shapes

LEMMA TopIsNat == Top \in Nat
  BY UnwindAssumption

LEMMA FrameTypes ==
  \A f \in Frames : /\ f.ip \in DOMAIN Code /\ f.sp \in Nat /\ f.sp <= Top
                    /\ Shape[f.ip].depth \in Nat
                    /\ Shape[f.ip].ra = "saved" => Shape[f.ip].depth > 0
                    /\ Shape[f.ip].bp \in {"saved", "framed"} => Shape[f.ip].depth > 1
  BY TopIsNat, ShapeTypes DEF Frames, Words

\* A frame in front of others.
LEMMA FrontFrame ==
  ASSUME NEW f \in Frames, NEW c \in Seq(Frames)
  PROVE  /\ <<f>> \o c \in Seq(Frames) /\ <<f>> \o c # <<>>
         /\ Len(<<f>> \o c) = Len(c) + 1 /\ DOMAIN (<<f>> \o c) = 1..(Len(c) + 1)
         /\ (<<f>> \o c)[1] = f
         /\ \A k \in 1..Len(c) : (<<f>> \o c)[k + 1] = c[k]
<1>1. <<f>> \in Seq(Frames) /\ Len(<<f>>) = 1  OBVIOUS
<1>2. <<f>> \o c \in Seq(Frames) /\ Len(<<f>> \o c) = Len(c) + 1 /\ Len(c) \in Nat
  BY <1>1
<1>3. DOMAIN (<<f>> \o c) = 1..(Len(c) + 1)  BY <1>2
<1>4. (<<f>> \o c)[1] = f  BY <1>2
<1>5. \A k \in 1..Len(c) : (<<f>> \o c)[k + 1] = c[k]  BY <1>1, <1>2
<1>6. <<f>> \o c # <<>>  BY <1>2
<1>. QED BY <1>2, <1>3, <1>4, <1>5, <1>6

\* The words of a chain are the ones from the stack pointer of its first
\* frame on.
LEMMA MemoryBelow ==
  ASSUME NEW c \in Seq(Frames), NEW m, NEW n, NEW B, Chained(c, m, B),
         \A a \in Words : c[1].sp <= a => n[a] = m[a]
  PROVE  Chained(c, n, B)
<1>. SUFFICES ASSUME NEW k \in DOMAIN c, k # Len(c)
              PROVE  Called(c[k], c[k + 1], n, B[k], B[k + 1])
  BY DEF Chained
<1>1. k + 1 \in DOMAIN c /\ 1 \in DOMAIN c /\ 1 <= k
  OBVIOUS
<1>2. Called(c[k], c[k + 1], m, B[k], B[k + 1]) /\ c[1].sp <= c[k].sp
  BY <1>1 DEF Chained
<1>. DEFINE f == c[k]
            g == c[k + 1]
<1>3. f \in Frames /\ g \in Frames /\ c[1] \in Frames
  BY <1>1
<1>. HIDE DEF f, g
<1>4. /\ f.sp \in Nat /\ g.sp \in Nat /\ g.sp <= Top /\ c[1].sp \in Nat
      /\ Shape[f.ip].depth \in Nat
      /\ Shape[f.ip].ra = "saved" => Shape[f.ip].depth > 0
      /\ Shape[f.ip].bp \in {"saved", "framed"} => Shape[f.ip].depth > 1
  BY <1>3, FrameTypes
<1>5. Called(f, g, m, B[k], B[k + 1]) /\ c[1].sp <= f.sp
  BY <1>2 DEF f, g
<1>. DEFINE s == c[1].sp
            d == Shape[f.ip].depth
<1>51. g.sp = f.sp + d /\ s <= f.sp /\ s \in Nat /\ d \in Nat
  BY <1>4, <1>5 DEF Called
<1>52. (Shape[f.ip].ra = "saved" => d > 0) /\ (Shape[f.ip].bp \in {"saved", "framed"} => d > 1)
  BY <1>4
<1>. HIDE DEF s, d
<1>53. d > 0 => g.sp - 1 \in Words /\ s <= g.sp - 1
  <2>1. ASSUME NEW x \in Nat, NEW y \in Nat, x <= Top, x = y + d, s <= y, d > 0
        PROVE  x - 1 \in 0..Top /\ s <= x - 1
    BY <2>1, <1>51, TopIsNat
  <2>. QED BY <2>1, <1>4, <1>51 DEF Words
<1>54. d > 1 => g.sp - 2 \in Words /\ s <= g.sp - 2
  <2>1. ASSUME NEW x \in Nat, NEW y \in Nat, x <= Top, x = y + d, s <= y, d > 1
        PROVE  x - 2 \in 0..Top /\ s <= x - 2
    BY <2>1, <1>51, TopIsNat
  <2>. QED BY <2>1, <1>4, <1>51 DEF Words
<1>6. Shape[f.ip].ra = "saved" => g.sp - 1 \in Words /\ c[1].sp <= g.sp - 1
  BY <1>52, <1>53 DEF s
<1>7. Shape[f.ip].bp \in {"saved", "framed"} => g.sp - 2 \in Words /\ c[1].sp <= g.sp - 2
  BY <1>52, <1>54 DEF s
<1>8. Called(f, g, n, B[k], B[k + 1])
  BY <1>5, <1>6, <1>7 DEF Called
<1>. QED BY <1>8 DEF f, g

\* The base pointers of a chain with another one in front.
WithFront(b, B, n) == [k \in 1..(n + 1) |-> IF k = 1 THEN b ELSE B[k - 1]]

\* A function that moves on within its frame.
LEMMA HeadMoves ==
  ASSUME NEW c \in Seq(Frames), NEW f \in Frames, NEW g \in Frames, NEW m,
         NEW B \in [1..(Len(c) + 1) -> Nat], NEW b \in Nat,
         Chained(<<f>> \o c, m, B),
         c = <<>> => Shape[g.ip].bp = "outermost" /\ g.sp + Shape[g.ip].depth = Top,
         c # <<>> => Shape[g.ip].bp # "outermost" /\ Called(g, c[1], m, b, B[2])
  PROVE  Chained(<<g>> \o c, m, [B EXCEPT ![1] = b])
<1>. DEFINE p == <<f>> \o c
            q == <<g>> \o c
            D == [B EXCEPT ![1] = b]
            N == Len(c) + 1
<1>1. /\ p \in Seq(Frames) /\ q \in Seq(Frames) /\ Len(p) = N /\ Len(q) = N
      /\ DOMAIN p = 1..N /\ DOMAIN q = 1..N /\ q[1] = g /\ q # <<>>
      /\ \A k \in 2..N : p[k] = q[k] /\ D[k] = B[k] /\ q[k] = c[k - 1]
      /\ N \in Nat /\ N >= 1 /\ D[1] = b /\ (c = <<>> <=> N = 1)
  <2>1. \A k \in 2..N : k - 1 \in 1..Len(c) /\ (k - 1) + 1 = k  OBVIOUS
  <2>2. \A k \in 2..N : p[k] = c[k - 1] /\ q[k] = c[k - 1]
    BY <2>1, FrontFrame
  <2>3. c = <<>> <=> N = 1  OBVIOUS
  <2>. QED BY <2>2, <2>3, FrontFrame
<1>2. Chained(p, m, B)  OBVIOUS
<1>. HIDE DEF p, q, D, N
<1>3. \A k \in 1..N : q[k] \in Frames /\ q[k].sp \in Nat /\ q[k].ip \in DOMAIN Code
  BY <1>1, FrameTypes
<1>4. \A k \in 1..N : Shape[q[k].ip].bp = "outermost" <=> k = N
  <2>1. CASE N = 1  BY <2>1, <1>1
  <2>2. CASE N # 1
    <3>0. \A k \in 2..N : k \in DOMAIN p /\ q[k] = p[k]  BY <1>1
    <3>1. \A k \in 2..N : Shape[q[k].ip].bp = "outermost" <=> k = N
      <4>. SUFFICES ASSUME NEW k \in 2..N PROVE Shape[q[k].ip].bp = "outermost" <=> k = N  OBVIOUS
      <4>1. k \in DOMAIN p /\ q[k] = p[k] /\ Len(p) = N  BY <3>0, <1>1
      <4>2. Shape[p[k].ip].bp = "outermost" <=> k = Len(p)  BY <4>1, <1>2 DEF Chained
      <4>. QED BY <4>1, <4>2
    <3>. QED BY <3>1, <2>2, <1>1
  <2>. QED BY <2>1, <2>2
<1>5. q[N].sp + Shape[q[N].ip].depth = Top
  <2>1. CASE N = 1  BY <2>1, <1>1
  <2>2. CASE N # 1  BY <2>2, <1>1, <1>2 DEF Chained
  <2>. QED BY <2>1, <2>2
<1>6. N # 1 => q[1].sp <= q[2].sp
  <2>. SUFFICES ASSUME N # 1 PROVE q[1].sp <= q[2].sp  OBVIOUS
  <2>1. q[2] = c[1]  BY <1>1
  <2>2. Called(q[1], q[2], m, b, B[2])  BY <2>1, <1>1
  <2>3. q[1].sp \in Nat /\ q[2].sp \in Nat /\ Shape[q[1].ip].depth \in Nat
    BY <1>1, <1>3, ShapeTypes
  <2>. QED BY <2>2, <2>3 DEF Called
<1>7. \A j, k \in 1..N : j <= k => q[j].sp <= q[k].sp
  <2>. SUFFICES ASSUME NEW j \in 1..N, NEW k \in 1..N, j <= k PROVE q[j].sp <= q[k].sp  OBVIOUS
  <2>1. CASE j # 1
    <3>1. j \in 2..N /\ k \in 2..N  BY <2>1, <1>1
    <3>. QED BY <3>1, <1>1, <1>2 DEF Chained
  <2>2. CASE j = 1 /\ k = 1  BY <2>2, <1>3, <1>1
  <2>3. CASE j = 1 /\ k # 1
    <3>1. 2 \in 2..N /\ k \in 2..N /\ 2 <= k /\ N # 1  BY <2>3, <1>1
    <3>2. q[2].sp <= q[k].sp
      <4>0. 2 \in DOMAIN p /\ k \in DOMAIN p  BY <3>1, <1>1
      <4>1. p[2].sp <= p[k].sp  BY <4>0, <3>1, <1>2 DEF Chained
      <4>. QED BY <4>1, <3>1, <1>1
    <3>3. q[1].sp <= q[2].sp  BY <3>1, <1>6
    <3>4. q[1].sp \in Nat /\ q[2].sp \in Nat /\ q[k].sp \in Nat
      <4>1. 1 \in 1..N /\ 2 \in 1..N /\ k \in 1..N  BY <3>1, <1>1
      <4>. QED BY <4>1, <1>3
    <3>. QED BY <2>3, <3>2, <3>3, <3>4
  <2>. QED BY <2>1, <2>2, <2>3
<1>8. \A k \in 1..N : k # N => Called(q[k], q[k + 1], m, D[k], D[k + 1])
  <2>. SUFFICES ASSUME NEW k \in 1..N, k # N PROVE Called(q[k], q[k + 1], m, D[k], D[k + 1])  OBVIOUS
  <2>1. CASE k = 1
    <3>1. q[2] = c[1] /\ D[2] = B[2] /\ c # <<>>  BY <2>1, <1>1
    <3>. QED BY <3>1, <2>1, <1>1
  <2>2. CASE k # 1
    <3>1. k \in 2..N /\ k + 1 \in 2..N /\ k \in DOMAIN p  BY <2>2, <1>1
    <3>2. Called(p[k], p[k + 1], m, B[k], B[k + 1])  BY <3>1, <1>1, <1>2 DEF Chained
    <3>. QED BY <3>1, <3>2, <1>1
  <2>. QED BY <2>1, <2>2
<1>81. \A k \in 1..N : k # 1 => Shape[q[k].ip].ra # "link"
  <2>. SUFFICES ASSUME NEW k \in 1..N, k # 1 PROVE Shape[q[k].ip].ra # "link"  OBVIOUS
  <2>1. k \in 2..N /\ k \in DOMAIN p  BY <1>1
  <2>2. Shape[p[k].ip].ra # "link"  BY <2>1, <1>2 DEF Chained
  <2>. QED BY <2>1, <2>2, <1>1
<1>9. Chained(q, m, D)  BY <1>1, <1>4, <1>5, <1>7, <1>8, <1>81 DEF Chained
<1>. QED BY <1>9 DEF q, D

\* A function that is called.
LEMMA HeadCalled ==
  ASSUME NEW c \in Seq(Frames), NEW f \in Frames, NEW m,
         NEW B \in [DOMAIN c -> Nat], NEW b \in Nat,
         Chained(c, m, B),
         Shape[c[1].ip].ra # "link", Shape[f.ip].bp # "outermost", Called(f, c[1], m, b, B[1])
  PROVE  /\ WithFront(b, B, Len(c)) \in [DOMAIN (<<f>> \o c) -> Nat] /\ WithFront(b, B, Len(c))[1] = b
         /\ Chained(<<f>> \o c, m, WithFront(b, B, Len(c)))
<1>. DEFINE q == <<f>> \o c
            N == Len(c) + 1
            D == WithFront(b, B, Len(c))
<1>1. /\ q \in Seq(Frames) /\ q # <<>> /\ Len(q) = N /\ DOMAIN q = 1..N /\ q[1] = f
      /\ N \in Nat /\ N > 1 /\ DOMAIN c = 1..(N - 1) /\ Len(c) = N - 1
      /\ \A k \in 2..N : q[k] = c[k - 1]
  <2>1. \A k \in 2..N : k - 1 \in 1..Len(c) /\ (k - 1) + 1 = k  OBVIOUS
  <2>2. \A k \in 2..N : q[k] = c[k - 1]
    BY <2>1, FrontFrame
  <2>3. Len(c) # 0  BY DEF Chained
  <2>. QED BY <2>2, <2>3, FrontFrame
<1>2. D \in [1..N -> Nat] /\ D[1] = b /\ \A k \in 2..N : D[k] = B[k - 1]
  <2>1. \A k \in 1..N : k # 1 => k - 1 \in DOMAIN c  BY <1>1
  <2>. QED BY <2>1, <1>1 DEF WithFront
<1>. HIDE DEF q, D, N
<1>3. \A k \in 2..N : k - 1 \in DOMAIN c  BY <1>1
<1>4. \A k \in 1..N : q[k] \in Frames /\ q[k].sp \in Nat /\ q[k].ip \in DOMAIN Code
  BY <1>1, FrameTypes
<1>5. \A k \in 1..N : Shape[q[k].ip].bp = "outermost" <=> k = N
  <2>. SUFFICES ASSUME NEW k \in 1..N PROVE Shape[q[k].ip].bp = "outermost" <=> k = N  OBVIOUS
  <2>1. CASE k = 1  BY <2>1, <1>1
  <2>2. CASE k # 1
    <3>1. k \in 2..N  BY <2>2, <1>1
    <3>2. k - 1 \in DOMAIN c /\ q[k] = c[k - 1] /\ (k - 1 = Len(c) <=> k = N)  BY <3>1, <1>1
    <3>. QED BY <3>2 DEF Chained
  <2>. QED BY <2>1, <2>2
<1>6. q[N].sp + Shape[q[N].ip].depth = Top
  <2>1. q[N] = c[Len(c)]  BY <1>1
  <2>. QED BY <2>1 DEF Chained
<1>7. f.sp <= c[1].sp
  <2>1. f.sp \in Nat /\ c[1].sp \in Nat /\ Shape[f.ip].depth \in Nat
    <3>1. 1 \in DOMAIN c  BY <1>1
    <3>2. c[1] \in Frames  BY <3>1
    <3>. QED BY <3>2, FrameTypes
  <2>. QED BY <2>1 DEF Called
<1>8. \A j, k \in 1..N : j <= k => q[j].sp <= q[k].sp
  <2>. SUFFICES ASSUME NEW j \in 1..N, NEW k \in 1..N, j <= k PROVE q[j].sp <= q[k].sp  OBVIOUS
  <2>1. CASE j # 1
    <3>1. j \in 2..N /\ k \in 2..N /\ j - 1 <= k - 1  BY <2>1, <1>1
    <3>. QED BY <3>1, <1>1, <1>3 DEF Chained
  <2>2. CASE j = 1 /\ k = 1  BY <2>2, <1>4, <1>1
  <2>3. CASE j = 1 /\ k # 1
    <3>1. k \in 2..N /\ 1 \in DOMAIN c /\ k - 1 \in DOMAIN c /\ 1 <= k - 1 BY <2>3, <1>1
    <3>2. c[1].sp <= c[k - 1].sp  BY <3>1 DEF Chained
    <3>3. c[1] = q[2] /\ c[k - 1] = q[k]  BY <3>1, <1>1
    <3>4. q[1].sp \in Nat /\ q[2].sp \in Nat /\ q[k].sp \in Nat  BY <3>1, <1>1, <1>4
    <3>. QED BY <2>3, <1>1, <1>7, <3>2, <3>3, <3>4
  <2>. QED BY <2>1, <2>2, <2>3
<1>9. \A k \in 1..N : k # N => Called(q[k], q[k + 1], m, D[k], D[k + 1])
  <2>. SUFFICES ASSUME NEW k \in 1..N, k # N PROVE Called(q[k], q[k + 1], m, D[k], D[k + 1])  OBVIOUS
  <2>1. CASE k = 1
    <3>0. 2 \in 2..N /\ 2 - 1 = 1  BY <1>1
    <3>1. q[2] = c[1] /\ D[2] = B[1]  BY <3>0, <1>1, <1>2
    <3>. QED BY <3>1, <2>1, <1>1, <1>2
  <2>2. CASE k # 1
    <3>1. k \in 2..N /\ k + 1 \in 2..N /\ k - 1 \in DOMAIN c /\ k - 1 # Len(c) /\ (k + 1) - 1 = (k - 1) + 1
      BY <2>2, <1>1
    <3>2. Called(c[k - 1], c[(k - 1) + 1], m, B[k - 1], B[(k - 1) + 1])  BY <3>1 DEF Chained
    <3>3. /\ q[k] = c[k - 1] /\ q[k + 1] = c[(k + 1) - 1]
          /\ D[k] = B[k - 1] /\ D[k + 1] = B[(k + 1) - 1]
      BY <3>1, <1>1, <1>2
    <3>. QED BY <3>1, <3>2, <3>3
  <2>. QED BY <2>1, <2>2
<1>91. \A k \in 1..N : k # 1 => Shape[q[k].ip].ra # "link"
  <2>. SUFFICES ASSUME NEW k \in 1..N, k # 1 PROVE Shape[q[k].ip].ra # "link"  OBVIOUS
  <2>1. k \in 2..N /\ k - 1 \in DOMAIN c /\ q[k] = c[k - 1] /\ (k = 2 => k - 1 = 1) /\ (k # 2 => k - 1 # 1)
    BY <1>1
  <2>2. k - 1 # 1 => Shape[c[k - 1].ip].ra # "link"  BY <2>1 DEF Chained
  <2>. QED BY <2>1, <2>2
<1>10. Chained(q, m, D)  BY <1>1, <1>5, <1>6, <1>8, <1>9, <1>91 DEF Chained
<1>. QED BY <1>10, <1>1, <1>2 DEF q, D

\* A function that returns.
LEMMA HeadReturns ==
  ASSUME NEW c \in Seq(Frames), NEW f \in Frames, NEW m,
         NEW B \in [1..(Len(c) + 1) -> Nat],
         Chained(<<f>> \o c, m, B), c # <<>>
  PROVE  LET D == [k \in DOMAIN c |-> B[k + 1]]
         IN D \in [DOMAIN c -> Nat] /\ D[1] = B[2] /\ Chained(c, m, D) /\ Shape[c[1].ip].ra # "link"
<1>. DEFINE q == <<f>> \o c
            N == Len(c)
            D == [k \in DOMAIN c |-> B[k + 1]]
<1>1. /\ q \in Seq(Frames) /\ Len(q) = N + 1 /\ DOMAIN q = 1..(N + 1)
      /\ N \in Nat /\ N >= 1 /\ DOMAIN c = 1..N
      /\ \A k \in 1..N : c[k] = q[k + 1] /\ k + 1 \in DOMAIN q
  <2>2. Len(c) # 0  OBVIOUS
  <2>. QED BY <2>2, FrontFrame
<1>2. D \in [1..N -> Nat] /\ \A k \in 1..N : D[k] = B[k + 1]
  BY <1>1
<1>3. Chained(q, m, B)  OBVIOUS
<1>. HIDE DEF q, D, N
<1>4. \A k \in 1..N : Shape[c[k].ip].bp = "outermost" <=> k = N
  <2>1. \A k \in 1..N : k = N <=> k + 1 = N + 1  BY <1>1
  <2>. QED BY <2>1, <1>1, <1>3 DEF Chained
<1>5. c[N].sp + Shape[c[N].ip].depth = Top
  BY <1>1, <1>3 DEF Chained
<1>6. \A j, k \in 1..N : j <= k => c[j].sp <= c[k].sp
  <2>1. \A j, k \in 1..N : j <= k => j + 1 <= k + 1  BY <1>1
  <2>. QED BY <2>1, <1>1, <1>3 DEF Chained
<1>7. \A k \in 1..N : k # N => Called(c[k], c[k + 1], m, D[k], D[k + 1])
  <2>. SUFFICES ASSUME NEW k \in 1..N, k # N PROVE Called(c[k], c[k + 1], m, D[k], D[k + 1])  OBVIOUS
  <2>1. k + 1 \in 1..N /\ k + 1 # N + 1  BY <1>1
  <2>2. Called(q[k + 1], q[(k + 1) + 1], m, B[k + 1], B[(k + 1) + 1])
    BY <2>1, <1>1, <1>3 DEF Chained
  <2>. QED BY <2>1, <2>2, <1>1, <1>2
<1>71. \A k \in 1..N : Shape[c[k].ip].ra # "link"
  <2>1. \A k \in 1..N : k + 1 # 1  BY <1>1
  <2>. QED BY <2>1, <1>1, <1>3 DEF Chained
<1>8. Chained(c, m, D)
  <2>1. N = Len(c)  BY DEF N
  <2>. QED BY <2>1, <1>1, <1>4, <1>5, <1>6, <1>7, <1>71 DEF Chained
<1>9. D[1] = B[2]  BY <1>1, <1>2
<1>10. Shape[c[1].ip].ra # "link"  BY <1>1, <1>71
<1>. QED BY <1>8, <1>9, <1>10, <1>1, <1>2 DEF D, N

-----------------------------------------------------------------------------
(* The process *)

\* What the chain says of the function that runs.
LEMMA Running ==
  ASSUME LinuxUnwindTypeOK, NEW B, Chained(<<Frame(ip, sp)>> \o callers, mem, B)
  PROVE  /\ Frame(ip, sp) \in Frames /\ Shape[ip].depth \in Nat
         /\ sp + Shape[ip].depth <= Top
         /\ callers = <<>> => Shape[ip].bp = "outermost" /\ sp + Shape[ip].depth = Top
         /\ callers # <<>> =>
              /\ Shape[ip].bp # "outermost"
              /\ callers[1] \in Frames /\ callers[1].sp = sp + Shape[ip].depth
              /\ Shape[ip].ra = "saved" => mem[callers[1].sp - 1] = callers[1].ip
              /\ Shape[ip].bp = "kept" => B[2] = B[1]
              /\ Shape[ip].bp \in {"saved", "framed"} => B[2] = mem[callers[1].sp - 2]
              /\ Shape[ip].bp = "framed" => B[1] = callers[1].sp - 2
<1>. DEFINE f == Frame(ip, sp)
            c == <<f>> \o callers
<1>1. f \in Frames /\ f.ip = ip /\ f.sp = sp /\ callers \in Seq(Frames) /\ ip \in DOMAIN Code
  BY DEF LinuxUnwindTypeOK, Frames, Frame
<1>. HIDE DEF f
<1>2. /\ Len(c) = Len(callers) + 1 /\ DOMAIN c = 1..(Len(callers) + 1) /\ c[1] = f
      /\ \A k \in 1..Len(callers) : c[k + 1] = callers[k]
  BY <1>1, FrontFrame
<1>3. Chained(c, mem, B)  BY DEF f
<1>. HIDE DEF c
<1>4. Shape[ip].depth \in Nat /\ sp \in Nat  BY <1>1, FrameTypes
<1>5. CASE callers = <<>>
  <2>1. Len(c) = 1 /\ 1 \in DOMAIN c  BY <1>2, <1>5
  <2>2. Shape[c[1].ip].bp = "outermost" /\ c[1].sp + Shape[c[1].ip].depth = Top
    BY <1>3, <2>1 DEF Chained
  <2>. QED BY <2>2, <1>1, <1>2, <1>4, <1>5, TopIsNat DEF f
<1>6. CASE callers # <<>>
  <2>1. Len(callers) \in Nat /\ Len(callers) # 0  BY <1>1, <1>6
  <2>2. 1 \in 1..Len(callers) /\ 1 \in DOMAIN c /\ 1 # Len(c) /\ 1 + 1 = 2  BY <2>1, <1>2
  <2>3. callers[1] \in Frames  BY <1>1, <2>2
  <2>4. c[1 + 1] = callers[1]  BY <1>2, <2>2
  <2>5. Called(c[1], c[1 + 1], mem, B[1], B[1 + 1])  BY <1>3, <2>2 DEF Chained
  <2>6. Called(f, callers[1], mem, B[1], B[2])  BY <2>2, <2>4, <2>5, <1>2
  <2>7. Shape[c[1].ip].bp # "outermost"  BY <1>3, <2>2 DEF Chained
  <2>8. callers[1].sp = sp + Shape[ip].depth  BY <2>6, <1>1 DEF Called
  <2>9. sp + Shape[ip].depth <= Top
    <3>1. callers[1].sp \in Nat /\ callers[1].sp <= Top  BY <2>3, FrameTypes
    <3>. QED BY <3>1, <2>8, <1>4, TopIsNat
  <2>. QED BY <2>3, <2>6, <2>7, <2>8, <2>9, <1>1, <1>2, <1>4, <1>6 DEF Called, f
<1>. QED BY <1>5, <1>6

\* The function that runs moves on within its frame.
LEMMA MovesOn ==
  ASSUME LinuxUnwindTypeOK, NEW B \in [1..(Len(callers) + 1) -> Nat],
         Chained(<<Frame(ip, sp)>> \o callers, mem, B),
         callers' = callers, \A a \in Words : sp <= a => mem'[a] = mem[a],
         ip' \in DOMAIN Code, sp' \in Words, bp' \in Nat,
         Shape[ip'].ra = "link" => callers # <<>> /\ callers[1].ip = lr',
         callers = <<>> => Shape[ip'].bp = "outermost" /\ sp' + Shape[ip'].depth = Top,
         callers # <<>> =>
              /\ Shape[ip'].bp # "outermost"
              /\ callers[1].sp = sp' + Shape[ip'].depth
              /\ Shape[ip'].ra = "saved" => mem'[callers[1].sp - 1] = callers[1].ip
              /\ Shape[ip'].bp = "kept" => B[2] = bp'
              /\ Shape[ip'].bp \in {"saved", "framed"} => B[2] = mem'[callers[1].sp - 2]
              /\ Shape[ip'].bp = "framed" => bp' = callers[1].sp - 2
  PROVE  ProcessRight'
<1>. DEFINE f == Frame(ip, sp)
            g == Frame(ip', sp')
            D == [B EXCEPT ![1] = bp']
<1>1. /\ f \in Frames /\ g \in Frames /\ callers \in Seq(Frames) /\ g.ip = ip' /\ g.sp = sp'
      /\ f.sp = sp
  BY DEF LinuxUnwindTypeOK, Frames, Frame
<1>2. (<<f>> \o callers)[1] = f /\ <<f>> \o callers \in Seq(Frames)
  BY <1>1, FrontFrame
<1>3. Chained(<<f>> \o callers, mem, B)  OBVIOUS
<1>. HIDE DEF f
<1>4. Chained(<<f>> \o callers, mem', B)
  BY <1>1, <1>2, <1>3, MemoryBelow
<1>. HIDE DEF g
<1>5. callers # <<>> => Called(g, callers[1], mem', bp', B[2])
  BY <1>1 DEF Called
<1>6. Chained(<<g>> \o callers, mem', D)
  BY <1>1, <1>4, <1>5, HeadMoves
<1>7. DOMAIN (<<g>> \o callers) = 1..(Len(callers) + 1)
  BY <1>1, FrontFrame
<1>8. 1 \in 1..(Len(callers) + 1)  BY <1>1
<1>9. D \in [1..(Len(callers) + 1) -> Nat] /\ D[1] = bp'  BY <1>8
<1>. HIDE DEF D
<1>. QED BY <1>6, <1>7, <1>9 DEF ProcessRight, g

\* The type of what the process has, and of nothing else.
ProcessTypes ==
  /\ mem \in [Words -> Nat]
  /\ ip \in DOMAIN Code /\ sp \in Words /\ bp \in Nat /\ lr \in Nat /\ callers \in Seq(Frames)
  /\ touched \in Words

\* What a push leaves alone.
LEMMA PushKeeps ==
  ASSUME LinuxUnwindTypeOK, NEW x \in Nat, Push(x)
  PROVE  /\ mem' \in [Words -> Nat] /\ sp' = sp - 1 /\ sp' \in Words /\ touched' \in Words /\ sp > 0
         /\ mem'[sp - 1] = x /\ \A a \in Words : a # sp - 1 => mem'[a] = mem[a]
         /\ stage # "idle" => touched <= touched' /\ sp - 1 <= touched'
<1>1. sp \in Nat /\ sp <= Top /\ sp > 0 /\ sp - 1 \in Words /\ touched \in Nat
  BY TopIsNat DEF LinuxUnwindTypeOK, Push, Words
<1>2. mem' = [mem EXCEPT ![sp - 1] = x] /\ sp' = sp - 1  BY DEF Push
<1>3. touched' \in Words /\ (stage # "idle" => touched <= touched' /\ sp - 1 <= touched')
  BY <1>1 DEF Push, LinuxUnwindTypeOK
<1>. QED BY <1>1, <1>2, <1>3 DEF LinuxUnwindTypeOK

\* The words between the stack pointer x of a function, which is d deep, and
\* that of its caller.
LEMMA Between ==
  ASSUME NEW x \in Nat, NEW d \in Nat, NEW y \in Nat, y <= Top, y = x + d
  PROVE  /\ d > 0 => y - 1 \in Words /\ x <= y - 1 /\ y = (x + 1) + (d - 1)
         /\ d > 1 => y - 2 \in Words /\ x <= y - 2
         /\ y = (x - 1) + (d + 1)
         /\ d = 0 => y = x /\ y - 1 = x - 1
         /\ d = 1 => y - 1 = x /\ y - 2 = x - 1 /\ y = x + 1
         /\ d = 2 => y - 2 = x
  BY TopIsNat DEF Words

\* The frame of a function that was just called.
LEMMA EntryShapes ==
  ASSUME NEW x \in Archs, NEW f \in Entries[x]
  PROVE  /\ x = "x86_64" => Shape[f].depth = 1 /\ Shape[f].ra = "saved" /\ Shape[f].bp = "kept"
         /\ x = "aarch64" => Shape[f].depth = 0 /\ Shape[f].ra = "link" /\ Shape[f].bp = "kept"
<1>1. Shape[f] = IF x = "x86_64" THEN [depth |-> 1, ra |-> "saved", bp |-> "kept"]
                                 ELSE [depth |-> 0, ra |-> "link", bp |-> "kept"]
  BY CodeAssumption
<1>. QED BY <1>1

\* A step of the process keeps its chain.
LEMMA ExecuteRight ==
  ASSUME LinuxUnwindTypeOK, ProcessRight, Execute
  PROVE  ProcessRight' /\ ProcessTypes'
<1>. DEFINE c == <<Frame(ip, sp)>> \o callers
            s == Shape[ip]
            g == callers[1]
<1>1. PICK B \in [DOMAIN c -> Nat] : Chained(c, mem, B) /\ B[1] = bp
  BY DEF ProcessRight
<1>2. /\ ip \in DOMAIN Code /\ ip \in Nat /\ sp \in Nat /\ sp <= Top /\ bp \in Nat /\ lr \in Nat
      /\ callers \in Seq(Frames) /\ mem \in [Words -> Nat] /\ touched \in Words
  BY TopIsNat, ShapeTypes DEF LinuxUnwindTypeOK, Words
<1>3. B \in [1..(Len(callers) + 1) -> Nat]
  <2>1. Frame(ip, sp) \in Frames  BY DEF LinuxUnwindTypeOK, Frame, Frames
  <2>. QED BY <1>2, <2>1, FrontFrame
<1>4. /\ s.depth \in Nat /\ sp + s.depth <= Top
      /\ s.bp \in {"kept", "saved", "framed", "outermost"}
      /\ s.ra \in {"saved", "link", "none"} /\ (s.ra = "none" <=> s.bp = "outermost")
      /\ s.ra = "saved" => s.depth > 0
      /\ s.bp \in {"saved", "framed"} => s.depth > 1
  BY <1>1, <1>2, ShapeTypes, Running
<1>5. callers = <<>> => s.bp = "outermost" /\ sp + s.depth = Top
  BY <1>1, Running
<1>6. callers # <<>> =>
        /\ s.bp # "outermost"
        /\ g \in Frames /\ g.sp \in Nat /\ g.sp <= Top /\ g.sp = sp + s.depth
        /\ s.ra = "saved" => mem[g.sp - 1] = g.ip
        /\ s.bp = "kept" => B[2] = bp
        /\ s.bp \in {"saved", "framed"} => B[2] = mem[g.sp - 2]
        /\ s.bp = "framed" => bp = g.sp - 2
  BY <1>1, Running, FrameTypes
<1>60. s.ra = "link" => callers # <<>> /\ g.ip = lr
  BY DEF ProcessRight
<1>7. \A a \in Words : a \in Nat /\ a <= Top  BY TopIsNat DEF Words
<1>8. \A k \in Nat : k <= Top => k \in Words  BY TopIsNat DEF Words
<1>61. callers # <<>> =>
         /\ s.depth > 0 => g.sp - 1 \in Words /\ sp <= g.sp - 1 /\ g.sp = (sp + 1) + (s.depth - 1)
         /\ s.depth > 1 => g.sp - 2 \in Words /\ sp <= g.sp - 2
         /\ g.sp = (sp - 1) + (s.depth + 1)
         /\ s.depth = 0 => g.sp = sp /\ g.sp - 1 = sp - 1
         /\ s.depth = 1 => g.sp - 1 = sp /\ g.sp - 2 = sp - 1 /\ g.sp = sp + 1
         /\ s.depth = 2 => g.sp - 2 = sp
  <2>1. sp \in Nat /\ s.depth \in Nat  BY <1>2, <1>4
  <2>2. callers # <<>> => g.sp \in Nat /\ g.sp <= Top /\ g.sp = sp + s.depth  BY <1>6
  <2>. DEFINE y == g.sp
              d == s.depth
  <2>3. sp \in Nat /\ d \in Nat /\ (callers # <<>> => y \in Nat /\ y <= Top /\ y = sp + d)
    BY <2>1, <2>2
  <2>. HIDE DEF y, d
  <2>4. ASSUME callers # <<>>
        PROVE
          /\ d > 0 => y - 1 \in Words /\ sp <= y - 1 /\ y = (sp + 1) + (d - 1)
          /\ d > 1 => y - 2 \in Words /\ sp <= y - 2
          /\ y = (sp - 1) + (d + 1)
          /\ d = 0 => y = sp /\ y - 1 = sp - 1
          /\ d = 1 => y - 1 = sp /\ y - 2 = sp - 1 /\ y = sp + 1
          /\ d = 2 => y - 2 = sp
    <3>1. y \in Nat /\ y <= Top /\ y = sp + d  BY <2>3, <2>4
    <3>. QED BY <2>3, <3>1, Between
  <2>. QED BY <2>4 DEF y, d
<1>62. (sp - 1) + (s.depth + 1) = sp + s.depth /\ (sp + 1) + (s.depth - 1) = sp + s.depth
  <2>1. \A x, d \in Nat : (x - 1) + (d + 1) = x + d /\ (x + 1) + (d - 1) = x + d  OBVIOUS
  <2>2. sp \in Nat /\ s.depth \in Nat  BY <1>2, <1>4
  <2>. HIDE DEF s
  <2>. QED BY <2>1, <2>2
<1>63. s.depth > 0 => sp + 1 \in Words
  <2>1. \A x, d \in Nat : x + d <= Top /\ d > 0 => x + 1 \in 0..Top  BY TopIsNat
  <2>2. sp \in Nat /\ s.depth \in Nat /\ sp + s.depth <= Top  BY <1>2, <1>4
  <2>. HIDE DEF s
  <2>. QED BY <2>1, <2>2 DEF Words
<1>. DEFINE T == ProcessRight' /\ ProcessTypes'
<1>9. ASSUME Code[ip] = "push bp" PROVE T
  <2>1. Push(bp) /\ ip' = ip + 1 /\ bp' = bp /\ lr' = lr /\ callers' = callers
    BY <1>9 DEF Execute, ToNext
  <2>2. Continues(ip, s.depth + 1, s.ra, IF s.bp = "kept" /\ s.depth = 1 THEN "saved" ELSE s.bp)
    BY <1>2, <1>9, CodeAssumption
  <2>3. /\ ip' \in DOMAIN Code /\ Shape[ip'].depth = s.depth + 1 /\ Shape[ip'].ra = s.ra
        /\ Shape[ip'].bp = IF s.bp = "kept" /\ s.depth = 1 THEN "saved" ELSE s.bp
    BY <2>1, <2>2 DEF Continues
  <2>4. /\ mem' \in [Words -> Nat] /\ sp' = sp - 1 /\ sp' \in Words /\ touched' \in Words /\ sp > 0
        /\ mem'[sp - 1] = bp /\ \A a \in Words : a # sp - 1 => mem'[a] = mem[a]
    BY <2>1, <1>2, PushKeeps
  <2>5. \A a \in Words : sp <= a => mem'[a] = mem[a]
    BY <2>4, <1>2, <1>7
  <2>6. callers = <<>> => Shape[ip'].bp = "outermost" /\ sp' + Shape[ip'].depth = Top
    BY <2>3, <2>4, <1>5, <1>62
  <2>60. Shape[ip'].ra = "link" => callers # <<>> /\ g.ip = lr'
    BY <2>1, <2>3, <1>60
  <2>7. ASSUME callers # <<>>
        PROVE  /\ Shape[ip'].bp # "outermost"
               /\ g.sp = sp' + Shape[ip'].depth
               /\ Shape[ip'].ra = "saved" => mem'[g.sp - 1] = g.ip
               /\ Shape[ip'].bp = "kept" => B[2] = bp'
               /\ Shape[ip'].bp \in {"saved", "framed"} => B[2] = mem'[g.sp - 2]
               /\ Shape[ip'].bp = "framed" => bp' = g.sp - 2
    <3>1. s.depth > 0 => g.sp - 1 \in Words /\ sp <= g.sp - 1
      BY <2>7, <1>61
    <3>2. s.depth > 1 => g.sp - 2 \in Words /\ sp <= g.sp - 2
      BY <2>7, <1>61
    <3>3. s.depth = 1 => g.sp - 2 = sp - 1
      BY <2>7, <1>61
    <3>4. g.sp = sp' + Shape[ip'].depth
      BY <2>3, <2>4, <2>7, <1>61
    <3>5. Shape[ip'].bp \in {"saved", "framed"} => B[2] = mem'[g.sp - 2]
      BY <2>3, <2>4, <2>5, <2>7, <3>2, <3>3, <1>4, <1>6
    <3>6. Shape[ip'].ra = "saved" => mem'[g.sp - 1] = g.ip
      BY <2>3, <2>5, <2>7, <3>1, <1>4, <1>6
    <3>. QED BY <2>1, <2>3, <2>7, <3>4, <3>5, <3>6, <1>6
  <2>8. ProcessRight'
    BY <1>1, <1>2, <1>3, <2>1, <2>3, <2>4, <2>5, <2>6, <2>60, <2>7, MovesOn
  <2>. QED BY <2>1, <2>3, <2>4, <2>8, <1>2 DEF ProcessTypes
<1>10. ASSUME Code[ip] = "mov bp, sp" PROVE T
  <2>1. NoWrite /\ bp' = sp /\ ip' = ip + 1 /\ sp' = sp /\ lr' = lr /\ callers' = callers
    BY <1>10 DEF Execute, ToNext
  <2>2. s.bp # "kept" /\ Continues(ip, s.depth, s.ra, IF s.bp = "outermost" THEN s.bp ELSE IF s.depth = 2 THEN "framed" ELSE "saved")
    BY <1>2, <1>10, CodeAssumption
  <2>3. /\ ip' \in DOMAIN Code /\ Shape[ip'].depth = s.depth /\ Shape[ip'].ra = s.ra
        /\ Shape[ip'].bp = IF s.bp = "outermost" THEN s.bp ELSE IF s.depth = 2 THEN "framed" ELSE "saved"
    BY <2>1, <2>2 DEF Continues
  <2>4. mem' = mem /\ touched' = touched /\ sp' \in Words  BY <2>1, <1>2, <1>8 DEF NoWrite
  <2>6. callers = <<>> => Shape[ip'].bp = "outermost" /\ sp' + Shape[ip'].depth = Top
    BY <2>1, <2>3, <1>5
  <2>60. Shape[ip'].ra = "link" => callers # <<>> /\ g.ip = lr'
    BY <2>1, <2>3, <1>60
  <2>7. ASSUME callers # <<>>
        PROVE  /\ Shape[ip'].bp # "outermost"
               /\ g.sp = sp' + Shape[ip'].depth
               /\ Shape[ip'].ra = "saved" => mem'[g.sp - 1] = g.ip
               /\ Shape[ip'].bp = "kept" => B[2] = bp'
               /\ Shape[ip'].bp \in {"saved", "framed"} => B[2] = mem'[g.sp - 2]
               /\ Shape[ip'].bp = "framed" => bp' = g.sp - 2
    <3>1. s.bp \in {"saved", "framed"}  BY <2>2, <2>7, <1>4, <1>6
    <3>2. s.depth = 2 => sp = g.sp - 2  BY <2>7, <1>61
    <3>. QED BY <2>1, <2>3, <2>4, <2>7, <3>1, <3>2, <1>6
  <2>8. ProcessRight'
    BY <1>1, <1>2, <1>3, <2>1, <2>3, <2>4, <2>6, <2>60, <2>7, MovesOn
  <2>. QED BY <2>1, <2>3, <2>4, <2>8, <1>2 DEF ProcessTypes
<1>11. ASSUME Code[ip] = "pop bp" PROVE T
  <2>1. NoWrite /\ bp' = mem[sp] /\ sp' = sp + 1 /\ ip' = ip + 1 /\ lr' = lr /\ callers' = callers
    BY <1>11 DEF Execute, ToNext
  <2>2. s.bp # "kept" /\ s.depth > 0 /\ Continues(ip, s.depth - 1, s.ra, IF s.bp = "outermost" THEN s.bp ELSE IF s.depth = 2 THEN "kept" ELSE "saved")
    BY <1>2, <1>11, CodeAssumption
  <2>3. /\ ip' \in DOMAIN Code /\ Shape[ip'].depth = s.depth - 1 /\ Shape[ip'].ra = s.ra
        /\ Shape[ip'].bp = IF s.bp = "outermost" THEN s.bp ELSE IF s.depth = 2 THEN "kept" ELSE "saved"
    BY <2>1, <2>2 DEF Continues
  <2>4. sp + 1 \in Words /\ sp \in Words /\ mem[sp] \in Nat
    BY <2>2, <1>2, <1>8, <1>63
  <2>5. mem' = mem /\ touched' = touched /\ sp' \in Words /\ bp' \in Nat  BY <2>1, <2>4 DEF NoWrite
  <2>6. callers = <<>> => Shape[ip'].bp = "outermost" /\ sp' + Shape[ip'].depth = Top
    BY <2>1, <2>3, <1>5, <1>62
  <2>60. Shape[ip'].ra = "link" => callers # <<>> /\ g.ip = lr'
    BY <2>1, <2>3, <1>60
  <2>7. ASSUME callers # <<>>
        PROVE  /\ Shape[ip'].bp # "outermost"
               /\ g.sp = sp' + Shape[ip'].depth
               /\ Shape[ip'].ra = "saved" => mem'[g.sp - 1] = g.ip
               /\ Shape[ip'].bp = "kept" => B[2] = bp'
               /\ Shape[ip'].bp \in {"saved", "framed"} => B[2] = mem'[g.sp - 2]
               /\ Shape[ip'].bp = "framed" => bp' = g.sp - 2
    <3>1. s.bp \in {"saved", "framed"}  BY <2>2, <2>7, <1>4, <1>6
    <3>2. s.depth = 2 => sp = g.sp - 2  BY <2>7, <1>61
    <3>3. g.sp = sp' + Shape[ip'].depth  BY <2>1, <2>2, <2>3, <2>7, <1>61
    <3>. QED BY <2>1, <2>3, <2>5, <2>7, <3>1, <3>2, <3>3, <1>6
  <2>8. ProcessRight'
    BY <1>1, <1>2, <1>3, <2>1, <2>3, <2>5, <2>6, <2>60, <2>7, MovesOn
  <2>. QED BY <2>1, <2>3, <2>5, <2>8, <1>2 DEF ProcessTypes
<1>12. ASSUME Code[ip] = "sub sp" PROVE T
  <2>1. NoWrite /\ sp > 0 /\ sp' = sp - 1 /\ ip' = ip + 1 /\ bp' = bp /\ lr' = lr /\ callers' = callers
    BY <1>12 DEF Execute, ToNext
  <2>2. Continues(ip, s.depth + 1, s.ra, s.bp)
    BY <1>2, <1>12, CodeAssumption
  <2>3. /\ ip' \in DOMAIN Code /\ Shape[ip'].depth = s.depth + 1 /\ Shape[ip'].ra = s.ra
        /\ Shape[ip'].bp = s.bp
    BY <2>1, <2>2 DEF Continues
  <2>4. sp - 1 \in Words
    BY <2>1, <1>2, <1>8, TopIsNat
  <2>5. mem' = mem /\ touched' = touched /\ sp' \in Words  BY <2>1, <2>4 DEF NoWrite
  <2>6. callers = <<>> => Shape[ip'].bp = "outermost" /\ sp' + Shape[ip'].depth = Top
    BY <2>1, <2>3, <1>5, <1>62
  <2>60. Shape[ip'].ra = "link" => callers # <<>> /\ g.ip = lr'
    BY <2>1, <2>3, <1>60
  <2>7. callers # <<>> => g.sp = sp' + Shape[ip'].depth
    BY <2>1, <2>2, <2>3, <1>61
  <2>8. ProcessRight'
    BY <1>1, <1>2, <1>3, <1>6, <2>1, <2>3, <2>5, <2>6, <2>60, <2>7, MovesOn
  <2>. QED BY <2>1, <2>3, <2>5, <2>8, <1>2 DEF ProcessTypes
<1>13. ASSUME Code[ip] = "add sp" PROVE T
  <2>1. NoWrite /\ sp' = sp + 1 /\ ip' = ip + 1 /\ bp' = bp /\ lr' = lr /\ callers' = callers
    BY <1>13 DEF Execute, ToNext
  <2>2. s.depth > 0 /\ Continues(ip, s.depth - 1, s.ra, s.bp)
    BY <1>2, <1>13, CodeAssumption
  <2>3. /\ ip' \in DOMAIN Code /\ Shape[ip'].depth = s.depth - 1 /\ Shape[ip'].ra = s.ra
        /\ Shape[ip'].bp = s.bp
    BY <2>1, <2>2 DEF Continues
  <2>4. sp + 1 \in Words
    BY <2>2, <1>63
  <2>5. mem' = mem /\ touched' = touched /\ sp' \in Words  BY <2>1, <2>4 DEF NoWrite
  <2>6. callers = <<>> => Shape[ip'].bp = "outermost" /\ sp' + Shape[ip'].depth = Top
    BY <2>1, <2>3, <1>5, <1>62
  <2>60. Shape[ip'].ra = "link" => callers # <<>> /\ g.ip = lr'
    BY <2>1, <2>3, <1>60
  <2>7. callers # <<>> => g.sp = sp' + Shape[ip'].depth
    BY <2>1, <2>2, <2>3, <1>61
  <2>8. ProcessRight'
    BY <1>1, <1>2, <1>3, <1>6, <2>1, <2>3, <2>5, <2>6, <2>60, <2>7, MovesOn
  <2>. QED BY <2>1, <2>3, <2>5, <2>8, <1>2 DEF ProcessTypes
<1>131. ASSUME Code[ip] = "push lr" PROVE T
  <2>1. Push(lr) /\ ip' = ip + 1 /\ bp' = bp /\ lr' = lr /\ callers' = callers
    BY <1>131 DEF Execute, ToNext
  <2>2. s.depth = 0 /\ s.ra = "link" /\ Continues(ip, 1, "saved", s.bp)
    BY <1>2, <1>131, CodeAssumption
  <2>3. /\ ip' \in DOMAIN Code /\ Shape[ip'].depth = 1 /\ Shape[ip'].ra = "saved"
        /\ Shape[ip'].bp = s.bp
    BY <2>1, <2>2 DEF Continues
  <2>4. /\ mem' \in [Words -> Nat] /\ sp' = sp - 1 /\ sp' \in Words /\ touched' \in Words /\ sp > 0
        /\ mem'[sp - 1] = lr /\ \A a \in Words : a # sp - 1 => mem'[a] = mem[a]
    BY <2>1, <1>2, PushKeeps
  <2>5. \A a \in Words : sp <= a => mem'[a] = mem[a]
    BY <2>4, <1>2, <1>7
  <2>6. callers # <<>> /\ g.ip = lr  BY <2>2, <1>60
  <2>7. /\ Shape[ip'].bp # "outermost" /\ Shape[ip'].bp \notin {"saved", "framed"}
        /\ Shape[ip'].bp = "kept" => B[2] = bp'
    BY <2>1, <2>2, <2>3, <2>6, <1>4, <1>6
  <2>71. g.sp = sp /\ g.sp - 1 = sp - 1
    BY <2>2, <2>6, <1>61
  <2>72. g.sp = sp' + Shape[ip'].depth
    BY <2>3, <2>4, <2>71, <1>2
  <2>73. mem'[g.sp - 1] = g.ip
    BY <2>4, <2>6, <2>71
  <2>8. ProcessRight'
    BY <1>1, <1>2, <1>3, <2>1, <2>3, <2>4, <2>5, <2>6, <2>7, <2>72, <2>73, MovesOn
  <2>. QED BY <2>1, <2>3, <2>4, <2>8, <1>2 DEF ProcessTypes
<1>132. ASSUME Code[ip] = "pop lr" PROVE T
  <2>1. NoWrite /\ lr' = mem[sp] /\ sp' = sp + 1 /\ ip' = ip + 1 /\ bp' = bp /\ callers' = callers
    BY <1>132 DEF Execute, ToNext
  <2>2. s.depth = 1 /\ s.ra = "saved" /\ Continues(ip, 0, "link", s.bp)
    BY <1>2, <1>132, CodeAssumption
  <2>3. /\ ip' \in DOMAIN Code /\ Shape[ip'].depth = 0 /\ Shape[ip'].ra = "link"
        /\ Shape[ip'].bp = s.bp
    BY <2>1, <2>2 DEF Continues
  <2>4. sp + 1 \in Words /\ sp \in Words /\ mem[sp] \in Nat
    BY <2>2, <1>2, <1>8, <1>63
  <2>5. mem' = mem /\ touched' = touched /\ sp' \in Words /\ lr' \in Nat  BY <2>1, <2>4 DEF NoWrite
  <2>6. callers # <<>>  BY <2>2, <1>4, <1>5
  <2>7. /\ Shape[ip'].bp # "outermost" /\ Shape[ip'].bp \notin {"saved", "framed"}
        /\ Shape[ip'].bp = "kept" => B[2] = bp'
    BY <2>1, <2>2, <2>3, <2>6, <1>4, <1>6
  <2>71. g.sp = sp + 1 /\ g.sp - 1 = sp /\ g.ip = lr'
    BY <2>1, <2>2, <2>6, <1>6, <1>61
  <2>72. g.sp = sp' + Shape[ip'].depth
    BY <2>1, <2>3, <2>71, <1>2
  <2>8. ProcessRight'
    BY <1>1, <1>2, <1>3, <2>1, <2>3, <2>5, <2>6, <2>7, <2>71, <2>72, MovesOn
  <2>. QED BY <2>1, <2>3, <2>5, <2>8, <1>2 DEF ProcessTypes
<1>14. ASSUME Code[ip] = "ret" PROVE T
  <2>1. NoWrite /\ ip' = mem[sp] /\ sp' = sp + 1 /\ callers' = Tail(callers) /\ bp' = bp /\ lr' = lr
    BY <1>14 DEF Execute, Returns
  <2>2. s.depth = 1 /\ s.ra = "saved" /\ s.bp = "kept"
    BY <1>2, <1>14, CodeAssumption
  <2>3. callers # <<>>  BY <2>2, <1>5
  <2>4. mem' = mem /\ touched' = touched  BY <2>1 DEF NoWrite
  <2>5. g \in Frames /\ g.sp = sp + 1 /\ g.sp - 1 = sp /\ mem[sp] = g.ip
    BY <2>2, <2>3, <1>2, <1>6, <1>61
  <2>6. g = Frame(ip', sp') /\ ip' \in DOMAIN Code /\ sp' \in Words
    BY <2>1, <2>5 DEF Frames, Frame
  <2>7. Tail(callers) \in Seq(Frames) /\ callers = <<g>> \o Tail(callers)
    BY <2>3, <1>2
  <2>. DEFINE D == [k \in DOMAIN callers |-> B[k + 1]]
  <2>8. /\ D \in [DOMAIN callers -> Nat] /\ D[1] = B[2] /\ Chained(callers, mem, D)
        /\ Shape[g.ip].ra # "link"
    <3>1. Frame(ip, sp) \in Frames  BY DEF LinuxUnwindTypeOK, Frame, Frames
    <3>2. Chained(<<Frame(ip, sp)>> \o callers, mem, B)  BY <1>1
    <3>3. callers \in Seq(Frames)  BY <1>2
    <3>. QED BY ONLY <3>1, <3>2, <3>3, <1>3, <2>3, HeadReturns
  <2>9. D[1] = bp'  BY <2>1, <2>2, <2>3, <2>8, <1>6
  <2>. HIDE DEF D
  <2>10. callers = <<Frame(ip', sp')>> \o callers'  BY <2>1, <2>6, <2>7
  <2>101. Shape[ip'].ra # "link"  BY <2>6, <2>8 DEF Frame
  <2>11. ProcessRight'
    BY <2>4, <2>8, <2>9, <2>10, <2>101 DEF ProcessRight
  <2>. QED BY <2>1, <2>4, <2>6, <2>7, <2>11, <1>2 DEF ProcessTypes
<1>141. ASSUME Code[ip] = "ret lr" PROVE T
  <2>1. NoWrite /\ ip' = lr /\ sp' = sp /\ callers' = Tail(callers) /\ bp' = bp /\ lr' = lr
    BY <1>141 DEF Execute, Returns
  <2>2. s.depth = 0 /\ s.ra = "link" /\ s.bp = "kept"
    BY <1>2, <1>141, CodeAssumption
  <2>3. callers # <<>>  BY <2>2, <1>5
  <2>4. mem' = mem /\ touched' = touched  BY <2>1 DEF NoWrite
  <2>5. g \in Frames /\ g.sp = sp /\ lr = g.ip
    BY <2>2, <2>3, <1>2, <1>6, <1>60, <1>61
  <2>6. g = Frame(ip', sp') /\ ip' \in DOMAIN Code /\ sp' \in Words
    BY <2>1, <2>5 DEF Frames, Frame
  <2>7. Tail(callers) \in Seq(Frames) /\ callers = <<g>> \o Tail(callers)
    BY <2>3, <1>2
  <2>. DEFINE D == [k \in DOMAIN callers |-> B[k + 1]]
  <2>8. /\ D \in [DOMAIN callers -> Nat] /\ D[1] = B[2] /\ Chained(callers, mem, D)
        /\ Shape[g.ip].ra # "link"
    <3>1. Frame(ip, sp) \in Frames  BY DEF LinuxUnwindTypeOK, Frame, Frames
    <3>2. Chained(<<Frame(ip, sp)>> \o callers, mem, B)  BY <1>1
    <3>3. callers \in Seq(Frames)  BY <1>2
    <3>. QED BY ONLY <3>1, <3>2, <3>3, <1>3, <2>3, HeadReturns
  <2>9. D[1] = bp'  BY <2>1, <2>2, <2>3, <2>8, <1>6
  <2>. HIDE DEF D
  <2>10. callers = <<Frame(ip', sp')>> \o callers'  BY <2>1, <2>6, <2>7
  <2>101. Shape[ip'].ra # "link"  BY <2>6, <2>8 DEF Frame
  <2>11. ProcessRight'
    BY <2>4, <2>8, <2>9, <2>10, <2>101 DEF ProcessRight
  <2>. QED BY <2>1, <2>4, <2>6, <2>7, <2>11, <1>2 DEF ProcessTypes
<1>15. ASSUME Code[ip] = "call" PROVE T
  <2>1. s.ra # "link" /\ Continues(ip, s.depth, s.ra, s.bp)
    BY <1>2, <1>15, CodeAssumption
  <2>2. /\ ip + 1 \in DOMAIN Code /\ Shape[ip + 1].depth = s.depth /\ Shape[ip + 1].ra = s.ra
        /\ Shape[ip + 1].bp = s.bp /\ ip + 1 \in Nat
    BY <2>1, <1>2 DEF Continues
  <2>3. CASE NoWrite /\ ToNext /\ UNCHANGED <<sp, bp, lr>>
    <3>1. /\ mem' = mem /\ touched' = touched /\ sp' = sp /\ bp' = bp /\ callers' = callers /\ sp' \in Words
          /\ ip' = ip + 1 /\ lr' = lr
      BY <2>3, <1>2, <1>8 DEF NoWrite, ToNext
    <3>2. ProcessRight'
      BY <1>1, <1>2, <1>3, <1>5, <1>6, <2>1, <2>2, <3>1, MovesOn
    <3>. QED BY <2>2, <3>1, <3>2, <1>2 DEF ProcessTypes
  <2>30. ASSUME Calls PROVE ip' \in Entries[arch] /\ callers' = <<Frame(ip + 1, sp)>> \o callers
    BY <2>30 DEF Calls
  <2>4. ASSUME NEW f \in Entries[arch], arch = "x86_64", Push(ip + 1), ip' = f,
               callers' = <<Frame(ip + 1, sp)>> \o callers, bp' = bp, lr' = lr
        PROVE  T
    <3>1. /\ mem' \in [Words -> Nat] /\ sp' = sp - 1 /\ sp' \in Words /\ touched' \in Words /\ sp > 0
          /\ mem'[sp - 1] = ip + 1 /\ \A a \in Words : a # sp - 1 => mem'[a] = mem[a]
      BY <2>2, <2>4, PushKeeps
    <3>2. \A a \in Words : sp <= a => mem'[a] = mem[a]
      BY <3>1, <1>2, <1>7
    <3>. DEFINE h == Frame(ip + 1, sp)
                k == Frame(f, sp')
                D == [B EXCEPT ![1] = bp]
    <3>3. /\ h \in Frames /\ h.sp = sp /\ h.ip = ip + 1 /\ Frame(ip, sp) \in Frames
          /\ f \in DOMAIN Code /\ k \in Frames /\ k.sp = sp' /\ k.ip = f
      <4>1. arch \in Archs  BY DEF LinuxUnwindTypeOK
      <4>. QED BY <4>1, <2>2, <3>1, <1>2, <1>8, UnwindAssumption DEF Frame, Frames
    <3>4. Shape[f].depth = 1 /\ Shape[f].ra = "saved" /\ Shape[f].bp = "kept"
      BY <2>4, EntryShapes DEF LinuxUnwindTypeOK
    <3>41. Shape[ip'].ra # "link"  BY <2>4, <3>4
    <3>. HIDE DEF h, k
    <3>5. Chained(<<h>> \o callers, mem, D)
      <4>1. callers = <<>> => Shape[h.ip].bp = "outermost" /\ h.sp + Shape[h.ip].depth = Top
        BY <2>2, <3>3, <1>5
      <4>2. callers # <<>> => Shape[h.ip].bp # "outermost" /\ Called(h, g, mem, bp, B[2])
        BY <2>2, <3>3, <1>6 DEF Called
      <4>. QED BY <4>1, <4>2, <3>3, <1>1, <1>2, <1>3, HeadMoves
    <3>6. /\ <<h>> \o callers \in Seq(Frames) /\ (<<h>> \o callers)[1] = h
          /\ DOMAIN (<<h>> \o callers) = 1..(Len(callers) + 1)
      BY <3>3, <1>2, FrontFrame
    <3>7. D \in [DOMAIN (<<h>> \o callers) -> Nat] /\ D[1] = bp
      BY <3>6, <1>2, <1>3
    <3>. HIDE DEF D
    <3>8. Chained(<<h>> \o callers, mem', D)
      BY <3>2, <3>3, <3>5, <3>6, MemoryBelow
    <3>9. Called(k, h, mem', bp, bp)
      BY <2>4, <3>1, <3>3, <3>4, <1>2 DEF Called
    <3>. DEFINE q == <<h>> \o callers
                E == WithFront(bp, D, Len(q))
    <3>10. E \in [DOMAIN (<<k>> \o q) -> Nat] /\ E[1] = bp /\ Chained(<<k>> \o q, mem', E)
      <4>1. q \in Seq(Frames) /\ q[1] = h /\ D \in [DOMAIN q -> Nat] /\ Chained(q, mem', D)
        BY <3>6, <3>7, <3>8
      <4>2. Shape[k.ip].bp # "outermost" /\ Called(k, q[1], mem', bp, D[1]) /\ Shape[q[1].ip].ra # "link"
        BY <4>1, <3>3, <3>4, <3>7, <3>9, <2>1, <2>2
      <4>. HIDE DEF q
      <4>. QED BY <4>1, <4>2, <3>3, <1>2, HeadCalled
    <3>11. callers' = q /\ k = Frame(ip', sp')
      BY <2>4 DEF h, k
    <3>110. callers' # <<>> /\ callers'[1] = h
      BY <3>6, <3>11, <3>3, <1>2, FrontFrame DEF q
    <3>. HIDE DEF E, q
    <3>111. Shape[ip'].ra = "link" => callers' # <<>> /\ callers'[1].ip = lr'
      BY <3>110, <3>3, <3>4, <3>41, <2>4
    <3>12. ProcessRight'
      BY <3>10, <3>11, <3>111, <2>4 DEF ProcessRight
    <3>13. callers' \in Seq(Frames)
      BY <3>6, <3>11 DEF q
    <3>. QED BY <2>4, <3>1, <3>3, <3>12, <3>13, <1>2, <2>2 DEF ProcessTypes
  <2>5. ASSUME NEW f \in Entries[arch], arch = "aarch64", NoWrite, ip' = f,
               callers' = <<Frame(ip + 1, sp)>> \o callers, bp' = bp, lr' = ip + 1, sp' = sp
        PROVE  T
    <3>1. mem' = mem /\ touched' = touched /\ mem' \in [Words -> Nat] /\ sp' \in Words
      BY <2>5, <1>2, <1>8 DEF NoWrite
    <3>2. \A a \in Words : sp <= a => mem'[a] = mem[a]
      BY <3>1
    <3>. DEFINE h == Frame(ip + 1, sp)
                k == Frame(f, sp')
                D == [B EXCEPT ![1] = bp]
    <3>3. /\ h \in Frames /\ h.sp = sp /\ h.ip = ip + 1 /\ Frame(ip, sp) \in Frames
          /\ f \in DOMAIN Code /\ k \in Frames /\ k.sp = sp' /\ k.ip = f
      <4>1. arch \in Archs  BY DEF LinuxUnwindTypeOK
      <4>. QED BY <4>1, <2>2, <3>1, <1>2, <1>8, UnwindAssumption DEF Frame, Frames
    <3>4. Shape[f].depth = 0 /\ Shape[f].ra = "link" /\ Shape[f].bp = "kept"
      BY <2>5, EntryShapes DEF LinuxUnwindTypeOK
    <3>41. lr' = ip + 1  BY <2>5
    <3>. HIDE DEF h, k
    <3>5. Chained(<<h>> \o callers, mem, D)
      <4>1. callers = <<>> => Shape[h.ip].bp = "outermost" /\ h.sp + Shape[h.ip].depth = Top
        BY <2>2, <3>3, <1>5
      <4>2. callers # <<>> => Shape[h.ip].bp # "outermost" /\ Called(h, g, mem, bp, B[2])
        BY <2>2, <3>3, <1>6 DEF Called
      <4>. QED BY <4>1, <4>2, <3>3, <1>1, <1>2, <1>3, HeadMoves
    <3>6. /\ <<h>> \o callers \in Seq(Frames) /\ (<<h>> \o callers)[1] = h
          /\ DOMAIN (<<h>> \o callers) = 1..(Len(callers) + 1)
      BY <3>3, <1>2, FrontFrame
    <3>7. D \in [DOMAIN (<<h>> \o callers) -> Nat] /\ D[1] = bp
      BY <3>6, <1>2, <1>3
    <3>. HIDE DEF D
    <3>8. Chained(<<h>> \o callers, mem', D)
      BY <3>2, <3>3, <3>5, <3>6, MemoryBelow
    <3>9. Called(k, h, mem', bp, bp)
      BY <2>5, <3>1, <3>3, <3>4, <1>2 DEF Called
    <3>. DEFINE q == <<h>> \o callers
                E == WithFront(bp, D, Len(q))
    <3>10. E \in [DOMAIN (<<k>> \o q) -> Nat] /\ E[1] = bp /\ Chained(<<k>> \o q, mem', E)
      <4>1. q \in Seq(Frames) /\ q[1] = h /\ D \in [DOMAIN q -> Nat] /\ Chained(q, mem', D)
        BY <3>6, <3>7, <3>8
      <4>2. Shape[k.ip].bp # "outermost" /\ Called(k, q[1], mem', bp, D[1]) /\ Shape[q[1].ip].ra # "link"
        BY <4>1, <3>3, <3>4, <3>7, <3>9, <2>1, <2>2
      <4>. HIDE DEF q
      <4>. QED BY <4>1, <4>2, <3>3, <1>2, HeadCalled
    <3>11. callers' = q /\ k = Frame(ip', sp')
      BY <2>5 DEF h, k
    <3>110. callers' # <<>> /\ callers'[1] = h
      BY <3>6, <3>11, <3>3, <1>2, FrontFrame DEF q
    <3>. HIDE DEF E, q
    <3>111. Shape[ip'].ra = "link" => callers' # <<>> /\ callers'[1].ip = lr'
      BY <3>110, <3>3, <3>4, <3>41, <2>5
    <3>12. ProcessRight'
      BY <3>10, <3>11, <3>111, <2>5 DEF ProcessRight
    <3>13. callers' \in Seq(Frames)
      BY <3>6, <3>11 DEF q
    <3>. QED BY <2>5, <3>1, <3>3, <3>12, <3>13, <1>2, <2>2 DEF ProcessTypes
  <2>. QED BY <1>15, <2>3, <2>30, <2>4, <2>5 DEF Execute
<1>16. Code[ip] # "halt"  BY DEF Execute
<1>17. Code[ip] \in Instructions
  BY <1>2, CodeAssumption
<1>. QED BY <1>9, <1>10, <1>11, <1>12, <1>13, <1>131, <1>132, <1>14, <1>141, <1>15, <1>16, <1>17 DEF Instructions

-----------------------------------------------------------------------------
(* The unwinder *)

\* What the process writes while it is unwound is below what it touched.
LEMMA ExecuteWrites ==
  ASSUME LinuxUnwindTypeOK, Execute, stage # "idle"
  PROVE  touched <= touched' /\ \A a \in Words : mem'[a] = mem[a] \/ a <= touched'
<1>1. ip \in Nat /\ ip + 1 \in Nat /\ bp \in Nat /\ lr \in Nat /\ touched \in Nat
  BY ShapeTypes, TopIsNat DEF LinuxUnwindTypeOK, Words
<1>2. Code[ip] \in Instructions
  BY CodeAssumption DEF LinuxUnwindTypeOK
<1>3. Push(bp) \/ Push(lr) \/ Push(ip + 1) \/ NoWrite
  BY <1>2 DEF Execute, Instructions
<1>4. CASE NoWrite  BY <1>1, <1>4 DEF NoWrite
<1>5. ASSUME NEW x \in Nat, Push(x)
      PROVE  touched <= touched' /\ \A a \in Words : mem'[a] = mem[a] \/ a <= touched'
  <2>1. /\ touched <= touched' /\ sp - 1 <= touched'
        /\ \A a \in Words : a # sp - 1 => mem'[a] = mem[a]
    BY <1>5, PushKeeps
  <2>. QED BY <2>1
<1>. QED BY <1>1, <1>3, <1>4, <1>5

LEMMA ExecuteTypes ==
  ASSUME LinuxUnwindTypeOK, ProcessRight, Execute
  PROVE  LinuxUnwindTypeOK'
<1>1. ProcessTypes'  BY ExecuteRight
<1>2. nrun' \in 0..MaxRun
  <2>1. (stage # "idle" => nrun < MaxRun) /\ nrun' = IF stage = "idle" THEN nrun ELSE nrun + 1
    BY DEF Execute
  <2>2. MaxRun \in Nat /\ nrun \in 0..MaxRun  BY UnwindAssumption DEF LinuxUnwindTypeOK
  <2>. QED BY <2>1, <2>2
<1>3. UNCHANGED <<unwindVars, chain, low, arch>>  BY DEF Execute
<1>. QED BY <1>1, <1>2, <1>3 DEF LinuxUnwindTypeOK, ProcessTypes, unwindVars

LEMMA ExecuteInv ==
  ASSUME UnwindInv, Execute
  PROVE  UnwindInv'
<1>1. LinuxUnwindTypeOK' /\ ProcessRight'
  BY ExecuteTypes, ExecuteRight DEF UnwindInv
<1>2. UNCHANGED <<stage, frame, base, oldBase, cfa, frames, result, chain, low>>
  BY DEF Execute, unwindVars
<1>3. ASSUME stage # "idle", Untouched'
      PROVE  /\ chain # <<>> /\ chain[1].sp = low
             /\ \E B \in [DOMAIN chain -> Nat] : Chained(chain, mem', B) /\ (~Repeated => UnwinderRight(B))
  <2>1. LinuxUnwindTypeOK  BY DEF UnwindInv
  <2>2. touched <= touched' /\ \A a \in Words : mem'[a] = mem[a] \/ a <= touched'
    BY <2>1, <1>3, ExecuteWrites
  <2>3. touched \in Nat /\ touched' \in Nat /\ low \in Nat /\ chain \in Seq(Frames)
    BY <2>1, <1>1, TopIsNat DEF LinuxUnwindTypeOK, Words
  <2>4. touched' < low  BY <1>2, <1>3 DEF Untouched
  <2>5. Untouched  BY <2>2, <2>3, <2>4 DEF Untouched
  <2>6. chain # <<>> /\ chain[1].sp = low  BY <2>5, <1>3 DEF UnwindInv
  <2>7. PICK B \in [DOMAIN chain -> Nat] : Chained(chain, mem, B) /\ (~Repeated => UnwinderRight(B))
    BY <2>5, <1>3 DEF UnwindInv
  <2>8. \A a \in Words : a \in Nat  BY TopIsNat DEF Words
  <2>9. \A a \in Words : chain[1].sp <= a => mem'[a] = mem[a]
    BY <2>2, <2>3, <2>4, <2>6, <2>8
  <2>10. Chained(chain, mem', B)  BY <2>3, <2>7, <2>9, MemoryBelow
  <2>. QED BY <2>6, <2>7, <2>10
<1>4. stage' = "idle" => frames' = <<>>  BY <1>2 DEF UnwindInv
<1>5. (\A B : UnwinderRight(B)' <=> UnwinderRight(B)) /\ (Repeated' <=> Repeated)
  BY <1>2 DEF UnwinderRight, Repeated
<1>. QED BY <1>1, <1>2, <1>3, <1>4, <1>5 DEF UnwindInv

LEMMA StartUnwindInv ==
  ASSUME UnwindInv, StartUnwind
  PROVE  UnwindInv'
<1>. DEFINE c == <<Frame(ip, sp)>> \o callers
<1>1. LinuxUnwindTypeOK /\ ProcessRight /\ stage = "idle" /\ frames = <<>> /\ result = "none"
  BY DEF UnwindInv, LinuxUnwindTypeOK, StartUnwind
<1>2. /\ chain' = c /\ low' = sp /\ stage' = "locate" /\ frame' = Frame(ip, sp) /\ base' = bp
      /\ UNCHANGED <<procVars, oldBase, cfa, known, frames, result, nUnwindFaults, touched>>
  BY DEF StartUnwind
<1>3. Frame(ip, sp) \in Frames /\ Frame(ip, sp) \in [ip : Int, sp : Int] /\ callers \in Seq(Frames)
  BY <1>1, ShapeTypes, TopIsNat DEF LinuxUnwindTypeOK, Frames, Frame, Words
<1>4. c \in Seq(Frames) /\ c # <<>> /\ c[1] = Frame(ip, sp) /\ Len(c) = Len(callers) + 1
  BY <1>3, FrontFrame
<1>5. LinuxUnwindTypeOK'
  BY <1>1, <1>2, <1>3, <1>4 DEF LinuxUnwindTypeOK, procVars
<1>6. ProcessRight'
  BY <1>1, <1>2 DEF ProcessRight, procVars
<1>7. PICK B \in [DOMAIN c -> Nat] : Chained(c, mem, B) /\ B[1] = bp
  BY <1>1 DEF ProcessRight
<1>. HIDE DEF c
<1>8. frames' = <<>> /\ Len(frames') = 0 /\ result' = "none"  BY <1>1, <1>2
<1>9. UnwinderRight(B)'
  <2>1. Len(c) \in Nat /\ Len(c) # 0  BY <1>4
  <2>. QED BY <2>1, <1>2, <1>4, <1>7, <1>8 DEF UnwinderRight
<1>10. chain'[1].sp = low'  BY <1>2, <1>4 DEF Frame
<1>11. Chained(chain, mem, B)'  BY <1>2, <1>7 DEF procVars
<1>. QED BY <1>2, <1>4, <1>5, <1>6, <1>7, <1>9, <1>10, <1>11 DEF UnwindInv

\* What the rules of an address are.
LEMMA RuleTypes ==
  \A a \in DOMAIN Rules :
    /\ a \in DOMAIN Code
    /\ Rules[a].cfa \in {"sp", "bp", "other", "expression", "unreadable"} /\ Rules[a].off \in Int
    /\ Rules[a].bp \in RegisterRules /\ Rules[a].ip \in RegisterRules
<1>. SUFFICES ASSUME NEW a \in DOMAIN Rules
              PROVE  RuleTypes!(a)
  OBVIOUS
<1>1. Rules[a] \in [cfa : {"sp", "bp", "other", "expression", "unreadable"}, off : Int,
                   bp : RegisterRules, ip : RegisterRules]
  BY RulesAssumption
<1>. QED BY <1>1, UnwindAssumption

\* What they say of a frame that has a caller, and of one that has none.
LEMMA RulesDescribe ==
  ASSUME NEW a \in DOMAIN Rules
  PROVE  /\ Shape[a].ra = "none" => Rules[a].ip.how \in {"undefined", "other", "none"}
         /\ Shape[a].ra # "none" =>
              /\ Rules[a].cfa = "sp" => Rules[a].off = Shape[a].depth
              /\ Rules[a].cfa = "bp" => Rules[a].off = 2 /\ Shape[a].bp = "framed"
              /\ Rules[a].bp.how \in {"undefined", "same", "offset", "bp", "other", "none"}
              /\ Rules[a].bp.how \in {"same", "bp"} => Shape[a].bp = "kept"
              /\ Rules[a].bp.how = "offset" => Rules[a].bp.off = -2 /\ Shape[a].bp \in {"saved", "framed"}
              /\ Rules[a].ip.how \in {"undefined", "same", "offset", "other", "none"}
              /\ Rules[a].ip.how = "offset" => Rules[a].ip.off = -1 /\ Shape[a].ra = "saved"
              /\ Rules[a].ip.how \in {"undefined", "same"} => Shape[a].ra = "link"
  BY RulesAssumption

\* What a rule gives is a number, when it gives anything.
LEMMA ValueTypes ==
  ASSUME LinuxUnwindTypeOK, NEW r \in RegisterRules,
         NEW own \in Int \union {NoBase}, NEW b \in Int \union {NoBase}
  PROVE  ValueOf(r, own, b) \in Int \union {NoBase}
<1>1. /\ r.off \in Int /\ cfa \in Int /\ frame.ip \in Int /\ frame.sp \in Int
      /\ \A a : Readable(a) => mem[a] \in Int
  BY DEF RegisterRules, LinuxUnwindTypeOK, Readable
<1>2. cfa + r.off \in Int  BY <1>1
<1>. DEFINE x == cfa + r.off
<1>. HIDE DEF x
<1>3. ValueOf(r, own, b) =
        CASE r.how = "same" -> own
          [] r.how = "offset" -> IF Readable(x) THEN mem[x] ELSE NoBase
          [] r.how = "val" -> x
          [] r.how = "sp" -> frame.sp
          [] r.how = "ip" -> frame.ip
          [] r.how = "bp" -> IF HasBp THEN b ELSE NoBase
          [] OTHER -> NoBase
  BY DEF ValueOf, x
<1>4. x \in Int  BY <1>2 DEF x
<1>5. r.how \in {"undefined", "same", "offset", "val", "sp", "ip", "bp", "other", "none"}  BY DEF RegisterRules
<1>. QED BY <1>1, <1>3, <1>4, <1>5

\* The unwinder's steps keep the types.
LEMMA UnwinderTypes ==
  ASSUME LinuxUnwindTypeOK, Unwinder \/ UnwindFault
  PROVE  LinuxUnwindTypeOK'
<1>. DEFINE r == Rules[frame.ip]
<1>1. /\ frame \in [ip : Int, sp : Int] /\ frame.ip \in Int /\ frame.sp \in Int
      /\ frames \in Seq([ip : Int, sp : Int]) /\ Append(frames, frame) \in Seq([ip : Int, sp : Int])
      /\ base \in Int \union {NoBase} /\ oldBase \in Int \union {NoBase}
  BY DEF LinuxUnwindTypeOK
<1>3. CASE Outside
  <2>1. /\ frames' \in Seq([ip : Int, sp : Int]) /\ stage' = "ended" /\ result' \in {"stopped", "err"}
        /\ UNCHANGED <<base, oldBase, cfa, known, procVars, unwindGhostVars, frame, nUnwindFaults>>
    BY <1>1, <1>3 DEF Outside, Keep, Send, End
  <2>. QED BY <2>1 DEF LinuxUnwindTypeOK, procVars, unwindGhostVars
<1>4. CASE NoSection
  BY <1>4 DEF NoSection, Keep, End, LinuxUnwindTypeOK, procVars, unwindGhostVars
<1>5. CASE NoFde
  <2>1. /\ frames' \in Seq([ip : Int, sp : Int]) /\ stage' = "ended" /\ result' \in {"ok", "err"}
        /\ UNCHANGED <<base, oldBase, cfa, known, procVars, unwindGhostVars, frame, nUnwindFaults>>
    BY <1>1, <1>5 DEF NoFde, Keep, Send, End
  <2>. QED BY <2>1 DEF LinuxUnwindTypeOK, procVars, unwindGhostVars
<1>6. CASE Unwind
  <2>1. /\ frames' \in Seq([ip : Int, sp : Int]) /\ frame.ip \in DOMAIN Rules /\ stage = "locate"
        /\ UNCHANGED <<base, oldBase, procVars, unwindGhostVars, frame, nUnwindFaults>>
    BY <1>1, <1>6 DEF Unwind, Keep, Send
  <2>2. \/ stage' = "ended" /\ result' \in {"stopped", "err", "panic"} /\ cfa' = cfa
        \/ stage' = "base" /\ result' = result /\ cfa' = CfaOf(r) /\ CfaOf(r) # NoBase
    BY <1>6 DEF Unwind, End
  <2>3. r.cfa \in {"sp", "bp", "other", "expression", "unreadable"} /\ r.off \in Int  BY <2>1, RuleTypes
  <2>4. CfaOf(r) # NoBase => CfaOf(r) \in Int
    <3>. DEFINE o == r.off
    <3>1. frame.sp \in Int /\ o \in Int /\ (base # NoBase => base \in Int)  BY <1>1, <2>3
    <3>. HIDE DEF o
    <3>2. frame.sp + o \in Int /\ (base # NoBase => base + o \in Int)  BY <3>1
    <3>3. CfaOf(r) = CASE r.cfa = "sp" -> frame.sp + o
                       [] r.cfa = "bp" -> IF HasBp /\ base # NoBase THEN base + o ELSE NoBase
                       [] OTHER -> NoBase
      BY DEF CfaOf, o
    <3>. QED BY <2>3, <3>2, <3>3
  <2>5. cfa' \in Int  BY <2>2, <2>4 DEF LinuxUnwindTypeOK
  <2>. QED BY <2>1, <2>2, <2>5 DEF LinuxUnwindTypeOK, procVars, unwindGhostVars
<1>7. CASE ReadBase
  <2>. DEFINE v == ValueOf(r.bp, base, base)
  <2>2. /\ stage = "base" /\ oldBase' = base
        /\ UNCHANGED <<cfa, known, frames, procVars, unwindGhostVars, frame, nUnwindFaults>>
    BY <1>7 DEF ReadBase, Keep
  <2>10. v \in Int \union {NoBase}
    <3>1. r.bp \in RegisterRules  BY <2>2, RuleTypes DEF LinuxUnwindTypeOK
    <3>. QED BY <3>1, <1>1, ValueTypes
  <2>. HIDE DEF v
  <2>1. base' \in {base, NoBase, v}
    BY <1>7 DEF ReadBase, v
  <2>3. \/ stage' = "ended" /\ result' = "err"
        \/ stage' = "return" /\ result' = result
    BY <1>7 DEF ReadBase, End
  <2>4. base' \in Int \union {NoBase} /\ oldBase' \in Int \union {NoBase}  BY <2>1, <2>2, <2>10, <1>1
  <2>. QED BY <2>2, <2>3, <2>4 DEF LinuxUnwindTypeOK, procVars, unwindGhostVars
<1>8. CASE ReadReturn
  <2>. DEFINE v == ValueOf(r.ip, frame.ip, oldBase)
  <2>1. /\ stage = "return"
        /\ UNCHANGED <<procVars, unwindGhostVars, base, oldBase, cfa, known, frames, nUnwindFaults>>
    BY <1>8 DEF ReadReturn
  <2>10. v \in Int \union {NoBase}
    <3>1. r.ip \in RegisterRules  BY <2>1, RuleTypes DEF LinuxUnwindTypeOK
    <3>. QED BY <3>1, <1>1, ValueTypes
  <2>. HIDE DEF v
  <2>3. \/ stage' = "ended" /\ result' \in {"ok", "err"} /\ frame' = frame
        \/ stage' = "locate" /\ result' = result /\ frame' = Frame(v, cfa) /\ v # NoBase
    BY <1>8 DEF ReadReturn, End, v
  <2>4. v # NoBase => Frame(v, cfa) \in [ip : Int, sp : Int]
    BY <2>10 DEF Frame, LinuxUnwindTypeOK
  <2>5. frame' \in [ip : Int, sp : Int]  BY <2>3, <2>4, <1>1
  <2>. QED BY <2>1, <2>3, <2>5 DEF LinuxUnwindTypeOK, procVars, unwindGhostVars
<1>9. CASE UnwindFault
  <2>1. nUnwindFaults' \in 0..MaxUnwindFaults
    BY <1>9, UnwindAssumption DEF UnwindFault, LinuxUnwindTypeOK
  <2>. QED BY <1>9, <2>1 DEF UnwindFault, End, LinuxUnwindTypeOK, procVars, unwindGhostVars
<1>. QED BY <1>3, <1>4, <1>5, <1>6, <1>7, <1>8, <1>9 DEF Unwinder

\* What is known of the frame behind the k-th.
LEMMA ChainedAt ==
  ASSUME chain \in Seq(Frames), NEW B, Chained(chain, mem, B), NEW k \in DOMAIN chain
  PROVE  /\ chain[k] \in Frames /\ Shape[chain[k].ip].depth \in Nat
         /\ Shape[chain[k].ip].bp = "outermost" <=> k = Len(chain)
         /\ Shape[chain[k].ip].ra = "none" <=> k = Len(chain)
         /\ Shape[chain[k].ip].ra = "link" => k = 1
         /\ k # Len(chain) =>
              /\ k + 1 \in DOMAIN chain /\ chain[k + 1] \in Frames
              /\ chain[k + 1].sp = chain[k].sp + Shape[chain[k].ip].depth
              /\ Shape[chain[k].ip].ra = "saved" => mem[chain[k + 1].sp - 1] = chain[k + 1].ip
              /\ Shape[chain[k].ip].bp = "kept" => B[k + 1] = B[k]
              /\ Shape[chain[k].ip].bp \in {"saved", "framed"} => B[k + 1] = mem[chain[k + 1].sp - 2]
              /\ Shape[chain[k].ip].bp = "framed" => B[k] = chain[k + 1].sp - 2
<1>1. chain[k] \in Frames  OBVIOUS
<1>2. k # Len(chain) => k + 1 \in DOMAIN chain /\ chain[k + 1] \in Frames  OBVIOUS
<1>3. Shape[chain[k].ip].depth \in Nat  BY <1>1, FrameTypes
<1>4. (Shape[chain[k].ip].bp = "outermost" <=> k = Len(chain)) /\ (Shape[chain[k].ip].ra = "link" => k = 1)
  BY DEF Chained
<1>41. Shape[chain[k].ip].ra = "none" <=> Shape[chain[k].ip].bp = "outermost"
  BY <1>1, FrameTypes, ShapeTypes
<1>5. k # Len(chain) => Called(chain[k], chain[k + 1], mem, B[k], B[k + 1])  BY DEF Chained
<1>. QED BY <1>1, <1>2, <1>3, <1>4, <1>41, <1>5 DEF Called

\* The unwinder's steps follow the chain.
LEMMA UnwinderFollows ==
  ASSUME LinuxUnwindTypeOK, NEW B \in [DOMAIN chain -> Nat],
         Chained(chain, mem, B), UnwinderRight(B), ~Repeated, Unwinder \/ UnwindFault
  PROVE  UnwinderRight(B)'
<1>. DEFINE n == Len(frames)
            r == Rules[frame.ip]
<1>1. /\ chain \in Seq(Frames) /\ frames \in Seq([ip : Int, sp : Int]) /\ n \in Nat /\ Len(chain) \in Nat
      /\ DOMAIN chain = 1..Len(chain)
  BY DEF LinuxUnwindTypeOK
<1>2. n <= Len(chain) /\ \A k \in 1..n : frames[k] = chain[k]
  BY DEF UnwinderRight
<1>3. chain' = chain /\ mem' = mem
  BY DEF Unwinder, UnwindFault, Outside, NoSection, NoFde, Unwind, ReadBase, ReadReturn, Keep,
         procVars, unwindGhostVars
<1>4. ASSUME Send, stage = "locate"
      PROVE  /\ n < Len(chain) /\ frame = chain[n + 1] /\ base \in {NoBase, B[n + 1]}
             /\ n + 1 \in DOMAIN chain
             /\ Len(frames') = n + 1 /\ \A k \in 1..(n + 1) : frames'[k] = chain[k]
  <2>1. n < Len(chain) /\ frame = chain[n + 1] /\ base \in {NoBase, B[n + 1]}
    BY <1>4 DEF UnwinderRight
  <2>2. Len(frames') = n + 1 /\ frames'[n + 1] = frame /\ \A k \in 1..n : frames'[k] = frames[k]
    BY <1>1, <1>4 DEF Send
  <2>3. \A k \in 1..(n + 1) : k = n + 1 \/ k \in 1..n  BY <1>1
  <2>4. n + 1 \in DOMAIN chain  BY <2>1, <1>1
  <2>. HIDE DEF n
  <2>5. \A k \in 1..(n + 1) : frames'[k] = chain[k]  BY <2>1, <2>2, <2>3, <1>2
  <2>. QED BY <2>1, <2>2, <2>4, <2>5
<1>5. ASSUME stage' = "ended", result' # "ok", frames' = frames
      PROVE  UnwinderRight(B)'
  BY <1>2, <1>3, <1>5 DEF UnwinderRight
<1>51. ASSUME Send, stage = "locate", stage' = "ended", result' = "ok" => frame.ip \notin DOMAIN Rules
       PROVE  UnwinderRight(B)'
  <2>1. /\ frame = chain[n + 1] /\ n + 1 \in DOMAIN chain
        /\ Len(frames') = n + 1 /\ \A k \in 1..(n + 1) : frames'[k] = chain[k]
    BY <1>4, <1>51
  <2>2. n + 1 > 0 /\ n + 1 <= Len(chain)  BY <1>1, <2>1
  <2>. HIDE DEF n
  <2>. QED BY <1>3, <1>51, <2>1, <2>2 DEF UnwinderRight
<1>6. CASE Outside
  <2>1. stage = "locate" /\ stage' = "ended" /\ result' # "ok" /\ (Send \/ frames' = frames)
    BY <1>6 DEF Outside, End
  <2>2. CASE Send
    BY <1>51, <2>1, <2>2
  <2>. QED BY <2>1, <2>2, <1>5
<1>7. CASE NoSection
  BY <1>5, <1>7 DEF NoSection, End
<1>8. CASE NoFde
  <2>1. stage = "locate" /\ stage' = "ended" /\ Send /\ frame.ip \notin DOMAIN Rules
    BY <1>8 DEF NoFde, End
  <2>. QED BY <1>51, <2>1
<1>9. CASE Unwind
  <2>1. stage = "locate" /\ Send /\ frame.ip \in DOMAIN Rules /\ frame' = frame /\ base' = base
    BY <1>9 DEF Unwind, Keep
  <2>2. \/ stage' = "ended" /\ result' # "ok"
        \/ stage' = "base" /\ result' = result /\ cfa' = CfaOf(r) /\ CfaOf(r) # NoBase
    BY <1>9 DEF Unwind, End
  <2>3. CASE stage' = "ended" /\ result' # "ok"
    BY <1>51, <2>1, <2>3
  <2>4. CASE stage' = "base" /\ result' = result /\ cfa' = CfaOf(r) /\ CfaOf(r) # NoBase
    <3>1. n + 1 \in DOMAIN chain /\ frame = chain[n + 1] /\ base \in {NoBase, B[n + 1]}
      BY <1>4, <2>1
    <3>2. ASSUME n + 1 < Len(chain) PROVE cfa' = chain[(n + 1) + 1].sp
      <4>. DEFINE g == chain[(n + 1) + 1]
                  d == Shape[frame.ip].depth
      <4>1. n + 1 # Len(chain)
        <5>. DEFINE l == Len(chain)
        <5>1. n \in Nat /\ l \in Nat /\ n + 1 < l  BY <3>2, <1>1
        <5>. HIDE DEF n, l
        <5>2. n + 1 # l  BY <5>1
        <5>. QED BY <5>2 DEF l
      <4>2. /\ frame \in Frames /\ d \in Nat /\ Shape[frame.ip].ra # "none"
            /\ g \in Frames /\ g.sp = frame.sp + d
            /\ Shape[frame.ip].bp = "framed" => B[n + 1] = g.sp - 2
        BY <3>1, <4>1, <1>1, ChainedAt
      <4>3. frame.sp \in Nat /\ g.sp \in Nat  BY <4>2, FrameTypes
      <4>4. /\ r.cfa = "sp" => r.off = d
            /\ r.cfa = "bp" => r.off = 2 /\ Shape[frame.ip].bp = "framed"
        BY <2>1, <4>2, RulesDescribe
      <4>5. CASE r.cfa = "sp"
        BY <2>4, <4>2, <4>4, <4>5 DEF CfaOf
      <4>6. CASE r.cfa = "bp"
        <5>1. r.off = 2 /\ cfa' = base + r.off /\ base = g.sp - 2
          BY <2>4, <3>1, <4>2, <4>4, <4>6 DEF CfaOf
        <5>. HIDE DEF g, d, r
        <5>2. cfa' = g.sp  BY <5>1, <4>3
        <5>. QED BY <5>2 DEF g
      <4>7. r.cfa \in {"sp", "bp"}
        BY <2>4 DEF CfaOf
      <4>. QED BY <4>5, <4>6, <4>7
    <3>3. result' # "ok"  BY <2>1, <2>4 DEF LinuxUnwindTypeOK
    <3>4. n + 1 > 0 /\ n + 1 <= Len(chain)  BY <1>1, <3>1
    <3>. QED BY <1>3, <1>4, <2>1, <2>4, <3>1, <3>2, <3>3, <3>4 DEF UnwinderRight
  <2>. QED BY <2>2, <2>3, <2>4
<1>10. CASE ReadBase
  <2>1. stage = "base" /\ frames' = frames /\ frame' = frame /\ cfa' = cfa /\ frame.ip \in DOMAIN Rules
    BY <1>10 DEF ReadBase, Keep, LinuxUnwindTypeOK
  <2>. DEFINE v == ValueOf(r.bp, base, base)
  <2>2. \/ stage' = "ended" /\ result' = "err"
        \/ stage' = "return" /\ result' = result /\ base' = NoBase
        \/ /\ stage' = "return" /\ result' = result
           /\ base' = v /\ v # NoBase /\ r.bp.how \notin {"undefined", "none"}
    BY <1>10 DEF ReadBase, End
  <2>3. CASE stage' = "return" /\ result' = result
    <3>1. /\ n > 0 /\ frame = chain[n] /\ base \in {NoBase, B[n]} /\ result' # "ok"
          /\ n < Len(chain) => cfa = chain[n + 1].sp
      BY <2>1, <2>3 DEF UnwinderRight, LinuxUnwindTypeOK
    <3>2. ASSUME n < Len(chain) PROVE base' \in {NoBase, B[n + 1]}
      <4>. SUFFICES ASSUME base' = v, v # NoBase, r.bp.how \notin {"undefined", "none"}
                    PROVE  v = B[n + 1]
        BY <2>2, <2>3
      <4>1. n \in DOMAIN chain /\ n # Len(chain)  BY <3>1, <3>2, <1>1
      <4>2. /\ Shape[frame.ip].ra # "none"
            /\ Shape[frame.ip].bp = "kept" => B[n + 1] = B[n]
            /\ Shape[frame.ip].bp \in {"saved", "framed"} => B[n + 1] = mem[chain[n + 1].sp - 2]
        BY <3>1, <4>1, <1>1, ChainedAt
      <4>3. /\ r.bp.how \in {"undefined", "same", "offset", "bp", "other", "none"}
            /\ r.bp.how \in {"same", "bp"} => Shape[frame.ip].bp = "kept"
            /\ r.bp.how = "offset" => r.bp.off = -2 /\ Shape[frame.ip].bp \in {"saved", "framed"}
        BY <2>1, <4>2, RulesDescribe
      <4>4. CASE r.bp.how \in {"same", "bp"}
        <5>1. v = base \/ v = NoBase  BY <4>4 DEF ValueOf
        <5>. QED BY <5>1, <3>1, <4>2, <4>3, <4>4
      <4>5. CASE r.bp.how = "offset"
        <5>1. v = mem[cfa + (-2)] \/ v = NoBase  BY <4>3, <4>5 DEF ValueOf
        <5>2. cfa + (-2) = cfa - 2  BY DEF LinuxUnwindTypeOK
        <5>3. mem[cfa + (-2)] = mem[chain[n + 1].sp - 2]  BY <3>1, <3>2, <5>2
        <5>. QED BY <5>1, <5>3, <4>2, <4>3, <4>5
      <4>6. CASE r.bp.how = "other"
        <5>1. v = NoBase  BY <4>6 DEF ValueOf
        <5>. QED BY <5>1
      <4>. QED BY <4>3, <4>4, <4>5, <4>6
    <3>. QED BY <1>2, <1>3, <2>1, <2>3, <3>1, <3>2 DEF UnwinderRight
  <2>. QED BY <2>1, <2>2, <2>3, <1>5
<1>11. CASE ReadReturn
  <2>1. stage = "return" /\ frames' = frames /\ base' = base /\ cfa' = cfa /\ frame.ip \in DOMAIN Rules
    BY <1>11 DEF ReadReturn, LinuxUnwindTypeOK
  <2>. DEFINE v == ValueOf(r.ip, frame.ip, oldBase)
  <2>3. \/ stage' = "ended" /\ result' = "err"
        \/ r.ip.how = "undefined" /\ stage' = "ended" /\ result' = "ok"
        \/ /\ r.ip.how # "undefined" /\ v # NoBase /\ stage' = "locate" /\ result' = result
           /\ frame' = Frame(v, cfa)
    BY <1>11 DEF ReadReturn, End
  <2>4. /\ n > 0 /\ n \in DOMAIN chain /\ frame = chain[n] /\ result = "none"
        /\ n < Len(chain) => cfa = chain[n + 1].sp /\ base \in {NoBase, B[n + 1]}
    BY <1>1, <1>2, <2>1 DEF UnwinderRight, LinuxUnwindTypeOK
  <2>5. (Shape[frame.ip].ra = "none" <=> n = Len(chain)) /\ (Shape[frame.ip].ra = "link" => n = 1)
    BY <2>4, <1>1, ChainedAt
  <2>50. /\ Shape[frame.ip].ra = "none" => r.ip.how \in {"undefined", "other", "none"}
         /\ Shape[frame.ip].ra # "none" =>
              /\ r.ip.how \in {"undefined", "same", "offset", "other", "none"}
              /\ r.ip.how = "offset" => r.ip.off = -1 /\ Shape[frame.ip].ra = "saved"
              /\ r.ip.how \in {"undefined", "same"} => Shape[frame.ip].ra = "link"
    BY <2>1, RulesDescribe
  <2>6. CASE r.ip.how = "undefined" /\ stage' = "ended" /\ result' = "ok"
    <3>1. n = Len(chain) \/ (n = 1 /\ Shape[chain[1].ip].ra = "link")  BY <2>4, <2>5, <2>50, <2>6
    <3>. QED BY <1>2, <1>3, <2>1, <2>4, <2>6, <3>1 DEF UnwinderRight
  <2>7. CASE /\ r.ip.how # "undefined" /\ v # NoBase /\ stage' = "locate" /\ result' = result
             /\ frame' = Frame(v, cfa)
    <3>0. r.ip.how = "offset" /\ r.ip.off = -1 /\ Shape[frame.ip].ra = "saved"
      <4>1. r.ip.how \notin {"other", "none"}  BY <2>7 DEF ValueOf
      <4>2. ASSUME r.ip.how = "same" PROVE FALSE
        <5>1. n = 1 /\ frame = chain[1]  BY <4>2, <2>4, <2>5, <2>50
        <5>2. chain # <<>> /\ chain[1].ip \in DOMAIN Rules /\ Rules[chain[1].ip].ip.how = "same"
          BY <5>1, <4>2, <2>1, <2>4, <1>1
        <5>. QED BY <5>2 DEF Repeated
      <4>. QED BY <4>1, <4>2, <2>7, <2>50
    <3>1. n # Len(chain)  BY <3>0, <2>5
    <3>2. n < Len(chain)  BY <3>1, <1>1, <1>2
    <3>3. chain[n + 1] \in Frames /\ mem[chain[n + 1].sp - 1] = chain[n + 1].ip
      BY <2>4, <3>0, <3>1, <1>1, ChainedAt
    <3>30. v = mem[cfa - 1]
      <4>1. v = mem[cfa + (-1)]  BY <2>7, <3>0 DEF ValueOf
      <4>2. cfa + (-1) = cfa - 1  BY DEF LinuxUnwindTypeOK
      <4>. QED BY <4>1, <4>2
    <3>4. frame' = Frame(chain[n + 1].ip, chain[n + 1].sp)  BY <2>4, <2>7, <3>2, <3>3, <3>30
    <3>5. frame' = chain[n + 1]  BY <3>3, <3>4 DEF Frame, Frames
    <3>. QED BY <1>2, <1>3, <2>1, <2>4, <2>7, <3>2, <3>5 DEF UnwinderRight
  <2>. QED BY <2>1, <2>3, <2>6, <2>7, <1>5
<1>12. CASE UnwindFault
  BY <1>5, <1>12 DEF UnwindFault, End
<1>. QED BY <1>6, <1>7, <1>8, <1>9, <1>10, <1>11, <1>12 DEF Unwinder

LEMMA UnwinderInv ==
  ASSUME UnwindInv, Unwinder \/ UnwindFault
  PROVE  UnwindInv'
<1>1. LinuxUnwindTypeOK /\ LinuxUnwindTypeOK'  BY UnwinderTypes DEF UnwindInv
<1>20. UNCHANGED <<procVars, unwindGhostVars>> /\ stage # "idle"
  BY DEF Unwinder, UnwindFault, Outside, NoSection, NoFde, Unwind, ReadBase, ReadReturn, Keep
<1>21. stage' # "idle"
  <2>1. CASE ReadReturn  BY <2>1 DEF ReadReturn, End
  <2>2. CASE Unwind  BY <2>2 DEF Unwind, End
  <2>3. CASE ReadBase  BY <2>3 DEF ReadBase, End
  <2>4. CASE Outside \/ NoSection \/ NoFde \/ UnwindFault
    BY <2>4 DEF Outside, NoSection, NoFde, UnwindFault, End
  <2>. QED BY <2>1, <2>2, <2>3, <2>4 DEF Unwinder
<1>2. UNCHANGED <<procVars, unwindGhostVars>> /\ stage # "idle" /\ stage' # "idle"
  BY <1>20, <1>21
<1>3. ProcessRight'  BY <1>2 DEF UnwindInv, ProcessRight, procVars
<1>4. ASSUME Untouched'
      PROVE  /\ chain' # <<>> /\ chain'[1].sp = low'
             /\ \E B \in [DOMAIN chain' -> Nat] : Chained(chain', mem', B) /\ (~Repeated' => UnwinderRight(B)')
  <2>1. Untouched  BY <1>2, <1>4 DEF Untouched, unwindGhostVars
  <2>2. chain # <<>> /\ chain[1].sp = low  BY <1>2, <2>1 DEF UnwindInv
  <2>3. PICK B \in [DOMAIN chain -> Nat] : Chained(chain, mem, B) /\ (~Repeated => UnwinderRight(B))
    BY <1>2, <2>1 DEF UnwindInv
  <2>4. ~Repeated => UnwinderRight(B)'  BY <1>1, <2>3, UnwinderFollows
  <2>5. chain' = chain /\ low' = low /\ mem' = mem  BY <1>2 DEF procVars, unwindGhostVars
  <2>6. Repeated' <=> Repeated  BY <2>5 DEF Repeated
  <2>. QED BY <2>2, <2>3, <2>4, <2>5, <2>6
<1>. QED BY <1>1, <1>2, <1>3, <1>4 DEF UnwindInv

\* The inductive invariant of the unwinder, on both architectures, for any code
\* that keeps the calling convention and unwind rules that describe it, any
\* depth of the stack, and a process that runs on while its stack is read.
THEOREM UnwindInvariant == LinuxUnwindSpec => []UnwindInv
<1>1. LinuxUnwindInit => UnwindInv
  <2>. SUFFICES ASSUME LinuxUnwindInit PROVE UnwindInv  OBVIOUS
  <2>1. /\ mem = [a \in Words |-> 0] /\ arch \in Archs /\ ip = Boot[arch] /\ sp = Top /\ bp = 0 /\ lr = 0
        /\ callers = <<>> /\ nrun = 0 /\ stage = "idle" /\ frame = Frame(Boot[arch], Top)
        /\ base = NoBase /\ oldBase = NoBase /\ cfa = 0
        /\ frames = <<>> /\ result = "none" /\ nUnwindFaults = 0
        /\ chain = <<>> /\ low = 0 /\ touched = 0
    BY DEF LinuxUnwindInit
  <2>. DEFINE a == Boot[arch]
  <2>2. a \in DOMAIN Code /\ a \in Nat /\ Top \in Words /\ 0 \in Words /\ Top \in Nat
    BY <2>1, UnwindAssumption, ShapeTypes DEF Words
  <2>. DEFINE f == Frame(a, Top)
              c == <<f>> \o <<>>
              B == [k \in 1..1 |-> 0]
  <2>3. f \in Frames /\ f \in [ip : Int, sp : Int] /\ f.ip = a /\ f.sp = Top
    BY <2>2 DEF Frame, Frames
  <2>4. LinuxUnwindTypeOK
    BY <2>1, <2>2, <2>3, UnwindAssumption DEF LinuxUnwindTypeOK
  <2>5. Shape[a].depth = 0 /\ Shape[a].bp = "outermost" /\ Shape[a].ra = "none"
    <3>1. Shape[a] = [depth |-> 0, ra |-> "none", bp |-> "outermost"]  BY <2>1, CodeAssumption
    <3>. QED BY <3>1
  <2>. HIDE DEF f
  <2>6. c # <<>> /\ Len(c) = 1 /\ DOMAIN c = 1..1 /\ c[1] = f
    <3>1. <<>> \in Seq(Frames) /\ Len(<<>>) = 0  OBVIOUS
    <3>2. /\ c # <<>> /\ Len(c) = Len(<<>>) + 1 /\ DOMAIN c = 1..(Len(<<>>) + 1) /\ c[1] = f
      BY <2>3, <3>1, FrontFrame
    <3>. QED BY <3>1, <3>2
  <2>. HIDE DEF c
  <2>7. \A k \in DOMAIN c : k = 1  BY <2>6
  <2>8. Chained(c, mem, B)
    <3>1. c[1].sp + Shape[c[1].ip].depth = Top  BY <2>2, <2>3, <2>5, <2>6
    <3>2. c[1].sp <= c[1].sp  BY <2>2, <2>3, <2>6
    <3>. QED BY <2>3, <2>5, <2>6, <2>7, <3>1, <3>2 DEF Chained
  <2>9. B \in [DOMAIN c -> Nat] /\ B[1] = bp  BY <2>1, <2>6
  <2>10. c = <<Frame(ip, sp)>> \o callers  BY <2>1 DEF c, f
  <2>. HIDE DEF B
  <2>11. ProcessRight  BY <2>1, <2>5, <2>8, <2>9, <2>10 DEF ProcessRight
  <2>. QED BY <2>1, <2>4, <2>11 DEF UnwindInv
<1>2. UnwindInv /\ [LinuxUnwindNext]_linuxUnwindVars => UnwindInv'
  <2>. SUFFICES ASSUME UnwindInv, [LinuxUnwindNext]_linuxUnwindVars PROVE UnwindInv'  OBVIOUS
  <2>1. CASE Execute  BY <2>1, ExecuteInv
  <2>2. CASE StartUnwind  BY <2>2, StartUnwindInv
  <2>3. CASE Unwinder \/ UnwindFault  BY <2>3, UnwinderInv
  <2>4. CASE UNCHANGED linuxUnwindVars
    <3>1. /\ UNCHANGED <<mem, arch, ip, sp, bp, lr, callers, nrun>>
          /\ UNCHANGED <<stage, frame, base, oldBase, cfa, known, frames, result, nUnwindFaults>>
          /\ UNCHANGED <<chain, low, touched>>
      BY <2>4 DEF linuxUnwindVars, procVars, unwindVars, unwindGhostVars
    <3>2. LinuxUnwindTypeOK'  BY <3>1 DEF UnwindInv, LinuxUnwindTypeOK
    <3>3. ProcessRight'  BY <3>1 DEF UnwindInv, ProcessRight
    <3>4. (Untouched' <=> Untouched) /\ (Repeated' <=> Repeated)  BY <3>1 DEF Untouched, Repeated
    <3>5. \A B : UnwinderRight(B)' <=> UnwinderRight(B)  BY <3>1 DEF UnwinderRight
    <3>. QED BY <3>1, <3>2, <3>3, <3>4, <3>5 DEF UnwindInv
  <2>. QED BY <2>1, <2>2, <2>3, <2>4 DEF LinuxUnwindNext
<1>. QED BY <1>1, <1>2, PTL DEF LinuxUnwindSpec

\* Every frame of a call stack is one of the true chain of calls, in order, on
\* both architectures, for any code, any depth and any moment at which the
\* process was stopped, as long as it does not write over the frames that are
\* being read; and a call stack that ends well is whole, unless it meets a
\* function without unwind rules or begins in one whose return address is in the
\* link register.  Rules that keep the link register are excepted (Repeated).
THEOREM CallStackTrueAlways == LinuxUnwindSpec => []CallStackTrue
<1>1. ASSUME UnwindInv PROVE CallStackTrue
  <2>. DEFINE n == Len(frames)
  <2>1. /\ chain \in Seq(Frames) /\ frames \in Seq([ip : Int, sp : Int]) /\ n \in Nat /\ Len(chain) \in Nat
        /\ DOMAIN chain = 1..Len(chain) /\ (stage = "idle" => frames = <<>> /\ result = "none")
    BY <1>1 DEF UnwindInv, LinuxUnwindTypeOK
  <2>2. ASSUME Untouched, ~Repeated
        PROVE  /\ n <= Len(chain) /\ \A k \in 1..n : frames[k] = chain[k]
               /\ result = "ok" =>
                    /\ n > 0
                    /\ \/ n = Len(chain) \/ chain[n].ip \notin DOMAIN Rules
                       \/ n = 1 /\ Shape[chain[1].ip].ra = "link"
    <3>1. CASE stage = "idle"  BY <3>1, <2>1
    <3>2. CASE stage # "idle"
      <4>1. PICK B \in [DOMAIN chain -> Nat] : UnwinderRight(B)  BY <1>1, <2>2, <3>2 DEF UnwindInv
      <4>. QED BY <4>1 DEF UnwinderRight
    <3>. QED BY <3>1, <3>2
  <2>3. ASSUME Untouched, ~Repeated PROVE frames = SubSeq(chain, 1, n)
    <3>1. n <= Len(chain) /\ \A k \in 1..n : frames[k] = chain[k]  BY <2>2, <2>3
    <3>2. /\ SubSeq(chain, 1, n) \in Seq(Frames) /\ Len(SubSeq(chain, 1, n)) = n
          /\ \A k \in 1..n : SubSeq(chain, 1, n)[k] = chain[k]
      BY <2>1, <3>1
    <3>. QED BY <2>1, <3>1, <3>2
  <2>4. SubSeq(frames, 1, n) = frames  BY <2>1
  <2>5. TrueFrames  BY <2>2, <2>3, <2>4 DEF TrueFrames, IsPrefix
  <2>6. WholeChain
    <3>. SUFFICES ASSUME Untouched, ~Repeated, result = "ok"
                  PROVE  \E k \in DOMAIN chain :
                           /\ frames = SubSeq(chain, 1, k)
                           /\ \/ k = Len(chain) \/ chain[k].ip \notin DOMAIN Rules
                              \/ k = 1 /\ Shape[chain[1].ip].ra = "link"
      BY DEF WholeChain
    <3>1. /\ n \in DOMAIN chain
          /\ \/ n = Len(chain) \/ chain[n].ip \notin DOMAIN Rules
             \/ n = 1 /\ Shape[chain[1].ip].ra = "link"
      BY <2>1, <2>2
    <3>. QED BY <3>1, <2>3
  <2>. QED BY <2>5, <2>6 DEF CallStackTrue
<1>. QED BY <1>1, UnwindInvariant, PTL

=============================================================================
