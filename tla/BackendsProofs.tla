--------------------------- MODULE BackendsProofs ---------------------------
(***************************************************************************)
(* Proofs about NativeApi for any number of threads, backends, calls and   *)
(* items, any lengths of buffers and any depth of calls from callbacks; and*)
(* about DumpFile for any guests, mappings, chunks and buffers.            *)
(***************************************************************************)
EXTENDS NativeApi, DumpFile, NatLemmas, SequenceTheorems, TLAPS

USE NativeAssumption DEF NullPtr

-----------------------------------------------------------------------------
(* Kinds, sequences and buffers *)

\* The wrappers are given a value, nothing, an array or a string.
LEMMA KindsAre == Kinds \subseteq {"unit", "value", "array", "string"}
  BY DEF Kinds, MemoryFns, ProcessFns, ProcessListFns, ThreadFns, VmaFns, ModuleFns

\* The largest and the smallest of two numbers.
LEMMA MinMax ==
  ASSUME NEW a \in Int, NEW b \in Int
  PROVE  /\ Min({a, b}) = IF a <= b THEN a ELSE b
         /\ Max({a, b}) = IF a <= b THEN b ELSE a
  <1>1. Min({a, b}) \in {a, b} /\ \A y \in {a, b} : Min({a, b}) <= y
    <2>1. \E x \in {a, b} : \A y \in {a, b} : x <= y  OBVIOUS
    <2> QED BY <2>1 DEF Min
  <1>2. Max({a, b}) \in {a, b} /\ \A y \in {a, b} : Max({a, b}) >= y
    <2>1. \E x \in {a, b} : \A y \in {a, b} : x >= y  OBVIOUS
    <2> QED BY <2>1 DEF Max
  <1> QED BY <1>1, <1>2

\* A call in progress on t is the last of its calls.
LEMMA TopCall ==
  ASSUME NativeTypeOK, NEW t \in CThreads, calls[t] # <<>>
  PROVE  /\ Len(calls[t]) \in DOMAIN calls[t]
         /\ CallOf(t) = calls[t][Len(calls[t])] /\ CallOf(t) \in CallSet
  BY DEF NativeTypeOK, CallOf, Last

\* A step of a call touches no other call.
LEMMA SetCallEffect ==
  ASSUME NativeTypeOK, NEW t \in CThreads, calls[t] # <<>>, NEW c \in CallSet, SetCall(t, c)
  PROVE  /\ calls' \in [CThreads -> Seq(CallSet)]
         /\ \A u \in CThreads : DOMAIN calls'[u] = DOMAIN calls[u]
         /\ calls'[t][Len(calls[t])] = c
         /\ \A u \in CThreads : \A k \in DOMAIN calls[u] :
              ~(u = t /\ k = Len(calls[t])) => calls'[u][k] = calls[u][k]
  <1>1. calls \in [CThreads -> Seq(CallSet)]  BY DEF NativeTypeOK
  <1>2. calls' = [calls EXCEPT ![t] = [calls[t] EXCEPT ![Len(calls[t])] = c]]
    BY <1>1 DEF SetCall
  <1> DEFINE s == [calls[t] EXCEPT ![Len(calls[t])] = c]
  <1>3. calls[t] \in Seq(CallSet) /\ Len(calls[t]) \in DOMAIN calls[t]  BY <1>1
  <1>4. s \in Seq(CallSet) /\ DOMAIN s = DOMAIN calls[t] /\ s[Len(calls[t])] = c
    BY <1>3
  <1>5. \A k \in DOMAIN calls[t] : k # Len(calls[t]) => s[k] = calls[t][k]
    BY <1>3
  <1> HIDE DEF s
  <1>6. calls' = [calls EXCEPT ![t] = s]  BY <1>2 DEF s
  <1> QED BY <1>1, <1>4, <1>5, <1>6

\* A call that returns leaves the ones below it as they are.
LEMMA PopEffect ==
  ASSUME NativeTypeOK, NEW t \in CThreads, calls[t] # <<>>,
         calls' = [calls EXCEPT ![t] = Front(@)]
  PROVE  /\ calls' \in [CThreads -> Seq(CallSet)]
         /\ \A u \in CThreads : \A k \in DOMAIN calls'[u] :
              /\ k \in DOMAIN calls[u] /\ calls'[u][k] = calls[u][k]
              /\ ~(u = t /\ k = Len(calls[t]))
  <1>1. calls \in [CThreads -> Seq(CallSet)]  BY DEF NativeTypeOK
  <1> DEFINE s == Front(calls[t])
  <1>2. /\ s \in Seq(CallSet) /\ DOMAIN s = 1 .. Len(calls[t]) - 1
        /\ \A k \in DOMAIN s : s[k] = calls[t][k]
    BY <1>1 DEF Front
  <1> HIDE DEF s
  <1>3. calls' = [calls EXCEPT ![t] = s]  BY <1>1 DEF s
  <1>4. calls[t] \in Seq(CallSet) /\ Len(calls[t]) \in Nat /\ DOMAIN calls[t] = 1..Len(calls[t])
    BY <1>1
  <1> QED BY <1>1, <1>2, <1>3, <1>4

\* A call that begins comes on top of the others.
LEMMA PushEffect ==
  ASSUME NativeTypeOK, NEW t \in CThreads, NEW c \in CallSet, Begin(t, c)
  PROVE  /\ calls' \in [CThreads -> Seq(CallSet)] /\ ncalls' \in 0..MaxCalls
         /\ Len(calls[t]) + 1 \in DOMAIN calls'[t]
         /\ calls'[t][Len(calls[t]) + 1] = c
         /\ \A u \in CThreads : \A k \in DOMAIN calls'[u] :
              (u = t /\ k = Len(calls[t]) + 1) \/ (k \in DOMAIN calls[u] /\ calls'[u][k] = calls[u][k])
  <1>1. calls \in [CThreads -> Seq(CallSet)] /\ ncalls \in 0..MaxCalls  BY DEF NativeTypeOK
  <1> DEFINE s == Append(calls[t], c)
  <1>2. /\ s \in Seq(CallSet) /\ DOMAIN s = 1 .. Len(calls[t]) + 1 /\ s[Len(calls[t]) + 1] = c
        /\ \A k \in DOMAIN s : k # Len(calls[t]) + 1 => k \in DOMAIN calls[t] /\ s[k] = calls[t][k]
        /\ Len(calls[t]) + 1 \in DOMAIN s
    BY <1>1
  <1> HIDE DEF s
  <1>3. calls' = [calls EXCEPT ![t] = s] /\ ncalls' \in 0..MaxCalls  BY <1>1 DEF s, Begin
  <1> QED BY <1>1, <1>2, <1>3

-----------------------------------------------------------------------------
(* Who has a backend *)

\* The backend of a call is with a guest, with that call, or dropped: the
\* program itself has none that a call has.
LEMMA HolderOfCall ==
  ASSUME NativeInv, NEW t \in CThreads, NEW k \in DOMAIN calls[t]
  PROVE  calls[t][k] \in CallSet /\ holder[calls[t][k].b] \in {"os", "call", "freed"}
  <1>1. calls[t][k] \in CallSet  BY DEF NativeInv, NativeTypeOK
  <1> QED BY <1>1 DEF NativeInv, HoldersRight, Owns, CallSet

\* The call that owns a backend is the only one that has it.
LEMMA OwnerAlone ==
  ASSUME NativeInv, NEW t \in CThreads, NEW k \in DOMAIN calls[t], Owns(calls[t][k]),
         NEW u \in CThreads, NEW j \in DOMAIN calls[u], calls[u][j].b = calls[t][k].b
  PROVE  u = t /\ j = k
  <1>1. holder[calls[t][k].b] = "call"  BY DEF NativeInv, HoldersRight
  <1>2. calls[u][j] \in CallSet  BY DEF NativeInv, NativeTypeOK
  <1>3. Owns(calls[u][j])  BY <1>1, <1>2 DEF NativeInv, HoldersRight, Owns, CallSet
  <1> QED BY <1>3 DEF NativeInv, HoldersRight

\* Holders stay right while calls return or go on, and backends that no call
\* has change hands.
LEMMA HoldersKept ==
  ASSUME NativeInv,
         \A u \in CThreads : \A k \in DOMAIN calls'[u] :
           /\ k \in DOMAIN calls[u]
           /\ calls'[u][k].kind = calls[u][k].kind /\ calls'[u][k].b = calls[u][k].b
           /\ (calls'[u][k].step = "dropping") <=> (calls[u][k].step = "dropping")
           /\ holder'[calls[u][k].b] = holder[calls[u][k].b]
  PROVE  HoldersRight'
  <1> SUFFICES ASSUME NEW t \in CThreads, NEW k \in DOMAIN calls'[t]
               PROVE  /\ calls'[t][k].kind \in Kinds =>
                           holder'[calls'[t][k].b] = "os" /\ calls'[t][k].step # "dropping"
                      /\ calls'[t][k].step = "dropping" => holder'[calls'[t][k].b] = "freed"
                      /\ Owns(calls'[t][k]) =>
                           /\ holder'[calls'[t][k].b] = "call"
                           /\ \A u \in CThreads : \A j \in DOMAIN calls'[u] :
                                Owns(calls'[u][j]) /\ calls'[u][j].b = calls'[t][k].b => u = t /\ j = k
    BY DEF HoldersRight, Owns
  <1> QED BY DEF NativeInv, HoldersRight, Owns

\* What is freed was dropped once, and has no call but the one that drops it.
LEMMA DroppedKept ==
  ASSUME NativeInv, HoldersRight', calls' \in [CThreads -> Seq(CallSet)],
         \A b \in Backends : drops'[b] = IF holder'[b] = "freed" THEN 1 ELSE 0
  PROVE  DroppedOnce'
  <1> SUFFICES ASSUME NEW b \in Backends, holder'[b] = "freed", NEW t \in CThreads, NEW k \in DOMAIN calls'[t],
                      calls'[t][k].b = b
               PROVE  calls'[t][k].step = "dropping"
    BY DEF DroppedOnce
  <1>1. calls'[t][k] \in CallSet  OBVIOUS
  <1> QED BY <1>1 DEF HoldersRight, Owns, CallSet

\* The buffers of the calls stay right when one of them changes rightly.
LEMMA FillsKept ==
  ASSUME NativeInv,
         \A u \in CThreads : \A k \in DOMAIN calls'[u] :
           FillRight(calls'[u][k]) \/ (k \in DOMAIN calls[u] /\ calls'[u][k] = calls[u][k])
  PROVE  FillsRight'
  <1>1. \A u \in CThreads : \A k \in DOMAIN calls'[u] : FillRight(calls'[u][k])
    BY DEF NativeInv, FillsRight
  <1> QED BY <1>1 DEF FillsRight, FillRight

-----------------------------------------------------------------------------
(* The ways a call goes on *)

\* A step inside of a call that leaves its buffer alone.
Stepped(t, c) ==
  /\ SetCall(t, c)
  /\ c \in CallSet /\ c.kind = CallOf(t).kind /\ c.b = CallOf(t).b
  /\ c.step # "dropping" /\ CallOf(t).step # "dropping"
  /\ UNCHANGED <<lastError, holder, drops, ncalls, answer, expected>>

\* Such a step keeps the invariant when the buffer is right after it.
LEMMA SteppedInv ==
  ASSUME NativeInv, NEW t \in CThreads, calls[t] # <<>>, NEW c, Stepped(t, c), FillRight(c)
  PROVE  NativeInv'
  <1>1. NativeTypeOK /\ c \in CallSet /\ SetCall(t, c)  BY DEF NativeInv, Stepped
  <1>2. /\ calls' \in [CThreads -> Seq(CallSet)]
        /\ \A u \in CThreads : DOMAIN calls'[u] = DOMAIN calls[u]
        /\ calls'[t][Len(calls[t])] = c
        /\ \A u \in CThreads : \A k \in DOMAIN calls[u] :
             ~(u = t /\ k = Len(calls[t])) => calls'[u][k] = calls[u][k]
    BY <1>1, SetCallEffect
  <1>3. CallOf(t) = calls[t][Len(calls[t])]  BY <1>1, TopCall
  <1>4. NativeTypeOK' /\ (lastError = expected)'
    BY <1>2 DEF NativeInv, NativeTypeOK, Stepped
  <1>5. HoldersRight'
    BY <1>2, <1>3, HoldersKept DEF Stepped
  <1>6. DroppedOnce'
    BY <1>2, <1>5, DroppedKept DEF Stepped, NativeInv, DroppedOnce
  <1>7. FillsRight'
    BY <1>2, FillsKept
  <1>8. BuffersRight'
    BY DEF NativeInv, BuffersRight, BufferRight, Stepped
  <1> QED BY <1>4, <1>5, <1>6, <1>7, <1>8 DEF NativeInv

\* A call returns: its error is the one of its thread, and its buffer the answer.
LEMMA FinishCallEffect ==
  ASSUME NativeInv, NEW t \in CThreads, calls[t] # <<>>, NEW c \in CallSet, FinishCall(t, c), BufferRight(c),
         holder' \in [Backends -> {"nobody", "program", "call", "os", "freed"}],
         drops' \in [Backends -> Nat]
  PROVE  /\ NativeTypeOK' /\ (lastError = expected)' /\ FillsRight' /\ BuffersRight'
         /\ calls' \in [CThreads -> Seq(CallSet)]
         /\ \A u \in CThreads : \A k \in DOMAIN calls'[u] :
              /\ k \in DOMAIN calls[u] /\ calls'[u][k] = calls[u][k]
              /\ ~(u = t /\ k = Len(calls[t]))
  <1>1. NativeTypeOK  BY DEF NativeInv
  <1>2. /\ calls' \in [CThreads -> Seq(CallSet)]
        /\ \A u \in CThreads : \A k \in DOMAIN calls'[u] :
             /\ k \in DOMAIN calls[u] /\ calls'[u][k] = calls[u][k]
             /\ ~(u = t /\ k = Len(calls[t]))
    BY <1>1, PopEffect DEF FinishCall
  <1> DEFINE a == [c EXCEPT !.id = 0]
  <1>3. a \in CallSet  BY DEF CallSet
  <1>4. /\ a.kind = c.kind /\ a.out = c.out /\ a.cap = c.cap /\ a.failed = c.failed
        /\ a.value = c.value /\ a.offered = c.offered
    BY DEF CallSet
  <1>5. answer' \in {a, NoCall} /\ BufferRight(a) /\ BufferRight(NoCall)
    BY <1>4 DEF FinishCall, BufferRight, NoCall
  <1>6. BuffersRight'  BY <1>5 DEF BuffersRight, BufferRight
  <1>7. FillsRight'  BY <1>2, FillsKept
  <1>8. c.id \in Nat /\ c.failed \in BOOLEAN  BY DEF CallSet
  <1>9. NativeTypeOK' /\ (lastError = expected)'
    <2>1. lastError' = [lastError EXCEPT ![t] = IF c.failed THEN c.id ELSE 0]
      BY DEF FinishCall, SetError
    <2>2. expected' = [expected EXCEPT ![t] = IF c.failed THEN c.id ELSE 0]
      BY DEF FinishCall
    <2>3. lastError' = expected' /\ lastError' \in [CThreads -> Nat]
      BY <1>8, <2>1, <2>2 DEF NativeInv, NativeTypeOK
    <2>4. ncalls' = ncalls  BY DEF FinishCall
    <2> QED BY <1>1, <1>2, <1>3, <1>5, <2>3, <2>4 DEF NativeTypeOK
  <1> QED BY <1>2, <1>6, <1>7, <1>9

-----------------------------------------------------------------------------
(* Backends and guests *)

\* A backend that nobody but the program knew changes hands, without a call.
LEMMA HandedOver ==
  ASSUME NativeInv, NEW b \in Backends, holder[b] \in {"nobody", "program"} \/ (holder[b] = "os" /\ ~Using(b)),
         NEW h \in {"program", "freed"},
         holder' = [holder EXCEPT ![b] = h],
         drops' = IF h = "freed" THEN [drops EXCEPT ![b] = @ + 1] ELSE drops,
         UNCHANGED <<lastError, calls, ncalls, answer, expected>>
  PROVE  NativeInv'
  <1>0. NativeTypeOK  BY DEF NativeInv
  <1>1. \A u \in CThreads : \A k \in DOMAIN calls[u] : calls[u][k].b # b
    BY HolderOfCall DEF Using
  <1>2. \A u \in CThreads : \A k \in DOMAIN calls[u] : calls[u][k].b \in Backends
    BY HolderOfCall DEF CallSet
  <1>3. NativeTypeOK' /\ (lastError = expected)'
    BY DEF NativeInv, NativeTypeOK
  <1>4. \A u \in CThreads : \A k \in DOMAIN calls'[u] : holder'[calls[u][k].b] = holder[calls[u][k].b]
    BY <1>0, <1>1, <1>2 DEF NativeTypeOK
  <1>5. HoldersRight'  BY <1>4, HoldersKept
  <1>6. \A a \in Backends : drops'[a] = IF holder'[a] = "freed" THEN 1 ELSE 0
    BY <1>0 DEF NativeInv, NativeTypeOK, DroppedOnce
  <1>7. DroppedOnce'  BY <1>0, <1>5, <1>6, DroppedKept DEF NativeTypeOK
  <1>8. FillsRight' /\ BuffersRight'
    BY DEF NativeInv, FillsRight, FillRight, BuffersRight, BufferRight
  <1> QED BY <1>3, <1>5, <1>7, <1>8 DEF NativeInv

\* backend_make, backend_free and os_free.
LEMMA HandOverInv ==
  ASSUME NativeInv, NEW t \in CThreads, NEW b \in Backends,
         BackendMake(t, b) \/ BackendFree(t, b) \/ OsFree(t, b)
  PROVE  NativeInv'
  <1>1. CASE BackendMake(t, b)
    BY <1>1, HandedOver DEF BackendMake
  <1>2. CASE BackendFree(t, b) \/ OsFree(t, b)
    BY <1>2, HandedOver DEF BackendFree, OsFree
  <1> QED BY <1>1, <1>2

\* A call that begins has the backend for itself, or asks a guest.
LEMMA BeginInv ==
  ASSUME NativeInv, NEW t \in CThreads, NEW b \in Backends,
         NEW kind \in Kinds \union {"connect", "new"}, NEW step \in {"run", "linux?"},
         NEW cap \in Nat \union {NullPtr},
         Begin(t, Call(kind, b, step, cap)),
         holder[b] = IF kind \in Kinds THEN "os" ELSE IF kind = "new" THEN "program" ELSE "nobody",
         holder' = IF kind \in Kinds THEN holder ELSE [holder EXCEPT ![b] = "call"],
         UNCHANGED <<lastError, drops, answer, expected>>
  PROVE  NativeInv'
  <1> DEFINE c == Call(kind, b, step, cap)
             n == Len(calls[t]) + 1
  <1>0. NativeTypeOK  BY DEF NativeInv
  <1>1. /\ c \in CallSet /\ c.kind = kind /\ c.b = b /\ c.step = step /\ c.failed = FALSE
        /\ c.cap = cap /\ c.out = <<>> /\ c.count = 0 /\ c.offered = 0
    BY <1>0 DEF Call, CallSet, NativeTypeOK
  <1> HIDE DEF c
  <1>2. /\ calls' \in [CThreads -> Seq(CallSet)] /\ ncalls' \in 0..MaxCalls
        /\ n \in DOMAIN calls'[t] /\ calls'[t][n] = c
        /\ \A u \in CThreads : \A k \in DOMAIN calls'[u] :
             (u = t /\ k = n) \/ (k \in DOMAIN calls[u] /\ calls'[u][k] = calls[u][k])
    BY <1>0, <1>1, PushEffect DEF c
  <1> HIDE DEF n
  <1>3. FillRight(c)
    BY <1>1 DEF FillRight
  <1>4. FillsRight'  BY <1>2, <1>3, FillsKept
  <1>5. NativeTypeOK' /\ (lastError = expected)'
    BY <1>2 DEF NativeInv, NativeTypeOK
  <1>6. HoldersRight'
    <2>1. ASSUME NEW u \in CThreads, NEW k \in DOMAIN calls[u]
          PROVE  /\ calls[u][k].b \in Backends
                 /\ holder'[calls[u][k].b] = holder[calls[u][k].b]
                 /\ kind \notin Kinds => calls[u][k].b # b
      <3>1. calls[u][k].b \in Backends /\ holder[calls[u][k].b] \in {"os", "call", "freed"}
        BY HolderOfCall DEF CallSet
      <3>2. kind \notin Kinds => calls[u][k].b # b  BY <3>1
      <3> QED BY <1>0, <3>1, <3>2 DEF NativeTypeOK
    <2> SUFFICES ASSUME NEW u \in CThreads, NEW k \in DOMAIN calls'[u]
                 PROVE  /\ calls'[u][k].kind \in Kinds =>
                             holder'[calls'[u][k].b] = "os" /\ calls'[u][k].step # "dropping"
                        /\ calls'[u][k].step = "dropping" => holder'[calls'[u][k].b] = "freed"
                        /\ Owns(calls'[u][k]) =>
                             /\ holder'[calls'[u][k].b] = "call"
                             /\ \A v \in CThreads : \A j \in DOMAIN calls'[v] :
                                  Owns(calls'[v][j]) /\ calls'[v][j].b = calls'[u][k].b => v = u /\ j = k
      BY DEF HoldersRight, Owns
    <2>2. CASE u = t /\ k = n
      <3>1. calls'[u][k] = c  BY <1>2, <2>2
      <3>2. /\ kind \in Kinds => holder'[b] = "os"
            /\ kind \notin Kinds => holder'[b] = "call"
        BY <1>0 DEF NativeTypeOK
      <3>3. Owns(c) => kind \notin Kinds
        BY <1>1, KindsAre DEF Owns
      <3>4. ASSUME NEW v \in CThreads, NEW j \in DOMAIN calls'[v], kind \notin Kinds, calls'[v][j].b = b
            PROVE  v = u /\ j = k
        BY <1>2, <2>1, <2>2, <3>4
      <3> QED BY <1>1, <3>1, <3>2, <3>3, <3>4
    <2>3. CASE ~(u = t /\ k = n)
      <3>1. k \in DOMAIN calls[u] /\ calls'[u][k] = calls[u][k]  BY <1>2, <2>3
      <3>2. /\ calls[u][k].kind \in Kinds => holder[calls[u][k].b] = "os" /\ calls[u][k].step # "dropping"
            /\ calls[u][k].step = "dropping" => holder[calls[u][k].b] = "freed"
            /\ Owns(calls[u][k]) =>
                 /\ holder[calls[u][k].b] = "call"
                 /\ \A v \in CThreads : \A j \in DOMAIN calls[v] :
                      Owns(calls[v][j]) /\ calls[v][j].b = calls[u][k].b => v = u /\ j = k
        BY <3>1 DEF NativeInv, HoldersRight
      <3>3. ASSUME Owns(calls[u][k]), NEW v \in CThreads, NEW j \in DOMAIN calls'[v],
                   Owns(calls'[v][j]), calls'[v][j].b = calls[u][k].b
            PROVE  v = u /\ j = k
        <4>1. CASE v = t /\ j = n
          <5>1. c.b = calls[u][k].b /\ Owns(c)  BY <1>2, <3>3, <4>1
          <5>2. kind \notin Kinds  BY <1>1, <5>1, KindsAre DEF Owns
          <5> QED BY <1>1, <2>1, <3>1, <5>1, <5>2
        <4>2. CASE ~(v = t /\ j = n)
          BY <1>2, <3>2, <3>3, <4>2
        <4> QED BY <4>1, <4>2
      <3> QED BY <2>1, <3>1, <3>2, <3>3
    <2> QED BY <2>2, <2>3
  <1>7. \A a \in Backends : drops'[a] = IF holder'[a] = "freed" THEN 1 ELSE 0
    BY <1>0 DEF NativeInv, NativeTypeOK, DroppedOnce
  <1>8. DroppedOnce'  BY <1>2, <1>6, <1>7, DroppedKept
  <1>9. BuffersRight'  BY DEF NativeInv, BuffersRight, BufferRight
  <1> QED BY <1>4, <1>5, <1>6, <1>8, <1>9 DEF NativeInv

\* kvm_connect, read_dump, os_new, and the questions to a guest.
LEMMA CallsInv ==
  ASSUME NativeInv, NEW t \in CThreads, NEW b \in Backends, Connect(t, b) \/ OsNew(t, b) \/ Ask(t, b)
  PROVE  NativeInv'
  <1>0. "connect" \notin Kinds /\ "new" \notin Kinds  BY KindsAre
  <1>1. CASE Connect(t, b)
    <2>1. /\ Begin(t, Call("connect", b, "run", NullPtr)) /\ holder[b] = "nobody"
          /\ holder' = [holder EXCEPT ![b] = "call"] /\ UNCHANGED <<lastError, drops, answer, expected>>
      BY <1>1 DEF Connect
    <2> QED BY <1>0, <2>1, BeginInv
  <1>2. CASE OsNew(t, b)
    <2>1. PICK step \in {"linux?", "run"} : Begin(t, Call("new", b, step, NullPtr))
      BY <1>2 DEF OsNew
    <2>2. /\ holder[b] = "program"
          /\ holder' = [holder EXCEPT ![b] = "call"] /\ UNCHANGED <<lastError, drops, answer, expected>>
      BY <1>2 DEF OsNew
    <2> QED BY <1>0, <2>1, <2>2, BeginInv
  <1>3. CASE Ask(t, b)
    <2>1. PICK kind \in Kinds : \E cap \in IF kind \in {"array", "string"} THEN Caps ELSE {NullPtr} :
            Begin(t, Call(kind, b, "run", cap))
      BY <1>3 DEF Ask
    <2>2. PICK cap \in Nat \union {NullPtr} : Begin(t, Call(kind, b, "run", cap))
      BY <2>1
    <2>3. holder[b] = "os" /\ UNCHANGED <<lastError, holder, drops, answer, expected>>
      BY <1>3 DEF Ask
    <2> QED BY <2>2, <2>3, BeginInv
  <1> QED BY <1>1, <1>2, <1>3

-----------------------------------------------------------------------------
(* Calls that go on and return *)

\* A call returns, and its backend stays where it is.
LEMMA ReturnedInv ==
  ASSUME NativeInv, NEW t \in CThreads, calls[t] # <<>>, NEW c \in CallSet, FinishCall(t, c), BufferRight(c),
         UNCHANGED <<holder, drops>>
  PROVE  NativeInv'
  <1>1. /\ holder' \in [Backends -> {"nobody", "program", "call", "os", "freed"}]
        /\ drops' \in [Backends -> Nat]
    BY DEF NativeInv, NativeTypeOK
  <1>2. /\ NativeTypeOK' /\ (lastError = expected)' /\ FillsRight' /\ BuffersRight'
        /\ calls' \in [CThreads -> Seq(CallSet)]
        /\ \A u \in CThreads : \A k \in DOMAIN calls'[u] : k \in DOMAIN calls[u] /\ calls'[u][k] = calls[u][k]
    BY <1>1, FinishCallEffect
  <1>3. HoldersRight'  BY <1>2, HoldersKept
  <1>4. DroppedOnce'  BY <1>2, <1>3, DroppedKept DEF NativeInv, DroppedOnce
  <1> QED BY <1>2, <1>3, <1>4 DEF NativeInv

\* A call returns that owned a backend, and gives it away.
LEMMA GivenAwayInv ==
  ASSUME NativeInv, NEW t \in CThreads, calls[t] # <<>>, NEW c \in CallSet, FinishCall(t, c), BufferRight(c),
         Owns(CallOf(t)), NEW h \in {"program", "nobody", "os"},
         holder' = [holder EXCEPT ![CallOf(t).b] = h], UNCHANGED drops
  PROVE  NativeInv'
  <1>0. NativeTypeOK  BY DEF NativeInv
  <1> DEFINE n == Len(calls[t])
             b == CallOf(t).b
  <1>1. n \in DOMAIN calls[t] /\ CallOf(t) = calls[t][n] /\ CallOf(t) \in CallSet /\ b \in Backends
    BY <1>0, TopCall DEF CallSet
  <1>2. holder[b] = "call"
    BY <1>1 DEF NativeInv, HoldersRight
  <1>3. /\ holder' \in [Backends -> {"nobody", "program", "call", "os", "freed"}]
        /\ drops' \in [Backends -> Nat]
    BY <1>0 DEF NativeTypeOK
  <1>4. /\ NativeTypeOK' /\ (lastError = expected)' /\ FillsRight' /\ BuffersRight'
        /\ calls' \in [CThreads -> Seq(CallSet)]
        /\ \A u \in CThreads : \A k \in DOMAIN calls'[u] :
             /\ k \in DOMAIN calls[u] /\ calls'[u][k] = calls[u][k]
             /\ ~(u = t /\ k = n)
    BY <1>3, FinishCallEffect
  <1>5. \A u \in CThreads : \A k \in DOMAIN calls'[u] : calls[u][k].b \in Backends /\ calls[u][k].b # b
    <2>1. Owns(calls[t][n])  BY <1>1
    <2>2. ASSUME NEW u \in CThreads, NEW k \in DOMAIN calls'[u], calls[u][k].b = calls[t][n].b PROVE FALSE
      <3>1. k \in DOMAIN calls[u] /\ ~(u = t /\ k = n)  BY <1>4
      <3> QED BY <1>1, <2>1, <2>2, <3>1, OwnerAlone
    <2>3. \A u \in CThreads : \A k \in DOMAIN calls'[u] : calls[u][k].b \in Backends
      BY <1>4, HolderOfCall DEF CallSet
    <2> QED BY <1>1, <2>2, <2>3
  <1>6. \A a \in Backends : a # b => holder'[a] = holder[a]
    BY <1>0 DEF NativeTypeOK
  <1> HIDE DEF n, b
  <1>7. HoldersRight'  BY <1>4, <1>5, <1>6, HoldersKept
  <1>8. \A a \in Backends : drops'[a] = IF holder'[a] = "freed" THEN 1 ELSE 0
    BY <1>0, <1>2 DEF NativeInv, NativeTypeOK, DroppedOnce, b
  <1>9. DroppedOnce'  BY <1>4, <1>7, <1>8, DroppedKept
  <1> QED BY <1>4, <1>7, <1>9 DEF NativeInv

\* The call at the top of a thread: what is known of it.
LEMMA TopRight ==
  ASSUME NativeInv, NEW t \in CThreads, calls[t] # <<>>
  PROVE  /\ CallOf(t) \in CallSet /\ FillRight(CallOf(t))
         /\ CallOf(t).kind \in Kinds => CallOf(t).step # "dropping"
  <1>1. /\ Len(calls[t]) \in DOMAIN calls[t]
        /\ CallOf(t) = calls[t][Len(calls[t])] /\ CallOf(t) \in CallSet
    BY TopCall DEF NativeInv
  <1> QED BY <1>1 DEF NativeInv, FillsRight, HoldersRight

\* The answer of a call without a buffer, whatever it is.
LEMMA PlainReturn ==
  ASSUME NEW c \in CallSet, c.kind \notin {"array", "string"}, NEW f \in BOOLEAN, NEW n \in Int
  PROVE  /\ [c EXCEPT !.value = n] \in CallSet /\ BufferRight([c EXCEPT !.value = n])
         /\ [c EXCEPT !.failed = f, !.value = n] \in CallSet
         /\ BufferRight([c EXCEPT !.failed = f, !.value = n])
  <1>1. [c EXCEPT !.value = n] \in CallSet /\ [c EXCEPT !.failed = f, !.value = n] \in CallSet
    BY DEF CallSet
  <1>2. [c EXCEPT !.value = n].kind = c.kind /\ [c EXCEPT !.failed = f, !.value = n].kind = c.kind
    BY DEF CallSet
  <1> QED BY <1>1, <1>2 DEF BufferRight

\* kvm_connect and read_dump return, and os_new builds its guest.
LEMMA OwnersReturn ==
  ASSUME NativeInv, NEW t \in CThreads, Connected(t) \/ Built(t)
  PROVE  NativeInv'
  <1> DEFINE c == CallOf(t)
  <1>1. calls[t] # <<>> /\ c.step = "run" /\ c.kind \in {"connect", "new"}
    BY DEF Connected, Built, AtStep
  <1>2. c \in CallSet /\ Owns(c)
    BY <1>1, TopRight DEF Owns
  <1>3. /\ [c EXCEPT !.value = 0] \in CallSet /\ BufferRight([c EXCEPT !.value = 0])
        /\ [c EXCEPT !.failed = TRUE, !.value = -1] \in CallSet
        /\ BufferRight([c EXCEPT !.failed = TRUE, !.value = -1])
    <2>1. c \in CallSet /\ c.kind \notin {"array", "string"}  BY <1>1, <1>2
    <2>2. 0 \in Int /\ -1 \in Int /\ TRUE \in BOOLEAN  OBVIOUS
    <2> HIDE DEF c
    <2> QED BY <2>1, <2>2, PlainReturn
  <1>4. CASE Built(t)
    <2>1. /\ FinishCall(t, [c EXCEPT !.value = 0])
          /\ holder' = [holder EXCEPT ![c.b] = "os"] /\ UNCHANGED drops
      BY <1>4 DEF Built, Succeed
    <2> QED BY <1>1, <1>2, <1>3, <2>1, GivenAwayInv
  <1>5. CASE Connected(t)
    <2>1. PICK ok \in BOOLEAN :
            /\ holder' = [holder EXCEPT ![c.b] = IF ok THEN "program" ELSE "nobody"]
            /\ IF ok THEN FinishCall(t, [c EXCEPT !.value = 0])
               ELSE FinishCall(t, [c EXCEPT !.failed = TRUE, !.value = -1])
      BY <1>5 DEF Connected, Succeed, Report
    <2>2. UNCHANGED drops  BY <1>5 DEF Connected
    <2>3. CASE ok
      <3>1. holder' = [holder EXCEPT ![c.b] = "program"] /\ FinishCall(t, [c EXCEPT !.value = 0])
        BY <2>1, <2>3
      <3> QED BY <1>1, <1>2, <1>3, <2>2, <3>1, GivenAwayInv
    <2>4. CASE ~ok
      <3>1. /\ holder' = [holder EXCEPT ![c.b] = "nobody"]
            /\ FinishCall(t, [c EXCEPT !.failed = TRUE, !.value = -1])
        BY <2>1, <2>4
      <3> QED BY <1>1, <1>2, <1>3, <2>2, <3>1, GivenAwayInv
    <2> QED BY <2>3, <2>4
  <1> QED BY <1>4, <1>5

\* os_new without a guest drops its backend, which no other call has.
LEMMA DropFailedInv ==
  ASSUME NativeInv, NEW t \in CThreads, DropFailed(t)
  PROVE  NativeInv'
  <1> DEFINE c == CallOf(t)
             d == [c EXCEPT !.step = "dropping"]
             n == Len(calls[t])
  <1>0. NativeTypeOK  BY DEF NativeInv
  <1>1. /\ calls[t] # <<>> /\ c.step = "failing" /\ c.kind = "new" /\ SetCall(t, d)
        /\ holder' = [holder EXCEPT ![c.b] = "freed"]
        /\ drops' = [drops EXCEPT ![c.b] = @ + 1]
        /\ UNCHANGED <<lastError, ncalls, answer, expected>>
    BY DEF DropFailed, AtStep
  <1>2. c \in CallSet /\ Owns(c) /\ c.b \in Backends /\ FillRight(c)
    BY <1>1, TopRight DEF Owns, CallSet
  <1>3. n \in DOMAIN calls[t] /\ c = calls[t][n]  BY <1>0, <1>1, TopCall
  <1>4. holder[c.b] = "call" /\ drops[c.b] = 0
    BY <1>2, <1>3 DEF NativeInv, HoldersRight, DroppedOnce
  <1>5. /\ d \in CallSet /\ d.kind = "new" /\ d.b = c.b /\ d.step = "dropping" /\ d.failed = c.failed
    BY <1>1, <1>2 DEF CallSet
  <1>6. FillRight(d)
    BY <1>2, <1>5 DEF FillRight
  <1> HIDE DEF c, d
  <1>7. /\ calls' \in [CThreads -> Seq(CallSet)]
        /\ \A u \in CThreads : DOMAIN calls'[u] = DOMAIN calls[u]
        /\ calls'[t][n] = d
        /\ \A u \in CThreads : \A k \in DOMAIN calls[u] :
             ~(u = t /\ k = n) => calls'[u][k] = calls[u][k]
    BY <1>0, <1>1, <1>5, SetCallEffect
  <1>8. NativeTypeOK' /\ (lastError = expected)'
    BY <1>1, <1>2, <1>7 DEF NativeInv, NativeTypeOK
  <1>9. FillsRight' /\ BuffersRight'
    BY <1>1, <1>6, <1>7, FillsKept DEF NativeInv, BuffersRight, BufferRight
  <1>10. \A u \in CThreads : \A k \in DOMAIN calls[u] : ~(u = t /\ k = n) =>
           calls[u][k].b \in Backends /\ calls[u][k].b # c.b
    <2>1. Owns(calls[t][n])  BY <1>2, <1>3
    <2>2. ASSUME NEW u \in CThreads, NEW k \in DOMAIN calls[u], ~(u = t /\ k = n),
                 calls[u][k].b = calls[t][n].b
          PROVE  FALSE
      BY <1>3, <2>1, <2>2, OwnerAlone
    <2>3. \A u \in CThreads : \A k \in DOMAIN calls[u] : calls[u][k].b \in Backends
      BY HolderOfCall DEF CallSet
    <2> QED BY <1>3, <2>2, <2>3
  <1>11. holder'[c.b] = "freed" /\ \A a \in Backends : a # c.b => holder'[a] = holder[a]
    BY <1>0, <1>1, <1>2 DEF NativeTypeOK
  <1> HIDE DEF n
  <1>12. HoldersRight'
    <2>1. "new" \notin Kinds  BY KindsAre
    <2>2. ~Owns(d)  BY <1>5 DEF Owns
    <2> SUFFICES ASSUME NEW u \in CThreads, NEW k \in DOMAIN calls'[u]
                 PROVE  /\ calls'[u][k].kind \in Kinds =>
                             holder'[calls'[u][k].b] = "os" /\ calls'[u][k].step # "dropping"
                        /\ calls'[u][k].step = "dropping" => holder'[calls'[u][k].b] = "freed"
                        /\ Owns(calls'[u][k]) =>
                             /\ holder'[calls'[u][k].b] = "call"
                             /\ \A v \in CThreads : \A j \in DOMAIN calls'[v] :
                                  Owns(calls'[v][j]) /\ calls'[v][j].b = calls'[u][k].b => v = u /\ j = k
      BY DEF HoldersRight, Owns
    <2>3. CASE u = t /\ k = n
      <3>1. calls'[u][k] = d  BY <1>7, <2>3
      <3> QED BY <1>5, <1>11, <2>1, <2>2, <3>1
    <2>4. CASE ~(u = t /\ k = n)
      <3>1. k \in DOMAIN calls[u] /\ calls'[u][k] = calls[u][k] /\ holder'[calls[u][k].b] = holder[calls[u][k].b]
        BY <1>7, <1>10, <1>11, <2>4
      <3>2. \A v \in CThreads : \A j \in DOMAIN calls'[v] :
              Owns(calls'[v][j]) => j \in DOMAIN calls[v] /\ calls'[v][j] = calls[v][j]
        BY <1>7, <2>2
      <3> QED BY <3>1, <3>2 DEF NativeInv, HoldersRight
    <2> QED BY <2>3, <2>4
  <1>13. \A a \in Backends : drops'[a] = IF holder'[a] = "freed" THEN 1 ELSE 0
    BY <1>0, <1>1, <1>2, <1>4 DEF NativeInv, NativeTypeOK, DroppedOnce
  <1>14. DroppedOnce'  BY <1>7, <1>12, <1>13, DroppedKept
  <1> QED BY <1>8, <1>9, <1>12, <1>14 DEF NativeInv

\* Os::new, the callbacks and their answers: the call goes on.
LEMMA GoOnInv ==
  ASSUME NativeInv, NEW t \in CThreads, Guess(t) \/ CallBack(t) \/ CallbackReturns(t)
  PROVE  NativeInv'
  <1> DEFINE c == CallOf(t)
  <1>0. calls[t] # <<>> /\ c.step \in {"run", "linux?", "windows?", "callback"}
    BY DEF Guess, CallBack, CallbackReturns, AtStep, Asked
  <1>1. UNCHANGED <<lastError, holder, drops, ncalls, answer, expected>>
    BY DEF Guess, CallBack, CallbackReturns
  <1>2. c \in CallSet /\ FillRight(c)
    BY <1>0, TopRight
  <1>3. \/ \E step \in {"run", "linux?", "windows?", "callback", "failing"} : SetCall(t, [c EXCEPT !.step = step])
        \/ SetCall(t, [c EXCEPT !.step = "callback", !.back = c.step]) /\ c.step \in {"run", "linux?", "windows?"}
    <2>1. c.back \in {"run", "linux?", "windows?"}  BY <1>2 DEF CallSet
    <2>2. CASE Guess(t)  BY <2>2 DEF Guess
    <2>3. CASE CallBack(t)  BY <2>3 DEF CallBack, AtStep, Asked
    <2>4. CASE CallbackReturns(t)  BY <2>1, <2>4 DEF CallbackReturns
    <2> QED BY <2>2, <2>3, <2>4
  <1> HIDE DEF c
  <1>4. ASSUME NEW step \in {"run", "linux?", "windows?", "callback", "failing"},
               NEW d, d = [c EXCEPT !.step = step] \/
                      (d = [c EXCEPT !.step = "callback", !.back = c.step] /\ c.step \in {"run", "linux?", "windows?"}),
               SetCall(t, d)
        PROVE  NativeInv'
    <2>1. d \in CallSet  BY <1>2, <1>4 DEF CallSet
    <2>2. /\ d.kind = c.kind /\ d.b = c.b /\ d.step # "dropping" /\ d.failed = c.failed /\ d.count = c.count
          /\ d.offered = c.offered /\ d.cap = c.cap /\ d.out = c.out
      BY <1>2, <1>4 DEF CallSet
    <2>3. FillRight(d)  BY <1>2, <2>2 DEF FillRight
    <2>4. Stepped(t, d)  BY <1>0, <1>1, <1>4, <2>1, <2>2 DEF Stepped, c
    <2> QED BY <1>0, <2>3, <2>4, SteppedInv
  <1> QED BY <1>3, <1>4

\* The failed os_new returns, and the calls without a buffer.
LEMMA PlainReturnsInv ==
  ASSUME NativeInv, NEW t \in CThreads,
         Dropped(t) \/ Valued(t) \/ (FailCall(t) /\ CallOf(t).kind \notin {"array", "string"})
  PROVE  NativeInv'
  <1> DEFINE c == CallOf(t)
  <1>0. calls[t] # <<>> /\ UNCHANGED <<holder, drops>>
    BY DEF Dropped, Valued, FailCall, AtStep, Asked
  <1>1. /\ c \in CallSet
        /\ c.kind \in Kinds => c.step # "dropping"
    BY <1>0, TopRight
  <1>2. c.kind \notin {"array", "string"}
    <2>1. {"array", "string"} \subseteq Kinds
      BY DEF Kinds, MemoryFns, ProcessFns, ProcessListFns, ThreadFns, VmaFns, ModuleFns
    <2> QED BY <1>1, <2>1 DEF Dropped, Valued, AtStep, Asked
  <1>3. \/ FinishCall(t, [c EXCEPT !.value = 0])
        \/ FinishCall(t, [c EXCEPT !.failed = TRUE, !.value = -1])
    BY <1>2 DEF Dropped, Valued, FailCall, Report, Succeed
  <1>4. /\ [c EXCEPT !.value = 0] \in CallSet /\ BufferRight([c EXCEPT !.value = 0])
        /\ [c EXCEPT !.failed = TRUE, !.value = -1] \in CallSet
        /\ BufferRight([c EXCEPT !.failed = TRUE, !.value = -1])
    <2>1. 0 \in Int /\ -1 \in Int /\ TRUE \in BOOLEAN  OBVIOUS
    <2> HIDE DEF c
    <2> QED BY <1>1, <1>2, <2>1, PlainReturn
  <1> HIDE DEF c
  <1> QED BY <1>0, <1>3, <1>4, ReturnedInv

\* take_last_error
LEMMA TakeLastErrorInv ==
  ASSUME NativeInv, NEW t \in CThreads, TakeLastError(t)
  PROVE  NativeInv'
  <1>1. NativeTypeOK' /\ (lastError = expected)'
    BY DEF NativeInv, NativeTypeOK, TakeLastError, SetError
  <1>2. HoldersRight'
    BY HoldersKept DEF TakeLastError
  <1>3. DroppedOnce' /\ FillsRight' /\ BuffersRight'
    BY DEF NativeInv, DroppedOnce, FillsRight, FillRight, BuffersRight, BufferRight, TakeLastError
  <1> QED BY <1>1, <1>2, <1>3 DEF NativeInv

-----------------------------------------------------------------------------
(* Buffers *)

\* The fields of a call of which something more was offered.
LEMMA OfferedUpdate ==
  ASSUME NEW c \in CallSet, NEW o \in Nat
  PROVE  LET d == [c EXCEPT !.offered = o]
         IN /\ d \in CallSet /\ d.offered = o /\ d.count = c.count /\ d.cap = c.cap /\ d.out = c.out
            /\ d.kind = c.kind /\ d.b = c.b /\ d.step = c.step /\ d.failed = c.failed
  BY DEF CallSet

\* The fields of a call that terminated its text.
LEMMA OutUpdate ==
  ASSUME NEW c \in CallSet, NEW s \in Seq(Nat)
  PROVE  LET d == [c EXCEPT !.out = s]
         IN /\ d \in CallSet /\ d.offered = c.offered /\ d.count = c.count /\ d.cap = c.cap /\ d.out = s
            /\ d.kind = c.kind /\ d.failed = c.failed
  BY DEF CallSet

\* The fields of a call that succeeded, and of one that failed.
LEMMA ValueUpdate ==
  ASSUME NEW c \in CallSet, NEW v \in Int
  PROVE  LET d == [c EXCEPT !.value = v]
             f == [c EXCEPT !.failed = TRUE, !.value = v]
         IN /\ d \in CallSet /\ d.offered = c.offered /\ d.cap = c.cap /\ d.out = c.out
            /\ d.kind = c.kind /\ d.failed = c.failed /\ d.value = v
            /\ f \in CallSet /\ f.offered = c.offered /\ f.cap = c.cap /\ f.out = c.out
            /\ f.kind = c.kind /\ f.failed = TRUE /\ f.value = v
  BY DEF CallSet

\* An array is given back as it was filled: by a walk that is over, by one
\* that fails, and by one that has an item more than the array has room.
LEMMA ArrayReturn ==
  ASSUME NEW c \in CallSet, c.kind = "array", FillRight(c), NEW v \in Int, NEW f \in BOOLEAN,
         f \/ v = c.count, NEW d \in CallSet, d.kind = "array", d.cap = c.cap, d.out = c.out,
         d.failed = f, d.value = v,
         d.offered = c.offered \/ (c.cap # NullPtr /\ c.count >= c.cap /\ d.offered = c.offered + 1)
  PROVE  BufferRight(d)
  <1>1. c.cap \in Nat \union {NullPtr} /\ c.offered \in Nat /\ c.count \in Nat /\ c.out \in Seq(Nat)
    BY DEF CallSet
  <1>2. CASE c.cap = NullPtr
    BY <1>1, <1>2 DEF BufferRight, FillRight
  <1>3. CASE c.cap # NullPtr
    <2>1. c.count = c.offered /\ c.offered <= c.cap /\ c.out = [i \in 1..c.offered |-> i]
      BY <1>3 DEF FillRight
    <2>2. Len(c.out) = c.offered  BY <1>1, <2>1
    <2>3. Max({0, Min({d.offered, d.cap})}) = c.offered
      <3>1. d.offered \in Int /\ d.cap \in Int /\ 0 \in Int  BY <1>1, <1>3
      <3>2. Min({d.offered, d.cap}) = c.offered
        BY <1>1, <1>3, <2>1, <3>1, MinMax, SMTT(40)
      <3>3. Max({0, c.offered}) = c.offered
        <4>1. c.offered \in Int /\ 0 \in Int /\ 0 <= c.offered  BY <1>1
        <4> QED BY <4>1, MinMax
      <3> QED BY <3>2, <3>3
    <2>4. c.out \o <<>> = c.out  BY <1>1
    <2>5. Len(d.out) <= IF d.cap = NullPtr THEN 0 ELSE d.cap
      BY <1>3, <2>1, <2>2
    <2>6. ~d.failed => d.value = c.offered
      BY <2>1
    <2>7. d.out = [k \in 1..Max({0, Min({d.offered, d.cap})}) |-> k] \o <<>>
      BY <2>1, <2>3, <2>4
    <2>8. d.kind = "array" /\ d.kind # "string" /\ d.cap # NullPtr
      BY <1>3
    <2> QED BY <2>3, <2>5, <2>6, <2>7, <2>8 DEF BufferRight
  <1> QED BY <1>2, <1>3

\* push writes the next item, or leaves a full array as it is.
LEMMA PushRight ==
  ASSUME NEW c \in CallSet, c.kind = "array", FillRight(c)
  PROVE  LET e == [c EXCEPT !.offered = @ + 1]
         IN /\ e \in CallSet
            /\ Push(e) = e => c.cap # NullPtr /\ c.count >= c.cap
            /\ Push(e) # e => /\ Push(e) \in CallSet /\ FillRight(Push(e))
                              /\ Push(e).kind = c.kind /\ Push(e).b = c.b /\ Push(e).step = c.step
  <1> DEFINE e == [c EXCEPT !.offered = @ + 1]
             full == c.cap # NullPtr /\ c.count >= c.cap
  <1>1. c.cap \in Nat \union {NullPtr} /\ c.offered \in Nat /\ c.count \in Nat /\ c.out \in Seq(Nat)
    BY DEF CallSet
  <1>2. /\ e \in CallSet /\ e.offered = c.offered + 1 /\ e.count = c.count /\ e.cap = c.cap
        /\ e.out = c.out /\ e.kind = c.kind /\ e.b = c.b /\ e.step = c.step /\ e.failed = c.failed
    <2>1. c.offered + 1 \in Nat  BY <1>1
    <2> QED BY <2>1, OfferedUpdate
  <1> HIDE DEF e
  <1>3. CASE full
    <2>1. Push(e) = e  BY <1>2, <1>3 DEF Push
    <2> QED BY <1>2, <1>3, <2>1 DEF e
  <1>4. CASE ~full
    <2> DEFINE o == IF e.cap = NullPtr THEN e.out ELSE Append(e.out, e.offered)
               n == e.count + 1
               p == [e EXCEPT !.count = n, !.out = o]
    <2>1. o \in Seq(Nat)  BY <1>1, <1>2
    <2>2. Push(e) = p  BY <1>2, <1>4 DEF Push
    <2> HIDE DEF o
    <2>3. /\ p \in CallSet /\ p.offered = c.offered + 1 /\ p.count = c.count + 1 /\ p.cap = c.cap
          /\ p.out = o /\ p.kind = c.kind /\ p.b = c.b /\ p.step = c.step /\ p.failed = c.failed
      <3>1. n \in Nat  BY <1>1, <1>2
      <3> HIDE DEF n
      <3>2. /\ p \in CallSet /\ p.offered = e.offered /\ p.count = n /\ p.cap = e.cap /\ p.out = o
            /\ p.kind = e.kind /\ p.b = e.b /\ p.step = e.step /\ p.failed = e.failed
        BY <1>2, <2>1, <3>1 DEF CallSet
      <3> HIDE DEF p
      <3> QED BY <1>2, <3>2 DEF n
    <2> HIDE DEF p
    <2>4. p # e  BY <1>1, <1>2, <2>3
    <2>5. FillRight(p)
      <3>1. CASE c.cap = NullPtr
        BY <1>2, <2>3, <3>1 DEF FillRight, o
      <3>2. CASE c.cap # NullPtr
        <4>1. c.count = c.offered /\ c.offered <= c.cap /\ c.out = [i \in 1..c.offered |-> i] /\ ~c.failed
          BY <3>2 DEF FillRight
        <4>2. Len(c.out) = c.offered  BY <1>1, <4>1
        <4>3. o = Append(c.out, c.offered + 1)  BY <1>2, <3>2 DEF o
        <4>4. o = [i \in 1 .. c.offered + 1 |-> i]
          BY <1>1, <2>1, <4>1, <4>2, <4>3
        <4>5. c.offered + 1 <= c.cap  BY <1>1, <1>4, <3>2, <4>1
        <4> QED BY <2>3, <3>2, <4>1, <4>4, <4>5 DEF FillRight
      <3> QED BY <3>1, <3>2
    <2> QED BY <1>2, <2>2, <2>3, <2>4, <2>5 DEF e
  <1> QED BY <1>3, <1>4

\* fill: the next item of a walk, and its end; and an array whose walk fails.
LEMMA FillArrayInv ==
  ASSUME NativeInv, NEW t \in CThreads,
         FillItem(t) \/ Filled(t) \/ (FailCall(t) /\ CallOf(t).kind = "array")
  PROVE  NativeInv'
  <1> DEFINE c == CallOf(t)
             e == [c EXCEPT !.offered = @ + 1]
  <1>0. /\ calls[t] # <<>> /\ UNCHANGED <<holder, drops>> /\ c.kind = "array"
        /\ c.step \in {"run", "failing"}
    BY DEF FillItem, Filled, FailCall, AtStep, Asked
  <1>1. c \in CallSet /\ FillRight(c)
    BY <1>0, TopRight
  <1>2. c.count \in Int  BY <1>1 DEF CallSet
  <1>3. CASE Filled(t)
    <2>1. FinishCall(t, [c EXCEPT !.value = c.count])
      BY <1>3 DEF Filled, Succeed
    <2> HIDE DEF c
    <2> DEFINE d == [c EXCEPT !.value = c.count]
    <2>2. /\ d \in CallSet /\ d.kind = "array" /\ d.cap = c.cap /\ d.out = c.out
          /\ d.failed = c.failed /\ d.value = c.count /\ d.offered = c.offered /\ c.failed \in BOOLEAN
      BY <1>0, <1>1, <1>2 DEF CallSet
    <2> HIDE DEF d
    <2>3. BufferRight(d)  BY <1>0, <1>1, <1>2, <2>2, ArrayReturn
    <2> QED BY <1>0, <2>1, <2>2, <2>3, ReturnedInv DEF d
  <1>4. CASE FailCall(t)
    <2>1. FinishCall(t, [c EXCEPT !.failed = TRUE, !.value = -1])
      BY <1>0, <1>4 DEF FailCall, Report
    <2> HIDE DEF c
    <2> DEFINE d == [c EXCEPT !.failed = TRUE, !.value = -1]
    <2>2. /\ d \in CallSet /\ d.kind = "array" /\ d.cap = c.cap /\ d.out = c.out
          /\ d.failed = TRUE /\ d.value = -1 /\ d.offered = c.offered
      <3>1. -1 \in Int  OBVIOUS
      <3> QED BY <1>0, <1>1, <3>1, ValueUpdate
    <2> HIDE DEF d
    <2>3. d.failed \in BOOLEAN /\ d.value \in Int  BY <2>2 DEF CallSet
    <2>4. BufferRight(d)  BY <1>0, <1>1, <2>2, <2>3, ArrayReturn
    <2> QED BY <1>0, <2>1, <2>2, <2>4, ReturnedInv DEF d
  <1>5. CASE FillItem(t)
    <2>1. IF Push(e) = e THEN FinishCall(t, [e EXCEPT !.value = e.count])
          ELSE SetCall(t, Push(e)) /\ UNCHANGED <<lastError, ncalls, answer, expected>>
      BY <1>5 DEF FillItem
    <2>2. /\ e \in CallSet
          /\ Push(e) = e => c.cap # NullPtr /\ c.count >= c.cap
          /\ Push(e) # e => /\ Push(e) \in CallSet /\ FillRight(Push(e))
                            /\ Push(e).kind = c.kind /\ Push(e).b = c.b /\ Push(e).step = c.step
      BY <1>0, <1>1, PushRight
    <2>3. /\ e.offered = c.offered + 1 /\ e.count = c.count /\ e.cap = c.cap /\ e.out = c.out
          /\ e.kind = c.kind /\ e.failed = c.failed
      BY <1>1 DEF CallSet
    <2>4. CASE Push(e) = e
      <3> HIDE DEF c, e
      <3> DEFINE d == [e EXCEPT !.value = e.count]
      <3>1. /\ d \in CallSet /\ d.kind = "array" /\ d.cap = c.cap /\ d.out = c.out
            /\ d.failed = c.failed /\ d.value = c.count /\ d.offered = c.offered + 1 /\ c.failed \in BOOLEAN
        BY <1>0, <1>1, <1>2, <2>2, <2>3 DEF CallSet
      <3> HIDE DEF d
      <3>2. BufferRight(d)  BY <1>0, <1>1, <1>2, <2>2, <2>4, <3>1, ArrayReturn
      <3> QED BY <1>0, <2>1, <2>4, <3>1, <3>2, ReturnedInv DEF d
    <2>5. CASE Push(e) # e
      <3>1. Stepped(t, Push(e))
        BY <1>0, <2>1, <2>2, <2>5 DEF Stepped
      <3> QED BY <1>0, <2>2, <2>5, <3>1, SteppedInv
    <2> QED BY <2>4, <2>5
  <1> QED BY <1>0, <1>3, <1>4, <1>5

\* A text of n characters is cut to the room there is, and terminated.
LEMMA TextRight ==
  ASSUME NEW c \in CallSet, c.kind = "string", FillRight(c), NEW n \in Nat
  PROVE  LET w == WriteStr(c, n)
             d == [Terminated(w) EXCEPT !.value = w.count]
         IN d \in CallSet /\ BufferRight(d)
  <1> DEFINE m == Min({n, Room(c)})
             text == [k \in 1..m |-> k]
             w == WriteStr(c, n)
             d == [Terminated(w) EXCEPT !.value = w.count]
  <1>1. /\ c.cap \in Nat \union {NullPtr} /\ c.out = <<>> /\ c.offered = 0 /\ c.count = 0
        /\ c.failed = FALSE
    BY DEF CallSet, FillRight
  <1>2. Room(c) \in Nat /\ Room(c) = IF c.cap \in {NullPtr, 0} THEN 0 ELSE c.cap - 1
    BY <1>1 DEF Room
  <1>3. m \in Nat /\ m = IF n <= Room(c) THEN n ELSE Room(c)
    <2>1. n \in Int /\ Room(c) \in Int  BY <1>2
    <2> QED BY <1>2, <2>1, MinMax
  <1>4. w = [c EXCEPT !.offered = c.offered + n, !.count = c.count + m,
                      !.out = c.out \o [k \in 1..m |-> c.offered + k]]
    BY DEF WriteStr
  <1> HIDE DEF m, w
  <1>5. text \in Seq(Nat) /\ Len(text) = m  BY <1>3
  <1>6. c.out \o [k \in 1..m |-> c.offered + k] = text
    <2>1. [k \in 1..m |-> c.offered + k] = text  BY <1>1, <1>3
    <2> HIDE DEF text
    <2> QED BY <1>1, <1>5, <2>1
  <1> HIDE DEF text
  <1>7. w = [c EXCEPT !.offered = n, !.count = m, !.out = text]
    <2>1. c.offered + n = n /\ c.count + m = m  BY <1>1, <1>3
    <2> QED BY <1>4, <1>6, <2>1
  <1>8. /\ w \in CallSet /\ w.offered = n /\ w.count = m /\ w.cap = c.cap /\ w.out = text
        /\ w.kind = "string" /\ w.failed = FALSE
    BY <1>1, <1>3, <1>5, <1>7 DEF CallSet
  <1>9. CASE c.cap \in {NullPtr, 0}
    <2>1. m = 0 /\ text = <<>>  BY <1>2, <1>3, <1>9 DEF text
    <2>2. d = [w EXCEPT !.value = m]  BY <1>8, <1>9 DEF Terminated
    <2>3. /\ d \in CallSet /\ d.offered = n /\ d.cap = c.cap /\ d.out = <<>> /\ d.kind = "string"
          /\ d.failed = FALSE /\ d.value = 0
      <3>1. m \in Int  BY <1>3
      <3> HIDE DEF d
      <3> QED BY <1>8, <2>1, <2>2, <3>1, ValueUpdate, ZenonT(40)
    <2>4. c.cap = 0 => Max({0, Min({n, c.cap - 1})}) = 0
      <3> SUFFICES ASSUME c.cap = 0 PROVE Max({0, Min({n, c.cap - 1})}) = 0
        OBVIOUS
      <3> DEFINE j == c.cap - 1
      <3>1. n \in Int /\ j \in Int /\ 0 \in Int /\ j < 0  OBVIOUS
      <3> HIDE DEF j
      <3>2. Min({n, j}) = j  BY <3>1, MinMax
      <3>3. Max({0, j}) = 0
        <4>1. ~(0 <= j)  BY <3>1
        <4>2. Max({0, j}) = IF 0 <= j THEN j ELSE 0  BY <3>1, MinMax
        <4> QED BY <4>1, <4>2
      <3> QED BY <3>2, <3>3 DEF j
    <2>5. Len(d.out) = 0 /\ ~(d.cap > 0)  BY <1>9, <2>3
    <2> HIDE DEF d
    <2>6. BufferRight(d)  BY <1>9, <2>3, <2>4, <2>5 DEF BufferRight
    <2> QED BY <2>3, <2>6 DEF d, w
  <1>10. CASE c.cap \notin {NullPtr, 0}
    <2>1. c.cap \in Nat /\ c.cap > 0 /\ m <= c.cap - 1  BY <1>1, <1>2, <1>3, <1>10
    <2> DEFINE o == Append(text, 0)
               x == [w EXCEPT !.out = o]
    <2>2. /\ o \in Seq(Nat) /\ Len(o) = m + 1 /\ o # <<>> /\ Last(o) = 0 /\ o = text \o <<0>>
      <3>1. o \in Seq(Nat) /\ Len(o) = m + 1 /\ o[m + 1] = 0  BY <1>3, <1>5
      <3>2. o # <<>> /\ Last(o) = 0  BY <1>3, <3>1 DEF Last
      <3>3. o = text \o <<0>>  BY <1>5, AppendIsConcat
      <3> QED BY <3>1, <3>2, <3>3
    <2>3. d = [x EXCEPT !.value = m]  BY <1>8, <1>10 DEF Terminated
    <2> HIDE DEF o
    <2>4. /\ x \in CallSet /\ x.offered = n /\ x.cap = c.cap /\ x.out = o /\ x.kind = "string" /\ x.failed = FALSE
      BY <1>8, <2>2, OutUpdate
    <2> HIDE DEF x, d
    <2>5. /\ d \in CallSet /\ d.offered = n /\ d.cap = c.cap /\ d.out = o /\ d.kind = "string"
          /\ d.failed = FALSE /\ d.value = m
      <3>1. m \in Int  BY <1>3
      <3> QED BY <2>3, <2>4, <3>1, ValueUpdate, ZenonT(40)
    <2>6. Max({0, Min({n, c.cap - 1})}) = m
      <3>1. n \in Int /\ c.cap - 1 \in Int /\ 0 \in Int /\ m \in Int /\ 0 <= m  BY <1>3, <2>1
      <3>2. Min({n, c.cap - 1}) = m  BY <1>2, <1>3, <1>10, <3>1, MinMax
      <3>3. Max({0, m}) = m  BY <3>1, MinMax
      <3> QED BY <3>2, <3>3
    <2>7. Len(d.out) <= IF d.cap = NullPtr THEN 0 ELSE d.cap
      BY <1>3, <2>1, <2>2, <2>5
    <2>8. d.out = [k \in 1..Max({0, Min({n, c.cap - 1})}) |-> k] \o <<0>>
      BY <2>2, <2>5, <2>6 DEF text
    <2>9. d.cap # NullPtr /\ d.out # <<>> /\ Last(d.out) = 0  BY <2>1, <2>2, <2>5
    <2>10. BufferRight(d)
      BY <2>5, <2>6, <2>7, <2>8, <2>9 DEF BufferRight
    <2> QED BY <2>5, <2>10 DEF d, w
  <1> QED BY <1>9, <1>10

\* with_formatter, and a text that fails: only its terminator is written.
LEMMA FillTextInv ==
  ASSUME NativeInv, NEW t \in CThreads, FillText(t) \/ (FailCall(t) /\ CallOf(t).kind = "string")
  PROVE  NativeInv'
  <1> DEFINE c == CallOf(t)
  <1>0. calls[t] # <<>> /\ UNCHANGED <<holder, drops>> /\ c.kind = "string"
    BY DEF FillText, FailCall, AtStep, Asked
  <1>1. c \in CallSet /\ FillRight(c)
    BY <1>0, TopRight
  <1>2. CASE FillText(t)
    <2>1. PICK n \in 0..MaxItems :
            FinishCall(t, [Terminated(WriteStr(c, n)) EXCEPT !.value = WriteStr(c, n).count])
      BY <1>2 DEF FillText
    <2> HIDE DEF c
    <2> DEFINE d == [Terminated(WriteStr(c, n)) EXCEPT !.value = WriteStr(c, n).count]
    <2>2. d \in CallSet /\ BufferRight(d)  BY <1>0, <1>1, TextRight
    <2> HIDE DEF d
    <2> QED BY <1>0, <2>1, <2>2, ReturnedInv DEF d
  <1>3. CASE FailCall(t)
    <2>1. FinishCall(t, [Terminated(c) EXCEPT !.failed = TRUE, !.value = -1])
      BY <1>0, <1>3 DEF FailCall
    <2> HIDE DEF c
    <2> DEFINE x == Terminated(c)
               d == [x EXCEPT !.failed = TRUE, !.value = -1]
    <2>2. c.out = <<>> /\ c.cap \in Nat \union {NullPtr}  BY <1>0, <1>1 DEF FillRight, CallSet
    <2>3. /\ x \in CallSet /\ x.kind = "string" /\ x.cap = c.cap
          /\ x.out = IF c.cap \in {NullPtr, 0} THEN <<>> ELSE <<0>>
      <3>1. Append(<<>>, 0) = <<0>> /\ <<0>> \in Seq(Nat)  OBVIOUS
      <3>2. x = IF c.cap \in {NullPtr, 0} THEN c ELSE [c EXCEPT !.out = <<0>>]
        BY <2>2, <3>1 DEF Terminated
      <3>3. CASE c.cap \in {NullPtr, 0}  BY <1>0, <1>1, <2>2, <3>2, <3>3
      <3>4. CASE c.cap \notin {NullPtr, 0}
        <4> DEFINE z == <<0>>
        <4>1. x = [c EXCEPT !.out = z] /\ z \in Seq(Nat)  BY <3>1, <3>2, <3>4
        <4> HIDE DEF x, z
        <4>2. x \in CallSet /\ x.kind = "string" /\ x.cap = c.cap /\ x.out = z
          BY <1>0, <1>1, <4>1, OutUpdate
        <4> QED BY <3>4, <4>2 DEF z
      <3> QED BY <3>3, <3>4
    <2> HIDE DEF x
    <2>4. -1 \in Int  OBVIOUS
    <2>5. d \in CallSet /\ d.kind = "string" /\ d.cap = c.cap /\ d.out = x.out /\ d.failed = TRUE
      BY <2>3, <2>4, ValueUpdate
    <2> HIDE DEF d
    <2>6. Len(<<>>) = 0 /\ Len(<<0>>) = 1 /\ Last(<<0>>) = 0 /\ <<0>> # <<>>  BY DEF Last
    <2>7. BufferRight(d)
      <3>1. CASE c.cap \in {NullPtr, 0}  BY <2>3, <2>5, <2>6, <3>1 DEF BufferRight
      <3>2. CASE c.cap \notin {NullPtr, 0}
        <4>1. d.out = <<0>> /\ c.cap >= 1  BY <2>2, <2>3, <2>5, <3>2
        <4> QED BY <2>5, <2>6, <3>2, <4>1 DEF BufferRight
      <3> QED BY <3>1, <3>2
    <2> QED BY <1>0, <2>1, <2>5, <2>7, ReturnedInv DEF d, x
  <1> QED BY <1>2, <1>3

-----------------------------------------------------------------------------
(* Theorems *)

\* No error, no backend, no call.
LEMMA NativeInitInv == NativeInit => NativeInv
  <1> SUFFICES ASSUME NativeInit PROVE NativeInv
    OBVIOUS
  <1> USE DEF NativeInit
  <1>1. NativeTypeOK /\ lastError = expected  BY DEF NativeTypeOK
  <1>2. \A t \in CThreads : DOMAIN calls[t] = {}  OBVIOUS
  <1>3. HoldersRight /\ DroppedOnce /\ FillsRight  BY <1>2 DEF HoldersRight, DroppedOnce, FillsRight
  <1>4. BuffersRight  BY DEF BuffersRight, BufferRight, NoCall
  <1> QED BY <1>1, <1>3, <1>4 DEF NativeInv

\* Whatever the threads of the program call, and the callbacks they give,
\* NativeInv holds.
THEOREM NativeInvariant == NativeSpec => []NativeInv
  <1>1. ASSUME NativeInv, [NativeNext]_nativeVars PROVE NativeInv'
    <2>1. CASE UNCHANGED nativeVars
      <3>1. NativeTypeOK' /\ (lastError = expected)'
        BY <1>1, <2>1 DEF nativeVars, NativeInv, NativeTypeOK
      <3>2. HoldersRight'
        BY <1>1, <2>1, HoldersKept DEF nativeVars
      <3>3. DroppedOnce' /\ FillsRight' /\ BuffersRight'
        BY <1>1, <2>1 DEF nativeVars, NativeInv, DroppedOnce, FillsRight, FillRight, BuffersRight, BufferRight
      <3> QED BY <3>1, <3>2, <3>3 DEF NativeInv
    <2>2. ASSUME NEW t \in CThreads, NEW b \in Backends,
                 BackendMake(t, b) \/ Connect(t, b) \/ BackendFree(t, b) \/ OsNew(t, b) \/ OsFree(t, b) \/ Ask(t, b)
          PROVE  NativeInv'
      BY <1>1, <2>2, HandOverInv, CallsInv
    <2>3. ASSUME NEW t \in CThreads, FailCall(t) PROVE NativeInv'
      BY <1>1, <2>3, FillArrayInv, FillTextInv, PlainReturnsInv
    <2>4. ASSUME NEW t \in CThreads,
                 \/ Connected(t) \/ Guess(t) \/ Built(t) \/ DropFailed(t) \/ Dropped(t)
                 \/ CallBack(t) \/ CallbackReturns(t) \/ Valued(t)
                 \/ FillItem(t) \/ FillText(t) \/ Filled(t) \/ TakeLastError(t)
          PROVE  NativeInv'
      BY <1>1, <2>4, OwnersReturn, GoOnInv, DropFailedInv, PlainReturnsInv, FillArrayInv, FillTextInv,
         TakeLastErrorInv
    <2> QED BY <1>1, <2>1, <2>2, <2>3, <2>4 DEF NativeNext
  <1> QED BY <1>1, NativeInitInv, PTL DEF NativeSpec

\* The error of a thread is the one of its own last call, whatever other
\* threads and its own callbacks call in between.
THEOREM OwnLastErrorAlways == NativeSpec => []OwnLastError
  <1>1. NativeInv => OwnLastError  BY DEF NativeInv, OwnLastError
  <1> QED BY <1>1, NativeInvariant, PTL

\* A backend is dropped once, on every path, when no call can use it.
THEOREM DroppedOnceAlways == NativeSpec => []DroppedOnce
  <1>1. NativeInv => DroppedOnce  BY DEF NativeInv
  <1> QED BY <1>1, NativeInvariant, PTL

\* No buffer is written past its end, and what is in it is what was asked.
THEOREM BuffersRightAlways == NativeSpec => []BuffersRight
  <1>1. NativeInv => BuffersRight  BY DEF NativeInv
  <1> QED BY <1>1, NativeInvariant, PTL

HIDE NativeAssumption DEF NullPtr

-----------------------------------------------------------------------------
(* Sums and concatenations, step by step *)

\* A function that is defined by adding up numbers exists.
LEMMA SumExists ==
  ASSUME NEW N \in Nat, NEW c
  PROVE  \E h : h = [m \in 0 .. N |-> IF m = 0 THEN 0 ELSE h[m - 1] + c[m]]
<1>. DEFINE F(h, n) == [m \in 0 .. n |-> IF m = 0 THEN 0 ELSE h[m - 1] + c[m]]
            G == {n \in Nat : \E h : h = F(h, n)}
<1>1. 0 \in G
  <2>. DEFINE h == [m \in 0 .. 0 |-> 0]
  <2>1. h = F(h, 0)
    OBVIOUS
  <2>. QED BY <2>1, Zenon
<1>2. ASSUME NEW n \in 0 .. (N - 1), n \in G PROVE n + 1 \in G
  <2>1. PICK h : h = F(h, n)
    BY <1>2
  <2>. DEFINE k == [m \in 0 .. (n + 1) |-> IF m = n + 1 THEN h[n] + c[n + 1] ELSE h[m]]
  <2>2. \A m \in 0 .. (n + 1) : k[m] = IF m = 0 THEN 0 ELSE k[m - 1] + c[m]
    <3>. TAKE m \in 0 .. (n + 1)
    <3>1. CASE m = n + 1
      <4>1. m # 0 /\ m - 1 = n /\ n \in 0 .. (n + 1) /\ n # n + 1
        BY <3>1
      <4>2. k[m] = h[n] + c[m] /\ k[n] = h[n]
        BY <3>1, <4>1
      <4>. HIDE DEF k
      <4>. QED BY <4>1, <4>2
    <3>2. CASE m # n + 1
      <4>1. m \in 0 .. n /\ (m # 0 => m - 1 \in 0 .. n)
        BY <3>2
      <4>2. h[m] = IF m = 0 THEN 0 ELSE h[m - 1] + c[m]
        BY <2>1, <4>1
      <4>3. k[m] = h[m] /\ (m # 0 => k[m - 1] = h[m - 1])
        BY <3>2, <4>1
      <4>. QED BY <4>2, <4>3
    <3>. QED BY <3>1, <3>2
  <2>3. k = F(k, n + 1)
    BY <2>2
  <2>4. n + 1 \in Nat
    OBVIOUS
  <2>. HIDE DEF k, F
  <2>. QED BY <2>3, <2>4
<1>3. N \in G
  <2>. HIDE DEF G
  <2>1. \A n \in 0 .. N : n \in G
    BY <1>1, <1>2, InductionUpTo
  <2>. QED BY <2>1
<1>. QED BY <1>3

\* And one that is defined by putting sequences together.
LEMMA ConcatExists ==
  ASSUME NEW N \in Nat, NEW c
  PROVE  \E h : h = [m \in 0 .. N |-> IF m = 0 THEN <<>> ELSE h[m - 1] \o c[m]]
<1>. DEFINE F(h, n) == [m \in 0 .. n |-> IF m = 0 THEN <<>> ELSE h[m - 1] \o c[m]]
            G == {n \in Nat : \E h : h = F(h, n)}
<1>1. 0 \in G
  <2>. DEFINE h == [m \in 0 .. 0 |-> <<>>]
  <2>1. h = F(h, 0)
    OBVIOUS
  <2>. QED BY <2>1, Zenon
<1>2. ASSUME NEW n \in 0 .. (N - 1), n \in G PROVE n + 1 \in G
  <2>1. PICK h : h = F(h, n)
    BY <1>2
  <2>. DEFINE k == [m \in 0 .. (n + 1) |-> IF m = n + 1 THEN h[n] \o c[n + 1] ELSE h[m]]
  <2>2. \A m \in 0 .. (n + 1) : k[m] = IF m = 0 THEN <<>> ELSE k[m - 1] \o c[m]
    <3>. TAKE m \in 0 .. (n + 1)
    <3>1. CASE m = n + 1
      <4>1. m # 0 /\ m - 1 = n /\ n \in 0 .. (n + 1) /\ n # n + 1
        BY <3>1
      <4>2. k[m] = h[n] \o c[m] /\ k[n] = h[n]
        BY <3>1, <4>1
      <4>. HIDE DEF k
      <4>. QED BY <4>1, <4>2
    <3>2. CASE m # n + 1
      <4>1. m \in 0 .. n /\ (m # 0 => m - 1 \in 0 .. n)
        BY <3>2
      <4>2. h[m] = IF m = 0 THEN <<>> ELSE h[m - 1] \o c[m]
        BY <2>1, <4>1
      <4>3. k[m] = h[m] /\ (m # 0 => k[m - 1] = h[m - 1])
        BY <3>2, <4>1
      <4>. QED BY <4>2, <4>3
    <3>. QED BY <3>1, <3>2
  <2>3. k = F(k, n + 1)
    BY <2>2
  <2>4. n + 1 \in Nat
    OBVIOUS
  <2>. HIDE DEF k, F
  <2>. QED BY <2>3, <2>4
<1>3. N \in G
  <2>. HIDE DEF G
  <2>1. \A n \in 0 .. N : n \in G
    BY <1>1, <1>2, InductionUpTo
  <2>. QED BY <2>1
<1>. QED BY <1>3

\* Two sequences one after the other.
LEMMA ConcatAt ==
  ASSUME NEW S, NEW s \in Seq(S), NEW t \in Seq(S)
  PROVE  /\ s \o t \in Seq(S) /\ Len(s) \in Nat /\ Len(t) \in Nat
         /\ Len(s \o t) = Len(s) + Len(t)
         /\ \A i \in 1 .. Len(s) : (s \o t)[i] = s[i]
         /\ \A i \in 1 .. Len(t) : (s \o t)[Len(s) + i] = t[i]
<1>1. Len(s) \in Nat /\ Len(t) \in Nat
  BY LenProperties
<1>. DEFINE st == s \o t
<1>2. st \in Seq(S) /\ Len(st) = Len(s) + Len(t)
      /\ \A i \in 1 .. Len(s) + Len(t) : st[i] = IF i <= Len(s) THEN s[i] ELSE t[i - Len(s)]
  BY ConcatProperties
<1>. HIDE DEF st
<1>3. \A i \in 1 .. Len(s) : st[i] = s[i]
  BY <1>1, <1>2
<1>4. ASSUME NEW i \in 1 .. Len(t) PROVE st[Len(s) + i] = t[i]
  <2>1. Len(s) + i \in 1 .. Len(s) + Len(t) /\ ~(Len(s) + i <= Len(s)) /\ Len(s) + i - Len(s) = i
    BY <1>1
  <2>. QED BY <1>2, <2>1
<1>. QED BY <1>1, <1>2, <1>3, <1>4 DEF st

-----------------------------------------------------------------------------
(* The layout of a dump *)

\* What a file is made of.
Things == {<<"header", n, v>> : n, v \in Nat} \union {<<"mapping", a, b>> : a, b \in Nat}
          \union {<<"vcpu", k>> : k \in Nat} \union {<<"cell", a>> : a \in Nat}

\* Concatenation is associative.
LEMMA Associative ==
  \A s, t, u \in Seq(Things) : (s \o t) \o u = s \o (t \o u)
<1>. SUFFICES ASSUME NEW s \in Seq(Things), NEW t \in Seq(Things), NEW u \in Seq(Things)
     PROVE  (s \o t) \o u = s \o (t \o u)
  OBVIOUS
<1>. QED BY ConcatAssociative

\* A guest as DumpAssumption has it.
IsGuest(g) ==
  /\ g.mappings \in Seq([start : Nat, end : Nat])
  /\ \A m \in 1 .. Len(g.mappings) : g.mappings[m].start <= g.mappings[m].end
  /\ g.vcpus \in Nat

LEMMA GuestsAre == \A g \in Guests : IsGuest(g)
BY DumpAssumption, LenProperties DEF IsGuest

\* A mapping is a record of two numbers.
LEMMA MappingType ==
  ASSUME NEW g, IsGuest(g), NEW m \in 1 .. Len(g.mappings)
  PROVE  /\ Len(g.mappings) \in Nat
         /\ g.mappings[m].start \in Nat /\ g.mappings[m].end \in Nat
         /\ Size(g, m) \in Nat
         /\ g.mappings[m].end = g.mappings[m].start + Size(g, m)
<1>1. Len(g.mappings) \in Nat
  BY LenProperties DEF IsGuest
<1>2. g.mappings[m] \in [start : Nat, end : Nat]
  BY ElementOfSeq DEF IsGuest
<1>3. g.mappings[m].start <= g.mappings[m].end
  BY DEF IsGuest
<1>. QED BY <1>1, <1>2, <1>3 DEF Size

LEMMA CellsProperties ==
  ASSUME NEW a \in Nat, NEW n \in Nat
  PROVE  /\ Cells(a, n) \in Seq(Things) /\ Len(Cells(a, n)) = n
         /\ \A j \in 1 .. n : Cells(a, n)[j] = <<"cell", a + j - 1>>
<1>1. \A j \in 1 .. n : <<"cell", a + j - 1>> \in Things
  <2>. TAKE j \in 1 .. n
  <2>1. a + j - 1 \in Nat
    OBVIOUS
  <2>. QED BY <2>1 DEF Things
<1>2. Cells(a, n) = [k \in 1 .. n |-> <<"cell", a + k - 1>>]
  BY DEF Cells
<1>3. Cells(a, n) \in [1 .. n -> Things]
  BY <1>1, <1>2
<1>4. Cells(a, n) \in Seq(Things) /\ Len(Cells(a, n)) = n
  BY <1>3, SeqOfLength
<1>. QED BY <1>2, <1>4

\* The recursion of MemoryUpTo.
LEMMA MemoryUpToStep ==
  ASSUME NEW g, IsGuest(g)
  PROVE  /\ MemoryUpTo(g)[0] = <<>>
         /\ \A m \in 1 .. Len(g.mappings) :
              MemoryUpTo(g)[m] = MemoryUpTo(g)[m - 1] \o Cells(g.mappings[m].start, Size(g, m))
<1>. DEFINE N == Len(g.mappings)
            F(h) == [m \in 0 .. N |->
                       IF m = 0 THEN <<>> ELSE h[m - 1] \o Cells(g.mappings[m].start, Size(g, m))]
            c == [m \in 1 .. N |-> Cells(g.mappings[m].start, Size(g, m))]
<1>1. N \in Nat
  BY LenProperties DEF IsGuest
<1>2. MemoryUpTo(g) = CHOOSE h : h = F(h)
  BY Zenon DEF MemoryUpTo
<1>3. \E h : h = F(h)
  <2>1. PICK h : h = [m \in 0 .. N |-> IF m = 0 THEN <<>> ELSE h[m - 1] \o c[m]]
    BY <1>1, ConcatExists
  <2>2. \A m \in 0 .. N : m # 0 => m \in 1 .. N /\ c[m] = Cells(g.mappings[m].start, Size(g, m))
    BY <1>1
  <2>3. F(h) = [m \in 0 .. N |-> IF m = 0 THEN <<>> ELSE h[m - 1] \o c[m]]
    BY <2>2
  <2>. QED BY <2>1, <2>3
<1>. HIDE DEF F
<1>4. MemoryUpTo(g) = F(MemoryUpTo(g))
  BY <1>2, <1>3, Zenon
<1>. QED BY <1>1, <1>4 DEF F

\* Where the cells of each mapping are in the memory, and how long it is.
MemoryRight(g, m) ==
  /\ MemoryUpTo(g)[m] \in Seq(Things)
  /\ \A k \in 1 .. m :
       /\ Len(MemoryUpTo(g)[k - 1]) + Size(g, k) <= Len(MemoryUpTo(g)[m])
       /\ \A j \in 1 .. Size(g, k) :
            MemoryUpTo(g)[m][Len(MemoryUpTo(g)[k - 1]) + j] = <<"cell", g.mappings[k].start + j - 1>>

LEMMA MemoryIsRight ==
  ASSUME NEW g, IsGuest(g)
  PROVE  \A m \in 0 .. Len(g.mappings) : MemoryRight(g, m)
<1>. DEFINE N == Len(g.mappings)
            G == {m \in 0 .. N : \A i \in 0 .. m : MemoryRight(g, i)}
<1>0. N \in Nat
  BY LenProperties DEF IsGuest
<1>1. 0 \in G
  <2>1. MemoryRight(g, 0)
    <3>1. MemoryUpTo(g)[0] = <<>>
      BY MemoryUpToStep
    <3>2. MemoryUpTo(g)[0] \in Seq(Things)
      BY <3>1
    <3>. QED BY <3>2 DEF MemoryRight
  <2>. QED BY <1>0, <2>1
<1>2. ASSUME NEW m \in 0 .. (N - 1), m \in G PROVE m + 1 \in G
  <2>. DEFINE n == m + 1
              old == MemoryUpTo(g)[m]
              cells == Cells(g.mappings[n].start, Size(g, n))
              new == MemoryUpTo(g)[n]
  <2>1. n \in 1 .. N /\ n - 1 = m /\ m \in Nat
    BY <1>0
  <2>2. new = old \o cells
    BY <2>1, MemoryUpToStep
  <2>3. \A i \in 0 .. m : MemoryRight(g, i)
    BY <1>2
  <2>4. old \in Seq(Things)
    BY <2>1, <2>3 DEF MemoryRight
  <2>5. g.mappings[n].start \in Nat /\ Size(g, n) \in Nat
    BY <2>1, MappingType
  <2>6. cells \in Seq(Things) /\ Len(cells) = Size(g, n)
        /\ \A j \in 1 .. Size(g, n) : cells[j] = <<"cell", g.mappings[n].start + j - 1>>
    BY <2>5, CellsProperties
  <2>. HIDE DEF cells, old, new
  <2>7. new \in Seq(Things) /\ Len(new) = Len(old) + Len(cells)
        /\ \A i \in 1 .. Len(old) + Len(cells) : new[i] = IF i <= Len(old) THEN old[i] ELSE cells[i - Len(old)]
    BY <2>2, <2>4, <2>6, ConcatProperties
  <2>8. Len(old) \in Nat
    BY <2>4, LenProperties
  <2>9. ASSUME NEW k \in 1 .. n
        PROVE  /\ Len(MemoryUpTo(g)[k - 1]) + Size(g, k) <= Len(new)
               /\ \A j \in 1 .. Size(g, k) :
                    new[Len(MemoryUpTo(g)[k - 1]) + j] = <<"cell", g.mappings[k].start + j - 1>>
    <3>1. CASE k = n
      <4>1. Len(MemoryUpTo(g)[k - 1]) = Len(old)
        BY <2>1, <3>1 DEF old
      <4>2. \A j \in 1 .. Size(g, k) : new[Len(old) + j] = cells[j]
        BY <2>5, <2>6, <2>7, <2>8, <3>1
      <4>. QED BY <2>5, <2>6, <2>7, <2>8, <3>1, <4>1, <4>2
    <3>2. CASE k # n
      <4>1. k \in 1 .. m /\ k - 1 \in 0 .. m /\ k \in 1 .. N
        BY <2>1, <3>2
      <4>2. /\ Len(MemoryUpTo(g)[k - 1]) + Size(g, k) <= Len(old)
            /\ \A j \in 1 .. Size(g, k) :
                 old[Len(MemoryUpTo(g)[k - 1]) + j] = <<"cell", g.mappings[k].start + j - 1>>
        <5>1. MemoryRight(g, m)
          BY <2>1, <2>3
        <5>. QED BY <4>1, <5>1 DEF MemoryRight, old
      <4>3. Len(MemoryUpTo(g)[k - 1]) \in Nat
        BY <2>3, <4>1, LenProperties DEF MemoryRight
      <4>4. Size(g, k) \in Nat
        BY <4>1, MappingType
      <4>. DEFINE d == Len(MemoryUpTo(g)[k - 1])
                  s == Size(g, k)
                  o == Len(old)
      <4>5. d \in Nat /\ s \in Nat /\ o \in Nat /\ Len(cells) \in Nat /\ d + s <= o
        BY <2>5, <2>6, <2>8, <4>2, <4>3, <4>4
      <4>. HIDE DEF d, s, o
      <4>6. ASSUME NEW j \in 1 .. s PROVE new[d + j] = old[d + j]
        <5>1. d + j \in 1 .. o + Len(cells) /\ d + j <= o
          BY <4>5
        <5>. QED BY <2>7, <5>1 DEF o
      <4>7. d + s <= Len(new)
        BY <2>7, <4>5 DEF o
      <4>. QED BY <4>2, <4>6, <4>7 DEF d, s
    <3>. QED BY <3>1, <3>2
  <2>10. MemoryRight(g, n)
    BY <2>7, <2>9 DEF MemoryRight, new
  <2>. QED BY <1>0, <2>1, <2>3, <2>10
<1>. HIDE DEF G
<1>3. \A m \in 0 .. N : m \in G
  BY <1>0, <1>1, <1>2, InductionUpTo
<1>. QED BY <1>0, <1>3 DEF G

\* The items in front of the memory.
LEMMA PreludeRight ==
  ASSUME NEW g, IsGuest(g)
  PROVE  /\ Prelude(g) \in Seq(Things)
         /\ Len(g.mappings) \in Nat
         /\ Len(Prelude(g)) = 1 + Len(g.mappings) + 3 * g.vcpus
         /\ Prelude(g)[1] = <<"header", Len(g.mappings), g.vcpus>>
         /\ \A m \in 1 .. Len(g.mappings) :
              Prelude(g)[1 + m] = <<"mapping", g.mappings[m].start, g.mappings[m].end>>
<1>. DEFINE N == Len(g.mappings)
            h == <<HeaderOf(g)>>
            ms == MappingItems(g)
            vs == VcpuItems(g)
<1>1. N \in Nat /\ g.vcpus \in Nat
  BY LenProperties DEF IsGuest
<1>2. h \in Seq(Things) /\ Len(h) = 1 /\ h[1] = <<"header", N, g.vcpus>>
  <2>1. <<"header", N, g.vcpus>> \in Things
    BY <1>1 DEF Things
  <2>. QED BY <2>1 DEF HeaderOf
<1>3. ms \in Seq(Things) /\ Len(ms) = N
      /\ \A m \in 1 .. N : ms[m] = <<"mapping", g.mappings[m].start, g.mappings[m].end>>
  <2>1. \A m \in 1 .. N : <<"mapping", g.mappings[m].start, g.mappings[m].end>> \in Things
    BY MappingType DEF Things
  <2>2. ms = [m \in 1 .. N |-> <<"mapping", g.mappings[m].start, g.mappings[m].end>>]
    BY DEF MappingItems
  <2>3. ms \in [1 .. N -> Things]
    BY <2>1, <2>2
  <2>. QED BY <1>1, <2>2, <2>3, SeqOfLength
<1>4. vs \in Seq(Things) /\ Len(vs) = 3 * g.vcpus
  <2>1. vs = [k \in 1 .. 3 * g.vcpus |-> <<"vcpu", k>>]
    BY DEF VcpuItems
  <2>2. vs \in [1 .. 3 * g.vcpus -> Things]
    BY <1>1, <2>1 DEF Things
  <2>3. 3 * g.vcpus \in Nat
    BY <1>1
  <2>. QED BY <2>2, <2>3, SeqOfLength
<1>. DEFINE hm == h \o ms
<1>5. Prelude(g) = hm \o vs
  BY DEF Prelude
<1>. HIDE DEF h, ms, vs
<1>6. hm \in Seq(Things) /\ Len(hm) = 1 + N /\ hm[1] = h[1] /\ \A m \in 1 .. N : hm[1 + m] = ms[m]
  <2>1. h \in Seq(Things) /\ ms \in Seq(Things)
    BY <1>2, <1>3
  <2>2. /\ hm \in Seq(Things) /\ Len(hm) = Len(h) + Len(ms)
        /\ \A i \in 1 .. Len(h) : hm[i] = h[i]
        /\ \A i \in 1 .. Len(ms) : hm[Len(h) + i] = ms[i]
    BY ONLY <2>1, ConcatAt
  <2>. HIDE DEF hm
  <2>. QED BY <1>1, <1>2, <1>3, <2>2
<1>. HIDE DEF hm
<1>7. hm \o vs \in Seq(Things) /\ Len(hm \o vs) = 1 + N + 3 * g.vcpus
      /\ \A i \in 1 .. 1 + N : (hm \o vs)[i] = hm[i]
  <2>1. hm \o vs \in Seq(Things) /\ Len(hm \o vs) = Len(hm) + Len(vs)
        /\ \A i \in 1 .. Len(hm) : (hm \o vs)[i] = hm[i]
    <3>1. hm \in Seq(Things) /\ vs \in Seq(Things)
      BY <1>4, <1>6
    <3>. QED BY ONLY <3>1, ConcatAt
  <2>. QED BY <1>1, <1>4, <1>6, <2>1
<1>8. Prelude(g)[1] = <<"header", N, g.vcpus>>
  BY <1>1, <1>2, <1>5, <1>6, <1>7
<1>9. ASSUME NEW m \in 1 .. N
      PROVE  Prelude(g)[1 + m] = <<"mapping", g.mappings[m].start, g.mappings[m].end>>
  <2>1. 1 + m \in 1 .. 1 + N
    BY <1>1
  <2>. QED BY <1>3, <1>5, <1>6, <1>7, <2>1
<1>. QED BY <1>1, <1>5, <1>7, <1>8, <1>9

\* Where the memory of a mapping begins in that of the guest.
At(g, m) == Len(MemoryUpTo(g)[m - 1])

\* What is where in a complete dump.
FullRight(g) ==
  /\ Full(g) \in Seq(Things)
  /\ Len(Prelude(g)) \in Nat /\ Len(Memory(g)) \in Nat /\ Len(g.mappings) \in Nat
  /\ Len(Full(g)) = Len(Prelude(g)) + Len(Memory(g))
  /\ \A i \in 1 .. Len(Prelude(g)) : Full(g)[i] = Prelude(g)[i]
  /\ At(g, 1) = 0 /\ At(g, Len(g.mappings) + 1) = Len(Memory(g))
  /\ \A m \in 1 .. Len(g.mappings) :
       /\ At(g, m) \in Nat /\ At(g, m + 1) = At(g, m) + Size(g, m)
       /\ At(g, m) + Size(g, m) <= Len(Memory(g))
       /\ \A j \in 1 .. Size(g, m) :
            Full(g)[Len(Prelude(g)) + At(g, m) + j] = <<"cell", g.mappings[m].start + j - 1>>

LEMMA FullIsRight ==
  ASSUME NEW g, IsGuest(g)
  PROVE  FullRight(g)
<1>. DEFINE N == Len(g.mappings)
            P == Len(Prelude(g))
<1>1. N \in Nat /\ Prelude(g) \in Seq(Things) /\ P \in Nat
  BY PreludeRight, LenProperties
<1>2. \A m \in 0 .. N : MemoryRight(g, m)
  BY MemoryIsRight
<1>3. MemoryRight(g, N) /\ Memory(g) = MemoryUpTo(g)[N]
  BY <1>1, <1>2 DEF Memory
<1>4. Memory(g) \in Seq(Things) /\ Len(Memory(g)) \in Nat
  BY <1>3, LenProperties DEF MemoryRight
<1>5. /\ Full(g) \in Seq(Things) /\ Len(Full(g)) = P + Len(Memory(g))
      /\ \A i \in 1 .. P : Full(g)[i] = Prelude(g)[i]
      /\ \A i \in 1 .. Len(Memory(g)) : Full(g)[P + i] = Memory(g)[i]
  BY <1>1, <1>4, ConcatAt DEF Full
<1>7. At(g, 1) = 0
  <2>1. MemoryUpTo(g)[0] = <<>>
    BY MemoryUpToStep
  <2>2. MemoryUpTo(g)[1 - 1] = <<>>
    BY <2>1
  <2>. QED BY <2>2, EmptySeq DEF At
<1>8. At(g, N + 1) = Len(Memory(g))
  BY <1>1, <1>3 DEF At
<1>9. ASSUME NEW m \in 1 .. N
      PROVE  /\ At(g, m) \in Nat /\ At(g, m + 1) = At(g, m) + Size(g, m)
             /\ At(g, m) + Size(g, m) <= Len(Memory(g))
             /\ \A j \in 1 .. Size(g, m) :
                  Full(g)[P + At(g, m) + j] = <<"cell", g.mappings[m].start + j - 1>>
  <2>. DEFINE cells == Cells(g.mappings[m].start, Size(g, m))
              old == MemoryUpTo(g)[m - 1]
  <2>1. m - 1 \in 0 .. N /\ m \in 0 .. N /\ (m + 1) - 1 = m
    BY <1>1
  <2>2. old \in Seq(Things) /\ Len(old) \in Nat
    BY <1>2, <2>1, LenProperties DEF MemoryRight
  <2>3. Size(g, m) \in Nat /\ g.mappings[m].start \in Nat
    BY MappingType
  <2>4. cells \in Seq(Things) /\ Len(cells) = Size(g, m)
    BY <2>3, CellsProperties
  <2>5. MemoryUpTo(g)[m] = old \o cells
    BY MemoryUpToStep
  <2>6. Len(MemoryUpTo(g)[m]) = Len(old) + Size(g, m)
    <3>. HIDE DEF old, cells
    <3>. QED BY <2>2, <2>4, <2>5, ConcatProperties
  <2>7. At(g, m) = Len(old) /\ At(g, m + 1) = Len(MemoryUpTo(g)[m])
    BY <2>1 DEF At
  <2>8. /\ At(g, m) + Size(g, m) <= Len(Memory(g))
        /\ \A j \in 1 .. Size(g, m) : Memory(g)[At(g, m) + j] = <<"cell", g.mappings[m].start + j - 1>>
    BY <1>3 DEF MemoryRight, At
  <2>9. ASSUME NEW j \in 1 .. Size(g, m)
        PROVE  Full(g)[P + At(g, m) + j] = <<"cell", g.mappings[m].start + j - 1>>
    <3>. DEFINE a == At(g, m)
                M == Len(Memory(g))
    <3>1. a \in Nat /\ M \in Nat /\ a + Size(g, m) <= M
      BY <1>4, <2>2, <2>7, <2>8
    <3>. HIDE DEF a, M, P
    <3>2. a + j \in 1 .. M /\ P + a + j = P + (a + j)
      BY <1>1, <2>3, <3>1
    <3>3. Full(g)[P + (a + j)] = Memory(g)[a + j]
      BY <1>5, <3>2 DEF M, P
    <3>4. Full(g)[P + a + j] = Memory(g)[a + j]
      BY <3>2, <3>3
    <3>. QED BY <2>8, <3>4 DEF a, P
  <2>. QED BY <2>2, <2>6, <2>7, <2>8, <2>9
<1>. QED BY <1>1, <1>4, <1>5, <1>7, <1>8, <1>9 DEF FullRight

-----------------------------------------------------------------------------
(* The reader *)

\* The file f is a beginning of the dump of g.
Begins(f, g) ==
  /\ f \in Seq(Things) /\ Len(f) \in Nat /\ Len(f) <= Len(Full(g))
  /\ \A i \in 1 .. Len(f) : f[i] = Full(g)[i]

\* A beginning that is as long as the dump is all of it.
LEMMA WholeDump ==
  ASSUME NEW g, IsGuest(g), NEW f, Begins(f, g), Len(f) >= Len(Full(g))
  PROVE  f = Full(g)
<1>1. Full(g) \in Seq(Things) /\ Len(Full(g)) \in Nat
  BY FullIsRight, LenProperties DEF FullRight
<1>2. f \in Seq(Things) /\ Len(f) = Len(Full(g)) /\ \A i \in 1 .. Len(f) : f[i] = Full(g)[i]
  BY <1>1 DEF Begins
<1>. QED BY <1>1, <1>2, SeqEqual

\* A dump begins with itself.
LEMMA DumpBegins ==
  ASSUME NEW g, IsGuest(g)
  PROVE  Begins(Full(g), g)
<1>1. Full(g) \in Seq(Things) /\ Len(Full(g)) \in Nat
  BY FullIsRight, LenProperties DEF FullRight
<1>. QED BY <1>1 DEF Begins

\* The file exists.
LEMMA BeginsIsFile ==
  ASSUME NEW g, IsGuest(g), NEW f, Begins(f, g)
  PROVE  f # NoFile
<1>0. SUFFICES ASSUME f = NoFile PROVE FALSE
  OBVIOUS
<1>1. 1 \in 1 .. Len(f) /\ f[1] = <<"no file">>
  <2>1. Len(NoFile) = 1 /\ NoFile[1] = <<"no file">>
    BY DEF NoFile
  <2>2. Len(f) = 1
    BY <1>0, <2>1, Zenon
  <2>3. f[1] = <<"no file">>
    BY <1>0, <2>1, Zenon
  <2>4. 1 \in 1 .. Len(f)
    BY ONLY <2>2
  <2>. QED BY <2>3, <2>4, Zenon
<1>2. Prelude(g)[1] = <<"header", Len(g.mappings), g.vcpus>>
      /\ Len(Prelude(g)) = 1 + Len(g.mappings) + 3 * g.vcpus /\ Len(g.mappings) \in Nat /\ g.vcpus \in Nat
  BY PreludeRight DEF IsGuest
<1>3. Full(g)[1] = Prelude(g)[1]
  <2>1. 1 \in 1 .. Len(Prelude(g))
    BY <1>2
  <2>. QED BY <2>1, FullIsRight DEF FullRight
<1>4. f[1] = Full(g)[1]
  <2>1. \A i \in 1 .. Len(f) : f[i] = Full(g)[i]
    BY DEF Begins
  <2>. QED BY ONLY <1>1, <2>1
<1>5. <<"no file">> = <<"header", Len(g.mappings), g.vcpus>>
  BY <1>1, <1>2, <1>3, <1>4
<1>. QED BY <1>5

\* What the reader finds in a file that has the header.
LEMMA HeaderRead ==
  ASSUME NEW g, IsGuest(g), NEW f, Begins(f, g), Len(f) >= 1
  PROVE  /\ NMappings(f) = Len(g.mappings) /\ NVcpus(f) = g.vcpus
         /\ MemStart(f) = Len(Prelude(g))
<1>1. /\ Prelude(g)[1] = <<"header", Len(g.mappings), g.vcpus>>
      /\ Len(Prelude(g)) = 1 + Len(g.mappings) + 3 * g.vcpus /\ Len(g.mappings) \in Nat /\ g.vcpus \in Nat
  BY PreludeRight DEF IsGuest
<1>2. Full(g)[1] = Prelude(g)[1]
  <2>1. 1 \in 1 .. Len(Prelude(g))
    BY <1>1
  <2>. QED BY <2>1, FullIsRight DEF FullRight
<1>3. f[1] = Full(g)[1]
  BY DEF Begins
<1>4. f[1] = <<"header", Len(g.mappings), g.vcpus>>
  BY <1>1, <1>2, <1>3
<1>5. NMappings(f) = Len(g.mappings) /\ NVcpus(f) = g.vcpus
  BY <1>4 DEF NMappings, NVcpus
<1>. QED BY <1>1, <1>5 DEF MemStart

\* The recursion of SizeUpTo.
LEMMA SizeUpToStep ==
  ASSUME NEW f, NMappings(f) \in Nat
  PROVE  /\ SizeUpTo(f)[0] = 0
         /\ \A m \in 1 .. NMappings(f) :
              SizeUpTo(f)[m] = SizeUpTo(f)[m - 1] + (MappingAt(f, m).end - MappingAt(f, m).start)
<1>. DEFINE N == NMappings(f)
            F(h) == [m \in 0 .. N |->
                       IF m = 0 THEN 0 ELSE h[m - 1] + (MappingAt(f, m).end - MappingAt(f, m).start)]
            c == [m \in 1 .. N |-> MappingAt(f, m).end - MappingAt(f, m).start]
<1>1. SizeUpTo(f) = CHOOSE h : h = F(h)
  BY Zenon DEF SizeUpTo
<1>2. \E h : h = F(h)
  <2>1. PICK h : h = [m \in 0 .. N |-> IF m = 0 THEN 0 ELSE h[m - 1] + c[m]]
    BY SumExists
  <2>2. \A m \in 0 .. N : m # 0 => m \in 1 .. N /\ c[m] = MappingAt(f, m).end - MappingAt(f, m).start
    OBVIOUS
  <2>3. F(h) = [m \in 0 .. N |-> IF m = 0 THEN 0 ELSE h[m - 1] + c[m]]
    BY <2>2
  <2>. QED BY <2>1, <2>3
<1>. HIDE DEF F
<1>3. SizeUpTo(f) = F(SizeUpTo(f))
  BY <1>1, <1>2, Zenon
<1>. QED BY <1>3 DEF F

\* The sizes the reader adds up are those of the guest.
LEMMA SizesRead ==
  ASSUME NEW g, IsGuest(g), NEW f, Begins(f, g), Len(f) >= 1, Len(f) >= MemStart(f)
  PROVE  /\ \A m \in 1 .. Len(g.mappings) :
              /\ MappingAt(f, m).start = g.mappings[m].start
              /\ MappingAt(f, m).end = g.mappings[m].end
              /\ RemapAt(f, m) = At(g, m)
         /\ MemSize(f) = Len(Memory(g))
<1>. DEFINE N == Len(g.mappings)
<1>1. NMappings(f) = N /\ MemStart(f) = Len(Prelude(g)) /\ N \in Nat
  BY HeaderRead, PreludeRight
<1>2. FullRight(g)
  BY FullIsRight
<1>3. ASSUME NEW m \in 1 .. N
      PROVE  MappingAt(f, m).start = g.mappings[m].start /\ MappingAt(f, m).end = g.mappings[m].end
  <2>1. Len(Prelude(g)) = 1 + N + 3 * g.vcpus /\ g.vcpus \in Nat
    BY PreludeRight DEF IsGuest
  <2>2. 1 + m \in 1 .. Len(Prelude(g)) /\ 1 + m \in 1 .. Len(f)
    BY <1>1, <2>1 DEF Begins
  <2>3. f[1 + m] = <<"mapping", g.mappings[m].start, g.mappings[m].end>>
    BY <1>2, <2>2, PreludeRight DEF Begins, FullRight
  <2>. QED BY <2>3 DEF MappingAt
<1>. DEFINE G == {m \in 0 .. N : SizeUpTo(f)[m] = At(g, m + 1)}
<1>4. 0 \in G
  BY <1>1, <1>2, SizeUpToStep DEF FullRight
<1>5. ASSUME NEW m \in 0 .. (N - 1), m \in G PROVE m + 1 \in G
  <2>1. m + 1 \in 1 .. N /\ m + 1 \in 0 .. N /\ (m + 1) - 1 = m
    BY <1>1
  <2>2. SizeUpTo(f)[m + 1] = SizeUpTo(f)[m] + (MappingAt(f, m + 1).end - MappingAt(f, m + 1).start)
    BY <1>1, <2>1, SizeUpToStep
  <2>3. SizeUpTo(f)[m] = At(g, m + 1)
    BY <1>5
  <2>4. MappingAt(f, m + 1).end - MappingAt(f, m + 1).start = Size(g, m + 1)
    BY <1>3, <2>1 DEF Size
  <2>5. At(g, (m + 1) + 1) = At(g, m + 1) + Size(g, m + 1)
    BY <1>2, <2>1 DEF FullRight
  <2>. QED BY <2>1, <2>2, <2>3, <2>4, <2>5
<1>6. \A m \in 0 .. N : SizeUpTo(f)[m] = At(g, m + 1)
  <2>. HIDE DEF G
  <2>1. \A m \in 0 .. N : m \in G
    BY <1>1, <1>4, <1>5, InductionUpTo
  <2>. QED BY <2>1 DEF G
<1>7. ASSUME NEW m \in 1 .. N PROVE RemapAt(f, m) = At(g, m)
  <2>1. m - 1 \in 0 .. N /\ (m - 1) + 1 = m
    BY <1>1
  <2>. QED BY <1>6, <2>1 DEF RemapAt
<1>8. MemSize(f) = Len(Memory(g))
  BY <1>1, <1>2, <1>6 DEF MemSize, FullRight
<1>. QED BY <1>3, <1>7, <1>8

\* A beginning of a dump that is accepted is all of it.
LEMMA AcceptsWhole ==
  ASSUME NEW g, IsGuest(g), NEW f, Begins(f, g), Accepts(f)
  PROVE  f = Full(g)
<1>1. Len(f) >= 1 /\ Len(f) >= MemStart(f) /\ Len(f) - MemStart(f) = MemSize(f)
  BY DEF Accepts
<1>2. MemStart(f) = Len(Prelude(g)) /\ MemSize(f) = Len(Memory(g))
  BY <1>1, HeaderRead, SizesRead
<1>3. Len(f) >= Len(Full(g))
  BY <1>1, <1>2, FullIsRight DEF FullRight, Begins
<1>. QED BY <1>3, WholeDump

-----------------------------------------------------------------------------
(* Reads of a dump *)

\* What MemRemap gives for a range of a complete dump.
LEMMA RemapReads ==
  ASSUME NEW g, IsGuest(g), NEW a \in Nat, NEW n \in Nat
  PROVE  ReadPhysical(Full(g), a, n) =
           IF \E m \in DOMAIN g.mappings : g.mappings[m].start <= a /\ a + n <= g.mappings[m].end
           THEN Cells(a, n) ELSE OutOfBounds
<1>. DEFINE f == Full(g)
            N == Len(g.mappings)
            P == Len(Prelude(g))
            M == Len(Memory(g))
            holds == {m \in 1 .. N : g.mappings[m].start <= a /\ a + n <= g.mappings[m].end}
<1>1. FullRight(g)
  BY FullIsRight
<1>2. P \in Nat /\ P >= 1 /\ N \in Nat /\ M \in Nat /\ Len(f) = P + M
  <2>1. P = 1 + N + 3 * g.vcpus /\ g.vcpus \in Nat /\ N \in Nat
    BY PreludeRight DEF IsGuest
  <2>. QED BY <1>1, <2>1 DEF FullRight
<1>3. Begins(f, g) /\ Len(f) >= 1
  BY <1>2, DumpBegins
<1>4. NMappings(f) = N /\ MemStart(f) = P
  BY <1>3, HeaderRead
<1>5. \A m \in 1 .. N : /\ MappingAt(f, m).start = g.mappings[m].start
                        /\ MappingAt(f, m).end = g.mappings[m].end
                        /\ RemapAt(f, m) = At(g, m)
  <2>1. Len(f) >= MemStart(f)
    BY <1>2, <1>4
  <2>. QED BY <1>3, <2>1, SizesRead
<1>6. DOMAIN g.mappings = 1 .. N
  BY LenProperties DEF IsGuest
<1>7. {m \in 1 .. NMappings(f) : MappingAt(f, m).start <= a /\ a + n <= MappingAt(f, m).end} = holds
  BY <1>4, <1>5
<1>. HIDE DEF f
<1>8. CASE holds = {}
  <2>1. ReadPhysical(f, a, n) = OutOfBounds
    BY <1>7, <1>8 DEF ReadPhysical
  <2>2. ~ \E m \in DOMAIN g.mappings : g.mappings[m].start <= a /\ a + n <= g.mappings[m].end
    BY <1>6, <1>8
  <2>. QED BY <2>1, <2>2 DEF f
<1>9. CASE holds # {}
  <2>. DEFINE m == Min(holds)
              offset == RemapAt(f, m) + a - MappingAt(f, m).start
  <2>1. m \in holds
    <3>1. holds \in SUBSET Nat
      BY <1>2
    <3>2. \E x \in holds : \A y \in holds : x <= y
      BY <1>9, <3>1, LeastNat
    <3>. HIDE DEF holds
    <3>. QED BY <3>2 DEF Min
  <2>. HIDE DEF m
  <2>. DEFINE s == g.mappings[m].start
              d == At(g, m)
  <2>2. m \in 1 .. N /\ s <= a /\ a + n <= g.mappings[m].end
    BY <2>1
  <2>3. s \in Nat /\ Size(g, m) \in Nat /\ g.mappings[m].end = s + Size(g, m)
    BY <2>2, MappingType
  <2>4. /\ d \in Nat /\ d + Size(g, m) <= M
        /\ \A j \in 1 .. Size(g, m) : f[P + d + j] = <<"cell", s + j - 1>>
    BY <1>1, <2>2 DEF FullRight, f
  <2>5. offset = d + (a - s) /\ offset \in Nat
    <3>1. RemapAt(f, m) = d /\ MappingAt(f, m).start = s
      BY <1>5, <2>2
    <3>. HIDE DEF s, d
    <3>. QED BY <2>2, <2>3, <2>4, <3>1
  <2>6. offset + n <= M
    <3>. HIDE DEF s, d, offset
    <3>. QED BY <1>2, <2>2, <2>3, <2>4, <2>5
  <2>7. ReadPhysical(f, a, n) = SubSeq(f, P + offset + 1, P + offset + n)
    <3>1. ~(offset + n > Len(f) - MemStart(f))
      <4>. HIDE DEF offset, P, M
      <4>1. P \in Nat /\ M \in Nat /\ n \in Nat /\ offset \in Nat /\ Len(f) - MemStart(f) = M
        BY <1>2, <1>4, <2>5
      <4>. QED BY ONLY <4>1, <2>6
    <3>. QED BY <1>4, <1>7, <1>9, <3>1 DEF ReadPhysical, m
  <2>. HIDE DEF offset
  <2>8. ASSUME NEW i \in 1 .. n PROVE f[P + offset + i] = <<"cell", a + i - 1>>
    <3>. HIDE DEF s, d
    <3>1. (a - s) + i \in 1 .. Size(g, m) /\ P + offset + i = P + d + ((a - s) + i)
          /\ s + ((a - s) + i) - 1 = a + i - 1
      BY <1>2, <2>2, <2>3, <2>4, <2>5
    <3>2. f[P + d + ((a - s) + i)] = <<"cell", s + ((a - s) + i) - 1>>
      BY <2>4, <3>1
    <3>. QED BY <3>1, <3>2
  <2>. DEFINE r == SubSeq(f, P + offset + 1, P + offset + n)
  <2>9. /\ r \in Seq(Things) /\ Len(r) = n
        /\ \A i \in 1 .. n : r[i] = f[P + offset + i]
    <3>. DEFINE lo == P + offset + 1
                hi == P + offset + n
    <3>1. lo \in Int /\ hi \in Int /\ hi - lo + 1 = n /\ (lo <= hi <=> n # 0)
          /\ 1 <= lo /\ hi <= Len(f)
          /\ \A i \in 1 .. n : lo + i - 1 = P + offset + i
      <4>1. P \in Nat /\ offset \in Nat /\ n \in Nat /\ offset + n <= M /\ Len(f) = P + M /\ M \in Nat
        BY <1>2, <2>5, <2>6
      <4>. HIDE DEF P, M
      <4>2. lo \in Int /\ hi \in Int /\ hi - lo + 1 = n /\ (lo <= hi <=> n # 0)
        BY <4>1
      <4>3. 1 <= lo /\ hi <= Len(f)
        BY <4>1
      <4>4. \A i \in 1 .. n : lo + i - 1 = P + offset + i
        BY <4>1
      <4>. QED BY <4>2, <4>3, <4>4
    <3>. HIDE DEF lo, hi
    <3>2. \A i \in lo .. hi : f[i] \in Things
      <4>1. f \in Seq(Things) /\ Len(f) \in Nat
        BY <1>3 DEF Begins
      <4>. QED BY <3>1, <4>1, ElementOfSeq
    <3>3. /\ SubSeq(f, lo, hi) \in Seq(Things)
          /\ Len(SubSeq(f, lo, hi)) = IF lo <= hi THEN hi - lo + 1 ELSE 0
          /\ \A i \in 1 .. hi - lo + 1 : SubSeq(f, lo, hi)[i] = f[lo + i - 1]
      BY <3>1, <3>2, SubSeqProperties
    <3>. QED BY <3>1, <3>3 DEF lo, hi
  <2>10. Cells(a, n) \in Seq(Things) /\ Len(Cells(a, n)) = n
         /\ \A i \in 1 .. n : Cells(a, n)[i] = <<"cell", a + i - 1>>
    BY CellsProperties
  <2>. HIDE DEF r
  <2>11. r = Cells(a, n)
    BY <2>8, <2>9, <2>10, SeqEqual
  <2>12. \E k \in DOMAIN g.mappings : g.mappings[k].start <= a /\ a + n <= g.mappings[k].end
    BY <1>6, <2>2
  <2>. QED BY <2>7, <2>11, <2>12 DEF r, f
<1>. QED BY <1>8, <1>9

-----------------------------------------------------------------------------
(* The writer *)

\* A beginning goes on with what comes next in the dump.
LEMMA BeginsGoesOn ==
  ASSUME NEW g, IsGuest(g), NEW w, Begins(w, g), NEW c \in Seq(Things),
         Len(w) + Len(c) <= Len(Full(g)),
         \A i \in 1 .. Len(c) : c[i] = Full(g)[Len(w) + i]
  PROVE  Begins(w \o c, g) /\ Len(w \o c) = Len(w) + Len(c)
<1>. DEFINE s == w \o c
<1>1. w \in Seq(Things) /\ Len(w) \in Nat /\ \A i \in 1 .. Len(w) : w[i] = Full(g)[i]
  BY DEF Begins
<1>2. /\ s \in Seq(Things) /\ Len(c) \in Nat /\ Len(s) = Len(w) + Len(c)
      /\ \A i \in 1 .. Len(w) : s[i] = w[i]
      /\ \A i \in 1 .. Len(c) : s[Len(w) + i] = c[i]
  BY <1>1, ConcatAt
<1>. HIDE DEF s
<1>3. ASSUME NEW i \in 1 .. Len(s) PROVE s[i] = Full(g)[i]
  <2>1. CASE i <= Len(w)
    <3>1. i \in 1 .. Len(w)
      BY <1>1, <2>1
    <3>. QED BY <1>1, <1>2, <3>1
  <2>2. CASE i > Len(w)
    <3>1. i - Len(w) \in 1 .. Len(c) /\ Len(w) + (i - Len(w)) = i
      BY <1>1, <1>2, <2>2
    <3>2. s[Len(w) + (i - Len(w))] = c[i - Len(w)]
      BY <1>2, <3>1
    <3>3. c[i - Len(w)] = Full(g)[Len(w) + (i - Len(w))]
      BY <3>1
    <3>. QED BY <3>1, <3>2, <3>3
  <2>. QED BY <1>1, <2>1, <2>2
<1>4. Len(s) \in Nat /\ Len(s) <= Len(Full(g))
  BY <1>1, <1>2
<1>5. Begins(s, g) /\ Len(s) = Len(w) + Len(c)
  BY <1>2, <1>3, <1>4 DEF Begins
<1>. QED BY <1>5 DEF s

\* The first n items.
LEMMA FirstItems ==
  ASSUME NEW S, NEW c \in Seq(S), NEW n \in 0 .. Len(c)
  PROVE  SubSeq(c, 1, n) \in Seq(S) /\ Len(SubSeq(c, 1, n)) = n
         /\ \A i \in 1 .. n : SubSeq(c, 1, n)[i] = c[i]
<1>1. Len(c) \in Nat /\ n \in Nat
  BY LenProperties
<1>2. \A i \in 1 .. n : c[i] \in S
  BY <1>1, ElementOfSeq
<1>3. SubSeq(c, 1, n) \in Seq(S) /\ Len(SubSeq(c, 1, n)) = (IF 1 <= n THEN n - 1 + 1 ELSE 0)
      /\ \A i \in 1 .. n - 1 + 1 : SubSeq(c, 1, n)[i] = c[1 + i - 1]
  BY <1>1, <1>2, SubSeqProperties
<1>4. n - 1 + 1 = n /\ \A i \in 1 .. n : 1 + i - 1 = i
  BY <1>1
<1>5. Len(SubSeq(c, 1, n)) = n
  BY <1>1, <1>3
<1>. QED BY <1>3, <1>4, <1>5

\* A part of what is written next is written.
LEMMA BeginsCut ==
  ASSUME NEW g, IsGuest(g), NEW f \in Seq(Things), NEW c \in Seq(Things), Begins(f \o c, g),
         NEW n \in 0 .. Len(c)
  PROVE  /\ Begins(f \o SubSeq(c, 1, n), g)
         /\ Len(f \o SubSeq(c, 1, n)) = Len(f) + n
<1>. DEFINE d == SubSeq(c, 1, n)
            s == f \o c
            t == f \o d
<1>1. d \in Seq(Things) /\ Len(d) = n /\ \A i \in 1 .. n : d[i] = c[i]
  BY FirstItems
<1>. HIDE DEF d
<1>2. /\ s \in Seq(Things) /\ Len(s) = Len(f) + Len(c) /\ Len(f) \in Nat /\ Len(c) \in Nat
      /\ \A i \in 1 .. Len(f) : s[i] = f[i]
      /\ \A i \in 1 .. Len(c) : s[Len(f) + i] = c[i]
  BY ConcatAt
<1>3. /\ t \in Seq(Things) /\ Len(t) = Len(f) + n
      /\ \A i \in 1 .. Len(f) : t[i] = f[i]
      /\ \A i \in 1 .. n : t[Len(f) + i] = d[i]
  <2>1. /\ t \in Seq(Things) /\ Len(t) = Len(f) + Len(d)
        /\ \A i \in 1 .. Len(f) : t[i] = f[i]
        /\ \A i \in 1 .. Len(d) : t[Len(f) + i] = d[i]
    <3>1. d \in Seq(Things)
      BY <1>1
    <3>. QED BY <3>1, ConcatAt
  <2>. QED BY <1>1, <2>1
<1>4. Len(s) <= Len(Full(g)) /\ \A i \in 1 .. Len(s) : s[i] = Full(g)[i]
  BY DEF Begins
<1>. HIDE DEF s, t
<1>5. ASSUME NEW i \in 1 .. Len(t) PROVE i \in 1 .. Len(s) /\ t[i] = s[i]
  <2>1. i \in 1 .. Len(s)
    BY <1>2, <1>3
  <2>2. CASE i <= Len(f)
    <3>1. i \in 1 .. Len(f)
      BY <1>2, <2>2
    <3>. QED BY <1>2, <1>3, <2>1, <3>1
  <2>3. CASE i > Len(f)
    <3>1. i - Len(f) \in 1 .. n /\ i - Len(f) \in 1 .. Len(c) /\ Len(f) + (i - Len(f)) = i
      BY <1>2, <1>3, <2>3
    <3>2. t[Len(f) + (i - Len(f))] = d[i - Len(f)] /\ s[Len(f) + (i - Len(f))] = c[i - Len(f)]
      BY <1>2, <1>3, <3>1
    <3>. QED BY <1>1, <2>1, <3>1, <3>2
  <2>. QED BY <1>2, <2>2, <2>3
<1>6. Len(t) \in Nat /\ Len(t) <= Len(Full(g))
  <2>1. Len(Full(g)) \in Nat
    BY FullIsRight, LenProperties DEF FullRight
  <2>. QED BY <1>2, <1>3, <1>4, <2>1
<1>7. Begins(t, g)
  BY <1>3, <1>4, <1>5, <1>6 DEF Begins
<1>. QED BY <1>3, <1>7 DEF t, d

\* What was given to the disk begins the dump.
LEMMA BeginsFile ==
  ASSUME NEW g, IsGuest(g), NEW f \in Seq(Things), NEW c \in Seq(Things), Begins(f \o c, g)
  PROVE  Begins(f, g) /\ f \o <<>> = f /\ Begins(f \o <<>>, g)
<1>1. Len(c) \in Nat
  BY LenProperties
<1>2. SubSeq(c, 1, 0) = <<>>
  BY SubSeqEmpty
<1>3. 0 \in 0 .. Len(c)
  BY <1>1
<1>4. Begins(f \o SubSeq(c, 1, 0), g)
  BY <1>3, BeginsCut
<1>5. f \o <<>> = f
  BY ConcatEmptySeq
<1>. QED BY <1>2, <1>4, <1>5

-----------------------------------------------------------------------------
(* The invariant *)

\* The cells of memory that Memory::dump has got past.
Done ==
  IF map <= Len(guest.mappings) THEN At(guest, map) + (addr - guest.mappings[map].start)
  ELSE Len(Memory(guest))

\* Where write is: BufWriter was given the prelude up to head and then the
\* memory up to addr, and holds nothing back once it has seen a chunk.
Position ==
  /\ Len(file) + Len(pending) = head + Done
  /\ map <= Len(guest.mappings) => guest.mappings[map].start <= addr /\ addr <= guest.mappings[map].end
  /\ head < Len(Prelude(guest)) => map = 1 /\ addr = Start(guest, 1)
  /\ Done > 0 => pending = <<>>

\* The variables other than the file.
DumpTypes ==
  /\ guest \in Guests /\ head \in 0 .. Len(Prelude(guest))
  /\ map \in 1 .. (Len(guest.mappings) + 1) /\ addr \in Nat
  /\ wresult \in {"none", "ok", "err"} /\ closed \in BOOLEAN

\* What the disk has and what BufWriter holds back, together, begin the dump.
Streams ==
  file # NoFile => /\ file \in Seq(Things) /\ pending \in Seq(Things)
                   /\ Begins(file \o pending, guest)

NotCreated ==
  file = NoFile =>
    /\ pending = <<>> /\ head = 0 /\ map = 1 /\ addr = Start(guest, 1)
    /\ wresult = "none" \/ (wresult = "err" /\ closed)
    /\ loaded = "none"

\* The inductive invariant.
DumpInv ==
  /\ DumpTypes /\ Streams /\ NotCreated
  /\ Writing /\ file # NoFile => Position
  /\ ReadIsExact /\ OkIsComplete

\* Nothing is done when write begins.
LEMMA DoneAtStart ==
  ASSUME guest \in Guests, map = 1, addr = Start(guest, 1)
  PROVE  /\ Done = 0
         /\ map <= Len(guest.mappings) => guest.mappings[map].start <= addr /\ addr <= guest.mappings[map].end
<1>1. IsGuest(guest)
  BY GuestsAre
<1>2. FullRight(guest)
  BY <1>1, FullIsRight
<1>3. CASE 1 <= Len(guest.mappings)
  <2>1. 1 \in 1 .. Len(guest.mappings)
    BY <1>2, <1>3 DEF FullRight
  <2>2. guest.mappings[1].start \in Nat /\ Size(guest, 1) \in Nat
        /\ guest.mappings[1].end = guest.mappings[1].start + Size(guest, 1)
    BY <1>1, <2>1, MappingType
  <2>3. addr = guest.mappings[1].start
    BY <1>3 DEF Start
  <2>4. At(guest, 1) = 0
    BY <1>2 DEF FullRight
  <2>5. Done = At(guest, 1) + (addr - guest.mappings[1].start)
    BY <1>3 DEF Done
  <2>. QED BY <2>2, <2>3, <2>4, <2>5
<1>4. CASE ~(1 <= Len(guest.mappings))
  <2>1. Len(guest.mappings) = 0
    BY <1>2, <1>4 DEF FullRight
  <2>2. At(guest, 1) = 0 /\ At(guest, Len(guest.mappings) + 1) = Len(Memory(guest))
    BY <1>2 DEF FullRight
  <2>3. Len(Memory(guest)) = 0
    BY <2>1, <2>2
  <2>. QED BY <1>4, <2>3 DEF Done
<1>. QED BY <1>3, <1>4

\* How the file may change: it keeps a beginning of the dump, and what it has.
FileGrows ==
  /\ file' \in Seq(Things) /\ pending' \in Seq(Things)
  /\ Begins(file' \o pending', guest)
  /\ Len(file') >= Len(file)

\* A file that grows stays what it was when it was complete.
LEMMA Grown ==
  ASSUME DumpInv, FileGrows, UNCHANGED guest, file # NoFile
  PROVE  /\ Streams' /\ file' # NoFile
         /\ file = Full(guest) => file' = Full(guest)
<1>1. IsGuest(guest)
  BY GuestsAre DEF DumpInv, DumpTypes
<1>2. Begins(file', guest)
  BY <1>1, BeginsFile DEF FileGrows
<1>3. file' # NoFile
  BY <1>1, <1>2, BeginsIsFile
<1>4. ASSUME file = Full(guest) PROVE file' = Full(guest)
  BY <1>1, <1>2, <1>4, WholeDump DEF FileGrows
<1>. QED BY <1>3, <1>4 DEF FileGrows, Streams

\* A step of write that leaves the file alone, or lets it grow.
LEMMA InvStep ==
  ASSUME DumpInv, UNCHANGED <<guest, loaded>>, DumpTypes', file # NoFile,
         FileGrows,
         wresult' = "ok" => wresult = "ok",
         Writing' => Position'
  PROVE  DumpInv'
<1>1. Streams' /\ file' # NoFile /\ (file = Full(guest) => file' = Full(guest))
  BY Grown
<1>2. ReadIsExact'
  BY <1>1 DEF DumpInv, ReadIsExact
<1>3. OkIsComplete'
  BY <1>1 DEF DumpInv, OkIsComplete
<1>. QED BY <1>1, <1>2, <1>3 DEF DumpInv, NotCreated

LEMMA CreateInv ==
  ASSUME DumpInv, Create
  PROVE  DumpInv'
<1>0. guest \in Guests /\ IsGuest(guest)
  BY GuestsAre DEF DumpInv, DumpTypes
<1>1. /\ file = NoFile /\ pending = <<>> /\ head = 0 /\ map = 1 /\ addr = Start(guest, 1) /\ loaded = "none"
      /\ wresult = "none"
  BY DEF DumpInv, NotCreated, Create, Writing
<1>2. DumpTypes'
  BY DEF DumpInv, DumpTypes, Create
<1>3. CASE file' = <<>> /\ UNCHANGED <<wresult, closed>>
  <2>1. UNCHANGED <<guest, pending, head, map, addr, loaded>>
    BY DEF Create
  <2>2. Full(guest) \in Seq(Things) /\ Len(Full(guest)) \in Nat
    BY <1>0, FullIsRight, LenProperties DEF FullRight
  <2>3. file' \in Seq(Things) /\ pending' \in Seq(Things) /\ file' \o pending' = <<>> /\ Len(file') = 0 /\ Len(pending') = 0
    BY <1>1, <1>3, <2>1, EmptySeq, ConcatEmptySeq
  <2>4. Begins(<<>>, guest)
    BY <2>2 DEF Begins
  <2>5. Streams'
    BY <2>1, <2>3, <2>4 DEF Streams
  <2>6. file' # NoFile
    BY <1>3 DEF NoFile
  <2>7. Position'
    <3>1. Done' = 0 /\ (map <= Len(guest.mappings) => guest.mappings[map].start <= addr /\ addr <= guest.mappings[map].end)
      BY <1>0, <1>1, <2>1, DoneAtStart DEF Done
    <3>. QED BY <1>1, <2>1, <2>3, <3>1 DEF Position
  <2>8. ReadIsExact' /\ OkIsComplete'
    BY <1>1, <1>3, <2>1 DEF ReadIsExact, OkIsComplete
  <2>. QED BY <1>2, <2>5, <2>6, <2>7, <2>8 DEF DumpInv, NotCreated
<1>4. CASE wresult' = "err" /\ closed' = TRUE /\ UNCHANGED file
  <2>1. UNCHANGED <<guest, pending, head, map, addr, loaded>>
    BY DEF Create
  <2>2. Streams' /\ NotCreated'
    BY <1>1, <1>4, <2>1 DEF Streams, NotCreated
  <2>3. ReadIsExact' /\ OkIsComplete' /\ ~Writing'
    BY <1>1, <1>4, <2>1 DEF ReadIsExact, OkIsComplete, Writing
  <2>. QED BY <1>2, <2>2, <2>3 DEF DumpInv
<1>. QED BY <1>3, <1>4 DEF Create

\* Facts about a file that is there.
LEMMA FileFacts ==
  ASSUME DumpInv, file # NoFile
  PROVE  /\ guest \in Guests /\ IsGuest(guest) /\ FullRight(guest)
         /\ file \in Seq(Things) /\ pending \in Seq(Things) /\ Len(file) \in Nat /\ Len(pending) \in Nat
         /\ file \o pending \in Seq(Things)
         /\ Begins(file \o pending, guest) /\ Len(file \o pending) = Len(file) + Len(pending)
         /\ Len(Full(guest)) \in Nat
<1>1. guest \in Guests /\ IsGuest(guest) /\ FullRight(guest)
  BY GuestsAre, FullIsRight DEF DumpInv, DumpTypes
<1>2. file \in Seq(Things) /\ pending \in Seq(Things) /\ Begins(file \o pending, guest)
  BY DEF DumpInv, Streams
<1>3. Len(file) \in Nat /\ Len(pending) \in Nat /\ Len(file \o pending) = Len(file) + Len(pending)
      /\ file \o pending \in Seq(Things)
  BY <1>2, ConcatAt
<1>4. Len(Full(guest)) \in Nat
  BY <1>1, LenProperties DEF FullRight
<1>. QED BY <1>1, <1>2, <1>3, <1>4

\* DiskFails of what is held back.
LEMMA FailsHeldBack ==
  ASSUME DumpInv, file # NoFile, NEW n \in 0 .. Len(pending),
         file' = file \o SubSeq(pending, 1, n), pending' = SubSeq(pending, n + 1, Len(pending))
  PROVE  FileGrows
<1>. DEFINE a == SubSeq(pending, 1, n)
            b == SubSeq(pending, n + 1, Len(pending))
<1>1. file \in Seq(Things) /\ pending \in Seq(Things) /\ Len(pending) \in Nat /\ Len(file) \in Nat
      /\ Begins(file \o pending, guest)
  BY FileFacts
<1>2. a \in Seq(Things) /\ Len(a) = n
  BY <1>1, FirstItems
<1>3. b \in Seq(Things)
  <2>1. \A i \in n + 1 .. Len(pending) : pending[i] \in Things
    BY <1>1, ElementOfSeq
  <2>. QED BY <1>1, <2>1, SubSeqProperties
<1>4. a \o b = pending
  <2>1. 1 \in 1 .. Len(pending) + 1 /\ n \in 1 - 1 .. Len(pending) /\ Len(pending) \in n .. Len(pending)
    BY <1>1
  <2>2. a \o b = SubSeq(pending, 1, Len(pending))
    BY <1>1, <2>1, ConcatAdjacentSubSeq
  <2>. QED BY <1>1, <2>2, SubSeqFull
<1>. HIDE DEF a, b
<1>5. (file \o a) \o b = file \o pending
  <2>1. (file \o a) \o b = file \o (a \o b)
    <3>1. file \in Seq(Things) /\ a \in Seq(Things) /\ b \in Seq(Things)
      BY <1>1, <1>2, <1>3
    <3>. QED BY <3>1, Associative, Zenon
  <2>. QED BY <1>4, <2>1, Zenon
<1>6. file \o a \in Seq(Things) /\ Len(file \o a) = Len(file) + n
  BY <1>1, <1>2, ConcatAt
<1>7. file' = file \o a /\ pending' = b
  BY DEF a, b
<1>8. Begins(file' \o pending', guest)
  BY <1>1, <1>5, <1>7, Zenon
<1>9. Len(file') >= Len(file)
  BY <1>1, <1>6, <1>7
<1>. QED BY <1>3, <1>6, <1>7, <1>8, <1>9, Zenon DEF FileGrows

\* What is given to BufWriter follows what it was given before.
LEMMA NextItems ==
  ASSUME DumpInv, file # NoFile, Writing, NEW c \in Seq(Things),
         Len(file) + Len(pending) + Len(c) <= Len(Full(guest)),
         \A i \in 1 .. Len(c) : c[i] = Full(guest)[Len(file) + Len(pending) + i]
  PROVE  /\ Begins((file \o pending) \o c, guest)
         /\ Len((file \o pending) \o c) = Len(file) + Len(pending) + Len(c)
         /\ (file \o pending) \o c = file \o (pending \o c)
<1>1. IsGuest(guest) /\ file \in Seq(Things) /\ pending \in Seq(Things)
      /\ Begins(file \o pending, guest) /\ Len(file \o pending) = Len(file) + Len(pending)
  BY FileFacts
<1>2. (file \o pending) \o c = file \o (pending \o c)
  BY <1>1, Associative, Zenon
<1>. DEFINE w == file \o pending
<1>3. Len(w) + Len(c) <= Len(Full(guest)) /\ \A i \in 1 .. Len(c) : c[i] = Full(guest)[Len(w) + i]
  BY <1>1
<1>4. Begins(w, guest)
  BY <1>1
<1>. HIDE DEF w
<1>5. Begins(w \o c, guest) /\ Len(w \o c) = Len(w) + Len(c)
  BY <1>1, <1>3, <1>4, BeginsGoesOn
<1>. QED BY <1>1, <1>2, <1>5 DEF w

LEMMA WriteItemInv ==
  ASSUME DumpInv, WriteItem
  PROVE  DumpInv'
<1>. DEFINE P == Len(Prelude(guest))
            x == Prelude(guest)[head + 1]
<1>0. file # NoFile /\ Writing /\ head < P /\ UNCHANGED <<guest, closed, loaded>>
  BY DEF WriteItem
<1>1. /\ guest \in Guests /\ IsGuest(guest) /\ FullRight(guest)
      /\ file \in Seq(Things) /\ pending \in Seq(Things) /\ Len(file) \in Nat /\ Len(pending) \in Nat
      /\ file \o pending \in Seq(Things) /\ Len(file \o pending) = Len(file) + Len(pending)
      /\ Len(Full(guest)) \in Nat
  BY <1>0, FileFacts
<1>2. map = 1 /\ addr = Start(guest, 1) /\ Len(file) + Len(pending) = head + Done
  BY <1>0 DEF DumpInv, Position
<1>3. Done = 0
  BY <1>1, <1>2, DoneAtStart
<1>4. P \in Nat /\ head \in Nat /\ Len(file) + Len(pending) = head /\ head + 1 \in 1 .. P /\ P <= Len(Full(guest))
  BY <1>0, <1>1, <1>2, <1>3 DEF DumpInv, DumpTypes, FullRight
<1>5. x = Full(guest)[head + 1] /\ x \in Things
  <2>1. x = Full(guest)[head + 1]
    BY <1>1, <1>4 DEF FullRight
  <2>2. Prelude(guest) \in Seq(Things)
    BY <1>1, PreludeRight
  <2>. QED BY <1>4, <2>1, <2>2, ElementOfSeq
<1>. HIDE DEF x, P
<1>. DEFINE c == <<x>>
<1>6. c \in Seq(Things) /\ Len(c) = 1 /\ c[1] = x
  BY <1>5
<1>. HIDE DEF c
<1>7. /\ Len(file) + Len(pending) + Len(c) <= Len(Full(guest))
      /\ \A i \in 1 .. Len(c) : c[i] = Full(guest)[Len(file) + Len(pending) + i]
  BY <1>1, <1>4, <1>5, <1>6
<1>8. /\ Begins((file \o pending) \o c, guest)
      /\ (file \o pending) \o c = file \o (pending \o c)
  BY <1>0, <1>6, <1>7, NextItems
<1>9. CASE /\ pending' = Append(pending, x) /\ head' = head + 1
           /\ UNCHANGED <<file, map, addr, wresult>>
  <2>1. pending' = pending \o c
    BY <1>1, <1>5, <1>9, AppendIsConcat DEF c
  <2>2. pending' \in Seq(Things) /\ Len(pending') = Len(pending) + 1
    <3>1. pending \in Seq(Things) /\ c \in Seq(Things)
      BY <1>1, <1>6
    <3>2. pending \o c \in Seq(Things) /\ Len(pending \o c) = Len(pending) + Len(c)
      BY ONLY <3>1, ConcatAt
    <3>. QED BY <1>6, <2>1, <3>2
  <2>3. FileGrows
    <3>1. Begins(file' \o pending', guest)
      BY <1>8, <1>9, <2>1, Zenon
    <3>. QED BY <1>1, <1>9, <2>2, <3>1 DEF FileGrows
  <2>4. DumpTypes'
    BY <1>0, <1>4, <1>9 DEF DumpInv, DumpTypes, P
  <2>5. Position'
    <3>1. Done' = 0
      BY <1>0, <1>3, <1>9 DEF Done
    <3>2. Len(file') + Len(pending') = head' + Done'
      BY <1>1, <1>4, <1>9, <2>2, <3>1
    <3>3. (map <= Len(guest.mappings) => guest.mappings[map].start <= addr /\ addr <= guest.mappings[map].end)
      BY <1>0 DEF DumpInv, Position
    <3>. QED BY <1>0, <1>2, <1>9, <3>1, <3>2, <3>3 DEF Position
  <2>. QED BY <1>0, <1>9, <2>3, <2>4, <2>5, InvStep
<1>10. CASE /\ file' = file \o pending /\ pending' = <<x>> /\ head' = head + 1
            /\ UNCHANGED <<map, addr, wresult>>
  <2>1. pending' = c
    BY <1>10 DEF c
  <2>2. FileGrows
    <3>1. Begins(file' \o pending', guest)
      BY <1>8, <1>10, <2>1, Zenon
    <3>2. Len(file') = Len(file) + Len(pending) /\ file' \in Seq(Things)
      BY <1>1, <1>10, Zenon
    <3>3. Len(file') >= Len(file)
      BY <1>1, <3>2
    <3>. QED BY <1>6, <2>1, <3>1, <3>2, <3>3, Zenon DEF FileGrows
  <2>3. DumpTypes'
    BY <1>0, <1>4, <1>10 DEF DumpInv, DumpTypes, P
  <2>4. Position'
    <3>1. Done' = 0
      BY <1>0, <1>3, <1>10 DEF Done
    <3>2. Len(file') + Len(pending') = head' + Done'
      <4>1. Len(file') = Len(file) + Len(pending)
        BY <1>1, <1>10, Zenon
      <4>2. Len(pending') = 1
        BY <1>6, <2>1, Zenon
      <4>3. head' = head + 1 /\ Len(file) + Len(pending) = head /\ head \in Nat
        BY <1>4, <1>10
      <4>. QED BY ONLY <3>1, <4>1, <4>2, <4>3
    <3>3. (map <= Len(guest.mappings) => guest.mappings[map].start <= addr /\ addr <= guest.mappings[map].end)
      BY <1>0 DEF DumpInv, Position
    <3>. QED BY <1>0, <1>2, <1>10, <3>1, <3>2, <3>3 DEF Position
  <2>. QED BY <1>0, <1>10, <2>2, <2>3, <2>4, InvStep
<1>11. CASE DiskFails(pending)
  <2>1. PICK n \in 0 .. (Len(pending) - 1) :
          file' = file \o SubSeq(pending, 1, n) /\ pending' = SubSeq(pending, n + 1, Len(pending))
    BY <1>11 DEF DiskFails
  <2>2. n \in 0 .. Len(pending)
    BY <1>1
  <2>3. FileGrows
    BY <1>0, <2>1, <2>2, FailsHeldBack
  <2>4. wresult' = "err" /\ UNCHANGED <<head, map, addr>>
    BY <1>11 DEF DiskFails
  <2>5. DumpTypes' /\ ~Writing'
    BY <1>0, <2>4 DEF DumpInv, DumpTypes, Writing
  <2>. QED BY <1>0, <2>3, <2>4, <2>5, InvStep
<1>. QED BY <1>9, <1>10, <1>11 DEF WriteItem, x

LEMMA DumpChunkInv ==
  ASSUME DumpInv, DumpChunk
  PROVE  DumpInv'
<1>. DEFINE N == Len(guest.mappings)
            P == Len(Prelude(guest))
            start == guest.mappings[map].start
            end == guest.mappings[map].end
            d == At(guest, map)
            c == Cells(addr, ChunkLen)
<1>0. /\ file # NoFile /\ Writing /\ head = P /\ map <= N /\ addr < end
      /\ UNCHANGED <<guest, closed, loaded>>
  BY DEF DumpChunk, AtMemory
<1>1. /\ guest \in Guests /\ IsGuest(guest) /\ FullRight(guest)
      /\ file \in Seq(Things) /\ pending \in Seq(Things) /\ Len(file) \in Nat /\ Len(pending) \in Nat
      /\ file \o pending \in Seq(Things) /\ Len(file \o pending) = Len(file) + Len(pending)
      /\ Len(Full(guest)) \in Nat
  BY <1>0, FileFacts
<1>2. map \in 1 .. N /\ addr \in Nat /\ ChunkLen \in Nat /\ ChunkLen > 0
  BY <1>0, <1>1, DumpAssumption DEF DumpInv, DumpTypes, FullRight
<1>3. start \in Nat /\ end = start + Size(guest, map) /\ Size(guest, map) \in Nat
  BY <1>1, <1>2, MappingType
<1>4. start <= addr /\ addr <= end /\ Len(file) + Len(pending) = P + Done
  BY <1>0 DEF DumpInv, Position
<1>5. Done = d + (addr - start)
  BY <1>0 DEF Done
<1>6. /\ d \in Nat /\ d + Size(guest, map) <= Len(Memory(guest)) /\ P \in Nat
      /\ Len(Full(guest)) = P + Len(Memory(guest)) /\ Len(Memory(guest)) \in Nat
      /\ \A j \in 1 .. Size(guest, map) : Full(guest)[P + d + j] = <<"cell", start + j - 1>>
  BY <1>1, <1>2 DEF FullRight
<1>7. c \in Seq(Things) /\ Len(c) = ChunkLen /\ \A i \in 1 .. ChunkLen : c[i] = <<"cell", addr + i - 1>>
  BY <1>2, CellsProperties
<1>. HIDE DEF c, d, start, end, P, N
<1>8. ASSUME addr + ChunkLen <= end
      PROVE  /\ Begins((file \o pending) \o c, guest)
             /\ Len((file \o pending) \o c) = Len(file) + Len(pending) + ChunkLen
             /\ (file \o pending) \o c = file \o (pending \o c)
  <2>1. Len(file) + Len(pending) + Len(c) <= Len(Full(guest))
    <3>1. /\ d \in Nat /\ d + Size(guest, map) <= Len(Memory(guest)) /\ P \in Nat
          /\ Len(Full(guest)) = P + Len(Memory(guest)) /\ Len(Memory(guest)) \in Nat
          /\ addr \in Nat /\ ChunkLen \in Nat /\ Len(c) = ChunkLen
      BY <1>2, <1>6, <1>7
    <3>2. Len(file) + Len(pending) = P + (d + (addr - start))
      BY <1>4, <1>5
    <3>. QED BY ONLY <3>1, <3>2, <1>3, <1>8
  <2>2. ASSUME NEW i \in 1 .. Len(c) PROVE c[i] = Full(guest)[Len(file) + Len(pending) + i]
    <3>0. /\ i \in 1 .. ChunkLen /\ ChunkLen \in Nat /\ addr \in Nat /\ start \in Nat /\ start <= addr
          /\ Size(guest, map) \in Nat /\ addr + ChunkLen <= start + Size(guest, map)
          /\ Len(file) + Len(pending) = P + (d + (addr - start)) /\ P \in Nat /\ d \in Nat
      BY <1>2, <1>3, <1>4, <1>5, <1>6, <1>7, <1>8
    <3>1. (addr - start) + i \in 1 .. Size(guest, map)
          /\ Len(file) + Len(pending) + i = P + d + ((addr - start) + i)
          /\ start + ((addr - start) + i) - 1 = addr + i - 1 /\ i \in 1 .. ChunkLen
      BY ONLY <3>0
    <3>2. Full(guest)[P + d + ((addr - start) + i)] = <<"cell", start + ((addr - start) + i) - 1>>
      BY <1>6, <3>1
    <3>. QED BY <1>7, <3>1, <3>2
  <2>. QED BY <1>0, <1>7, <2>1, <2>2, NextItems
<1>9. CASE addr + ChunkLen <= end /\ ChunkWritten(c) /\ addr' = addr + ChunkLen /\ UNCHANGED <<head, map>>
  <2>1. file' = (file \o pending) \o c /\ pending' = <<>> /\ wresult' = wresult
    BY <1>9 DEF ChunkWritten
  <2>2. /\ Begins((file \o pending) \o c, guest)
        /\ Len((file \o pending) \o c) = Len(file) + Len(pending) + ChunkLen
    BY <1>8, <1>9
  <2>3. file' \in Seq(Things) /\ Len(file') = Len(file) + Len(pending) + ChunkLen /\ Begins(file', guest)
    BY <2>1, <2>2, Zenon DEF Begins
  <2>4. file' \o pending' = file' /\ pending' \in Seq(Things) /\ Len(pending') = 0
    <3>1. file' \o <<>> = file'
      BY <2>3, ConcatEmptySeq
    <3>2. <<>> \in Seq(Things) /\ Len(<<>>) = 0
      BY EmptySeq
    <3>. QED BY <2>1, <3>1, <3>2, Zenon
  <2>5. FileGrows
    <3>1. Len(file') >= Len(file)
      BY <1>1, <1>2, <2>3
    <3>. QED BY <2>3, <2>4, <3>1, Zenon DEF FileGrows
  <2>6. DumpTypes'
    BY <1>0, <1>2, <1>9, <2>1 DEF DumpInv, DumpTypes
  <2>7. Position'
    <3>1. Done' = d + (addr' - start) /\ addr' = addr + ChunkLen
      BY <1>0, <1>9 DEF Done, d, start, N
    <3>2. Len(file') + Len(pending') = head' + Done'
      <4>1. head' = P
        BY <1>0, <1>9
      <4>2. Len(file) + Len(pending) = P + (d + (addr - start)) /\ P \in Nat /\ d \in Nat
        BY <1>4, <1>5, <1>6
      <4>3. Len(file') = Len(file) + Len(pending) + ChunkLen /\ Len(pending') = 0
        BY <2>3, <2>4
      <4>4. Len(file) \in Nat /\ Len(pending) \in Nat /\ addr \in Nat /\ ChunkLen \in Nat /\ start \in Nat
        BY <1>1, <1>2, <1>3
      <4>. QED BY ONLY <3>1, <4>1, <4>2, <4>3, <4>4
    <3>3. start <= addr' /\ addr' <= end /\ guest' = guest /\ map' = map
      BY <1>0, <1>2, <1>3, <1>4, <1>9
    <3>4. ~(head' < Len(Prelude(guest')))
      BY <1>0, <1>6, <1>9 DEF P
    <3>5. Len(file') + Len(pending') = head' + Done' /\ pending' = <<>>
      BY <2>1, <3>2
    <3>. QED BY <3>3, <3>4, <3>5 DEF Position, start, end
  <2>. QED BY <1>0, <2>1, <2>5, <2>6, <2>7, InvStep
<1>10. CASE addr + ChunkLen <= end /\ DiskFails(pending \o c)
  <2>0. wresult' = "err" /\ UNCHANGED <<head, map, addr>>
    BY <1>10 DEF DiskFails
  <2>1. PICK n \in 0 .. (Len(pending \o c) - 1) :
          file' = file \o SubSeq(pending \o c, 1, n) /\ pending' = SubSeq(pending, n + 1, Len(pending))
    BY <1>10 DEF DiskFails
  <2>2. pending \o c \in Seq(Things) /\ Len(pending \o c) = Len(pending) + ChunkLen
        /\ \A i \in 1 .. Len(pending) : (pending \o c)[i] = pending[i]
    <3>1. pending \in Seq(Things) /\ c \in Seq(Things)
      BY <1>1, <1>7
    <3>2. pending \o c \in Seq(Things) /\ Len(pending \o c) = Len(pending) + Len(c)
          /\ \A i \in 1 .. Len(pending) : (pending \o c)[i] = pending[i]
      BY ONLY <3>1, ConcatAt
    <3>. QED BY <1>7, <3>2
  <2>3. FileGrows
    <3>1. CASE n <= Len(pending)
      <4>1. n \in 0 .. Len(pending)
        BY <1>1, <1>2, <2>2, <3>1
      <4>2. SubSeq(pending \o c, 1, n) = SubSeq(pending, 1, n)
        <5>1. SubSeq(pending, 1, n) \in Seq(Things) /\ Len(SubSeq(pending, 1, n)) = n
              /\ \A i \in 1 .. n : SubSeq(pending, 1, n)[i] = pending[i]
          BY <1>1, <4>1, FirstItems
        <5>2. n \in 0 .. Len(pending \o c)
          BY <1>1, <1>2, <2>2, <4>1
        <5>3. SubSeq(pending \o c, 1, n) \in Seq(Things) /\ Len(SubSeq(pending \o c, 1, n)) = n
              /\ \A i \in 1 .. n : SubSeq(pending \o c, 1, n)[i] = (pending \o c)[i]
          BY <2>2, <5>2, FirstItems
        <5>4. \A i \in 1 .. n : (pending \o c)[i] = pending[i]
          BY <1>1, <2>2, <4>1
        <5>. QED BY <5>1, <5>3, <5>4, SeqEqual
      <4>3. file' = file \o SubSeq(pending, 1, n)
        BY <2>1, <4>2
      <4>. QED BY <1>0, <2>1, <4>1, <4>3, FailsHeldBack
    <3>2. CASE n > Len(pending)
      <4>1. pending' = <<>>
        <5>1. n + 1 \in Int /\ Len(pending) \in Int /\ Len(pending) < n + 1
          BY <1>1, <1>2, <2>2, <3>2
        <5>. QED BY <2>1, <5>1, SubSeqEmpty
      <4>2. n \in 0 .. Len(pending \o c)
        BY <1>1, <1>2, <2>2
      <4>3. Begins(file \o (pending \o c), guest)
        BY <1>8, <1>10, Zenon
      <4>4. Begins(file', guest) /\ Len(file') = Len(file) + n
        <5>. DEFINE pc == pending \o c
        <5>1. pc \in Seq(Things) /\ n \in 0 .. Len(pc) /\ Begins(file \o pc, guest) /\ file' = file \o SubSeq(pc, 1, n)
          BY <2>1, <2>2, <4>2, <4>3
        <5>. HIDE DEF pc
        <5>. QED BY <1>1, <5>1, BeginsCut
      <4>5. file' \in Seq(Things)
        BY <4>4 DEF Begins
      <4>6. file' \o <<>> = file' /\ <<>> \in Seq(Things)
        BY <4>5, ConcatEmptySeq, EmptySeq
      <4>7. Len(file') >= Len(file)
        BY <1>1, <1>2, <2>2, <4>4
      <4>. QED BY <4>1, <4>4, <4>5, <4>6, <4>7, Zenon DEF FileGrows
    <3>. QED BY <1>1, <1>2, <2>2, <3>1, <3>2
  <2>4. DumpTypes' /\ ~Writing'
    BY <1>0, <2>0 DEF DumpInv, DumpTypes, Writing
  <2>. QED BY <1>0, <2>0, <2>3, <2>4, InvStep
<1>11. CASE wresult' = "err" /\ UNCHANGED <<file, pending, head, map, addr>>
  <2>1. FileGrows
    <3>1. Begins(file \o pending, guest)
      BY <1>0, FileFacts
    <3>. QED BY <1>1, <1>11, <3>1 DEF FileGrows
  <2>2. DumpTypes' /\ ~Writing'
    BY <1>0, <1>11 DEF DumpInv, DumpTypes, Writing
  <2>. QED BY <1>0, <1>11, <2>1, <2>2, InvStep
<1>. QED BY <1>9, <1>10, <1>11 DEF DumpChunk, c, end

LEMMA NextMappingInv ==
  ASSUME DumpInv, NextMapping
  PROVE  DumpInv'
<1>. DEFINE N == Len(guest.mappings)
            start == guest.mappings[map].start
            end == guest.mappings[map].end
<1>0. /\ file # NoFile /\ Writing /\ head = Len(Prelude(guest)) /\ map <= N /\ addr >= end
      /\ map' = map + 1 /\ addr' = Start(guest, map + 1)
      /\ UNCHANGED <<guest, file, pending, head, wresult, closed, loaded>>
  BY DEF NextMapping, AtMemory
<1>1. /\ guest \in Guests /\ IsGuest(guest) /\ FullRight(guest)
      /\ file \in Seq(Things) /\ pending \in Seq(Things) /\ Len(file) \in Nat
      /\ Begins(file \o pending, guest)
  BY <1>0, FileFacts
<1>2. map \in 1 .. N /\ addr \in Nat /\ N \in Nat
  BY <1>0, <1>1 DEF DumpInv, DumpTypes, FullRight
<1>3. start \in Nat /\ end = start + Size(guest, map) /\ Size(guest, map) \in Nat
  BY <1>1, <1>2, MappingType
<1>4. start <= addr /\ addr <= end /\ Len(file) + Len(pending) = head + Done
      /\ (Done > 0 => pending = <<>>)
  BY <1>0 DEF DumpInv, Position
<1>5. Done = At(guest, map) + (addr - start) /\ At(guest, map + 1) = At(guest, map) + Size(guest, map)
      /\ At(guest, map) \in Nat
  BY <1>0, <1>1, <1>2 DEF Done, FullRight
<1>6. Done = At(guest, map + 1)
  <2>. HIDE DEF start, end
  <2>1. addr = end
    BY <1>0, <1>2, <1>3, <1>4
  <2>. QED BY <1>3, <1>5, <2>1
<1>7. addr' \in Nat /\ Done' = At(guest, map + 1)
      /\ (map' <= N => guest.mappings[map'].start <= addr' /\ addr' <= guest.mappings[map'].end)
  <2>1. CASE map + 1 <= N
    <3>1. map + 1 \in 1 .. N
      BY <1>2, <2>1
    <3>. DEFINE s == guest.mappings[map + 1].start
                e == guest.mappings[map + 1].end
    <3>2. s \in Nat /\ Size(guest, map + 1) \in Nat /\ e = s + Size(guest, map + 1)
      BY <1>1, <3>1, MappingType
    <3>3. addr' = s
      BY <1>0, <2>1 DEF Start
    <3>4. At(guest, map + 1) \in Nat
      BY <1>1, <3>1 DEF FullRight
    <3>5. Done' = At(guest, map + 1) + (addr' - s)
      BY <1>0, <2>1 DEF Done
    <3>. HIDE DEF s, e
    <3>6. Done' = At(guest, map + 1) /\ s <= addr' /\ addr' <= e
      BY <3>2, <3>3, <3>4, <3>5
    <3>. QED BY <1>0, <3>2, <3>3, <3>6 DEF s, e
  <2>2. CASE ~(map + 1 <= N)
    <3>1. map + 1 = N + 1 /\ ~(map' <= N)
      BY <1>0, <1>2, <2>2
    <3>2. Done' = Len(Memory(guest))
      BY <1>0, <3>1 DEF Done
    <3>3. addr' = 0
      BY <1>0, <2>2 DEF Start
    <3>4. At(guest, N + 1) = Len(Memory(guest))
      BY <1>1 DEF FullRight
    <3>. QED BY <3>1, <3>2, <3>3, <3>4
  <2>. QED BY <2>1, <2>2
<1>8. FileGrows
  BY <1>0, <1>1 DEF FileGrows
<1>9. DumpTypes'
  BY <1>0, <1>2, <1>7 DEF DumpInv, DumpTypes
<1>10. Position'
  <2>1. Len(file') + Len(pending') = head' + Done' /\ (Done' > 0 => pending' = <<>>)
    BY <1>0, <1>4, <1>6, <1>7
  <2>2. ~(head' < Len(Prelude(guest'))) /\ guest' = guest
    <3>1. Len(Prelude(guest)) \in Nat
      BY <1>1 DEF FullRight
    <3>. QED BY <1>0, <3>1
  <2>. QED BY <1>7, <2>1, <2>2 DEF Position
<1>. QED BY <1>0, <1>8, <1>9, <1>10, InvStep

LEMMA ReturnOkInv ==
  ASSUME DumpInv, ReturnOk
  PROVE  DumpInv'
<1>0. /\ file # NoFile /\ Writing /\ head = Len(Prelude(guest)) /\ map > Len(guest.mappings)
      /\ wresult' = "ok" /\ UNCHANGED <<guest, file, pending, head, map, addr, closed, loaded>>
  BY DEF ReturnOk
<1>1. /\ guest \in Guests /\ IsGuest(guest) /\ FullRight(guest)
      /\ file \in Seq(Things) /\ pending \in Seq(Things) /\ Len(file) \in Nat
      /\ Begins(file \o pending, guest)
  BY <1>0, FileFacts
<1>2. Len(file) + Len(pending) = head + Done /\ (Done > 0 => pending = <<>>)
  BY <1>0 DEF DumpInv, Position
<1>3. ~(map <= Len(guest.mappings))
  BY <1>0, <1>1 DEF DumpInv, DumpTypes, FullRight
<1>4. Done = Len(Memory(guest))
  BY <1>3 DEF Done
<1>5. ASSUME Memory(guest) # <<>> PROVE file = Full(guest)
  <2>1. Memory(guest) \in Seq(Things)
    <3>1. Len(guest.mappings) \in 0 .. Len(guest.mappings)
      BY <1>1 DEF FullRight
    <3>2. MemoryRight(guest, Len(guest.mappings))
      BY <1>1, <3>1, MemoryIsRight
    <3>. QED BY <3>2 DEF MemoryRight, Memory
  <2>2. Len(Memory(guest)) \in Nat \ {0}
    BY <1>5, <2>1, EmptySeq
  <2>3. pending = <<>>
    BY <1>2, <1>4, <2>2
  <2>4. Len(pending) = 0
    BY <2>3
  <2>5. Begins(file, guest)
    BY <1>1, BeginsFile
  <2>6. Len(file) >= Len(Full(guest))
    BY <1>0, <1>1, <1>2, <1>4, <2>2, <2>4 DEF FullRight
  <2>. QED BY <1>1, <2>5, <2>6, WholeDump
<1>6. OkIsComplete' /\ ReadIsExact'
  BY <1>0, <1>5 DEF DumpInv, OkIsComplete, ReadIsExact
<1>7. DumpTypes' /\ Streams' /\ NotCreated' /\ ~Writing'
  BY <1>0 DEF DumpInv, DumpTypes, Streams, NotCreated, Writing
<1>. QED BY <1>6, <1>7 DEF DumpInv

LEMMA DropWriterInv ==
  ASSUME DumpInv, DropWriter
  PROVE  DumpInv'
<1>0. /\ wresult # "none" /\ ~closed /\ pending' = <<>> /\ closed' = TRUE
      /\ UNCHANGED <<guest, head, map, addr, wresult, loaded>>
  BY DEF DropWriter
<1>1. file # NoFile
  BY <1>0 DEF DumpInv, NotCreated
<1>2. /\ IsGuest(guest) /\ file \in Seq(Things) /\ pending \in Seq(Things)
      /\ Len(file) \in Nat /\ Len(pending) \in Nat /\ Begins(file \o pending, guest)
  BY <1>1, FileFacts
<1>3. PICK n \in 0 .. Len(pending) : file' = file \o SubSeq(pending, 1, n)
  BY DEF DropWriter
<1>4. Begins(file', guest) /\ Len(file') = Len(file) + n
  BY <1>2, <1>3, BeginsCut
<1>5. file' \in Seq(Things)
  BY <1>4 DEF Begins
<1>6. file' \o <<>> = file' /\ <<>> \in Seq(Things)
  BY <1>5, ConcatEmptySeq, EmptySeq
<1>7. Len(file') >= Len(file)
  BY <1>2, <1>4
<1>8. FileGrows
  BY <1>0, <1>4, <1>5, <1>6, <1>7, Zenon DEF FileGrows
<1>9. DumpTypes' /\ ~Writing'
  BY <1>0 DEF DumpInv, DumpTypes, Writing
<1>. QED BY <1>0, <1>1, <1>8, <1>9, InvStep

LEMMA CrashInv ==
  ASSUME DumpInv, Crash
  PROVE  DumpInv'
<1>0. /\ ~closed /\ pending' = <<>> /\ closed' = TRUE
      /\ UNCHANGED <<guest, file, head, map, addr, wresult, loaded>>
  BY DEF Crash
<1>1. DumpTypes' /\ ~Writing'
  BY <1>0 DEF DumpInv, DumpTypes, Writing
<1>2. CASE file = NoFile
  <2>1. Streams' /\ NotCreated'
    BY <1>0, <1>2 DEF DumpInv, Streams, NotCreated
  <2>2. ReadIsExact' /\ OkIsComplete'
    BY <1>0 DEF DumpInv, ReadIsExact, OkIsComplete
  <2>. QED BY <1>1, <2>1, <2>2 DEF DumpInv
<1>3. CASE file # NoFile
  <2>1. /\ IsGuest(guest) /\ file \in Seq(Things) /\ pending \in Seq(Things)
        /\ Len(file) \in Nat /\ Begins(file \o pending, guest)
    BY <1>3, FileFacts
  <2>2. Begins(file \o <<>>, guest)
    BY <2>1, BeginsFile
  <2>3. <<>> \in Seq(Things)
    BY EmptySeq
  <2>4. FileGrows
    BY <1>0, <2>1, <2>2, <2>3 DEF FileGrows
  <2>. QED BY <1>0, <1>1, <1>3, <2>4, InvStep
<1>. QED BY <1>2, <1>3

LEMMA ReadInv ==
  ASSUME DumpInv, Read
  PROVE  DumpInv'
<1>0. /\ file # NoFile /\ loaded' = (IF Accepts(file) THEN "ok" ELSE "err")
      /\ UNCHANGED <<guest, file, pending, head, map, addr, wresult, closed>>
  BY DEF Read
<1>1. IsGuest(guest) /\ file \in Seq(Things) /\ pending \in Seq(Things) /\ Begins(file \o pending, guest)
  BY <1>0, FileFacts
<1>2. Begins(file, guest)
  BY <1>1, BeginsFile
<1>3. Accepts(file) => file = Full(guest)
  BY <1>1, <1>2, AcceptsWhole
<1>4. ReadIsExact'
  BY <1>0, <1>3 DEF ReadIsExact
<1>5. DumpTypes' /\ Streams' /\ NotCreated' /\ OkIsComplete'
  BY <1>0 DEF DumpInv, DumpTypes, Streams, NotCreated, OkIsComplete
<1>6. (Writing /\ file # NoFile => Position)'
  BY <1>0 DEF DumpInv, Writing, Position, Done
<1>. QED BY <1>4, <1>5, <1>6 DEF DumpInv

-----------------------------------------------------------------------------
(* Theorems *)

\* What BufWriter was given is always a beginning of the dump, the part of
\* it that DumbDump::write and Memory::dump have got to; nothing of it is
\* held back after a chunk of memory.
THEOREM DumpInvariant == Spec => []DumpInv
<1>1. Init => DumpInv
  <2>. SUFFICES ASSUME Init PROVE DumpInv
    OBVIOUS
  <2>1. IsGuest(guest)
    BY GuestsAre DEF Init
  <2>2. FullRight(guest) /\ Len(guest.mappings) \in Nat
    BY <2>1, FullIsRight DEF FullRight
  <2>3. addr \in Nat
    <3>1. CASE 1 <= Len(guest.mappings)
      <4>1. 1 \in 1 .. Len(guest.mappings)
        BY <2>2, <3>1
      <4>2. guest.mappings[1].start \in Nat
        BY <2>1, <4>1, MappingType
      <4>. QED BY <3>1, <4>2 DEF Init, Start
    <3>2. CASE ~(1 <= Len(guest.mappings))
      BY <3>2 DEF Init, Start
    <3>. QED BY <3>1, <3>2
  <2>4. DumpTypes
    <3>1. Len(Prelude(guest)) \in Nat
      BY <2>2 DEF FullRight
    <3>2. head \in 0 .. Len(Prelude(guest)) /\ map \in 1 .. (Len(guest.mappings) + 1)
      BY <2>2, <3>1 DEF Init
    <3>. QED BY <2>3, <3>2 DEF Init, DumpTypes
  <2>5. file = NoFile /\ Streams /\ NotCreated
    BY DEF Init, Streams, NotCreated
  <2>6. ReadIsExact /\ OkIsComplete
    BY DEF Init, ReadIsExact, OkIsComplete
  <2>. QED BY <2>4, <2>5, <2>6 DEF DumpInv
<1>2. DumpInv /\ [Next]_vars => DumpInv'
  <2>. SUFFICES ASSUME DumpInv, [Next]_vars PROVE DumpInv'
    OBVIOUS
  <2>1. CASE UNCHANGED vars
    BY <2>1 DEF vars, DumpInv, DumpTypes, Streams, NotCreated, Writing, Position, Done, ReadIsExact, OkIsComplete
  <2>. QED BY <2>1, CreateInv, WriteItemInv, DumpChunkInv, NextMappingInv, ReturnOkInv, DropWriterInv,
              CrashInv, ReadInv DEF Next
<1>. QED BY <1>1, <1>2, PTL DEF Spec

\* DumbDump::read accepts nothing but a complete dump, also of a file that a
\* crash, a full disk or a writer that still runs left behind.
THEOREM ReadIsExactAlways == Spec => []ReadIsExact
<1>1. DumpInv => ReadIsExact
  BY DEF DumpInv
<1>. QED BY <1>1, DumpInvariant, PTL

\* When DumbDump::write returns Ok the dump of a guest with memory is on the
\* disk, although BufWriter is never flushed explicitly.
THEOREM OkIsCompleteAlways == Spec => []OkIsComplete
<1>1. DumpInv => OkIsComplete
  BY DEF DumpInv
<1>. QED BY <1>1, DumpInvariant, PTL

\* Every range of guest memory reads the same from a dump that was loaded,
\* through MemRemap, as from the guest.
THEOREM RemapFaithfulAlways == Spec => []RemapFaithful
<1>1. DumpInv => RemapFaithful
  <2>. SUFFICES ASSUME DumpInv, loaded = "ok", NEW a \in 0 .. MaxAddr, NEW n \in 0 .. (MaxAddr - a)
                PROVE  ReadPhysical(file, a, n) =
                         IF \E m \in DOMAIN guest.mappings :
                              guest.mappings[m].start <= a /\ a + n <= guest.mappings[m].end
                         THEN Cells(a, n) ELSE OutOfBounds
    BY DEF RemapFaithful
  <2>1. IsGuest(guest) /\ file = Full(guest)
    BY GuestsAre DEF DumpInv, DumpTypes, ReadIsExact
  <2>2. a \in Nat /\ n \in Nat
    BY DumpAssumption
  <2>. QED BY <2>1, <2>2, RemapReads
<1>. QED BY <1>1, DumpInvariant, PTL

=============================================================================
