----------------------------- MODULE NativeApi ------------------------------
(***************************************************************************)
(* The interface to C programs (native/src): the error that each thread    *)
(* keeps (error.rs), who owns a backend and when its drop callback runs    *)
(* (backend.rs, os.rs), and the arrays and strings that the caller gives   *)
(* to be filled (array.rs, cstring.rs).                                    *)
(*                                                                         *)
(* The threads of the program share backends and guests.  A call that      *)
(* needs guest memory or registers calls the backend of the program back,  *)
(* and the callback may use the interface again.  A panic in a call is     *)
(* caught and becomes its error.  The program is correct: it uses handles  *)
(* that it owns and frees no guest that a call is using.                   *)
(***************************************************************************)
EXTENDS Integers, Sequences, SequencesExt, FiniteSetsExt

CONSTANTS
  CThreads,    \* threads of the program
  Backends,    \* backends that it makes
  Caps,        \* lengths of the buffers that it gives; NullPtr is none
  MaxCalls,    \* bound: calls
  MaxDepth,    \* bound: calls in progress on one thread
  MaxItems     \* bound: items of a walk, and characters of a text

NullPtr == -1

ASSUME NativeAssumption ==
  /\ Caps \subseteq Nat \union {NullPtr}
  /\ {MaxCalls, MaxDepth, MaxItems} \subseteq Nat

VARIABLES
  lastError,   \* lastError[t]: ERROR, by the call that failed; 0 is none
  holder,      \* holder[b]: "nobody", "program", "call", "os", or "freed"
  drops,       \* drops[b]: times its drop callback ran
  calls,       \* calls[t]: the calls in progress, the outermost first
  ncalls,
  answer,      \* the last call that returned, if it filled a buffer
  expected     \* expected[t]: the error that t has not taken yet; 0 is none

nativeVars == <<lastError, holder, drops, calls, ncalls, answer, expected>>

-----------------------------------------------------------------------------
(* The exported functions, by the wrapper that runs them and by what the   *)
(* wrapper is given: a value, nothing, an array or a string.               *)

MemoryFns == [read_virtual_memory |-> "unit", try_read_virtual_memory |-> "unit",
              read_process_memory |-> "unit", try_read_process_memory |-> "unit"]

ProcessFns == [os_current_process |-> "value", os_current_thread |-> "value", os_processes |-> "array",
               process_id |-> "value", process_name |-> "string", process_pgd |-> "value",
               process_path |-> "string", process_parent |-> "value"]

ProcessListFns == [process_vmas |-> "array", process_threads |-> "array", process_children |-> "array",
                   process_modules |-> "array", process_callstack |-> "array"]

ThreadFns == [thread_id |-> "value", thread_name |-> "string", thread_process |-> "value"]

VmaFns == [vma_start |-> "value", vma_end |-> "value", vma_path |-> "string"]

ModuleFns == [module_start |-> "value", module_end |-> "value", module_name |-> "string",
              module_path |-> "string", resolve_symbol |-> "string"]

Kinds == UNION {{fns[f] : f \in DOMAIN fns} : fns \in {MemoryFns, ProcessFns, ProcessListFns, ThreadFns, VmaFns, ModuleFns}}

-----------------------------------------------------------------------------
(* Calls *)

\* back: the step to go on with after a callback; out: what is written in the
\* caller's buffer; count: how much of it; offered: what there was to write.
Call(kind, b, step, cap) ==
  [id |-> ncalls + 1, kind |-> kind, b |-> b, step |-> step, back |-> step, cap |-> cap,
   out |-> <<>>, count |-> 0, offered |-> 0, failed |-> FALSE, value |-> 0]

NoCall == [kind |-> "none"]

CallOf(t) == Last(calls[t])
SetCall(t, c) == calls' = [calls EXCEPT ![t][Len(calls[t])] = c]

\* The thread runs code of the program.
InProgram(t) == IF calls[t] = <<>> THEN TRUE ELSE CallOf(t).step \in {"callback", "dropping"}

\* A call on t is at that step.
AtStep(t, step) == calls[t] # <<>> /\ CallOf(t).step = step

Begin(t, c) ==
  /\ InProgram(t) /\ ncalls < MaxCalls /\ Len(calls[t]) < MaxDepth
  /\ calls' = [calls EXCEPT ![t] = Append(@, c)]
  /\ ncalls' = ncalls + 1

NativeInit ==
  /\ lastError = [t \in CThreads |-> 0]
  /\ holder = [b \in Backends |-> "nobody"]
  /\ drops = [b \in Backends |-> 0]
  /\ calls = [t \in CThreads |-> <<>>]
  /\ ncalls = 0
  /\ answer = NoCall
  /\ expected = [t \in CThreads |-> 0]

\* Mutant: one error for all the threads.
SetErrorShared(t, id) == lastError' = [u \in CThreads |-> id]

\* set_error and clear_error
SetError(t, id) == lastError' = [lastError EXCEPT ![t] = id]

\* catch_unwind: the call of t returns, as c.
FinishCall(t, c) ==
  /\ SetError(t, IF c.failed THEN c.id ELSE 0)
  /\ calls' = [calls EXCEPT ![t] = Front(@)]
  /\ answer' = IF c.kind \in {"array", "string"} THEN [c EXCEPT !.id = 0] ELSE NoCall
  /\ expected' = [expected EXCEPT ![t] = IF c.failed THEN c.id ELSE 0]
  /\ UNCHANGED ncalls

\* The wrappers' answers: wrap_box and wrap give what they have or nothing,
\* wrap_unit and wrap_usize a number.
Succeed(t, n) == FinishCall(t, [CallOf(t) EXCEPT !.value = n])
Report(t) == FinishCall(t, [CallOf(t) EXCEPT !.failed = TRUE, !.value = -1])

-----------------------------------------------------------------------------
(* Backends and guests *)

\* backend_make: nothing can fail, and the error stays.
BackendMake(t, b) ==
  /\ InProgram(t) /\ holder[b] = "nobody"
  /\ holder' = [holder EXCEPT ![b] = "program"]
  /\ UNCHANGED <<lastError, drops, calls, ncalls, answer, expected>>

\* kvm_connect and read_dump
Connect(t, b) ==
  /\ holder[b] = "nobody"
  /\ Begin(t, Call("connect", b, "run", NullPtr))
  /\ holder' = [holder EXCEPT ![b] = "call"]
  /\ UNCHANGED <<lastError, drops, answer, expected>>

Connected(t) ==
  /\ AtStep(t, "run") /\ CallOf(t).kind = "connect"
  /\ \E ok \in BOOLEAN :
       /\ holder' = [holder EXCEPT ![CallOf(t).b] = IF ok THEN "program" ELSE "nobody"]
       /\ IF ok THEN Succeed(t, 0) ELSE Report(t)
  /\ UNCHANGED drops

\* backend_free
BackendFree(t, b) ==
  /\ InProgram(t) /\ holder[b] = "program"
  /\ holder' = [holder EXCEPT ![b] = "freed"]
  /\ drops' = [drops EXCEPT ![b] = @ + 1]
  /\ UNCHANGED <<lastError, calls, ncalls, answer, expected>>

\* os_new, os_new_linux and os_new_windows take the backend whatever happens.
OsNew(t, b) ==
  /\ holder[b] = "program"
  /\ \E step \in {"linux?", "run"} : Begin(t, Call("new", b, step, NullPtr))
  /\ holder' = [holder EXCEPT ![b] = "call"]
  /\ UNCHANGED <<lastError, drops, answer, expected>>

\* Os::new: quick_check of Linux, then of Windows; then build.
Guess(t) ==
  /\ AtStep(t, "linux?") \/ AtStep(t, "windows?")
  /\ \E step \in {"run", IF AtStep(t, "linux?") THEN "windows?" ELSE "failing"} :
       SetCall(t, [CallOf(t) EXCEPT !.step = step])
  /\ UNCHANGED <<lastError, holder, drops, ncalls, answer, expected>>

Built(t) ==
  /\ AtStep(t, "run") /\ CallOf(t).kind = "new"
  /\ holder' = [holder EXCEPT ![CallOf(t).b] = "os"]
  /\ Succeed(t, 0)
  /\ UNCHANGED drops

\* Mutant: the program keeps the backend of a guest that was not recognized.
DropFailedKept(t) ==
  /\ AtStep(t, "failing") /\ CallOf(t).kind = "new"
  /\ SetCall(t, [CallOf(t) EXCEPT !.step = "dropping"])
  /\ holder' = [holder EXCEPT ![CallOf(t).b] = "program"]
  /\ drops' = [drops EXCEPT ![CallOf(t).b] = @ + 1]
  /\ UNCHANGED <<lastError, ncalls, answer, expected>>

\* The closure returns an error and drops the backend that it owns: the
\* drop callback runs before the error is set.
DropFailed(t) ==
  /\ AtStep(t, "failing") /\ CallOf(t).kind = "new"
  /\ SetCall(t, [CallOf(t) EXCEPT !.step = "dropping"])
  /\ holder' = [holder EXCEPT ![CallOf(t).b] = "freed"]
  /\ drops' = [drops EXCEPT ![CallOf(t).b] = @ + 1]
  /\ UNCHANGED <<lastError, ncalls, answer, expected>>

Dropped(t) ==
  /\ AtStep(t, "dropping")
  /\ Report(t)
  /\ UNCHANGED <<holder, drops>>

Using(b) == \E t \in CThreads : \E k \in DOMAIN calls[t] : calls[t][k].b = b

\* os_free drops the guest, and the backend with it.
OsFree(t, b) ==
  /\ InProgram(t) /\ holder[b] = "os" /\ ~Using(b)
  /\ holder' = [holder EXCEPT ![b] = "freed"]
  /\ drops' = [drops EXCEPT ![b] = @ + 1]
  /\ UNCHANGED <<lastError, calls, ncalls, answer, expected>>

-----------------------------------------------------------------------------
(* Questions to a guest *)

Ask(t, b) ==
  /\ holder[b] = "os"
  /\ \E kind \in Kinds : \E cap \in IF kind \in {"array", "string"} THEN Caps ELSE {NullPtr} :
       Begin(t, Call(kind, b, "run", cap))
  /\ UNCHANGED <<lastError, holder, drops, answer, expected>>

Asked(t, kinds) == AtStep(t, "run") /\ CallOf(t).kind \in kinds

\* The backend is asked for memory or registers: a callback that the program
\* gave, or none.
CallBack(t) ==
  /\ Asked(t, Kinds \union {"new"}) \/ AtStep(t, "linux?") \/ AtStep(t, "windows?")
  /\ \/ SetCall(t, [CallOf(t) EXCEPT !.step = "callback", !.back = CallOf(t).step])
     \/ AtStep(t, "run") /\ SetCall(t, [CallOf(t) EXCEPT !.step = "failing"])
  /\ UNCHANGED <<lastError, holder, drops, ncalls, answer, expected>>

\* What read_physical and read_virtual_memory make of the callback's answer.
ReadAnswer(code) == IF code = 0 THEN "ok" ELSE IF code > 0 THEN "io" ELSE "out of bounds"

\* The callback returns.  Some calls go on without what they did not get.
CallbackReturns(t) ==
  /\ AtStep(t, "callback")
  /\ \E code \in {-1, 0, 1} :
       \/ SetCall(t, [CallOf(t) EXCEPT !.step = CallOf(t).back])
       \/ /\ ReadAnswer(code) # "ok" /\ CallOf(t).back = "run"
          /\ SetCall(t, [CallOf(t) EXCEPT !.step = "failing"])
  /\ UNCHANGED <<lastError, holder, drops, ncalls, answer, expected>>

\* Formatter::new: one cell is for the terminator.
Room(c) == IF c.cap \in {NullPtr, 0} THEN 0 ELSE c.cap - 1 - Len(c.out)

\* finish, and the drop of a Formatter: the text is terminated.
Terminated(c) == IF c.cap \in {NullPtr, 0} THEN c ELSE [c EXCEPT !.out = Append(@, 0)]

\* An error is passed on; what was written in the caller's array stays.
FailCall(t) ==
  /\ AtStep(t, "failing") /\ CallOf(t).kind # "new"
  /\ IF CallOf(t).kind = "string"
     THEN FinishCall(t, [Terminated(CallOf(t)) EXCEPT !.failed = TRUE, !.value = -1])
     ELSE Report(t)
  /\ UNCHANGED <<holder, drops>>

\* wrap and wrap_unit: the value is there.
Valued(t) ==
  /\ Asked(t, {"value", "unit"})
  /\ Succeed(t, 0)
  /\ UNCHANGED <<holder, drops>>

\* Mutant: the limit is checked after the write.
PushLate(c) ==
  IF c.cap # NullPtr /\ c.count > c.cap THEN c
  ELSE [c EXCEPT !.count = @ + 1, !.out = IF c.cap = NullPtr THEN @ ELSE Append(@, c.offered)]

\* Array::push: written while there is room, counted without an array.
Push(c) ==
  IF c.cap # NullPtr /\ c.count >= c.cap THEN c
  ELSE [c EXCEPT !.count = @ + 1, !.out = IF c.cap = NullPtr THEN @ ELSE Append(@, c.offered)]

\* fill: the walk gives one more item, and breaks when the array is full.
FillItem(t) ==
  /\ Asked(t, {"array"}) /\ CallOf(t).offered < MaxItems
  /\ LET c == [CallOf(t) EXCEPT !.offered = @ + 1]
     IN IF Push(c) = c
        THEN FinishCall(t, [c EXCEPT !.value = c.count])
        ELSE SetCall(t, Push(c)) /\ UNCHANGED <<lastError, ncalls, answer, expected>>
  /\ UNCHANGED <<holder, drops>>

\* write_str: as much of the text as there is room for.
WriteStr(c, n) ==
  LET m == Min({n, Room(c)})
  IN [c EXCEPT !.offered = @ + n, !.count = @ + m,
               !.out = @ \o [k \in 1..m |-> c.offered + k]]

\* with_formatter: the text, in one piece or none at all, is written and
\* terminated; a text that does not fit is cut.
FillText(t) ==
  /\ Asked(t, {"string"})
  /\ \E n \in 0..MaxItems :
       LET c == WriteStr(CallOf(t), n) IN FinishCall(t, [Terminated(c) EXCEPT !.value = c.count])
  /\ UNCHANGED <<holder, drops>>

\* fill: the walk is over.
Filled(t) ==
  /\ Asked(t, {"array"})
  /\ Succeed(t, CallOf(t).count)
  /\ UNCHANGED <<holder, drops>>

\* take_last_error; print_last_error puts back what it takes.
TakeLastError(t) ==
  /\ InProgram(t) /\ lastError[t] # 0
  /\ SetError(t, 0)
  /\ expected' = [expected EXCEPT ![t] = 0]
  /\ UNCHANGED <<holder, drops, calls, ncalls, answer>>

NativeNext ==
  \E t \in CThreads :
    \/ \E b \in Backends : BackendMake(t, b) \/ Connect(t, b) \/ BackendFree(t, b) \/ OsNew(t, b) \/ OsFree(t, b) \/ Ask(t, b)
    \/ Connected(t) \/ Guess(t) \/ Built(t) \/ DropFailed(t) \/ Dropped(t)
    \/ CallBack(t) \/ CallbackReturns(t) \/ FailCall(t) \/ Valued(t)
    \/ FillItem(t) \/ FillText(t) \/ Filled(t) \/ TakeLastError(t)

NativeSpec == NativeInit /\ [][NativeNext]_nativeVars

-----------------------------------------------------------------------------
(* Properties *)

CallSet ==
  [id : Nat, kind : Kinds \union {"connect", "new"}, b : Backends,
   step : {"run", "linux?", "windows?", "callback", "failing", "dropping"},
   back : {"run", "linux?", "windows?"}, cap : Nat \union {NullPtr}, out : Seq(Nat),
   count : Nat, offered : Nat, failed : BOOLEAN, value : Int]

NativeTypeOK ==
  /\ lastError \in [CThreads -> Nat] /\ expected \in [CThreads -> Nat]
  /\ holder \in [Backends -> {"nobody", "program", "call", "os", "freed"}]
  /\ drops \in [Backends -> Nat]
  /\ calls \in [CThreads -> Seq(CallSet)]
  /\ ncalls \in 0..MaxCalls
  /\ answer \in CallSet \union {NoCall}


\* The error that a thread sees is the one of the call of its own that
\* returned last, if that failed and was not taken: whatever other threads
\* and the callbacks of its own calls did in between.
OwnLastError == \A t \in CThreads : InProgram(t) => lastError[t] = expected[t]

\* The drop callback of a backend runs once, when nothing can use the
\* backend any more, on every path: also when no guest was recognized.
DroppedOnce ==
  \A b \in Backends :
    /\ drops[b] = IF holder[b] = "freed" THEN 1 ELSE 0
    /\ holder[b] = "freed" => \A t \in CThreads : \A k \in DOMAIN calls[t] :
                                calls[t][k].b = b => calls[t][k].step = "dropping"

\* A call that succeeds fills the caller's buffer with the first items, in
\* order, as many as there are or as fit, and says how many.  No call writes
\* past the end, and every string is terminated, also by a call that fails.
BufferRight(c) ==
  c.kind \in {"array", "string"} =>
    /\ Len(c.out) <= IF c.cap = NullPtr THEN 0 ELSE c.cap
    /\ c.kind = "string" /\ c.cap > 0 => c.out # <<>> /\ Last(c.out) = 0
    /\ ~c.failed =>
         LET room == IF c.kind = "string" THEN c.cap - 1 ELSE c.cap
             n == IF c.cap = NullPtr
                  THEN IF c.kind = "array" THEN c.offered ELSE 0
                  ELSE Max({0, Min({c.offered, room})})
         IN /\ c.value = n
            /\ c.cap > 0 => c.out = [k \in 1..n |-> k] \o IF c.kind = "string" THEN <<0>> ELSE <<>>

\* The buffer of the call that returned last is right.
BuffersRight == BufferRight(answer)

\* Why they hold.  The call c has the backend for itself.
Owns(c) == c.kind \in {"connect", "new"} /\ c.step # "dropping"

\* A backend is with its guest while the guest is asked, with one call while
\* that makes it or a guest of it, and with nobody once it is dropped.
HoldersRight ==
  \A t \in CThreads : \A k \in DOMAIN calls[t] :
    LET c == calls[t][k]
    IN /\ c.kind \in Kinds => holder[c.b] = "os" /\ c.step # "dropping"
       /\ c.step = "dropping" => holder[c.b] = "freed"
       /\ Owns(c) =>
            /\ holder[c.b] = "call"
            /\ \A u \in CThreads : \A j \in DOMAIN calls[u] :
                 Owns(calls[u][j]) /\ calls[u][j].b = c.b => u = t /\ j = k

\* An array holds the items of the walk so far, or counts them; a text is
\* written at once.
FillRight(c) ==
  /\ ~c.failed
  /\ c.kind = "array" =>
       /\ c.count = c.offered
       /\ IF c.cap = NullPtr THEN c.out = <<>>
          ELSE c.offered <= c.cap /\ c.out = [i \in 1..c.offered |-> i]
  /\ c.kind = "string" => c.out = <<>> /\ c.offered = 0 /\ c.count = 0

FillsRight == \A t \in CThreads : \A k \in DOMAIN calls[t] : FillRight(calls[t][k])

\* The invariant of the interface.
NativeInv ==
  /\ NativeTypeOK /\ lastError = expected
  /\ HoldersRight /\ DroppedOnce
  /\ FillsRight /\ BuffersRight

=============================================================================
