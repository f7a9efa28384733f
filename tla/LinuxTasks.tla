----------------------------- MODULE LinuxTasks -----------------------------
(***************************************************************************)
(* Walks of the task list of a running Linux guest                         *)
(* (vminer/src/os/linux/mod.rs, and the closures of vminer-core/src/os.rs):*)
(* collect_processes, find_process_by_id, and current_thread where the     *)
(* symbol current_task is missing, which looks for the process whose page  *)
(* table the vCPU uses.                                                    *)
(*                                                                         *)
(* One action is one read of guest memory.  Between two of them the guest  *)
(* forks, exits, reaps, executes and schedules.  It unlinks with           *)
(* list_del_rcu, so an unlinked task keeps its next pointer.               *)
(***************************************************************************)
EXTENDS Naturals, FiniteSets, Sequences, Functions

CONSTANTS
  Tasks,       \* task structures, the one of init_task excepted
  KThreads,    \* the ones of kernel threads
  InitTask,    \* init_task: the head of the list
  Mms,         \* memory descriptors, each with a page table of its own
  Null,        \* the null pointer
  Kpgd,        \* the page table of the kernel
  Queries,     \* what is asked, of {"collect", "id", "current"}
  MaxForks,    \* bound: forks of the guest
  MaxSwitches, \* bound: times a kernel thread takes or leaves a memory descriptor
  MaxTaskFaults    \* bound: reads that fail

ASSUME TasksAssumption ==
  /\ KThreads \subseteq Tasks /\ InitTask \notin Tasks
  /\ Null \notin Mms /\ Kpgd \notin Mms
  /\ Queries \subseteq {"collect", "id", "current"}
  /\ {MaxForks, MaxSwitches, MaxTaskFaults} \subseteq Nat

VARIABLES
  next,        \* next[t]: tasks.next
  listed,      \* the tasks on the list
  reaped,      \* the tasks that were unlinked
  mm, active,  \* mm[t], active[t]: mm and active_mm
  nforks, nswitches, nTaskFaults,
  query,       \* what is asked
  target,      \* the task, or the page table, that is looked for
  reading,          \* the next read of the walk
  pos,         \* where the walk is
  got,         \* the memory descriptor that process_mm found
  reported,    \* the tasks given to the closure
  outcome,      \* "none", "end", "found" or "err"
  \* Since the walk began:
  always,      \* the tasks that were listed all the time
  ever,        \* the tasks that were listed some time
  held,        \* which task had which page table some time
  reused       \* whether the structure of a reaped task was given to a new one

taskGuestVars == <<next, listed, reaped, mm, active, nforks, nswitches>>
taskWalkVars == <<query, target, reading, pos, got, reported, outcome, nTaskFaults>>
taskGhostVars == <<always, ever, held, reused>>
taskVars == <<taskGuestVars, taskWalkVars, taskGhostVars>>

Nodes == Tasks \union {InitTask}

\* The page table that process_pgd gives for t, when it does not fail.
PgdOf(t) ==
  IF mm[t] # Null THEN mm[t] ELSE IF active[t] # Null THEN active[t] ELSE Kpgd

HeldNow == {h \in listed \X (Mms \union {Kpgd}) :
              \/ h[2] \in {mm[h[1]], active[h[1]]}
              \/ h[2] = Kpgd /\ h[1] \in KThreads}

LinuxTasksTypeOK ==
  /\ next \in [Nodes -> Nodes]
  /\ {listed, reaped, always, ever} \subseteq SUBSET Tasks
  /\ mm \in [Tasks -> Mms \union {Null}] /\ active \in [Tasks -> Mms \union {Null}]
  /\ nforks \in 0..MaxForks /\ nswitches \in 0..MaxSwitches /\ nTaskFaults \in 0..MaxTaskFaults
  /\ query \in Queries
  /\ target \in Tasks \union Mms \union {Kpgd, Null}
  /\ reading \in {"idle", "next", "id", "mm", "active_mm", "pgd", "flags", "done"}
  /\ pos \in Nodes
  /\ got \in Mms \union {Null}
  /\ reported \in Seq(Tasks)
  /\ outcome \in {"none", "end", "found", "err"}
  /\ held \subseteq Tasks \X (Mms \union {Kpgd}) /\ reused \in BOOLEAN

LinuxTasksInit ==
  /\ next = [t \in Nodes |-> InitTask]
  /\ listed = {} /\ reaped = {}
  /\ mm = [t \in Tasks |-> Null] /\ active = mm
  /\ nforks = 0 /\ nswitches = 0 /\ nTaskFaults = 0
  /\ query \in Queries
  /\ target = Null
  /\ reading = "idle" /\ pos = InitTask /\ got = Null
  /\ reported = <<>> /\ outcome = "none"
  /\ always = {} /\ ever = {} /\ held = {} /\ reused = FALSE

-----------------------------------------------------------------------------
(* The guest *)

Before(t) == CHOOSE p \in listed \union {InitTask} : next[p] = t

\* What the walk is judged by, after a step of the guest.
Witness ==
  /\ always' = always \intersect listed'
  /\ ever' = ever \union listed'
  /\ held' = held \union HeldNow'
  /\ UNCHANGED taskWalkVars

\* list_add_tail_rcu; the structure may be the one of a reaped task.
Fork(t) ==
  /\ t \notin listed /\ nforks < MaxForks
  /\ next' = [next EXCEPT ![Before(InitTask)] = t, ![t] = InitTask]
  /\ listed' = listed \union {t}
  /\ \E m \in IF t \in KThreads THEN {Null} ELSE Mms : mm' = [mm EXCEPT ![t] = m]
  /\ nforks' = nforks + 1
  /\ reused' = (reused \/ (reading # "idle" /\ t \in reaped))
  /\ UNCHANGED <<reaped, active, nswitches>>
  /\ Witness

\* The process becomes a zombie: it stays on the list without memory.
Exit(t) ==
  /\ t \in listed /\ mm[t] # Null
  /\ mm' = [mm EXCEPT ![t] = Null]
  /\ UNCHANGED <<next, listed, reaped, active, nforks, nswitches, reused>>
  /\ Witness

\* list_del_rcu: t itself still points into the list.
Reap(t) ==
  /\ t \in listed /\ mm[t] = Null
  /\ next' = [next EXCEPT ![Before(t)] = next[t]]
  /\ listed' = listed \ {t}
  /\ reaped' = reaped \union {t}
  /\ active' = [active EXCEPT ![t] = Null]
  /\ UNCHANGED <<mm, nforks, nswitches, reused>>
  /\ Witness

\* A kernel thread is scheduled and borrows a memory descriptor, or leaves it.
Switch(t) ==
  /\ t \in listed \intersect KThreads /\ nswitches < MaxSwitches
  /\ \E m \in Mms \union {Null} : m # active[t] /\ active' = [active EXCEPT ![t] = m]
  /\ nswitches' = nswitches + 1
  /\ UNCHANGED <<next, listed, reaped, mm, nforks, reused>>
  /\ Witness

Guest == \E t \in Tasks : Fork(t) \/ Exit(t) \/ Reap(t) \/ Switch(t)

-----------------------------------------------------------------------------
(* The walk *)

\* The query begins: iterate_list starts at the head of the list; the page
\* table of the vCPU is the one of the process it runs.
StartWalk ==
  /\ reading = "idle" /\ listed # {}
  /\ \/ query = "collect" /\ target' = Null
     \/ query = "id" /\ target' \in Tasks
     \/ query = "current" /\ \E t \in listed : PgdOf(t) # Kpgd /\ target' = PgdOf(t)
  /\ reading' = "next" /\ pos' = InitTask
  /\ always' = listed /\ ever' = listed /\ held' = HeldNow
  /\ UNCHANGED <<taskGuestVars, query, got, reported, outcome, nTaskFaults, reused>>

Finish(r) == reading' = "done" /\ outcome' = r

\* What the closure reads first: push_to reads nothing.
FirstRead == [collect |-> "next", id |-> "id", current |-> "mm"]

\* Mutant: the head of the list is looked at before it is left.
AdvanceChecked ==
  /\ reading = "next"
  /\ pos' = next[pos]
  /\ IF next[next[pos]] = InitTask
     THEN Finish("end") /\ UNCHANGED reported
     ELSE /\ reported' = Append(reported, next[pos])
          /\ reading' = FirstRead[query]
          /\ UNCHANGED outcome
  /\ UNCHANGED <<taskGuestVars, taskGhostVars, query, target, got, nTaskFaults>>

\* Mutant: the walk ends at a null pointer only.
AdvanceEndless ==
  /\ reading = "next"
  /\ pos' = next[pos]
  /\ reported' = IF next[pos] \in Tasks THEN Append(reported, next[pos]) ELSE reported
  /\ reading' = IF pos' = InitTask THEN "next" ELSE FirstRead[query]
  /\ Len(reported) < MaxForks + Cardinality(Tasks)
  /\ UNCHANGED <<taskGuestVars, taskGhostVars, query, target, got, nTaskFaults, outcome>>

\* The loop of iterate_list: reads list.next, stops at the head, or calls
\* the closure with the task there.  The closure of collect is push_to.
Advance ==
  /\ reading = "next"
  /\ pos' = next[pos]
  /\ IF next[pos] = InitTask
     THEN Finish("end") /\ UNCHANGED reported
     ELSE /\ reported' = Append(reported, next[pos])
          /\ reading' = FirstRead[query]
          /\ UNCHANGED outcome
  /\ UNCHANGED <<taskGuestVars, taskGhostVars, query, target, got, nTaskFaults>>

\* The closure breaks the walk or lets it go on.
Decide(matches) ==
  /\ IF matches THEN Finish("found") ELSE reading' = "next" /\ UNCHANGED outcome
  /\ UNCHANGED <<taskGuestVars, taskGhostVars, query, target, pos, got, reported, nTaskFaults>>

\* process_id, then find's predicate.
ReadId == reading = "id" /\ Decide(pos = target)

\* process_mm reads mm, then active_mm.
ReadMm ==
  /\ reading = "mm"
  /\ got' = mm[pos]
  /\ reading' = IF mm[pos] # Null THEN "pgd" ELSE "active_mm"
  /\ UNCHANGED <<taskGuestVars, taskGhostVars, query, target, pos, reported, outcome, nTaskFaults>>

ReadActiveMm ==
  /\ reading = "active_mm"
  /\ got' = active[pos]
  /\ reading' = IF active[pos] # Null THEN "pgd" ELSE "flags"
  /\ UNCHANGED <<taskGuestVars, taskGhostVars, query, target, pos, reported, outcome, nTaskFaults>>

\* mm.pgd, translated: every descriptor has its own page table.
ReadPgd == reading = "pgd" /\ Decide(got = target)

\* Mutant: a process without memory is taken for the current one.
ReadFlagsLax == reading = "flags" /\ Decide(got = Null)

\* Mutant: a process without memory is looked at again.
ReadFlagsAgain ==
  /\ reading = "flags"
  /\ reading' = IF pos \in KThreads THEN "next" ELSE "mm"
  /\ UNCHANGED <<taskGuestVars, taskGhostVars, query, target, pos, got, reported, outcome, nTaskFaults>>

\* process_is_kernel: only a kernel thread may be without memory.
ReadFlags ==
  /\ reading = "flags"
  /\ IF pos \in KThreads
     THEN Decide(target = Kpgd)
     ELSE /\ Finish("err")
          /\ UNCHANGED <<taskGuestVars, taskGhostVars, query, target, pos, got, reported, nTaskFaults>>

\* Any read can fail, and ends the query.
TaskFault ==
  /\ reading \notin {"idle", "done"} /\ nTaskFaults < MaxTaskFaults
  /\ nTaskFaults' = nTaskFaults + 1
  /\ Finish("err")
  /\ UNCHANGED <<taskGuestVars, taskGhostVars, query, target, pos, got, reported>>

TaskWalk == Advance \/ ReadId \/ ReadMm \/ ReadActiveMm \/ ReadPgd \/ ReadFlags

LinuxTasksNext == Guest \/ StartWalk \/ TaskWalk \/ TaskFault

LinuxTasksSpec == LinuxTasksInit /\ [][LinuxTasksNext]_taskVars

\* Reads of guest memory return.
LinuxTasksFairness == WF_taskVars(TaskWalk)

-----------------------------------------------------------------------------
(* Properties *)

\* A walk that comes back to the head has given the closure every process
\* that was there all the time, whatever the guest unlinked under it, unless
\* it gave the structure of an unlinked task to a new one.
NoneMissed ==
  outcome = "end" /\ ~reused => always \subseteq Range(reported)

\* What the closure is given was on the list at some time of the walk, and
\* no process is given twice, unless the guest gave the structure of an
\* unlinked task to a new one.
EachOnce == Range(reported) \subseteq ever /\ (~reused => IsInjective(reported))

\* The process found is the one looked for: at some time of the search it
\* had the page table of the vCPU, or it has the identifier.
FoundMatches ==
  outcome = "found" => IF query = "id" THEN pos = target ELSE <<pos, target>> \in held

\* Why they hold.  The guest links new tasks at the end: with b[t] the number
\* of the fork that made t, the list is in the order of b, whole and closed.
ListInOrder(b) ==
  LET list == listed \union {InitTask}
  IN /\ b[InitTask] = 0 /\ \A t \in listed : b[t] > 0
     /\ \A u, w \in listed : b[u] = b[w] => u = w
     /\ \A u \in list : next[u] \in list /\ \E p \in list : next[p] = u
     /\ \A u \in list : next[u] # InitTask => b[u] < b[next[u]]
     /\ \A u \in list : \A w \in listed : b[u] < b[w] => next[u] # InitTask /\ b[next[u]] <= b[w]

\* So are the pointers that the walk can follow, the ones of unlinked tasks
\* too, and none of them leads past a task that was there all the time: the
\* walk has given the closure the tasks up to where it is.
WalkInOrder(b) ==
  /\ \A t \in ever : b[t] > 0
  /\ \A u, w \in ever : b[u] = b[w] => u = w
  /\ \A u \in ever \union {InitTask} : next[u] # InitTask => b[u] < b[next[u]]
  /\ \A u \in ever \union {InitTask} : \A w \in always :
       b[u] < b[w] => next[u] # InitTask /\ b[next[u]] <= b[w]
  /\ outcome # "end" =>
       /\ \A w \in always : b[w] <= b[pos] => w \in Range(reported)
       /\ \A w \in Range(reported) : b[w] <= b[pos]

\* The walk only meets tasks that were on the list while it went on; what it
\* reads of one, that one had, because an unlinked task has no memory.
WalkRight ==
  /\ reading = "idle" => pos = InitTask /\ reported = <<>>
  /\ reading # "idle" =>
       /\ always \subseteq listed /\ listed \subseteq ever /\ ever \subseteq listed \union reaped
       /\ pos \in ever \union {InitTask} /\ Range(reported) \subseteq ever
       /\ \A u \in ever \union {InitTask} : next[u] \in ever \union {InitTask}
       /\ HeldNow \subseteq held
       /\ query = "current" => target # Kpgd
  /\ outcome # "none" => reading = "done"
  /\ reading = "id" => query = "id"
  /\ reading \in {"mm", "active_mm", "pgd", "flags"} => query = "current" /\ pos \in Tasks
  /\ reading = "pgd" => <<pos, got>> \in held
  /\ \A t \in Tasks \ listed : mm[t] = Null /\ active[t] = Null

\* The invariant of the walks.
LinuxTasksInv ==
  /\ LinuxTasksTypeOK /\ WalkRight
  /\ \E b \in [Nodes -> 0..nforks] :
       ListInOrder(b) /\ (~reused /\ reading # "idle" => WalkInOrder(b))
  /\ NoneMissed /\ EachOnce /\ FoundMatches

\* Every walk ends, because the guest does not write for ever.
WalkEnds == reading = "next" ~> reading = "done"

\* "we iterate the process list and find a matching PGD" (mod.rs, in
\* current_thread): when the process that has the page table of the vCPU
\* keeps it and stays on the list, the search finds a process with it.
FindsCurrent ==
  (query = "current" /\ reading = "done") =>
    \/ outcome = "found"
    \/ \A t \in always : mm[t] # target

=============================================================================
