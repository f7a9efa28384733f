----------------------------- MODULE RegsSocket -----------------------------
(***************************************************************************)
(* How the registers of the vCPUs leave the QEMU process: the listener     *)
(* thread of the vminer process (start_listener in                         *)
(* vminer/src/backends/kvm/mod.rs) and the payload that runs inside QEMU   *)
(* (kvm_patch/src/lib.rs) meet on a Unix stream socket whose path is the   *)
(* same for every vminer process, "/tmp/get_fds".                          *)
(*                                                                         *)
(* A register record is <<v, k>>: the registers, special registers and     *)
(* MSRs of the k-th vCPU descriptor of QEMU process v, which the payload   *)
(* writes, and the listener reads, in that order.                          *)
(***************************************************************************)
EXTENDS KvmProcesses, Sequences

VARIABLES
  path,        \* whose socket the file "/tmp/get_fds" is, or NoInst
  lsn,         \* lsn[i]: i's listening socket
  backlog,     \* backlog[i]: connections waiting to be accepted from it
  thr,         \* thr[i]: i's listener thread
  peer,        \* peer[i]: whose payload it accepted, or NoInst
  got,         \* got[i]: the records it has read
  conn,        \* conn[i]: the listener i's payload is connected to, or NoInst
  sent,        \* sent[i]: the records i's payload has written
  open         \* open[i]: i's payload has its end of the connection open

socketVars == <<path, lsn, backlog, thr, peer, got, conn, sent, open>>

Records == Vms \X (Nat \ {0})

\* The descriptors i found in /proc/pid/fd.
Fds(i) == VcpuCount[Target[i]]

\* What a complete and correct answer to i is.
AllRecords(i) == [k \in 1..Fds(i) |-> <<Target[i], k>>]

SocketTypeOK ==
  /\ path \in Insts \cup {NoInst}
  /\ lsn \in [Insts -> {"none", "open", "closed"}]
  /\ backlog \in [Insts -> Seq(Insts)]
  /\ thr \in [Insts -> {"none", "accept", "read", "ok", "err"}]
  /\ peer \in [Insts -> Insts \cup {NoInst}]
  /\ got \in [Insts -> Seq(Records)]
  /\ conn \in [Insts -> Insts \cup {NoInst}]
  /\ sent \in [Insts -> Seq(Records)]
  /\ open \in [Insts -> BOOLEAN]
  /\ \A i \in Insts : thr[i] = "read" => peer[i] \in Insts

SocketInit ==
  /\ path = NoInst
  /\ lsn = [i \in Insts |-> "none"]
  /\ backlog = [i \in Insts |-> <<>>]
  /\ thr = [i \in Insts |-> "none"]
  /\ peer = [i \in Insts |-> NoInst]
  /\ got = [i \in Insts |-> <<>>]
  /\ conn = [i \in Insts |-> NoInst]
  /\ sent = [i \in Insts |-> <<>>]
  /\ open = [i \in Insts |-> FALSE]

-----------------------------------------------------------------------------
(* start_listener, on the main thread of the vminer process *)

\* fs::remove_file, whose result is ignored.
UnlinkPath ==
  /\ path' = NoInst
  /\ UNCHANGED <<lsn, backlog, thr, peer, got, conn, sent, open>>

\* UnixListener::bind fails when the path exists, and may for other reasons.
BindWorks == path = NoInst

Bind(i) ==
  /\ path' = i
  /\ lsn' = [lsn EXCEPT ![i] = "open"]
  /\ UNCHANGED <<backlog, thr, peer, got, conn, sent, open>>

\* fs::set_permissions fails when the path is gone, and may for other reasons;
\* it changes whatever file the path names by now.
ChmodWorks == path # NoInst

\* The early return drops the listener; the file stays.
DropListener(i) ==
  /\ lsn' = [lsn EXCEPT ![i] = "closed"]
  /\ UNCHANGED <<path, backlog, thr, peer, got, conn, sent, open>>

SpawnListener(i) ==
  /\ thr' = [thr EXCEPT ![i] = "accept"]
  /\ UNCHANGED <<path, lsn, backlog, peer, got, conn, sent, open>>

-----------------------------------------------------------------------------
(* The listener thread *)

Accept(i) ==
  /\ thr[i] = "accept" /\ backlog[i] # <<>>
  /\ thr' = [thr EXCEPT ![i] = "read"]
  /\ peer' = [peer EXCEPT ![i] = Head(backlog[i])]
  /\ backlog' = [backlog EXCEPT ![i] = Tail(@)]
  /\ UNCHANGED <<path, lsn, got, conn, sent, open>>

\* The three read_exact of one vCPU.
ReadVcpu(i) ==
  /\ thr[i] = "read" /\ Len(got[i]) < Fds(i)
  /\ Len(got[i]) < Len(sent[peer[i]])
  /\ got' = [got EXCEPT ![i] = Append(@, sent[peer[i]][Len(@) + 1])]
  /\ UNCHANGED <<path, lsn, backlog, thr, peer, conn, sent, open>>

\* The thread's closure ends and drops both of its sockets.
EndThread(i, result) ==
  /\ thr' = [thr EXCEPT ![i] = result]
  /\ lsn' = [lsn EXCEPT ![i] = "closed"]
  /\ UNCHANGED <<path, backlog, peer, got, conn, sent, open>>

\* Mutant: read in place of read_exact, a short answer is an answer.
ReadEofAsEnd(i) ==
  /\ thr[i] = "read" /\ Len(got[i]) < Fds(i)
  /\ Len(got[i]) = Len(sent[peer[i]]) /\ ~open[peer[i]]
  /\ EndThread(i, "ok")

\* read_exact meets the end of the stream.
ReadEof(i) ==
  /\ thr[i] = "read" /\ Len(got[i]) < Fds(i)
  /\ Len(got[i]) = Len(sent[peer[i]]) /\ ~open[peer[i]]
  /\ EndThread(i, "err")

ReadAll(i) ==
  /\ thr[i] = "read" /\ Len(got[i]) = Fds(i)
  /\ EndThread(i, "ok")

\* accept fails: the file table is full, a signal handler ran.
AcceptFails(i) ==
  /\ thr[i] = "accept"
  /\ EndThread(i, "err")

\* The calls of the thread that return what came over the socket.
Answers(i) == Accept(i) \/ ReadVcpu(i) \/ ReadEof(i) \/ ReadAll(i)

ListenerStep(i) == Answers(i) \/ AcceptFails(i)

-----------------------------------------------------------------------------
(* send_fds, in the QEMU process, on behalf of i *)

ConnectWorks == path # NoInst /\ lsn[path] = "open"

Connect(i) ==
  /\ conn' = [conn EXCEPT ![i] = path]
  /\ open' = [open EXCEPT ![i] = TRUE]
  /\ backlog' = [backlog EXCEPT ![path] = Append(@, i)]
  /\ UNCHANGED <<path, lsn, thr, peer, got, sent>>

\* write_all on a connection whose other end is closed fails (EPIPE).
WriteWorks(i) == lsn[conn[i]] = "open"

\* The ioctls and the write_all of the next vCPU.
SendVcpu(i) ==
  /\ sent' = [sent EXCEPT ![i] = Append(@, <<Target[i], Len(@) + 1>>)]
  /\ UNCHANGED <<path, lsn, backlog, thr, peer, got, conn, open>>

\* send_fds returns, with or without an error: the stream is dropped.
CloseStream(i) ==
  /\ open' = [open EXCEPT ![i] = FALSE]
  /\ UNCHANGED <<path, lsn, backlog, thr, peer, got, conn, sent>>

\* The QEMU process v ends: the kernel closes its descriptors.
CloseAllOf(v) ==
  /\ open' = [i \in Insts |-> open[i] /\ Target[i] # v]
  /\ UNCHANGED <<path, lsn, backlog, thr, peer, got, conn, sent>>

\* The vminer process i ends: its thread and its sockets go with it.
ListenerGone(i) ==
  /\ thr' = [thr EXCEPT ![i] = "none"]
  /\ lsn' = [lsn EXCEPT ![i] = IF @ = "open" THEN "closed" ELSE @]
  /\ UNCHANGED <<path, backlog, peer, got, conn, sent, open>>

=============================================================================
