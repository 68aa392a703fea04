----------------------------- MODULE PipeMonitor -----------------------------
(***************************************************************************)
(* helpers.c: system_argv_pipe_fd forks a monitor, which opens a pipe,     *)
(* forks the command on its left (writer) and the one on its right         *)
(* (reader), lets go of the pipe and waits for both.                       *)
(*                                                                         *)
(* The kernel keeps the pipe: a child inherits what its parent holds, a    *)
(* read from an empty pipe ends the input once nobody holds the write end, *)
(* a write to a pipe nobody can read kills the writer.  A command is       *)
(* whatever produces Total chunks, or reads to the end of its input; both  *)
(* may fail at any time.  Exit statuses are 0 and what is not.             *)
(***************************************************************************)
EXTENDS Integers, TLAPS

CONSTANTS Total,    \* what the left command has to say, in chunks
          Capacity  \* what the pipe holds, in chunks

ASSUME PipeAssumption == Total \in Nat /\ Capacity \in Nat \ {0}

VARIABLES
    at,      \* where the monitor is
    child,   \* what became of each child: "none", "forked", "running",
             \* or, once it is gone, "ok" or "failed"
    ends,    \* the ends of the pipe a process holds
    buf,     \* chunks in the pipe
    sent,    \* chunks the left command has written
    got,     \* chunks the right command has read
    result   \* what the monitor exits with, "none" before

vars == <<at, child, ends, buf, sent, got, result>>

Child == {"lhs", "rhs"}
Process == Child \cup {"monitor"}
Gone == {"ok", "failed"}

TypeOK ==
    /\ at \in {"pipe", "forkLhs", "forkRhs", "closeWrite", "closeRead",
               "waitLhs", "waitRhs", "exited"}
    /\ child \in [Child -> {"none", "forked", "running"} \cup Gone]
    /\ ends \in [Process -> SUBSET {"read", "write"}]
    /\ buf \in 0..Capacity /\ sent \in 0..Total /\ got \in 0..Total
    /\ result \in {"none"} \cup Gone

Readers == {p \in Process : "read" \in ends[p]}
Writers == {p \in Process : "write" \in ends[p]}

Init ==
    /\ at = "pipe"
    /\ child = [c \in Child |-> "none"]
    /\ ends = [p \in Process |-> {}]
    /\ buf = 0 /\ sent = 0 /\ got = 0
    /\ result = "none"
-----------------------------------------------------------------------------
(* pipe_monitor *)

OpenPipe ==
    /\ at = "pipe"
    /\ ends' = [ends EXCEPT !["monitor"] = {"read", "write"}]
    /\ at' = "forkLhs"
    /\ UNCHANGED <<child, buf, sent, got, result>>

\* system_argv_fd_nowait: the child holds what the monitor holds.
Fork(here, c, next) ==
    /\ at = here
    /\ child' = [child EXCEPT ![c] = "forked"]
    /\ ends' = [ends EXCEPT ![c] = ends["monitor"]]
    /\ at' = next
    /\ UNCHANGED <<buf, sent, got, result>>

ForkLhs == Fork("forkLhs", "lhs", "forkRhs")
ForkRhs == Fork("forkRhs", "rhs", "closeWrite")

\* fork fails: the monitor asserts, its parent sees a signal.
ForkFails ==
    /\ at \in {"forkLhs", "forkRhs"}
    /\ at' = "exited"
    /\ ends' = [ends EXCEPT !["monitor"] = {}]
    /\ result' = "failed"
    /\ UNCHANGED <<child, buf, sent, got>>

CloseWrite ==
    /\ at = "closeWrite"
    /\ ends' = [ends EXCEPT !["monitor"] = @ \ {"write"}]
    /\ at' = "closeRead"
    /\ UNCHANGED <<child, buf, sent, got, result>>

CloseRead ==
    /\ at = "closeRead"
    /\ ends' = [ends EXCEPT !["monitor"] = @ \ {"read"}]
    /\ at' = "waitLhs"
    /\ UNCHANGED <<child, buf, sent, got, result>>

\* wait_process_terminate(lhspid)
WaitLhs ==
    /\ at = "waitLhs" /\ child["lhs"] \in Gone
    /\ at' = "waitRhs"
    /\ UNCHANGED <<ends, child, buf, sent, got, result>>

\* Mutant: only the last command of the pipe counts, as in a shell.
ResultOfRhs == child["rhs"]

\* The right command's failure comes first, then the left one's.
Result == IF child["rhs"] # "ok" THEN child["rhs"] ELSE child["lhs"]

\* wait_process_terminate(rhspid), and exit
WaitRhs ==
    /\ at = "waitRhs" /\ child["rhs"] \in Gone
    /\ result' = Result
    /\ at' = "exited"
    /\ UNCHANGED <<ends, child, buf, sent, got>>
-----------------------------------------------------------------------------
(* The children *)

\* Mutant: the end a command has no use for stays open.
UnusedKept(c) == {}

\* exec_cmd_fd closes closefd, the end of the pipe the command has no use for.
Unused(c) == IF c = "lhs" THEN {"read"} ELSE {"write"}

Exec(c) ==
    /\ child[c] = "forked"
    /\ child' = [child EXCEPT ![c] = "running"]
    /\ ends' = [ends EXCEPT ![c] = @ \ Unused(c)]
    /\ UNCHANGED <<at, buf, sent, got, result>>

\* A process that is gone holds nothing.
Ends(c, status) ==
    /\ child' = [child EXCEPT ![c] = status]
    /\ ends' = [ends EXCEPT ![c] = {}]
    /\ UNCHANGED <<at, buf, sent, got, result>>

Write ==
    /\ child["lhs"] = "running" /\ sent < Total
    /\ Readers # {} /\ buf < Capacity
    /\ buf' = buf + 1 /\ sent' = sent + 1
    /\ UNCHANGED <<at, child, ends, got, result>>

\* SIGPIPE
WriteToNobody ==
    /\ child["lhs"] = "running" /\ sent < Total /\ Readers = {}
    /\ Ends("lhs", "failed")

AllWritten ==
    /\ child["lhs"] = "running" /\ sent = Total
    /\ Ends("lhs", "ok")

Read ==
    /\ child["rhs"] = "running" /\ buf > 0
    /\ buf' = buf - 1 /\ got' = got + 1
    /\ UNCHANGED <<at, child, ends, sent, result>>

EndOfInput ==
    /\ child["rhs"] = "running" /\ buf = 0 /\ Writers = {}
    /\ Ends("rhs", "ok")

\* exec or the command itself fails, in the middle of anything.
ChildFails(c) ==
    /\ child[c] \in {"forked", "running"}
    /\ Ends(c, "failed")
-----------------------------------------------------------------------------
Monitor == \/ OpenPipe \/ ForkLhs \/ ForkRhs \/ CloseWrite \/ CloseRead
           \/ WaitLhs \/ WaitRhs
Lhs == Exec("lhs") \/ Write \/ WriteToNobody \/ AllWritten
Rhs == Exec("rhs") \/ Read \/ EndOfInput

Next == \/ Monitor \/ Lhs \/ Rhs
        \/ ForkFails
        \/ \E c \in Child : ChildFails(c)

Spec == Init /\ [][Next]_vars

\* Each process gets to run; nothing has to fail.
FairSpec == Spec /\ WF_vars(Monitor) /\ WF_vars(Lhs) /\ WF_vars(Rhs)
-----------------------------------------------------------------------------
\* Success is reported only when the right command has read, to the end,
\* everything the left command had to say: nothing that fails or dies on either
\* side, at any time, is taken for a short but complete stream.
SuccessMeansCopied == result = "ok" => got = Total /\ child["lhs"] = "ok"

\* Whichever process fails or dies first, nobody is left waiting: a reader for
\* the end of an input that some process still holds open, a writer for room in
\* a pipe nobody reads, or the monitor for one of them.
NobodyHangs == <>(at = "exited" /\ \A c \in Child : child[c] \in Gone \cup {"none"})
-----------------------------------------------------------------------------
(* The pipe reports success only for a complete stream, for a stream and a *)
(* pipe of any size.                                                       *)

\* Every chunk written is in the pipe or has been read.
NothingLost == got + buf = sent

\* The children are forked in order.
ForkOrder ==
    /\ at \in {"pipe", "forkLhs"} => child["lhs"] = "none" /\ child["rhs"] = "none"
    /\ at = "forkRhs" => child["lhs"] # "none" /\ child["rhs"] = "none"
    /\ child["rhs"] # "none" => child["lhs"] # "none"

\* Until it is gone, the left command keeps the input from ending.
WriterHolds ==
    /\ at \in {"forkLhs", "forkRhs"} => "write" \in ends["monitor"]
    /\ child["lhs"] \in {"forked", "running"} => "write" \in ends["lhs"]

\* What the success of a process means.
SuccessMeans ==
    /\ child["lhs"] = "ok" => sent = Total
    /\ child["rhs"] = "ok" => buf = 0 /\ child["lhs"] \in Gone
    /\ result = "ok" => child["lhs"] = "ok" /\ child["rhs"] = "ok"

PipeInv == TypeOK /\ NothingLost /\ ForkOrder /\ WriterHolds /\ SuccessMeans

USE PipeAssumption DEF PipeAssumption

\* The invariant holds when the monitor starts.
LEMMA PipeInit == Init => PipeInv
  BY DEF Init, PipeInv, TypeOK, NothingLost, ForkOrder, WriterHolds, SuccessMeans,
         Child, Process, Gone

\* Every step of the monitor, of a child, and every failure preserves it.
LEMMA PipeStep == PipeInv /\ [Next]_vars => PipeInv'
<1> SUFFICES ASSUME PipeInv, [Next]_vars PROVE PipeInv'
  OBVIOUS
<1> USE DEF PipeInv, TypeOK, NothingLost, ForkOrder, WriterHolds, SuccessMeans,
            Child, Process, Gone
<1>1. CASE OpenPipe
  BY <1>1 DEF OpenPipe
<1>2. CASE ForkLhs
  BY <1>2 DEF ForkLhs, Fork
<1>3. CASE ForkRhs
  BY <1>3 DEF ForkRhs, Fork
<1>4. CASE CloseWrite
  BY <1>4 DEF CloseWrite
<1>5. CASE CloseRead
  BY <1>5 DEF CloseRead
<1>6. CASE WaitLhs
  BY <1>6 DEF WaitLhs
<1>7. CASE WaitRhs
  BY <1>7 DEF WaitRhs, Result
<1>8. ASSUME NEW c \in Child, Exec(c) PROVE PipeInv'
  BY <1>8 DEF Exec, Unused
<1>9. CASE Write
  <2>1. /\ buf \in Nat /\ sent \in Nat /\ got \in Nat
        /\ buf + 1 \in 0..Capacity /\ sent + 1 \in 0..Total
        /\ got + (buf + 1) = sent + 1
    BY <1>9 DEF Write
  <2>2. TypeOK' /\ NothingLost'
    BY <1>9, <2>1 DEF Write
  <2>3. ForkOrder' /\ WriterHolds' /\ SuccessMeans'
    BY <1>9 DEF Write
  <2> QED
    BY <2>2, <2>3
<1>10. CASE WriteToNobody
  BY <1>10 DEF WriteToNobody, Ends
<1>11. CASE AllWritten
  BY <1>11 DEF AllWritten, Ends
<1>12. CASE Read
  <2>1. /\ buf \in Nat /\ sent \in Nat /\ got \in Nat
        /\ buf - 1 \in 0..Capacity /\ got + 1 \in 0..Total
        /\ (got + 1) + (buf - 1) = sent
    BY <1>12 DEF Read
  <2>2. TypeOK' /\ NothingLost'
    BY <1>12, <2>1 DEF Read
  <2>3. ForkOrder' /\ WriterHolds' /\ SuccessMeans'
    BY <1>12 DEF Read
  <2> QED
    BY <2>2, <2>3
<1>13. CASE EndOfInput
  <2>1. child["lhs"] \in Gone
    BY <1>13 DEF EndOfInput, Writers
  <2> QED
    BY <1>13, <2>1 DEF EndOfInput, Ends
<1>14. CASE ForkFails
  BY <1>14 DEF ForkFails
<1>15. ASSUME NEW c \in Child, ChildFails(c) PROVE PipeInv'
  BY <1>15 DEF ChildFails, Ends
<1>16. CASE UNCHANGED vars
  BY <1>16 DEF vars
<1> QED
  BY <1>1, <1>2, <1>3, <1>4, <1>5, <1>6, <1>7, <1>8, <1>9, <1>10, <1>11, <1>12,
     <1>13, <1>14, <1>15, <1>16 DEF Next, Monitor, Lhs, Rhs

\* For every length of the stream and every capacity of the pipe: the monitor
\* reports success only if the right command has read all the left one had to say.
THEOREM StreamComplete == Spec => []SuccessMeansCopied
<1>1. PipeInv => SuccessMeansCopied
  <2> SUFFICES ASSUME PipeInv, result = "ok" PROVE got = Total /\ child["lhs"] = "ok"
    BY DEF SuccessMeansCopied
  <2>1. buf = 0 /\ sent = Total /\ child["lhs"] = "ok" /\ got \in Nat
    BY DEF PipeInv, TypeOK, SuccessMeans
  <2>2. got + 0 = Total
    BY <2>1 DEF PipeInv, NothingLost
  <2> QED
    BY <2>1, <2>2
<1> QED
  BY <1>1, PipeInit, PipeStep, PTL DEF Spec
=============================================================================
