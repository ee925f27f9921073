---------------------------- MODULE AuditWriter ----------------------------
(***************************************************************************)
(* AuditWriter: one caller thread appends lines to a bounded queue and the  *)
(* writer thread moves them, a batch at a time, to a file.  As in           *)
(* ModelWorker a critical section is one action and what a thread does      *)
(* after unlocking another.                                                *)
(*                                                                         *)
(*   queue     queue_                                                      *)
(*   batch     the lines the writer has swapped out of the queue            *)
(*   file      the lines that reached the file, none of them torn           *)
(*   good      whether the output stream can still be written               *)
(*   healthy, stopping, dropped                                            *)
(*   caller    outside the class, before a notify_one, joining, joined      *)
(*   writer    opening the file, before its predicate, asleep, writing a    *)
(*             batch, about to report a failure, or out                     *)
(*   log       the lines accepted so far and how many append calls there    *)
(*             were, which the code does not store                         *)
(*                                                                         *)
(* Lines are numbered in the order of the append calls.                     *)
(***************************************************************************)
EXTENDS Naturals, SequencesExt

CONSTANTS
    Capacity,   \* capacity_
    MaxLines    \* bounds the append calls

ASSUME AuditAssumption ==
    /\ Capacity \in Nat
    /\ MaxLines \in Nat

VARIABLES queue, batch, file, good, healthy, stopping, dropped, caller, writer, log

callers == <<stopping, caller, dropped, log>>

vars == <<queue, batch, file, good, healthy, stopping, dropped, caller, writer, log>>

Init ==
    /\ queue = <<>>
    /\ batch = <<>>
    /\ file = <<>>
    /\ good = TRUE
    /\ healthy = TRUE
    /\ stopping = FALSE
    /\ dropped = 0
    /\ caller = "ready"
    /\ writer = "opening"
    /\ log = [calls |-> 0, accepted |-> <<>>]

-----------------------------------------------------------------------------
(* The caller. *)

Full == Capacity = 0 \/ Len(queue) >= Capacity

Accept(line) ==
    /\ queue' = Append(queue, line)
    /\ log' = [calls |-> line, accepted |-> Append(log.accepted, line)]
    /\ caller' = "appended"
    /\ UNCHANGED dropped

(* Mutant of Drop: a line that finds the queue full is not counted. *)
DropUncounted(line) ==
    /\ log' = [log EXCEPT !.calls = line]
    /\ UNCHANGED <<queue, caller, dropped>>

Drop(line) ==
    /\ dropped' = dropped + 1
    /\ log' = [log EXCEPT !.calls = line]
    /\ UNCHANGED <<queue, caller>>

(* append: the newest line is dropped when the queue is full. *)
AppendLine ==
    /\ caller = "ready"
    /\ log.calls < MaxLines
    /\ \/ ~(stopping \/ Full) /\ Accept(log.calls + 1)
       \/ (stopping \/ Full) /\ Drop(log.calls + 1)
    /\ UNCHANGED <<batch, file, good, healthy, stopping, writer>>

(* The destructor's critical section: the queue is left to be drained. *)
Destroy ==
    /\ caller = "ready"
    /\ stopping' = TRUE
    /\ caller' = "stopped"
    /\ UNCHANGED <<queue, batch, file, good, healthy, dropped, writer, log>>

(* Mutant of AfterNotify: the destructor wakes nobody. *)
AfterNotifyAppend ==
    IF writer = "asleep" /\ caller = "appended" THEN "testing" ELSE writer

AfterNotify == IF writer = "asleep" THEN "testing" ELSE writer

Notify ==
    /\ caller \in {"appended", "stopped"}
    /\ writer' = AfterNotify
    /\ caller' = IF caller = "appended" THEN "ready" ELSE "joining"
    /\ UNCHANGED <<queue, batch, file, good, healthy, stopping, dropped, log>>

Join ==
    /\ caller = "joining"
    /\ writer = "exited"
    /\ caller' = "joined"
    /\ UNCHANGED <<queue, batch, file, good, healthy, stopping, dropped, writer, log>>

-----------------------------------------------------------------------------
(* The writer. *)

Open ==
    /\ writer = "opening"
    /\ writer' = "testing"
    /\ UNCHANGED <<queue, batch, file, good, healthy, callers>>

(* A directory that cannot be made or a file that cannot be opened ends the *)
(* thread; append goes on filling the queue.                               *)
FailToOpen ==
    /\ writer = "opening"
    /\ healthy' = FALSE
    /\ writer' = "exited"
    /\ UNCHANGED <<queue, batch, file, good, callers>>

(* The predicate of condition_.wait. *)
Awaited == stopping \/ queue # <<>>

Sleep ==
    /\ writer = "testing"
    /\ ~Awaited
    /\ writer' = "asleep"
    /\ UNCHANGED <<queue, batch, file, good, healthy, callers>>

WakeSpuriously ==
    /\ writer = "asleep"
    /\ writer' = "testing"
    /\ UNCHANGED <<queue, batch, file, good, healthy, callers>>

(* Mutant of Finished: stopping does not wait for the queue. *)
FinishedUndrained == stopping

(* Tested after the swap: nothing is left to write. *)
Finished == stopping /\ queue = <<>>

(* The batch takes the whole queue, in the critical section of the wait. *)
Swap ==
    /\ writer = "testing"
    /\ Awaited
    /\ batch' = queue
    /\ queue' = <<>>
    /\ writer' = IF Finished THEN "exited" ELSE "writing"
    /\ UNCHANGED <<file, good, healthy, callers>>

(* Mutant of CanWrite: the error state of the stream is forgotten. *)
CanWriteAgain == TRUE

CanWrite == good

(* The batch is written and flushed. *)
Write ==
    /\ writer = "writing"
    /\ CanWrite
    /\ file' = file \o batch
    /\ batch' = <<>>
    /\ writer' = "testing"
    /\ UNCHANGED <<queue, good, healthy, callers>>

(* The stream fails part of the way.  A failed stream stays failed: it      *)
(* writes nothing of any later batch.                                      *)
FailToWrite ==
    /\ writer = "writing"
    /\ \E n \in 0 .. Len(batch) :
          /\ ~CanWrite => n = 0
          /\ file' = file \o SubSeq(batch, 1, n)
    /\ good' = FALSE
    /\ batch' = <<>>
    /\ writer' = "reporting"
    /\ UNCHANGED <<queue, healthy, callers>>

Report ==
    /\ writer = "reporting"
    /\ healthy' = FALSE
    /\ writer' = "testing"
    /\ UNCHANGED <<queue, batch, file, good, callers>>

-----------------------------------------------------------------------------
Caller == AppendLine \/ Destroy \/ Notify \/ Join

Writer ==
    \/ Open \/ FailToOpen \/ Sleep \/ WakeSpuriously \/ Swap \/ Write
    \/ FailToWrite \/ Report

(* When the caller has joined the writer both are gone. *)
Next == Caller \/ Writer

(* A caller inside append or the destructor finishes it, and the writer      *)
(* thread keeps running.                                                   *)
Fairness ==
    /\ WF_vars(Notify \/ Join)
    /\ WF_vars(Open \/ FailToOpen \/ Sleep \/ Swap \/ Write \/ FailToWrite \/ Report)

Spec == Init /\ [][Next]_vars

FairSpec == Spec /\ Fairness

-----------------------------------------------------------------------------
(* Overload is visible: every append call either put its line in the queue  *)
(* or is counted in dropped_events, and the queue never exceeds its capacity. *)
CallsAccounted ==
    /\ log.calls = Len(log.accepted) + dropped
    /\ Len(queue) <= Capacity

(* The file never has a gap, a duplicate or a line out of order, whatever    *)
(* batches the lines arrived in and wherever a write failed: it is a prefix *)
(* of the lines accepted, and while the stream is good the rest is still on  *)
(* its way.                                                                *)
FileHasNoGap ==
    /\ IsPrefix(file, log.accepted)
    /\ good => file \o batch \o queue = log.accepted

(* When the destructor has returned, a log that lacks an accepted line says  *)
(* so: lines that wait when the writer is stopped are written before the     *)
(* join, and a failure on the way is reported.                             *)
LossReported ==
    caller = "joined" /\ file # log.accepted => ~healthy

(* Every accepted line reaches the file, or the writer reports a failure. *)
LinesWritten ==
    \A n \in 1 .. MaxLines :
        Len(log.accepted) >= n ~> Len(file) >= n \/ ~healthy

(* The destructor returns, however much is queued and whatever fails. *)
DestructorReturns == caller = "stopped" ~> caller = "joined"

(* No wake-up is lost, that of a line or that of the destructor, whenever the *)
(* writer tests, sleeps, writes or fails (audit_writer.cpp, append and run).   *)
WriterProgresses == LinesWritten /\ DestructorReturns
=============================================================================
