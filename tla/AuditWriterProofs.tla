------------------------- MODULE AuditWriterProofs -------------------------
(***************************************************************************)
(* What the audit log holds, for every capacity, any number of lines and any *)
(* interleaving of the caller, the writer and the failures of the file.       *)
(***************************************************************************)
EXTENDS AuditWriter, SequenceTheorems, TLAPS

Lines == Seq(Nat)

AuditTypes ==
    /\ queue \in Lines /\ batch \in Lines /\ file \in Lines
    /\ good \in BOOLEAN /\ healthy \in BOOLEAN /\ stopping \in BOOLEAN
    /\ dropped \in Nat
    /\ caller \in {"ready", "appended", "stopped", "joining", "joined"}
    /\ writer \in {"opening", "testing", "asleep", "writing", "reporting", "exited"}
    /\ log \in [calls : Nat, accepted : Lines]

(* FileHasNoGap with a witness for what is missing from the file. *)
FileIsPrefix == \E rest \in Lines : file \o rest = log.accepted

RestUnderway == good => file \o batch \o queue = log.accepted

(* Lines are out of the queue and not in the file only while they are written. *)
BatchHeld == writer # "writing" => batch = <<>>

(* A failed stream is reported by the next step of the writer. *)
FailureKnown == good \/ ~healthy \/ writer = "reporting"

(* The writer leaves with nothing to do, or after a failure to open. *)
ExitsDrained == writer = "exited" => ~healthy \/ (stopping /\ queue = <<>>)

JoinsAfterExit == caller = "joined" => writer = "exited"

AuditInv ==
    /\ AuditTypes /\ CallsAccounted
    /\ FileIsPrefix /\ RestUnderway
    /\ BatchHeld /\ FailureKnown /\ ExitsDrained /\ JoinsAfterExit

-----------------------------------------------------------------------------
(* Concatenation of lines is associative. *)
LEMMA ConcatAssociates ==
    \A s, t, u \in Lines : (s \o t) \o u = s \o (t \o u)
<1> SUFFICES ASSUME NEW s \in Lines, NEW t \in Lines, NEW u \in Lines
             PROVE  (s \o t) \o u = s \o (t \o u)
  OBVIOUS
<1> QED
  BY ConcatAssociative DEF Lines

(* Appending to the end of a concatenation, for the line that is accepted. *)
LEMMA ConcatAppend ==
    ASSUME NEW s \in Lines, NEW t \in Lines, NEW line \in Nat
    PROVE  /\ s \o Append(t, line) = Append(s \o t, line)
           /\ Append(t, line) \in Lines
<1>1. <<line>> \in Lines
  BY DEF Lines
<1>2. Append(t, line) = t \o <<line>> /\ Append(s \o t, line) = (s \o t) \o <<line>>
  BY AppendIsConcat, ConcatProperties DEF Lines
<1>3. (s \o t) \o <<line>> = s \o (t \o <<line>>)
  BY <1>1, ConcatAssociative DEF Lines
<1> QED
  BY <1>2, <1>3 DEF Lines

(* A part of a batch and the rest of it. *)
LEMMA SplitBatch ==
    ASSUME NEW s \in Lines, NEW n \in 0 .. Len(s)
    PROVE  /\ SubSeq(s, 1, n) \in Lines /\ SubSeq(s, n + 1, Len(s)) \in Lines
           /\ SubSeq(s, 1, n) \o SubSeq(s, n + 1, Len(s)) = s
<1>1. Len(s) \in Nat /\ \A i \in 1 .. Len(s) : s[i] \in Nat
  BY LenProperties, ElementOfSeq DEF Lines
<1>2. SubSeq(s, 1, n) \in Lines /\ SubSeq(s, n + 1, Len(s)) \in Lines
  BY <1>1, SubSeqProperties DEF Lines
<1>3. SubSeq(s, 1, n) \o SubSeq(s, n + 1, Len(s)) = SubSeq(s, 1, Len(s))
  <2>1. /\ 1 \in 1 .. Len(s) + 1 /\ n \in 1 - 1 .. Len(s)
        /\ Len(s) \in n .. Len(s) /\ s \in Seq(Nat)
    BY <1>1 DEF Lines
  <2> QED
    BY <2>1, ConcatAdjacentSubSeq
<1>4. SubSeq(s, 1, Len(s)) = s
  BY SubSeqFull DEF Lines
<1> QED
  BY <1>2, <1>3, <1>4

LEMMA PrefixOfConcat ==
    ASSUME NEW s \in Lines, NEW t \in Lines
    PROVE  IsPrefix(s, s \o t)
<1>1. Len(s) \in Nat /\ Len(t) \in Nat /\ Len(s \o t) = Len(s) + Len(t)
  BY LenProperties, ConcatProperties DEF Lines
<1>2. SubSeq(s \o t, 1, Len(s)) = SubSeq(s, 1, Len(s))
  <2>1. CASE Len(s) = 0
    BY <2>1, SubSeqEmpty
  <2>2. CASE Len(s) > 0
    BY <1>1, <2>2, SubSeqOfConcat1 DEF Lines
  <2> QED
    BY <1>1, <2>1, <2>2
<1> QED
  BY <1>1, <1>2 DEF IsPrefix

-----------------------------------------------------------------------------
(* The caller's steps. *)

LEMMA AppendKeepsInvariant == AuditInv /\ AppendLine => AuditInv'
<1> SUFFICES ASSUME AuditInv, AppendLine PROVE AuditInv'
  OBVIOUS
<1> USE DEF AuditInv
<1> DEFINE line == log.calls + 1
<1>1. /\ UNCHANGED <<batch, file, good, healthy, stopping, writer>>
      /\ caller = "ready"
  BY DEF AppendLine
<1>2. line \in Nat /\ Len(queue) \in Nat /\ log.accepted \in Lines /\ Len(log.accepted) \in Nat
  BY LenProperties DEF AuditTypes, Lines
<1>3. CASE ~(stopping \/ Full) /\ Accept(line)
  <2>1. /\ queue' = Append(queue, line) /\ caller' = "appended" /\ dropped' = dropped
        /\ log' = [calls |-> line, accepted |-> Append(log.accepted, line)]
    BY <1>3 DEF Accept
  <2>2. AuditTypes'
    BY <1>1, <1>2, <2>1, ConcatAppend DEF AuditTypes
  <2>3. CallsAccounted'
    <3>1. Len(queue) < Capacity
      BY <1>2, <1>3, AuditAssumption DEF Full
    <3>2. Len(queue') = Len(queue) + 1 /\ Len(log'.accepted) = Len(log.accepted) + 1
      BY <1>2, <2>1 DEF AuditTypes, Lines
    <3>3. log.calls = Len(log.accepted) + dropped /\ dropped \in Nat /\ log'.calls = log.calls + 1
      BY <2>1 DEF CallsAccounted, AuditTypes
    <3> QED
      BY <1>2, <2>1, <3>1, <3>2, <3>3, AuditAssumption DEF CallsAccounted
  <2>4. FileIsPrefix'
    <3>1. PICK rest \in Lines : file \o rest = log.accepted
      BY DEF FileIsPrefix
    <3>2. file \in Lines /\ line \in Nat
      BY <1>2 DEF AuditTypes
    <3> HIDE DEF line
    <3>3. /\ file \o Append(rest, line) = Append(file \o rest, line)
          /\ Append(rest, line) \in Lines
      BY <3>2, ConcatAppend
    <3> QED
      BY <1>1, <2>1, <3>1, <3>3 DEF FileIsPrefix
  <2>5. RestUnderway'
    <3>1. file \o batch \in Lines
      BY ConcatProperties DEF AuditTypes, Lines
    <3>2. (file \o batch) \o Append(queue, line) = Append((file \o batch) \o queue, line)
      BY <1>2, <3>1, ConcatAppend DEF AuditTypes
    <3> QED
      BY <1>1, <2>1, <3>2 DEF RestUnderway
  <2>6. BatchHeld' /\ FailureKnown' /\ ExitsDrained' /\ JoinsAfterExit'
    BY <1>1, <1>3, <2>1 DEF BatchHeld, FailureKnown, ExitsDrained, JoinsAfterExit
  <2> QED
    BY <2>2, <2>3, <2>4, <2>5, <2>6
<1>4. CASE Drop(line)
  <2>1. /\ queue' = queue /\ caller' = caller /\ dropped' = dropped + 1
        /\ log' = [log EXCEPT !.calls = line]
    BY <1>4 DEF Drop
  <2>2. AuditTypes' /\ log'.accepted = log.accepted /\ log'.calls = line
    BY <1>1, <1>2, <2>1 DEF AuditTypes
  <2>3. CallsAccounted'
    BY <1>2, <2>1, <2>2 DEF CallsAccounted, AuditTypes
  <2>4. FileIsPrefix' /\ RestUnderway'
    BY <1>1, <2>1, <2>2 DEF FileIsPrefix, RestUnderway
  <2>5. BatchHeld' /\ FailureKnown' /\ ExitsDrained' /\ JoinsAfterExit'
    BY <1>1, <2>1 DEF BatchHeld, FailureKnown, ExitsDrained, JoinsAfterExit
  <2> QED
    BY <2>2, <2>3, <2>4, <2>5
<1> QED
  BY <1>3, <1>4 DEF AppendLine

(* The destructor and the notifications leave lines and file alone. *)
LEMMA CallerKeepsInvariant == AuditInv /\ (Destroy \/ Notify \/ Join) => AuditInv'
<1> SUFFICES ASSUME AuditInv, Destroy \/ Notify \/ Join PROVE AuditInv'
  OBVIOUS
<1> USE DEF AuditInv
<1>1. UNCHANGED <<queue, batch, file, good, healthy, dropped, log>>
  BY DEF Destroy, Notify, Join
<1>2. CallsAccounted' /\ FileIsPrefix' /\ RestUnderway'
  BY <1>1 DEF CallsAccounted, FileIsPrefix, RestUnderway
<1>3. AuditTypes'
  BY <1>1 DEF AuditTypes, Destroy, Notify, Join, AfterNotify
<1>4. BatchHeld' /\ FailureKnown' /\ ExitsDrained' /\ JoinsAfterExit'
  BY <1>1 DEF BatchHeld, FailureKnown, ExitsDrained, JoinsAfterExit, Destroy, Notify, Join,
              AfterNotify
<1> QED
  BY <1>2, <1>3, <1>4

-----------------------------------------------------------------------------
(* The writer's steps. *)

(* Steps that only move the writer, or report. *)
LEMMA WaitKeepsInvariant ==
    ASSUME AuditInv, Open \/ FailToOpen \/ Sleep \/ WakeSpuriously \/ Report
    PROVE  AuditInv'
<1> USE DEF AuditInv
<1>1. UNCHANGED <<queue, batch, file, good, dropped, log, caller, stopping>>
  BY DEF Open, FailToOpen, Sleep, WakeSpuriously, Report, callers
<1>2. CallsAccounted' /\ FileIsPrefix' /\ RestUnderway'
  BY <1>1 DEF CallsAccounted, FileIsPrefix, RestUnderway
<1>3. AuditTypes'
  BY <1>1 DEF AuditTypes, Open, FailToOpen, Sleep, WakeSpuriously, Report
<1>4. BatchHeld' /\ FailureKnown' /\ ExitsDrained' /\ JoinsAfterExit'
  BY <1>1 DEF BatchHeld, FailureKnown, ExitsDrained, JoinsAfterExit, Open, FailToOpen, Sleep,
              WakeSpuriously, Report
<1> QED
  BY <1>2, <1>3, <1>4

LEMMA SwapKeepsInvariant == AuditInv /\ Swap => AuditInv'
<1> SUFFICES ASSUME AuditInv, Swap PROVE AuditInv'
  OBVIOUS
<1> USE DEF AuditInv
<1>1. /\ UNCHANGED <<file, good, healthy, dropped, log, caller, stopping>>
      /\ batch' = queue /\ queue' = <<>> /\ writer = "testing" /\ batch = <<>>
  BY DEF Swap, callers, BatchHeld
<1>2. writer' = IF stopping /\ queue = <<>> THEN "exited" ELSE "writing"
  BY DEF Swap, Finished
<1>3. AuditTypes'
  BY <1>1, <1>2, EmptySeq DEF AuditTypes, Lines
<1>4. CallsAccounted'
  BY <1>1, EmptySeq, AuditAssumption DEF CallsAccounted
<1>5. FileIsPrefix'
  BY <1>1 DEF FileIsPrefix
<1>6. RestUnderway'
  <2>1. (file \o batch) \o queue = file \o queue
    BY <1>1, ConcatEmptySeq DEF AuditTypes, Lines
  <2>2. (file \o queue) \o <<>> = file \o queue
    BY ConcatProperties, ConcatEmptySeq DEF AuditTypes, Lines
  <2> QED
    BY <1>1, <2>1, <2>2 DEF RestUnderway
<1>7. BatchHeld' /\ FailureKnown' /\ ExitsDrained' /\ JoinsAfterExit'
  BY <1>1, <1>2 DEF BatchHeld, FailureKnown, ExitsDrained, JoinsAfterExit
<1> QED
  BY <1>3, <1>4, <1>5, <1>6, <1>7

LEMMA WriteKeepsInvariant == AuditInv /\ Write => AuditInv'
<1> SUFFICES ASSUME AuditInv, Write PROVE AuditInv'
  OBVIOUS
<1> USE DEF AuditInv
<1>1. /\ UNCHANGED <<queue, good, healthy, dropped, log, caller, stopping>>
      /\ file' = file \o batch /\ batch' = <<>> /\ writer = "writing" /\ writer' = "testing"
      /\ good
  BY DEF Write, CanWrite, callers
<1>2. file' \in Lines /\ queue \in Lines /\ <<>> \in Lines
  BY <1>1, ConcatProperties, EmptySeq DEF AuditTypes, Lines
<1>3. AuditTypes'
  BY <1>1, <1>2 DEF AuditTypes
<1>4. CallsAccounted'
  BY <1>1 DEF CallsAccounted
<1>5. file' \o queue = log'.accepted
  BY <1>1 DEF RestUnderway
<1>6. FileIsPrefix'
  BY <1>2, <1>5 DEF FileIsPrefix
<1>7. RestUnderway'
  <2>1. file' \o <<>> = file'
    BY <1>2, ConcatEmptySeq DEF Lines
  <2> QED
    BY <1>1, <1>5, <2>1 DEF RestUnderway
<1>8. BatchHeld' /\ FailureKnown' /\ ExitsDrained' /\ JoinsAfterExit'
  BY <1>1 DEF BatchHeld, FailureKnown, ExitsDrained, JoinsAfterExit
<1> QED
  BY <1>3, <1>4, <1>6, <1>7, <1>8

(* A stream that was good loses the rest of the batch and the queue behind it; *)
(* one that had failed before writes nothing.                                *)
LEMMA FailToWriteKeepsInvariant == AuditInv /\ FailToWrite => AuditInv'
<1> SUFFICES ASSUME AuditInv, FailToWrite PROVE AuditInv'
  OBVIOUS
<1> USE DEF AuditInv
<1>1. /\ UNCHANGED <<queue, healthy, dropped, log, caller, stopping>>
      /\ good' = FALSE /\ batch' = <<>> /\ writer = "writing" /\ writer' = "reporting"
  BY DEF FailToWrite, callers
<1>2. PICK n \in 0 .. Len(batch) : (~good => n = 0) /\ file' = file \o SubSeq(batch, 1, n)
  BY DEF FailToWrite, CanWrite
<1> DEFINE part == SubSeq(batch, 1, n)
           left == SubSeq(batch, n + 1, Len(batch))
<1>3. /\ part \in Lines /\ left \in Lines /\ part \o left = batch
      /\ file \in Lines /\ queue \in Lines /\ <<>> \in Lines
  BY SplitBatch, EmptySeq DEF AuditTypes, Lines
<1>4. file' = file \o part /\ file' \in Lines
  BY <1>2, <1>3, ConcatProperties DEF Lines
<1> HIDE DEF part, left
<1>5. AuditTypes'
  BY <1>1, <1>3, <1>4 DEF AuditTypes
<1>6. CallsAccounted'
  BY <1>1 DEF CallsAccounted
<1>7. FileIsPrefix'
  <2>1. CASE good
    <3>1. left \o queue \in Lines
      BY <1>3, ConcatProperties DEF Lines
    <3>2. file' \o (left \o queue) = (file' \o left) \o queue
      BY <1>3, <1>4, ConcatAssociates
    <3>3. file' \o left = file \o batch
      <4>1. (file \o part) \o left = file \o (part \o left)
        BY <1>3, ConcatAssociates
      <4> QED
        BY <1>3, <1>4, <4>1
    <3>4. file' \o (left \o queue) = log'.accepted
      BY <1>1, <2>1, <3>2, <3>3 DEF RestUnderway
    <3> QED
      BY <3>1, <3>4 DEF FileIsPrefix
  <2>2. CASE ~good
    <3>1. part = <<>>
      BY <1>2, <2>2, SubSeqEmpty DEF part
    <3>2. file' = file
      BY <1>3, <1>4, <3>1, ConcatEmptySeq DEF Lines
    <3> QED
      BY <1>1, <3>2 DEF FileIsPrefix
  <2> QED
    BY <2>1, <2>2
<1>8. RestUnderway' /\ BatchHeld' /\ FailureKnown' /\ ExitsDrained' /\ JoinsAfterExit'
  BY <1>1 DEF RestUnderway, BatchHeld, FailureKnown, ExitsDrained, JoinsAfterExit
<1> QED
  BY <1>5, <1>6, <1>7, <1>8

-----------------------------------------------------------------------------
(* The conjunction of the types, the account of calls and where every accepted *)
(* line is, through every interleaving (audit_writer.cpp).                     *)
THEOREM AuditInvariant == Spec => []AuditInv
<1>1. Init => AuditInv
  <2> SUFFICES ASSUME Init PROVE AuditInv
    OBVIOUS
  <2>1. <<>> \in Lines /\ Len(<<>>) = 0
    BY EmptySeq DEF Lines
  <2>2. \A s \in Seq(Nat) : s \o <<>> = s
    BY ConcatEmptySeq
  <2>3. <<>> \o <<>> = <<>>
    BY <2>1, <2>2 DEF Lines
  <2>4. AuditTypes
    BY <2>1 DEF Init, AuditTypes
  <2>5. CallsAccounted
    BY <2>1, AuditAssumption DEF Init, CallsAccounted
  <2>6. FileIsPrefix /\ RestUnderway
    BY <2>1, <2>3 DEF Init, FileIsPrefix, RestUnderway
  <2> QED
    BY <2>4, <2>5, <2>6
       DEF Init, AuditInv, BatchHeld, FailureKnown, ExitsDrained, JoinsAfterExit
<1>2. AuditInv /\ [Next]_vars => AuditInv'
  <2> SUFFICES ASSUME AuditInv, [Next]_vars PROVE AuditInv'
    OBVIOUS
  <2>1. CASE AppendLine
    BY <2>1, AppendKeepsInvariant
  <2>2. CASE Destroy \/ Notify \/ Join
    BY <2>2, CallerKeepsInvariant
  <2>3. CASE Open \/ FailToOpen \/ Sleep \/ WakeSpuriously \/ Report
    BY <2>3, WaitKeepsInvariant
  <2>4. CASE Swap
    BY <2>4, SwapKeepsInvariant
  <2>5. CASE Write
    BY <2>5, WriteKeepsInvariant
  <2>6. CASE FailToWrite
    BY <2>6, FailToWriteKeepsInvariant
  <2>7. CASE UNCHANGED vars
    BY <2>7 DEF vars, AuditInv, AuditTypes, CallsAccounted, FileIsPrefix, RestUnderway,
                BatchHeld, FailureKnown, ExitsDrained, JoinsAfterExit
  <2> QED
    BY <2>1, <2>2, <2>3, <2>4, <2>5, <2>6, <2>7 DEF Next, Caller, Writer
<1> QED
  BY <1>1, <1>2, PTL DEF Spec

(* Every append call is in the queue or counted, and the queue is bounded      *)
(* (audit_writer.cpp, append).                                              *)
THEOREM AuditCallsAccounted == Spec => []CallsAccounted
<1>1. AuditInv => CallsAccounted
  BY DEF AuditInv
<1> QED
  BY <1>1, AuditInvariant, PTL

(* The file is a prefix of what was accepted (audit_writer.cpp, run).           *)
THEOREM AuditFileHasNoGap == Spec => []FileHasNoGap
<1>1. AuditInv => FileHasNoGap
  <2> SUFFICES ASSUME AuditInv PROVE FileHasNoGap
    OBVIOUS
  <2>1. PICK rest \in Lines : file \o rest = log.accepted
    BY DEF AuditInv, FileIsPrefix
  <2>2. IsPrefix(file, log.accepted)
    BY <2>1, PrefixOfConcat DEF AuditInv, AuditTypes
  <2> QED
    BY <2>2 DEF AuditInv, RestUnderway, FileHasNoGap
<1> QED
  BY <1>1, AuditInvariant, PTL

(* After the destructor a file that lacks a line comes with healthy() false     *)
(* (audit_writer.cpp, the destructor and run).                                *)
THEOREM AuditLossReported == Spec => []LossReported
<1>1. AuditInv => LossReported
  <2> SUFFICES ASSUME AuditInv, caller = "joined", healthy PROVE file = log.accepted
    BY DEF LossReported
  <2>1. writer = "exited" /\ queue = <<>> /\ batch = <<>> /\ good
    BY DEF AuditInv, JoinsAfterExit, ExitsDrained, BatchHeld, FailureKnown
  <2>2. (file \o <<>>) \o <<>> = file
    BY ConcatEmptySeq DEF AuditInv, AuditTypes, Lines
  <2> QED
    BY <2>1, <2>2 DEF AuditInv, RestUnderway
<1> QED
  BY <1>1, AuditInvariant, PTL
=============================================================================
