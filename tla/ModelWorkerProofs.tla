------------------------- MODULE ModelWorkerProofs -------------------------
(***************************************************************************)
(* Theorems about ModelWorker for any number of submissions.  The inductive *)
(* invariant orders the four places a state can be in: an answered state is *)
(* older than a completed one, that one older than the one being decided,   *)
(* and that one older than the one that waits, which is the newest of all.  *)
(***************************************************************************)
EXTENDS ModelWorker, FiniteSetTheorems, TLAPS

(* What was answered and what is completed is older than a state. *)
CompletedBefore(sequence) ==
    /\ log.answered < sequence
    /\ completed # None => completed.sequence < sequence

NewestLast ==
    /\ log.answered # 0 => log.answered \in log.asked
    /\ completed # None => /\ completed.sequence \in log.asked
                           /\ log.answered < completed.sequence
    /\ deciding # None => deciding \in log.asked /\ CompletedBefore(deciding)
    /\ pending # None => /\ pending \in log.asked
                         /\ CompletedBefore(pending)
                         /\ deciding # None => deciding < pending
                         /\ \A earlier \in log.asked : earlier <= pending

WorkerInv == TypeOK /\ RequestsAccounted /\ NewestLast

-----------------------------------------------------------------------------
LEMMA InitWorkerInv == Init => WorkerInv
<1> SUFFICES ASSUME Init PROVE WorkerInv
    OBVIOUS
<1>1. TypeOK
    <2>1. log \in [asked : SUBSET Sequences, begun : Nat,
                  answered : Sequences \cup {0}, answers : Nat]
        BY WorkerAssumption DEF Init
    <2> QED
        BY <2>1 DEF Init, TypeOK
<1>2. RequestsAccounted
    BY FS_EmptySet DEF Init, RequestsAccounted
<1>3. NewestLast
    BY DEF Init, NewestLast
<1> QED
    BY <1>1, <1>2, <1>3 DEF WorkerInv

(* Each action keeps the invariant. *)
LEMMA SubmitKeepsInv ==
    ASSUME WorkerInv, NEW sequence \in Sequences, Submit(sequence)
    PROVE  WorkerInv'
<1>1. /\ log'.asked = log.asked \cup {sequence} /\ log'.begun = log.begun
      /\ log'.answered = log.answered /\ log'.answers = log.answers
      /\ log' \in [asked : SUBSET Sequences, begun : Nat,
                   answered : Sequences \cup {0}, answers : Nat]
    BY DEF Submit, WorkerInv, TypeOK
<1>2. sequence # None /\ sequence \in Nat
    BY WorkerAssumption DEF Sequences
<1>3. TypeOK'
    BY <1>1, <1>2 DEF Submit, Coalesced, WorkerInv, TypeOK
<1>4. Cardinality(log'.asked) = Cardinality(log.asked) + 1
    <2>1. log.asked \subseteq Sequences
        BY DEF WorkerInv, TypeOK
    <2>2. IsFiniteSet(log.asked)
        BY <2>1, FS_Interval, FS_Subset, WorkerAssumption DEF Sequences
    <2>3. sequence \notin log.asked
        BY <1>2 DEF Submit
    <2>4. Cardinality(log.asked \cup {sequence}) = Cardinality(log.asked) + 1
        BY <2>2, <2>3, FS_AddElement
    <2> QED
        BY <1>1, <2>4
<1>5. RequestsAccounted'
    <2>1. /\ pending' = sequence /\ sequence # None
          /\ UNCHANGED stopping
          /\ coalesced' = IF pending = None THEN coalesced ELSE coalesced + 1
        BY <1>2 DEF Submit, Coalesced
    <2>2. log'.begun \in Nat /\ coalesced \in Nat /\ log'.begun = log.begun
        BY <1>1 DEF WorkerInv, TypeOK
    <2>3. ~stopping => Cardinality(log.asked)
             = log.begun + coalesced + (IF pending = None THEN 0 ELSE 1)
        BY DEF WorkerInv, RequestsAccounted
    <2> QED
        BY <1>4, <2>1, <2>2, <2>3 DEF RequestsAccounted
<1>6. NewestLast'
    <2>1. /\ pending' = sequence /\ completed' = completed /\ deciding' = deciding
          /\ \A earlier \in log.asked : earlier < sequence
        BY DEF Submit
    <2>2. log.asked \subseteq Nat
        BY WorkerAssumption DEF WorkerInv, TypeOK, Sequences
    <2> QED
        BY <1>1, <1>2, <2>1, <2>2, WorkerAssumption
           DEF WorkerInv, NewestLast, CompletedBefore, Sequences
<1> QED
    BY <1>3, <1>5, <1>6 DEF WorkerInv

LEMMA TryTakeKeepsInv == WorkerInv /\ TryTake => WorkerInv'
<1> SUFFICES ASSUME WorkerInv, TryTake PROVE WorkerInv'
    OBVIOUS
<1>1. completed.sequence \in Sequences
    BY DEF TryTake, WorkerInv, TypeOK, Decisions
<1>2. completed.sequence \in Sequences \cup {0}
    BY <1>1
<1>3. /\ log'.asked = log.asked /\ log'.begun = log.begun
      /\ log'.answered = completed.sequence
      /\ log' \in [asked : SUBSET Sequences, begun : Nat,
                   answered : Sequences \cup {0}, answers : Nat]
    <2> DEFINE taken == completed.sequence
    <2>1. log' = [log EXCEPT !.answered = taken, !.answers = @ + 1]
        BY DEF TryTake
    <2>2. taken \in Sequences \cup {0}
        BY <1>2
    <2>3. log \in [asked : SUBSET Sequences, begun : Nat,
                  answered : Sequences \cup {0}, answers : Nat]
        BY DEF WorkerInv, TypeOK
    <2> HIDE DEF taken
    <2>4. /\ log'.asked = log.asked /\ log'.begun = log.begun
          /\ log'.answered = taken
          /\ log' \in [asked : SUBSET Sequences, begun : Nat,
                       answered : Sequences \cup {0}, answers : Nat]
        <3>1. log' = [asked |-> log.asked, begun |-> log.begun, answered |-> taken,
                      answers |-> log.answers + 1]
            BY <2>1, <2>3
        <3> QED
            BY <3>1, <2>2, <2>3
    <2> QED
        BY <2>4 DEF taken
<1>4. TypeOK'
    BY <1>3 DEF TryTake, AfterTake, WorkerInv, TypeOK
<1>5. RequestsAccounted'
    BY <1>3 DEF TryTake, WorkerInv, RequestsAccounted
<1>6. NewestLast'
    BY <1>1, <1>3
       DEF TryTake, AfterTake, WorkerInv, TypeOK, NewestLast, CompletedBefore, Sequences
<1> QED
    BY <1>4, <1>5, <1>6 DEF WorkerInv

LEMMA DestroyKeepsInv == WorkerInv /\ Destroy => WorkerInv'
<1> SUFFICES ASSUME WorkerInv, Destroy PROVE WorkerInv'
    OBVIOUS
<1>1. TypeOK' /\ RequestsAccounted'
    BY DEF Destroy, WorkerInv, TypeOK, RequestsAccounted
<1>2. NewestLast'
    BY DEF Destroy, WorkerInv, NewestLast, CompletedBefore
<1> QED
    BY <1>1, <1>2 DEF WorkerInv

LEMMA BeginKeepsInv == WorkerInv /\ Begin => WorkerInv'
<1> SUFFICES ASSUME WorkerInv, Begin PROVE WorkerInv'
    OBVIOUS
<1>1. pending # None /\ pending \in Sequences
    BY DEF Begin, Awaited, WorkerInv, TypeOK
<1>2. /\ log'.asked = log.asked /\ log'.begun = log.begun + 1
      /\ log'.answered = log.answered
      /\ log' \in [asked : SUBSET Sequences, begun : Nat,
                   answered : Sequences \cup {0}, answers : Nat]
    BY DEF Begin, WorkerInv, TypeOK
<1>3. TypeOK'
    BY <1>1, <1>2 DEF Begin, WorkerInv, TypeOK
<1>4. RequestsAccounted'
    BY <1>1, <1>2 DEF Begin, WorkerInv, TypeOK, RequestsAccounted
<1>5. NewestLast'
    BY <1>1, <1>2
       DEF Begin, WorkerInv, TypeOK, NewestLast, CompletedBefore, Sequences
<1> QED
    BY <1>3, <1>4, <1>5 DEF WorkerInv

LEMMA CompleteKeepsInv == WorkerInv /\ Complete => WorkerInv'
<1> SUFFICES ASSUME WorkerInv, worker = "deciding", NEW outcome \in Outcomes,
                    completed' = [sequence |-> deciding, outcome |-> outcome],
                    deciding' = None, worker' = "testing",
                    UNCHANGED <<pending, coalesced, stopping, caller, log>>
             PROVE  WorkerInv'
    BY DEF Complete
<1>1. /\ deciding \in Sequences
      /\ completed' \in Decisions
      /\ completed'.sequence = deciding
    BY DEF WorkerInv, TypeOK, Decisions
<1>2. TypeOK'
    BY <1>1 DEF WorkerInv, TypeOK
<1>3. RequestsAccounted'
    BY DEF WorkerInv, RequestsAccounted
<1>4. NewestLast'
    BY <1>1, WorkerAssumption
       DEF WorkerInv, TypeOK, NewestLast, CompletedBefore, Sequences
<1> QED
    BY <1>2, <1>3, <1>4 DEF WorkerInv

(* The steps that only move a thread. *)
LEMMA MovesKeepInv ==
    WorkerInv /\ (Notify \/ Join \/ Sleep \/ WakeSpuriously \/ Exit) => WorkerInv'
BY DEF Notify, AfterNotify, Join, Sleep, WakeSpuriously, Exit, WorkerInv, TypeOK,
       RequestsAccounted, NewestLast, CompletedBefore

LEMMA StepKeepsWorkerInv == WorkerInv /\ [Next]_vars => WorkerInv'
<1>1. CASE UNCHANGED vars
    BY <1>1 DEF vars, WorkerInv, TypeOK, RequestsAccounted, NewestLast, CompletedBefore
<1>2. CASE Next
    BY <1>2, SubmitKeepsInv, TryTakeKeepsInv, DestroyKeepsInv, BeginKeepsInv,
       CompleteKeepsInv, MovesKeepInv
       DEF Next, Caller, Worker
<1> QED
    BY <1>1, <1>2

(* The ordered pipeline is an invariant of every behaviour of the two       *)
(* threads (ModelWorker::submit, try_take, run and the destructor).         *)
THEOREM WorkerInvariant == Spec => []WorkerInv
<1>1. Init => WorkerInv
    BY InitWorkerInv
<1>2. WorkerInv /\ [Next]_vars => WorkerInv'
    BY StepKeepsWorkerInv
<1> QED
    BY <1>1, <1>2, PTL DEF Spec

(* The worker never dereferences an empty pending_. *)
THEOREM WorkerTypeCorrect == Spec => []TypeOK
BY WorkerInvariant, PTL DEF WorkerInv

(* Every request is taken up, coalesced or pending until the destructor. *)
THEOREM WorkerAccountsForRequests == Spec => []RequestsAccounted
BY WorkerInvariant, PTL DEF WorkerInv

-----------------------------------------------------------------------------
(* A step of the worker is an Ask, an Answer or a stutter of AnswerStream. *)
LEMMA WorkerStepImplements ==
    WorkerInv /\ [Next]_vars => [Stream!Next]_<<log.asked, log.answered, log.answers>>
<1> SUFFICES ASSUME WorkerInv, [Next]_vars
             PROVE  [Stream!Next]_<<log.asked, log.answered, log.answers>>
    OBVIOUS
<1>1. ASSUME NEW sequence \in Sequences, Submit(sequence)
      PROVE  Stream!Next
    <2>1. /\ log'.asked = log.asked \cup {sequence} /\ log'.answered = log.answered
          /\ log'.answers = log.answers
        BY <1>1 DEF Submit, WorkerInv, TypeOK
    <2> QED
        BY <1>1, <2>1 DEF Submit, Sequences, Stream!Next, Stream!Ask
<1>2. CASE TryTake
    <2>1. /\ log'.asked = log.asked /\ log'.answered = completed.sequence
          /\ log'.answers = log.answers + 1
        BY <1>2 DEF TryTake, WorkerInv, TypeOK
    <2>2. completed.sequence \in log.asked /\ completed.sequence > log.answered
        BY <1>2 DEF TryTake, WorkerInv, TypeOK, NewestLast, Decisions, Sequences
    <2> QED
        BY <2>1, <2>2 DEF Stream!Next, Stream!Answer
<1>3. CASE Begin
    BY <1>3 DEF Begin, WorkerInv, TypeOK
<1>4. CASE UNCHANGED log
    BY <1>4
<1> QED
    BY <1>1, <1>2, <1>3, <1>4
       DEF Next, Caller, Worker, vars, Destroy, Notify, Join, Sleep, WakeSpuriously,
           Exit, Complete

(* The pair of threads implements the answer stream: no answer is repeated, *)
(* out of order, or about a state that was not asked for.                   *)
THEOREM WorkerImplementsAnswerStream == Spec => ImplementsAnswerStream
<1>1. Init => Stream!Init
    BY DEF Init, Stream!Init
<1>2. WorkerInv /\ [Next]_vars => [Stream!Next]_<<log.asked, log.answered, log.answers>>
    BY WorkerStepImplements
<1> QED
    BY <1>1, <1>2, WorkerInvariant, PTL DEF Spec, ImplementsAnswerStream, Stream!Spec
=============================================================================
