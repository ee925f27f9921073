---------------------------- MODULE ModelWorker ----------------------------
(***************************************************************************)
(* ModelWorker: one caller thread (the feed handler) and the worker thread  *)
(* that runs the decision function, joined by a mutex and a condition       *)
(* variable.  A critical section is one action; what a thread does after    *)
(* it has unlocked (notify_one, join, the decision function) is another.    *)
(*                                                                         *)
(*   pending    pending_: the state that waits for the worker, or None      *)
(*   completed  completed_: the decision nobody has taken yet, or None      *)
(*   coalesced  coalesced_requests_                                        *)
(*   stopping   stopping_                                                  *)
(*   caller     where the caller is: outside the worker ("ready"), between  *)
(*              a critical section and its notify_one ("submitted",         *)
(*              "stopped"), in thread_.join ("joining"), or past it         *)
(*   worker     where the worker is: about to test its predicate, asleep    *)
(*              on the condition variable, in the decision function, or out *)
(*   deciding   the state in the decision function, or None                 *)
(*   log        what the caller did and got, which the code does not store: *)
(*              the states asked for, how many were taken up, the last one  *)
(*              answered and the number of answers                          *)
(*                                                                         *)
(* A state is reduced to its sequence, that of the event it was built from; *)
(* callers submit them in increasing order.  A decision is the state it is  *)
(* about and one of the outcomes of the decision function (a hold with an   *)
(* error text when the function throws).                                   *)
(***************************************************************************)
EXTENDS Naturals, FiniteSets

CONSTANTS
    None,               \* an empty std::optional
    Outcomes,           \* what a decision may say
    MaxSequence         \* bounds the sequences of the states submitted

Sequences == 1 .. MaxSequence

Decisions == [sequence : Sequences, outcome : Outcomes]

ASSUME WorkerAssumption ==
    /\ MaxSequence \in Nat
    /\ None \notin Sequences
    /\ None \notin Decisions

VARIABLES pending, completed, coalesced, stopping, caller, worker, deciding, log

vars == <<pending, completed, coalesced, stopping, caller, worker, deciding, log>>

Init ==
    /\ pending = None
    /\ completed = None
    /\ coalesced = 0
    /\ stopping = FALSE
    /\ caller = "ready"
    /\ worker = "testing"
    /\ deciding = None
    /\ log = [asked |-> {}, begun |-> 0, answered |-> 0, answers |-> 0]

-----------------------------------------------------------------------------
(* The caller. *)

(* Mutant of Coalesced: a replaced request is not counted. *)
CoalescedNever == coalesced

Coalesced == IF pending = None THEN coalesced ELSE coalesced + 1

(* submit: a state that still waits is replaced. *)
Submit(sequence) ==
    /\ caller = "ready"
    /\ ~stopping
    /\ \A earlier \in log.asked : earlier < sequence
    /\ coalesced' = Coalesced
    /\ pending' = sequence
    /\ log' = [log EXCEPT !.asked = @ \cup {sequence}]
    /\ caller' = "submitted"
    /\ UNCHANGED <<completed, stopping, worker, deciding>>

(* Mutant of AfterTake: try_take copies the decision and leaves it there. *)
AfterTakeKept == completed

AfterTake == None

TryTake ==
    /\ caller = "ready"
    /\ completed # None
    /\ completed' = AfterTake
    /\ log' = [log EXCEPT !.answered = completed.sequence, !.answers = @ + 1]
    /\ UNCHANGED <<pending, coalesced, stopping, caller, worker, deciding>>

(* The destructor's critical section. *)
Destroy ==
    /\ caller = "ready"
    /\ stopping' = TRUE
    /\ pending' = None
    /\ caller' = "stopped"
    /\ UNCHANGED <<completed, coalesced, worker, deciding, log>>

(* Mutant of AfterNotify: the worker is notified on submissions only. *)
AfterNotifySubmission ==
    IF worker = "asleep" /\ caller = "submitted" THEN "testing" ELSE worker

AfterNotify == IF worker = "asleep" THEN "testing" ELSE worker

(* notify_one wakes the worker if it sleeps and is lost otherwise. *)
Notify ==
    /\ caller \in {"submitted", "stopped"}
    /\ worker' = AfterNotify
    /\ caller' = IF caller = "submitted" THEN "ready" ELSE "joining"
    /\ UNCHANGED <<pending, completed, coalesced, stopping, deciding, log>>

Join ==
    /\ caller = "joining"
    /\ worker = "exited"
    /\ caller' = "joined"
    /\ UNCHANGED <<pending, completed, coalesced, stopping, worker, deciding, log>>

-----------------------------------------------------------------------------
(* The worker. *)

(* Mutant of Awaited: the wait looks at stopping_ only. *)
AwaitedStopOnly == stopping

(* The predicate of condition_.wait. *)
Awaited == stopping \/ pending # None

Sleep ==
    /\ worker = "testing"
    /\ ~Awaited
    /\ worker' = "asleep"
    /\ UNCHANGED <<pending, completed, coalesced, stopping, caller, deciding, log>>

(* A condition variable may wake up on its own. *)
WakeSpuriously ==
    /\ worker = "asleep"
    /\ worker' = "testing"
    /\ UNCHANGED <<pending, completed, coalesced, stopping, caller, deciding, log>>

Begin ==
    /\ worker = "testing"
    /\ Awaited
    /\ ~stopping
    /\ deciding' = pending
    /\ pending' = None
    /\ worker' = "deciding"
    /\ log' = [log EXCEPT !.begun = @ + 1]
    /\ UNCHANGED <<completed, coalesced, stopping, caller>>

Exit ==
    /\ worker = "testing"
    /\ stopping
    /\ worker' = "exited"
    /\ UNCHANGED <<pending, completed, coalesced, stopping, caller, deciding, log>>

(* The decision function returns, or throws and is answered with hold.  A   *)
(* decision that was not taken is replaced.                                *)
Complete ==
    /\ worker = "deciding"
    /\ \E outcome \in Outcomes :
          completed' = [sequence |-> deciding, outcome |-> outcome]
    /\ deciding' = None
    /\ worker' = "testing"
    /\ UNCHANGED <<pending, coalesced, stopping, caller, log>>

-----------------------------------------------------------------------------
Caller ==
    \/ \E sequence \in Sequences : Submit(sequence)
    \/ TryTake \/ Destroy \/ Notify \/ Join

Worker == Sleep \/ WakeSpuriously \/ Begin \/ Exit \/ Complete

(* When the caller has joined the worker both are gone. *)
Next == Caller \/ Worker

(* A caller that is inside submit or the destructor finishes it, and the    *)
(* worker thread keeps running, which takes that the decision function       *)
(* returns: an assumption on what the worker is given.                      *)
Fairness ==
    /\ WF_vars(Notify \/ Join)
    /\ WF_vars(Sleep \/ Begin \/ Exit \/ Complete)

Spec == Init /\ [][Next]_vars

FairSpec == Spec /\ Fairness

-----------------------------------------------------------------------------
(* Type invariant: the worker never runs the decision function on an empty  *)
(* optional, and the places that only one of the threads passes agree.      *)
TypeOK ==
    /\ pending \in Sequences \cup {None}
    /\ completed \in Decisions \cup {None}
    /\ coalesced \in Nat
    /\ stopping \in BOOLEAN
    /\ caller \in {"ready", "submitted", "stopped", "joining", "joined"}
    /\ worker \in {"testing", "asleep", "deciding", "exited"}
    /\ deciding \in Sequences \cup {None}
    /\ log \in [asked : SUBSET Sequences, begun : Nat,
               answered : Sequences \cup {0}, answers : Nat]
    /\ worker = "deciding" <=> deciding # None

(* No request disappears unnoticed: until the destructor discards the one    *)
(* that waits, every state asked for was taken up by the worker, counted as  *)
(* coalesced, or is still pending.                                          *)
RequestsAccounted ==
    ~stopping =>
        Cardinality(log.asked)
            = log.begun + coalesced + (IF pending = None THEN 0 ELSE 1)

(* What the caller sees is a stream of answers to its own questions, each    *)
(* newer than the last, although requests and decisions are overwritten in   *)
(* between and the worker is always one state behind.                       *)
Stream == INSTANCE AnswerStream WITH
    Limit <- MaxSequence, asked <- log.asked, answered <- log.answered,
    answers <- log.answers

ImplementsAnswerStream == Stream!Spec

(* No wake-up is lost: a state that waits is taken up, replaced or, by the   *)
(* destructor, discarded.                                                  *)
PendingServed ==
    \A sequence \in Sequences : pending = sequence ~> pending # sequence

(* The destructor returns: the worker notices that it is stopping wherever   *)
(* it is, in the decision function or asleep.                              *)
DestructorReturns == caller = "stopped" ~> caller = "joined"
=============================================================================
