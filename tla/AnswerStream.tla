---------------------------- MODULE AnswerStream ----------------------------
(***************************************************************************)
(* What a model worker promises its caller, without threads: the caller    *)
(* asks about states with increasing sequence numbers; an answer is about   *)
(* a state that was asked for and is newer than every state answered        *)
(* before, so no answer is given twice.  States may be skipped, and an      *)
(* answer may never come.                                                  *)
(***************************************************************************)
EXTENDS Naturals

CONSTANT Limit      \* bounds the sequence numbers

VARIABLES
    asked,      \* the states asked for
    answered,   \* the newest state answered
    answers     \* how many answers there were

Init == asked = {} /\ answered = 0 /\ answers = 0

Ask ==
    /\ \E state \in 1 .. Limit :
          /\ \A earlier \in asked : earlier < state
          /\ asked' = asked \cup {state}
    /\ UNCHANGED <<answered, answers>>

Answer ==
    /\ answered' \in asked
    /\ answered' > answered
    /\ answers' = answers + 1
    /\ UNCHANGED asked

Next == Ask \/ Answer

Spec == Init /\ [][Next]_<<asked, answered, answers>>
=============================================================================
