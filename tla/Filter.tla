------------------------------- MODULE Filter -------------------------------
(***************************************************************************)
(* The list comprehensions [i for i in range(n) if ...] of the research       *)
(* programs, as a function that the provers can reason about.                *)
(***************************************************************************)
EXTENDS Integers, Sequences

(* The numbers up to length that are chosen, in their order. *)
Places(length, chosen) ==
    LET kept[n \in 0 .. length] ==
            IF n = 0 THEN <<>>
            ELSE IF n \in chosen THEN Append(kept[n - 1], n) ELSE kept[n - 1]
    IN  kept[length]

(* What is there in a list. *)
Chosen(list, chosen) ==
    LET places == Places(Len(list), chosen) IN [n \in DOMAIN places |-> list[places[n]]]

=============================================================================
