------------------------------ MODULE MCLedger ------------------------------
(* Instances of Ledger for TLC. *)
EXTENDS Ledger

(* Signed fills of one to four units, a refused zero among them; prices of  *)
(* which one is refused and one is too high for the largest fill; a refused *)
(* negative fee.                                                            *)
MCQuantities == {-4, -2, 0, 1, 3}
MCPrices == {-1, 2, 5, 9}
MCFees == {-1, 1}
=============================================================================
