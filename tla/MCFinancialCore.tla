--------------------------- MODULE MCFinancialCore ----------------------------
(***************************************************************************)
(* Instances of FinancialCore for TLC.                                     *)
(***************************************************************************)
EXTENDS FinancialCore, TLC

\* A commitment and its cancellation (TLC's cfg syntax has no negative numbers).
SignedAmounts == {-1, 2}

\* Requests are interchangeable: sound for the invariants, not for liveness.
Symmetry == Permutations(Requests)
===============================================================================
