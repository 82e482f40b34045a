---------------------------- MODULE MCProcurement -----------------------------
(***************************************************************************)
(* Instances of Procurement for TLC.                                       *)
(***************************************************************************)
EXTENDS Procurement, TLC

\* An invoice and a credit note (TLC's cfg syntax has no negative numbers).
SignedAmounts == {-1, 2}

Symmetry == Permutations(Slots) \cup Permutations(Invoices) \cup Permutations(Lines)
===============================================================================
