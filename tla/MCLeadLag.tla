------------------------------ MODULE MCLeadLag -----------------------------
(***************************************************************************)
(* Instances of LeadLag.                                                   *)
(***************************************************************************)
EXTENDS LeadLag, TLC

Symmetry == Permutations(OrderId)

=============================================================================
