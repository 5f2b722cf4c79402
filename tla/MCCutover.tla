----------------------------- MODULE MCCutover -----------------------------
(* Cutover with its callers as model values.                                *)
EXTENDS Cutover, TLC

CONSTANTS p1, p2

Symmetry == Permutations(Caller)
=============================================================================
