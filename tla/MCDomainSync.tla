---------------------------- MODULE MCDomainSync ----------------------------
(* DomainSync for TLC: keys and collections are model values, and those the *)
(* constants do not tell apart are interchangeable.                         *)
EXTENDS DomainSync, TLC

Symmetry == Permutations(Key \ (Unkeyed \cup Legacy)) \cup Permutations(Collection)
=============================================================================
