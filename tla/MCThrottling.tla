---------------------------- MODULE MCThrottling ----------------------------
(* Throttling for TLC: a pass of two workers and a pass of one.             *)
EXTENDS Throttling, TLC

CONSTANTS p1, p2, w1, w2, w3

Workers == (w1 :> p1) @@ (w2 :> p1) @@ (w3 :> p2)

\* One mapping stores more than the default, the other less.
Rates == (p1 :> 3) @@ (p2 :> 1)
=============================================================================
