---------------------------- MODULE MCScheduling ----------------------------
(* Scheduling for TLC: two migrations of one organisation and one of another. *)
EXTENDS Scheduling, TLC

CONSTANTS o1, o2

Orgs == (1 :> o1) @@ (2 :> o1) @@ (3 :> o2)
Gaps == (1 :> 3) @@ (2 :> 3) @@ (3 :> 1)

\* A failure spaces the attempts that follow it.
Spacing == <<0, 3>>
=============================================================================
