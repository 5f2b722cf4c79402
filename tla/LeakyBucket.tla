---------------------------- MODULE LeakyBucket ----------------------------
(***************************************************************************)
(* What a provider is promised: one bucket that leaks at a steady rate.    *)
(* Every request pours Unit into it, and none is sent that would make it   *)
(* run over.  It says nothing of who asks, of processes, rows or refills.  *)
(***************************************************************************)
EXTENDS Naturals

CONSTANTS
    Unit,       \* what one request pours in
    Leak,       \* what runs out in a tick
    Capacity    \* the burst the provider stands

VARIABLE level

Init == level = 0
Grant == level + Unit <= Capacity /\ level' = level + Unit
Drain == level' = IF level < Leak THEN 0 ELSE level - Leak

Spec == Init /\ [][Grant \/ Drain]_level
=============================================================================
