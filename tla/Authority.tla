----------------------------- MODULE Authority -----------------------------
(***************************************************************************)
(* What a cutover promises the rest of the system: which of the two        *)
(* accounts decides what exists.  The source hands over to the target, the *)
(* target may give it back, and once the migration is closed it never      *)
(* does.  The passes and the applies of this project take it from here:    *)
(* DomainSync's ExecuteCutover and RollBackCutover, and the Cutover of     *)
(* FileMoves, are HandOver and TakeBack.                                   *)
(***************************************************************************)
VARIABLES side, closed

Init == side = "source" /\ closed = FALSE
HandOver == side = "source" /\ side' = "target" /\ UNCHANGED closed
TakeBack == side = "target" /\ ~closed /\ side' = "source" /\ UNCHANGED closed
Close == side = "target" /\ closed' = TRUE /\ UNCHANGED side

Spec == Init /\ [][HandOver \/ TakeBack \/ Close]_<<side, closed>>
=============================================================================
