-------------------------- MODULE MCDownloadMeter --------------------------
(* DownloadMeter for TLC: two workers of mappings with ceilings of their own. *)
EXTENDS DownloadMeter, TLC

CONSTANTS w1, w2

\* One mapping configures nothing, the other more than the provider allows.
Ceilings == (w1 :> 0) @@ (w2 :> 9)
=============================================================================
