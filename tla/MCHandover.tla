----------------------------- MODULE MCHandover -----------------------------
(* Instances of Handover for TLC.                                          *)
EXTENDS Handover
=============================================================================
