---------------------------- MODULE MCGrantLedger ----------------------------
(* Two pilots, one with two devices and one with one; two jobs that need a *)
(* device each, one of which frees storage when it completes.              *)
EXTENDS GrantLedger

CONSTANTS e1, e2, g1, g2, g3, j1, j2

MCDevices  == [e \in {e1, e2} |-> IF e = e1 THEN {g1, g2} ELSE {g3}]
MCNeed     == [j \in Jobs |-> 1]
MCStartUse == [j \in Jobs |-> IF j = j1 THEN 2 ELSE 1]
MCEndUse   == [j \in Jobs |-> 1]
=============================================================================
