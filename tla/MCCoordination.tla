--------------------------- MODULE MCCoordination ---------------------------
(* Two agents on two login nodes, two managers they may start, one key.    *)
EXTENDS Coordination

CONSTANTS a1, a2, login1, login2

Hosts == [a \in {a1, a2} |-> IF a = a1 THEN login1 ELSE login2]
=============================================================================
