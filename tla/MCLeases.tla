------------------------------ MODULE MCLeases ------------------------------
(* Instances of Leases for TLC: a wide job and a narrow one on a pilot     *)
(* that holds the wide one alone or, once it has shrunk, both.             *)
EXTENDS Leases

CONSTANTS wide, narrow

Amounts(c, m) == [d \in Dim |-> IF d = "cpu" THEN c ELSE m]

MCTotal  == Amounts(2, 2)
MCMax    == [j \in Jobs |-> IF j = wide THEN Amounts(2, 2) ELSE Amounts(1, 1)]
MCAmount == [r \in Releases |-> Amounts(1, 1)]
MCAttempts == [j \in Jobs |-> IF j = wide THEN 2 ELSE 1]
MCGoals  == {Amounts(1, 1), Amounts(2, 2)}
=============================================================================
