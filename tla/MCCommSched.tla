---------------------------- MODULE MCCommSched ----------------------------
(* Targets of different sizes, so that the relative load matters.          *)
EXTENDS CommSched, TLC

CONSTANTS t1, t2, t3, t4, c1, c2, c3

MaxLoads == [t \in Targets |-> IF t = t1 THEN 2 ELSE 1]

CallersAlike == Permutations(Callers)
=============================================================================
