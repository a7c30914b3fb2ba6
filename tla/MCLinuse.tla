----------------------------- MODULE MCLinuse -----------------------------
EXTENDS Linuse, TLC

CONSTANTS p1, p2, s1

SemInit0 == [s \in Sems |-> 0]
SemMax1 == [s \in Sems |-> 1]

Simetria == Permutations(Pids)
=============================================================================
