---------------------------- MODULE MCTimerQueue ----------------------------
EXTENDS TimerQueue, TLC

CONSTANTS n1, n2, n3, n4, n5, n6

MCNodes == {n1, n2, n3, n4, n5, n6}
MCPoints == -1..2
NodeSymmetry == Permutations(MCNodes)
=============================================================================
