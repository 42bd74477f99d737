--------------------------- MODULE MCCircularQueue ---------------------------
EXTENDS CircularQueue, TLC

ValueSymmetry == Permutations(Values)
=============================================================================
