----------------------------- MODULE MCFailover -----------------------------
EXTENDS Failover, TLC

CallerSymmetry == Permutations(Users)
=============================================================================
