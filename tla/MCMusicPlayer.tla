---------------------------- MODULE MCMusicPlayer ----------------------------
EXTENDS MusicPlayer, TLC

Symmetry == Permutations(Songs) \cup Permutations(Askers)
=============================================================================
