--------------------------- MODULE MCWakeListener ---------------------------
EXTENDS WakeListener, TLC

SpeakerSymmetry == Permutations(Speakers)
=============================================================================
