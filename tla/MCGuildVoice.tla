---------------------------- MODULE MCGuildVoice ----------------------------
EXTENDS GuildVoice, TLC

Symmetry == Permutations(Commands) \cup Permutations(Users)
                \cup Permutations(Channels) \cup Permutations(Conns)
=============================================================================
