----------------------------- MODULE MCConfigFile -----------------------------
EXTENDS ConfigFile, TLC

Symmetry == Permutations(Requests) \cup Permutations(Managers) \cup Permutations(Edits)
=============================================================================
