------------------------------- MODULE DemoMC -------------------------------
EXTENDS Demo, TLC

Three == <<"plg", "vct", "chx">>

Symmetry == Permutations(Procs) \cup Permutations(Statuses) \cup Permutations(Jobs)
=============================================================================
