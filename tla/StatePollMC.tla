----------------------------- MODULE StatePollMC -----------------------------
EXTENDS StatePoll, TLC

Symmetry == Permutations(Procs) \cup Permutations(Callers)
=============================================================================
