---------------------------- MODULE CatalogueMC ----------------------------
(* Catalogue with small sets for TLC: objects are numbers, as the feed      *)
(* orders them by id; requests are interchangeable.                         *)
EXTENDS Catalogue, TLC

CONSTANTS p1, p2, u1, u2

Slots == Permutations(Procs)

OwnLocations == {1, 2}
OwnTariffs == {3, 4}
FileObjects == {1, 3}
=============================================================================
