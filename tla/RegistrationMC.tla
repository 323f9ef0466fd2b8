--------------------------- MODULE RegistrationMC ---------------------------
(***************************************************************************)
(* Registration for TLC: requests are interchangeable, so behaviours that  *)
(* differ in the names of their slots only are explored once.              *)
(***************************************************************************)
EXTENDS Registration, TLC

Slots == Permutations(Procs)
=============================================================================
