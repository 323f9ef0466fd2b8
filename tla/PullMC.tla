------------------------------- MODULE PullMC -------------------------------
(* Pull with three listed objects of four, one of them broken, for TLC. *)
EXTENDS Pull

FirstList == <<1, 2, 3>>
=============================================================================
