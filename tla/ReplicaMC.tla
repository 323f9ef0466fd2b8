----------------------------- MODULE ReplicaMC -----------------------------
(***************************************************************************)
(* Replica for TLC: a few lists of EVSEs that between them have an EVSE    *)
(* with and without a connector, objects with and without a last_updated   *)
(* of their own, two EVSEs at once, and none.                              *)
(***************************************************************************)
EXTENDS Replica, TLC

CONSTANTS u1, u2, c1

Slots == Permutations(Procs)

Bare(time) == [stamp |-> time, connectors |-> Nothing]
Plugged(time, conn) == [stamp |-> time, connectors |-> c1 :> conn]

SampleBodies ==
  {Nothing,
   u1 :> Bare(1),
   u1 :> Plugged(Absent, Absent),
   u1 :> Plugged(1, 2),
   (u1 :> Plugged(1, Absent)) @@ (u2 :> Bare(2))}
=============================================================================
