------------------------------ MODULE Pairing ------------------------------
(***************************************************************************)
(* What the credentials protocol promises when requests do not overlap:    *)
(* one step pairs both sides, one step rotates both tokens on both sides,  *)
(* and they come to disagree in two ways only: our side forgets a pairing  *)
(* Evolt was not told about, or the reply to a request is lost.            *)
(***************************************************************************)
EXTENDS Naturals

VARIABLES
  ours,    \* the tokens of our REGISTERED row: the one Evolt uses, the one it accepts
  theirs,  \* the same two tokens as Evolt has them
  losses   \* the replies lost so far

pairing == <<ours, theirs, losses>>

Unpaired == [use |-> 0, accept |-> 0]
Paired == [use: Nat \ {0}, accept: Nat \ {0}]

Init == ours = Unpaired /\ theirs = Unpaired /\ losses = 0

\* A handshake or a rotation: both sides move together to two new tokens.
Exchange ==
  /\ ours' = theirs'
  /\ ours' \in Paired
  /\ ours'.use \notin {ours.use, theirs.use}
  /\ ours'.accept \notin {ours.accept, theirs.accept}
  /\ UNCHANGED losses

\* Unregistration through the protocol.
Dissolve == ours' = Unpaired /\ theirs' = Unpaired /\ UNCHANGED losses

\* Unregistration or a new token A on our side only.
Forget == ours' = Unpaired /\ UNCHANGED <<theirs, losses>>

\* The side that waits for a lost reply stays behind, or is the only one to
\* have moved: what Evolt holds is no longer what we do.
Part == losses' = losses + 1 /\ theirs' # theirs /\ UNCHANGED ours

Next == Exchange \/ Dissolve \/ Forget \/ Part

Spec == Init /\ [][Next]_pairing
=============================================================================
