------------------------ MODULE RegistrationPairing ------------------------
(***************************************************************************)
(* Registration implements Pairing as long as its requests do not overlap: *)
(* although a handshake or a rotation writes the row before Evolt is       *)
(* called and again after, the exchange is one step of both sides, one     *)
(* that fails is no step at all, and each reply that is lost lets the two  *)
(* sides come apart once.                                                  *)
(***************************************************************************)
EXTENDS Registration

VARIABLE losses  \* history: the replies lost so far

ASSUME OneRequestAtATime == \E p \in Procs : Procs = {p}

Request == CHOOSE p \in Procs : TRUE

PairOf(row) ==
  IF row.status = Registered THEN [use |-> row.in, accept |-> row.out] ELSE NoPair

FirstPair ==
  LET ids == RegisteredRows(regs)
  IN  IF ids = {} THEN NoPair
      ELSE PairOf(regs[CHOOSE id \in ids : IsFirst(id, ids)])

Given == [use |-> tok[Request], accept |-> grant[Request]]

\* From the write that makes the new inbound token live until the call to
\* Evolt is over, the pairing is still the one the rollback would restore.
Ours ==
  CASE pc[Request] \in {"post", "put", "rollback"} -> PairOf(prev[Request].row)
    [] pc[Request] \in {"postFinish", "putFinish"} -> Given
    [] pc[Request] = "drop" -> NoPair
    [] OTHER -> FirstPair

\* An answer on its way to Evolt counts as read.
Theirs == IF pc[Request] = "reply" THEN Given ELSE peer

\* What Evolt answered, or read, is lost: it took part in an exchange or dropped
\* our credentials and we do not hear of it, or the answer with the pair it was
\* given does not reach it.
LosesReply ==
  \/ pc[Request] \in {"post", "put", "delete"} /\ peer' # peer
     /\ pc'[Request] \in {"rollback", "idle"}
  \/ pc[Request] = "reply" /\ pc'[Request] = "idle" /\ peer' # Given

PairingInit == Init /\ losses = 0

PairingNext == Next /\ losses' = losses + (IF LosesReply THEN 1 ELSE 0)

PairingSpec == PairingInit /\ [][PairingNext]_<<vars, losses>>

-----------------------------------------------------------------------------

Abstract == INSTANCE Pairing WITH ours <- Ours, theirs <- Theirs

\* Every request is one step of Pairing: it pairs or rotates both sides with
\* two new tokens, dissolves the pairing on both, forgets it on ours, or
\* changes nothing when it fails; a lost reply, and nothing else, leaves Evolt
\* with other tokens than ours.
ImplementsPairing == Abstract!Spec
=============================================================================
