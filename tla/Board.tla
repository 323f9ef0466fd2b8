-------------------------------- MODULE Board --------------------------------
(***************************************************************************)
(* The demo's board of partners: every request of the screen that pairs a  *)
(* partner with Evolt, rotates its tokens or unpairs it (demo/handlers.go, *)
(* demo/fanout.go).  A request is a chain of calls to the partner's mock,  *)
(* to Evolt and to Evolt's database; nothing undoes the calls before one   *)
(* that fails, and requests about one partner may overlap.                 *)
(*                                                                         *)
(* What a call does inside the mock is modelled in Registration; here it   *)
(* is one step with the outcomes it can have, the loss of its answer       *)
(* included.  Reads of a mock's name, which nothing changes, are part of   *)
(* the first step; a request that fails there changes nothing.             *)
(***************************************************************************)
EXTENDS Integers, Sequences

CONSTANTS
  Rows,        \* the partners of the board in its order, PLG first
  Procs,       \* slots for requests in flight at one time
  MaxRequests, \* bound: requests started in a behaviour
  EvoltDB      \* EVOLT_DB_DSN is set: Evolt's database can be read and written

Partners == {Rows[i] : i \in DOMAIN Rows}

ASSUME BoardAssumption ==
  /\ Rows \in Seq(Partners) /\ Rows # <<>>
  /\ MaxRequests \in Nat
  /\ EvoltDB \in BOOLEAN

VARIABLES
  mock,     \* the pair whose inbound token each mock's REGISTERED row has,
  outbound, \*   and the pair whose outbound token it has
  token,    \* the token A each mock has issued and waits with
  evolt,    \* the pair of tokens of Evolt's REGISTERED row for each partner
  fresh,    \* the next pair or token A nobody has seen
  started,  \* requests started, for the bound
  pc,       \* the call each request makes next
  todo,     \* the partners it has yet to go through, the current one first
  given,    \* the token A it was given
  party,    \* could it read the current partner's party
  views,    \* what it read of Evolt's row before and after a rotation
  scope,    \* history: the partners it is about,
  blamed,   \* history:   those of them its answer reports on
  excuse    \* history: why the two sides of a partner may differ

pairs == <<mock, outbound, token, evolt, fresh>>
locals == <<todo, given, party, views>>
history == <<scope, blamed, excuse>>
bvars == <<pairs, started, pc, locals, history>>

NoPair == 0
NoViews == [before |-> NoPair, after |-> NoPair]
Views == [before: Nat, after: Nat]

\* Why the sides of a partner differ: an answer said so, Evolt's side was left
\* alone and no answer said so, two requests about the partner overlapped.
Excuses == {"told", "untold", "overlap"}

\* The two sides of a partner hold one pair, or none.
Agree(k) == mock[k] = evolt[k] /\ outbound[k] = evolt[k]

\* A call that Evolt makes to a mock carries a token the mock knows, a call that
\* a mock makes to Evolt one that Evolt knows.
MockKnows(k) == mock[k] # NoPair /\ mock[k] = evolt[k]
EvoltKnows(k) == outbound[k] # NoPair /\ outbound[k] = evolt[k]

\* Partners are paired or not when the demo starts.
BoardInit ==
  /\ mock \in [Partners -> {NoPair, 1}]
  /\ outbound = mock
  /\ evolt = mock
  /\ token = [k \in Partners |-> NoPair]
  /\ fresh = 2
  /\ started = 0
  /\ pc = [q \in Procs |-> "idle"]
  /\ todo = [q \in Procs |-> <<>>]
  /\ given = [q \in Procs |-> NoPair]
  /\ party = [q \in Procs |-> FALSE]
  /\ views = [q \in Procs |-> NoViews]
  /\ scope = [q \in Procs |-> {}]
  /\ blamed = [q \in Procs |-> {}]
  /\ excuse = [k \in Partners |-> {}]

-----------------------------------------------------------------------------
(* The shape of a request. *)

Start(q, label) ==
  /\ pc[q] = "idle"
  /\ started < MaxRequests
  /\ started' = started + 1
  /\ pc' = [pc EXCEPT ![q] = label]

\* A request goes through the partners of list, in its order.  It overlaps with
\* those in flight about the same partners; where it is alone and the sides
\* agree, what happened before is forgiven.
Begin(q, list, label) ==
  LET S == {list[i] : i \in DOMAIN list} IN
  /\ Start(q, label)
  /\ todo' = [todo EXCEPT ![q] = list]
  /\ scope' = [scope EXCEPT ![q] = S]
  /\ excuse' = [k \in Partners |->
       IF k \notin S THEN excuse[k]
       ELSE IF \E r \in Procs : k \in scope[r] THEN excuse[k] \cup {"overlap"}
       ELSE IF Agree(k) THEN {} ELSE excuse[k]]
  /\ UNCHANGED <<pairs, given, party, views, blamed>>

BeginOne(q, label) == \E k \in Partners : Begin(q, <<k>>, label)

At(q, label) == pc[q] = label /\ UNCHANGED started
Goto(q, label) == pc' = [pc EXCEPT ![q] = label]
Partner(q) == Head(todo[q])

\* The request is answered and its locals are gone.
Return(q) ==
  /\ Goto(q, "idle")
  /\ todo' = [todo EXCEPT ![q] = <<>>]
  /\ given' = [given EXCEPT ![q] = NoPair]
  /\ party' = [party EXCEPT ![q] = FALSE]
  /\ views' = [views EXCEPT ![q] = NoViews]
  /\ scope' = [scope EXCEPT ![q] = {}]
  /\ blamed' = [blamed EXCEPT ![q] = {}]

Excuse(k, why) == excuse' = [excuse EXCEPT ![k] = @ \cup {why}]

AnswerOK(q) == Return(q) /\ UNCHANGED excuse

\* fail and failFrom: the screen shows the error.
AnswerError(q) == Return(q) /\ Excuse(Partner(q), "told")

\* A mock's row carries pair, or, without one, is gone or PENDING.
MockHolds(k, pair) ==
  /\ mock' = [mock EXCEPT ![k] = pair]
  /\ outbound' = [outbound EXCEPT ![k] = pair]

EvoltHolds(k, pair) == evolt' = [evolt EXCEPT ![k] = pair]
Drawn == fresh' = fresh + 1

\* What an exchange between a mock and Evolt comes to: both sides take a new
\* pair, or only the one that answers the other's call does, or the side that
\* calls is cut off and cannot restore its row: a rotation leaves it with one
\* token of the new pair, a handshake leaves it PENDING.
BothTake(k) ==
  /\ MockHolds(k, fresh) /\ EvoltHolds(k, fresh) /\ Drawn
  /\ token' = [token EXCEPT ![k] = NoPair]

EvoltTakes(k) == EvoltHolds(k, fresh) /\ Drawn /\ UNCHANGED <<mock, outbound, token>>

MockTakes(k) ==
  /\ MockHolds(k, fresh) /\ Drawn
  /\ token' = [token EXCEPT ![k] = NoPair]
  /\ UNCHANGED evolt

MockHalfTakes(k) ==
  /\ mock[k] # NoPair
  /\ mock' = [mock EXCEPT ![k] = fresh] /\ Drawn
  /\ (EvoltKnows(k) /\ EvoltHolds(k, fresh)) \/ UNCHANGED evolt
  /\ UNCHANGED <<outbound, token>>

MockPends(k) ==
  /\ MockHolds(k, NoPair)
  /\ token' = [token EXCEPT ![k] = NoPair]
  /\ (evolt[k] = NoPair /\ EvoltHolds(k, fresh) /\ Drawn) \/ UNCHANGED <<evolt, fresh>>

-----------------------------------------------------------------------------
(* PartnerInitHandshake, FanoutPartnerInit: orch's token A, then the mock    *)
(* walks the handshake.                                                     *)

PartnerInitial(q) == BeginOne(q, "handshake")

\* A leftover REGISTERED row of Evolt refuses every handshake with 9999.
MockHandshake(q) ==
  /\ At(q, "handshake")
  /\ \/ /\ evolt[Partner(q)] = NoPair
        /\ \/ BothTake(Partner(q)) /\ AnswerOK(q)
           \/ (BothTake(Partner(q)) \/ EvoltTakes(Partner(q))) /\ AnswerError(q)
     \/ (MockPends(Partner(q)) \/ UNCHANGED pairs) /\ AnswerError(q)

-----------------------------------------------------------------------------
(* EvoltInitHandshake, FanoutHandshake: a token A of the mock, which ends    *)
(* the pairing it has, then Evolt walks the handshake.                      *)

PartnerName(q) == BeginOne(q, "tokens")

\* Mutant: the pairing outlives the new token A.
IssueBeside(k) ==
  /\ token' = [token EXCEPT ![k] = fresh]
  /\ Drawn
  /\ UNCHANGED <<mock, outbound, evolt>>

IssueToken(k) ==
  /\ MockHolds(k, NoPair)
  /\ token' = [token EXCEPT ![k] = fresh]
  /\ Drawn
  /\ UNCHANGED evolt

MockTokens(q) ==
  /\ At(q, "tokens")
  /\ \/ /\ IssueToken(Partner(q))
        /\ Goto(q, "outbound")
        /\ given' = [given EXCEPT ![q] = fresh]
        /\ UNCHANGED <<todo, party, views, history>>
     \/ (IssueToken(Partner(q)) \/ UNCHANGED pairs) /\ AnswerError(q)

\* Evolt has no row and the mock still waits with the token A of this request.
Welcome(q) ==
  /\ evolt[Partner(q)] = NoPair
  /\ token[Partner(q)] = given[q]

\* Mutant: Evolt's refusal, a 200 with another code than 1000, passes for success.
EnvelopeUnread(q) ==
  /\ At(q, "outbound")
  /\ \/ /\ Welcome(q)
        /\ \/ BothTake(Partner(q)) /\ AnswerOK(q)
           \/ (BothTake(Partner(q)) \/ MockTakes(Partner(q))) /\ AnswerError(q)
     \/ UNCHANGED pairs /\ AnswerOK(q)

PartnerOutbound(q) ==
  /\ At(q, "outbound")
  /\ \/ /\ Welcome(q)
        /\ \/ BothTake(Partner(q)) /\ AnswerOK(q)
           \/ (BothTake(Partner(q)) \/ MockTakes(Partner(q))) /\ AnswerError(q)
     \/ UNCHANGED pairs /\ AnswerError(q)

-----------------------------------------------------------------------------
(* CredentialsPut and CredentialsDelete: rotate or unpair by the protocol.   *)

CredentialsPut(q) == BeginOne(q, "before")

\* What Evolt's row shows of k: nothing without a database, without the party,
\* without a row, or when the read fails.
PartnerCredential(k) == {NoPair} \cup (IF EvoltDB THEN {evolt[k]} ELSE {})

ReadBefore(q) ==
  /\ At(q, "before")
  /\ \E row \in PartnerCredential(Partner(q)) : views' = [views EXCEPT ![q].before = row]
  /\ Goto(q, "put")
  /\ UNCHANGED <<pairs, todo, given, party, history>>

\* A mock that is not REGISTERED makes no call, and Evolt refuses a token it
\* does not know; a rotation cut off there leaves half of the new pair as well.
MockPut(q) ==
  /\ At(q, "put")
  /\ \/ /\ EvoltKnows(Partner(q))
        /\ \/ /\ BothTake(Partner(q))
              /\ Goto(q, "after")
              /\ UNCHANGED <<locals, history>>
           \/ (BothTake(Partner(q)) \/ EvoltTakes(Partner(q))) /\ AnswerError(q)
     \/ (MockHalfTakes(Partner(q)) \/ UNCHANGED pairs) /\ AnswerError(q)

\* Mutant: Evolt's row is read once.
ReadOnce(q) ==
  /\ At(q, "after")
  /\ views' = [views EXCEPT ![q].after = views[q].before]
  /\ Goto(q, "show")
  /\ UNCHANGED <<pairs, todo, given, party, history>>

ReadAfter(q) ==
  /\ At(q, "after")
  /\ \E row \in PartnerCredential(Partner(q)) : views' = [views EXCEPT ![q].after = row]
  /\ Goto(q, "show")
  /\ UNCHANGED <<pairs, todo, given, party, history>>

CredentialsDelete(q) == BeginOne(q, "drop")

\* Evolt revokes the pair, then the mock drops its row.
MockDelete(q) ==
  /\ At(q, "drop")
  /\ \/ /\ EvoltKnows(Partner(q))
        /\ EvoltHolds(Partner(q), NoPair)
        /\ \/ MockHolds(Partner(q), NoPair) /\ AnswerOK(q)
           \/ (MockHolds(Partner(q), NoPair) \/ UNCHANGED <<mock, outbound>>) /\ AnswerError(q)
        /\ UNCHANGED <<token, fresh>>
     \/ UNCHANGED pairs /\ AnswerError(q)

-----------------------------------------------------------------------------
(* Unregister, the whole board, and FanoutUnregister, one partner: the mock  *)
(* is wiped, its data reset, Evolt's row deleted.                           *)

Unregister(q) == Begin(q, Rows, "wipe")
FanoutUnregister(q) == BeginOne(q, "wipe")

\* The current partner is done with.
NextPartner(q) ==
  /\ todo' = [todo EXCEPT ![q] = Tail(@)]
  /\ Goto(q, IF Len(todo[q]) = 1 THEN "show" ELSE "wipe")
  /\ UNCHANGED <<given, views, scope>>

Report(q) ==
  /\ blamed' = [blamed EXCEPT ![q] = @ \cup {Partner(q)}]
  /\ Excuse(Partner(q), "told")

\* A partner's mock cannot be reached: the error of the first one is the answer,
\* that of another is reported with the rest.
UnregisterFails(q) ==
  IF Partner(q) = Rows[1] \/ scope[q] = {Partner(q)} THEN AnswerError(q)
  ELSE NextPartner(q) /\ Report(q) /\ UNCHANGED party

\* DELETE /admin/registrations, after the party has been read, or not.
MockWipe(q) ==
  LET wiped == /\ MockHolds(Partner(q), NoPair)
               /\ token' = [token EXCEPT ![Partner(q)] = NoPair]
               /\ UNCHANGED <<evolt, fresh>>
  IN
  /\ At(q, "wipe")
  /\ \/ /\ wiped
        /\ Goto(q, "reset")
        /\ \E read \in BOOLEAN : party' = [party EXCEPT ![q] = read]
        /\ UNCHANGED <<todo, given, views, history>>
     \/ (wiped \/ UNCHANGED pairs) /\ UnregisterFails(q)

\* POST /admin/seed/reset.
MockReset(q) ==
  /\ At(q, "reset")
  /\ \/ Goto(q, "clear") /\ UNCHANGED <<locals, history>>
     \/ UnregisterFails(q)
  /\ UNCHANGED pairs

\* Mutant: the answer keeps quiet about a database that fails.
WarningDropped(q) ==
  /\ At(q, "clear")
  /\ \/ /\ EvoltDB /\ party[q]
        /\ evolt' \in {evolt, [evolt EXCEPT ![Partner(q)] = NoPair]}
        /\ UNCHANGED <<mock, outbound, token, fresh, excuse, blamed>>
     \/ /\ ~(EvoltDB /\ party[q])
        /\ Excuse(Partner(q), "untold")
        /\ UNCHANGED <<pairs, blamed>>
  /\ party' = [party EXCEPT ![q] = FALSE]
  /\ NextPartner(q)

\* DeletePartnerCredentials; when it fails the answer carries a warning.  With
\* no database, or without the party, Evolt's side is left without a word.
ClearEvolt(q) ==
  /\ At(q, "clear")
  /\ \/ /\ EvoltDB /\ party[q]
        /\ \/ EvoltHolds(Partner(q), NoPair) /\ UNCHANGED <<excuse, blamed>>
           \/ (EvoltHolds(Partner(q), NoPair) \/ UNCHANGED evolt) /\ Report(q)
        /\ UNCHANGED <<mock, outbound, token, fresh>>
     \/ /\ ~(EvoltDB /\ party[q])
        /\ Excuse(Partner(q), "untold")
        /\ UNCHANGED <<pairs, blamed>>
  /\ party' = [party EXCEPT ![q] = FALSE]
  /\ NextPartner(q)

Show(q) == At(q, "show") /\ AnswerOK(q) /\ UNCHANGED pairs

-----------------------------------------------------------------------------

Request(q) ==
  \/ PartnerInitial(q) \/ PartnerName(q) \/ CredentialsPut(q) \/ CredentialsDelete(q)
  \/ Unregister(q) \/ FanoutUnregister(q)

Call(q) ==
  \/ MockHandshake(q) \/ MockTokens(q) \/ PartnerOutbound(q)
  \/ ReadBefore(q) \/ MockPut(q) \/ ReadAfter(q) \/ MockDelete(q)
  \/ MockWipe(q) \/ MockReset(q) \/ ClearEvolt(q) \/ Show(q)

-----------------------------------------------------------------------------
(* Properties. *)

\* Every variable of the board has the shape its comment gives it (pc, whose
\* labels the modules above add to, has its range in Demo): a mock is REGISTERED
\* with two tokens or none and then waits with no token A, no pair is used that
\* was not drawn, and a request that is answered is about nobody.
BoardTypeOK ==
  /\ fresh \in Nat \ {NoPair}
  /\ {mock, outbound, token, evolt} \subseteq [Partners -> 0..fresh - 1]
  /\ \A k \in Partners :
       /\ mock[k] = NoPair <=> outbound[k] = NoPair
       /\ mock[k] = NoPair \/ token[k] = NoPair
  /\ started \in 0..MaxRequests
  /\ todo \in [Procs -> Seq(Partners)]
  /\ given \in [Procs -> Nat]
  /\ party \in [Procs -> BOOLEAN]
  /\ views \in [Procs -> Views]
  /\ {scope, blamed} \subseteq [Procs -> SUBSET Partners]
  /\ \A q \in Procs :
       /\ pc[q] = "idle" => scope[q] = {}
       /\ \A i \in DOMAIN todo[q] : todo[q][i] \in scope[q]
       /\ blamed[q] \subseteq scope[q]
  /\ excuse \in [Partners -> SUBSET Excuses]

\* "The two can disagree": whenever no request is about a partner and its mock
\* and Evolt do not hold one pair, an answer about it reported an error or a
\* warning, or an unregistration that could not read its party or has no
\* database left Evolt's row in silence, or two requests about it overlapped.
MismatchExplained ==
  \A k \in Partners :
    (\A q \in Procs : k \notin scope[q]) /\ ~Agree(k) => excuse[k] # {}

\* "One unreachable mock must not abort the rest of the sweep": a sweep of the
\* board, or of one partner, that is answered ok has cleared both sides of every
\* partner it does not report on, unless another request was about that partner
\* meanwhile or Evolt's side was left alone in silence.  (A sweep has no partner
\* left to go through when it answers; a rotation still has its own.)
SweepComplete ==
  \A q \in Procs : pc[q] = "show" /\ todo[q] = <<>> =>
    \A k \in scope[q] \ blamed[q] :
      \/ mock[k] = NoPair /\ evolt[k] = NoPair
      \/ excuse[k] \cap {"untold", "overlap"} # {}

\* The rotation's evidence is evidence: when the answer shows Evolt's row before
\* and after and no other request was about the partner, the row has changed
\* and the new one carries the pair the mock took.
RotationShown ==
  \A q \in Procs : pc[q] = "show" /\ views[q].before # NoPair /\ views[q].after # NoPair =>
    \A k \in scope[q] :
      \/ views[q].after # views[q].before /\ views[q].after = mock[k]
      \/ "overlap" \in excuse[k]
=============================================================================
