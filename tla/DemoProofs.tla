----------------------------- MODULE DemoProofs -----------------------------
(***************************************************************************)
(* What holds of the demo's board, status events and batch runs, for any   *)
(* partners, any number of requests and whatever calls fail.               *)
(*                                                                         *)
(*   TypeCorrect              Spec => []TypeOK                             *)
(*   MismatchExplainedAlways  Spec => []MismatchExplained                  *)
(*   SweepCompleteAlways      Spec => []SweepComplete                      *)
(*   RotationShownAlways      Spec => []RotationShown                      *)
(*   StatusReachesAlways      Spec => []StatusReaches                      *)
(*   BatchCollectedAlways     Spec => []BatchCollected                     *)
(*                                                                         *)
(* BoardInv is what each call of a request leaves for the next one.  Two   *)
(* requests about one partner overlap, and the history says so for as long *)
(* as either is in flight: a request whose partner bears no such mark is   *)
(* the only one that touches it, so what it has done so far still stands.  *)
(* StatusInv says where a status is that has not reached a mock, BatchInv  *)
(* what a job has yet to collect for its run.                              *)
(***************************************************************************)
EXTENDS Demo, FiniteSetTheorems, SequenceTheorems, TLAPS

\* The calls of a rotation and of a sweep.
Rotation == {"before", "put", "after"}
Sweep == {"wipe", "reset", "clear"}

\* A mock that waits with a token A has no pair.
PairTypes ==
  /\ fresh \in Nat \ {0}
  /\ mock \in [Partners -> 0..fresh - 1]
  /\ outbound \in [Partners -> 0..fresh - 1]
  /\ token \in [Partners -> 0..fresh - 1]
  /\ evolt \in [Partners -> 0..fresh - 1]
  /\ \A k \in Partners :
       /\ mock[k] = NoPair <=> outbound[k] = NoPair
       /\ mock[k] = NoPair \/ token[k] = NoPair

RequestTypes ==
  /\ started \in 0..MaxRequests
  /\ pc \in [Procs -> Labels]
  /\ todo \in [Procs -> Seq(Partners)]
  /\ given \in [Procs -> Nat]
  /\ party \in [Procs -> BOOLEAN]
  /\ views \in [Procs -> Views]
  /\ scope \in [Procs -> SUBSET Partners]
  /\ blamed \in [Procs -> SUBSET Partners]
  /\ excuse \in [Partners -> SUBSET Excuses]

Todo(q) == {todo[q][i] : i \in DOMAIN todo[q]}

\* What a request keeps at each of its steps.
Shape(q) ==
  /\ pc[q] \in Calls => todo[q] # <<>>
  /\ pc[q] \in Elsewhere => scope[q] = {}
  /\ Todo(q) \subseteq scope[q] /\ blamed[q] \subseteq scope[q]
  /\ pc[q] \in Rotation => scope[q] = {Partner(q)}
  /\ pc[q] = "show" /\ todo[q] # <<>> => scope[q] = {Partner(q)}
  /\ pc[q] \notin {"put", "after", "show"} => views[q] = NoViews
  /\ pc[q] = "show" /\ todo[q] = <<>> => views[q] = NoViews

\* The history of a partner two requests are about says that they overlapped.
Overlaps ==
  \A q, r \in Procs : \A k \in scope[q] \cap scope[r] :
    q # r => "overlap" \in excuse[k]

\* A request that has ended a partner's pairing on one side goes on to the other.
Explained(k) ==
  \/ Agree(k)
  \/ excuse[k] # {}
  \/ \E q \in Procs : pc[q] \in {"outbound", "reset", "clear"} /\ Partner(q) = k

Wiped(q) ==
  pc[q] \in {"reset", "clear"} =>
    mock[Partner(q)] = NoPair \/ "overlap" \in excuse[Partner(q)]

Cleared(k) ==
  \/ mock[k] = NoPair /\ evolt[k] = NoPair
  \/ excuse[k] \cap {"untold", "overlap"} # {}

Swept(q) ==
  pc[q] \in Sweep \/ (pc[q] = "show" /\ todo[q] = <<>>) =>
    \A k \in scope[q] \ (blamed[q] \cup Todo(q)) : Cleared(k)

\* The pair Evolt's row shows before a rotation is older than what it takes.
Rotating(q) ==
  \A k \in scope[q] :
    \/ "overlap" \in excuse[k]
    \/ /\ pc[q] = "put" => views[q].before < fresh
       /\ pc[q] = "after" => mock[k] = evolt[k] /\ views[q].before < mock[k]
       /\ pc[q] = "show" /\ todo[q] # <<>> =>
            /\ views[q].before < mock[k]
            /\ views[q].after \in {NoPair, mock[k]}

BoardInv ==
  /\ PairTypes /\ RequestTypes /\ Overlaps
  /\ \A k \in Partners : Explained(k)
  /\ \A q \in Procs : Shape(q) /\ Wiped(q) /\ Swept(q) /\ Rotating(q)

-----------------------------------------------------------------------------
(* The status events. *)

InEvent == {q \in Procs : pc[q] \in {"flip", "produce"}}

StatusTypes ==
  /\ row \in Statuses
  /\ topic \in Nat
  /\ patching \in [status: Statuses \cup {Absent}, left: SUBSET Partners]
  /\ held \in [Partners -> Statuses \cup {Absent}]
  /\ want \in [Procs -> Statuses \cup {Absent}]
  /\ pulled \in [Procs -> [Partners -> Statuses \cup {Unasked, Answered}]]
  /\ missed \subseteq Partners
  /\ \A q \in Procs :
       /\ pc[q] \in {"flip", "produce"} <=> want[q] # Absent
       /\ pulled[q] # NoPull => pc[q] = "pull"

\* An event in the topic was written by a request that had been started for it.
Events == IsFiniteSet(InEvent) /\ topic + Cardinality(InEvent) <= started

\* A status that has not reached a mock is on its way to it.
OnItsWay(k) ==
  \/ held[k] \in {Absent, row}
  \/ \E q \in Procs : pc[q] = "produce"
  \/ topic > 0
  \/ k \in patching.left /\ patching.status = row

StatusInv ==
  /\ StatusTypes /\ Events
  /\ \A k \in Partners \ missed : OnItsWay(k)

-----------------------------------------------------------------------------
(* The batch runs. *)

BatchTypes ==
  /\ job \in [Procs -> Jobs \cup {NoJob}]
  /\ refresh \in [Procs -> Seq(Partners)]
  /\ due \in [Procs -> SUBSET Partners]
  /\ listed \in [Procs -> SUBSET Partners]
  /\ left \in [Procs -> SUBSET Partners]
  /\ failed \in [Procs -> SUBSET Partners]
  /\ exit \in [Procs -> {-1, 0, 1}]

\* What a run keeps at each of its steps, and what its job has yet to collect.
Running(q) ==
  /\ pc[q] \in {"batch", "job", "result"} <=> job[q] # NoJob
  /\ pc[q] # "batch" => refresh[q] = <<>>
  /\ pc[q] \notin {"batch", "job", "result"} => due[q] = {}
  /\ pc[q] # "job" => left[q] = {}
  /\ pc[q] \notin {"job", "result"} => failed[q] = {}
  /\ left[q] \cup failed[q] \subseteq listed[q] /\ left[q] \cap failed[q] = {}
  /\ pc[q] \in {"job", "result"} /\ exit[q] = 0 =>
       due[q] \cap listed[q] \subseteq left[q] \cup failed[q]

BatchInv == BatchTypes /\ \A q \in Procs : Running(q)

IInv == BoardInv /\ StatusInv /\ BatchInv

-----------------------------------------------------------------------------
(* What a call of the board changes: the pair of the partner it is about,   *)
(* and what its own request keeps.                                          *)

Moves(S) ==
  /\ PairTypes'
  /\ \A j \in Partners \ S :
       mock'[j] = mock[j] /\ outbound'[j] = outbound[j] /\ evolt'[j] = evolt[j]
  /\ fresh <= fresh'

Works(q) ==
  /\ RequestTypes'
  /\ \A j \in Partners : excuse[j] \subseteq excuse'[j]
  /\ \A r \in Procs \ {q} :
       /\ pc'[r] = pc[r] /\ todo'[r] = todo[r] /\ views'[r] = views[r]
       /\ scope'[r] = scope[r] /\ blamed'[r] = blamed[r]
  /\ scope'[q] \subseteq scope[q]

LEMMA PartnerInScope ==
  ASSUME RequestTypes, NEW q \in Procs, Shape(q), todo[q] # <<>>
  PROVE  Partner(q) \in Partners /\ Partner(q) \in scope[q] /\ Partner(q) \in Todo(q)
<1>1. todo[q] \in Seq(Partners) /\ 1 \in DOMAIN todo[q] /\ Partner(q) = todo[q][1]
  BY DEF RequestTypes, Partner
<1>2. Partner(q) \in Partners
  BY <1>1
<1> QED
  BY <1>1, <1>2 DEF Shape, Todo

LEMMA TakeMoves ==
  ASSUME PairTypes, NEW k \in Partners,
         \/ BothTake(k) \/ EvoltTakes(k) \/ MockTakes(k) \/ MockHalfTakes(k) \/ MockPends(k)
         \/ IssueToken(k) \/ UNCHANGED pairs
  PROVE  Moves({k})
<1> USE DEF MockHolds, EvoltHolds, Drawn
<1>1. CASE BothTake(k)
  BY <1>1 DEF PairTypes, Moves, BothTake, NoPair
<1>2. CASE EvoltTakes(k)
  BY <1>2 DEF PairTypes, Moves, EvoltTakes, NoPair
<1>3. CASE MockTakes(k)
  BY <1>3 DEF PairTypes, Moves, MockTakes, NoPair
<1>4. CASE MockHalfTakes(k)
  <2>1. evolt' \in {evolt, [evolt EXCEPT ![k] = fresh]}
    BY <1>4 DEF MockHalfTakes
  <2> QED
    BY <1>4, <2>1 DEF PairTypes, Moves, MockHalfTakes, NoPair
<1>5. CASE MockPends(k)
  <2>1. \/ evolt' = [evolt EXCEPT ![k] = fresh] /\ fresh' = fresh + 1
        \/ UNCHANGED <<evolt, fresh>>
    BY <1>5 DEF MockPends
  <2> QED
    BY <1>5, <2>1 DEF PairTypes, Moves, MockPends, NoPair
<1>6. CASE IssueToken(k)
  BY <1>6 DEF PairTypes, Moves, IssueToken, NoPair
<1>7. CASE UNCHANGED pairs
  BY <1>7 DEF PairTypes, Moves, pairs
<1> QED
  BY <1>1, <1>2, <1>3, <1>4, <1>5, <1>6, <1>7

\* After an exchange that both complete the two sides agree.
LEMMA BothAgree ==
  ASSUME PairTypes, NEW k \in Partners, BothTake(k)
  PROVE  mock'[k] = fresh /\ outbound'[k] = fresh /\ evolt'[k] = fresh /\ Agree(k)'
BY DEF PairTypes, BothTake, MockHolds, EvoltHolds, Drawn, Agree

\* A request whose partners nothing touches, or marks so, keeps what it has done.
LEMMA StandsStill ==
  ASSUME BoardInv, NEW r \in Procs, fresh' \in Nat, fresh <= fresh',
         pc'[r] = pc[r], todo'[r] = todo[r], views'[r] = views[r],
         scope'[r] = scope[r], blamed'[r] = blamed[r],
         \A j \in scope[r] :
           /\ excuse[j] \subseteq excuse'[j]
           /\ \/ mock'[j] = mock[j] /\ evolt'[j] = evolt[j]
              \/ "overlap" \in excuse[j]
  PROVE  Shape(r)' /\ Wiped(r)' /\ Swept(r)' /\ Rotating(r)'
<1>1. RequestTypes /\ Shape(r) /\ Wiped(r) /\ Swept(r) /\ Rotating(r)
  BY DEF BoardInv
<1>2. Partner(r)' = Partner(r) /\ Todo(r)' = Todo(r)
  BY DEF Partner, Todo
<1>3. Shape(r)'
  BY <1>1, <1>2 DEF Shape
<1>4. Wiped(r)'
  <2>1. pc[r] \in {"reset", "clear"} => Partner(r) \in scope[r]
    BY <1>1, PartnerInScope DEF Shape, Calls
  <2> QED
    BY <1>1, <1>2, <2>1 DEF Wiped
<1>5. Swept(r)'
  BY <1>1, <1>2 DEF Swept, Cleared
<1>6. Rotating(r)'
  <2>1. fresh \in Nat /\ views[r].before \in Nat
    BY <1>1 DEF PairTypes, BoardInv, RequestTypes, Views
  <2> QED
    BY <1>1, <2>1 DEF Rotating
<1> QED
  BY <1>3, <1>4, <1>5, <1>6

\* Two requests about one partner: the other one's work stands, or is marked.
LEMMA OthersKeep ==
  ASSUME BoardInv, NEW q \in Procs, NEW S \in SUBSET scope[q], Moves(S), Works(q),
         NEW r \in Procs \ {q}
  PROVE  Shape(r)' /\ Wiped(r)' /\ Swept(r)' /\ Rotating(r)'
<1>1. scope[r] \subseteq Partners
  BY DEF BoardInv, RequestTypes
<1>2. ASSUME NEW j \in scope[r]
      PROVE  /\ excuse[j] \subseteq excuse'[j]
             /\ \/ mock'[j] = mock[j] /\ evolt'[j] = evolt[j]
                \/ "overlap" \in excuse[j]
  BY <1>1 DEF Moves, Works, BoardInv, Overlaps
<1> QED
  BY <1>2, StandsStill DEF Moves, Works, PairTypes

\* A call keeps the invariant if it keeps its own part of it.
LEMMA CallKeeps ==
  ASSUME BoardInv, NEW q \in Procs, NEW S \in SUBSET scope[q], Moves(S), Works(q),
         pc[q] \in {"outbound", "reset", "clear"} => Partner(q) \in S,
         Shape(q)', Wiped(q)', Swept(q)', Rotating(q)',
         \A k \in S : Explained(k)'
  PROVE  BoardInv'
<1>1. \A r \in Procs : Shape(r)' /\ Wiped(r)' /\ Swept(r)' /\ Rotating(r)'
  BY OthersKeep
<1>2. Overlaps'
  <2> SUFFICES ASSUME NEW p \in Procs, NEW r \in Procs, p # r,
                      NEW k \in scope'[p] \cap scope'[r]
               PROVE  "overlap" \in excuse'[k]
    BY DEF Overlaps
  <2>1. k \in scope[p] \cap scope[r] /\ k \in Partners
    BY DEF Works, BoardInv, RequestTypes
  <2> QED
    BY <2>1 DEF Works, BoardInv, Overlaps
<1>3. ASSUME NEW k \in Partners \ S PROVE Explained(k)'
  <2>1. (Agree(k)' <=> Agree(k)) /\ excuse[k] \subseteq excuse'[k]
    BY DEF Moves, Works, Agree
  <2>2. ASSUME NEW r \in Procs, pc[r] \in {"outbound", "reset", "clear"}, Partner(r) = k
        PROVE  pc'[r] = pc[r] /\ Partner(r)' = k
    <3>1. r # q
      BY <2>2, <1>3
    <3> QED
      BY <2>2, <3>1 DEF Works, Partner
  <2> QED
    BY <2>1, <2>2 DEF BoardInv, Explained
<1> QED
  BY <1>1, <1>2, <1>3 DEF BoardInv, Moves, Works

-----------------------------------------------------------------------------
(* Answers. *)

LEMMA ReturnWorks ==
  ASSUME RequestTypes, NEW q \in Procs, Return(q), UNCHANGED started,
         excuse' \in [Partners -> SUBSET Excuses],
         \A j \in Partners : excuse[j] \subseteq excuse'[j]
  PROVE  /\ Works(q)
         /\ pc'[q] = "idle" /\ todo'[q] = <<>> /\ scope'[q] = {} /\ blamed'[q] = {}
         /\ views'[q] = NoViews
  BY DEF RequestTypes, Return, Goto, Works, NoViews, NoPair, Views, Labels, Elsewhere

LEMMA IdleKeeps ==
  ASSUME NEW q, pc'[q] = "idle", todo'[q] = <<>>, scope'[q] = {}, blamed'[q] = {},
         views'[q] = NoViews
  PROVE  Shape(q)' /\ Wiped(q)' /\ Swept(q)' /\ Rotating(q)'
  BY DEF Shape, Wiped, Swept, Rotating, Todo, Calls, Rotation, Sweep

LEMMA ErrorKeeps ==
  ASSUME BoardInv, NEW q \in Procs, pc[q] \in Calls, AnswerError(q), UNCHANGED started,
         Moves({Partner(q)})
  PROVE  BoardInv'
<1>1. Partner(q) \in Partners /\ Partner(q) \in scope[q] /\ RequestTypes
  BY PartnerInScope DEF BoardInv, Shape
<1>2. /\ excuse' \in [Partners -> SUBSET Excuses] /\ "told" \in excuse'[Partner(q)]
      /\ \A j \in Partners : excuse[j] \subseteq excuse'[j]
  BY <1>1 DEF AnswerError, Excuse, RequestTypes, Excuses
<1> QED
  BY <1>1, <1>2, ReturnWorks, IdleKeeps, CallKeeps DEF AnswerError, Explained

\* An answer that says ok where both sides agree.
LEMMA OKKeeps ==
  ASSUME BoardInv, NEW q \in Procs, pc[q] \in Calls, AnswerOK(q), UNCHANGED started,
         Moves({Partner(q)}),
         mock'[Partner(q)] = evolt'[Partner(q)], outbound'[Partner(q)] = evolt'[Partner(q)]
  PROVE  BoardInv'
<1>1. Partner(q) \in Partners /\ Partner(q) \in scope[q] /\ RequestTypes
  BY PartnerInScope DEF BoardInv, Shape
<1>2. /\ excuse' \in [Partners -> SUBSET Excuses]
      /\ \A j \in Partners : excuse[j] \subseteq excuse'[j]
  BY <1>1 DEF AnswerOK, RequestTypes
<1> QED
  BY <1>1, <1>2, ReturnWorks, IdleKeeps, CallKeeps DEF AnswerOK, Explained, Agree

-----------------------------------------------------------------------------
(* The calls. *)

LEMMA HandshakeKeeps ==
  ASSUME BoardInv, NEW q \in Procs, MockHandshake(q) PROVE BoardInv'
<1> DEFINE k == Partner(q)
<1>1. pc[q] \in Calls /\ UNCHANGED started /\ k \in Partners /\ PairTypes
  BY PartnerInScope DEF MockHandshake, At, Calls, BoardInv, Shape
<1>2. BothTake(k) => mock'[k] = evolt'[k] /\ outbound'[k] = evolt'[k]
  BY <1>1, BothAgree DEF Agree
<1>3. Moves({k})
  BY <1>1, TakeMoves DEF MockHandshake
<1> QED
  BY <1>1, <1>2, <1>3, ErrorKeeps, OKKeeps DEF MockHandshake

LEMMA OutboundKeeps ==
  ASSUME BoardInv, NEW q \in Procs, PartnerOutbound(q) PROVE BoardInv'
<1> DEFINE k == Partner(q)
<1>1. pc[q] \in Calls /\ UNCHANGED started /\ k \in Partners /\ PairTypes
  BY PartnerInScope DEF PartnerOutbound, At, Calls, BoardInv, Shape
<1>2. BothTake(k) => mock'[k] = evolt'[k] /\ outbound'[k] = evolt'[k]
  BY <1>1, BothAgree DEF Agree
<1>3. Moves({k})
  BY <1>1, TakeMoves DEF PartnerOutbound
<1> QED
  BY <1>1, <1>2, <1>3, ErrorKeeps, OKKeeps DEF PartnerOutbound

\* A call that goes on: what the request keeps, from what it does to its locals.
LEMMA GoOnWorks ==
  ASSUME RequestTypes, NEW q \in Procs, NEW label \in Labels, Goto(q, label),
         UNCHANGED <<started, todo, scope, blamed, excuse>>,
         given' \in [Procs -> Nat], party' \in [Procs -> BOOLEAN],
         views' \in [Procs -> Views],
         \A r \in Procs \ {q} : views'[r] = views[r]
  PROVE  /\ Works(q)
         /\ pc'[q] = label /\ todo'[q] = todo[q] /\ Todo(q)' = Todo(q)
         /\ Partner(q)' = Partner(q) /\ scope'[q] = scope[q] /\ blamed'[q] = blamed[q]
  BY DEF RequestTypes, Goto, Works, Todo, Partner

LEMMA TokensKeeps ==
  ASSUME BoardInv, NEW q \in Procs, MockTokens(q) PROVE BoardInv'
<1> DEFINE k == Partner(q)
<1>1. /\ pc[q] = "tokens" /\ pc[q] \in Calls /\ UNCHANGED started
      /\ PairTypes /\ RequestTypes /\ Shape(q) /\ todo[q] # <<>>
  BY DEF MockTokens, At, Calls, BoardInv, Shape
<1>2. k \in Partners /\ k \in scope[q]
  BY <1>1, PartnerInScope
<1>3. Moves({k})
  BY <1>2, <1>1, TakeMoves DEF MockTokens
<1>4. CASE AnswerError(q)
  BY <1>1, <1>3, <1>4, ErrorKeeps
<1>5. CASE /\ Goto(q, "outbound")
           /\ given' = [given EXCEPT ![q] = fresh]
           /\ UNCHANGED <<todo, party, views, history>>
  <2>1. /\ Works(q) /\ pc'[q] = "outbound" /\ todo'[q] = todo[q] /\ Todo(q)' = Todo(q)
        /\ Partner(q)' = k /\ scope'[q] = scope[q] /\ blamed'[q] = blamed[q]
        /\ views'[q] = views[q]
    BY <1>1, <1>5, GoOnWorks DEF PairTypes, RequestTypes, history, Labels, Calls
  <2>2. Shape(q)' /\ Wiped(q)' /\ Swept(q)' /\ Rotating(q)'
    BY <1>1, <2>1 DEF Shape, Wiped, Swept, Rotating, Calls, Rotation, Sweep, Elsewhere
  <2>3. Explained(k)'
    BY <2>1 DEF Explained
  <2> QED
    BY <1>1, <1>2, <1>3, <2>1, <2>2, <2>3, CallKeeps
<1> QED
  BY <1>4, <1>5 DEF MockTokens

LEMMA StillMoves == ASSUME PairTypes, UNCHANGED pairs PROVE Moves({})
  BY DEF PairTypes, Moves, pairs

LEMMA ViewsWith ==
  ASSUME NEW v \in Views, NEW n \in Nat
  PROVE  /\ [v EXCEPT !.before = n] = [before |-> n, after |-> v.after]
         /\ [v EXCEPT !.after = n] = [before |-> v.before, after |-> n]
  BY DEF Views

LEMMA ReadBeforeKeeps ==
  ASSUME BoardInv, NEW q \in Procs, ReadBefore(q) PROVE BoardInv'
<1> DEFINE k == Partner(q)
<1>1. /\ pc[q] = "before" /\ UNCHANGED <<started, pairs, todo, given, party, history>>
      /\ PairTypes /\ RequestTypes /\ Shape(q) /\ todo[q] # <<>>
  BY DEF ReadBefore, At, Calls, BoardInv, Shape
<1>2. k \in Partners /\ scope[q] = {k} /\ views[q] = NoViews
  BY <1>1, PartnerInScope DEF Shape, Rotation
<1>3. PICK seen \in PartnerCredential(k) : views' = [views EXCEPT ![q].before = seen]
  BY DEF ReadBefore
<1>4. seen \in 0..fresh - 1 /\ fresh \in Nat
  BY <1>1, <1>2 DEF PartnerCredential, PairTypes, NoPair
<1>5. /\ views' \in [Procs -> Views] /\ views'[q].before = seen
      /\ \A r \in Procs \ {q} : views'[r] = views[r]
  <2>1. views[q] \in Views /\ seen \in Nat /\ views \in [Procs -> Views]
    BY <1>1, <1>4 DEF RequestTypes
  <2>2. views' = [views EXCEPT ![q] = [before |-> seen, after |-> views[q].after]]
    BY <1>3, <2>1, ViewsWith
  <2> QED
    BY <2>1, <2>2 DEF Views
<1>6. /\ Works(q) /\ pc'[q] = "put" /\ todo'[q] = todo[q] /\ Todo(q)' = Todo(q)
      /\ Partner(q)' = k /\ scope'[q] = scope[q] /\ blamed'[q] = blamed[q]
  BY <1>1, <1>5, GoOnWorks DEF ReadBefore, RequestTypes, history, Labels, Calls
<1>7. Shape(q)' /\ Wiped(q)' /\ Swept(q)' /\ Rotating(q)'
  BY <1>1, <1>2, <1>4, <1>5, <1>6
     DEF Shape, Wiped, Swept, Rotating, Calls, Rotation, Sweep, Elsewhere, pairs
<1> QED
  BY <1>1, <1>6, <1>7, StillMoves, CallKeeps

LEMMA PutKeeps ==
  ASSUME BoardInv, NEW q \in Procs, MockPut(q) PROVE BoardInv'
<1> DEFINE k == Partner(q)
<1>1. /\ pc[q] = "put" /\ pc[q] \in Calls /\ UNCHANGED started
      /\ PairTypes /\ RequestTypes /\ Shape(q) /\ Rotating(q) /\ todo[q] # <<>>
  BY DEF MockPut, At, Calls, BoardInv, Shape
<1>2. k \in Partners /\ k \in scope[q] /\ scope[q] = {k}
  BY <1>1, PartnerInScope DEF Shape, Rotation
<1>3. Moves({k})
  BY <1>2, <1>1, TakeMoves DEF MockPut
<1>4. CASE AnswerError(q)
  BY <1>1, <1>3, <1>4, ErrorKeeps
<1>5. CASE BothTake(k) /\ Goto(q, "after") /\ UNCHANGED <<locals, history>>
  <2>1. /\ Works(q) /\ pc'[q] = "after" /\ todo'[q] = todo[q] /\ Todo(q)' = Todo(q)
        /\ Partner(q)' = k /\ scope'[q] = scope[q] /\ blamed'[q] = blamed[q]
        /\ views'[q] = views[q]
    BY <1>1, <1>5, GoOnWorks DEF RequestTypes, locals, history, Labels, Calls
  <2>2. mock'[k] = fresh /\ outbound'[k] = fresh /\ evolt'[k] = fresh
    BY <1>1, <1>2, <1>5, BothAgree
  <2>3. Rotating(q)'
    BY <1>1, <1>2, <1>5, <2>1, <2>2 DEF Rotating, history
  <2>4. Shape(q)' /\ Wiped(q)' /\ Swept(q)'
    BY <1>1, <1>2, <2>1 DEF Shape, Wiped, Swept, Calls, Rotation, Sweep, Elsewhere
  <2>5. Explained(k)'
    BY <2>1, <2>2 DEF Explained, Agree
  <2> QED
    BY <1>1, <1>2, <1>3, <2>1, <2>3, <2>4, <2>5, CallKeeps
<1> QED
  BY <1>4, <1>5 DEF MockPut

LEMMA ReadAfterKeeps ==
  ASSUME BoardInv, NEW q \in Procs, ReadAfter(q) PROVE BoardInv'
<1> DEFINE k == Partner(q)
<1>1. /\ pc[q] = "after" /\ UNCHANGED <<started, pairs, todo, given, party, history>>
      /\ PairTypes /\ RequestTypes /\ Shape(q) /\ Rotating(q) /\ todo[q] # <<>>
  BY DEF ReadAfter, At, Calls, BoardInv, Shape
<1>2. k \in Partners /\ scope[q] = {k}
  BY <1>1, PartnerInScope DEF Shape, Rotation
<1>3. PICK seen \in PartnerCredential(k) : views' = [views EXCEPT ![q].after = seen]
  BY DEF ReadAfter
<1>4. seen \in 0..fresh - 1 /\ fresh \in Nat /\ seen \in {NoPair, evolt[k]}
  BY <1>1, <1>2 DEF PartnerCredential, PairTypes, NoPair
<1>5. /\ views' \in [Procs -> Views] /\ views'[q].after = seen
      /\ views'[q].before = views[q].before
      /\ \A r \in Procs \ {q} : views'[r] = views[r]
  <2>1. views[q] \in Views /\ seen \in Nat /\ views \in [Procs -> Views]
    BY <1>1, <1>4 DEF RequestTypes
  <2>2. views' = [views EXCEPT ![q] = [before |-> views[q].before, after |-> seen]]
    BY <1>3, <2>1, ViewsWith
  <2> QED
    BY <2>1, <2>2 DEF Views
<1>6. /\ Works(q) /\ pc'[q] = "show" /\ todo'[q] = todo[q] /\ Todo(q)' = Todo(q)
      /\ Partner(q)' = k /\ scope'[q] = scope[q] /\ blamed'[q] = blamed[q]
  BY <1>1, <1>5, GoOnWorks DEF ReadAfter, RequestTypes, history, Labels
<1>7. Rotating(q)'
  BY <1>1, <1>2, <1>4, <1>5, <1>6 DEF Rotating, pairs, history
<1>8. Shape(q)' /\ Wiped(q)' /\ Swept(q)'
  BY <1>1, <1>2, <1>5, <1>6 DEF Shape, Wiped, Swept, Calls, Rotation, Sweep, Elsewhere
<1> QED
  BY <1>1, <1>6, <1>7, <1>8, StillMoves, CallKeeps

LEMMA DeleteKeeps ==
  ASSUME BoardInv, NEW q \in Procs, MockDelete(q) PROVE BoardInv'
<1> DEFINE k == Partner(q)
<1>1. pc[q] \in Calls /\ UNCHANGED started /\ k \in Partners /\ PairTypes
  BY PartnerInScope DEF MockDelete, At, Calls, BoardInv, Shape
<1>2. CASE UNCHANGED pairs /\ AnswerError(q)
  BY <1>1, <1>2, TakeMoves, ErrorKeeps
<1>3. CASE EvoltHolds(k, NoPair) /\ MockHolds(k, NoPair) /\ UNCHANGED <<token, fresh>>
  <2>1. Moves({k})
    BY <1>1, <1>3 DEF PairTypes, Moves, EvoltHolds, MockHolds, NoPair
  <2>2. mock'[k] = evolt'[k] /\ outbound'[k] = evolt'[k]
    BY <1>1, <1>3 DEF PairTypes, EvoltHolds, MockHolds
  <2> QED
    BY <1>1, <1>3, <2>1, <2>2, ErrorKeeps, OKKeeps DEF MockDelete
<1>4. CASE EvoltHolds(k, NoPair) /\ UNCHANGED <<mock, outbound, token, fresh>> /\ AnswerError(q)
  <2>1. Moves({k})
    BY <1>1, <1>4 DEF PairTypes, Moves, EvoltHolds, NoPair
  <2> QED
    BY <1>1, <1>4, <2>1, ErrorKeeps
<1> QED
  BY <1>2, <1>3, <1>4 DEF MockDelete

-----------------------------------------------------------------------------
(* Sweeps: one partner after another. *)

LEMMA TailElements ==
  ASSUME NEW T, NEW s \in Seq(T), s # <<>>
  PROVE  /\ Tail(s) \in Seq(T) /\ (Len(s) = 1 <=> Tail(s) = <<>>)
         /\ {s[i] : i \in DOMAIN s} = {Head(s)} \cup {Tail(s)[i] : i \in DOMAIN Tail(s)}
<1>1. Len(s) \in Nat /\ Len(s) >= 1 /\ DOMAIN s = 1..Len(s)
  OBVIOUS
<1>2. /\ Tail(s) \in Seq(T) /\ Len(Tail(s)) = Len(s) - 1
      /\ DOMAIN Tail(s) = 1..(Len(s) - 1)
      /\ \A i \in 1..(Len(s) - 1) : Tail(s)[i] = s[i + 1]
  BY <1>1
<1>3. Len(s) = 1 <=> Tail(s) = <<>>
  <2>1. Tail(s) = <<>> <=> Len(Tail(s)) = 0
    BY <1>2, EmptySeq
  <2> QED
    BY <1>1, <1>2, <2>1
<1>4. ASSUME NEW i \in DOMAIN s PROVE s[i] = Head(s) \/ \E j \in DOMAIN Tail(s) : s[i] = Tail(s)[j]
  <2>1. CASE i = 1
    BY <2>1
  <2>2. CASE i # 1
    <3>1. i - 1 \in 1..(Len(s) - 1) /\ (i - 1) + 1 = i
      BY <1>1, <2>2
    <3> QED
      BY <1>2, <3>1
  <2> QED
    BY <2>1, <2>2
<1>5. ASSUME NEW j \in DOMAIN Tail(s) PROVE \E i \in DOMAIN s : Tail(s)[j] = s[i]
  <2>1. j + 1 \in DOMAIN s
    BY <1>1, <1>2
  <2> QED
    BY <1>2, <2>1
<1>6. Head(s) = s[1] /\ 1 \in DOMAIN s
  BY <1>1
<1> DEFINE R == {Tail(s)[j] : j \in DOMAIN Tail(s)}
           A == {s[i] : i \in DOMAIN s}
<1>7. A \subseteq {Head(s)} \cup R
  <2> SUFFICES ASSUME NEW i \in DOMAIN s PROVE s[i] \in {Head(s)} \cup R
    OBVIOUS
  <2> QED
    BY <1>4
<1>8. R \subseteq A
  <2> SUFFICES ASSUME NEW j \in DOMAIN Tail(s) PROVE Tail(s)[j] \in A
    OBVIOUS
  <2> QED
    BY <1>5
<1>9. Head(s) \in A
  BY <1>6
<1> QED
  BY <1>2, <1>3, <1>7, <1>8, <1>9

\* A sweep goes on to its next partner when it has cleared this one, or reports it.
LEMMA NextKeeps ==
  ASSUME BoardInv, NEW q \in Procs, NEW k \in Partners, k = Partner(q),
         pc[q] \in Sweep, NextPartner(q), UNCHANGED started, Moves({k}),
         party' \in [Procs -> BOOLEAN],
         excuse' \in [Partners -> SUBSET Excuses],
         \A j \in Partners : excuse[j] \subseteq excuse'[j],
         \/ UNCHANGED blamed /\ Cleared(k)'
         \/ blamed' = [blamed EXCEPT ![q] = @ \cup {k}],
         Agree(k)' \/ excuse'[k] # {}
  PROVE  BoardInv'
<1>1. RequestTypes /\ Shape(q) /\ Swept(q) /\ todo[q] # <<>> /\ todo[q] \in Seq(Partners)
      /\ pc[q] \in Calls /\ views[q] = NoViews
  BY DEF BoardInv, Shape, Sweep, Calls, RequestTypes
<1>2. k \in scope[q] /\ scope[q] \subseteq Partners
  BY <1>1, PartnerInScope DEF RequestTypes
<1>3. /\ todo' = [todo EXCEPT ![q] = Tail(todo[q])]
      /\ pc' = [pc EXCEPT ![q] = IF Len(todo[q]) = 1 THEN "show" ELSE "wipe"]
      /\ UNCHANGED <<given, views, scope>>
  BY DEF NextPartner, Goto
<1>4. /\ Tail(todo[q]) \in Seq(Partners) /\ todo'[q] = Tail(todo[q])
      /\ pc'[q] = IF todo'[q] = <<>> THEN "show" ELSE "wipe"
      /\ Todo(q) = {k} \cup Todo(q)'
  <2>1. todo'[q] = Tail(todo[q])
    BY <1>1, <1>3 DEF RequestTypes
  <2>2. /\ Tail(todo[q]) \in Seq(Partners) /\ (Len(todo[q]) = 1 <=> Tail(todo[q]) = <<>>)
        /\ Todo(q) = {Partner(q)} \cup {Tail(todo[q])[i] : i \in DOMAIN Tail(todo[q])}
    BY <1>1, TailElements DEF Todo, Partner
  <2>3. pc'[q] = IF Len(todo[q]) = 1 THEN "show" ELSE "wipe"
    BY <1>3 DEF BoardInv, RequestTypes
  <2>4. Todo(q)' = {Tail(todo[q])[i] : i \in DOMAIN Tail(todo[q])}
    BY <2>1 DEF Todo
  <2> QED
    BY <2>1, <2>2, <2>3, <2>4
<1>5. Works(q)
  <2>1. todo' \in [Procs -> Seq(Partners)] /\ pc' \in [Procs -> Labels]
    BY <1>1, <1>3, <1>4 DEF RequestTypes, Labels, Calls
  <2>2. blamed' \in [Procs -> SUBSET Partners]
    <3>1. blamed \in [Procs -> SUBSET Partners] /\ blamed[q] \cup {k} \in SUBSET Partners
      BY <1>1 DEF RequestTypes
    <3>2. CASE UNCHANGED blamed
      BY <3>1, <3>2
    <3>3. CASE blamed' = [blamed EXCEPT ![q] = @ \cup {k}]
      BY <3>1, <3>3
    <3> QED
      BY <3>2, <3>3
  <2>3. RequestTypes'
    BY <1>1, <1>3, <2>1, <2>2 DEF RequestTypes
  <2> QED
    BY <1>1, <1>3, <2>3 DEF Works, RequestTypes
<1>6. /\ blamed[q] \subseteq blamed'[q] /\ blamed'[q] \subseteq scope[q]
      /\ k \in blamed'[q] \/ Cleared(k)'
  BY <1>1, <1>2 DEF RequestTypes, Shape
<1>7. Swept(q)'
  <2> SUFFICES ASSUME NEW j \in scope[q] \ (blamed'[q] \cup Todo(q)') PROVE Cleared(j)'
    BY <1>3 DEF Swept
  <2>1. CASE j = k
    BY <1>6, <2>1
  <2>2. CASE j # k
    <3>1. Cleared(j) /\ j \in Partners
      BY <1>1, <1>2, <1>4, <1>6, <2>2 DEF Swept
    <3> QED
      BY <2>2, <3>1 DEF Cleared, Moves
  <2> QED
    BY <2>1, <2>2
<1>8. Shape(q)' /\ Wiped(q)' /\ Rotating(q)'
  BY <1>1, <1>3, <1>4, <1>6
     DEF Shape, Wiped, Rotating, Calls, Rotation, Elsewhere
<1>9. Explained(k)'
  BY DEF Explained
<1> QED
  BY <1>2, <1>5, <1>7, <1>8, <1>9, CallKeeps

LEMMA ReportGrows ==
  ASSUME RequestTypes, NEW q \in Procs, NEW k \in Partners, k = Partner(q), Report(q)
  PROVE  /\ blamed' = [blamed EXCEPT ![q] = @ \cup {k}]
         /\ excuse' \in [Partners -> SUBSET Excuses]
         /\ \A j \in Partners : excuse[j] \subseteq excuse'[j]
         /\ excuse'[k] # {}
  BY DEF RequestTypes, Report, Excuse, Excuses

LEMMA UnregisterFailsKeeps ==
  ASSUME BoardInv, NEW q \in Procs, pc[q] \in Sweep, UNCHANGED started,
         Moves({Partner(q)}), UnregisterFails(q)
  PROVE  BoardInv'
<1> DEFINE k == Partner(q)
<1>1. RequestTypes /\ k \in Partners /\ pc[q] \in Calls
  BY PartnerInScope DEF BoardInv, Shape, Sweep, Calls
<1>2. CASE AnswerError(q)
  BY <1>1, <1>2, ErrorKeeps
<1>3. CASE NextPartner(q) /\ Report(q) /\ UNCHANGED party
  BY <1>1, <1>3, ReportGrows, NextKeeps DEF RequestTypes
<1> QED
  BY <1>2, <1>3 DEF UnregisterFails

LEMMA WipeKeeps ==
  ASSUME BoardInv, NEW q \in Procs, MockWipe(q) PROVE BoardInv'
<1> SUFFICES ASSUME NEW k, k = Partner(q) PROVE BoardInv'
  OBVIOUS
<1>1. /\ pc[q] = "wipe" /\ pc[q] \in Sweep /\ UNCHANGED started
      /\ PairTypes /\ RequestTypes /\ Shape(q) /\ Swept(q) /\ todo[q] # <<>>
  BY DEF MockWipe, At, Calls, Sweep, BoardInv, Shape
<1>2. k \in Partners /\ k \in scope[q] /\ k \in Todo(q) /\ scope[q] \subseteq Partners
  BY <1>1, PartnerInScope DEF RequestTypes
<1> DEFINE wiped == /\ MockHolds(k, NoPair)
                    /\ token' = [token EXCEPT ![k] = NoPair]
                    /\ UNCHANGED <<evolt, fresh>>
<1>3. wiped => Moves({k}) /\ mock'[k] = NoPair
  BY <1>1, <1>2 DEF PairTypes, Moves, MockHolds, NoPair
<1>4. UNCHANGED pairs => Moves({k})
  BY <1>1, <1>2, TakeMoves
<1>5. CASE (wiped \/ UNCHANGED pairs) /\ UnregisterFails(q)
  BY <1>1, <1>3, <1>4, <1>5, UnregisterFailsKeeps
<1>6. CASE /\ wiped /\ Goto(q, "reset")
           /\ \E read \in BOOLEAN : party' = [party EXCEPT ![q] = read]
           /\ UNCHANGED <<todo, given, views, history>>
  <2>1. party' \in [Procs -> BOOLEAN]
    BY <1>1, <1>6 DEF RequestTypes
  <2>2. /\ Works(q) /\ pc'[q] = "reset" /\ todo'[q] = todo[q] /\ Todo(q)' = Todo(q)
        /\ Partner(q)' = k /\ scope'[q] = scope[q] /\ blamed'[q] = blamed[q]
        /\ views'[q] = views[q]
    BY <1>1, <1>6, <2>1, GoOnWorks DEF RequestTypes, history, Labels, Calls
  <2>3. Swept(q)'
    <3> SUFFICES ASSUME NEW j \in scope[q] \ (blamed[q] \cup Todo(q)) PROVE Cleared(j)'
      BY <2>2 DEF Swept
    <3>1. Cleared(j) /\ j \in Partners \ {k}
      BY <1>1, <1>2 DEF Swept
    <3> QED
      BY <1>3, <1>6, <2>2, <3>1 DEF Cleared, Moves, Works
  <2>4. Shape(q)' /\ Rotating(q)'
    BY <1>1, <1>2, <2>2 DEF Shape, Rotating, Calls, Rotation, Elsewhere
  <2>5. Wiped(q)' /\ Explained(k)'
    BY <1>3, <1>6, <2>2 DEF Wiped, Explained
  <2> QED
    BY <1>1, <1>2, <1>3, <1>6, <2>2, <2>3, <2>4, <2>5, CallKeeps
<1> QED
  BY <1>5, <1>6 DEF MockWipe

LEMMA ResetKeeps ==
  ASSUME BoardInv, NEW q \in Procs, MockReset(q) PROVE BoardInv'
<1> SUFFICES ASSUME NEW k, k = Partner(q) PROVE BoardInv'
  OBVIOUS
<1>1. /\ pc[q] = "reset" /\ pc[q] \in Sweep /\ UNCHANGED started /\ UNCHANGED pairs
      /\ PairTypes /\ RequestTypes /\ Shape(q) /\ Swept(q) /\ Wiped(q) /\ todo[q] # <<>>
  BY DEF MockReset, At, Calls, Sweep, BoardInv, Shape
<1>2. k \in Partners /\ k \in scope[q] /\ Moves({k})
  BY <1>1, PartnerInScope, TakeMoves
<1>3. CASE UnregisterFails(q)
  BY <1>1, <1>2, <1>3, UnregisterFailsKeeps
<1>4. CASE Goto(q, "clear") /\ UNCHANGED <<locals, history>>
  <2>1. /\ Works(q) /\ pc'[q] = "clear" /\ todo'[q] = todo[q] /\ Todo(q)' = Todo(q)
        /\ Partner(q)' = k /\ scope'[q] = scope[q] /\ blamed'[q] = blamed[q]
        /\ views'[q] = views[q]
    BY <1>1, <1>4, GoOnWorks DEF RequestTypes, locals, history, Labels, Calls
  <2>2. Shape(q)' /\ Rotating(q)'
    BY <1>1, <2>1 DEF Shape, Rotating, Calls, Rotation, Elsewhere
  <2>3. Swept(q)' /\ Wiped(q)'
    BY <1>1, <1>4, <2>1 DEF Swept, Wiped, Cleared, Sweep, pairs, history
  <2>4. Explained(k)'
    BY <2>1 DEF Explained
  <2> QED
    BY <1>1, <1>2, <2>1, <2>2, <2>3, <2>4, CallKeeps
<1> QED
  BY <1>3, <1>4 DEF MockReset

LEMMA ClearKeeps ==
  ASSUME BoardInv, NEW q \in Procs, ClearEvolt(q) PROVE BoardInv'
<1> SUFFICES ASSUME NEW k, k = Partner(q) PROVE BoardInv'
  OBVIOUS
<1>1. /\ pc[q] = "clear" /\ pc[q] \in Sweep /\ UNCHANGED started /\ NextPartner(q)
      /\ PairTypes /\ RequestTypes /\ Shape(q) /\ Wiped(q) /\ todo[q] # <<>>
  BY DEF ClearEvolt, At, Calls, Sweep, BoardInv, Shape
<1>2. k \in Partners /\ party' \in [Procs -> BOOLEAN] /\ excuse \in [Partners -> SUBSET Excuses]
  BY <1>1, PartnerInScope DEF ClearEvolt, RequestTypes
<1>3. CASE /\ EvoltHolds(k, NoPair) \/ UNCHANGED evolt
           /\ Report(q) /\ UNCHANGED <<mock, outbound, token, fresh>>
  <2>1. ASSUME UNCHANGED evolt PROVE Moves({k})
    BY <1>1, <1>2, <1>3, <2>1, TakeMoves DEF pairs
  <2>2. ASSUME EvoltHolds(k, NoPair) PROVE Moves({k})
    BY <1>1, <1>2, <1>3, <2>2 DEF PairTypes, Moves, EvoltHolds, NoPair
  <2>3. Moves({k})
    BY <1>3, <2>1, <2>2
  <2> QED
    BY <1>1, <1>2, <1>3, <2>3, ReportGrows, NextKeeps
<1>4. CASE EvoltHolds(k, NoPair) /\ UNCHANGED <<mock, outbound, token, fresh, excuse, blamed>>
  <2>1. Moves({k}) /\ evolt'[k] = NoPair
    BY <1>1, <1>2, <1>4 DEF PairTypes, Moves, EvoltHolds, NoPair
  <2>2. mock'[k] = NoPair \/ "overlap" \in excuse'[k]
    BY <1>1, <1>4 DEF Wiped
  <2>3. Cleared(k)' /\ (Agree(k)' \/ excuse'[k] # {})
    BY <1>2, <2>1, <2>2 DEF Cleared, Agree, Moves, PairTypes
  <2> QED
    BY <1>1, <1>2, <1>4, <2>1, <2>3, NextKeeps
<1>5. CASE Excuse(k, "untold") /\ UNCHANGED <<pairs, blamed>>
  <2>1. /\ excuse' \in [Partners -> SUBSET Excuses] /\ "untold" \in excuse'[k]
        /\ \A j \in Partners : excuse[j] \subseteq excuse'[j]
    BY <1>2, <1>5 DEF Excuse, Excuses
  <2>2. Cleared(k)' /\ excuse'[k] # {}
    BY <2>1 DEF Cleared
  <2> QED
    BY <1>1, <1>2, <1>5, <2>1, <2>2, TakeMoves, NextKeeps
<1> QED
  BY <1>3, <1>4, <1>5 DEF ClearEvolt

LEMMA ShowKeeps ==
  ASSUME BoardInv, NEW q \in Procs, Show(q) PROVE BoardInv'
<1>1. /\ pc[q] = "show" /\ UNCHANGED <<started, pairs, excuse>> /\ Return(q)
      /\ RequestTypes /\ PairTypes
  BY DEF Show, At, AnswerOK, BoardInv
<1>2. excuse' \in [Partners -> SUBSET Excuses] /\ \A j \in Partners : excuse[j] \subseteq excuse'[j]
  BY <1>1 DEF RequestTypes
<1> QED
  BY <1>1, <1>2, ReturnWorks, IdleKeeps, StillMoves, CallKeeps

LEMMA CallKeepsBoard ==
  ASSUME BoardInv, NEW q \in Procs, Call(q) PROVE BoardInv'
  BY HandshakeKeeps, TokensKeeps, OutboundKeeps, ReadBeforeKeeps, PutKeeps, ReadAfterKeeps,
     DeleteKeeps, WipeKeeps, ResetKeeps, ClearKeeps, ShowKeeps DEF Call

-----------------------------------------------------------------------------
(* A request begins, and the steps that leave the board alone. *)

LEMMA BeginKeeps ==
  ASSUME BoardInv, NEW q \in Procs, NEW list \in Seq(Partners), list # <<>>,
         NEW label \in {"handshake", "tokens", "before", "drop", "wipe"},
         label = "before" => \A i \in DOMAIN list : list[i] = Head(list),
         Begin(q, list, label)
  PROVE  BoardInv'
<1> DEFINE S == {list[i] : i \in DOMAIN list}
<1>1. /\ pc[q] = "idle" /\ started' = started + 1 /\ started < MaxRequests
      /\ pc' = [pc EXCEPT ![q] = label] /\ todo' = [todo EXCEPT ![q] = list]
      /\ scope' = [scope EXCEPT ![q] = S]
      /\ UNCHANGED <<pairs, given, party, views, blamed>>
      /\ PairTypes /\ RequestTypes /\ Shape(q)
  BY DEF Begin, Start, BoardInv
<1>2. excuse' = [k \in Partners |->
       IF k \notin S THEN excuse[k]
       ELSE IF \E r \in Procs : k \in scope[r] THEN excuse[k] \cup {"overlap"}
       ELSE IF Agree(k) THEN {} ELSE excuse[k]]
  BY DEF Begin
<1>3. S \subseteq Partners /\ Head(list) \in S
  <2>1. 1 \in DOMAIN list /\ Head(list) = list[1]
    OBVIOUS
  <2>2. \A i \in DOMAIN list : list[i] \in Partners
    OBVIOUS
  <2> QED
    BY <2>1, <2>2
<1>4. /\ scope[q] = {} /\ blamed[q] = {} /\ views[q] = NoViews
      /\ pc'[q] = label /\ todo'[q] = list /\ scope'[q] = S
      /\ \A r \in Procs \ {q} : pc'[r] = pc[r] /\ todo'[r] = todo[r] /\ scope'[r] = scope[r]
  BY <1>1 DEF RequestTypes, Shape, Elsewhere
<1>5. ASSUME NEW r \in Procs, NEW k \in scope[r]
      PROVE  /\ k \in Partners /\ excuse[k] \subseteq excuse'[k]
             /\ k \in S => "overlap" \in excuse'[k]
  <2>1. k \in Partners
    BY <1>1 DEF RequestTypes
  <2> QED
    BY <1>2, <2>1
<1>6. RequestTypes'
  <2>1. started' \in 0..MaxRequests
    BY <1>1, BoardAssumption DEF RequestTypes
  <2>2. pc' \in [Procs -> Labels] /\ todo' \in [Procs -> Seq(Partners)]
    BY <1>1 DEF RequestTypes, Labels, Calls
  <2>3. scope' \in [Procs -> SUBSET Partners]
    BY <1>1, <1>3 DEF RequestTypes
  <2>4. excuse' \in [Partners -> SUBSET Excuses]
    <3>1. ASSUME NEW k \in Partners PROVE excuse[k] \subseteq Excuses
      BY <1>1 DEF RequestTypes
    <3> QED
      BY <1>2, <3>1 DEF Excuses
  <2> QED
    BY <1>1, <2>1, <2>2, <2>3, <2>4 DEF RequestTypes
<1>7. Overlaps'
  <2> SUFFICES ASSUME NEW p \in Procs, NEW r \in Procs, p # r,
                      NEW k \in scope'[p] \cap scope'[r]
               PROVE  "overlap" \in excuse'[k]
    BY DEF Overlaps
  <2>1. CASE p = q
    BY <1>4, <1>5, <2>1
  <2>2. CASE r = q
    BY <1>4, <1>5, <2>2
  <2>3. CASE p # q /\ r # q
    BY <1>4, <1>5, <2>3 DEF BoardInv, Overlaps
  <2> QED
    BY <2>1, <2>2, <2>3
<1>8. ASSUME NEW k \in Partners PROVE Explained(k)'
  <2>1. Explained(k) /\ (Agree(k)' <=> Agree(k))
    BY <1>1 DEF BoardInv, pairs, Agree
  <2>2. ASSUME NEW r \in Procs, pc[r] \in {"outbound", "reset", "clear"}, Partner(r) = k
        PROVE  pc'[r] = pc[r] /\ Partner(r)' = k /\ k \in scope[r]
    <3>1. Shape(r) /\ todo[r] # <<>> /\ r # q
      BY <1>1, <2>2 DEF BoardInv, Shape, Calls
    <3> QED
      BY <1>1, <1>4, <2>2, <3>1, PartnerInScope DEF Partner
  <2>3. CASE \E r \in Procs : pc[r] \in {"outbound", "reset", "clear"} /\ Partner(r) = k
    BY <2>2, <2>3 DEF Explained
  <2>4. CASE Agree(k)
    BY <2>1, <2>4 DEF Explained
  <2>5. CASE excuse[k] # {} /\ ~Agree(k)
    <3>1. excuse'[k] # {}
      BY <1>2, <2>5
    <3> QED
      BY <3>1 DEF Explained
  <2> QED
    BY <2>1, <2>3, <2>4, <2>5 DEF Explained
<1>9. ASSUME NEW r \in Procs PROVE Shape(r)' /\ Wiped(r)' /\ Swept(r)' /\ Rotating(r)'
  <2>1. CASE r = q
    <3>1. Partner(q)' = Head(list) /\ Todo(q)' = S /\ views'[q] = NoViews /\ blamed'[q] = {}
      BY <1>1, <1>4 DEF Partner, Todo
    <3>2. Shape(q)'
      BY <1>3, <1>4, <3>1 DEF Shape, Rotation, Elsewhere
    <3>3. Wiped(q)' /\ Swept(q)' /\ Rotating(q)'
      BY <1>4, <3>1 DEF Wiped, Swept, Rotating
    <3> QED
      BY <2>1, <3>2, <3>3
  <2>2. CASE r # q
    <3>1. fresh' \in Nat /\ fresh <= fresh'
      BY <1>1 DEF PairTypes, pairs
    <3> QED
      BY <1>1, <1>4, <1>5, <2>2, <3>1, StandsStill DEF pairs
  <2> QED
    BY <2>1, <2>2
<1>10. PairTypes'
  BY <1>1 DEF PairTypes, pairs
<1> QED
  BY <1>6, <1>7, <1>8, <1>9, <1>10 DEF BoardInv

LEMMA RequestKeeps ==
  ASSUME BoardInv, NEW q \in Procs, Request(q) PROVE BoardInv'
<1>1. ASSUME NEW label \in {"handshake", "tokens", "before", "drop", "wipe"},
             BeginOne(q, label)
      PROVE  BoardInv'
  <2>1. PICK k \in Partners : Begin(q, <<k>>, label)
    BY <1>1 DEF BeginOne
  <2>2. /\ <<k>> \in Seq(Partners) /\ <<k>> # <<>>
        /\ \A i \in DOMAIN <<k>> : <<k>>[i] = Head(<<k>>)
    OBVIOUS
  <2> QED
    BY <2>1, <2>2, BeginKeeps
<1>2. CASE Begin(q, Rows, "wipe")
  BY <1>2, BoardAssumption, BeginKeeps
<1> QED
  BY <1>1, <1>2 DEF Request, PartnerInitial, PartnerName, CredentialsPut, CredentialsDelete,
     Unregister, FanoutUnregister

\* Requests that are not about a pairing come and go without touching the board.
LEMMA OffBoardKeeps ==
  ASSUME BoardInv, UNCHANGED <<pairs, locals, history>>,
         started' \in 0..MaxRequests, pc' \in [Procs -> Labels],
         \A r \in Procs : pc'[r] = pc[r] \/ {pc[r], pc'[r]} \subseteq Elsewhere
  PROVE  BoardInv'
<1>1. RequestTypes' /\ PairTypes' /\ Overlaps'
  BY DEF BoardInv, RequestTypes, PairTypes, Overlaps, pairs, locals, history
<1>2. ASSUME NEW k \in Partners PROVE Explained(k)'
  <2>1. ASSUME NEW r \in Procs, pc[r] \in {"outbound", "reset", "clear"}
        PROVE  pc'[r] = pc[r] /\ Partner(r)' = Partner(r)
    BY <2>1 DEF Elsewhere, Partner, locals
  <2> QED
    BY <2>1 DEF BoardInv, Explained, Agree, pairs, history
<1>3. ASSUME NEW r \in Procs PROVE Shape(r)' /\ Wiped(r)' /\ Swept(r)' /\ Rotating(r)'
  <2>1. CASE pc'[r] = pc[r]
    <3>1. fresh' \in Nat /\ fresh <= fresh'
      BY DEF BoardInv, PairTypes, pairs
    <3> QED
      BY <2>1, <3>1, StandsStill DEF pairs, locals, history
  <2>2. CASE pc[r] \in Elsewhere /\ pc'[r] \in Elsewhere
    <3>1. Shape(r) /\ scope[r] = {} /\ views[r] = NoViews
      BY <2>2 DEF BoardInv, Shape, Elsewhere
    <3>2. Todo(r)' = Todo(r) /\ UNCHANGED <<scope, views, blamed>>
      BY DEF Todo, locals, history
    <3> QED
      BY <2>2, <3>1, <3>2 DEF Shape, Wiped, Swept, Rotating, Elsewhere, Calls, Rotation, Sweep
  <2> QED
    BY <2>1, <2>2
<1> QED
  BY <1>1, <1>2, <1>3 DEF BoardInv

-----------------------------------------------------------------------------
(* Which steps a call or the beginning of a request takes, and what the other *)
(* parts of the invariant keep in the meantime.                               *)

OnBoard == Calls \cup {"show", "idle"}

LEMMA BoardWalks ==
  ASSUME RequestTypes, NEW q \in Procs, Shape(q), Request(q) \/ Call(q)
  PROVE  /\ \A r \in Procs : pc'[r] = pc[r] \/ {pc[r], pc'[r]} \subseteq OnBoard
         /\ started' \in Nat /\ started <= started'
<1>1. ASSUME NEW label \in OnBoard, pc[q] \in OnBoard, Goto(q, label)
      PROVE  \A r \in Procs : pc'[r] = pc[r] \/ {pc[r], pc'[r]} \subseteq OnBoard
  BY <1>1 DEF Goto, RequestTypes
<1>2. started \in Nat
  BY BoardAssumption DEF RequestTypes
<1>3. CASE Request(q)
  <2>1. PICK label \in {"handshake", "tokens", "before", "drop", "wipe"} : Start(q, label)
    BY <1>3 DEF Request, PartnerInitial, PartnerName, CredentialsPut, CredentialsDelete,
       Unregister, FanoutUnregister, BeginOne, Begin
  <2>2. label \in OnBoard /\ pc[q] \in OnBoard /\ Goto(q, label)
    BY <2>1 DEF OnBoard, Calls, Start, Goto
  <2> QED
    BY <1>1, <1>2, <2>1, <2>2 DEF Start
<1>4. CASE Call(q)
  <2>1. pc[q] \in OnBoard /\ UNCHANGED started
    BY <1>4 DEF Call, MockHandshake, MockTokens, PartnerOutbound, ReadBefore, MockPut, ReadAfter,
       MockDelete, MockWipe, MockReset, ClearEvolt, Show, At, OnBoard, Calls
  <2>2. \E label \in {"idle", "outbound", "put", "after", "show", "reset", "clear", "wipe"} :
          Goto(q, label)
    <3>1. AnswerOK(q) \/ AnswerError(q) => Goto(q, "idle")
      BY DEF AnswerOK, AnswerError, Return
    <3>2. NextPartner(q) => Goto(q, "show") \/ Goto(q, "wipe")
      BY DEF NextPartner
    <3>3. UnregisterFails(q) => Goto(q, "idle") \/ Goto(q, "show") \/ Goto(q, "wipe")
      BY <3>1, <3>2 DEF UnregisterFails
    <3>4. CASE MockHandshake(q) \/ PartnerOutbound(q) \/ MockDelete(q) \/ Show(q)
      BY <3>1, <3>4 DEF MockHandshake, PartnerOutbound, MockDelete, Show
    <3>5. CASE MockTokens(q) \/ ReadBefore(q) \/ MockPut(q) \/ ReadAfter(q)
      BY <3>1, <3>5 DEF MockTokens, ReadBefore, MockPut, ReadAfter
    <3>6. CASE MockWipe(q) \/ MockReset(q) \/ ClearEvolt(q)
      BY <3>2, <3>3, <3>6 DEF MockWipe, MockReset, ClearEvolt
    <3> QED
      BY <1>4, <3>4, <3>5, <3>6 DEF Call
  <2>3. PICK label \in {"idle", "outbound", "put", "after", "show", "reset", "clear", "wipe"} :
          Goto(q, label)
    BY <2>2
  <2>4. label \in OnBoard
    BY DEF OnBoard, Calls
  <2> QED
    BY <1>1, <1>2, <2>1, <2>3, <2>4
<1> QED
  BY <1>3, <1>4

Eventful == {"flip", "produce", "pull"}

\* Steps of other requests, which at most empty a mock.
LEMMA StatusStands ==
  ASSUME StatusInv, started \in Nat, started' \in Nat, started <= started',
         \A r \in Procs : pc'[r] = pc[r] \/ {pc[r], pc'[r]} \cap Eventful = {},
         UNCHANGED <<row, topic, patching, missed, want, pulled>>,
         held' \in [Partners -> Statuses \cup {Absent}],
         \A k \in Partners : held'[k] \in {held[k], Absent}
  PROVE  StatusInv'
<1>1. \A r \in Procs : pc'[r] \in Eventful \/ pc[r] \in Eventful => pc'[r] = pc[r]
  OBVIOUS
<1>2. StatusTypes'
  BY <1>1 DEF StatusInv, StatusTypes, Eventful, NoPull
<1>3. Events'
  <2>1. InEvent' = InEvent
    BY <1>1 DEF InEvent, Eventful
  <2>2. Cardinality(InEvent) \in Nat /\ topic \in Nat
    BY FS_CardinalityType DEF StatusInv, Events, StatusTypes
  <2> QED
    BY <2>1, <2>2 DEF StatusInv, Events
<1>4. ASSUME NEW k \in Partners \ missed' PROVE OnItsWay(k)'
  <2>1. OnItsWay(k)
    BY DEF StatusInv
  <2> QED
    BY <1>1, <2>1 DEF OnItsWay, Eventful
<1> QED
  BY <1>2, <1>3, <1>4 DEF StatusInv

Batched == {"batch", "job", "result"}

\* Runs go on as before, or find less in a mock that was reset.
Dwindles ==
  /\ UNCHANGED <<job, refresh, listed, left, failed, exit>>
  /\ due' \in [Procs -> SUBSET Partners]
  /\ \A r \in Procs : due'[r] \subseteq due[r]

LEMMA EmptiedDwindles ==
  ASSUME BatchTypes, NEW k, NEW jobs, Emptied(k, jobs)
  PROVE  /\ due' \in [Procs -> SUBSET Partners]
         /\ \A r \in Procs : due'[r] \subseteq due[r]
         /\ \A r \in Procs : job[r] \in jobs => k \notin due'[r]
         /\ \A r \in Procs : due[r] \subseteq due'[r] \cup {k}
  BY DEF BatchTypes, Emptied

LEMMA BatchStands ==
  ASSUME BatchInv, Dwindles,
         \A r \in Procs : pc'[r] = pc[r] \/ {pc[r], pc'[r]} \cap Batched = {}
  PROVE  BatchInv'
<1>1. BatchTypes'
  BY DEF BatchInv, BatchTypes, Dwindles
<1>2. ASSUME NEW r \in Procs PROVE Running(r)'
  <2>1. Running(r)
    BY DEF BatchInv
  <2>2. \A label \in Batched : pc'[r] = label <=> pc[r] = label
    OBVIOUS
  <2>3. due'[r] \subseteq due[r] /\ UNCHANGED <<job, refresh, listed, left, failed, exit>>
    BY DEF Dwindles
  <2> QED
    BY <2>1, <2>2, <2>3 DEF Running, Batched
<1> QED
  BY <1>1, <1>2 DEF BatchInv

LEMMA RunsStand == ASSUME BatchInv, UNCHANGED run PROVE Dwindles
  BY DEF BatchInv, BatchTypes, Dwindles, run

\* A step of another request touches no label and no variable of a run.
LEMMA BoardStepKeeps ==
  ASSUME IInv, NEW q \in Procs, BoardStep(q), Dwindles
  PROVE  IInv'
<1>1. RequestTypes /\ Shape(q) /\ started \in Nat
  BY BoardAssumption DEF IInv, BoardInv, RequestTypes
<1>2. /\ \A r \in Procs : pc'[r] = pc[r] \/ {pc[r], pc'[r]} \subseteq OnBoard
      /\ started' \in Nat /\ started <= started'
  BY <1>1, BoardWalks DEF BoardStep
<1>3. OnBoard \cap Eventful = {} /\ OnBoard \cap Batched = {}
  BY DEF OnBoard, Calls, Eventful, Batched
<1>4. BoardInv'
  BY RequestKeeps, CallKeepsBoard DEF IInv, BoardStep
<1>5. StatusInv'
  <2>1. /\ held' \in [Partners -> Statuses \cup {Absent}]
        /\ \A k \in Partners : held'[k] \in {held[k], Absent}
    <3>1. held \in [Partners -> Statuses \cup {Absent}]
      BY DEF IInv, StatusInv, StatusTypes
    <3>2. held' = held \/ held' = [held EXCEPT ![Partner(q)] = Absent]
      BY DEF BoardStep
    <3> QED
      BY <3>1, <3>2
  <2>2. \A r \in Procs : pc'[r] = pc[r] \/ {pc[r], pc'[r]} \cap Eventful = {}
    BY <1>2, <1>3
  <2> QED
    BY <1>1, <1>2, <2>1, <2>2, StatusStands DEF IInv, BoardStep
<1>6. BatchInv'
  <2>1. \A r \in Procs : pc'[r] = pc[r] \/ {pc[r], pc'[r]} \cap Batched = {}
    BY <1>2, <1>3
  <2> QED
    BY <2>1, BatchStands DEF IInv
<1> QED
  BY <1>4, <1>5, <1>6 DEF IInv

-----------------------------------------------------------------------------
(* The steps of the status events. *)

\* A request that is not about a pairing makes its next step.
LEMMA StepKeepsBoard ==
  ASSUME BoardInv, NEW q \in Procs, NEW label \in Elsewhere, pc[q] \in Elsewhere,
         Goto(q, label), UNCHANGED <<pairs, locals, history>>,
         started' \in 0..MaxRequests
  PROVE  /\ BoardInv'
         /\ pc'[q] = label /\ \A r \in Procs \ {q} : pc'[r] = pc[r]
<1>1. /\ pc \in [Procs -> Labels] /\ pc' = [pc EXCEPT ![q] = label] /\ label \in Labels
  BY DEF BoardInv, RequestTypes, Goto, Labels
<1>2. /\ pc' \in [Procs -> Labels] /\ pc'[q] = label
      /\ \A r \in Procs \ {q} : pc'[r] = pc[r]
  BY <1>1
<1> QED
  BY <1>2, OffBoardKeeps

LEMMA StillKeepsBoard ==
  ASSUME BoardInv, UNCHANGED bvars PROVE BoardInv'
  BY OffBoardKeeps DEF BoardInv, RequestTypes, bvars

LEMMA StartKeepsBoard ==
  ASSUME BoardInv, NEW q \in Procs, NEW label \in Elsewhere, Start(q, label),
         UNCHANGED <<pairs, locals, history>>
  PROVE  /\ BoardInv' /\ started \in Nat /\ started' = started + 1 /\ pc[q] = "idle"
         /\ pc'[q] = label /\ \A r \in Procs \ {q} : pc'[r] = pc[r]
<1>1. started \in 0..MaxRequests /\ started' = started + 1 /\ started < MaxRequests
  BY DEF BoardInv, RequestTypes, Start
<1>2. started' \in 0..MaxRequests /\ started \in Nat
  BY <1>1, BoardAssumption
<1> QED
  BY <1>1, <1>2, StepKeepsBoard DEF Start, Goto, Elsewhere

\* How many events are under way, when a request enters one or leaves it.
LEMMA EventEnters ==
  ASSUME Events, topic \in Nat, started \in Nat, started' = started + 1, topic' = topic,
         NEW q \in Procs, InEvent' = InEvent \cup {q}
  PROVE  Events'
<1>1. Cardinality(InEvent) \in Nat /\ IsFiniteSet(InEvent')
      /\ Cardinality(InEvent') \in {Cardinality(InEvent), Cardinality(InEvent) + 1}
  BY FS_CardinalityType, FS_AddElement DEF Events
<1> QED
  BY <1>1 DEF Events

LEMMA EventLeaves ==
  ASSUME Events, topic \in Nat, started \in Nat, started' = started,
         topic' \in {topic, topic + 1},
         NEW q \in InEvent, InEvent' = InEvent \ {q}
  PROVE  Events'
<1>1. Cardinality(InEvent) \in Nat /\ IsFiniteSet(InEvent')
      /\ Cardinality(InEvent') = Cardinality(InEvent) - 1
  BY FS_CardinalityType, FS_RemoveElement DEF Events
<1> QED
  BY <1>1 DEF Events

LEMMA EventStays ==
  ASSUME Events, topic \in Nat, started \in Nat, started' \in Nat, started <= started',
         topic' \in Nat, topic' <= topic, InEvent' = InEvent
  PROVE  Events'
<1>1. Cardinality(InEvent) \in Nat
  BY FS_CardinalityType DEF Events
<1> QED
  BY <1>1 DEF Events

LEMMA EventKeeps ==
  ASSUME IInv, NEW q \in Procs, Event(q) PROVE BoardInv' /\ StatusInv'
<1>1. /\ BoardInv /\ StatusInv /\ StatusTypes /\ Events /\ Start(q, "flip")
      /\ UNCHANGED <<pairs, locals, history, charger, pulled>>
  BY DEF Event, EventCalls, IInv, StatusInv
<1>2. /\ BoardInv' /\ started \in Nat /\ started' = started + 1 /\ pc[q] = "idle"
      /\ pc'[q] = "flip" /\ \A r \in Procs \ {q} : pc'[r] = pc[r]
  BY <1>1, StartKeepsBoard DEF Elsewhere
<1>3. PICK s \in Statuses : want' = [want EXCEPT ![q] = s]
  BY DEF Event
<1>4. StatusTypes'
  BY <1>1, <1>2, <1>3, StatusAssumption DEF StatusTypes, charger
<1>5. Events'
  <2>1. InEvent' = InEvent \cup {q}
    BY <1>2 DEF InEvent
  <2> QED
    BY <1>1, <1>2, <2>1, EventEnters DEF StatusTypes, charger
<1>6. ASSUME NEW k \in Partners \ missed' PROVE OnItsWay(k)'
  <2>1. OnItsWay(k)
    BY <1>1 DEF StatusInv, charger
  <2>2. \A r \in Procs : pc[r] = "produce" => pc'[r] = "produce"
    BY <1>2
  <2> QED
    BY <1>1, <2>1, <2>2 DEF OnItsWay, charger
<1> QED
  BY <1>2, <1>4, <1>5, <1>6 DEF StatusInv

LEMMA FlipKeeps ==
  ASSUME IInv, NEW q \in Procs, Flip(q) PROVE BoardInv' /\ StatusInv'
<1>1. /\ BoardInv /\ StatusInv /\ StatusTypes /\ Events /\ pc[q] = "flip"
      /\ UNCHANGED <<topic, patching, held, pairs, started, locals, history, pulled>>
      /\ started \in Nat /\ started \in 0..MaxRequests
  BY BoardAssumption DEF Flip, Quiet, IInv, StatusInv, BoardInv, RequestTypes
<1>2. want[q] \in Statuses
  BY <1>1, StatusAssumption DEF StatusTypes
<1>3. CASE /\ row' = (IF EvoltDB THEN want[q] ELSE row)
           /\ Goto(q, "produce") /\ UNCHANGED <<want, missed>>
  <2>1. /\ BoardInv' /\ pc'[q] = "produce" /\ \A r \in Procs \ {q} : pc'[r] = pc[r]
    BY <1>1, <1>3, StepKeepsBoard DEF Elsewhere
  <2>2. StatusTypes'
    BY <1>1, <1>2, <1>3, <2>1 DEF StatusTypes
  <2>3. InEvent' = InEvent
    BY <1>1, <2>1 DEF InEvent
  <2>4. Events'
    BY <1>1, <2>3, EventStays DEF StatusTypes
  <2>5. \A k \in Partners : OnItsWay(k)'
    BY <2>1 DEF OnItsWay
  <2> QED
    BY <2>1, <2>2, <2>4, <2>5 DEF StatusInv
<1>4. CASE row' \in {row, want[q]} /\ EventFails(q)
  <2>1. /\ BoardInv' /\ pc'[q] = "idle" /\ \A r \in Procs \ {q} : pc'[r] = pc[r]
    BY <1>1, <1>4, StepKeepsBoard DEF Elsewhere, EventFails
  <2>2. StatusTypes'
    BY <1>1, <1>2, <1>4, <2>1, StatusAssumption DEF StatusTypes, EventFails
  <2>3. q \in InEvent /\ InEvent' = InEvent \ {q}
    BY <1>1, <2>1 DEF InEvent
  <2>4. Events'
    BY <1>1, <2>3, EventLeaves DEF StatusTypes
  <2> QED
    BY <1>4, <2>1, <2>2, <2>4 DEF StatusInv, EventFails
<1> QED
  BY <1>1, <1>3, <1>4 DEF Flip, EventGoesOn, EventCalls

LEMMA ProduceKeeps ==
  ASSUME IInv, NEW q \in Procs, ProduceEvseStatus(q) PROVE BoardInv' /\ StatusInv'
<1>1. /\ BoardInv /\ StatusInv /\ StatusTypes /\ Events /\ pc[q] = "produce"
      /\ UNCHANGED <<row, patching, held, pairs, started, locals, history, pulled>>
      /\ started \in Nat /\ started \in 0..MaxRequests
  BY BoardAssumption DEF ProduceEvseStatus, Quiet, IInv, StatusInv, BoardInv, RequestTypes
<1>2. /\ topic' \in {topic, topic + 1}
      /\ Goto(q, "idle") /\ want' = [want EXCEPT ![q] = Absent]
      /\ (topic' = topic + 1 /\ UNCHANGED missed) \/ missed' = Partners
  BY <1>1 DEF ProduceEvseStatus, EventGoesOn, EventFails, EventCalls
<1>3. /\ BoardInv' /\ pc'[q] = "idle" /\ \A r \in Procs \ {q} : pc'[r] = pc[r]
  BY <1>1, <1>2, StepKeepsBoard DEF Elsewhere
<1>4. StatusTypes'
  BY <1>1, <1>2, <1>3, StatusAssumption DEF StatusTypes
<1>5. Events'
  <2>1. q \in InEvent /\ InEvent' = InEvent \ {q}
    BY <1>1, <1>3 DEF InEvent
  <2> QED
    BY <1>1, <1>2, <2>1, EventLeaves DEF StatusTypes
<1>6. \A k \in Partners \ missed' : OnItsWay(k)'
  <2>1. topic' = topic + 1 => topic' > 0
    BY <1>1 DEF StatusTypes
  <2> QED
    BY <1>2, <2>1 DEF OnItsWay
<1> QED
  BY <1>3, <1>4, <1>5, <1>6 DEF StatusInv

LEMMA ConsumeKeeps ==
  ASSUME IInv, Consume PROVE BoardInv' /\ StatusInv'
<1> DEFINE L == {k \in Partners : evolt[k] # NoPair}
<1>1. /\ BoardInv /\ StatusInv /\ StatusTypes /\ Events
      /\ topic > 0 /\ topic' = topic - 1 /\ patching' = Rest(row, L)
      /\ missed' = missed \cup {k \in Partners : evolt[k] = NoPair}
      /\ UNCHANGED <<bvars, row, held, want, pulled>> /\ started \in Nat
  BY BoardAssumption DEF Consume, IInv, StatusInv, BoardInv, RequestTypes
<1>2. BoardInv' /\ UNCHANGED <<pc, started>>
  BY <1>1, StillKeepsBoard DEF bvars
<1>3. StatusTypes'
  <2>1. topic' \in Nat /\ missed' \subseteq Partners
    BY <1>1 DEF StatusTypes
  <2>2. patching' \in [status: Statuses \cup {Absent}, left: SUBSET Partners]
    BY <1>1 DEF StatusTypes, Rest, Idle
  <2> QED
    BY <1>1, <1>2, <2>1, <2>2 DEF StatusTypes
<1>4. Events'
  BY <1>1, <1>2, <1>3, EventStays DEF StatusTypes, InEvent
<1>5. ASSUME NEW k \in Partners \ missed' PROVE OnItsWay(k)'
  <2>1. k \in L
    BY <1>1
  <2>2. patching' = [status |-> row, left |-> L]
    BY <1>1, <2>1 DEF Rest
  <2> QED
    BY <1>1, <2>1, <2>2 DEF OnItsWay
<1> QED
  BY <1>2, <1>3, <1>4, <1>5 DEF StatusInv

LEMMA PatchKeeps ==
  ASSUME IInv, NEW k \in Partners, Patch(k) PROVE BoardInv' /\ StatusInv'
<1> DEFINE rest == patching.left \ {k}
<1>1. /\ BoardInv /\ StatusInv /\ StatusTypes /\ Events
      /\ patching' = Rest(patching.status, rest)
      /\ UNCHANGED <<bvars, row, topic, want, pulled>> /\ started \in Nat
  BY BoardAssumption DEF Patch, IInv, StatusInv, BoardInv, RequestTypes
<1>2. BoardInv' /\ UNCHANGED <<pc, started>>
  BY <1>1, StillKeepsBoard DEF bvars
<1>3. \/ held' = [held EXCEPT ![k] = patching.status]
         /\ missed' = IF patching.status = row THEN missed \ {k} ELSE missed \cup {k}
      \/ missed' = missed \cup {k} /\ UNCHANGED held
  BY DEF Patch, Holds
<1>4. StatusTypes'
  <2>1. missed' \subseteq Partners /\ held' \in [Partners -> Statuses \cup {Absent}]
    BY <1>1, <1>3 DEF StatusTypes
  <2>2. patching' \in [status: Statuses \cup {Absent}, left: SUBSET Partners]
    BY <1>1 DEF StatusTypes, Rest, Idle
  <2> QED
    BY <1>1, <1>2, <2>1, <2>2 DEF StatusTypes
<1>5. Events'
  BY <1>1, <1>2, EventStays DEF StatusTypes, InEvent
<1>6. ASSUME NEW j \in Partners \ missed' PROVE OnItsWay(j)'
  <2>1. CASE j = k
    <3>1. held'[k] = row
      BY <1>1, <1>3, <2>1 DEF StatusTypes
    <3> QED
      BY <1>1, <2>1, <3>1 DEF OnItsWay
  <2>2. CASE j # k
    <3>1. j \notin missed /\ held'[j] = held[j]
      BY <1>1, <1>3, <2>2 DEF StatusTypes
    <3>2. OnItsWay(j)
      BY <1>1, <3>1 DEF StatusInv
    <3>3. j \in patching.left => patching' = [status |-> patching.status, left |-> rest]
      BY <1>1, <2>2 DEF Rest
    <3> QED
      BY <1>1, <1>2, <2>2, <3>1, <3>2, <3>3 DEF OnItsWay
  <2> QED
    BY <2>1, <2>2
<1> QED
  BY <1>2, <1>4, <1>5, <1>6 DEF StatusInv

-----------------------------------------------------------------------------
(* The steps of a pull. *)

\* A step that leaves the row, the topic and the PATCHes alone.
LEMMA StatusStays ==
  ASSUME StatusInv, started \in Nat, started' \in Nat, started <= started',
         UNCHANGED <<row, topic, patching>>, StatusTypes',
         \A r \in Procs : pc'[r] = pc[r] \/ {pc[r], pc'[r]} \cap {"flip", "produce"} = {},
         \A k \in Partners \ missed' : held'[k] = row \/ (held'[k] = held[k] /\ k \notin missed)
  PROVE  StatusInv'
<1>1. \A r \in Procs : \A label \in {"flip", "produce"} : pc'[r] = label <=> pc[r] = label
  OBVIOUS
<1>2. Events'
  <2>1. InEvent' = InEvent
    BY <1>1 DEF InEvent
  <2> QED
    BY <2>1, EventStays DEF StatusInv, StatusTypes
<1>3. ASSUME NEW k \in Partners \ missed' PROVE OnItsWay(k)'
  <2>1. CASE held'[k] = row
    BY <2>1 DEF OnItsWay
  <2>2. CASE held'[k] = held[k] /\ k \notin missed
    BY <1>1, <2>2 DEF OnItsWay, StatusInv
  <2> QED
    BY <2>1, <2>2
<1> QED
  BY <1>2, <1>3 DEF StatusInv

LEMMA PullKeeps ==
  ASSUME IInv, NEW q \in Procs, Pull(q) PROVE BoardInv' /\ StatusInv'
<1>1. /\ BoardInv /\ StatusInv /\ StatusTypes /\ Start(q, "pull")
      /\ pulled' = [pulled EXCEPT ![q] = [k \in Partners |-> Unasked]]
      /\ UNCHANGED <<pairs, locals, history, row, topic, patching, held, missed, want>>
  BY DEF Pull, IInv, StatusInv, charger
<1>2. /\ BoardInv' /\ started \in Nat /\ started' = started + 1 /\ pc[q] = "idle"
      /\ pc'[q] = "pull" /\ \A r \in Procs \ {q} : pc'[r] = pc[r]
  BY <1>1, StartKeepsBoard DEF Elsewhere
<1>3. StatusTypes'
  BY <1>1, <1>2 DEF StatusTypes
<1> QED
  BY <1>1, <1>2, <1>3, StatusStays

LEMMA PullReadKeeps ==
  ASSUME IInv, NEW q \in Procs, NEW k \in Partners, PullRead(q, k)
  PROVE  BoardInv' /\ StatusInv'
<1>1. /\ BoardInv /\ StatusInv /\ StatusTypes /\ pulled[q][k] = Unasked
      /\ UNCHANGED <<bvars, row, topic, patching, held, missed, want>> /\ started \in Nat
  BY BoardAssumption DEF PullRead, IInv, StatusInv, charger, BoardInv, RequestTypes
<1>2. PICK got \in {Answered} \cup Statuses : pulled' = [pulled EXCEPT ![q][k] = got]
  BY <1>1 DEF PullRead, StatusTypes
<1>3. BoardInv' /\ UNCHANGED <<pc, started>>
  BY <1>1, StillKeepsBoard DEF bvars
<1>4. pulled[q] # NoPull
  BY <1>1 DEF NoPull, Unasked, Answered
<1>5. StatusTypes'
  <2>1. pulled' \in [Procs -> [Partners -> Statuses \cup {Unasked, Answered}]]
    BY <1>1, <1>2 DEF StatusTypes
  <2>2. \A r \in Procs : pulled'[r] # NoPull => pulled[r] # NoPull
    BY <1>1, <1>2, <1>4 DEF StatusTypes
  <2> QED
    BY <1>1, <1>3, <2>1, <2>2 DEF StatusTypes, NoPull
<1> QED
  BY <1>1, <1>3, <1>5, StatusStays

LEMMA PullCacheKeeps ==
  ASSUME IInv, NEW q \in Procs, NEW k \in Partners, PullCache(q, k)
  PROVE  BoardInv' /\ StatusInv'
<1>1. /\ BoardInv /\ StatusInv /\ StatusTypes /\ pulled[q][k] \in Statuses
      /\ pulled' = [pulled EXCEPT ![q][k] = Answered]
      /\ UNCHANGED <<bvars, row, topic, patching, want>> /\ started \in Nat
  BY BoardAssumption DEF PullCache, IInv, StatusInv, BoardInv, RequestTypes
<1>2. \/ held' = [held EXCEPT ![k] = pulled[q][k]]
         /\ missed' = IF pulled[q][k] = row THEN missed \ {k} ELSE missed \cup {k}
      \/ UNCHANGED <<held, missed>>
  BY DEF PullCache, Holds
<1>3. BoardInv' /\ UNCHANGED <<pc, started>>
  BY <1>1, StillKeepsBoard DEF bvars
<1>4. StatusTypes'
  <2>1. pulled' \in [Procs -> [Partners -> Statuses \cup {Unasked, Answered}]]
    BY <1>1 DEF StatusTypes
  <2>2. ASSUME NEW r \in Procs, pulled[r] = NoPull PROVE pulled'[r] = NoPull
    <3>1. CASE r # q
      BY <1>1, <2>2, <3>1 DEF StatusTypes
    <3>2. CASE r = q
      <4>1. pulled'[q] = [NoPull EXCEPT ![k] = Answered]
        BY <1>1, <2>2, <3>2 DEF StatusTypes
      <4> QED
        BY <3>2, <4>1 DEF NoPull
    <3> QED
      BY <3>1, <3>2
  <2>3. missed' \subseteq Partners /\ held' \in [Partners -> Statuses \cup {Absent}]
    BY <1>1, <1>2 DEF StatusTypes
  <2> QED
    BY <1>1, <1>3, <2>1, <2>2, <2>3 DEF StatusTypes, NoPull
<1>5. ASSUME NEW j \in Partners \ missed'
      PROVE  held'[j] = row \/ (held'[j] = held[j] /\ j \notin missed)
  BY <1>1, <1>2 DEF StatusTypes
<1> QED
  BY <1>1, <1>3, <1>4, <1>5, StatusStays

LEMMA PullAnswerKeeps ==
  ASSUME IInv, NEW q \in Procs, PullAnswer(q) PROVE BoardInv' /\ StatusInv'
<1>1. /\ BoardInv /\ StatusInv /\ StatusTypes /\ pc[q] = "pull" /\ pulled[q] = NoPull
      /\ Goto(q, "idle") /\ UNCHANGED <<pairs, started, locals, history, want, pulled>>
      /\ UNCHANGED <<row, topic, patching, held, missed>>
      /\ started \in Nat /\ started \in 0..MaxRequests
  BY BoardAssumption DEF PullAnswer, IInv, StatusInv, charger, BoardInv, RequestTypes
<1>2. /\ BoardInv' /\ pc'[q] = "idle" /\ \A r \in Procs \ {q} : pc'[r] = pc[r]
  BY <1>1, StepKeepsBoard DEF Elsewhere
<1>3. StatusTypes'
  BY <1>1, <1>2 DEF StatusTypes, NoPull
<1> QED
  BY <1>1, <1>2, <1>3, StatusStays

LEMMA StatusStepKeeps ==
  ASSUME IInv, StatusStep, UNCHANGED run PROVE IInv'
<1>1. BoardInv' /\ StatusInv'
  BY EventKeeps, FlipKeeps, ProduceKeeps, PullKeeps, PullAnswerKeeps, PullReadKeeps,
     PullCacheKeeps, ConsumeKeeps, PatchKeeps DEF StatusStep
<1>2. ASSUME NEW r \in Procs
      PROVE  pc'[r] = pc[r] \/ {pc[r], pc'[r]} \subseteq {"idle", "flip", "produce", "pull"}
  <2>1. pc \in [Procs -> Labels]
    BY DEF IInv, BoardInv, RequestTypes
  <2>2. ASSUME NEW q \in Procs,
               \/ Event(q) \/ Flip(q) \/ ProduceEvseStatus(q) \/ Pull(q) \/ PullAnswer(q)
        PROVE  \E label \in {"idle", "flip", "produce", "pull"} :
                 /\ Goto(q, label) /\ pc[q] \in {"idle", "flip", "produce", "pull"}
    BY <2>2 DEF Event, Flip, ProduceEvseStatus, Pull, PullAnswer, Start, EventGoesOn, EventFails,
       EventCalls, Goto
  <2>3. ASSUME NEW q \in Procs,
               \/ Event(q) \/ Flip(q) \/ ProduceEvseStatus(q) \/ Pull(q) \/ PullAnswer(q)
        PROVE  pc'[r] = pc[r] \/ {pc[r], pc'[r]} \subseteq {"idle", "flip", "produce", "pull"}
    BY <2>1, <2>2, <2>3 DEF Goto
  <2>4. ASSUME \/ Consume
               \/ \E k \in Partners : Patch(k) \/ \E q \in Procs : PullRead(q, k) \/ PullCache(q, k)
        PROVE  UNCHANGED pc
    BY <2>4 DEF Consume, Patch, PullRead, PullCache, bvars
  <2> QED
    BY <2>3, <2>4 DEF StatusStep
<1>3. BatchInv'
  <2>1. \A r \in Procs : pc'[r] = pc[r] \/ {pc[r], pc'[r]} \cap Batched = {}
    BY <1>2 DEF Batched
  <2> QED
    BY <2>1, RunsStand, BatchStands DEF IInv
<1> QED
  BY <1>1, <1>3 DEF IInv

-----------------------------------------------------------------------------
(* The steps of a batch run. *)

\* What a step that is a run's alone leaves of the rest.
LEMMA StillKeeps ==
  ASSUME IInv, NEW q \in Procs, NEW label \in {"idle", "batch", "job", "result"},
         pc[q] \in {"idle", "batch", "job", "result"}, pc[q] = label \/ Goto(q, label),
         pc[q] = label => UNCHANGED pc, started' \in 0..MaxRequests, started <= started',
         UNCHANGED <<pairs, locals, history, charger, want, pulled>>
  PROVE  /\ BoardInv' /\ StatusInv'
         /\ pc'[q] = label /\ \A r \in Procs \ {q} : pc'[r] = pc[r]
<1>1. pc \in [Procs -> Labels] /\ started \in Nat /\ started' \in Nat
  BY BoardAssumption DEF IInv, BoardInv, RequestTypes
<1>2. /\ pc' \in [Procs -> Labels] /\ pc'[q] = label
      /\ \A r \in Procs \ {q} : pc'[r] = pc[r]
  BY <1>1 DEF Goto, Labels, Elsewhere
<1>3. BoardInv'
  BY <1>2, OffBoardKeeps DEF IInv, Elsewhere
<1>4. StatusInv'
  <2>1. \A r \in Procs : pc'[r] = pc[r] \/ {pc[r], pc'[r]} \cap Eventful = {}
    BY <1>2 DEF Eventful
  <2> QED
    BY <1>1, <2>1, StatusStands DEF IInv, StatusInv, StatusTypes, charger
<1> QED
  BY <1>2, <1>3, <1>4

LEMMA StartedBounds ==
  ASSUME IInv PROVE started \in 0..MaxRequests /\ started \in Nat /\ MaxRequests \in Nat
  BY BoardAssumption DEF IInv, BoardInv, RequestTypes

LEMMA BatchRunKeeps ==
  ASSUME IInv, NEW q \in Procs, EvoltBatchRun(q) PROVE IInv'
<1>1. /\ Start(q, "batch")
      /\ UNCHANGED <<pairs, locals, history, charger, want, pulled>>
      /\ UNCHANGED <<due, listed, left, failed, exit>>
  BY DEF EvoltBatchRun
<1>2. /\ BoardInv' /\ StatusInv'
      /\ pc[q] = "idle" /\ pc'[q] = "batch" /\ \A r \in Procs \ {q} : pc'[r] = pc[r]
  <2>1. /\ pc[q] = "idle" /\ Goto(q, "batch")
        /\ started' = started + 1 /\ started < MaxRequests
    BY <1>1 DEF Start, Goto
  <2>2. started' \in 0..MaxRequests /\ started <= started'
    BY <2>1, StartedBounds
  <2>3. pc[q] \in {"idle", "batch", "job", "result"} /\ pc[q] # "batch"
    BY <2>1
  <2> QED
    BY <1>1, <2>1, <2>2, <2>3, StillKeeps
<1>3. PICK mocks \in {<<>>, Rows}, name \in Jobs :
        refresh' = [refresh EXCEPT ![q] = mocks] /\ job' = [job EXCEPT ![q] = name]
  BY DEF EvoltBatchRun
<1>4. BatchTypes /\ \A r \in Procs : Running(r)
  BY DEF IInv, BatchInv
<1>5. mocks \in Seq(Partners) /\ name # NoJob
  <2>1. <<>> \in Seq(Partners) /\ Rows \in Seq(Partners)
    BY BoardAssumption
  <2>2. name # NoJob
    BY JobAssumption
  <2> QED
    BY <2>1, <2>2
<1>6. BatchTypes'
  BY <1>1, <1>3, <1>4, <1>5 DEF BatchTypes
<1>7. ASSUME NEW r \in Procs PROVE Running(r)'
  <2>1. CASE r = q
    BY <1>1, <1>2, <1>3, <1>4, <1>5, <2>1 DEF BatchTypes, Running
  <2>2. CASE r # q
    BY <1>1, <1>2, <1>3, <1>4, <2>2 DEF BatchTypes, Running
  <2> QED
    BY <2>1, <2>2
<1> QED
  BY <1>2, <1>6, <1>7 DEF IInv, BatchInv

\* A run that is answered leaves nothing behind.
LEMMA ReturnKeeps ==
  ASSUME IInv, NEW q \in Procs, pc[q] \in Batched, BatchReturn(q), Still
  PROVE  IInv'
<1>1. BatchTypes /\ \A r \in Procs : Running(r)
  BY DEF IInv, BatchInv
<1>2. /\ BoardInv' /\ StatusInv'
      /\ pc'[q] = "idle" /\ \A r \in Procs \ {q} : pc'[r] = pc[r]
  BY StartedBounds, StillKeeps DEF BatchReturn, Still, Batched
<1>3. BatchTypes'
  BY <1>1 DEF BatchTypes, BatchReturn
<1>4. ASSUME NEW r \in Procs PROVE Running(r)'
  <2>1. CASE r = q
    BY <1>1, <1>2, <2>1 DEF BatchTypes, BatchReturn, Running
  <2>2. CASE r # q
    BY <1>1, <1>2, <2>2 DEF BatchTypes, BatchReturn, Running
  <2> QED
    BY <2>1, <2>2
<1> QED
  BY <1>2, <1>3, <1>4 DEF IInv, BatchInv

LEMMA NewBatchKeeps ==
  ASSUME IInv, NEW q \in Procs, NewBatch(q) PROVE IInv'
<1>1. pc[q] = "batch" /\ refresh[q] # <<>> /\ Still
  BY DEF NewBatch
<1>2. CASE BatchReturn(q)
  BY <1>1, <1>2, ReturnKeeps DEF Batched
<1>3. CASE /\ due' = [due EXCEPT ![q] = @ \cup {Head(refresh[q])}] \/ UNCHANGED due
           /\ refresh' = [refresh EXCEPT ![q] = Tail(@)]
           /\ UNCHANGED <<pc, job, listed, left, failed, exit>>
  <2>1. BatchTypes /\ \A r \in Procs : Running(r)
    BY DEF IInv, BatchInv
  <2>2. BoardInv' /\ StatusInv'
    BY <1>1, <1>3, StartedBounds, StillKeeps DEF Still
  <2>3. Head(refresh[q]) \in Partners /\ Tail(refresh[q]) \in Seq(Partners)
    BY <1>1, <2>1 DEF BatchTypes
  <2>4. BatchTypes'
    BY <1>3, <2>1, <2>3 DEF BatchTypes
  <2>5. ASSUME NEW r \in Procs PROVE Running(r)'
    <3>1. CASE r = q
      BY <1>1, <1>3, <2>1, <3>1 DEF BatchTypes, Running
    <3>2. CASE r # q
      BY <1>3, <2>1, <3>2 DEF BatchTypes, Running
    <3> QED
      BY <3>1, <3>2
  <2> QED
    BY <2>2, <2>4, <2>5 DEF IInv, BatchInv
<1> QED
  BY <1>2, <1>3 DEF NewBatch

LEMMA StartJobKeeps ==
  ASSUME IInv, NEW q \in Procs, StartJob(q) PROVE IInv'
<1>1. /\ pc[q] = "batch" /\ refresh[q] = <<>> /\ Goto(q, "job") /\ Still
      /\ left' = [left EXCEPT ![q] = listed'[q]]
      /\ UNCHANGED <<job, refresh, due, failed, exit>>
  BY DEF StartJob
<1>2. PICK found \in SUBSET Partners : listed' = [listed EXCEPT ![q] = found]
  <2>1. PICK dry \in BOOLEAN :
          listed' = [listed EXCEPT ![q] = IF dry THEN {} ELSE {k \in Partners : evolt[k] # NoPair}]
    BY DEF StartJob
  <2>2. (IF dry THEN {} ELSE {k \in Partners : evolt[k] # NoPair}) \in SUBSET Partners
    OBVIOUS
  <2> QED
    BY <2>1, <2>2
<1>3. BatchTypes /\ \A r \in Procs : Running(r)
  BY DEF IInv, BatchInv
<1>4. /\ BoardInv' /\ StatusInv'
      /\ pc'[q] = "job" /\ \A r \in Procs \ {q} : pc'[r] = pc[r]
  BY <1>1, StartedBounds, StillKeeps DEF Still
<1>5. /\ listed'[q] = found /\ left'[q] = found
      /\ \A r \in Procs \ {q} : listed'[r] = listed[r] /\ left'[r] = left[r]
  BY <1>1, <1>2, <1>3 DEF BatchTypes
<1>6. BatchTypes'
  BY <1>1, <1>2, <1>3, <1>5 DEF BatchTypes
<1>7. ASSUME NEW r \in Procs PROVE Running(r)'
  <2>1. CASE r = q
    BY <1>1, <1>3, <1>4, <1>5, <2>1 DEF Running
  <2>2. CASE r # q
    BY <1>1, <1>3, <1>4, <1>5, <2>2 DEF Running
  <2> QED
    BY <2>1, <2>2
<1> QED
  BY <1>4, <1>6, <1>7 DEF IInv, BatchInv

LEMMA RunFailsKeeps ==
  ASSUME IInv, NEW q \in Procs, RunFails(q) PROVE IInv'
  BY ReturnKeeps DEF RunFails, Batched

LEMMA CollectKeeps ==
  ASSUME IInv, NEW q \in Procs, NEW k \in Partners, Collect(q, k) PROVE IInv'
<1>1. /\ pc[q] = "job" /\ k \in left[q] /\ left' = [left EXCEPT ![q] = @ \ {k}] /\ Still
      /\ \/ Emptied(k, {job[q]}) /\ UNCHANGED failed
         \/ failed' = [failed EXCEPT ![q] = @ \cup {k}] /\ UNCHANGED due
      /\ UNCHANGED <<pc, job, refresh, listed, exit>>
  BY DEF Collect
<1>2. BatchTypes /\ \A r \in Procs : Running(r)
  BY DEF IInv, BatchInv
<1>3. BoardInv' /\ StatusInv'
  BY <1>1, StartedBounds, StillKeeps DEF Still
<1>4. /\ left'[q] = left[q] \ {k} /\ \A r \in Procs \ {q} : left'[r] = left[r]
      /\ due' \in [Procs -> SUBSET Partners] /\ \A r \in Procs : due'[r] \subseteq due[r]
      /\ \A r \in Procs \ {q} : failed'[r] = failed[r]
      /\ \/ k \notin due'[q] /\ failed'[q] = failed[q]
         \/ failed'[q] = failed[q] \cup {k}
      /\ failed' \in [Procs -> SUBSET Partners]
  <2>1. CASE Emptied(k, {job[q]}) /\ UNCHANGED failed
    BY <1>1, <1>2, <2>1, EmptiedDwindles DEF BatchTypes
  <2>2. CASE failed' = [failed EXCEPT ![q] = @ \cup {k}] /\ UNCHANGED due
    BY <1>1, <1>2, <2>2 DEF BatchTypes
  <2> QED
    BY <1>1, <2>1, <2>2
<1>5. BatchTypes'
  BY <1>1, <1>2, <1>4 DEF BatchTypes
<1>6. ASSUME NEW r \in Procs PROVE Running(r)'
  <2>1. CASE r = q
    BY <1>1, <1>2, <1>4, <2>1 DEF Running
  <2>2. CASE r # q
    BY <1>1, <1>2, <1>4, <2>2 DEF Running
  <2> QED
    BY <2>1, <2>2
<1> QED
  BY <1>3, <1>5, <1>6 DEF IInv, BatchInv

LEMMA JobEndsKeeps ==
  ASSUME IInv, NEW q \in Procs, JobEnds(q) PROVE IInv'
<1>1. /\ pc[q] = "job" /\ Goto(q, "result") /\ left' = [left EXCEPT ![q] = {}] /\ Still
      /\ UNCHANGED <<job, refresh, due, listed, failed>>
  BY DEF JobEnds
<1>2. BatchTypes /\ \A r \in Procs : Running(r)
  BY DEF IInv, BatchInv
<1>3. /\ BoardInv' /\ StatusInv'
      /\ pc'[q] = "result" /\ \A r \in Procs \ {q} : pc'[r] = pc[r]
  BY <1>1, StartedBounds, StillKeeps DEF Still
<1>4. /\ left'[q] = {} /\ \A r \in Procs \ {q} : left'[r] = left[r]
      /\ (left[q] = {} /\ exit'[q] = exit[q]) \/ exit'[q] # 0
      /\ exit' \in [Procs -> {-1, 0, 1}] /\ \A r \in Procs \ {q} : exit'[r] = exit[r]
  <2>1. left'[q] = {} /\ \A r \in Procs \ {q} : left'[r] = left[r]
    BY <1>1, <1>2 DEF BatchTypes
  <2>2. CASE left[q] = {} /\ UNCHANGED exit
    BY <1>2, <2>1, <2>2 DEF BatchTypes
  <2>3. ASSUME NEW code \in {-1, 1}, exit' = [exit EXCEPT ![q] = code]
        PROVE  /\ exit'[q] # 0 /\ exit' \in [Procs -> {-1, 0, 1}]
               /\ \A r \in Procs \ {q} : exit'[r] = exit[r]
    BY <1>2, <2>3 DEF BatchTypes
  <2>4. CASE exit' = [exit EXCEPT ![q] = 1] \/ exit' = [exit EXCEPT ![q] = -1]
    BY <2>1, <2>3, <2>4
  <2> QED
    BY <2>2, <2>4 DEF JobEnds
<1>5. BatchTypes'
  BY <1>1, <1>2, <1>4 DEF BatchTypes
<1>6. ASSUME NEW r \in Procs PROVE Running(r)'
  <2>1. CASE r = q
    BY <1>1, <1>2, <1>3, <1>4, <2>1 DEF Running
  <2>2. CASE r # q
    BY <1>1, <1>2, <1>3, <1>4, <2>2 DEF Running
  <2> QED
    BY <2>1, <2>2
<1> QED
  BY <1>3, <1>5, <1>6 DEF IInv, BatchInv

LEMMA BatchAnswerKeeps ==
  ASSUME IInv, NEW q \in Procs, BatchAnswer(q) PROVE IInv'
  BY ReturnKeeps DEF BatchAnswer, Batched

LEMMA BatchStepKeeps ==
  ASSUME IInv, NEW q \in Procs, BatchStep(q) PROVE IInv'
  BY BatchRunKeeps, NewBatchKeeps, StartJobKeeps, RunFailsKeeps, CollectKeeps, JobEndsKeeps,
     BatchAnswerKeeps DEF BatchStep

-----------------------------------------------------------------------------
(* The behaviours. *)

LEMMA InitHolds == ASSUME Init PROVE IInv
<1>1. /\ BoardInit /\ StatusInit
      /\ mock \in [Partners -> {0, 1}] /\ outbound = mock /\ evolt = mock /\ fresh = 2 /\ started = 0
      /\ pc = [q \in Procs |-> "idle"] /\ todo = [q \in Procs |-> <<>>]
      /\ scope = [q \in Procs |-> {}] /\ blamed = [q \in Procs |-> {}]
      /\ views = [q \in Procs |-> NoViews] /\ excuse = [k \in Partners |-> {}]
  BY DEF Init, StatusInit, BoardInit, NoPair
<1>2. PairTypes
  BY <1>1 DEF BoardInit, PairTypes, NoPair
<1>3. RequestTypes
  <2>1. started \in 0..MaxRequests
    BY <1>1, BoardAssumption
  <2>2. NoViews \in Views
    BY DEF NoViews, Views, NoPair
  <2> QED
    BY <1>1, <2>1, <2>2 DEF BoardInit, RequestTypes, NoPair, Labels, Elsewhere
<1>4. Overlaps /\ \A k \in Partners : Explained(k)
  BY <1>1 DEF Overlaps, Explained, Agree
<1>5. ASSUME NEW q \in Procs PROVE Shape(q) /\ Wiped(q) /\ Swept(q) /\ Rotating(q)
  <2>1. pc[q] = "idle" /\ Todo(q) = {} /\ scope[q] = {} /\ blamed[q] = {} /\ views[q] = NoViews
    BY <1>1 DEF Todo
  <2> QED
    BY <2>1 DEF Shape, Wiped, Swept, Rotating, Calls, Rotation, Sweep
<1>6. StatusInv
  <2>1. StatusTypes
    <3>1. PICK S \in SUBSET {k \in Partners : mock[k] # NoPair} :
            held = [k \in Partners |-> IF k \in S THEN row ELSE Absent]
      BY <1>1 DEF StatusInit
    <3>2. held \in [Partners -> Statuses \cup {Absent}]
      BY <1>1, <3>1 DEF StatusInit
    <3>3. patching \in [status: Statuses \cup {Absent}, left: SUBSET Partners]
      BY <1>1 DEF StatusInit, Idle
    <3> QED
      BY <1>1, <3>2, <3>3 DEF StatusInit, StatusTypes, NoPull
  <2>2. Events
    <3>1. InEvent = {} /\ topic = 0
      BY <1>1 DEF InEvent, StatusInit
    <3> QED
      BY <1>1, <3>1, FS_EmptySet DEF Events
  <2>3. \A k \in Partners : OnItsWay(k)
    BY <1>1 DEF StatusInit, OnItsWay
  <2> QED
    BY <2>1, <2>2, <2>3 DEF StatusInv
<1>7. BatchInv
  <2>1. BatchTypes
    BY DEF Init, BatchTypes
  <2>2. \A q \in Procs : Running(q)
    BY <1>1 DEF Init, Running
  <2> QED
    BY <2>1, <2>2 DEF BatchInv
<1> QED
  BY <1>2, <1>3, <1>4, <1>5, <1>6, <1>7 DEF IInv, BoardInv

LEMMA StutterKeeps == ASSUME IInv, UNCHANGED vars PROVE IInv'
<1>1. BoardInv'
  BY StillKeepsBoard DEF IInv, vars, svars
<1>2. StatusInv'
  BY StartedBounds, StatusStands DEF IInv, StatusInv, StatusTypes, vars, svars, bvars, charger
<1>3. BatchInv'
  BY RunsStand, BatchStands DEF IInv, vars, svars, bvars
<1> QED
  BY <1>1, <1>2, <1>3 DEF IInv

LEMMA NextHolds == ASSUME IInv, [Next]_vars PROVE IInv'
<1>1. ASSUME Others PROVE IInv'
  <2>1. BatchInv /\ BatchTypes
    BY DEF IInv, BatchInv
  <2>2. ASSUME NEW q \in Procs, BoardStep(q),
               (\E k : Emptied(k, Jobs)) \/ UNCHANGED due,
               UNCHANGED <<job, refresh, listed, left, failed, exit>>
        PROVE  IInv'
    <3>1. Dwindles
      BY <2>1, <2>2, EmptiedDwindles DEF Dwindles, BatchTypes
    <3> QED
      BY <2>2, <3>1, BoardStepKeeps
  <2> QED
    BY <1>1, <2>2, StatusStepKeeps DEF Others
<1> QED
  BY <1>1, BatchStepKeeps, StutterKeeps DEF Next, Done

LEMMA InvariantHolds == Spec => []IInv
  BY InitHolds, NextHolds, PTL DEF Spec

\* The variables of the board, the status events and the batch runs have the
\* shapes their comments give them, at any number of partners and requests.
THEOREM TypeCorrect == Spec => []TypeOK
<1>1. ASSUME IInv PROVE TypeOK
  <2>1. BoardInv /\ StatusInv /\ BatchInv
    BY <1>1 DEF IInv
  <2>2. PairTypes /\ RequestTypes /\ \A q \in Procs : Shape(q)
    BY <2>1 DEF BoardInv
  <2>3. BoardTypeOK
    <3>1. \A q \in Procs : \A i \in DOMAIN todo[q] : todo[q][i] \in scope[q]
      BY <2>2 DEF Shape, Todo
    <3>2. \A q \in Procs : (pc[q] = "idle" => scope[q] = {}) /\ blamed[q] \subseteq scope[q]
      BY <2>2 DEF Shape, Elsewhere
    <3>3. /\ fresh \in Nat \ {NoPair}
          /\ {mock, outbound, token, evolt} \subseteq [Partners -> 0..fresh - 1]
          /\ {scope, blamed} \subseteq [Procs -> SUBSET Partners]
      BY <2>2 DEF PairTypes, RequestTypes, NoPair
    <3> QED
      BY <2>2, <3>1, <3>2, <3>3 DEF BoardTypeOK, PairTypes, RequestTypes
  <2>4. StatusTypeOK
    <3>1. Cardinality(InEvent) \in Nat /\ topic \in Nat /\ started \in Nat
      BY <2>1, FS_CardinalityType, BoardAssumption
         DEF StatusInv, StatusTypes, Events, BoardInv, RequestTypes
    <3>2. topic \in 0..started
      BY <2>1, <3>1 DEF StatusInv, Events
    <3> QED
      BY <2>1, <2>3, <3>2 DEF StatusInv, StatusTypes, StatusTypeOK
  <2>5. BatchTypes /\ \A q \in Procs : Running(q)
    BY <2>1 DEF BatchInv
  <2>6. {due, listed, left, failed} \subseteq [Procs -> SUBSET Partners]
    BY <2>5 DEF BatchTypes
  <2>7. \A q \in Procs :
          /\ pc[q] \in {"batch", "job", "result"} <=> job[q] # NoJob
          /\ refresh[q] # <<>> => pc[q] = "batch"
          /\ due[q] # {} => job[q] # NoJob
          /\ left[q] # {} => pc[q] = "job"
          /\ left[q] \cup failed[q] \subseteq listed[q] /\ left[q] \cap failed[q] = {}
    BY <2>5 DEF Running
  <2> QED
    BY <2>2, <2>4, <2>5, <2>6, <2>7 DEF RequestTypes, BatchTypes, TypeOK
<1> QED
  BY <1>1, InvariantHolds, PTL

\* Once every request about a partner is answered, its mock and Evolt hold one
\* pair, or a record says why not: an error or a warning was shown, Evolt's side
\* was left in silence, or two requests about the partner overlapped.
THEOREM MismatchExplainedAlways == Spec => []MismatchExplained
<1>1. ASSUME IInv PROVE MismatchExplained
  <2> SUFFICES ASSUME NEW k \in Partners, \A q \in Procs : k \notin scope[q], ~Agree(k)
               PROVE  excuse[k] # {}
    BY DEF MismatchExplained
  <2>1. ASSUME NEW q \in Procs, pc[q] \in {"outbound", "reset", "clear"} PROVE Partner(q) # k
    <3>1. RequestTypes /\ Shape(q) /\ todo[q] # <<>>
      BY <1>1, <2>1 DEF IInv, BoardInv, Shape, Calls
    <3> QED
      BY <3>1, PartnerInScope
  <2> QED
    BY <1>1, <2>1 DEF IInv, BoardInv, Explained
<1> QED
  BY <1>1, InvariantHolds, PTL

\* When an unregistration answers, neither side of a partner it does not report
\* on is left with a pair, unless Evolt's side was left alone in silence or
\* another request was about the partner.
THEOREM SweepCompleteAlways == Spec => []SweepComplete
<1>1. ASSUME IInv PROVE SweepComplete
  <2> SUFFICES ASSUME NEW q \in Procs, pc[q] = "show", todo[q] = <<>>,
                      NEW k \in scope[q] \ blamed[q]
               PROVE  Cleared(k)
    BY DEF SweepComplete, Cleared
  <2>1. Todo(q) = {}
    BY DEF Todo
  <2> QED
    BY <1>1, <2>1 DEF IInv, BoardInv, Swept
<1> QED
  BY <1>1, InvariantHolds, PTL

\* When a rotation shows Evolt's row before and after, the row has changed and
\* the new one is the pair the mock took, unless requests overlapped.
THEOREM RotationShownAlways == Spec => []RotationShown
<1>1. ASSUME IInv PROVE RotationShown
  <2> SUFFICES ASSUME NEW q \in Procs, pc[q] = "show",
                      views[q].before # NoPair, views[q].after # NoPair,
                      NEW k \in scope[q], "overlap" \notin excuse[k]
               PROVE  views[q].after # views[q].before /\ views[q].after = mock[k]
    BY DEF RotationShown
  <2>1. RequestTypes /\ PairTypes /\ Shape(q) /\ Rotating(q)
    BY <1>1 DEF IInv, BoardInv
  <2>2. todo[q] # <<>>
    BY <2>1 DEF Shape, NoViews
  <2>3. views[q].before < mock[k] /\ views[q].after = mock[k]
    BY <2>1, <2>2 DEF Rotating
  <2>4. views[q].before \in Nat /\ mock[k] \in Nat
    BY <2>1 DEF RequestTypes, PairTypes, Views
  <2> QED
    BY <2>3, <2>4
<1> QED
  BY <1>1, InvariantHolds, PTL

\* When no event is under way, every mock holds the status of Evolt's row or
\* nothing of the EVSE, except where the status is known to have been missed.
THEOREM StatusReachesAlways == Spec => []StatusReaches
<1>1. ASSUME IInv PROVE StatusReaches
  <2> SUFFICES ASSUME topic = 0, patching = Idle, \A q \in Procs : want[q] = Absent,
                      NEW k \in Partners \ missed
               PROVE  held[k] \in {Absent, row}
    BY DEF StatusReaches
  <2>1. StatusTypes /\ OnItsWay(k)
    BY <1>1 DEF IInv, StatusInv
  <2>2. \A q \in Procs : pc[q] # "produce"
    BY <2>1 DEF StatusTypes
  <2> QED
    BY <2>1, <2>2 DEF OnItsWay, Idle
<1> QED
  BY <1>1, InvariantHolds, PTL

\* What a mock published for a run whose job ended with exit code 0, and still has
\* in the table of that job, is of a partner the job did not find or counts as
\* failed: no job that was killed is answered as one that ended well.
THEOREM BatchCollectedAlways == Spec => []BatchCollected
<1>1. ASSUME IInv PROVE BatchCollected
  <2> SUFFICES ASSUME NEW q \in Procs, pc[q] = "result", exit[q] = 0
               PROVE  due[q] \cap listed[q] \subseteq failed[q]
    BY DEF BatchCollected
  <2>1. Running(q)
    BY <1>1 DEF IInv, BatchInv
  <2> QED
    BY <2>1 DEF Running
<1> QED
  BY <1>1, InvariantHolds, PTL
=============================================================================
