----------------------------- MODULE StatusEvent -----------------------------
(***************************************************************************)
(* The two ways a charger's status reaches the partners of the board: a    *)
(* pull, in which every mock fetches Evolt's feed at once and caches it    *)
(* (PartnerPull), and a status event (EvoltEvseStatusEvent): the charger's *)
(* row in Evolt's database is flipped, then an event is written to Kafka,  *)
(* upon which Evolt's consumer reads the row and PATCHes every partner it  *)
(* is paired with.  One EVSE of the demo's station stands for all of them. *)
(*                                                                         *)
(* The consumer is not under src/: it is modelled from what the comments   *)
(* of demo/chargerdb.go and demo/handlers.go rely on.                      *)
(***************************************************************************)
EXTENDS Board

CONSTANTS
  Statuses,    \* the EVSE statuses an operator picks
  Absent       \* what a mock that has no such EVSE holds

\* Holding nothing of the EVSE is told apart from holding any status of it.
ASSUME StatusAssumption == Absent \notin Statuses

VARIABLES
  row,      \* the status in Evolt's database
  topic,    \* how many events the consumer has yet to read
  patching, \* the PATCHes of the event it has read: a status, and who is left
  held,     \* the status each mock holds
  want,     \* the status an event is to set
  pulled,   \* what each goroutine of a pull has: nothing yet, a status, an answer
  missed    \* history: the mocks whose status may not be the row's

charger == <<row, topic, patching, held, missed>>
svars == <<bvars, charger, want, pulled>>

Unasked == "unasked"
Answered == "answered"
Idle == [status |-> Absent, left |-> {}]  \* no event is being handled
NoPull == [k \in Partners |-> Answered]

StatusInit ==
  /\ BoardInit
  /\ row \in Statuses
  /\ topic = 0
  /\ patching = Idle
  /\ \E S \in SUBSET {k \in Partners : mock[k] # NoPair} :
       held = [k \in Partners |-> IF k \in S THEN row ELSE Absent]
  /\ want = [q \in Procs |-> Absent]
  /\ pulled = [q \in Procs |-> NoPull]
  /\ missed = {}

\* Where a mock's status stands to the row decides whether it was missed.
Holds(k, status) ==
  /\ held' = [held EXCEPT ![k] = status]
  /\ missed' = IF status = row THEN missed \ {k} ELSE missed \cup {k}

-----------------------------------------------------------------------------
(* Requests about pairings go on meanwhile; seed/reset also empties what the *)
(* mock has received.                                                       *)

BoardStep(q) ==
  /\ Request(q) \/ Call(q)
  /\ \/ pc[q] = "reset" /\ held' = [held EXCEPT ![Partner(q)] = Absent]
     \/ pc'[q] # "clear" /\ UNCHANGED held
     \/ pc[q] # "reset" /\ UNCHANGED held
  /\ UNCHANGED <<row, topic, patching, missed, want, pulled>>

-----------------------------------------------------------------------------
(* EvoltEvseStatusEvent. *)

\* Mutant: the event is written before the row is flipped.
ProduceFirst == <<"produce", "flip">>

EventCalls == <<"flip", "produce">>

Quiet == UNCHANGED <<pairs, started, locals, history, pulled>>

\* An EVSE no mock is seen to hold is refused; a mock that cannot be reached is
\* passed over.
Event(q) ==
  /\ Start(q, EventCalls[1])
  /\ \E k \in Partners : held[k] # Absent
  /\ \E s \in Statuses : want' = [want EXCEPT ![q] = s]
  /\ UNCHANGED <<pairs, locals, history, charger, pulled>>

\* The next call, or the answer.
EventGoesOn(q) ==
  IF pc[q] = EventCalls[1]
  THEN Goto(q, EventCalls[2]) /\ UNCHANGED want
  ELSE Goto(q, "idle") /\ want' = [want EXCEPT ![q] = Absent]

\* The answer is an error: the row may have changed without an event.
EventFails(q) ==
  /\ Goto(q, "idle")
  /\ want' = [want EXCEPT ![q] = Absent]
  /\ missed' = Partners

\* SimulateEvseOnline, SimulateOnline: one transaction, if there is a database.
Flip(q) ==
  /\ pc[q] = "flip"
  /\ \/ row' = (IF EvoltDB THEN want[q] ELSE row) /\ EventGoesOn(q) /\ UNCHANGED missed
     \/ EvoltDB /\ row' \in {row, want[q]} /\ EventFails(q)
  /\ UNCHANGED <<topic, patching, held>> /\ Quiet

\* Mutant: an event that could not be written is answered ok.
ProduceUnchecked(q) ==
  /\ pc[q] = "produce"
  /\ topic' \in {topic, topic + 1}
  /\ EventGoesOn(q)
  /\ UNCHANGED <<row, patching, held, missed>> /\ Quiet

ProduceEvseStatus(q) ==
  /\ pc[q] = "produce"
  /\ \/ topic' = topic + 1 /\ EventGoesOn(q) /\ UNCHANGED missed
     \/ topic' \in {topic, topic + 1} /\ EventFails(q)
  /\ UNCHANGED <<row, patching, held>> /\ Quiet

-----------------------------------------------------------------------------
(* Evolt's consumer (external).  The status it sends is the row's, not the   *)
(* event's.                                                                 *)

Rest(status, left) == IF left = {} THEN Idle ELSE [status |-> status, left |-> left]

Consume ==
  /\ topic > 0 /\ patching = Idle
  /\ topic' = topic - 1
  /\ patching' = Rest(row, {k \in Partners : evolt[k] # NoPair})
  /\ missed' = missed \cup {k \in Partners : evolt[k] = NoPair}
  /\ UNCHANGED <<bvars, row, held, want, pulled>>

\* The PATCH lands on a mock that is paired and has the EVSE, or is lost.
Patch(k) ==
  /\ k \in patching.left
  /\ \/ MockKnows(k) /\ held[k] # Absent /\ Holds(k, patching.status)
     \/ missed' = missed \cup {k} /\ UNCHANGED held
  /\ patching' = Rest(patching.status, patching.left \ {k})
  /\ UNCHANGED <<bvars, row, topic, want, pulled>>

-----------------------------------------------------------------------------
(* PartnerPull: a goroutine per partner. *)

Pull(q) ==
  /\ Start(q, "pull")
  /\ pulled' = [pulled EXCEPT ![q] = [k \in Partners |-> Unasked]]
  /\ UNCHANGED <<pairs, locals, history, charger, want>>

\* A mock reads the feed with its token, or answers with an error.
PullRead(q, k) ==
  /\ pulled[q][k] = Unasked
  /\ \E got \in {Answered} \cup (IF EvoltKnows(k) THEN {row} ELSE {}) :
       pulled' = [pulled EXCEPT ![q][k] = got]
  /\ UNCHANGED <<bvars, charger, want>>

\* It caches what it read, whatever the status is by then; or the screen has
\* gone away, which cancels every goroutine's call.
PullCache(q, k) ==
  /\ pulled[q][k] \in Statuses
  /\ pulled' = [pulled EXCEPT ![q][k] = Answered]
  /\ \/ Holds(k, pulled[q][k])
     \/ UNCHANGED <<held, missed>>
  /\ UNCHANGED <<bvars, row, topic, patching, want>>

\* wg.Wait: the slowest partner answers for all.
PullAnswer(q) ==
  /\ pc[q] = "pull"
  /\ pulled[q] = NoPull
  /\ Goto(q, "idle")
  /\ UNCHANGED <<pairs, started, locals, history, charger, want, pulled>>

-----------------------------------------------------------------------------

StatusStep ==
  \/ \E q \in Procs :
       \/ Event(q) \/ Flip(q) \/ ProduceEvseStatus(q)
       \/ Pull(q) \/ PullAnswer(q)
       \/ \E k \in Partners : PullRead(q, k) \/ PullCache(q, k)
  \/ Consume
  \/ \E k \in Partners : Patch(k)

-----------------------------------------------------------------------------
(* Properties. *)

\* The board's variables and the ones added here have the shapes their comments
\* give them: no more events are in the topic than requests were started, and
\* a request has a status to set, or a pull to wait for, only in its own steps.
StatusTypeOK ==
  /\ BoardTypeOK
  /\ row \in Statuses
  /\ topic \in 0..started
  /\ patching \in [status: Statuses \cup {Absent}, left: SUBSET Partners]
  /\ held \in [Partners -> Statuses \cup {Absent}]
  /\ missed \subseteq Partners
  /\ want \in [Procs -> Statuses \cup {Absent}]
  /\ pulled \in [Procs -> [Partners -> Statuses \cup {Unasked, Answered}]]
  /\ \A q \in Procs :
       /\ pc[q] \in {"flip", "produce"} <=> want[q] # Absent
       /\ pulled[q] # NoPull => pc[q] = "pull"

\* When all events are consumed and none is on its way, every mock holds the
\* status of Evolt's row, or has none of the EVSE, or the status is known to have
\* been missed: a call of the event failed, a PATCH was lost or found nobody
\* paired, or a pull cached what it had read before the flip.
StatusReaches ==
  topic = 0 /\ patching = Idle /\ (\A q \in Procs : want[q] = Absent) =>
    \A k \in Partners \ missed : held[k] \in {Absent, row}
=============================================================================
