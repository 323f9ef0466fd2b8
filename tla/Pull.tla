-------------------------------- MODULE Pull --------------------------------
(***************************************************************************)
(* Pulling the counterparty's SENDER list into received_* (client/evolt.go,*)
(* PullAllFromCounterparty, PullFromCounterparty, PullOneLocation), beside *)
(* the PUT and DELETE the counterparty sends for tariffs meanwhile         *)
(* (handlers/emsp.go).                                                     *)
(*                                                                         *)
(* The counterparty is external: a list in the order of last change, as    *)
(* our own feed is, which it changes between two of our requests, telling  *)
(* us of each change in a call that may be late or lost.  An object is its *)
(* id and its version.  A row is written in one step, as a tariff is; the  *)
(* statements of a location are in Replica.  A second pull at the same     *)
(* time is to this one what late calls are: rows of older versions.        *)
(***************************************************************************)
EXTENDS Integers, FiniteSets, SequencesExt

CONSTANTS
  Objects,    \* ids of the counterparty's objects
  Listed,     \* the list at first, a sequence of ids
  Broken,     \* objects no row can be made of: no id, not JSON
  PageLimit,  \* objects asked for per page
  MaxPages,   \* the runaway guard of a walk
  Caps,       \* values of maxItems; 0: the whole list
  MaxChanges, \* bound: changes the counterparty makes
  MaxPulls,   \* bound: pulls
  MayFail     \* requests and upserts may fail

\* An id is the key of the counterparty's table: its list has an object once.
ASSUME ListedAssumption ==
  /\ IsFiniteSet(Objects) /\ Broken \subseteq Objects
  /\ Listed \in Seq(Objects) /\ IsInjective(Listed)
ASSUME LimitAssumption == PageLimit \in Nat \ {0} /\ MaxPages \in Nat \ {0}
ASSUME CapsAssumption == Caps \subseteq Nat
ASSUME BoundAssumption == MaxChanges \in Nat /\ MaxPulls \in Nat
ASSUME FailAssumption == MayFail \in BOOLEAN

VARIABLES
  feed,      \* the counterparty's list
  changes,   \* how often it changed, its version counter
  calls,     \* its PUTs and DELETEs under way to us
  received,  \* received_*: id -> version
  pulls,     \* pulls so far, for the bound
  pc,        \* the next step of the pull
  cap,       \* maxItems
  budget,    \* the pages it may ask for: maxPages, or one
  offset,
  pages,
  total,     \* X-Total-Count of the last page that had it
  stored,
  page,      \* what is left of the page, cut to the room there was
  size,      \* how long it was then
  began,     \* history: the list when the pull began
  steady,    \* history: nothing but growth of the list has happened since
  skipped,   \* history: objects of the list it could not store
  mayReturn  \* history: objects whose DELETE was lost or overtaken

peer == <<feed, changes, calls>>
history == <<began, steady, skipped>>
walk == <<cap, budget, offset, pages, total, stored, page, size>>
vars == <<peer, received, pulls, pc, walk, history, mayReturn>>

NoTotal == -1
Entry == [id : Objects, ver : 0..MaxChanges]
IdsOf(list) == {list[i].id : i \in DOMAIN list}
Least(a, b) == IF a < b THEN a ELSE b

Init ==
  /\ feed = [i \in DOMAIN Listed |-> [id |-> Listed[i], ver |-> 0]]
  /\ changes = 0
  /\ calls = {}
  /\ received = [id \in {} |-> 0]
  /\ pulls = 0
  /\ pc = "idle"
  /\ cap = 0 /\ budget = 0 /\ offset = 0 /\ pages = 0
  /\ total = NoTotal /\ stored = 0 /\ page = <<>> /\ size = 0
  /\ began = <<>> /\ steady = TRUE /\ skipped = {}
  /\ mayReturn = {}

-----------------------------------------------------------------------------
(* The counterparty. *)

\* It publishes an object, new or changed: last in the list, and a PUT.
Publish ==
  /\ changes < MaxChanges
  /\ changes' = changes + 1
  /\ \E id \in Objects \ Broken :
       LET entry == [id |-> id, ver |-> changes'] IN
         /\ \/ /\ id \notin IdsOf(feed)
               /\ feed' = Append(feed, entry)
               /\ UNCHANGED steady
            \/ /\ \E i \in DOMAIN feed :
                    feed[i].id = id /\ feed' = Append(RemoveAt(feed, i), entry)
               /\ steady' = (pc = "idle")
         /\ calls' = calls \cup {[method |-> "PUT", entry |-> entry]}
  /\ UNCHANGED <<received, pulls, pc, walk, began, skipped, mayReturn>>

\* It withdraws one: no longer in the list, and a DELETE.
Withdraw ==
  /\ changes < MaxChanges
  /\ changes' = changes + 1
  /\ \E i \in DOMAIN feed :
       /\ feed[i].id \notin Broken
       /\ feed' = RemoveAt(feed, i)
       /\ calls' = calls \cup
                     {[method |-> "DELETE", entry |-> [id |-> feed[i].id, ver |-> changes']]}
  /\ steady' = (pc = "idle")
  /\ UNCHANGED <<received, pulls, pc, walk, began, skipped, mayReturn>>

\* What may still bring a row of id after its DELETE: a PUT under way, or the
\* page the pull holds.
Pending(id, others) ==
  \/ \E call \in others : call.method = "PUT" /\ call.entry.id = id
  \/ id \in IdsOf(page)

Lose ==
  /\ MayFail
  /\ \E call \in calls :
       /\ calls' = calls \ {call}
       /\ mayReturn' =
            IF call.method = "DELETE" THEN mayReturn \cup {call.entry.id} ELSE mayReturn
  /\ UNCHANGED <<feed, changes, received, pulls, pc, walk, history>>

-----------------------------------------------------------------------------
(* Its calls, as our handlers answer them. *)

Upsert(rows, entry) ==
  [id \in DOMAIN rows \cup {entry.id} |-> IF id = entry.id THEN entry.ver ELSE rows[id]]

PutReceivedTariff ==
  /\ \E call \in calls :
       /\ call.method = "PUT"
       /\ calls' = calls \ {call}
       /\ received' = Upsert(received, call.entry)
       /\ steady' = (steady /\ call.entry.id \notin IdsOf(began))
  /\ UNCHANGED <<feed, changes, pulls, pc, walk, began, skipped, mayReturn>>

\* Mutant: it answers and removes nothing.
DeleteKeepsRow(rows, id) == rows

\* DELETE by key; of an object we do not hold it changes nothing and answers 2003.
DeleteRow(rows, id) == [i \in DOMAIN rows \ {id} |-> rows[i]]

DeleteReceivedTariff ==
  /\ \E call \in calls :
       LET id == call.entry.id IN
         /\ call.method = "DELETE"
         /\ calls' = calls \ {call}
         /\ received' = DeleteRow(received, id)
         /\ mayReturn' =
              IF Pending(id, calls') THEN mayReturn \cup {id} ELSE mayReturn \ {id}
  /\ steady' = (pc = "idle")
  /\ UNCHANGED <<feed, changes, pulls, pc, walk, began, skipped>>

-----------------------------------------------------------------------------
(* A pull. *)

StartWalk(allowed, most) ==
  /\ pc = "idle" /\ pulls < MaxPulls
  /\ pulls' = pulls + 1
  /\ pc' = "get"
  /\ budget' = allowed /\ cap' = most
  /\ began' = feed /\ steady' = TRUE
  /\ UNCHANGED <<peer, received, offset, pages, total, stored, page, size, skipped, mayReturn>>

\* Page after page to a cap, or the first page alone.
PullAllFromCounterparty == \E most \in Caps : StartWalk(MaxPages, most)

PullFromCounterparty == StartWalk(1, 0)

Return ==
  /\ pc' = "idle"
  /\ cap' = 0 /\ budget' = 0 /\ offset' = 0 /\ pages' = 0
  /\ total' = NoTotal /\ stored' = 0 /\ page' = <<>> /\ size' = 0
  /\ began' = <<>> /\ steady' = TRUE /\ skipped' = {}

\* Mutant: cut to the cap, whatever is stored already.
TruncatedToCap(items) == IF cap = 0 THEN items ELSE SubSeq(items, 1, Least(cap, Len(items)))

\* truncateItems.
Truncated(items) ==
  IF cap = 0 THEN items ELSE SubSeq(items, 1, Least(cap - stored, Len(items)))

\* A page as the counterparty answers it, with its X-Total-Count or without.
GetPage ==
  /\ pc = "get"
  /\ page' = Truncated(SubSeq(feed, offset + 1, Least(offset + PageLimit, Len(feed))))
  /\ size' = Len(page')
  /\ total' \in {total, Len(feed)}
  /\ pages' = pages + 1
  /\ pc' = "cache"
  /\ UNCHANGED <<peer, received, pulls, cap, budget, offset, stored, history, mayReturn>>

\* No answer, or one that cannot be parsed: the pull ends, what it stored stays.
GetFails ==
  /\ MayFail
  /\ pc = "get"
  /\ Return
  /\ UNCHANGED <<peer, received, pulls, mayReturn>>

\* PullOneLocation: one object by its id, in a list of one.
PullOneLocation ==
  /\ pc = "idle" /\ pulls < MaxPulls
  /\ pulls' = pulls + 1
  /\ \E i \in DOMAIN feed : page' = <<feed[i]>> /\ began' = <<feed[i]>>
  /\ size' = 1 /\ pages' = 1 /\ budget' = 1
  /\ steady' = TRUE
  /\ pc' = "cache"
  /\ UNCHANGED <<peer, received, cap, offset, total, stored, skipped, mayReturn>>

CacheObject ==
  /\ pc = "cache" /\ page # <<>>
  /\ Head(page).id \notin Broken
  /\ received' = Upsert(received, Head(page))
  /\ stored' = stored + 1
  /\ page' = Tail(page)
  /\ UNCHANGED <<peer, pulls, pc, cap, budget, offset, pages, total, size, history, mayReturn>>

\* Mutant: an object that cannot be stored is tried again.
RetryObject ==
  /\ pc = "cache" /\ page # <<>>
  /\ Head(page).id \in Broken
  /\ skipped' = skipped \cup {Head(page).id}
  /\ UNCHANGED <<peer, received, pulls, pc, walk, began, steady, mayReturn>>

\* An object that cannot be stored is passed over.
SkipObject ==
  /\ pc = "cache" /\ page # <<>>
  /\ Head(page).id \in Broken \/ MayFail
  /\ skipped' = skipped \cup {Head(page).id}
  /\ page' = Tail(page)
  /\ UNCHANGED <<peer, received, pulls, pc, cap, budget, offset, pages, total, stored, size,
                 began, steady, mayReturn>>

\* Mutants: the runaway guard is missing; a page's total is compared a page early.
EndsUnguarded ==
  \/ cap > 0 /\ stored >= cap
  \/ size < PageLimit
  \/ total # NoTotal /\ offset + PageLimit >= total

EndsEarly ==
  \/ cap > 0 /\ stored >= cap
  \/ size < PageLimit
  \/ total # NoTotal /\ offset + PageLimit >= total - 1
  \/ pages >= budget

\* The cap is reached, the page was short, the list is at its end, or enough
\* pages were asked for.
Ends ==
  \/ cap > 0 /\ stored >= cap
  \/ size < PageLimit
  \/ total # NoTotal /\ offset + PageLimit >= total
  \/ pages >= budget

NextPage ==
  /\ pc = "cache" /\ page = <<>>
  /\ ~Ends
  /\ offset' = offset + PageLimit
  /\ pc' = "get"
  /\ UNCHANGED <<peer, received, pulls, cap, budget, pages, total, stored, page, size,
                 history, mayReturn>>

\* The pull is over; its caller sees the result, then it returns.
EndPull ==
  /\ pc = "cache" /\ page = <<>>
  /\ Ends
  /\ pc' = "over"
  /\ UNCHANGED <<peer, received, pulls, walk, history, mayReturn>>

Report ==
  /\ pc = "over"
  /\ Return
  /\ UNCHANGED <<peer, received, pulls, mayReturn>>

\* The bounds are used up.
Done ==
  /\ pc = "idle" /\ pulls = MaxPulls /\ changes = MaxChanges /\ calls = {}
  /\ UNCHANGED vars

Step ==
  \/ GetPage \/ GetFails \/ CacheObject \/ SkipObject \/ NextPage \/ EndPull \/ Report

Next ==
  \/ PullAllFromCounterparty \/ PullFromCounterparty \/ PullOneLocation
  \/ Step
  \/ Publish \/ Withdraw \/ Lose
  \/ PutReceivedTariff \/ DeleteReceivedTariff
  \/ Done

\* The goroutine of a pull is scheduled, and its requests have a timeout.
Spec == Init /\ [][Next]_vars /\ WF_vars(Step)

-----------------------------------------------------------------------------
(* Properties. *)

\* The list, the rows and the locals of a pull have the shapes their comments
\* give them; no walk asks for more pages than its guard allows.
TypeOK ==
  /\ feed \in Seq(Entry)
  /\ changes \in 0..MaxChanges
  /\ calls \subseteq [method : {"PUT", "DELETE"}, entry : Entry]
  /\ DOMAIN received \subseteq Objects \ Broken
  /\ received \in [DOMAIN received -> 0..MaxChanges]
  /\ pulls \in 0..MaxPulls
  /\ pc \in {"idle", "get", "cache", "over"}
  /\ cap \in Caps \cup {0}
  /\ budget \in {0, 1, MaxPages}
  /\ pages \in 0..budget
  /\ offset \in {PageLimit * n : n \in 0..MaxPages}
  /\ total \in {NoTotal} \cup 0..Cardinality(Objects)
  /\ stored \in 0..(MaxPages * PageLimit)
  /\ page \in Seq(Entry) /\ Len(page) <= size /\ size \in 0..PageLimit
  /\ began \in Seq(Entry)
  /\ steady \in BOOLEAN
  /\ skipped \subseteq Objects
  /\ mayReturn \subseteq Objects

\* "maxItems have been stored": a walk never stores more than its cap, page by
\* page, although every page is cut before it is known what of it can be stored.
WithinCap == cap > 0 => stored <= cap

\* "Page after page until the feed is exhausted": a pull that ran to its end has
\* the rows of the list as it was when it began, to the cap and the page guard,
\* even if objects were added meanwhile.  A capped walk may end early when it
\* had to pass over an object.
ListCopied ==
  LET reach == Least(Len(began), budget * PageLimit)
      wanted == IF cap = 0 THEN reach ELSE Least(reach, cap)
  IN (pc = "over" /\ steady /\ (cap = 0 \/ skipped = {})) =>
       \A i \in 1..wanted :
         \/ began[i].id \in skipped
         \/ /\ began[i].id \in DOMAIN received
            /\ received[began[i].id] = began[i].ver

\* "DeleteReceivedTariff really deletes": a row the counterparty no longer lists
\* has its DELETE still to come, or that DELETE was lost, or overtaken by a PUT
\* sent before it or by the page a pull already held.
NoGhost ==
  \A id \in DOMAIN received \ IdsOf(feed) :
    \/ id \in mayReturn
    \/ \E call \in calls : call.method = "DELETE" /\ call.entry.id = id

\* "maxPages (a runaway guard)": every pull ends, whatever the counterparty does
\* to its list and whatever cannot be stored.
PullEnds == pc # "idle" ~> pc = "idle"

\* A walk "page after page until the feed is exhausted, maxItems have been
\* stored, or maxPages is hit": those are the only reasons to stop.
StopsForAReason ==
  (pc = "over" /\ steady /\ budget = MaxPages) =>
    \/ offset + PageLimit >= Len(feed)
    \/ cap > 0 /\ stored >= cap
    \/ pages = MaxPages
=============================================================================
