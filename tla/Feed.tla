-------------------------------- MODULE Feed --------------------------------
(***************************************************************************)
(* The paged list of our own locations (handlers/cpo.go, listOwn, over     *)
(* ListOwn of store/own.go), read by a caller that follows its Link        *)
(* headers while the catalogue changes.                                    *)
(*                                                                         *)
(* A page is two statements, a count and a SELECT, on whatever table each  *)
(* of them finds.  The caller is external: Evolt's pull job, which asks    *)
(* for what changed since the newest object it holds (the watermark the    *)
(* demo reads back, demo/evolt.go), or anyone with bounds of his own.      *)
(* Either may stop half-way.                                               *)
(*                                                                         *)
(* A bound is in half seconds, since RFC 3339 has fractions and the times  *)
(* in the table and in a Link header do not.  A bound left out is one that *)
(* excludes nothing.                                                       *)
(***************************************************************************)
EXTENDS Catalogue, Sequences, FiniteSets

CONSTANTS
  DefaultLimit,  \* the page length nobody asked for
  MaxLimit,      \* the longest page there is
  Limits,        \* page lengths a caller may ask for
  Bounds         \* bounds a caller may ask for

ASSUME LimitAssumption ==
  /\ DefaultLimit \in 1..MaxLimit
  /\ MaxLimit \in Nat
  /\ Limits \subseteq Nat
ASSUME BoundsAssumption == Bounds \subseteq Nat
\* The feed orders by id as well: an id is its place among the ids.
ASSUME OrderAssumption == Locations \subseteq Nat /\ IsFiniteSet(Locations)

VARIABLES
  walk,    \* what the caller waits for: a count, a page; or it is done, or idle
  query,   \* the bounds and the page length of its list, and whether it keeps it
  offset,  \* where its page begins
  total,   \* what the count statement found
  got,     \* the objects it was given, with their dates
  held,    \* the pull job's copy: location -> date
  listed,  \* history: the list as the walk began
  still,   \* history: it has not changed since, and its bounds are whole seconds
  skewed   \* history: a row got a date the pull job does not look at again

walker == <<walk, query, offset, total, got>>
fvars == <<cvars, walker, held, listed, still, skewed>>

NoFrom == 0
NoTo == 2 * MaxTime + 1
NoQuery == [from |-> NoFrom, to |-> NoTo, limit |-> DefaultLimit, keep |-> FALSE]

-----------------------------------------------------------------------------
(* The two statements. *)

\* Mutant: date_from excludes its own second.
MatchesAfter(row, q) == q.from < 2 * row.column /\ 2 * row.column < q.to

\* WHERE last_updated >= date_from AND last_updated < date_to.
Matches(row, q) == q.from <= 2 * row.column /\ 2 * row.column < q.to

Matching(table, q) == {id \in Locations \cap DOMAIN table : Matches(table[id], q)}

\* ORDER BY last_updated, id.
Before(table, a, b) ==
  \/ table[a].column < table[b].column
  \/ table[a].column = table[b].column /\ a < b

\* The place of a row among the matching ones, and the rows by their places.
Rank(table, q, id) ==
  Cardinality({other \in Matching(table, q) : Before(table, other, id)}) + 1

Ordered(table, q) ==
  [i \in 1..Cardinality(Matching(table, q)) |->
     CHOOSE id \in Matching(table, q) : Rank(table, q, id) = i]

\* The payloads of the whole list, and the page of it an OFFSET and LIMIT cut.
List(table, q) ==
  LET ids == Ordered(table, q) IN [i \in DOMAIN ids |-> <<ids[i], table[ids[i]].stamp>>]

Page(table, q, from) ==
  LET list == List(table, q)
  IN  SubSeq(list, from + 1, IF from + q.limit < Len(list) THEN from + q.limit ELSE Len(list))

Passed(table) ==
  LET list == List(table, query) IN {list[i] : i \in DOMAIN list \cap 1..offset}

-----------------------------------------------------------------------------
(* listOwn. *)

\* parseListQuery: a length below one is the default, a long one is cut.
PageLength(asked) ==
  IF asked < 1 THEN DefaultLimit ELSE IF asked > MaxLimit THEN MaxLimit ELSE asked

Newest == CHOOSE t \in {held[id] : id \in DOMAIN held} : \A id \in DOMAIN held : held[id] <= t

Watermark == IF DOMAIN held = {} THEN NoFrom ELSE 2 * Newest

WholeSeconds(bound) == bound = NoTo \/ bound % 2 = 0

\* The pull job asks from its watermark on and keeps what it is given.
StartWalk ==
  /\ boot = "up" /\ walk = "idle" /\ started < MaxRequests
  /\ started' = started + 1
  /\ \E asked \in Limits :
     \E from \in Bounds \cup {NoFrom}, to \in Bounds \cup {NoTo}, keep \in BOOLEAN :
       /\ keep => from = NoFrom /\ to = NoTo
       /\ query' = [from |-> IF keep THEN Watermark ELSE from, to |-> to,
                    limit |-> PageLength(asked), keep |-> keep]
  /\ walk' = "count"
  /\ offset' = 0 /\ total' = 0 /\ got' = <<>>
  /\ listed' = List(own, query')
  /\ still' = (query'.from % 2 = 0 /\ WholeSeconds(query'.to))
  /\ UNCHANGED <<tables, now, process, history, locals, held, skewed>>

CountRows ==
  /\ boot = "up" /\ walk = "count"
  /\ total' = Cardinality(Matching(own, query))
  /\ walk' = "page"
  /\ UNCHANGED <<cvars, query, offset, got, held, listed, still, skewed>>

\* Mutant: the last row is taken for a page that need not be told of.
LastRowOmitted(next, count) == next + 1 >= count

\* A Link header only while the count says that more rows remain.
NoMoreRows(next, count) == next >= count

\* setPaginationHeaders writes the bounds in whole seconds.
Link(q) ==
  [q EXCEPT !.from = @ - (@ % 2), !.to = IF @ = NoTo THEN NoTo ELSE @ - (@ % 2)]

ReadPage ==
  /\ boot = "up" /\ walk = "page"
  /\ LET page == Page(own, query, offset)
     IN  /\ got' = got \o page
         /\ held' = IF query.keep
                    THEN [id \in DOMAIN held \cup {page[i][1] : i \in DOMAIN page} |->
                            IF \E i \in DOMAIN page : page[i][1] = id
                            THEN own[id].stamp ELSE held[id]]
                    ELSE held
  /\ IF NoMoreRows(offset + query.limit, total)
     THEN walk' = "done" /\ UNCHANGED <<query, offset>>
     ELSE /\ walk' = "count"
          /\ offset' = offset + query.limit
          /\ query' = Link(query)
  /\ total' = 0
  /\ UNCHANGED <<cvars, listed, still, skewed>>

Forgotten ==
  /\ walk' = "idle" /\ query' = NoQuery /\ offset' = 0 /\ total' = 0 /\ got' = <<>>
  /\ listed' = <<>> /\ still' = TRUE

\* The caller is done, or a call of its walk fails and it gives up.
EndWalk ==
  /\ walk = "done" \/ (MayFail /\ walk \in {"count", "page"})
  /\ Forgotten
  /\ UNCHANGED <<cvars, held, skewed>>

-----------------------------------------------------------------------------
(* The catalogue beside it. *)

\* The part of the list that a walk of the pull job has passed changes; or a row
\* gets a date below the newest the job holds.
Skews ==
  \/ query.keep /\ walk \in {"count", "page"} /\ Passed(own') # Passed(own)
  \/ \E id \in Locations \cap DOMAIN own' :
       /\ id \notin DOMAIN own \/ own'[id] # own[id]
       /\ 2 * own'[id].column < Watermark

\* The page a process was reading when it died is never answered.
CatalogueStep ==
  /\ Next
  /\ skewed' = (skewed \/ Skews)
  /\ UNCHANGED held
  /\ IF boot' # "up" /\ walk = "page" THEN Forgotten
     ELSE /\ still' = (still /\ (walk \in {"count", "page"} =>
                                   List(own', query) = List(own, query)))
          /\ UNCHANGED <<walker, listed>>

FeedInit ==
  /\ Init
  /\ walk = "idle" /\ query = NoQuery /\ offset = 0 /\ total = 0 /\ got = <<>>
  /\ held = [id \in {} |-> 0]
  /\ listed = <<>> /\ still = TRUE
  /\ skewed = FALSE

FeedNext == CatalogueStep \/ StartWalk \/ CountRows \/ ReadPage \/ EndWalk

FeedSpec == FeedInit /\ [][FeedNext]_fvars

-----------------------------------------------------------------------------
(* Properties. *)

\* "X-Limit and Link rel=next only while more pages remain": a caller that
\* follows the Link headers of a list that stands still is given every object
\* its bounds admit, once, oldest first, whatever changes outside of them.  Its
\* bounds are whole seconds: a Link header drops their fractions.
WalkExact ==
  (walk = "done" /\ still) => got = listed

\* "It collects exactly the batch that moved": an object the pull job does not
\* hold as it is has a date it will ask for again, however its walks were cut
\* short and whatever was pushed, restamped or counted between their statements,
\* as long as nothing changed in the part of the list a walk had passed and no
\* row was dated before the job's watermark.
NothingMissed ==
  ~skewed =>
    \A id \in Locations \cap DOMAIN own :
      (id \notin DOMAIN held \/ held[id] # own[id].stamp) => Watermark <= 2 * own[id].column
=============================================================================
