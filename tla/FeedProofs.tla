----------------------------- MODULE FeedProofs -----------------------------
(***************************************************************************)
(* What holds of the feed beside the catalogue, for any finite set of      *)
(* locations, page lengths and bounds, whatever is pushed, restamped or    *)
(* seeded between two statements and wherever a caller gives up.           *)
(*                                                                         *)
(*   WalkExactAlways      FeedSpec => []WalkExact                          *)
(*   NothingMissedAlways  FeedSpec => []NothingMissed                      *)
(*   CatalogueKept        FeedSpec => [] of the invariants of Catalogue    *)
(*   FeedRestartKeeps     FeedSpec => RestartKeeps                         *)
(*                                                                         *)
(* The rows before a row are fewer than those before the next, so the      *)
(* ranks number the matching rows (RankNumbers) and a list has each of     *)
(* them once, in order (OrderedIs).  Exact says that a caller whose list   *)
(* has stood still was given it up to where its page begins, and has       *)
(* counted it right.  NothingMissed is inductive with Followed: the walk   *)
(* of the pull job asked from no later than the watermark, and what it has *)
(* passed the job holds as it is.  So an object that is missing from the   *)
(* job and not in its page comes after the page, and is no older than the  *)
(* watermark the page leaves (Behind).                                     *)
(***************************************************************************)
EXTENDS Feed, CatalogueProofs, SequenceTheorems, FiniteSetTheorems, TLAPS

-----------------------------------------------------------------------------
(* The order of a list. *)

\* What of a table is in the feed has dates.
Dated(table) ==
  \A id \in Locations \cap DOMAIN table : table[id].column \in Nat /\ table[id].stamp \in Nat

LEMMA MatchingIs ==
  ASSUME NEW table, NEW q
  PROVE  /\ Matching(table, q) \subseteq Locations \cap DOMAIN table
         /\ Matching(table, q) \subseteq Nat
         /\ IsFiniteSet(Matching(table, q))
         /\ Cardinality(Matching(table, q)) \in Nat
<1>1. Matching(table, q) \subseteq Locations \cap DOMAIN table
  BY DEF Matching
<1>2. Matching(table, q) \in SUBSET Locations
  BY <1>1
<1> QED
  BY <1>1, <1>2, OrderAssumption, FS_Subset, FS_CardinalityType

\* The rows before a row are fewer than those before one that it is before.
LEMMA RankGrows ==
  ASSUME NEW table, NEW q, Dated(table),
         NEW a \in Matching(table, q), NEW b \in Matching(table, q), Before(table, a, b)
  PROVE  /\ Rank(table, q, a) \in Nat /\ Rank(table, q, b) \in Nat
         /\ Rank(table, q, a) < Rank(table, q, b)
<1> DEFINE all == Matching(table, q)
           below(id) == {other \in all : Before(table, other, id)}
<1>1. /\ IsFiniteSet(all)
      /\ \A id \in all : id \in Nat /\ table[id].column \in Nat
  BY MatchingIs DEF Dated
<1>2. below(a) \subseteq below(b) /\ a \in below(b) /\ a \notin below(a)
  <2> HIDE DEF all
  <2> QED
    BY <1>1 DEF Before, all
<1>3. IsFiniteSet(below(b)) /\ below(b) \in SUBSET all /\ below(a) \in SUBSET below(b)
  BY <1>1, <1>2, FS_Subset
<1>4. IsFiniteSet(below(a)) /\ Cardinality(below(a)) <= Cardinality(below(b))
      /\ Cardinality(below(b)) # Cardinality(below(a))
  BY <1>2, <1>3, FS_Subset
<1>5. Cardinality(below(a)) \in Nat /\ Cardinality(below(b)) \in Nat
  BY <1>3, <1>4, FS_CardinalityType
<1>6. Rank(table, q, a) = Cardinality(below(a)) + 1 /\ Rank(table, q, b) = Cardinality(below(b)) + 1
  BY DEF Rank
<1> HIDE DEF below
<1> QED
  BY <1>4, <1>5, <1>6

\* Ranks number the matching rows from one.
LEMMA RankNumbers ==
  ASSUME NEW table, NEW q, Dated(table)
  PROVE  LET all == Matching(table, q)
             n == Cardinality(all)
         IN  /\ n \in Nat
             /\ \A id \in all : Rank(table, q, id) \in 1..n
             /\ \A a, b \in all : Rank(table, q, a) = Rank(table, q, b) => a = b
             /\ \A i \in 1..n : \E id \in all : Rank(table, q, id) = i
<1> DEFINE all == Matching(table, q)
           n == Cardinality(all)
           rank == [id \in all |-> Rank(table, q, id)]
<1>1. IsFiniteSet(all) /\ n \in Nat /\ \A id \in all : id \in Nat /\ table[id].column \in Nat
  BY MatchingIs DEF Dated
<1>2. ASSUME NEW id \in all
      PROVE  Rank(table, q, id) \in 1..n
  <2> DEFINE below == {other \in all : Before(table, other, id)}
  <2>1. below \in SUBSET (all \ {id})
    BY <1>1 DEF Before
  <2>2. IsFiniteSet(all \ {id}) /\ Cardinality(all \ {id}) = n - 1
    BY <1>1, FS_RemoveElement
  <2>3. IsFiniteSet(below) /\ Cardinality(below) <= n - 1
    BY <2>1, <2>2, FS_Subset
  <2>4. Cardinality(below) \in Nat
    BY <2>3, FS_CardinalityType
  <2>5. Rank(table, q, id) = Cardinality(below) + 1
    BY DEF Rank
  <2> HIDE DEF below
  <2> QED
    BY <1>1, <2>3, <2>4, <2>5
<1>3. ASSUME NEW a \in all, NEW b \in all, a # b
      PROVE  Rank(table, q, a) # Rank(table, q, b)
  <2>1. Before(table, a, b) \/ Before(table, b, a)
    BY <1>1, <1>3 DEF Before
  <2> QED
    BY <2>1, RankGrows
<1>4. rank \in [all -> 1..n]
  BY <1>2
<1>5. IsInjective(rank)
  BY <1>3 DEF IsInjective
<1>6. rank \in Injection(all, 1..n)
  BY <1>4, <1>5 DEF Injection
<1>7. IsFiniteSet(1..n) /\ Cardinality(1..n) = n
  <2>1. IsFiniteSet(1..n) /\ Cardinality(1..n) = IF 1 > n THEN 0 ELSE n - 1 + 1
    BY <1>1, FS_Interval
  <2> QED
    BY <1>1, <2>1
<1>8. rank \in Surjection(all, 1..n)
  BY <1>1, <1>6, <1>7, FS_Injection
<1>9. ASSUME NEW i \in 1..n
      PROVE  \E id \in all : Rank(table, q, id) = i
  BY <1>8 DEF Surjection
<1> QED
  BY <1>1, <1>2, <1>3, <1>9

\* A list has every matching row once, in the order of their dates.
LEMMA OrderedIs ==
  ASSUME NEW table, NEW q, Dated(table)
  PROVE  LET all == Matching(table, q)
             ids == Ordered(table, q)
         IN  /\ ids \in Seq(all) /\ Len(ids) = Cardinality(all)
             /\ \A id \in all : \E i \in 1..Len(ids) : ids[i] = id
             /\ \A i, j \in 1..Len(ids) :
                  i <= j => table[ids[i]].column <= table[ids[j]].column
<1> DEFINE all == Matching(table, q)
           n == Cardinality(all)
           ids == Ordered(table, q)
<1>1. /\ n \in Nat
      /\ \A id \in all : Rank(table, q, id) \in 1..n
      /\ \A a, b \in all : Rank(table, q, a) = Rank(table, q, b) => a = b
      /\ \A i \in 1..n : \E id \in all : Rank(table, q, id) = i
  BY RankNumbers
<1>2. /\ ids = [i \in 1..n |-> ids[i]]
      /\ \A i \in 1..n : ids[i] = CHOOSE id \in all : Rank(table, q, id) = i
  BY DEF Ordered
<1>3. \A id \in all : table[id].column \in Nat /\ id \in Nat
  BY MatchingIs DEF Dated
<1> HIDE DEF all, n, ids
<1>4. \A i \in 1..n : ids[i] \in all /\ Rank(table, q, ids[i]) = i
  BY <1>1, <1>2
<1>5. ids \in Seq(all) /\ Len(ids) = n
  BY <1>1, <1>2, <1>4
<1>6. ASSUME NEW id \in all
      PROVE  \E i \in 1..n : ids[i] = id
  BY <1>1, <1>4
<1>7. ASSUME NEW i \in 1..n, NEW j \in 1..n, i <= j
      PROVE  table[ids[i]].column <= table[ids[j]].column
  <2>1. ids[i] \in all /\ ids[j] \in all /\ Rank(table, q, ids[i]) = i /\ Rank(table, q, ids[j]) = j
    BY <1>4
  <2>2. ~Before(table, ids[j], ids[i])
    <3>1. SUFFICES ASSUME Before(table, ids[j], ids[i]) PROVE FALSE
      OBVIOUS
    <3>2. Rank(table, q, ids[j]) < Rank(table, q, ids[i])
      BY <2>1, <3>1, RankGrows DEF all
    <3> QED
      BY <1>1, <1>7, <2>1, <3>2
  <2> QED
    BY <1>3, <2>1, <2>2 DEF Before
<1> QED
  BY <1>5, <1>6, <1>7 DEF all, n, ids

Entries == Locations \X Nat

LEMMA ListIs ==
  ASSUME NEW table, NEW q, Dated(table)
  PROVE  LET list == List(table, q)
             ids == Ordered(table, q)
         IN  /\ list \in Seq(Entries)
             /\ Len(list) = Len(ids) /\ Len(list) = Cardinality(Matching(table, q))
             /\ \A i \in 1..Len(list) : list[i] = <<ids[i], table[ids[i]].stamp>>
<1> DEFINE all == Matching(table, q)
           ids == Ordered(table, q)
           list == List(table, q)
<1>1. ids \in Seq(all) /\ Len(ids) = Cardinality(all)
  BY OrderedIs
<1>2. \A id \in all : id \in Locations /\ table[id].stamp \in Nat
  BY MatchingIs DEF Dated
<1>3. list = [i \in DOMAIN ids |-> <<ids[i], table[ids[i]].stamp>>]
  BY DEF List
<1> HIDE DEF all, ids, list
<1>4. DOMAIN ids = 1..Len(ids) /\ Len(ids) \in Nat /\ \A i \in 1..Len(ids) : ids[i] \in all
  BY <1>1
<1>5. \A i \in 1..Len(ids) : <<ids[i], table[ids[i]].stamp>> \in Entries
  BY <1>2, <1>4 DEF Entries
<1>6. list \in Seq(Entries) /\ Len(list) = Len(ids)
  BY <1>3, <1>4, <1>5
<1> QED
  BY <1>1, <1>3, <1>4, <1>6 DEF all, ids, list

-----------------------------------------------------------------------------
(* The watermark. *)

LEMMA Greatest ==
  ASSUME NEW S \in SUBSET Nat, S # {}, NEW n \in Nat, \A s \in S : s <= n
  PROVE  \E m \in S : \A s \in S : s <= m
<1> DEFINE T == {n - s : s \in S}
           R == OpToRel(<, Nat)
<1>1. T \subseteq Nat /\ T # {}
  <2>1. \A s \in S : n - s \in Nat
    OBVIOUS
  <2> QED
    BY <2>1
<1>2. PICK x \in T : \A y \in T : ~(<<y, x>> \in R)
  BY <1>1, NatLessThanWellFounded, WFMin
<1>3. PICK m \in S : x = n - m
  OBVIOUS
<1>4. ASSUME NEW s \in S
      PROVE  s <= m
  <2>1. n - s \in T /\ n - s \in Nat /\ x \in Nat
    BY <1>1
  <2>2. ~(n - s < x)
    BY <1>2, <2>1 DEF OpToRel
  <2> QED
    BY <1>3, <2>2
<1> QED
  BY <1>4

Copies ==
  DOMAIN held \subseteq Locations /\ held \in [DOMAIN held -> 0..MaxTime]

WatermarkOK ==
  /\ Watermark \in Nat /\ Watermark % 2 = 0
  /\ \A id \in DOMAIN held : 2 * held[id] <= Watermark
  /\ Watermark = 0 \/ \E id \in DOMAIN held : Watermark = 2 * held[id]

\* The watermark is the newest date the job holds.
LEMMA WatermarkIs == Copies => WatermarkOK
<1> SUFFICES ASSUME Copies PROVE WatermarkOK
  OBVIOUS
<1> DEFINE S == {held[id] : id \in DOMAIN held}
<1>1. MaxTime \in Nat
  BY BoundAssumption
<1>2. \A id \in DOMAIN held : held[id] \in 0..MaxTime
  BY DEF Copies
<1>3. CASE DOMAIN held = {}
  BY <1>3 DEF WatermarkOK, Watermark, NoFrom
<1>4. CASE DOMAIN held # {}
  <2>1. S \in SUBSET Nat /\ S # {} /\ \A s \in S : s <= MaxTime
    BY <1>1, <1>2, <1>4
  <2>2. \E m \in S : \A s \in S : s <= m
    BY <1>1, <2>1, Greatest
  <2>3. \E m \in S : \A id \in DOMAIN held : held[id] <= m
    BY <2>2
  <2>4. Newest \in S /\ \A id \in DOMAIN held : held[id] <= Newest
    BY <2>3 DEF Newest
  <2>5. Newest \in Nat /\ Watermark = 2 * Newest
    BY <1>4, <2>1, <2>4 DEF Watermark
  <2>6. PICK id \in DOMAIN held : Newest = held[id]
    BY <2>4
  <2>7. (2 * Newest) % 2 = 0
    BY <2>5
  <2> QED
    BY <1>1, <1>2, <2>4, <2>5, <2>6, <2>7 DEF WatermarkOK
<1> QED
  BY <1>3, <1>4

LEMMA WatermarkNext == Copies' => WatermarkOK'
  BY WatermarkIs, PTL

-----------------------------------------------------------------------------
(* The catalogue beside a walk. *)

CatalogueInv == IInv /\ Shapes /\ SeedInv

LEMMA InitCatalogue == ASSUME Init PROVE CatalogueInv
  BY InitIInv, InitShapes, InitSeed DEF CatalogueInv

\* A walk that begins counts as a request and leaves the catalogue alone.
LEMMA StartCatalogue ==
  ASSUME CatalogueInv, StartWalk
  PROVE  CatalogueInv'
<1>1. /\ boot = "up" /\ started' \in 0..MaxRequests
      /\ UNCHANGED <<own, theirs, now, boot, bootLeft, torn, whole,
                     pc, obj, copy, edit, sent, time, left>>
  BY BoundAssumption
  DEF StartWalk, tables, process, history, locals, CatalogueInv, Shapes
<1>2. IInv'
  BY <1>1 DEF CatalogueInv, IInv, LocalsOK, RowsSound, CopiesSound
<1>3. Shapes'
  BY <1>1 DEF CatalogueInv, Shapes, Table
<1>4. SeedInv'
  BY <1>1 DEF CatalogueInv, SeedInv, BootAlone, Phases, Covering, Covered, Missing, AllOrNone
<1> QED
  BY <1>2, <1>3, <1>4 DEF CatalogueInv

LEMMA SameCatalogue ==
  ASSUME CatalogueInv, UNCHANGED cvars
  PROVE  CatalogueInv'
  BY NextIInv, NextShapes, NextSeed DEF CatalogueInv

LEMMA FeedCatalogue == ASSUME CatalogueInv, [FeedNext]_fvars PROVE CatalogueInv'
<1>1. CASE CatalogueStep
  BY <1>1, NextIInv, NextShapes, NextSeed DEF CatalogueStep, CatalogueInv
<1>2. CASE StartWalk
  BY <1>2, StartCatalogue
<1>3. CASE CountRows \/ ReadPage \/ EndWalk \/ UNCHANGED fvars
  <2>1. UNCHANGED cvars
    BY <1>3 DEF CountRows, ReadPage, EndWalk, fvars
  <2> QED
    BY <2>1, SameCatalogue
<1> QED
  BY <1>1, <1>2, <1>3 DEF FeedNext

DatedInTime ==
  /\ Dated(own)
  /\ \A id \in DOMAIN own :
       own[id].column = own[id].stamp /\ own[id].stamp \in 0..MaxTime

LEMMA OwnDated == CatalogueInv => DatedInTime
<1> SUFFICES ASSUME CatalogueInv PROVE DatedInTime
  OBVIOUS
<1>1. now \in Nat /\ now <= MaxTime
  BY BoundAssumption DEF CatalogueInv, Shapes
<1>2. \A id \in DOMAIN own : /\ own[id].column = own[id].stamp
                             /\ own[id].stamp \in Nat /\ own[id].stamp <= now
  BY DEF CatalogueInv, IInv, RowsSound, Sound, Row
<1> QED
  BY <1>1, <1>2, BoundAssumption DEF Dated, DatedInTime

LEMMA OwnDatedNext == CatalogueInv' => DatedInTime'
  BY OwnDated, PTL

-----------------------------------------------------------------------------
(* What a walk keeps. *)

FeedTypes ==
  /\ walk \in {"idle", "count", "page", "done"}
  /\ query \in [from : Nat, to : Nat, limit : Nat, keep : BOOLEAN]
  /\ offset \in Nat /\ total \in Nat
  /\ got \in Seq(Entries) /\ listed \in Seq(Entries)
  /\ still \in BOOLEAN /\ skewed \in BOOLEAN
  /\ Copies

Walking == walk \in {"count", "page"}

\* A page is a piece of the list.
LEMMA PageIs ==
  ASSUME CatalogueInv, FeedTypes
  PROVE  LET list == List(own, query)
             page == Page(own, query, offset)
             last == IF offset + query.limit < Len(list) THEN offset + query.limit ELSE Len(list)
         IN  /\ list \in Seq(Entries) /\ Len(list) \in Nat /\ last \in Nat
             /\ page = SubSeq(list, offset + 1, last) /\ page \in Seq(Entries)
             /\ DOMAIN page = 1..Len(page)
             /\ Len(page) = IF offset < last THEN last - offset ELSE 0
             /\ \A k \in 1..Len(page) : page[k] = list[offset + k] /\ offset + k \in 1..last
             /\ \A k \in 1..Len(page) :
                  page[k][1] \in Locations \cap DOMAIN own /\ page[k][2] = own[page[k][1]].stamp
<1> DEFINE list == List(own, query)
           ids == Ordered(own, query)
           page == Page(own, query, offset)
           last == IF offset + query.limit < Len(list) THEN offset + query.limit ELSE Len(list)
<1>1. /\ list \in Seq(Entries)
      /\ Len(list) = Len(ids)
      /\ \A i \in 1..Len(list) : list[i] = <<ids[i], own[ids[i]].stamp>>
  BY OwnDated, ListIs DEF DatedInTime
<1>2. ids \in Seq(Matching(own, query))
  BY OwnDated, OrderedIs DEF DatedInTime
<1>3. \A i \in 1..Len(list) : ids[i] \in Locations \cap DOMAIN own
  BY <1>1, <1>2, MatchingIs
<1>4. page = SubSeq(list, offset + 1, last)
  BY DEF Page
<1> HIDE DEF list, ids, page
<1>5. /\ Len(list) \in Nat /\ offset \in Nat /\ query.limit \in Nat
      /\ \A i \in 1..Len(list) : list[i] \in Entries
  BY <1>1 DEF FeedTypes
<1>6. last \in Nat /\ last <= Len(list)
  BY <1>5
<1>7. /\ page \in Seq(Entries)
      /\ Len(page) = IF offset + 1 <= last THEN last - (offset + 1) + 1 ELSE 0
      /\ \A k \in 1..(last - (offset + 1) + 1) : page[k] = list[offset + 1 + k - 1]
  <2>1. \A i \in (offset + 1)..last : list[i] \in Entries
    BY <1>5, <1>6
  <2> HIDE DEF last
  <2> QED
    BY <1>4, <1>5, <1>6, <2>1, SubSeqProperties
<1>8. Len(page) = IF offset < last THEN last - offset ELSE 0
  BY <1>5, <1>6, <1>7
<1>9. ASSUME NEW k \in 1..Len(page)
      PROVE  page[k] = list[offset + k] /\ offset + k \in 1..last
  <2>1. /\ offset < last /\ k \in 1..(last - offset)
    BY <1>5, <1>6, <1>8
  <2>2. k \in 1..(last - (offset + 1) + 1) /\ offset + 1 + k - 1 = offset + k
        /\ offset + k \in 1..last
    BY <1>5, <1>6, <2>1
  <2> QED
    BY <1>7, <2>2
<1>10. ASSUME NEW k \in 1..Len(page)
       PROVE  page[k][1] \in Locations \cap DOMAIN own /\ page[k][2] = own[page[k][1]].stamp
  <2>1. offset + k \in 1..Len(list)
    BY <1>5, <1>6, <1>9
  <2>2. page[k] = <<ids[offset + k], own[ids[offset + k]].stamp>>
    BY <1>1, <1>9, <2>1
  <2> QED
    BY <1>3, <2>1, <2>2
<1>11. DOMAIN page = 1..Len(page)
  BY <1>7
<1> QED
  BY <1>1, <1>4, <1>5, <1>6, <1>7, <1>8, <1>9, <1>10, <1>11 DEF list, page

LEMMA ForgottenTypes ==
  ASSUME FeedTypes, Forgotten, UNCHANGED <<held, skewed>>
  PROVE  FeedTypes' /\ walk' = "idle" /\ ~query'.keep
<1>1. query' \in [from : Nat, to : Nat, limit : Nat, keep : BOOLEAN] /\ ~query'.keep
  BY BoundAssumption, LimitAssumption DEF Forgotten, NoQuery, NoFrom, NoTo
<1> QED
  BY <1>1 DEF Forgotten, FeedTypes, Copies

LEMMA StartTypes ==
  ASSUME CatalogueInv, FeedTypes, StartWalk
  PROVE  /\ FeedTypes'
         /\ walk' = "count" /\ offset' = 0 /\ got' = <<>> /\ listed' = List(own, query')
         /\ still' = (query'.from % 2 = 0 /\ WholeSeconds(query'.to))
         /\ query'.keep => query'.from = Watermark /\ query'.to = NoTo
         /\ UNCHANGED <<own, held, skewed>>
<1>1. PICK asked \in Limits, from \in Bounds \cup {NoFrom}, to \in Bounds \cup {NoTo},
           keep \in BOOLEAN :
        /\ keep => from = NoFrom /\ to = NoTo
        /\ query' = [from |-> IF keep THEN Watermark ELSE from, to |-> to,
                     limit |-> PageLength(asked), keep |-> keep]
  BY DEF StartWalk
<1>2. /\ walk' = "count" /\ offset' = 0 /\ total' = 0 /\ got' = <<>>
      /\ listed' = List(own, query')
      /\ still' = (query'.from % 2 = 0 /\ WholeSeconds(query'.to))
      /\ UNCHANGED <<own, held, skewed>>
  BY DEF StartWalk, tables
<1>3. Watermark \in Nat
  BY WatermarkIs DEF FeedTypes, WatermarkOK
<1>4. PageLength(asked) \in Nat
  BY LimitAssumption DEF PageLength
<1>5. from \in Nat /\ to \in Nat
  BY BoundsAssumption, BoundAssumption DEF NoFrom, NoTo
<1>6. /\ query' \in [from : Nat, to : Nat, limit : Nat, keep : BOOLEAN]
      /\ query'.keep => query'.from = Watermark /\ query'.to = NoTo
  BY <1>1, <1>3, <1>4, <1>5
<1>7. listed' \in Seq(Entries)
  BY <1>2, OwnDated, ListIs DEF DatedInTime
<1>8. still' \in BOOLEAN
  BY <1>2 DEF WholeSeconds
<1> QED
  BY <1>2, <1>6, <1>7, <1>8 DEF FeedTypes, Copies

LEMMA LinkIs ==
  ASSUME NEW q \in [from : Nat, to : Nat, limit : Nat, keep : BOOLEAN]
  PROVE  /\ Link(q) \in [from : Nat, to : Nat, limit : Nat, keep : BOOLEAN]
         /\ q.from % 2 = 0 /\ WholeSeconds(q.to) => Link(q) = q
         /\ Link(q).keep = q.keep
<1> DEFINE from == q.from - (q.from % 2)
           to == IF q.to = NoTo THEN NoTo ELSE q.to - (q.to % 2)
<1>1. q.from \in Nat /\ q.to \in Nat /\ NoTo \in Nat
  BY BoundAssumption DEF NoTo
<1>2. from \in Nat /\ to \in Nat
  BY <1>1
<1>3. Link(q) = [[q EXCEPT !.from = from] EXCEPT !.to = to]
  BY DEF Link
<1>4. q.from % 2 = 0 /\ WholeSeconds(q.to) => from = q.from /\ to = q.to
  BY <1>1 DEF WholeSeconds
<1> HIDE DEF from, to
<1>5. /\ [[q EXCEPT !.from = from] EXCEPT !.to = to] \in
           [from : Nat, to : Nat, limit : Nat, keep : BOOLEAN]
      /\ [[q EXCEPT !.from = from] EXCEPT !.to = to].keep = q.keep
  BY <1>2
<1>6. from = q.from /\ to = q.to => [[q EXCEPT !.from = from] EXCEPT !.to = to] = q
  OBVIOUS
<1> QED
  BY <1>3, <1>4, <1>5, <1>6

LEMMA ReadTypes ==
  ASSUME CatalogueInv, FeedTypes, ReadPage
  PROVE  /\ FeedTypes'
         /\ query.keep =>
              \A id \in Locations \cap DOMAIN own :
                (\E k \in 1..Len(Page(own, query, offset)) : Page(own, query, offset)[k][1] = id)
                  => id \in DOMAIN held' /\ held'[id] = own[id].stamp
         /\ \A id \in DOMAIN held' :
              \/ id \in DOMAIN held /\ held'[id] = held[id]
              \/ /\ query.keep
                 /\ id \in DOMAIN own /\ held'[id] = own[id].stamp
                 /\ \E k \in 1..Len(Page(own, query, offset)) : Page(own, query, offset)[k][1] = id
         /\ DOMAIN held \subseteq DOMAIN held'
<1> DEFINE page == Page(own, query, offset)
<1>1. /\ page \in Seq(Entries) /\ DOMAIN page = 1..Len(page)
      /\ \A k \in 1..Len(page) : page[k][1] \in Locations \cap DOMAIN own
  BY PageIs
<1>2. /\ got' = got \o page
      /\ held' = IF query.keep
                 THEN [id \in DOMAIN held \cup {page[i][1] : i \in DOMAIN page} |->
                         IF \E i \in DOMAIN page : page[i][1] = id
                         THEN own[id].stamp ELSE held[id]]
                 ELSE held
      /\ walk' \in {"done", "count"} /\ total' = 0
      /\ offset' \in {offset, offset + query.limit}
      /\ query' \in {query, Link(query)}
      /\ UNCHANGED <<listed, still, skewed>>
  BY DEF ReadPage
<1> HIDE DEF page
<1>3. got' \in Seq(Entries)
  BY <1>1, <1>2, ConcatProperties DEF FeedTypes
<1>4. query' \in [from : Nat, to : Nat, limit : Nat, keep : BOOLEAN]
  BY <1>2, LinkIs DEF FeedTypes
<1>5. offset' \in Nat
  BY <1>2 DEF FeedTypes
<1>6. \A id \in DOMAIN own : own[id].stamp \in 0..MaxTime
  BY OwnDated DEF DatedInTime
<1>7. Copies'
  <2>1. CASE query.keep
    <3>1. DOMAIN held' = DOMAIN held \cup {page[i][1] : i \in DOMAIN page}
      BY <1>2, <2>1
    <3>2. DOMAIN held' \subseteq Locations
      BY <1>1, <3>1 DEF FeedTypes, Copies
    <3>3. ASSUME NEW id \in DOMAIN held' PROVE held'[id] \in 0..MaxTime
      <4>1. CASE \E i \in DOMAIN page : page[i][1] = id
        <5>1. held'[id] = own[id].stamp
          BY <1>2, <2>1, <3>1, <4>1
        <5> QED
          BY <1>1, <1>6, <4>1, <5>1
      <4>2. CASE ~\E i \in DOMAIN page : page[i][1] = id
        <5>1. held'[id] = held[id] /\ id \in DOMAIN held
          BY <1>2, <2>1, <3>1, <4>2
        <5> QED
          BY <5>1 DEF FeedTypes, Copies
      <4> QED
        BY <4>1, <4>2
    <3>4. held' = [id \in DOMAIN held' |-> held'[id]]
      BY <1>2, <2>1
    <3> QED
      BY <3>2, <3>3, <3>4 DEF Copies
  <2>2. CASE ~query.keep
    BY <1>2, <2>2 DEF FeedTypes, Copies
  <2> QED
    BY <2>1, <2>2
<1>8. FeedTypes'
  BY <1>2, <1>3, <1>4, <1>5, <1>7 DEF FeedTypes
<1>9. ASSUME query.keep, NEW id \in Locations \cap DOMAIN own, \E k \in 1..Len(page) : page[k][1] = id
      PROVE  id \in DOMAIN held' /\ held'[id] = own[id].stamp
  BY <1>1, <1>2, <1>9
<1>10. ASSUME NEW id \in DOMAIN held'
       PROVE  \/ id \in DOMAIN held /\ held'[id] = held[id]
              \/ /\ query.keep
                 /\ id \in DOMAIN own /\ held'[id] = own[id].stamp
                 /\ \E k \in 1..Len(page) : page[k][1] = id
  BY <1>1, <1>2
<1>11. DOMAIN held \subseteq DOMAIN held'
  BY <1>2
<1> QED
  BY <1>8, <1>9, <1>10, <1>11 DEF page

LEMMA NextFeedTypes == ASSUME CatalogueInv, FeedTypes, [FeedNext]_fvars PROVE FeedTypes'
<1>1. CASE CatalogueStep
  <2>1. CASE boot' # "up" /\ walk = "page"
    <3>1. Forgotten /\ UNCHANGED held /\ skewed' \in BOOLEAN
      BY <1>1, <2>1 DEF CatalogueStep, FeedTypes, Skews
    <3>2. query' \in [from : Nat, to : Nat, limit : Nat, keep : BOOLEAN]
      BY <3>1, BoundAssumption, LimitAssumption DEF Forgotten, NoQuery, NoFrom, NoTo
    <3> QED
      BY <3>1, <3>2 DEF FeedTypes, Copies, Forgotten
  <2>2. CASE ~(boot' # "up" /\ walk = "page")
    <3>1. UNCHANGED <<walker, listed, held>> /\ skewed' \in BOOLEAN /\ still' \in BOOLEAN
      BY <1>1, <2>2 DEF CatalogueStep, FeedTypes, Skews
    <3> QED
      BY <3>1 DEF FeedTypes, Copies, walker
  <2> QED
    BY <2>1, <2>2
<1>2. CASE StartWalk
  BY <1>2, StartTypes
<1>3. CASE CountRows
  <2>1. total' \in Nat
    BY <1>3, MatchingIs DEF CountRows
  <2> QED
    BY <1>3, <2>1 DEF CountRows, FeedTypes, Copies
<1>4. CASE ReadPage
  BY <1>4, ReadTypes
<1>5. CASE EndWalk
  BY <1>5, ForgottenTypes DEF EndWalk
<1>6. CASE UNCHANGED fvars
  BY <1>6 DEF fvars, walker, FeedTypes, Copies
<1> QED
  BY <1>1, <1>2, <1>3, <1>4, <1>5, <1>6 DEF FeedNext

LEMMA InitFeedTypes == ASSUME FeedInit PROVE FeedTypes
<1>1. NoQuery \in [from : Nat, to : Nat, limit : Nat, keep : BOOLEAN]
  BY BoundAssumption, LimitAssumption DEF NoQuery, NoFrom, NoTo
<1>2. Copies
  BY DEF FeedInit, Copies
<1>3. got \in Seq(Entries) /\ listed \in Seq(Entries)
  BY EmptySeq DEF FeedInit
<1>4. /\ walk = "idle" /\ query = NoQuery /\ offset = 0 /\ total = 0
      /\ still = TRUE /\ skewed = FALSE
  BY DEF FeedInit
<1> QED
  BY <1>1, <1>2, <1>3, <1>4 DEF FeedTypes

-----------------------------------------------------------------------------
(* A walk of a list that stands still. *)

\* It has been given the list up to where it is, and counted it right.
Exact ==
  still =>
    /\ Walking =>
         /\ query.from % 2 = 0 /\ WholeSeconds(query.to)
         /\ List(own, query) = listed
         /\ offset <= Len(listed)
         /\ got = SubSeq(listed, 1, offset)
         /\ walk = "page" => total = Len(listed)
    /\ walk = "done" => got = listed

LEMMA ReadExact == ASSUME CatalogueInv, FeedTypes, Exact, ReadPage PROVE Exact'
<1> DEFINE list == List(own, query)
           page == Page(own, query, offset)
           last == IF offset + query.limit < Len(list) THEN offset + query.limit ELSE Len(list)
<1>1. SUFFICES ASSUME still' PROVE Exact'
  BY DEF Exact
<1>2. /\ walk = "page" /\ still /\ UNCHANGED <<own, listed, still>> /\ got' = got \o page
      /\ IF NoMoreRows(offset + query.limit, total)
         THEN walk' = "done" /\ UNCHANGED <<query, offset>>
         ELSE /\ walk' = "count" /\ offset' = offset + query.limit /\ query' = Link(query)
  BY <1>1 DEF ReadPage, cvars, tables
<1>3. /\ query.from % 2 = 0 /\ WholeSeconds(query.to)
      /\ list = listed /\ offset <= Len(listed) /\ got = SubSeq(listed, 1, offset)
      /\ total = Len(listed)
  BY <1>2 DEF Exact, Walking
<1>4. /\ list \in Seq(Entries) /\ Len(list) \in Nat /\ last \in Nat
      /\ page = SubSeq(list, offset + 1, last)
  BY PageIs
<1>5. offset \in Nat /\ query.limit \in Nat /\ last >= offset /\ last <= Len(list)
  BY <1>3, <1>4 DEF FeedTypes
<1> HIDE DEF list, page, last
<1>6. SubSeq(list, 1, offset) \o SubSeq(list, offset + 1, last) = SubSeq(list, 1, last)
  <2>1. 1 \in 1..(Len(list) + 1) /\ offset \in (1 - 1)..Len(list) /\ last \in offset..Len(list)
    BY <1>3, <1>4, <1>5
  <2> QED
    BY <1>4, <2>1, ConcatAdjacentSubSeq
<1>7. got' = SubSeq(listed, 1, last)
  BY <1>2, <1>3, <1>4, <1>6
<1>8. CASE NoMoreRows(offset + query.limit, total)
  <2>1. last = Len(listed)
    BY <1>3, <1>4, <1>5, <1>8 DEF NoMoreRows, last
  <2>2. SubSeq(listed, 1, Len(listed)) = listed
    BY <1>3, <1>4, SubSeqFull
  <2> QED
    BY <1>2, <1>7, <1>8, <2>1, <2>2 DEF Exact, Walking
<1>9. CASE ~NoMoreRows(offset + query.limit, total)
  <2>1. last = offset + query.limit
    BY <1>3, <1>4, <1>5, <1>9 DEF NoMoreRows, last
  <2>2. query' = query
    BY <1>2, <1>3, <1>9, LinkIs DEF FeedTypes
  <2>3. List(own', query') = listed
    BY <1>2, <1>3, <2>2 DEF list
  <2> QED
    BY <1>2, <1>3, <1>5, <1>7, <1>9, <2>1, <2>2, <2>3 DEF Exact, Walking
<1> QED
  BY <1>8, <1>9

LEMMA NextExact == ASSUME CatalogueInv, FeedTypes, Exact, [FeedNext]_fvars PROVE Exact'
<1>1. CASE CatalogueStep
  <2>1. CASE boot' # "up" /\ walk = "page"
    BY <1>1, <2>1 DEF CatalogueStep, Forgotten, Exact, Walking
  <2>2. CASE ~(boot' # "up" /\ walk = "page")
    <3>1. /\ UNCHANGED <<walk, query, offset, total, got, listed>>
          /\ still' = (still /\ (Walking => List(own', query) = List(own, query)))
      BY <1>1, <2>2 DEF CatalogueStep, walker, Walking
    <3> QED
      BY <3>1 DEF Exact, Walking
  <2> QED
    BY <2>1, <2>2
<1>2. CASE StartWalk
  <2>1. /\ FeedTypes' /\ walk' = "count" /\ offset' = 0 /\ got' = <<>>
        /\ listed' = List(own', query')
        /\ still' = (query'.from % 2 = 0 /\ WholeSeconds(query'.to))
    BY <1>2, StartTypes
  <2>2. got' = SubSeq(listed', 1, offset') /\ offset' <= Len(listed')
    <3>1. Len(listed') \in Nat
      BY <2>1 DEF FeedTypes
    <3>2. SubSeq(listed', 1, 0) = <<>>
      BY SubSeqEmpty
    <3> QED
      BY <2>1, <3>1, <3>2
  <2> QED
    BY <2>1, <2>2 DEF Exact, Walking
<1>3. CASE CountRows
  <2>1. /\ walk = "count" /\ walk' = "page" /\ total' = Cardinality(Matching(own, query))
        /\ UNCHANGED <<own, query, offset, got, listed, still>>
    BY <1>3 DEF CountRows, cvars, tables
  <2>2. Len(List(own, query)) = Cardinality(Matching(own, query))
    BY OwnDated, ListIs DEF DatedInTime
  <2> QED
    BY <2>1, <2>2 DEF Exact, Walking
<1>4. CASE ReadPage
  BY <1>4, ReadExact
<1>5. CASE EndWalk
  BY <1>5 DEF EndWalk, Forgotten, Exact, Walking
<1>6. CASE UNCHANGED fvars
  BY <1>6 DEF fvars, walker, cvars, tables, Exact, Walking
<1> QED
  BY <1>1, <1>2, <1>3, <1>4, <1>5, <1>6 DEF FeedNext

-----------------------------------------------------------------------------
(* The pull job. *)

\* What it does not hold as it is.
Late(id) == id \notin DOMAIN held \/ held[id] # own[id].stamp

\* A walk of the job has what it passed, and asked for no less than what its
\* watermark says it lacks.
Followed ==
  query.keep /\ Walking /\ ~skewed =>
    /\ query.from <= Watermark /\ query.from % 2 = 0 /\ query.to = NoTo
    /\ \A entry \in Passed(own) : entry[1] \in DOMAIN held /\ held[entry[1]] = entry[2]

LEMMA MissedMeans ==
  NothingMissed <=>
    (~skewed => \A id \in Locations \cap DOMAIN own : Late(id) => Watermark <= 2 * own[id].column)
  BY DEF NothingMissed, Late

\* An object the job lacks and its page has not is behind the page in the list.
LEMMA Behind ==
  ASSUME CatalogueInv, FeedTypes, NothingMissed, Followed,
         query.keep, Walking, ~skewed,
         NEW id \in Locations \cap DOMAIN own, Late(id),
         \A k \in 1..Len(Page(own, query, offset)) : Page(own, query, offset)[k][1] # id,
         NEW j \in 1..Len(Page(own, query, offset))
  PROVE  /\ Page(own, query, offset)[j][1] \in DOMAIN own
         /\ own[Page(own, query, offset)[j][1]].column <= own[id].column
<1> DEFINE list == List(own, query)
           ids == Ordered(own, query)
           page == Page(own, query, offset)
           last == IF offset + query.limit < Len(list) THEN offset + query.limit ELSE Len(list)
<1>1. /\ Len(list) \in Nat /\ last \in Nat /\ offset \in Nat /\ query.limit \in Nat
      /\ Len(page) = IF offset < last THEN last - offset ELSE 0
      /\ \A k \in 1..Len(page) : page[k] = list[offset + k] /\ offset + k \in 1..last
      /\ \A k \in 1..Len(page) : page[k][1] \in Locations \cap DOMAIN own
  BY PageIs DEF FeedTypes
<1>2. /\ list \in Seq(Entries) /\ Len(list) = Len(ids)
      /\ \A i \in 1..Len(list) : list[i] = <<ids[i], own[ids[i]].stamp>>
  BY OwnDated, ListIs DEF DatedInTime
<1>3. /\ \A other \in Matching(own, query) : \E i \in 1..Len(ids) : ids[i] = other
      /\ \A m, n \in 1..Len(ids) : m <= n => own[ids[m]].column <= own[ids[n]].column
  BY OwnDated, OrderedIs DEF DatedInTime
<1>4. id \in Matching(own, query)
  <2>1. own[id].column \in Nat /\ own[id].column <= MaxTime /\ MaxTime \in Nat
    BY OwnDated, BoundAssumption DEF DatedInTime
  <2>2. query.from <= Watermark /\ Watermark <= 2 * own[id].column /\ query.to = NoTo
    BY MissedMeans DEF Followed
  <2>3. query.from \in Nat /\ Watermark \in Nat
    BY WatermarkIs DEF FeedTypes, WatermarkOK
  <2>4. query.from <= 2 * own[id].column /\ 2 * own[id].column < query.to
    BY <2>1, <2>2, <2>3 DEF NoTo
  <2> QED
    BY <2>4 DEF Matching, Matches
<1>5. PICK i \in 1..Len(list) : ids[i] = id
  BY <1>2, <1>3, <1>4
<1>6. i > offset
  <2>1. SUFFICES ASSUME i <= offset PROVE FALSE
    BY <1>1
  <2>2. list[i] \in Passed(own)
    <3>1. i \in DOMAIN list \cap 1..offset
      BY <1>1, <1>2, <2>1
    <3> QED
      BY <3>1 DEF Passed
  <2>3. list[i][1] = id /\ list[i][2] = own[id].stamp
    BY <1>2, <1>5
  <2> QED
    BY <2>2, <2>3 DEF Followed, Late
<1>7. i > last
  <2>1. SUFFICES ASSUME i <= last PROVE FALSE
    BY <1>1
  <2>2. i - offset \in 1..Len(page) /\ offset + (i - offset) = i
    BY <1>1, <1>6, <2>1
  <2>3. page[i - offset] = list[i]
    BY <1>1, <2>2
  <2>4. list[i][1] = id
    BY <1>2, <1>5
  <2> QED
    BY <2>2, <2>3, <2>4
<1> HIDE DEF list, ids, page, last
<1>8. offset + j \in 1..Len(ids) /\ offset + j <= i /\ page[j][1] = ids[offset + j]
  <2>1. offset + j \in 1..last /\ page[j] = list[offset + j]
    BY <1>1 DEF page
  <2>2. last <= Len(list)
    BY <1>1 DEF last
  <2> QED
    BY <1>1, <1>2, <1>7, <2>1, <2>2
<1>9. own[ids[offset + j]].column <= own[ids[i]].column
  BY <1>2, <1>3, <1>5, <1>8
<1> QED
  BY <1>1, <1>5, <1>8, <1>9 DEF page

\* The watermark never falls, and a page takes with it all that is before it.
LEMMA ReadMissed ==
  ASSUME CatalogueInv, FeedTypes, NothingMissed, Followed, ReadPage
  PROVE  NothingMissed' /\ Followed'
<1> DEFINE list == List(own, query)
           page == Page(own, query, offset)
           last == IF offset + query.limit < Len(list) THEN offset + query.limit ELSE Len(list)
           Given(id) == \E k \in 1..Len(page) : page[k][1] = id
<1>1. /\ FeedTypes'
      /\ query.keep =>
           \A id \in Locations \cap DOMAIN own :
             Given(id) => id \in DOMAIN held' /\ held'[id] = own[id].stamp
      /\ \A id \in DOMAIN held' :
           \/ id \in DOMAIN held /\ held'[id] = held[id]
           \/ /\ query.keep
              /\ id \in DOMAIN own /\ held'[id] = own[id].stamp
              /\ Given(id)
      /\ DOMAIN held \subseteq DOMAIN held'
  BY ReadTypes
<1>2. /\ walk = "page" /\ UNCHANGED <<own, skewed>>
      /\ IF NoMoreRows(offset + query.limit, total)
         THEN walk' = "done" /\ UNCHANGED <<query, offset>>
         ELSE /\ walk' = "count" /\ offset' = offset + query.limit /\ query' = Link(query)
  BY DEF ReadPage, cvars, tables
<1>3. query'.keep = query.keep
  BY <1>2, LinkIs DEF FeedTypes
<1>4. WatermarkOK /\ WatermarkOK'
  BY <1>1, WatermarkIs, WatermarkNext DEF FeedTypes
<1>5. \A id \in DOMAIN own : own[id].column = own[id].stamp /\ own[id].stamp \in Nat
  BY OwnDated, BoundAssumption DEF DatedInTime
<1>6. \A id \in DOMAIN held : held[id] \in Nat
  BY BoundAssumption DEF FeedTypes, Copies
<1> HIDE DEF page, list, last, Given
<1>7. CASE ~query.keep
  <2>1. held' = held
    BY <1>7 DEF ReadPage
  <2>2. Watermark' = Watermark
    BY <2>1 DEF Watermark, Newest
  <2> QED
    BY <1>2, <1>3, <1>7, <2>1, <2>2 DEF NothingMissed, Followed
<1>8. CASE skewed
  BY <1>2, <1>8 DEF NothingMissed, Followed
<1>9. CASE query.keep /\ ~skewed
  <2>1. Walking
    BY <1>2 DEF Walking
  <2>2. /\ query.from <= Watermark /\ query.from % 2 = 0 /\ query.to = NoTo
        /\ \A entry \in Passed(own) : entry[1] \in DOMAIN held /\ held[entry[1]] = entry[2]
    BY <1>9, <2>1 DEF Followed
  <2>3. \A id \in Locations \cap DOMAIN own : Late(id) => Watermark <= 2 * own[id].column
    BY <1>9, MissedMeans
  <2>4. ASSUME NEW id \in Locations \cap DOMAIN own, Late(id)'
        PROVE  Watermark' <= 2 * own[id].column
    <3>1. ~Given(id)
      BY <1>1, <1>2, <1>9, <2>4 DEF Late
    <3>2. Late(id)
      BY <1>1, <1>2, <2>4, <3>1 DEF Late
    <3>3. Watermark <= 2 * own[id].column
      BY <2>3, <3>2
    <3>4. ASSUME NEW other \in DOMAIN held'
          PROVE  2 * held'[other] <= 2 * own[id].column
      <4>1. CASE other \in DOMAIN held /\ held'[other] = held[other]
        <5>1. 2 * held[other] <= Watermark /\ Watermark \in Nat /\ held[other] \in Nat
          BY <1>4, <1>6, <4>1 DEF WatermarkOK
        <5> QED
          BY <1>5, <3>3, <4>1, <5>1
      <4>2. CASE other \in DOMAIN own /\ held'[other] = own[other].stamp /\ Given(other)
        <5>1. PICK j \in 1..Len(page) : page[j][1] = other
          BY <4>2 DEF Given
        <5>2. own[other].column <= own[id].column
          BY <1>9, <2>1, <3>1, <3>2, <5>1, Behind DEF Given, page
        <5> QED
          BY <1>5, <4>2, <5>2
      <4> QED
        BY <1>1, <4>1, <4>2
    <3> QED
      BY <1>4, <1>5, <3>4 DEF WatermarkOK
  <2>5. NothingMissed'
    BY <1>2, <2>4 DEF NothingMissed, Late
  <2>6. Watermark <= Watermark'
    <3>1. CASE Watermark = 0
      BY <1>4, <3>1 DEF WatermarkOK
    <3>2. ASSUME NEW id \in DOMAIN held, Watermark = 2 * held[id]
          PROVE  Watermark <= Watermark'
      <4>1. id \in DOMAIN held' /\ 2 * held'[id] <= Watermark'
        BY <1>1, <1>4 DEF WatermarkOK
      <4>2. CASE held'[id] = held[id]
        BY <3>2, <4>1, <4>2
      <4>3. CASE id \in DOMAIN own /\ held'[id] = own[id].stamp /\ held[id] # own[id].stamp
        <5>1. id \in Locations /\ Late(id)
          BY <4>3 DEF FeedTypes, Copies, Late
        <5>2. Watermark <= 2 * own[id].column
          BY <2>3, <4>3, <5>1
        <5>3. Watermark \in Nat /\ Watermark' \in Nat
          BY <1>4 DEF WatermarkOK
        <5> QED
          BY <1>5, <4>1, <4>3, <5>2, <5>3
      <4> QED
        BY <1>1, <4>1, <4>2, <4>3
    <3> QED
      BY <1>4, <3>1, <3>2 DEF WatermarkOK
  <2>7. CASE NoMoreRows(offset + query.limit, total)
    BY <1>2, <2>5, <2>7 DEF Followed, Walking
  <2>8. CASE ~NoMoreRows(offset + query.limit, total)
    <3>1. query' = query /\ offset' = offset + query.limit
      BY <1>2, <2>2, <2>8, LinkIs DEF FeedTypes, WholeSeconds
    <3>2. query.from <= Watermark'
      <4>1. query.from \in Nat /\ Watermark \in Nat /\ Watermark' \in Nat
        BY <1>4 DEF WatermarkOK, FeedTypes
      <4> QED
        BY <2>2, <2>6, <4>1
    <3>3. /\ Len(list) \in Nat /\ DOMAIN list = 1..Len(list)
          /\ \A i \in 1..Len(list) : /\ list[i][1] \in Locations \cap DOMAIN own
                                     /\ list[i][2] = own[list[i][1]].stamp
      <4>1. /\ list \in Seq(Entries) /\ Len(list) = Len(Ordered(own, query))
            /\ \A i \in 1..Len(list) :
                 list[i] = <<Ordered(own, query)[i], own[Ordered(own, query)[i]].stamp>>
        BY OwnDated, ListIs DEF DatedInTime, list
      <4>2. Ordered(own, query) \in Seq(Matching(own, query))
        BY OwnDated, OrderedIs DEF DatedInTime
      <4>3. \A i \in 1..Len(list) : Ordered(own, query)[i] \in Locations \cap DOMAIN own
        BY <4>1, <4>2, MatchingIs
      <4> QED
        BY <4>1, <4>3
    <3>4. ASSUME NEW i \in DOMAIN list \cap 1..(offset + query.limit)
          PROVE  list[i][1] \in DOMAIN held' /\ held'[list[i][1]] = list[i][2]
      <4>1. offset \in Nat /\ query.limit \in Nat
        BY DEF FeedTypes
      <4>2. CASE i <= offset
        <5>1. i \in DOMAIN list \cap 1..offset
          BY <3>3, <4>1, <4>2
        <5>2. list[i] \in Passed(own)
          BY <5>1 DEF Passed, list
        <5>3. list[i][1] \in DOMAIN held /\ held[list[i][1]] = list[i][2]
          BY <2>2, <5>2
        <5> QED
          BY <1>1, <3>3, <5>3
      <4>3. CASE i > offset
        <5>1. /\ i - offset \in 1..Len(page) /\ page[i - offset] = list[offset + (i - offset)]
              /\ offset + (i - offset) = i
          <6>1. /\ Len(page) = IF offset < last THEN last - offset ELSE 0
                /\ \A k \in 1..Len(page) : page[k] = list[offset + k]
            BY PageIs DEF page, list, last
          <6>2. i <= last /\ last \in Nat
            BY <3>3, <4>1 DEF last
          <6> QED
            BY <3>3, <4>1, <4>3, <6>1, <6>2
        <5>2. Given(list[i][1])
          BY <5>1 DEF Given
        <5> QED
          BY <1>1, <1>9, <3>3, <5>2
      <4> QED
        BY <3>3, <4>1, <4>2, <4>3
    <3>5. Passed(own)' = {list[i] : i \in DOMAIN list \cap 1..(offset + query.limit)}
      BY <1>2, <3>1 DEF Passed, list
    <3> QED
      BY <2>2, <2>5, <3>1, <3>2, <3>4, <3>5 DEF Followed
  <2> QED
    BY <2>5, <2>7, <2>8
<1> QED
  BY <1>7, <1>8, <1>9

\* Nothing the catalogue does beside a walk is missed, unless it is skewed.
LEMMA CatalogueMissed ==
  ASSUME CatalogueInv, CatalogueInv', FeedTypes, NothingMissed, Followed, CatalogueStep
  PROVE  NothingMissed' /\ Followed'
<1>1. SUFFICES ASSUME ~skewed' PROVE NothingMissed' /\ Followed'
  BY DEF NothingMissed, Followed
<1>2. ~skewed /\ ~Skews /\ UNCHANGED held
  BY <1>1 DEF CatalogueStep
<1>3. Watermark' = Watermark
  BY <1>2 DEF Watermark, Newest
<1>4. Watermark \in Nat
  BY WatermarkIs DEF FeedTypes, WatermarkOK
<1>5. \A id \in DOMAIN own' : own'[id].column \in Nat
  BY OwnDatedNext, BoundAssumption DEF DatedInTime
<1>6. ASSUME NEW id \in Locations \cap DOMAIN own', Late(id)'
      PROVE  Watermark <= 2 * own'[id].column
  <2>1. CASE id \in DOMAIN own /\ own'[id] = own[id]
    <3>1. Late(id)
      BY <1>2, <1>6, <2>1 DEF Late
    <3> QED
      BY <1>2, <2>1, <3>1, MissedMeans
  <2>2. CASE id \notin DOMAIN own \/ own'[id] # own[id]
    <3>1. ~(2 * own'[id].column < Watermark)
      BY <1>2, <2>2 DEF Skews
    <3> QED
      BY <1>4, <1>5, <3>1
  <2> QED
    BY <2>1, <2>2
<1>7. NothingMissed'
  BY <1>3, <1>6 DEF NothingMissed, Late
<1>8. Followed'
  <2>1. CASE boot' # "up" /\ walk = "page"
    BY <2>1 DEF CatalogueStep, Forgotten, Followed, Walking
  <2>2. CASE ~(boot' # "up" /\ walk = "page")
    <3>1. UNCHANGED <<walk, query, offset>>
      BY <2>2 DEF CatalogueStep, walker
    <3>2. query.keep /\ Walking => Passed(own') = Passed(own)
      BY <1>2 DEF Skews, Walking
    <3>3. Passed(own)' = Passed(own')
      BY <3>1 DEF Passed
    <3> QED
      BY <1>2, <1>3, <3>1, <3>2, <3>3 DEF Followed, Walking
  <2> QED
    BY <2>1, <2>2
<1> QED
  BY <1>7, <1>8

LEMMA NextMissed ==
  ASSUME CatalogueInv, CatalogueInv', FeedTypes, NothingMissed, Followed, [FeedNext]_fvars
  PROVE  NothingMissed' /\ Followed'
<1>1. CASE CatalogueStep
  BY <1>1, CatalogueMissed
<1>2. CASE StartWalk
  <2>1. /\ UNCHANGED <<own, held, skewed>> /\ offset' = 0 /\ FeedTypes'
        /\ query'.keep => query'.from = Watermark /\ query'.to = NoTo
    BY <1>2, StartTypes
  <2>2. Watermark' = Watermark
    BY <2>1 DEF Watermark, Newest
  <2>3. Watermark \in Nat /\ Watermark % 2 = 0
    BY WatermarkIs DEF FeedTypes, WatermarkOK
  <2>4. Passed(own)' = {}
    BY <2>1 DEF Passed
  <2> QED
    BY <2>1, <2>2, <2>3, <2>4 DEF NothingMissed, Followed
<1>3. CASE CountRows
  <2>1. walk = "count" /\ UNCHANGED <<own, query, offset, held, skewed>>
    BY <1>3 DEF CountRows, cvars, tables
  <2>2. Watermark' = Watermark /\ Passed(own)' = Passed(own)
    BY <2>1 DEF Watermark, Newest, Passed
  <2> QED
    BY <2>1, <2>2 DEF NothingMissed, Followed, Walking
<1>4. CASE ReadPage
  BY <1>4, ReadMissed
<1>5. CASE EndWalk
  <2>1. walk' = "idle" /\ UNCHANGED <<own, held, skewed>>
    BY <1>5 DEF EndWalk, Forgotten, cvars, tables
  <2>2. Watermark' = Watermark
    BY <2>1 DEF Watermark, Newest
  <2> QED
    BY <2>1, <2>2 DEF NothingMissed, Followed, Walking
<1>6. CASE UNCHANGED fvars
  <2>1. UNCHANGED <<own, walk, query, offset, held, skewed>>
    BY <1>6 DEF fvars, walker, cvars, tables
  <2>2. Watermark' = Watermark /\ Passed(own)' = Passed(own)
    BY <2>1 DEF Watermark, Newest, Passed
  <2> QED
    BY <2>1, <2>2 DEF NothingMissed, Followed, Walking
<1> QED
  BY <1>1, <1>2, <1>3, <1>4, <1>5, <1>6 DEF FeedNext

-----------------------------------------------------------------------------
(* Theorems. *)

FeedInv == CatalogueInv /\ FeedTypes /\ Exact /\ NothingMissed /\ Followed

LEMMA InitFeed == ASSUME FeedInit PROVE FeedInv
<1>1. CatalogueInv /\ FeedTypes
  BY InitCatalogue, InitFeedTypes DEF FeedInit
<1>2. Exact /\ NothingMissed /\ Followed
  BY DEF FeedInit, Init, Exact, Walking, NothingMissed, Followed
<1> QED
  BY <1>1, <1>2 DEF FeedInv

LEMMA NextFeed == ASSUME FeedInv, [FeedNext]_fvars PROVE FeedInv'
  BY FeedCatalogue, NextFeedTypes, NextExact, NextMissed DEF FeedInv

LEMMA FeedHolds == FeedSpec => []FeedInv
<1>1. FeedInit => FeedInv
  BY InitFeed
<1>2. FeedInv /\ [FeedNext]_fvars => FeedInv'
  BY NextFeed
<1> QED
  BY <1>1, <1>2, PTL DEF FeedSpec

\* A caller that follows the Link headers of a list that stands still is given
\* every object its bounds admit, once, in order, for any length of the list and
\* of its pages.
THEOREM WalkExactAlways == FeedSpec => []WalkExact
<1>1. FeedInv => WalkExact
  BY DEF FeedInv, Exact, WalkExact
<1> QED
  BY <1>1, FeedHolds, PTL

\* What the pull job lacks it will ask for again, unless a row was dated before
\* its watermark or the part of the list it had passed changed.
THEOREM NothingMissedAlways == FeedSpec => []NothingMissed
<1>1. FeedInv => NothingMissed
  BY DEF FeedInv
<1> QED
  BY <1>1, FeedHolds, PTL

\* What holds of the catalogue alone holds of it beside the walks of its feed.
THEOREM CatalogueKept ==
  FeedSpec => [](TypeOK /\ CatalogueWhole /\ BatchKept /\ DatedOnce /\ PartsCovered)
<1>1. FeedInv => TypeOK /\ CatalogueWhole
  BY ShapesGiveTypes, SeededWhole DEF FeedInv, CatalogueInv
<1>2. FeedInv => BatchKept /\ DatedOnce /\ PartsCovered
  BY DEF FeedInv, CatalogueInv, IInv, RowsSound, Sound, BatchKept, DatedOnce, PartsCovered
<1> QED
  BY <1>1, <1>2, FeedHolds, PTL

\* A start leaves the rows that are there alone, whoever reads the feed.
THEOREM FeedRestartKeeps == FeedSpec => RestartKeeps
<1>1. FeedInv /\ [FeedNext]_fvars =>
        [boot # "up" /\ ~torn => \A id \in DOMAIN own : own'[id] = own[id]]_cvars
  <2> SUFFICES ASSUME FeedInv, [FeedNext]_fvars, boot # "up", ~torn, NEW id \in DOMAIN own
               PROVE  own'[id] = own[id]
    OBVIOUS
  <2>1. CASE CatalogueStep
    BY <2>1, StartKeepsRows DEF CatalogueStep, FeedInv, CatalogueInv
  <2>2. CASE StartWalk
    BY <2>2 DEF StartWalk
  <2>3. CASE CountRows \/ ReadPage \/ EndWalk \/ UNCHANGED fvars
    BY <2>3 DEF CountRows, ReadPage, EndWalk, fvars, cvars, tables
  <2> QED
    BY <2>1, <2>2, <2>3 DEF FeedNext
<1> QED
  BY <1>1, FeedHolds, PTL DEF FeedSpec, RestartKeeps
=============================================================================
