----------------------------- MODULE PullProofs -----------------------------
(***************************************************************************)
(* What holds of Pull for every list, cap, page length and page guard,     *)
(* whatever the counterparty changes and whatever is lost.                 *)
(*                                                                         *)
(*   TypeCorrect       Spec => []TypeOK                                    *)
(*   WithinCapAlways   Spec => []WithinCap                                 *)
(*   NoGhostAlways     Spec => []NoGhost                                   *)
(*   ListCopiedAlways  Spec => []ListCopied                                *)
(*                                                                         *)
(* WithinCap is kept because what is left of a page never exceeds the room *)
(* under the cap (Room).  NoGhost speaks of rows; a row comes from a PUT   *)
(* under way or from the page a pull holds, so the invariant explains      *)
(* those in the same way (Explained).  ListCopied speaks of the end of a   *)
(* pull; the invariant says where it is in the list (Paging), that what it *)
(* holds is what the list has there and that all before is copied          *)
(* (Current), and that it stops short of a full page only at the end of    *)
(* the list or the cap (Counted).                                          *)
(***************************************************************************)
EXTENDS Pull, SequenceTheorems, FiniteSetTheorems, TLAPS

Types ==
  /\ feed \in Seq(Entry)
  /\ page \in Seq(Entry)
  /\ changes \in 0..MaxChanges
  /\ cap \in Nat /\ stored \in Nat /\ offset \in Nat

\* What is left of a page fits under the cap, only a page being cached is not
\* empty, and a pull starts from nothing.
Room ==
  /\ pc = "idle" => cap = 0 /\ stored = 0
  /\ pc # "cache" => page = <<>>
  /\ cap > 0 => stored + Len(page) <= cap

\* Why a row of id may be held, or come, although it is not listed.
Explained(id) ==
  \/ id \in mayReturn
  \/ \E call \in calls : call.method = "DELETE" /\ call.entry.id = id

\* All that is a row, or may become one, is listed or explained.
Sources ==
  /\ \A id \in DOMAIN received \ IdsOf(feed) : Explained(id)
  /\ \A call \in calls :
       call.method = "PUT" /\ call.entry.id \notin IdsOf(feed) => Explained(call.entry.id)
  /\ \A id \in IdsOf(page) \ IdsOf(feed) : Explained(id)

-----------------------------------------------------------------------------
(* Sequences. *)

\* Removing an element moves those behind it up by one.
LEMMA RemoveAtMoves ==
  ASSUME NEW list \in Seq(Entry), NEW i \in 1..Len(list)
  PROVE  /\ RemoveAt(list, i) \in Seq(Entry)
         /\ Len(RemoveAt(list, i)) = Len(list) - 1
         /\ \A n \in 1..(Len(list) - 1) :
              RemoveAt(list, i)[n] = list[IF n < i THEN n ELSE n + 1]
<1> DEFINE front == SubSeq(list, 1, i - 1)
           back == SubSeq(list, i + 1, Len(list))
<1>1. /\ front \in Seq(Entry) /\ Len(front) = i - 1
      /\ \A k \in 1..(i - 1) : front[k] = list[k]
  BY SubSeqProperties
<1>2. /\ back \in Seq(Entry) /\ Len(back) = Len(list) - i
      /\ \A k \in 1..(Len(list) - i) : back[k] = list[k + i]
  BY SubSeqProperties
<1>3. RemoveAt(list, i) = front \o back
  BY DEF RemoveAt
<1> HIDE DEF front, back
<1>4. /\ front \o back \in Seq(Entry)
      /\ Len(front \o back) = Len(list) - 1
      /\ \A n \in 1..(Len(list) - 1) : (front \o back)[n] =
           IF n <= i - 1 THEN front[n] ELSE back[n - (i - 1)]
  BY <1>1, <1>2, ConcatProperties
<1>5. ASSUME NEW n \in 1..(Len(list) - 1)
      PROVE  (front \o back)[n] = list[IF n < i THEN n ELSE n + 1]
  <2>1. CASE n < i
    <3>1. n <= i - 1 /\ n \in 1..(i - 1)
      BY <2>1
    <3> QED
      BY <1>1, <1>4, <2>1, <3>1
  <2>2. CASE ~(n < i)
    <3>1. /\ ~(n <= i - 1) /\ n - (i - 1) \in 1..(Len(list) - i)
          /\ (n - (i - 1)) + i = n + 1
      BY <2>2
    <3>2. (front \o back)[n] = back[n - (i - 1)]
      BY <1>4, <3>1
    <3>3. back[n - (i - 1)] = list[(n - (i - 1)) + i]
      BY <1>2, <3>1
    <3> QED
      BY <2>2, <3>1, <3>2, <3>3
  <2> QED
    BY <2>1, <2>2
<1> QED
  BY <1>3, <1>4, <1>5

\* Removing an element keeps the others.
LEMMA RemoveAtKeeps ==
  ASSUME NEW list \in Seq(Entry), NEW i \in 1..Len(list)
  PROVE  /\ RemoveAt(list, i) \in Seq(Entry)
         /\ \A id \in IdsOf(list) : id # list[i].id => id \in IdsOf(RemoveAt(list, i))
<1> DEFINE rest == RemoveAt(list, i)
<1>1. /\ rest \in Seq(Entry) /\ Len(rest) = Len(list) - 1
      /\ \A n \in 1..(Len(list) - 1) : rest[n] = list[IF n < i THEN n ELSE n + 1]
  BY RemoveAtMoves
<1> HIDE DEF rest
<1>2. ASSUME NEW id \in IdsOf(list), id # list[i].id
      PROVE  id \in IdsOf(rest)
  <2>1. PICK k \in 1..Len(list) : list[k].id = id /\ k # i
    BY <1>2 DEF IdsOf
  <2>2. DOMAIN rest = 1..(Len(list) - 1)
    BY <1>1
  <2>3. CASE k < i
    <3>1. k \in 1..(Len(list) - 1) /\ rest[k] = list[k]
      BY <2>3, <1>1
    <3> QED
      BY <2>1, <2>2, <3>1 DEF IdsOf
  <2>4. CASE k > i
    <3>1. k - 1 \in 1..(Len(list) - 1) /\ ~(k - 1 < i) /\ (k - 1) + 1 = k
      BY <2>4
    <3>2. rest[k - 1] = list[k]
      BY <3>1, <1>1
    <3> QED
      BY <2>1, <2>2, <3>1, <3>2 DEF IdsOf
  <2> QED
    BY <2>1, <2>3, <2>4
<1> QED
  BY <1>1, <1>2 DEF rest

\* Appending an element keeps those there are and adds its id.
LEMMA AppendKeeps ==
  ASSUME NEW list \in Seq(Entry), NEW entry \in Entry
  PROVE  /\ Append(list, entry) \in Seq(Entry)
         /\ IdsOf(list) \subseteq IdsOf(Append(list, entry))
         /\ entry.id \in IdsOf(Append(list, entry))
  BY AppendProperties DEF IdsOf

\* A piece of a list holds ids of the list.
LEMMA SubSeqIds ==
  ASSUME NEW list \in Seq(Entry), NEW m \in Nat \ {0}, NEW n \in Int, n <= Len(list)
  PROVE  /\ SubSeq(list, m, n) \in Seq(Entry)
         /\ IdsOf(SubSeq(list, m, n)) \subseteq IdsOf(list)
         /\ Len(SubSeq(list, m, n)) = IF n < m THEN 0 ELSE n - m + 1
<1>1. CASE n < m
  <2>1. SubSeq(list, m, n) = <<>>
    BY <1>1
  <2> QED
    BY <2>1, <1>1 DEF IdsOf
<1>2. CASE m <= n
  BY <1>2, SubSeqProperties DEF IdsOf
<1> QED
  BY <1>1, <1>2

LEMMA TailIds ==
  ASSUME NEW list \in Seq(Entry), list # <<>>
  PROVE  /\ Tail(list) \in Seq(Entry) /\ Len(Tail(list)) = Len(list) - 1
         /\ Head(list) \in Entry /\ Head(list).id \in IdsOf(list)
         /\ IdsOf(Tail(list)) \subseteq IdsOf(list)
  BY HeadTailProperties DEF IdsOf

LEMMA EmptyIds == IdsOf(<<>>) = {}
  BY DEF IdsOf

\* A page asked for is a piece of the list, and cut to the room under the cap.
LEMMA PageFits ==
  ASSUME Types, Room, GetPage
  PROVE  /\ page' \in Seq(Entry) /\ IdsOf(page') \subseteq IdsOf(feed)
         /\ cap > 0 => stored + Len(page') <= cap
<1> DEFINE last == Least(offset + PageLimit, Len(feed))
           items == SubSeq(feed, offset + 1, last)
           room == Least(cap - stored, Len(items))
<1>1. page = <<>> /\ Len(page) = 0
  BY DEF GetPage, Room
<1>2. last \in Int /\ last <= Len(feed) /\ offset + 1 \in Nat \ {0} /\ feed \in Seq(Entry)
  BY LimitAssumption DEF Types, Least
<1>3. items \in Seq(Entry) /\ IdsOf(items) \subseteq IdsOf(feed)
  BY <1>2, SubSeqIds
<1>4. page' = IF cap = 0 THEN items ELSE SubSeq(items, 1, room)
  BY DEF GetPage, Truncated
<1> HIDE DEF items
<1>5. CASE cap = 0
  BY <1>3, <1>4, <1>5
<1>6. CASE cap > 0
  <2>1. room \in Int /\ room <= Len(items) /\ room <= cap - stored /\ cap - stored >= 0
    BY <1>1, <1>3, <1>6 DEF Types, Room, Least
  <2>2. /\ SubSeq(items, 1, room) \in Seq(Entry)
        /\ IdsOf(SubSeq(items, 1, room)) \subseteq IdsOf(items)
        /\ Len(SubSeq(items, 1, room)) = IF room < 1 THEN 0 ELSE room
    BY <2>1, <1>3, SubSeqIds
  <2> QED
    BY <1>3, <1>4, <1>6, <2>1, <2>2 DEF Types
<1> QED
  BY <1>5, <1>6 DEF Types

-----------------------------------------------------------------------------
(* Types and the room under the cap. *)

\* The counterparty's steps and what our handlers do for it leave the pull alone.
Foreign == Publish \/ Withdraw \/ Lose \/ PutReceivedTariff \/ DeleteReceivedTariff

LEMMA ForeignTypes ==
  ASSUME Types, Foreign
  PROVE  Types' /\ UNCHANGED <<pc, walk>>
<1>1. CASE Publish
  <2>1. changes' \in 0..MaxChanges /\ UNCHANGED <<pc, walk>>
    BY <1>1, BoundAssumption DEF Publish, Types
  <2>2. PICK id \in Objects :
          LET entry == [id |-> id, ver |-> changes'] IN
            \/ feed' = Append(feed, entry)
            \/ \E i \in DOMAIN feed : feed' = Append(RemoveAt(feed, i), entry)
    BY <1>1 DEF Publish
  <2>3. [id |-> id, ver |-> changes'] \in Entry
    BY <2>1 DEF Entry
  <2>4. DOMAIN feed = 1..Len(feed) /\ feed \in Seq(Entry)
    BY DEF Types
  <2>5. feed' \in Seq(Entry)
    BY <2>2, <2>3, <2>4, RemoveAtKeeps, AppendKeeps
  <2> QED
    BY <2>1, <2>5 DEF Types, walk
<1>2. CASE Withdraw
  <2>1. changes' \in 0..MaxChanges /\ UNCHANGED <<pc, walk>>
    BY <1>2, BoundAssumption DEF Withdraw, Types
  <2>2. DOMAIN feed = 1..Len(feed) /\ feed \in Seq(Entry)
    BY DEF Types
  <2>3. feed' \in Seq(Entry)
    BY <1>2, <2>2, RemoveAtKeeps DEF Withdraw
  <2> QED
    BY <2>1, <2>3 DEF Types, walk
<1>3. CASE Lose \/ PutReceivedTariff \/ DeleteReceivedTariff
  BY <1>3 DEF Lose, PutReceivedTariff, DeleteReceivedTariff, Types, walk
<1> QED
  BY <1>1, <1>2, <1>3 DEF Foreign

LEMMA InitTypes == ASSUME Init PROVE Types /\ Room
<1>1. feed \in Seq(Entry)
  <2>1. Listed \in Seq(Objects) /\ DOMAIN Listed = 1..Len(Listed) /\ Len(Listed) \in Nat
    BY ListedAssumption
  <2>2. \A i \in 1..Len(Listed) : [id |-> Listed[i], ver |-> 0] \in Entry
    BY <2>1, BoundAssumption DEF Entry
  <2>3. feed = [i \in 1..Len(Listed) |-> [id |-> Listed[i], ver |-> 0]]
    BY <2>1 DEF Init
  <2> QED
    BY <2>1, <2>2, <2>3, IsASeq
<1> QED
  BY <1>1, BoundAssumption DEF Init, Types, Room

LEMMA NextTypes ==
  ASSUME Types, Room, [Next]_vars
  PROVE  Types' /\ Room'
<1>1. CASE Foreign
  BY <1>1, ForeignTypes DEF Room, walk
<1>2. CASE PullAllFromCounterparty \/ PullFromCounterparty
  <2>1. PICK most \in Nat, allowed \in {1, MaxPages} : StartWalk(allowed, most)
    <3>1. \A n \in Caps : n \in Nat
      BY CapsAssumption
    <3> QED
      BY <1>2, <3>1 DEF PullAllFromCounterparty, PullFromCounterparty
  <2>2. /\ cap' = most /\ pc' = "get" /\ UNCHANGED <<stored, page, offset, feed, changes>>
        /\ page = <<>> /\ stored = 0
    BY <2>1 DEF StartWalk, peer, Room
  <2> QED
    BY <2>2 DEF Types, Room
<1>3. CASE PullOneLocation
  <2>1. PICK i \in DOMAIN feed : page' = <<feed[i]>>
    BY <1>3 DEF PullOneLocation
  <2>2. feed[i] \in Entry
    BY DEF Types
  <2>3. page' \in Seq(Entry)
    BY <2>1, <2>2
  <2>4. cap = 0 /\ pc' = "cache" /\ UNCHANGED <<cap, stored, offset, feed, changes>>
    BY <1>3 DEF PullOneLocation, Room, peer
  <2> QED
    BY <2>3, <2>4 DEF Types, Room
<1>4. CASE GetPage
  BY <1>4, PageFits DEF GetPage, Types, Room, peer
<1>5. CASE GetFails \/ Report
  BY <1>5 DEF GetFails, Report, Return, Types, Room, peer
<1>6. CASE CacheObject
  <2>1. page \in Seq(Entry) /\ page # <<>>
    BY <1>6 DEF CacheObject, Types
  <2>2. Tail(page) \in Seq(Entry) /\ Len(Tail(page)) = Len(page) - 1
    BY <2>1, TailIds
  <2> QED
    BY <1>6, <2>1, <2>2 DEF CacheObject, Types, Room, peer
<1>7. CASE SkipObject
  <2>1. page \in Seq(Entry) /\ page # <<>>
    BY <1>7 DEF SkipObject, Types
  <2>2. Tail(page) \in Seq(Entry) /\ Len(Tail(page)) = Len(page) - 1
    BY <2>1, TailIds
  <2> QED
    BY <1>7, <2>1, <2>2 DEF SkipObject, Types, Room, peer
<1>8. CASE NextPage
  BY <1>8, LimitAssumption DEF NextPage, Types, Room, peer
<1>9. CASE EndPull
  BY <1>9 DEF EndPull, Types, Room, peer, walk
<1>10. CASE Done \/ UNCHANGED vars
  BY <1>10 DEF Done, vars, Types, Room, peer, walk
<1> QED
  BY <1>1, <1>2, <1>3, <1>4, <1>5, <1>6, <1>7, <1>8, <1>9, <1>10 DEF Next, Step, Foreign

\* No walk stores more than its cap, whatever a page holds and whatever of it
\* cannot be stored.
THEOREM WithinCapAlways == Spec => []WithinCap
<1>1. Init => Types /\ Room
  BY InitTypes
<1>2. Types /\ Room /\ [Next]_vars => (Types /\ Room)'
  BY NextTypes
<1>3. Types /\ Room => WithinCap
  <2> SUFFICES ASSUME Types, Room, cap > 0
               PROVE  stored <= cap
    BY DEF WithinCap
  <2>1. Len(page) \in Nat
    BY DEF Types
  <2> QED
    BY <2>1 DEF Types, Room
<1> QED
  BY <1>1, <1>2, <1>3, PTL DEF Spec

-----------------------------------------------------------------------------
(* Rows the counterparty no longer lists. *)

LEMMA InitSources == ASSUME Init PROVE Sources
  BY EmptyIds DEF Init, Sources

\* A step that takes no explanation away and adds no source keeps Sources.
LEMMA SourcesKept ==
  ASSUME Sources,
         \A id : Explained(id) => Explained(id)' \/ id \in IdsOf(feed'),
         IdsOf(feed) \subseteq IdsOf(feed'),
         DOMAIN received' \subseteq DOMAIN received \cup IdsOf(page) \cup IdsOf(feed'),
         \A call \in calls' : call.method = "PUT" => call \in calls \/ call.entry.id \in IdsOf(feed'),
         IdsOf(page') \subseteq IdsOf(page) \cup IdsOf(feed')
  PROVE  Sources'
  BY DEF Sources

LEMMA PublishSources == ASSUME Types, Sources, Publish PROVE Sources'
<1>1. changes' \in 0..MaxChanges /\ UNCHANGED <<received, page, mayReturn>>
  BY BoundAssumption DEF Publish, Types, walk
<1>2. PICK id \in Objects :
        LET entry == [id |-> id, ver |-> changes'] IN
          /\ \/ feed' = Append(feed, entry)
             \/ \E i \in DOMAIN feed :
                  feed[i].id = id /\ feed' = Append(RemoveAt(feed, i), entry)
          /\ calls' = calls \cup {[method |-> "PUT", entry |-> entry]}
  BY DEF Publish
<1> DEFINE entry == [id |-> id, ver |-> changes']
<1>3. entry \in Entry /\ entry.id = id
  BY <1>1 DEF Entry
<1>4. feed \in Seq(Entry) /\ DOMAIN feed = 1..Len(feed)
  BY DEF Types
<1> HIDE DEF entry
<1>5. IdsOf(feed) \subseteq IdsOf(feed') /\ id \in IdsOf(feed')
  <2>1. CASE feed' = Append(feed, entry)
    BY <2>1, <1>3, <1>4, AppendKeeps
  <2>2. CASE \E i \in DOMAIN feed : feed[i].id = id /\ feed' = Append(RemoveAt(feed, i), entry)
    <3>1. PICK i \in 1..Len(feed) : feed[i].id = id /\ feed' = Append(RemoveAt(feed, i), entry)
      BY <2>2, <1>4
    <3>2. /\ RemoveAt(feed, i) \in Seq(Entry)
          /\ \A other \in IdsOf(feed) : other # id => other \in IdsOf(RemoveAt(feed, i))
      BY <3>1, <1>4, RemoveAtKeeps
    <3> QED
      BY <3>1, <3>2, <1>3, AppendKeeps
  <2> QED
    BY <1>2, <2>1, <2>2 DEF entry
<1>6. \A call \in calls' : call \in calls \/ call.entry.id = id
  BY <1>2, <1>3 DEF entry
<1>7. \A other : Explained(other) => Explained(other)'
  BY <1>1, <1>2 DEF Explained
<1> QED
  BY <1>1, <1>5, <1>6, <1>7, SourcesKept

LEMMA WithdrawSources == ASSUME Types, Sources, Withdraw PROVE Sources'
<1>1. UNCHANGED <<received, page, mayReturn>>
  BY DEF Withdraw, walk
<1>2. PICK i \in DOMAIN feed :
        /\ feed' = RemoveAt(feed, i)
        /\ calls' = calls \cup
                      {[method |-> "DELETE", entry |-> [id |-> feed[i].id, ver |-> changes']]}
  BY DEF Withdraw
<1>3. feed \in Seq(Entry) /\ i \in 1..Len(feed)
  BY DEF Types
<1>4. \A id \in IdsOf(feed) : id # feed[i].id => id \in IdsOf(feed')
  BY <1>2, <1>3, RemoveAtKeeps
<1>5. ASSUME NEW id, id = feed[i].id
      PROVE  Explained(id)'
  <2> DEFINE call == [method |-> "DELETE", entry |-> [id |-> id, ver |-> changes']]
  <2>1. call \in calls'
    BY <1>2, <1>5
  <2>2. call.method = "DELETE" /\ call.entry.id = id
    OBVIOUS
  <2> HIDE DEF call
  <2> QED
    BY <2>1, <2>2 DEF Explained
<1>6. \A id : Explained(id) => Explained(id)'
  BY <1>1, <1>2 DEF Explained
<1>7. \A call \in calls' : call.method = "PUT" => call \in calls
  BY <1>2
<1>8. \A id : id \in IdsOf(feed) \/ Explained(id) => id \in IdsOf(feed') \/ Explained(id)'
  BY <1>4, <1>5, <1>6
<1> QED
  BY <1>1, <1>7, <1>8 DEF Sources

\* A lost DELETE leaves its object among those that may stay.
LEMMA LoseSources == ASSUME Sources, Lose PROVE Sources'
<1>1. UNCHANGED <<feed, received, page>>
  BY DEF Lose, walk
<1>2. PICK call \in calls :
        /\ calls' = calls \ {call}
        /\ mayReturn' =
             IF call.method = "DELETE" THEN mayReturn \cup {call.entry.id} ELSE mayReturn
  BY DEF Lose
<1>3. \A id : Explained(id) => Explained(id)'
  BY <1>2 DEF Explained
<1> QED
  BY <1>1, <1>2, <1>3 DEF Sources

LEMMA PutSources == ASSUME Sources, PutReceivedTariff PROVE Sources'
<1>1. UNCHANGED <<feed, page, mayReturn>>
  BY DEF PutReceivedTariff, walk
<1>2. PICK call \in calls :
        /\ call.method = "PUT" /\ calls' = calls \ {call}
        /\ received' = Upsert(received, call.entry)
  BY DEF PutReceivedTariff
<1>3. \A id : Explained(id) => Explained(id)'
  BY <1>1, <1>2 DEF Explained
<1>4. DOMAIN received' = DOMAIN received \cup {call.entry.id}
  BY <1>2 DEF Upsert
<1> QED
  BY <1>1, <1>2, <1>3, <1>4 DEF Sources

\* A DELETE leaves no row, and what could bring one back marks its object.
LEMMA DeleteSources == ASSUME Sources, DeleteReceivedTariff PROVE Sources'
<1>1. UNCHANGED <<feed, page>>
  BY DEF DeleteReceivedTariff, walk
<1>2. PICK call \in calls :
        /\ call.method = "DELETE" /\ calls' = calls \ {call}
        /\ received' = DeleteRow(received, call.entry.id)
        /\ mayReturn' = IF Pending(call.entry.id, calls') THEN mayReturn \cup {call.entry.id}
                        ELSE mayReturn \ {call.entry.id}
  BY DEF DeleteReceivedTariff
<1> DEFINE gone == call.entry.id
<1>3. DOMAIN received' = DOMAIN received \ {gone}
  BY <1>2 DEF DeleteRow
<1>4. \A id : Explained(id) /\ id # gone => Explained(id)'
  BY <1>2 DEF Explained
<1>5. Pending(gone, calls') => Explained(gone)'
  BY <1>2 DEF Explained
<1>6. \A other \in calls' : other.method = "PUT" /\ other.entry.id = gone => Pending(gone, calls')
  BY DEF Pending
<1>7. gone \in IdsOf(page) => Pending(gone, calls')
  BY DEF Pending
<1> QED
  BY <1>1, <1>2, <1>3, <1>4, <1>5, <1>6, <1>7 DEF Sources

LEMMA NextSources == ASSUME Types, Room, Sources, [Next]_vars PROVE Sources'
<1>1. CASE Publish \/ Withdraw \/ Lose \/ PutReceivedTariff \/ DeleteReceivedTariff
  BY <1>1, PublishSources, WithdrawSources, LoseSources, PutSources, DeleteSources
<1>2. CASE PullOneLocation
  <2>1. UNCHANGED <<feed, calls, received, mayReturn>> /\ IdsOf(page') \subseteq IdsOf(feed)
    BY <1>2 DEF PullOneLocation, peer, IdsOf
  <2> QED
    BY <2>1 DEF Sources, Explained
<1>3. CASE GetPage
  <2>1. UNCHANGED <<feed, calls, received, mayReturn>> /\ IdsOf(page') \subseteq IdsOf(feed)
    BY <1>3, PageFits DEF GetPage, peer
  <2> QED
    BY <2>1 DEF Sources, Explained
<1>4. CASE GetFails \/ Report
  <2>1. UNCHANGED <<feed, calls, received, mayReturn>> /\ IdsOf(page') = {}
    BY <1>4, EmptyIds DEF GetFails, Report, Return, peer
  <2> QED
    BY <2>1 DEF Sources, Explained
<1>5. CASE CacheObject
  <2>1. UNCHANGED <<feed, calls, mayReturn>> /\ page' = Tail(page)
        /\ DOMAIN received' = DOMAIN received \cup {Head(page).id}
    BY <1>5 DEF CacheObject, peer, Upsert
  <2>2. Head(page).id \in IdsOf(page) /\ IdsOf(page') \subseteq IdsOf(page)
    BY <1>5, <2>1, TailIds DEF CacheObject, Types
  <2> QED
    BY <2>1, <2>2 DEF Sources, Explained
<1>6. CASE SkipObject
  <2>1. UNCHANGED <<feed, calls, received, mayReturn>> /\ page' = Tail(page)
    BY <1>6 DEF SkipObject, peer
  <2>2. IdsOf(page') \subseteq IdsOf(page)
    BY <1>6, <2>1, TailIds DEF SkipObject, Types
  <2> QED
    BY <2>1, <2>2 DEF Sources, Explained
<1>7. CASE \/ PullAllFromCounterparty \/ PullFromCounterparty
           \/ NextPage \/ EndPull \/ Done \/ UNCHANGED vars
  <2>1. UNCHANGED <<feed, calls, received, mayReturn, page>>
    BY <1>7 DEF PullAllFromCounterparty, PullFromCounterparty, StartWalk,
               NextPage, EndPull, Done, vars, peer, walk
  <2> QED
    BY <2>1 DEF Sources, Explained
<1> QED
  BY <1>1, <1>2, <1>3, <1>4, <1>5, <1>6, <1>7 DEF Next, Step

\* A row the counterparty no longer lists always has a reason: its DELETE is
\* still to come, was lost, or was overtaken.
THEOREM NoGhostAlways == Spec => []NoGhost
<1>1. Init => Types /\ Room /\ Sources
  BY InitTypes, InitSources
<1>2. Types /\ Room /\ Sources /\ [Next]_vars => (Types /\ Room /\ Sources)'
  BY NextTypes, NextSources
<1>3. Sources => NoGhost
  BY DEF Sources, Explained, NoGhost
<1> QED
  BY <1>1, <1>2, <1>3, PTL DEF Spec

-----------------------------------------------------------------------------
(* The shape of the state. *)

\* The rest of TypeOK that a step of it keeps by itself.
Shapes ==
  /\ calls \subseteq [method : {"PUT", "DELETE"}, entry : Entry]
  /\ received \in [DOMAIN received -> 0..MaxChanges]
  /\ pulls \in 0..MaxPulls
  /\ cap \in Caps \cup {0}
  /\ total \in {NoTotal} \cup 0..Cardinality(Objects)
  /\ began \in Seq(Entry)
  /\ steady \in BOOLEAN
  /\ skipped \subseteq Objects
  /\ mayReturn \subseteq Objects

Once(list) == \A i, j \in DOMAIN list : list[i].id = list[j].id => i = j

\* The list has an object once, the list as it was too; and what may be stored
\* of an object that no row can be made of is nothing.
Keyed ==
  /\ Once(feed) /\ Once(began)
  /\ DOMAIN received \subseteq Objects \ Broken
  /\ \A call \in calls : call.method = "PUT" => call.entry.id \notin Broken

AtRest ==
  /\ cap = 0 /\ budget = 0 /\ offset = 0 /\ pages = 0 /\ total = NoTotal /\ stored = 0
  /\ page = <<>> /\ size = 0 /\ began = <<>> /\ steady /\ skipped = {}

\* How far into the list the pull has come.
Handled == IF pc \in {"cache", "over"} THEN offset + size - Len(page) ELSE offset

\* A page begins where the pages before it ended.
Paging ==
  /\ pc \in {"idle", "get", "cache", "over"}
  /\ pc = "idle" => AtRest
  /\ pc # "idle" => budget \in {1, MaxPages}
  /\ pc = "get" => pages \in 0..(budget - 1) /\ offset = pages * PageLimit
  /\ pc \in {"cache", "over"} => pages \in 1..budget /\ offset = (pages - 1) * PageLimit
  /\ size \in 0..PageLimit /\ Len(page) <= size
  /\ stored <= Handled
  /\ pc = "over" => Ends

-----------------------------------------------------------------------------
(* A list has an object once. *)

LEMMA RemoveAtOnce ==
  ASSUME NEW list \in Seq(Entry), NEW i \in 1..Len(list), Once(list)
  PROVE  Once(RemoveAt(list, i)) /\ list[i].id \notin IdsOf(RemoveAt(list, i))
<1> DEFINE rest == RemoveAt(list, i)
<1>1. /\ rest \in Seq(Entry) /\ Len(rest) = Len(list) - 1
      /\ \A n \in 1..(Len(list) - 1) : rest[n] = list[IF n < i THEN n ELSE n + 1]
  BY RemoveAtMoves
<1>2. DOMAIN rest = 1..(Len(list) - 1) /\ DOMAIN list = 1..Len(list)
  BY <1>1
<1> HIDE DEF rest
<1>3. ASSUME NEW m \in DOMAIN rest, NEW n \in DOMAIN rest, rest[m].id = rest[n].id
      PROVE  m = n
  <2> DEFINE k == IF m < i THEN m ELSE m + 1
             l == IF n < i THEN n ELSE n + 1
  <2>1. k \in DOMAIN list /\ l \in DOMAIN list
    BY <1>2
  <2>2. list[k].id = list[l].id
    BY <1>1, <1>2, <1>3
  <2>3. k = l
    BY <2>1, <2>2 DEF Once
  <2> QED
    BY <1>2, <2>3
<1>4. ASSUME NEW n \in DOMAIN rest
      PROVE  rest[n].id # list[i].id
  <2> DEFINE l == IF n < i THEN n ELSE n + 1
  <2>1. l \in DOMAIN list /\ l # i /\ rest[n] = list[l]
    BY <1>1, <1>2
  <2> QED
    BY <1>2, <2>1 DEF Once
<1> QED
  BY <1>3, <1>4 DEF Once, IdsOf, rest

LEMMA AppendOnce ==
  ASSUME NEW list \in Seq(Entry), Once(list), NEW entry \in Entry, entry.id \notin IdsOf(list)
  PROVE  Once(Append(list, entry))
<1>1. /\ Append(list, entry) \in Seq(Entry) /\ Len(Append(list, entry)) = Len(list) + 1
      /\ \A k \in 1..Len(list) : Append(list, entry)[k] = list[k]
      /\ Append(list, entry)[Len(list) + 1] = entry
  BY AppendProperties
<1>2. DOMAIN Append(list, entry) = 1..(Len(list) + 1) /\ DOMAIN list = 1..Len(list)
  BY <1>1
<1>3. \A k \in 1..Len(list) : list[k].id # entry.id
  BY <1>2 DEF IdsOf
<1> QED
  BY <1>1, <1>2, <1>3 DEF Once

\* A list with an object once is no longer than there are objects.
LEMMA OnceLength ==
  ASSUME NEW list \in Seq(Entry), Once(list)
  PROVE  Len(list) \in 0..Cardinality(Objects)
<1> DEFINE ids == [i \in 1..Len(list) |-> list[i].id]
<1>1. DOMAIN list = 1..Len(list) /\ Len(list) \in Nat /\ \A i \in 1..Len(list) : list[i] \in Entry
  OBVIOUS
<1>2. ids \in [1..Len(list) -> Objects]
  BY <1>1 DEF Entry
<1>3. IsInjective(ids)
  BY <1>1 DEF Once, IsInjective
<1>4. ids \in Injection(1..Len(list), Objects)
  BY <1>2, <1>3 DEF Injection
<1>5. Cardinality(1..Len(list)) <= Cardinality(Objects) /\ Cardinality(Objects) \in Nat
  BY <1>4, ListedAssumption, FS_Injection, FS_CardinalityType
<1>6. Cardinality(1..Len(list)) = Len(list)
  <2>1. Cardinality(1..Len(list)) = IF 1 > Len(list) THEN 0 ELSE Len(list) - 1 + 1
    BY <1>1, FS_Interval
  <2> QED
    BY <1>1, <2>1
<1> QED
  BY <1>1, <1>5, <1>6

LEMMA ForeignKeyed == ASSUME Types, Shapes, Keyed, Foreign PROVE Keyed' /\ UNCHANGED began
<1>1. CASE Publish
  <2>1. changes' \in 0..MaxChanges /\ UNCHANGED <<received, began>>
    BY <1>1, BoundAssumption DEF Publish, Types
  <2>2. PICK id \in Objects \ Broken :
          LET entry == [id |-> id, ver |-> changes'] IN
            /\ \/ id \notin IdsOf(feed) /\ feed' = Append(feed, entry)
               \/ \E i \in DOMAIN feed :
                    feed[i].id = id /\ feed' = Append(RemoveAt(feed, i), entry)
            /\ calls' = calls \cup {[method |-> "PUT", entry |-> entry]}
    BY <1>1 DEF Publish
  <2> DEFINE entry == [id |-> id, ver |-> changes']
  <2>3. entry \in Entry /\ entry.id = id
    BY <2>1 DEF Entry
  <2>4. feed \in Seq(Entry) /\ DOMAIN feed = 1..Len(feed) /\ Once(feed)
    BY DEF Types, Keyed
  <2>5. \A call \in calls' : call \in calls \/ call.entry.id = id
    BY <2>2
  <2> HIDE DEF entry
  <2>6. Once(feed')
    <3>1. CASE id \notin IdsOf(feed) /\ feed' = Append(feed, entry)
      BY <3>1, <2>3, <2>4, AppendOnce
    <3>2. CASE \E i \in DOMAIN feed : feed[i].id = id /\ feed' = Append(RemoveAt(feed, i), entry)
      <4>1. PICK i \in 1..Len(feed) : feed[i].id = id /\ feed' = Append(RemoveAt(feed, i), entry)
        BY <3>2, <2>4
      <4>2. RemoveAt(feed, i) \in Seq(Entry)
        BY <2>4, RemoveAtKeeps
      <4>3. Once(RemoveAt(feed, i)) /\ id \notin IdsOf(RemoveAt(feed, i))
        BY <2>4, <4>1, RemoveAtOnce
      <4> QED
        BY <4>1, <4>2, <4>3, <2>3, AppendOnce
    <3> QED
      BY <2>2, <3>1, <3>2 DEF entry
  <2> QED
    BY <2>1, <2>5, <2>6 DEF Keyed
<1>2. CASE Withdraw
  <2>1. PICK i \in DOMAIN feed :
          /\ feed' = RemoveAt(feed, i)
          /\ calls' = calls \cup
                        {[method |-> "DELETE", entry |-> [id |-> feed[i].id, ver |-> changes']]}
    BY <1>2 DEF Withdraw
  <2>2. feed \in Seq(Entry) /\ i \in 1..Len(feed)
    BY DEF Types
  <2>3. Once(feed')
    BY <2>1, <2>2, RemoveAtOnce DEF Keyed
  <2>4. UNCHANGED <<received, began>> /\ \A call \in calls' : call.method = "PUT" => call \in calls
    BY <1>2, <2>1 DEF Withdraw
  <2> QED
    BY <2>3, <2>4 DEF Keyed
<1>3. CASE Lose
  BY <1>3 DEF Lose, Keyed, history
<1>4. CASE PutReceivedTariff
  <2>1. PICK call \in calls : /\ call.method = "PUT" /\ calls' = calls \ {call}
                              /\ received' = Upsert(received, call.entry)
    BY <1>4 DEF PutReceivedTariff
  <2>2. call.entry.id \in Objects \ Broken
    BY <2>1 DEF Shapes, Keyed, Entry
  <2>3. DOMAIN received' = DOMAIN received \cup {call.entry.id}
    BY <2>1 DEF Upsert
  <2> QED
    BY <1>4, <2>1, <2>2, <2>3 DEF PutReceivedTariff, Keyed
<1>5. CASE DeleteReceivedTariff
  <2>1. PICK call \in calls : /\ calls' = calls \ {call}
                              /\ received' = DeleteRow(received, call.entry.id)
    BY <1>5 DEF DeleteReceivedTariff
  <2>2. DOMAIN received' \subseteq DOMAIN received
    BY <2>1 DEF DeleteRow
  <2> QED
    BY <1>5, <2>1, <2>2 DEF DeleteReceivedTariff, Keyed
<1> QED
  BY <1>1, <1>2, <1>3, <1>4, <1>5 DEF Foreign

LEMMA ForeignShapes == ASSUME Types, Shapes, Foreign PROVE Shapes'
<1>1. CASE Publish
  <2>1. /\ changes' \in 0..MaxChanges
        /\ UNCHANGED <<received, pulls, pc, walk, began, skipped, mayReturn>>
    BY <1>1, BoundAssumption DEF Publish, Types
  <2>2. PICK id \in Objects :
          LET entry == [id |-> id, ver |-> changes'] IN
            /\ UNCHANGED steady \/ steady' = (pc = "idle")
            /\ calls' = calls \cup {[method |-> "PUT", entry |-> entry]}
    BY <1>1 DEF Publish
  <2>3. [id |-> id, ver |-> changes'] \in Entry
    BY <2>1 DEF Entry
  <2>4. calls' \subseteq [method : {"PUT", "DELETE"}, entry : Entry]
    BY <2>2, <2>3 DEF Shapes
  <2> QED
    BY <2>1, <2>2, <2>4 DEF Shapes, walk
<1>2. CASE Withdraw
  <2>1. /\ changes' \in 0..MaxChanges
        /\ UNCHANGED <<received, pulls, pc, walk, began, skipped, mayReturn>>
        /\ steady' = (pc = "idle")
    BY <1>2, BoundAssumption DEF Withdraw, Types
  <2>2. PICK i \in DOMAIN feed :
          calls' = calls \cup
                     {[method |-> "DELETE", entry |-> [id |-> feed[i].id, ver |-> changes']]}
    BY <1>2 DEF Withdraw
  <2>3. feed[i] \in Entry
    BY DEF Types
  <2>4. [id |-> feed[i].id, ver |-> changes'] \in Entry
    BY <2>1, <2>3 DEF Entry
  <2>5. calls' \subseteq [method : {"PUT", "DELETE"}, entry : Entry]
    BY <2>2, <2>4 DEF Shapes
  <2> QED
    BY <2>1, <2>5 DEF Shapes, walk
<1>3. CASE Lose
  <2>1. PICK call \in calls :
          /\ calls' = calls \ {call}
          /\ mayReturn' =
               IF call.method = "DELETE" THEN mayReturn \cup {call.entry.id} ELSE mayReturn
    BY <1>3 DEF Lose
  <2>2. call.entry.id \in Objects
    BY DEF Shapes, Entry
  <2> QED
    BY <1>3, <2>1, <2>2 DEF Lose, Shapes, walk, history
<1>4. CASE PutReceivedTariff
  <2>1. PICK call \in calls : calls' = calls \ {call} /\ received' = Upsert(received, call.entry)
    BY <1>4 DEF PutReceivedTariff
  <2>2. call.entry.ver \in 0..MaxChanges
    BY DEF Shapes, Entry
  <2>3. received' \in [DOMAIN received' -> 0..MaxChanges]
    BY <2>1, <2>2 DEF Shapes, Upsert
  <2> QED
    BY <1>4, <2>1, <2>3 DEF PutReceivedTariff, Shapes, walk
<1>5. CASE DeleteReceivedTariff
  <2>1. PICK call \in calls :
          /\ calls' = calls \ {call} /\ received' = DeleteRow(received, call.entry.id)
          /\ mayReturn' = IF Pending(call.entry.id, calls') THEN mayReturn \cup {call.entry.id}
                          ELSE mayReturn \ {call.entry.id}
    BY <1>5 DEF DeleteReceivedTariff
  <2>2. call.entry.id \in Objects
    BY DEF Shapes, Entry
  <2>3. received' \in [DOMAIN received' -> 0..MaxChanges]
    BY <2>1 DEF Shapes, DeleteRow
  <2> QED
    BY <1>5, <2>1, <2>2, <2>3 DEF DeleteReceivedTariff, Shapes, walk
<1> QED
  BY <1>1, <1>2, <1>3, <1>4, <1>5 DEF Foreign

LEMMA InitShapes == ASSUME Init PROVE Shapes /\ Keyed /\ Paging
<1>1. Once(feed)
  <2>1. DOMAIN feed = DOMAIN Listed /\ \A i \in DOMAIN Listed : feed[i].id = Listed[i]
    BY DEF Init
  <2> QED
    BY <2>1, ListedAssumption DEF Once, IsInjective
<1>2. Once(began)
  BY DEF Init, Once
<1>3. Len(page) = 0 /\ AtRest
  BY DEF Init, AtRest
<1> QED
  BY <1>1, <1>2, <1>3, BoundAssumption, LimitAssumption
  DEF Init, Shapes, Keyed, Paging, Handled, AtRest

LEMMA NextShapes ==
  ASSUME Types, Room, Shapes, Keyed, [Next]_vars
  PROVE  Shapes' /\ Keyed'
<1>1. CASE Foreign
  BY <1>1, ForeignShapes, ForeignKeyed
<1>2. CASE PullAllFromCounterparty \/ PullFromCounterparty
  <2>1. /\ cap' \in Caps \cup {0} /\ pulls' \in 0..MaxPulls
        /\ began' = feed /\ steady' = TRUE
        /\ UNCHANGED <<calls, received, total, skipped, mayReturn, feed>>
    BY <1>2, BoundAssumption
    DEF PullAllFromCounterparty, PullFromCounterparty, StartWalk, Shapes, peer
  <2> QED
    BY <2>1 DEF Shapes, Keyed, Types
<1>3. CASE PullOneLocation
  <2>1. PICK i \in DOMAIN feed : began' = <<feed[i]>>
    BY <1>3 DEF PullOneLocation
  <2>2. began' \in Seq(Entry)
    BY <2>1 DEF Types
  <2>3. Once(began')
    BY <2>1 DEF Once
  <2>4. pulls' \in 0..MaxPulls /\ steady' = TRUE
        /\ UNCHANGED <<calls, received, total, skipped, mayReturn, feed, cap>>
    BY <1>3, BoundAssumption DEF PullOneLocation, Shapes, peer
  <2> QED
    BY <2>2, <2>3, <2>4 DEF Shapes, Keyed
<1>4. CASE GetPage
  <2>1. Len(feed) \in 0..Cardinality(Objects)
    BY OnceLength DEF Types, Keyed
  <2> QED
    BY <1>4, <2>1 DEF GetPage, Shapes, Keyed, peer, history
<1>5. CASE GetFails \/ Report
  <2>1. UNCHANGED <<feed, calls, received, pulls, mayReturn>> /\ cap' = 0 /\ total' = NoTotal
        /\ began' = <<>> /\ steady' = TRUE /\ skipped' = {}
    BY <1>5 DEF GetFails, Report, Return, peer
  <2> QED
    BY <2>1 DEF Shapes, Keyed, Once
<1>6. CASE CacheObject
  <2>1. Head(page) \in Entry /\ Head(page).id \notin Broken
    BY <1>6, TailIds DEF CacheObject, Types
  <2>2. received' = Upsert(received, Head(page))
    BY <1>6 DEF CacheObject
  <2>3. /\ DOMAIN received' = DOMAIN received \cup {Head(page).id}
        /\ received' \in [DOMAIN received' -> 0..MaxChanges]
    BY <2>1, <2>2 DEF Upsert, Shapes, Entry
  <2>4. DOMAIN received' \subseteq Objects \ Broken
    BY <2>1, <2>3 DEF Keyed, Entry
  <2> QED
    BY <1>6, <2>3, <2>4 DEF CacheObject, Shapes, Keyed, peer, history
<1>7. CASE SkipObject
  <2>1. Head(page).id \in Objects
    BY <1>7, TailIds DEF SkipObject, Types, Entry
  <2> QED
    BY <1>7, <2>1 DEF SkipObject, Shapes, Keyed, peer
<1>8. CASE NextPage \/ EndPull \/ Done \/ UNCHANGED vars
  BY <1>8 DEF NextPage, EndPull, Done, vars, peer, walk, history, Shapes, Keyed
<1> QED
  BY <1>1, <1>2, <1>3, <1>4, <1>5, <1>6, <1>7, <1>8 DEF Next, Step, Foreign

-----------------------------------------------------------------------------
(* Where the pull is in the list. *)

LEMMA TypesOfPaging ==
  ASSUME Types, Shapes, Paging
  PROVE  /\ Len(page) \in Nat /\ Len(feed) \in Nat /\ Len(began) \in Nat
         /\ size \in Nat /\ offset \in Nat /\ stored \in Nat /\ cap \in Nat
         /\ PageLimit \in Nat \ {0} /\ MaxPages \in Nat \ {0}
         /\ Handled \in Nat /\ total \in Int
<1>1. Cardinality(Objects) \in Nat
  BY ListedAssumption, FS_CardinalityType
<1>2. /\ Len(page) \in Nat /\ Len(feed) \in Nat /\ Len(began) \in Nat
      /\ offset \in Nat /\ stored \in Nat /\ cap \in Nat
  BY DEF Types, Shapes
<1>3. size \in Nat /\ Len(page) <= size
  BY LimitAssumption DEF Paging
<1>4. Handled \in Nat
  BY <1>2, <1>3 DEF Handled
<1>5. total \in Int
  BY <1>1 DEF Shapes, NoTotal
<1> QED
  BY <1>2, <1>3, <1>4, <1>5, LimitAssumption

\* A page is what follows in the list, whole, or to its end, or to the cap.
LEMMA PageIs ==
  ASSUME Types, Room, GetPage
  PROVE  /\ size' = Len(page') /\ size' \in 0..PageLimit
         /\ \A k \in 1..size' : offset + k \in DOMAIN feed /\ page'[k] = feed[offset + k]
         /\ \/ size' = PageLimit
            \/ offset + size' >= Len(feed)
            \/ cap > 0 /\ stored + size' = cap
<1> DEFINE last == Least(offset + PageLimit, Len(feed))
           items == SubSeq(feed, offset + 1, last)
           room == Least(cap - stored, Len(items))
<1>1. page = <<>> /\ Len(page) = 0 /\ Len(feed) \in Nat /\ offset \in Nat
  BY DEF GetPage, Room, Types
<1>2. /\ last \in Nat /\ last <= Len(feed) /\ last <= offset + PageLimit
      /\ last = offset + PageLimit \/ last = Len(feed)
  BY <1>1, LimitAssumption DEF Least
<1>3. \A i \in (offset + 1)..last : feed[i] \in Entry
  BY <1>1, <1>2 DEF Types
<1>4. /\ items \in Seq(Entry)
      /\ Len(items) = IF offset + 1 <= last THEN last - (offset + 1) + 1 ELSE 0
      /\ \A k \in 1..(last - (offset + 1) + 1) : items[k] = feed[offset + 1 + k - 1]
  BY <1>1, <1>2, <1>3, SubSeqProperties
<1>5. page' = IF cap = 0 THEN items ELSE SubSeq(items, 1, room)
  BY DEF GetPage, Truncated
<1>6. size' = Len(page')
  BY DEF GetPage
<1> HIDE DEF items, last
<1>7. /\ Len(items) \in 0..PageLimit
      /\ Len(items) = PageLimit \/ offset + Len(items) >= Len(feed)
      /\ \A k \in 1..Len(items) : offset + k \in 1..Len(feed) /\ items[k] = feed[offset + k]
  <2>1. CASE offset + 1 <= last
    <3>1. Len(items) = last - offset
      BY <1>1, <1>2, <1>4, <2>1
    <3>2. \A k \in 1..Len(items) :
             /\ k \in 1..(last - (offset + 1) + 1) /\ offset + 1 + k - 1 = offset + k
             /\ offset + k \in 1..Len(feed)
      BY <3>1, <1>1, <1>2
    <3> QED
      BY <3>1, <3>2, <1>1, <1>2, <1>4, LimitAssumption
  <2>2. CASE ~(offset + 1 <= last)
    BY <2>2, <1>1, <1>2, <1>4, LimitAssumption
  <2> QED
    BY <2>1, <2>2
<1>8. DOMAIN feed = 1..Len(feed)
  BY DEF Types
<1>9. CASE cap = 0
  BY <1>5, <1>6, <1>7, <1>8, <1>9
<1>10. CASE cap > 0
  <2>1. /\ room \in Nat /\ room <= Len(items)
        /\ room = cap - stored \/ room = Len(items)
        /\ cap \in Nat /\ stored \in Nat
    BY <1>1, <1>7, <1>10 DEF Types, Room, Least
  <2>2. /\ SubSeq(items, 1, room) \in Seq(Entry)
        /\ Len(SubSeq(items, 1, room)) = IF 1 <= room THEN room - 1 + 1 ELSE 0
        /\ \A k \in 1..(room - 1 + 1) : SubSeq(items, 1, room)[k] = items[1 + k - 1]
    <3>1. \A k \in 1..room : items[k] \in Entry
      BY <1>4, <2>1
    <3> QED
      BY <3>1, <2>1, SubSeqProperties
  <2>3. page' = SubSeq(items, 1, room)
    BY <1>5, <1>10, <2>1
  <2> HIDE DEF room
  <2>4. size' = room
    BY <1>6, <2>1, <2>2, <2>3
  <2>5. ASSUME NEW k \in 1..size'
        PROVE  page'[k] = items[k] /\ k \in 1..Len(items)
    <3>1. k \in 1..(room - 1 + 1) /\ 1 + k - 1 = k /\ k \in 1..Len(items)
      BY <2>1, <2>4
    <3> QED
      BY <3>1, <2>2, <2>3
  <2>6. stored + room = cap \/ room = Len(items)
    BY <2>1
  <2>7. room \in 0..PageLimit
    BY <2>1, <1>7, LimitAssumption
  <2> QED
    BY <2>1, <2>4, <2>5, <2>6, <2>7, <1>6, <1>7, <1>8, <1>10
<1> QED
  BY <1>9, <1>10 DEF Types

\* The list as the pull began is still the beginning of the list.
Underlies ==
  Len(began) <= Len(feed) /\ \A i \in 1..Len(began) : feed[i] = began[i]

Copied(entry) ==
  \/ entry.id \in skipped
  \/ entry.id \in DOMAIN received /\ received[entry.id] = entry.ver

\* What happens beside a pull and leaves it steady leaves it the list it began
\* with and what it stored of it.
LEMMA ForeignSteady ==
  ASSUME Types, Shapes, Paging, Foreign
  PROVE  /\ UNCHANGED <<pc, walk, began, skipped>>
         /\ pc = "idle" => steady'
         /\ pc # "idle" /\ steady' =>
              /\ steady
              /\ Underlies => Underlies'
              /\ \A i \in 1..Len(began) : Copied(began[i]) => Copied(began[i])'
<1>1. pc = "idle" => steady /\ IdsOf(began) = {}
  BY EmptyIds DEF Paging, AtRest
<1>2. CASE Publish
  <2>1. UNCHANGED <<received, pc, walk, began, skipped>> /\ changes' \in 0..MaxChanges
    BY <1>2, BoundAssumption DEF Publish, Types
  <2>2. PICK id \in Objects :
          LET entry == [id |-> id, ver |-> changes'] IN
            \/ feed' = Append(feed, entry) /\ UNCHANGED steady
            \/ steady' = (pc = "idle")
    BY <1>2 DEF Publish
  <2> DEFINE entry == [id |-> id, ver |-> changes']
  <2>3. entry \in Entry
    BY <2>1 DEF Entry
  <2>4. pc = "idle" => steady'
    BY <1>1, <2>2
  <2>5. pc # "idle" /\ steady' => steady /\ feed' = Append(feed, entry)
    BY <2>2
  <2> HIDE DEF entry
  <2>6. ASSUME feed' = Append(feed, entry), Underlies
        PROVE  Underlies'
    <3>1. /\ Len(feed') = Len(feed) + 1 /\ Len(feed) \in Nat /\ Len(began) \in Nat
          /\ \A k \in 1..Len(feed) : feed'[k] = feed[k]
      BY <2>3, <2>6, AppendProperties DEF Types, Shapes
    <3> QED
      BY <2>1, <2>6, <3>1 DEF Underlies
  <2>7. \A i \in 1..Len(began) : Copied(began[i]) => Copied(began[i])'
    BY <2>1 DEF Copied
  <2> QED
    BY <2>1, <2>4, <2>5, <2>6, <2>7
<1>3. CASE Withdraw \/ DeleteReceivedTariff
  BY <1>3 DEF Withdraw, DeleteReceivedTariff
<1>4. CASE Lose
  <2>1. UNCHANGED <<feed, received, pc, walk, began, skipped, steady>>
    BY <1>4 DEF Lose, history
  <2> QED
    BY <1>1, <2>1 DEF Copied, Underlies
<1>5. CASE PutReceivedTariff
  <2>1. UNCHANGED <<feed, pc, walk, began, skipped>>
    BY <1>5 DEF PutReceivedTariff
  <2>2. PICK call \in calls : /\ received' = Upsert(received, call.entry)
                              /\ steady' = (steady /\ call.entry.id \notin IdsOf(began))
    BY <1>5 DEF PutReceivedTariff
  <2>3. pc = "idle" => steady'
    BY <1>1, <2>2
  <2>4. ASSUME steady', NEW i \in 1..Len(began), Copied(began[i])
        PROVE  Copied(began[i])'
    <3>1. DOMAIN began = 1..Len(began)
      BY DEF Shapes
    <3>2. began[i].id # call.entry.id
      BY <2>2, <2>4, <3>1 DEF IdsOf
    <3>3. began[i].id \in DOMAIN received =>
            began[i].id \in DOMAIN received' /\ received'[began[i].id] = received[began[i].id]
      BY <2>2, <3>2 DEF Upsert
    <3> QED
      BY <2>1, <2>4, <3>3 DEF Copied
  <2> QED
    BY <2>1, <2>2, <2>3, <2>4 DEF Underlies
<1> QED
  BY <1>2, <1>3, <1>4, <1>5 DEF Foreign

LEMMA NextPaging ==
  ASSUME Types, Room, Shapes, Keyed, Paging, [Next]_vars
  PROVE  Paging'
<1>0. /\ Len(page) \in Nat /\ size \in Nat /\ offset \in Nat /\ stored \in Nat
      /\ PageLimit \in Nat \ {0} /\ MaxPages \in Nat \ {0}
  BY TypesOfPaging
<1>1. CASE Foreign
  <2>1. UNCHANGED <<pc, walk, began, skipped>> /\ (pc = "idle" => steady')
    BY <1>1, ForeignSteady
  <2> QED
    BY <2>1 DEF Paging, AtRest, Handled, walk, Ends
<1>2. CASE PullAllFromCounterparty \/ PullFromCounterparty
  <2>1. PICK allowed \in {1, MaxPages} : budget' = allowed
    BY <1>2 DEF PullAllFromCounterparty, PullFromCounterparty, StartWalk
  <2>2. pc = "idle" /\ pc' = "get" /\ UNCHANGED <<offset, pages, total, stored, page, size>>
    BY <1>2 DEF PullAllFromCounterparty, PullFromCounterparty, StartWalk
  <2>3. AtRest
    BY <2>2 DEF Paging
  <2> QED
    BY <2>1, <2>2, <2>3, <1>0 DEF Paging, AtRest, Handled
<1>3. CASE PullOneLocation
  <2>1. PICK i \in DOMAIN feed : page' = <<feed[i]>>
    BY <1>3 DEF PullOneLocation
  <2>2. Len(page') = 1
    BY <2>1
  <2>3. /\ pc = "idle" /\ pc' = "cache" /\ size' = 1 /\ pages' = 1 /\ budget' = 1
        /\ UNCHANGED <<offset, stored>>
    BY <1>3 DEF PullOneLocation
  <2>4. AtRest
    BY <2>3 DEF Paging
  <2> QED
    BY <2>2, <2>3, <2>4, <1>0 DEF Paging, AtRest, Handled
<1>4. CASE GetPage
  <2>1. size' = Len(page') /\ size' \in 0..PageLimit
    BY <1>4, PageIs
  <2>2. /\ pc = "get" /\ pc' = "cache" /\ pages' = pages + 1
        /\ UNCHANGED <<budget, offset, stored>>
    BY <1>4 DEF GetPage
  <2>3. pages \in 0..(budget - 1) /\ offset = pages * PageLimit
    BY <2>2 DEF Paging
  <2>4. budget \in {1, MaxPages}
    BY <2>2 DEF Paging
  <2>5. pages' \in 1..budget /\ pages' - 1 = pages
    BY <2>2, <2>3, <2>4, <1>0
  <2> QED
    BY <2>1, <2>2, <2>3, <2>5, <1>0 DEF Paging, Handled
<1>5. CASE GetFails \/ Report
  <2>1. pc' = "idle" /\ AtRest' /\ Len(page') = 0 /\ size' = 0 /\ stored' = 0 /\ offset' = 0
    BY <1>5 DEF GetFails, Report, Return, AtRest
  <2> QED
    BY <2>1, <1>0 DEF Paging, Handled
<1>6. CASE CacheObject
  <2>1. /\ pc = "cache" /\ pc' = "cache" /\ page # <<>> /\ stored' = stored + 1
        /\ page' = Tail(page) /\ UNCHANGED <<budget, offset, pages, size>>
    BY <1>6 DEF CacheObject
  <2>2. Len(page') = Len(page) - 1
    BY <2>1, TailIds DEF Types
  <2> QED
    BY <2>1, <2>2, <1>0 DEF Paging, Handled
<1>7. CASE SkipObject
  <2>1. /\ pc = "cache" /\ pc' = "cache" /\ page # <<>>
        /\ page' = Tail(page) /\ UNCHANGED <<budget, offset, pages, size, stored>>
    BY <1>7 DEF SkipObject
  <2>2. Len(page') = Len(page) - 1
    BY <2>1, TailIds DEF Types
  <2> QED
    BY <2>1, <2>2, <1>0 DEF Paging, Handled
<1>8. CASE NextPage
  <2>1. /\ pc = "cache" /\ pc' = "get" /\ page = <<>> /\ ~Ends /\ offset' = offset + PageLimit
        /\ UNCHANGED <<budget, pages, size, stored, page>>
    BY <1>8 DEF NextPage
  <2>2. /\ budget \in Nat /\ pages \in 1..(budget - 1) /\ offset = (pages - 1) * PageLimit
        /\ ~(size < PageLimit)
    BY <2>1, <1>0 DEF Paging, Ends
  <2>3. (pages - 1) * PageLimit + PageLimit = pages * PageLimit
    BY <2>2, <1>0
  <2> QED
    BY <2>1, <2>2, <2>3, <1>0 DEF Paging, Handled
<1>9. CASE EndPull
  BY <1>9 DEF EndPull, Paging, Handled, walk, Ends
<1>10. CASE Done \/ UNCHANGED vars
  BY <1>10 DEF Done, vars, Paging, Handled, AtRest, walk, history, Ends
<1> QED
  BY <1>1, <1>2, <1>3, <1>4, <1>5, <1>6, <1>7, <1>8, <1>9, <1>10 DEF Next, Step, Foreign

LEMMA TypesTogether == ASSUME Types, Room, Shapes, Keyed, Paging PROVE TypeOK
<1>1. /\ Len(page) \in Nat /\ size \in Nat /\ offset \in Nat /\ stored \in Nat
      /\ PageLimit \in Nat \ {0} /\ MaxPages \in Nat \ {0}
  BY TypesOfPaging
<1>2. budget \in {0, 1, MaxPages} /\ budget \in 0..MaxPages
  BY <1>1 DEF Paging, AtRest
<1>3. pages \in 0..budget
  BY <1>1, <1>2 DEF Paging, AtRest
<1>4. PICK n \in 0..MaxPages : /\ offset = n * PageLimit
                               /\ pc \in {"cache", "over"} => n + 1 <= MaxPages
  <2>1. CASE pc = "idle"
    BY <2>1, <1>1 DEF Paging, AtRest
  <2>2. CASE pc = "get"
    <3>1. offset = pages * PageLimit /\ pages \in 0..MaxPages
      BY <2>2, <1>1, <1>2, <1>3 DEF Paging
    <3> QED
      BY <2>2, <3>1
  <2>3. CASE pc \in {"cache", "over"}
    <3>1. offset = (pages - 1) * PageLimit /\ pages \in 1..budget
      BY <2>3 DEF Paging
    <3>2. pages - 1 \in 0..MaxPages /\ (pages - 1) + 1 <= MaxPages
      BY <3>1, <1>1, <1>2
    <3> QED
      BY <3>1, <3>2
  <2> QED
    BY <2>1, <2>2, <2>3 DEF Paging
<1>5. offset \in {PageLimit * k : k \in 0..MaxPages}
  <2>1. offset = PageLimit * n
    BY <1>1, <1>4
  <2> QED
    BY <2>1
<1>6. stored <= MaxPages * PageLimit
  <2>1. stored <= Handled /\ size <= PageLimit
    BY <1>1 DEF Paging
  <2>2. CASE pc \in {"cache", "over"}
    <3>1. stored <= offset + PageLimit
      BY <2>1, <2>2, <1>1 DEF Handled
    <3>2. offset + PageLimit = (n + 1) * PageLimit
      BY <1>1, <1>4
    <3>3. (n + 1) * PageLimit <= MaxPages * PageLimit
      BY <1>1, <1>4, <2>2
    <3> QED
      BY <3>1, <3>2, <3>3, <1>1
  <2>3. CASE pc \notin {"cache", "over"}
    <3>1. stored <= offset
      BY <2>1, <2>3, <1>1 DEF Handled
    <3>2. n * PageLimit <= MaxPages * PageLimit
      BY <1>1, <1>4
    <3> QED
      BY <3>1, <3>2, <1>1, <1>4
  <2> QED
    BY <2>2, <2>3
<1>7. stored \in 0..(MaxPages * PageLimit)
  BY <1>1, <1>6
<1> QED
  BY <1>2, <1>3, <1>5, <1>7 DEF TypeOK, Types, Shapes, Keyed, Paging

Shaped == Types /\ Room /\ Shapes /\ Keyed /\ Paging

LEMMA InitShaped == ASSUME Init PROVE Shaped
  BY InitTypes, InitShapes DEF Shaped

LEMMA NextShaped == ASSUME Shaped, [Next]_vars PROVE Shaped'
  BY NextTypes, NextShapes, NextPaging DEF Shaped

\* The state has its type, and a pull never asks for more pages than its guard
\* allows, stores more than those hold, or is told of more objects than there are.
THEOREM TypeCorrect == Spec => []TypeOK
<1>1. Init => Shaped
  BY InitShaped
<1>2. Shaped /\ [Next]_vars => Shaped'
  BY NextShaped
<1>3. Shaped => TypeOK
  BY TypesTogether DEF Shaped
<1> QED
  BY <1>1, <1>2, <1>3, PTL DEF Spec

-----------------------------------------------------------------------------
(* The list copied. *)

\* A page that is not full ends the list, or fills the room under the cap.
Reaches ==
  \/ size = PageLimit
  \/ cap > 0 /\ (skipped = {} => offset + size >= cap)
  \/ steady => offset + size >= Len(began)

\* The pull stores what it handles unless it passes over it.
Counted ==
  pc # "idle" =>
    /\ skipped = {} => stored = Handled
    /\ pc # "get" => Reaches

\* While nothing but growth happens, the rest of the page is what the list had
\* there as the pull began, or new to it, and all before it is copied.
Current ==
  pc # "idle" /\ steady =>
    /\ pages < budget => Underlies
    /\ total # NoTotal => total >= Len(began)
    /\ \A k \in 1..Len(page) :
         IF Handled + k <= Len(began) THEN page[k] = began[Handled + k]
         ELSE page[k].id \notin IdsOf(began)
    /\ \A i \in 1..Len(began) : i <= Handled => Copied(began[i])

LEMMA NextCounted == ASSUME Shaped, Counted, Current, [Next]_vars PROVE Counted'
<1> USE DEF Shaped
<1>0. /\ Len(page) \in Nat /\ size \in Nat /\ offset \in Nat /\ stored \in Nat /\ cap \in Nat
      /\ Len(began) \in Nat /\ Len(feed) \in Nat
      /\ PageLimit \in Nat \ {0} /\ MaxPages \in Nat \ {0}
  BY TypesOfPaging
<1>1. CASE Foreign
  <2>1. /\ UNCHANGED <<pc, walk, began, skipped>>
        /\ pc # "idle" /\ steady' => steady
    BY <1>1, ForeignSteady
  <2> QED
    BY <2>1 DEF Counted, Reaches, Handled, walk
<1>2. CASE PullAllFromCounterparty \/ PullFromCounterparty
  <2>1. pc = "idle" /\ pc' = "get" /\ UNCHANGED <<offset, stored>>
    BY <1>2 DEF PullAllFromCounterparty, PullFromCounterparty, StartWalk
  <2>2. stored = 0 /\ offset = 0
    BY <2>1 DEF Paging, AtRest
  <2> QED
    BY <2>1, <2>2 DEF Counted, Handled
<1>3. CASE PullOneLocation
  <2>1. PICK i \in DOMAIN feed : page' = <<feed[i]>> /\ began' = <<feed[i]>>
    BY <1>3 DEF PullOneLocation
  <2>2. Len(page') = 1 /\ Len(began') = 1
    BY <2>1
  <2>3. /\ pc = "idle" /\ pc' = "cache" /\ size' = 1 /\ UNCHANGED <<offset, stored>>
    BY <1>3 DEF PullOneLocation
  <2>4. stored = 0 /\ offset = 0
    BY <2>3 DEF Paging, AtRest
  <2> QED
    BY <2>2, <2>3, <2>4 DEF Counted, Handled, Reaches
<1>4. CASE GetPage
  <2>1. /\ size' = Len(page') /\ size' \in 0..PageLimit
        /\ \/ size' = PageLimit
           \/ offset + size' >= Len(feed)
           \/ cap > 0 /\ stored + size' = cap
    BY <1>4, PageIs
  <2>2. /\ pc = "get" /\ pc' = "cache"
        /\ UNCHANGED <<budget, offset, stored, cap, began, steady, skipped>>
    BY <1>4 DEF GetPage, history
  <2>3. steady => Len(feed) >= Len(began)
    <3>1. pages < budget
      BY <2>2, <1>0 DEF Paging
    <3> QED
      BY <2>2, <3>1, <1>0 DEF Current, Underlies
  <2>4. skipped = {} => stored = offset
    BY <2>2 DEF Counted, Handled
  <2>5. skipped' = {} => stored' = Handled'
    BY <2>1, <2>2, <2>4, <1>0 DEF Handled
  <2>6. Reaches'
    BY <2>1, <2>2, <2>3, <2>4, <1>0 DEF Reaches
  <2> QED
    BY <2>5, <2>6 DEF Counted
<1>5. CASE GetFails \/ Report
  BY <1>5 DEF GetFails, Report, Return, Counted
<1>6. CASE CacheObject
  <2>1. /\ pc = "cache" /\ pc' = "cache" /\ page # <<>> /\ stored' = stored + 1
        /\ page' = Tail(page) /\ UNCHANGED <<offset, size, cap, began, steady, skipped>>
    BY <1>6 DEF CacheObject, history
  <2>2. Len(page') = Len(page) - 1
    BY <2>1, TailIds DEF Types
  <2> QED
    BY <2>1, <2>2, <1>0 DEF Counted, Reaches, Handled
<1>7. CASE SkipObject
  <2>1. /\ pc = "cache" /\ pc' = "cache" /\ skipped' # {}
        /\ UNCHANGED <<offset, size, cap, began, steady>>
    BY <1>7 DEF SkipObject
  <2> QED
    BY <2>1 DEF Counted, Reaches
<1>8. CASE NextPage
  <2>1. /\ pc = "cache" /\ pc' = "get" /\ page = <<>> /\ ~Ends /\ offset' = offset + PageLimit
        /\ UNCHANGED <<stored, skipped>>
    BY <1>8 DEF NextPage, history
  <2>2. size = PageLimit /\ Len(page) = 0
    BY <2>1, <1>0 DEF Paging, Ends
  <2> QED
    BY <2>1, <2>2, <1>0 DEF Counted, Handled
<1>9. CASE EndPull
  BY <1>9 DEF EndPull, Counted, Reaches, Handled, walk, history
<1>10. CASE Done \/ UNCHANGED vars
  BY <1>10 DEF Done, vars, Counted, Reaches, Handled, walk, history
<1> QED
  BY <1>1, <1>2, <1>3, <1>4, <1>5, <1>6, <1>7, <1>8, <1>9, <1>10 DEF Next, Step, Foreign

LEMMA PageCurrent == ASSUME Shaped, Current, GetPage PROVE Current'
<1> USE DEF Shaped
<1>0. /\ offset \in Nat /\ Len(began) \in Nat /\ Len(feed) \in Nat /\ pages < budget
      /\ MaxPages \in Nat \ {0}
  <2>1. pc = "get"
    BY DEF GetPage
  <2>2. /\ offset \in Nat /\ Len(began) \in Nat /\ Len(feed) \in Nat
        /\ MaxPages \in Nat \ {0}
    BY TypesOfPaging
  <2>3. budget \in {1, MaxPages} /\ pages \in 0..budget - 1
    BY <2>1 DEF Paging
  <2> QED
    BY <2>2, <2>3
<1>1. /\ size' = Len(page')
      /\ \A k \in 1..size' : offset + k \in DOMAIN feed /\ page'[k] = feed[offset + k]
  BY PageIs
<1>2. /\ pc = "get" /\ pc' = "cache" /\ total' \in {total, Len(feed)}
      /\ UNCHANGED <<offset, began, steady, skipped, received, feed>>
  BY DEF GetPage, history, peer
<1>3. SUFFICES ASSUME steady' PROVE Current'
  BY DEF Current
<1>4. /\ Underlies
      /\ total # NoTotal => total >= Len(began)
      /\ \A i \in 1..Len(began) : i <= offset => Copied(began[i])
  BY <1>0, <1>2, <1>3 DEF Current, Handled
<1>5. Handled' = offset
  BY <1>0, <1>1, <1>2 DEF Handled
<1>6. DOMAIN feed = 1..Len(feed) /\ DOMAIN began = 1..Len(began)
  BY DEF Types, Shapes
<1>7. ASSUME NEW k \in 1..Len(page')
      PROVE  IF offset + k <= Len(began) THEN page'[k] = began[offset + k]
             ELSE page'[k].id \notin IdsOf(began)
  <2>1. offset + k \in DOMAIN feed /\ page'[k] = feed[offset + k] /\ k \in Nat
    BY <1>1
  <2>2. CASE offset + k <= Len(began)
    BY <2>1, <2>2, <1>0, <1>4 DEF Underlies
  <2>3. CASE ~(offset + k <= Len(began))
    <3>1. \A i \in DOMAIN began : i \in DOMAIN feed /\ feed[i] = began[i] /\ i # offset + k
      BY <2>3, <1>0, <1>4, <1>6 DEF Underlies
    <3>2. \A i \in DOMAIN began : began[i].id # feed[offset + k].id
      BY <2>1, <3>1 DEF Keyed, Once
    <3> QED
      BY <2>1, <2>3, <3>2 DEF IdsOf
  <2> QED
    BY <2>2, <2>3
<1>8. Underlies' /\ \A i \in 1..Len(began) : Copied(began[i]) => Copied(began[i])'
  BY <1>2, <1>4 DEF Underlies, Copied
<1>9. total' # NoTotal => total' >= Len(began)
  BY <1>0, <1>2, <1>4 DEF Underlies
<1> QED
  BY <1>2, <1>4, <1>5, <1>7, <1>8, <1>9 DEF Current

\* The object at the head of the page is copied, or passed over, and with it the
\* list is copied one further.
LEMMA HeadCurrent ==
  ASSUME Shaped, Current, CacheObject \/ SkipObject
  PROVE  Current'
<1> USE DEF Shaped
<1>0. /\ offset \in Nat /\ size \in Nat /\ Len(page) \in Nat /\ Len(began) \in Nat /\ Handled \in Nat
  BY TypesOfPaging
<1>1. /\ pc = "cache" /\ pc' = "cache" /\ page # <<>> /\ page' = Tail(page)
      /\ UNCHANGED <<feed, budget, offset, pages, total, size, began, steady>>
  BY DEF CacheObject, SkipObject, peer, history
<1>2. /\ Len(page') = Len(page) - 1 /\ page \in Seq(Entry)
      /\ \A k \in 1..Len(page') : page'[k] = page[k + 1]
      /\ Head(page) = page[1]
  BY <1>1, HeadTailProperties DEF Types
<1>3. Handled' = Handled + 1
  BY <1>0, <1>1, <1>2 DEF Handled
<1>4. SUFFICES ASSUME steady' PROVE Current'
  BY DEF Current
<1>5. /\ pages < budget => Underlies
      /\ total # NoTotal => total >= Len(began)
      /\ \A k \in 1..Len(page) :
           IF Handled + k <= Len(began) THEN page[k] = began[Handled + k]
           ELSE page[k].id \notin IdsOf(began)
      /\ \A i \in 1..Len(began) : i <= Handled => Copied(began[i])
  BY <1>1, <1>4 DEF Current
<1>6. Underlies => Underlies'
  BY <1>1 DEF Underlies
<1>7. ASSUME NEW k \in 1..Len(page')
      PROVE  IF Handled' + k <= Len(began) THEN page'[k] = began[Handled' + k]
             ELSE page'[k].id \notin IdsOf(began)
  <2>1. k + 1 \in 1..Len(page) /\ Handled' + k = Handled + (k + 1) /\ page'[k] = page[k + 1]
    BY <1>0, <1>2, <1>3
  <2> QED
    BY <2>1, <1>5
<1>8. DOMAIN began = 1..Len(began)
  BY DEF Shapes
<1>9. 1 \in 1..Len(page)
  BY <1>0, <1>1, <1>2
<1>10. ASSUME NEW i \in 1..Len(began), i <= Handled + 1
       PROVE  Copied(began[i])'
  <2>1. CASE i = Handled + 1
    <3>1. Head(page) = began[i]
      BY <2>1, <1>0, <1>2, <1>5, <1>9
    <3>2. CASE CacheObject
      <4>1. received' = Upsert(received, began[i])
        BY <3>1, <3>2 DEF CacheObject
      <4> QED
        BY <4>1, <1>1 DEF Copied, Upsert
    <3>3. CASE SkipObject
      <4>1. began[i].id \in skipped'
        BY <3>1, <3>3 DEF SkipObject
      <4> QED
        BY <4>1, <1>1 DEF Copied
    <3> QED
      BY <3>2, <3>3
  <2>2. CASE i <= Handled
    <3>1. Copied(began[i])
      BY <2>2, <1>5
    <3>2. CASE SkipObject
      <4>1. skipped \subseteq skipped' /\ UNCHANGED <<received, began>>
        BY <3>2 DEF SkipObject
      <4> QED
        BY <3>1, <4>1 DEF Copied
    <3>3. CASE CacheObject
      <4>1. UNCHANGED skipped /\ received' = Upsert(received, Head(page))
        BY <3>3 DEF CacheObject, history
      <4>2. Head(page).id # began[i].id
        <5>1. CASE Handled + 1 <= Len(began)
          <6>1. Head(page) = began[Handled + 1]
            BY <5>1, <1>2, <1>5, <1>9
          <6>2. Handled + 1 \in DOMAIN began /\ i \in DOMAIN began /\ i # Handled + 1
            BY <5>1, <2>2, <1>0, <1>8
          <6> QED
            BY <6>1, <6>2 DEF Keyed, Once
        <5>2. CASE ~(Handled + 1 <= Len(began))
          <6>1. Head(page).id \notin IdsOf(began)
            BY <5>2, <1>2, <1>5, <1>9
          <6> QED
            BY <6>1, <1>8 DEF IdsOf
        <5> QED
          BY <5>1, <5>2
      <4>3. began[i].id \in DOMAIN received =>
              began[i].id \in DOMAIN received' /\ received'[began[i].id] = received[began[i].id]
        BY <4>1, <4>2 DEF Upsert
      <4> QED
        BY <3>1, <4>1, <4>3, <1>1 DEF Copied
    <3> QED
      BY <3>2, <3>3
  <2> QED
    BY <2>1, <2>2, <1>0, <1>10
<1> QED
  BY <1>1, <1>3, <1>4, <1>5, <1>6, <1>7, <1>10 DEF Current

LEMMA NextCurrent == ASSUME Shaped, Counted, Current, [Next]_vars PROVE Current'
<1> USE DEF Shaped
<1>0. /\ Len(page) \in Nat /\ size \in Nat /\ offset \in Nat /\ Len(began) \in Nat
      /\ PageLimit \in Nat \ {0} /\ MaxPages \in Nat \ {0}
  BY TypesOfPaging
<1>1. CASE Foreign
  <2>1. /\ UNCHANGED <<pc, walk, began, skipped>>
        /\ pc # "idle" /\ steady' =>
             /\ steady
             /\ Underlies => Underlies'
             /\ \A i \in 1..Len(began) : Copied(began[i]) => Copied(began[i])'
    BY <1>1, ForeignSteady
  <2>2. Handled' = Handled
    BY <2>1 DEF Handled, walk
  <2> QED
    BY <2>1, <2>2 DEF Current, walk
<1>2. CASE PullAllFromCounterparty \/ PullFromCounterparty
  <2>1. /\ pc = "idle" /\ pc' = "get" /\ began' = feed
        /\ UNCHANGED <<feed, offset, total, page>>
    BY <1>2 DEF PullAllFromCounterparty, PullFromCounterparty, StartWalk, peer
  <2>2. offset = 0 /\ total = NoTotal /\ Len(page) = 0
    BY <2>1 DEF Paging, AtRest
  <2>3. Underlies' /\ Handled' = 0
    BY <2>1, <2>2 DEF Underlies, Handled, Types
  <2> QED
    BY <2>1, <2>2, <2>3 DEF Current
<1>3. CASE PullOneLocation
  <2>1. PICK i \in DOMAIN feed : page' = <<feed[i]>> /\ began' = <<feed[i]>>
    BY <1>3 DEF PullOneLocation
  <2>2. Len(page') = 1 /\ Len(began') = 1 /\ page'[1] = began'[1]
    BY <2>1
  <2>3. /\ pc = "idle" /\ pc' = "cache" /\ size' = 1 /\ pages' = 1 /\ budget' = 1
        /\ UNCHANGED <<offset, total>>
    BY <1>3 DEF PullOneLocation
  <2>4. offset = 0 /\ total = NoTotal
    BY <2>3 DEF Paging, AtRest
  <2>5. Handled' = 0
    BY <2>2, <2>3, <2>4 DEF Handled
  <2> QED
    BY <2>2, <2>3, <2>4, <2>5 DEF Current
<1>4. CASE GetPage
  BY <1>4, PageCurrent
<1>5. CASE GetFails \/ Report
  BY <1>5 DEF GetFails, Report, Return, Current
<1>6. CASE CacheObject \/ SkipObject
  BY <1>6, HeadCurrent
<1>7. CASE NextPage
  <2>1. /\ pc = "cache" /\ pc' = "get" /\ page = <<>> /\ ~Ends /\ offset' = offset + PageLimit
        /\ UNCHANGED <<feed, budget, pages, total, page, began, steady, skipped, received>>
    BY <1>7 DEF NextPage, peer, history
  <2>2. size = PageLimit /\ Len(page) = 0
    BY <2>1, <1>0 DEF Paging, Ends
  <2>3. Handled' = Handled
    BY <2>1, <2>2, <1>0 DEF Handled
  <2> QED
    BY <2>1, <2>3 DEF Current, Underlies, Copied
<1>8. CASE EndPull
  <2>1. UNCHANGED <<peer, walk, history, received>> /\ pc = "cache" /\ pc' = "over"
    BY <1>8 DEF EndPull
  <2> QED
    BY <2>1 DEF Current, Underlies, Copied, Handled, peer, walk, history
<1>9. CASE Done \/ UNCHANGED vars
  BY <1>9 DEF Done, vars, Current, Underlies, Copied, Handled, peer, walk, history
<1> QED
  BY <1>1, <1>2, <1>3, <1>4, <1>5, <1>6, <1>7, <1>8, <1>9 DEF Next, Step, Foreign

LEMMA InitCopying == ASSUME Init PROVE Counted /\ Current
  BY DEF Init, Counted, Current

\* A pull that is over has come to the end of the list, or to its cap, or to
\* the end of the last page its guard allows.
LEMMA OverCopied == ASSUME Shaped, Counted, Current PROVE ListCopied
<1> USE DEF Shaped
<1>0. /\ Len(page) \in Nat /\ size \in Nat /\ offset \in Nat /\ Len(began) \in Nat
      /\ stored \in Nat /\ cap \in Nat /\ total \in Int /\ Handled \in Nat
      /\ PageLimit \in Nat \ {0} /\ MaxPages \in Nat \ {0}
  BY TypesOfPaging
<1> DEFINE reach == Least(Len(began), budget * PageLimit)
           wanted == IF cap = 0 THEN reach ELSE Least(reach, cap)
<1>1. SUFFICES ASSUME pc = "over", steady, cap = 0 \/ skipped = {}, NEW i \in 1..wanted
               PROVE  Copied(began[i])
  BY DEF ListCopied, Copied
<1>2. budget \in {1, MaxPages} /\ pages \in 1..budget /\ offset = (pages - 1) * PageLimit /\ Ends
  BY <1>1 DEF Paging
<1>3. budget * PageLimit \in Nat
  BY <1>0, <1>2
<1>4. reach \in Nat /\ reach <= Len(began) /\ reach <= budget * PageLimit
  BY <1>0, <1>3 DEF Least
<1>5. wanted \in Nat /\ wanted <= reach /\ (cap > 0 => wanted <= cap)
  BY <1>0, <1>4 DEF Least
<1> HIDE DEF reach, wanted
<1>6. Handled = offset + size
  <2>1. Len(page) = 0
    BY <1>1 DEF Room
  <2> QED
    BY <2>1, <1>0, <1>1 DEF Handled
<1>7. Reaches /\ (skipped = {} => stored = Handled)
  BY <1>1 DEF Counted
<1>8. wanted <= Handled
  <2>1. CASE size # PageLimit
    BY <2>1, <1>0, <1>1, <1>4, <1>5, <1>6, <1>7 DEF Reaches
  <2>2. CASE size = PageLimit /\ cap > 0 /\ stored >= cap
    BY <2>2, <1>0, <1>1, <1>5, <1>7
  <2>3. CASE size = PageLimit /\ total # NoTotal /\ offset + PageLimit >= total
    BY <2>3, <1>0, <1>1, <1>4, <1>5, <1>6 DEF Current
  <2>4. CASE size = PageLimit /\ pages >= budget
    <3>1. pages = budget
      BY <2>4, <1>0, <1>2
    <3>2. (budget - 1) * PageLimit + PageLimit = budget * PageLimit
      BY <1>0, <1>2
    <3> QED
      BY <2>4, <3>1, <3>2, <1>0, <1>2, <1>3, <1>4, <1>5, <1>6
  <2> QED
    BY <2>1, <2>2, <2>3, <2>4, <1>0, <1>2 DEF Ends
<1>9. i \in 1..Len(began) /\ i <= Handled
  BY <1>0, <1>1, <1>4, <1>5, <1>8
<1> QED
  BY <1>1, <1>9 DEF Current

\* A pull that ran to its end has the rows of the list as it was when it began,
\* to the cap and the page guard.
THEOREM ListCopiedAlways == Spec => []ListCopied
<1>1. Init => Shaped /\ Counted /\ Current
  BY InitShaped, InitCopying
<1>2. Shaped /\ Counted /\ Current /\ [Next]_vars => (Shaped /\ Counted /\ Current)'
  BY NextShaped, NextCounted, NextCurrent
<1>3. Shaped /\ Counted /\ Current => ListCopied
  BY OverCopied
<1> QED
  BY <1>1, <1>2, <1>3, PTL DEF Spec
=============================================================================
