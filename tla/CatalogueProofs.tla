-------------------------- MODULE CatalogueProofs ---------------------------
(***************************************************************************)
(* What holds of the own catalogue, for any sets of locations, tariffs and *)
(* parts and any number of requests, crashes and failures.                 *)
(*                                                                         *)
(*   BatchKeptAlways       Spec => []BatchKept                             *)
(*   DatedOnceAlways       Spec => []DatedOnce                             *)
(*   PartsCoveredAlways    Spec => []PartsCovered                          *)
(*   TypeCorrect           Spec => []TypeOK                                *)
(*   CatalogueWholeAlways  Spec => []CatalogueWhole                        *)
(*   RestartKeepsAlways    Spec => RestartKeeps                            *)
(*                                                                         *)
(* A row is written from a copy, so the invariant, IInv, says of the copy  *)
(* a push is about to save what it says of a row, and of the copy it has   *)
(* just read that nothing in it is newer than the time the push may stamp; *)
(* and no row is dated ahead of the clock.                                 *)
(* SeedInv is about what is missing while the catalogue is seeded: one     *)
(* reset has yet to seed all of it, or start-up goes through batches that  *)
(* are there whole or not at all.                                          *)
(***************************************************************************)
EXTENDS Catalogue, TLAPS

\* A row or copy of id as it may be stored by time t.
Sound(row, id, t) ==
  /\ row \in Row
  /\ row.source = SourceOf(id)
  /\ row.column = row.stamp /\ row.stamp <= t
  /\ \A u \in Parts : row.parts[u] <= t
  /\ id \in Base => \A u \in Parts : row.parts[u] <= row.stamp

Labels ==
  {"idle", "source", "save", "send", "seed", "restampLocations", "restampTariffs"}

LocalsOK ==
  /\ now \in Nat
  /\ pc \in [Procs -> Labels]
  /\ obj \in [Procs -> Ids]
  /\ copy \in [Procs -> Row]
  /\ edit \in [Procs -> SUBSET Parts]
  /\ time \in [Procs -> Nat]
  /\ \A p \in Procs : time[p] <= now

RowsSound == \A id \in DOMAIN own : Sound(own[id], id, now)

CopiesSound ==
  \A p \in Procs :
    /\ pc[p] = "source" => Sound(copy[p], obj[p], time[p])
    /\ pc[p] = "save" => Sound(copy[p], obj[p], now)

IInv == LocalsOK /\ RowsSound /\ CopiesSound

-----------------------------------------------------------------------------
(* Rows. *)

LEMMA AnyIdIsId == AnyId \in Ids
<1>1. \E id : id \in Ids
  BY BatchAssumption, IdsAssumption DEF Cron, Ids
<1> QED
  BY <1>1 DEF AnyId

LEMMA SeedRowSound ==
  ASSUME NEW id, NEW t \in Nat
  PROVE  SeedRow(id) \in Row /\ Sound(SeedRow(id), id, t)
  BY DEF SeedRow, Sound, Row, SourceOf

LEMMA NoCopyIsRow == NoCopy \in Row
  BY SeedRowSound DEF NoCopy

\* What is sound stays so as time goes on.
LEMMA SoundLater ==
  ASSUME NEW row, NEW id, NEW s \in Nat, NEW t \in Nat, s <= t, Sound(row, id, s)
  PROVE  Sound(row, id, t)
<1>1. row.stamp \in Nat /\ \A u \in Parts : row.parts[u] \in Nat
  BY DEF Sound, Row
<1> QED
  BY <1>1 DEF Sound

\* A change bears a time no earlier than anything in the copy it is made to.
LEMMA ChangedSound ==
  ASSUME NEW p \in Procs, NEW t \in Nat, NEW id, LocalsOK,
         time[p] <= t, Sound(copy[p], id, time[p])
  PROVE  Sound(Changed(p, t), id, t)
<1>1. copy[p] \in Row /\ time[p] \in Nat /\ \A u \in Parts : copy[p].parts[u] \in Nat
  BY DEF LocalsOK, Row
<1>2. /\ Changed(p, t) \in Row
      /\ Changed(p, t).column = t /\ Changed(p, t).stamp = t
      /\ Changed(p, t).source = copy[p].source
      /\ \A u \in Parts : Changed(p, t).parts[u] = IF u \in edit[p] THEN t ELSE copy[p].parts[u]
  BY <1>1 DEF Changed, Row
<1>3. \A u \in Parts : Changed(p, t).parts[u] <= t
  BY <1>1, <1>2 DEF Sound
<1> QED
  BY <1>2, <1>3 DEF Sound

LEMMA UpsertSound ==
  ASSUME NEW id, NEW row, RowsSound, Sound(row, id, now), own' = UpsertOwn(own, id, row),
         now' = now
  PROVE  RowsSound'
  BY DEF RowsSound, UpsertOwn

\* A restamp touches no row of the hand-picked batch.
LEMMA RestampSound ==
  ASSUME NEW ids, NEW p \in Procs, LocalsOK, RowsSound,
         own' = RestampSource(own, ids, time[p]), now' = now
  PROVE  RowsSound'
<1> SUFFICES ASSUME NEW id \in DOMAIN own
             PROVE  Sound(RestampSource(own, ids, time[p])[id], id, now)
  BY DEF RowsSound, RestampSource
<1>1. Sound(own[id], id, now) /\ time[p] \in Nat /\ time[p] <= now
  BY DEF RowsSound, LocalsOK
<1>2. CASE id \in ids /\ own[id].source = "cron"
  <2>1. RestampSource(own, ids, time[p])[id] = [own[id] EXCEPT !.column = time[p], !.stamp = time[p]]
    BY <1>2 DEF RestampSource
  <2>2. id \notin Base
    BY <1>1, <1>2 DEF Sound, SourceOf
  <2>3. LET row == [own[id] EXCEPT !.column = time[p], !.stamp = time[p]]
        IN  row \in Row /\ row.source = own[id].source /\ row.parts = own[id].parts
              /\ row.column = time[p] /\ row.stamp = time[p]
    BY <1>1 DEF Sound, Row
  <2> QED
    BY <1>1, <2>1, <2>2, <2>3 DEF Sound
<1>3. CASE ~(id \in ids /\ own[id].source = "cron")
  BY <1>1, <1>3 DEF RestampSource
<1> QED
  BY <1>2, <1>3

-----------------------------------------------------------------------------
(* The invariant. *)

LEMMA InitIInv == ASSUME Init PROVE IInv
  BY AnyIdIsId, NoCopyIsRow DEF Init, IInv, Labels, LocalsOK, RowsSound, CopiesSound

\* A request that returns forgets its locals and disturbs no other.
LEMMA ReturnKeeps ==
  ASSUME IInv, NEW p \in Procs, Return(p), now' = now
  PROVE  LocalsOK' /\ CopiesSound'
  BY AnyIdIsId, NoCopyIsRow DEF IInv, Return, Goto, Labels, LocalsOK, CopiesSound

\* So does one that moves on to a step without a copy.
LEMMA GotoKeeps ==
  ASSUME IInv, NEW p \in Procs, NEW label \in Labels \ {"source", "save"}, Goto(p, label),
         UNCHANGED <<now, obj, copy, edit, time>>
  PROVE  LocalsOK' /\ CopiesSound'
  BY DEF IInv, Goto, Labels, LocalsOK, CopiesSound

LEMMA PushReadIInv == ASSUME IInv, NEW p \in Procs, PushRead(p) PROVE IInv'
<1>1. PICK id \in Locations \cap DOMAIN own :
        obj' = [obj EXCEPT ![p] = id] /\ copy' = [copy EXCEPT ![p] = own[id]]
  BY DEF PushRead
<1>2. id \in Ids /\ Sound(own[id], id, now) /\ own[id] \in Row
  BY DEF IInv, RowsSound, Sound, Ids
<1>3. /\ time' = [time EXCEPT ![p] = now]
      /\ UNCHANGED <<own, now>>
      /\ \E label \in {"send", "source"} : Goto(p, label)
      /\ \/ UNCHANGED edit
         \/ \E u \in Parts : edit' = [edit EXCEPT ![p] = {u}]
  BY DEF PushRead, tables
<1>4. pc' \in [Procs -> Labels] /\ pc'[p] # "save" /\ \A q \in Procs \ {p} : pc'[q] = pc[q]
  BY <1>3 DEF Goto, IInv, Labels, LocalsOK
<1>5. edit' \in [Procs -> SUBSET Parts]
  BY <1>3 DEF IInv, LocalsOK
<1>6. LocalsOK'
  <2>1. obj' \in [Procs -> Ids] /\ copy' \in [Procs -> Row]
    BY <1>1, <1>2 DEF IInv, LocalsOK
  <2>2. time' \in [Procs -> Nat] /\ \A q \in Procs : time'[q] <= now'
    BY <1>3 DEF IInv, LocalsOK
  <2> QED
    BY <1>3, <1>4, <1>5, <2>1, <2>2 DEF IInv, LocalsOK
<1>7. CopiesSound'
  BY <1>1, <1>2, <1>3, <1>4 DEF IInv, LocalsOK, CopiesSound
<1> QED
  BY <1>3, <1>6, <1>7 DEF IInv, RowsSound

LEMMA PushSourceIInv == ASSUME IInv, NEW p \in Procs, PushSource(p) PROVE IInv'
<1>1. UNCHANGED <<own, now>>
  BY DEF PushSource, tables
<1>2. CASE Return(p)
  BY <1>1, <1>2, ReturnKeeps DEF IInv, RowsSound
<1>3. CASE ~Return(p)
  <2>1. /\ pc[p] = "source" /\ obj[p] \in DOMAIN own /\ Goto(p, "save")
        /\ UNCHANGED <<obj, edit, time>>
        /\ \E t \in time[p]..now :
             copy' = [copy EXCEPT ![p] = [Changed(p, t) EXCEPT !.source = own[obj[p]].source]]
    BY <1>3 DEF PushSource, At
  <2>2. PICK t \in time[p]..now :
             copy' = [copy EXCEPT ![p] = [Changed(p, t) EXCEPT !.source = own[obj[p]].source]]
    BY <2>1
  <2>3. t \in Nat /\ time[p] <= t /\ t <= now /\ now \in Nat
    BY DEF IInv, LocalsOK
  <2>4. Sound(copy[p], obj[p], time[p]) /\ own[obj[p]].source = SourceOf(obj[p])
    BY <2>1 DEF IInv, CopiesSound, RowsSound, Sound
  <2>5. Sound(Changed(p, t), obj[p], t)
    BY <2>3, <2>4, ChangedSound DEF IInv
  <2>6. [Changed(p, t) EXCEPT !.source = own[obj[p]].source] = Changed(p, t)
    BY <2>4, <2>5 DEF Sound, Row
  <2>7. Sound(Changed(p, t), obj[p], now) /\ Changed(p, t) \in Row
    BY <2>3, <2>5, SoundLater DEF Sound
  <2>8. LocalsOK'
    BY <1>1, <2>1, <2>2, <2>6, <2>7 DEF IInv, Labels, LocalsOK, Goto
  <2>9. CopiesSound'
    BY <1>1, <2>1, <2>2, <2>6, <2>7 DEF IInv, LocalsOK, CopiesSound, Goto
  <2> QED
    BY <1>1, <2>8, <2>9 DEF IInv, RowsSound
<1> QED
  BY <1>2, <1>3

LEMMA PushSaveIInv == ASSUME IInv, NEW p \in Procs, PushSave(p) PROVE IInv'
<1>1. Sound(copy[p], obj[p], now) /\ own' = UpsertOwn(own, obj[p], copy[p]) /\ now' = now
  BY DEF PushSave, At, IInv, CopiesSound
<1>2. RowsSound'
  BY <1>1, UpsertSound DEF IInv
<1>3. LocalsOK' /\ CopiesSound'
  BY GotoKeeps DEF PushSave, Labels
<1> QED
  BY <1>2, <1>3 DEF IInv

LEMMA RestampIInv ==
  ASSUME IInv, NEW p \in Procs, RestampLocations(p) \/ RestampTariffs(p)
  PROVE  IInv'
<1>1. PICK ids : own' = RestampSource(own, ids, time[p]) /\ now' = now
  BY DEF RestampLocations, RestampTariffs
<1>2. RowsSound'
  BY <1>1, RestampSound DEF IInv
<1>3. LocalsOK' /\ CopiesSound'
  BY GotoKeeps, ReturnKeeps DEF Labels, RestampLocations, RestampTariffs
<1> QED
  BY <1>2, <1>3 DEF IInv

LEMMA SeedObjectIInv == ASSUME IInv, NEW p \in Procs, SeedObject(p) PROVE IInv'
<1>1. PICK id : own' = UpsertOwn(own, id, SeedRow(id))
  BY DEF SeedObject
<1>2. now \in Nat /\ UNCHANGED <<now, pc, obj, copy, edit, time>>
  BY DEF SeedObject, IInv, LocalsOK
<1>3. RowsSound'
  BY <1>1, <1>2, SeedRowSound, UpsertSound DEF IInv
<1> QED
  BY <1>2, <1>3 DEF IInv, LocalsOK, CopiesSound

LEMMA WorkIInv == ASSUME IInv, NEW p \in Procs, Work(p) PROVE IInv'
<1>1. CASE PushRead(p)
  BY <1>1, PushReadIInv
<1>2. CASE PushSource(p)
  BY <1>2, PushSourceIInv
<1>3. CASE PushSave(p)
  BY <1>3, PushSaveIInv
<1>4. CASE PushSend(p) \/ ResetDone(p) \/ CutOff(p)
  <2>1. Return(p) /\ UNCHANGED <<own, now>>
    BY <1>4 DEF PushSend, ResetDone, CutOff, tables
  <2> QED
    BY <2>1, ReturnKeeps DEF IInv, RowsSound
<1>5. CASE NewBatch(p)
  <2>1. /\ time' = [time EXCEPT ![p] = now] /\ Goto(p, "restampLocations")
        /\ UNCHANGED <<own, now, obj, copy, edit>>
    BY <1>5 DEF NewBatch, tables
  <2> QED
    BY <2>1 DEF IInv, Goto, Labels, LocalsOK, RowsSound, CopiesSound
<1>6. CASE RestampLocations(p) \/ RestampTariffs(p)
  BY <1>6, RestampIInv
<1>7. CASE ResetData(p)
  <2>1. LocalsOK' /\ CopiesSound'
    BY <1>7, GotoKeeps DEF ResetData, Labels
  <2>2. RowsSound'
    BY <1>7 DEF ResetData, RowsSound
  <2> QED
    BY <2>1, <2>2 DEF IInv
<1>8. CASE SeedObject(p)
  BY <1>8, SeedObjectIInv
<1> QED
  BY <1>1, <1>2, <1>3, <1>4, <1>5, <1>6, <1>7, <1>8 DEF Work

LEMMA NextIInv == ASSUME IInv, [Next]_cvars PROVE IInv'
<1>1. CASE \E p \in Procs : Work(p)
  BY <1>1, WorkIInv
<1>2. CASE BootCheck \/ BootNext
  BY <1>2 DEF BootCheck, BootNext, tables, locals, IInv, LocalsOK, RowsSound, CopiesSound
<1>3. CASE BootSeed
  <2>1. PICK id : own' = UpsertOwn(own, id, SeedRow(id))
    BY <1>3 DEF BootSeed
  <2>2. now \in Nat /\ UNCHANGED <<now, pc, obj, copy, edit, time>>
    BY <1>3 DEF BootSeed, locals, IInv, LocalsOK
  <2>3. RowsSound'
    BY <2>1, <2>2, SeedRowSound, UpsertSound DEF IInv
  <2> QED
    BY <2>2, <2>3 DEF IInv, LocalsOK, CopiesSound
<1>4. CASE Crash
  <2>1. UNCHANGED <<own, now>>
    BY <1>4 DEF Crash, tables
  <2>2. LocalsOK' /\ CopiesSound'
    BY <1>4, AnyIdIsId, NoCopyIsRow DEF Crash, IInv, Labels, LocalsOK, CopiesSound
  <2> QED
    BY <2>1, <2>2 DEF IInv, RowsSound
<1>5. CASE Tick
  <2>1. now \in Nat /\ now' = now + 1 /\ UNCHANGED <<own, pc, obj, copy, edit, time>>
    BY <1>5 DEF Tick, tables, locals, IInv, LocalsOK
  <2>2. \A row, id : Sound(row, id, now) => Sound(row, id, now')
    BY <2>1, SoundLater
  <2>3. LocalsOK'
    BY <2>1 DEF IInv, LocalsOK
  <2> QED
    BY <2>1, <2>2, <2>3 DEF IInv, RowsSound, CopiesSound
<1>6. CASE Done \/ UNCHANGED cvars
  BY <1>6 DEF Done, cvars, tables, locals, IInv, LocalsOK, RowsSound, CopiesSound
<1> QED
  BY <1>1, <1>2, <1>3, <1>4, <1>5, <1>6 DEF Next

\* The invariant, and what it says of rows.
LEMMA IInvAlways == Spec => [](BatchKept /\ DatedOnce /\ PartsCovered)
<1>1. IInv => BatchKept /\ DatedOnce /\ PartsCovered
  BY DEF IInv, RowsSound, Sound, BatchKept, DatedOnce, PartsCovered
<1> QED
  BY <1>1, InitIInv, NextIInv, PTL DEF Spec

\* A row is always in the batch it was seeded in, whatever pushes, resets and
\* restarts write it.
THEOREM BatchKeptAlways == Spec => []BatchKept
  BY IInvAlways, PTL

\* The column the feed filters by is always the date a puller reads.
THEOREM DatedOnceAlways == Spec => []DatedOnce
  BY IInvAlways, PTL

\* No hand-picked location is ever older than a part of it.
THEOREM PartsCoveredAlways == Spec => []PartsCovered
  BY IInvAlways, PTL

-----------------------------------------------------------------------------
(* Types.  LocalsOK has most of the locals, RowsSound the rows. *)

Table == own = [id \in DOMAIN own |-> own[id]] /\ DOMAIN own \subseteq Ids

Shapes ==
  /\ Table
  /\ theirs \in [Locations -> [Parts -> 0..now]]
  /\ now \in 1..MaxTime
  /\ boot \in {"checkBase", "seedBase", "checkCron", "seedCron", "up"}
  /\ bootLeft \subseteq Ids
  /\ torn \in BOOLEAN
  /\ whole \subseteq Procs
  /\ started \in 0..MaxRequests
  /\ sent \in [Procs -> SUBSET Parts]
  /\ left \in [Procs -> SUBSET Ids]
  /\ \A p \in Procs : NoLater(copy[p], now)

LEMMA ShapesGiveTypes == ASSUME IInv, Shapes PROVE TypeOK
<1>1. own \in [DOMAIN own -> Row]
  BY DEF IInv, RowsSound, Sound, Shapes, Table
<1>2. time \in [Procs -> 0..now]
  BY DEF IInv, LocalsOK
<1>3. \A id \in DOMAIN own : NoLater(own[id], now)
  BY DEF IInv, RowsSound, Sound, NoLater
<1> QED
  BY <1>1, <1>2, <1>3 DEF IInv, LocalsOK, Labels, Shapes, Table, TypeOK

LEMMA UpsertDomain ==
  ASSUME NEW id, NEW row, own' = UpsertOwn(own, id, row)
  PROVE  DOMAIN own' = DOMAIN own \cup {id} /\ own' = [i \in DOMAIN own' |-> own'[i]]
  BY DEF UpsertOwn

LEMMA UpsertTable ==
  ASSUME Table, NEW id \in Ids, NEW row, own' = UpsertOwn(own, id, row)
  PROVE  Table'
<1>1. DOMAIN own' = DOMAIN own \cup {id} /\ own' = [i \in DOMAIN own' |-> own'[i]]
  BY UpsertDomain
<1> QED
  BY <1>1 DEF Table

LEMMA RestampTable ==
  ASSUME Table, NEW ids, NEW t, own' = RestampSource(own, ids, t)
  PROVE  Table' /\ DOMAIN own' = DOMAIN own
<1>1. DOMAIN own' = DOMAIN own /\ own' = [i \in DOMAIN own' |-> own'[i]]
  BY DEF RestampSource
<1> QED
  BY <1>1 DEF Table

LEMMA SameTable == ASSUME Table, UNCHANGED own PROVE Table'
  BY DEF Table

LEMMA NoCopyIsPast == ASSUME NEW t \in Nat PROVE NoLater(NoCopy, t)
  BY DEF NoCopy, SeedRow, NoLater

\* What a request returns with, and what each step leaves as it was.
LEMMA ReturnShapes ==
  ASSUME IInv, Shapes, NEW p \in Procs, Return(p), now' = now
  PROVE  /\ sent' \in [Procs -> SUBSET Parts] /\ left' \in [Procs -> SUBSET Ids]
         /\ \A q \in Procs : NoLater(copy'[q], now')
<1>1. ASSUME NEW q \in Procs PROVE NoLater(copy'[q], now')
  <2>1. (copy'[q] = NoCopy \/ copy'[q] = copy[q]) /\ now \in Nat
    BY DEF Return, IInv, LocalsOK
  <2> QED
    BY <2>1, NoCopyIsPast DEF Shapes
<1> QED
  BY <1>1 DEF Return, Shapes

LEMMA PushReadShapes == ASSUME IInv, Shapes, NEW p \in Procs, PushRead(p) PROVE Shapes'
<1>1. PICK id \in Locations \cap DOMAIN own : copy' = [copy EXCEPT ![p] = own[id]]
  BY DEF PushRead
<1>2. /\ UNCHANGED <<own, theirs, now, boot, bootLeft, torn, whole, left>>
      /\ started < MaxRequests /\ started' = started + 1
      /\ \E object \in SUBSET Parts : sent' = [sent EXCEPT ![p] = object]
  BY DEF PushRead, Begin, tables, process, history
<1>3. sent' \in [Procs -> SUBSET Parts]
  BY <1>2 DEF Shapes
<1>4. started' \in 0..MaxRequests
  BY <1>2, BoundAssumption DEF Shapes
<1>5. ASSUME NEW q \in Procs PROVE NoLater(copy'[q], now')
  <2>1. copy'[q] = own[id] \/ copy'[q] = copy[q]
    BY <1>1 DEF IInv, LocalsOK
  <2>2. NoLater(own[id], now)
    BY DEF IInv, RowsSound, Sound, NoLater
  <2> QED
    BY <1>2, <2>1, <2>2 DEF Shapes
<1> QED
  BY <1>2, <1>3, <1>4, <1>5, SameTable DEF Shapes

LEMMA PushSourceShapes == ASSUME IInv, Shapes, NEW p \in Procs, PushSource(p) PROVE Shapes'
<1>1. UNCHANGED <<own, theirs, now, boot, bootLeft, torn, whole, started>>
  BY DEF PushSource, At, tables, process, history
<1>2. CASE Return(p)
  BY <1>1, <1>2, ReturnShapes, SameTable DEF Shapes
<1>3. CASE ~Return(p)
  <2>1. UNCHANGED <<sent, left>>
    BY <1>3 DEF PushSource
  <2>2. PICK t \in time[p]..now :
             \E source : copy' = [copy EXCEPT ![p] = [Changed(p, t) EXCEPT !.source = source]]
    BY <1>3 DEF PushSource
  <2>3. t \in Nat /\ t <= now /\ now \in Nat
    BY DEF IInv, LocalsOK
  <2>4. ASSUME NEW q \in Procs PROVE NoLater(copy'[q], now')
    <3>1. CASE q # p
      BY <1>1, <2>2, <3>1 DEF IInv, LocalsOK, Shapes
    <3>2. CASE q = p
      <4> PICK source : copy' = [copy EXCEPT ![p] = [Changed(p, t) EXCEPT !.source = source]]
        BY <2>2
      <4>1. /\ copy[p] \in Row
            /\ copy'[p] = [Changed(p, t) EXCEPT !.source = source]
        BY DEF IInv, LocalsOK
      <4>2. /\ copy'[p].column = t /\ copy'[p].stamp = t
            /\ copy'[p].parts = Changed(p, t).parts
        BY <4>1 DEF Changed, Row
      <4>3. \A u \in Parts :
              Changed(p, t).parts[u] = IF u \in edit[p] THEN t ELSE copy[p].parts[u]
        BY <4>1 DEF Changed, Row
      <4>4. NoLater(copy[p], now)
        BY DEF Shapes
      <4> QED
        BY <1>1, <2>3, <3>2, <4>2, <4>3, <4>4 DEF NoLater
    <3> QED
      BY <3>1, <3>2
  <2> QED
    BY <1>1, <2>1, <2>4, SameTable DEF Shapes
<1> QED
  BY <1>2, <1>3

LEMMA PushSendShapes == ASSUME IInv, Shapes, NEW p \in Procs, PushSend(p) PROVE Shapes'
<1>1. UNCHANGED <<own, now, boot, bootLeft, torn, whole, started>> /\ Return(p)
  BY DEF PushSend, At, process, history
<1>2. theirs' \in [Locations -> [Parts -> 0..now]]
  <2>1. \A u \in Parts : copy[p].parts[u] \in 0..now
    BY DEF IInv, LocalsOK, Row, Shapes, NoLater
  <2>2. CASE theirs' = [theirs EXCEPT ![obj[p]] =
                     [u \in Parts |-> IF u \in sent[p] THEN copy[p].parts[u] ELSE @[u]]]
    <3>1. ASSUME obj[p] \in Locations
          PROVE  [u \in Parts |-> IF u \in sent[p] THEN copy[p].parts[u] ELSE theirs[obj[p]][u]]
                   \in [Parts -> 0..now]
      BY <2>1, <3>1 DEF Shapes
    <3> QED
      BY <2>2, <3>1 DEF Shapes
  <2>3. CASE UNCHANGED theirs
    BY <2>3 DEF Shapes
  <2> QED
    BY <2>2, <2>3 DEF PushSend
<1> QED
  BY <1>1, <1>2, ReturnShapes, SameTable DEF Shapes

LEMMA WorkShapes == ASSUME IInv, Shapes, NEW p \in Procs, Work(p) PROVE Shapes'
<1>1. CASE PushRead(p)
  BY <1>1, PushReadShapes
<1>2. CASE PushSource(p)
  BY <1>2, PushSourceShapes
<1>3. CASE PushSave(p)
  <2>1. /\ own' = UpsertOwn(own, obj[p], copy[p]) /\ obj[p] \in Ids
        /\ UNCHANGED <<theirs, now, boot, bootLeft, torn, whole, started, copy, sent, left>>
    BY <1>3 DEF PushSave, At, process, history, IInv, LocalsOK
  <2> QED
    BY <2>1, UpsertTable DEF Shapes
<1>4. CASE PushSend(p)
  BY <1>4, PushSendShapes
<1>5. CASE NewBatch(p)
  <2>1. /\ UNCHANGED <<own, theirs, now, boot, bootLeft, torn, whole, copy, sent, left>>
        /\ started < MaxRequests /\ started' = started + 1
    BY <1>5 DEF NewBatch, Begin, tables, process, history
  <2>2. started' \in 0..MaxRequests
    BY <2>1, BoundAssumption DEF Shapes
  <2> QED
    BY <2>1, <2>2, SameTable DEF Shapes
<1>6. CASE RestampLocations(p)
  <2>1. /\ own' = RestampSource(own, Locations, time[p])
        /\ UNCHANGED <<theirs, now, boot, bootLeft, torn, whole, started, copy, sent, left>>
    BY <1>6 DEF RestampLocations, At, process, history
  <2> QED
    BY <2>1, RestampTable DEF Shapes
<1>7. CASE RestampTariffs(p)
  <2>1. /\ own' = RestampSource(own, Tariffs, time[p]) /\ Return(p)
        /\ UNCHANGED <<theirs, now, boot, bootLeft, torn, whole, started>>
    BY <1>7 DEF RestampTariffs, At, process, history
  <2> QED
    BY <2>1, RestampTable, ReturnShapes DEF Shapes
<1>8. CASE ResetData(p)
  <2>1. /\ own' = [i \in {} |-> NoCopy] /\ left' = [left EXCEPT ![p] = Ids]
        /\ whole' = whole \cup {p}
        /\ UNCHANGED <<theirs, now, boot, bootLeft, torn, copy, sent>>
        /\ started < MaxRequests /\ started' = started + 1
    BY <1>8 DEF ResetData, Begin, process
  <2>2. started' \in 0..MaxRequests
    BY <2>1, BoundAssumption DEF Shapes
  <2>3. Table'
    BY <2>1 DEF Table
  <2> QED
    BY <2>1, <2>2, <2>3, SameTable DEF Shapes
<1>9. CASE SeedObject(p)
  <2>1. /\ \E id \in Ids : /\ own' = UpsertOwn(own, id, SeedRow(id))
                           /\ left' = [left EXCEPT ![p] = @ \ {id}]
        /\ UNCHANGED <<theirs, now, boot, bootLeft, torn, whole, started, copy, sent>>
    BY <1>9 DEF SeedObject, At, NextObjects, process, history, Shapes
  <2>2. left' \in [Procs -> SUBSET Ids]
    BY <2>1 DEF Shapes
  <2>3. Table'
    BY <2>1, UpsertTable DEF Shapes
  <2> QED
    BY <2>1, <2>2, <2>3, SameTable DEF Shapes
<1>10. CASE ResetDone(p)
  <2>1. /\ UNCHANGED <<own, theirs, now, boot, bootLeft, started>> /\ Return(p)
        /\ torn' \in BOOLEAN /\ whole' \subseteq Procs
    BY <1>10 DEF ResetDone, At, tables, process, Shapes
  <2> QED
    BY <2>1, ReturnShapes, SameTable DEF Shapes
<1>11. CASE CutOff(p)
  <2>1. /\ UNCHANGED <<own, theirs, now, boot, bootLeft, started>> /\ Return(p)
        /\ torn' \in BOOLEAN /\ whole' \subseteq Procs
    BY <1>11 DEF CutOff, tables, process, Shapes
  <2> QED
    BY <2>1, ReturnShapes, SameTable DEF Shapes
<1> QED
  BY <1>1, <1>2, <1>3, <1>4, <1>5, <1>6, <1>7, <1>8, <1>9, <1>10, <1>11 DEF Work

LEMMA BatchesAreIds == \A batch \in {Base, Cron} : batch \subseteq Ids
  BY IdsAssumption DEF Cron

LEMMA NextShapes == ASSUME IInv, Shapes, [Next]_cvars PROVE Shapes'
<1>1. CASE \E p \in Procs : Work(p)
  BY <1>1, WorkShapes
<1>2. CASE BootCheck
  <2>1. /\ UNCHANGED <<own, theirs, now, torn, whole, started, copy, sent, left>>
        /\ boot' \in {"seedBase", "seedCron"} /\ bootLeft' \in {{}, Base, Cron}
    BY <1>2 DEF BootCheck, BatchOf, tables, history, locals
  <2> QED
    BY <2>1, BatchesAreIds, SameTable DEF Shapes
<1>3. CASE BootSeed
  <2>1. PICK id \in bootLeft : own' = UpsertOwn(own, id, SeedRow(id)) /\ bootLeft' = bootLeft \ {id}
    BY <1>3 DEF BootSeed
  <2>2. UNCHANGED <<theirs, now, boot, torn, whole, started, copy, sent, left>>
    BY <1>3 DEF BootSeed, history, locals
  <2>3. Table'
    BY <2>1, UpsertTable DEF Shapes
  <2> QED
    BY <2>1, <2>2, <2>3, SameTable DEF Shapes
<1>4. CASE BootNext
  BY <1>4, SameTable DEF BootNext, tables, history, locals, Shapes
<1>5. CASE Crash
  <2>1. /\ UNCHANGED <<own, theirs, now>> /\ boot' = "checkBase" /\ bootLeft' = {}
        /\ whole' = {} /\ torn' \in BOOLEAN
        /\ started < MaxRequests /\ started' = started + 1
        /\ copy' = [p \in Procs |-> NoCopy] /\ sent' = [p \in Procs |-> {}]
        /\ left' = [p \in Procs |-> {}]
    BY <1>5 DEF Crash, tables, Shapes
  <2>2. started' \in 0..MaxRequests
    BY <2>1, BoundAssumption DEF Shapes
  <2>3. \A p \in Procs : NoLater(copy'[p], now')
    <3>1. now' = now /\ now \in Nat
      BY <2>1 DEF Shapes
    <3> QED
      BY <2>1, <3>1, NoCopyIsPast
  <2> QED
    BY <2>1, <2>2, <2>3, SameTable DEF Shapes
<1>6. CASE Tick
  <2>1. /\ now < MaxTime /\ now' = now + 1 /\ now \in Nat
        /\ UNCHANGED <<own, theirs, boot, bootLeft, torn, whole, started, copy, sent, left>>
    BY <1>6 DEF Tick, tables, process, history, locals, Shapes
  <2>2. now' \in 1..MaxTime
    BY <2>1, BoundAssumption DEF Shapes
  <2>3. theirs' \in [Locations -> [Parts -> 0..now']]
    <3>1. 0..now \subseteq 0..now'
      BY <2>1
    <3>2. \A id \in Locations : theirs[id] \in [Parts -> 0..now']
      BY <3>1 DEF Shapes
    <3> QED
      BY <2>1, <3>2 DEF Shapes
  <2>4. \A p \in Procs : NoLater(copy'[p], now')
    <3> SUFFICES ASSUME NEW p \in Procs PROVE NoLater(copy[p], now + 1)
      BY <2>1
    <3>1. copy[p] \in Row /\ NoLater(copy[p], now)
      BY DEF IInv, LocalsOK, Shapes
    <3>2. copy[p].column \in Nat /\ copy[p].stamp \in Nat
          /\ \A u \in Parts : copy[p].parts[u] \in Nat
      BY <3>1 DEF Row
    <3> QED
      BY <2>1, <3>1, <3>2 DEF NoLater
  <2> QED
    BY <2>1, <2>2, <2>3, <2>4, SameTable DEF Shapes
<1>7. CASE Done \/ UNCHANGED cvars
  BY <1>7, SameTable DEF Done, cvars, tables, process, history, locals, Shapes
<1> QED
  BY <1>1, <1>2, <1>3, <1>4, <1>5, <1>6, <1>7 DEF Next

LEMMA InitShapes == ASSUME Init PROVE Shapes
<1>1. Table
  BY DEF Init, Table
<1>2. now \in 1..MaxTime /\ started \in 0..MaxRequests
  BY BoundAssumption DEF Init
<1>3. theirs \in [Locations -> [Parts -> 0..now]]
  BY DEF Init
<1>4. \A p \in Procs : NoLater(copy[p], now)
  <2>1. now \in Nat
    BY <1>2
  <2> QED
    BY <2>1, NoCopyIsPast DEF Init
<1> QED
  BY <1>1, <1>2, <1>3, <1>4 DEF Init, Shapes

\* Rows, the clock, the process and the locals of requests keep their shapes, and
\* no time in a row, a copy or at the counterparty is in the future, for any clock
\* and any number of requests.
THEOREM TypeCorrect == Spec => []TypeOK
<1>1. Init => IInv /\ Shapes
  BY InitIInv, InitShapes
<1>2. IInv /\ Shapes /\ [Next]_cvars => (IInv /\ Shapes)'
  BY NextIInv, NextShapes
<1>3. IInv /\ Shapes => TypeOK
  BY ShapesGiveTypes
<1> QED
  BY <1>1, <1>2, <1>3, PTL DEF Spec

-----------------------------------------------------------------------------
(* What is not yet there while the catalogue is seeded. *)

Missing == Ids \ DOMAIN own

AllOrNone(batch) == batch \subseteq DOMAIN own \/ batch \cap DOMAIN own = {}

\* Whatever is missing, one reset that was not cut off has yet to seed.
Covered == Missing = {} \/ \E p \in whole : Missing \subseteq left[p]

\* Start-up has the server to itself, and knows what it has yet to seed.
BootAlone ==
  /\ boot # "up" => \A p \in Procs : pc[p] = "idle"
  /\ boot \notin {"seedBase", "seedCron"} => bootLeft = {}
  /\ \A p \in whole : pc[p] = "seed"

\* What a start that follows no torn seeding finds, batch by batch.
Phases ==
  ~torn =>
    /\ bootLeft \cap DOMAIN own = {}
    /\ boot = "checkBase" => AllOrNone(Base) /\ AllOrNone(Cron)
    /\ boot = "seedBase" =>
         Base \ DOMAIN own \subseteq bootLeft /\ bootLeft \subseteq Base /\ AllOrNone(Cron)
    /\ boot = "checkCron" => Base \subseteq DOMAIN own /\ AllOrNone(Cron)
    /\ boot = "seedCron" => Base \subseteq DOMAIN own /\ Cron \ DOMAIN own \subseteq bootLeft

Covering == (~torn /\ boot = "up") \/ whole # {} => Covered

SeedInv == BootAlone /\ Phases /\ Covering

\* A batch that is there whole or not at all is missing when it is not there.
LEMMA MissingMeans ==
  ASSUME RowsSound, Table, NEW batch \in {Base, Cron}, AllOrNone(batch)
  PROVE  IF BatchMissing(own, batch) THEN batch \cap DOMAIN own = {}
         ELSE batch \subseteq DOMAIN own
<1>1. \A i \in DOMAIN own : i \in Ids /\ own[i].source = SourceOf(i)
  BY DEF RowsSound, Sound, Table
<1>2. \A i \in Ids : \A j \in batch : SourceOf(i) = SourceOf(j) => i \in batch
  BY DEF SourceOf, Cron
<1>3. ASSUME batch \subseteq DOMAIN own PROVE ~BatchMissing(own, batch)
  <2> SUFFICES ASSUME NEW kind \in {Locations, Tariffs}
               PROVE  \E i \in DOMAIN own \cap kind : \E j \in batch : own[i].source = SourceOf(j)
    BY DEF BatchMissing
  <2>1. PICK i \in batch : i \in kind
    BY BatchAssumption
  <2> QED
    BY <1>1, <1>3, <2>1
<1>4. ASSUME ~BatchMissing(own, batch) PROVE batch \subseteq DOMAIN own
  <2>1. PICK i \in DOMAIN own : \E j \in batch : own[i].source = SourceOf(j)
    BY <1>4 DEF BatchMissing
  <2>2. i \in batch
    BY <1>1, <1>2, <2>1
  <2> QED
    BY <2>2 DEF AllOrNone
<1> QED
  BY <1>3, <1>4 DEF AllOrNone

\* A step that takes no row away and lets the resets and start-up be.
LEMMA SeedStands ==
  ASSUME SeedInv, UNCHANGED <<boot, bootLeft, torn, whole>>,
         boot # "up" => DOMAIN own' = DOMAIN own /\ UNCHANGED pc,
         DOMAIN own \subseteq DOMAIN own',
         \A p \in whole : pc'[p] = pc[p] /\ left'[p] = left[p]
  PROVE  SeedInv'
<1>1. BootAlone'
  BY DEF SeedInv, BootAlone
<1>2. Phases'
  BY DEF SeedInv, BootAlone, Phases, AllOrNone
<1>3. Covered => Covered'
  BY DEF Covered, Missing
<1>4. Covering'
  BY <1>3 DEF SeedInv, Covering
<1> QED
  BY <1>1, <1>2, <1>4 DEF SeedInv

\* Requests run when start-up is over.
LEMMA WorkUp == ASSUME SeedInv, NEW p \in Procs, Work(p) PROVE boot = "up"
<1>1. boot # "up" => pc[p] = "idle"
  BY DEF SeedInv, BootAlone
<1>2. Begin(p) \/ pc[p] # "idle" => boot = "up"
  BY <1>1 DEF Begin
<1> QED
  BY <1>2 DEF Work, PushRead, PushSource, PushSave, PushSend, NewBatch, RestampLocations,
     RestampTariffs, ResetData, SeedObject, ResetDone, CutOff, At

\* A push and a restamp end or go on without touching what is to be seeded.
LEMMA OtherWorkSeed ==
  ASSUME IInv, Shapes, SeedInv, NEW p \in Procs, boot = "up",
         \/ PushRead(p) \/ PushSource(p) \/ PushSave(p) \/ PushSend(p)
         \/ NewBatch(p) \/ RestampLocations(p) \/ RestampTariffs(p)
  PROVE  SeedInv'
<1>1. pc[p] # "seed" /\ p \notin whole
  BY DEF PushRead, PushSource, PushSave, PushSend, NewBatch, RestampLocations, RestampTariffs,
     Begin, At, SeedInv, BootAlone
<1>2. UNCHANGED <<boot, bootLeft, torn, whole>>
  BY DEF PushRead, PushSource, PushSave, PushSend, NewBatch, RestampLocations, RestampTariffs,
     process, history
<1>3. DOMAIN own \subseteq DOMAIN own'
  <2>1. CASE PushSave(p)
    BY <2>1, UpsertDomain DEF PushSave
  <2>2. CASE RestampLocations(p) \/ RestampTariffs(p)
    BY <2>2, RestampTable DEF RestampLocations, RestampTariffs, Shapes
  <2>3. CASE PushRead(p) \/ PushSource(p) \/ PushSend(p) \/ NewBatch(p)
    BY <2>3 DEF PushRead, PushSource, PushSend, NewBatch, tables
  <2> QED
    BY <2>1, <2>2, <2>3
<1>4. \A q \in Procs \ {p} : pc'[q] = pc[q] /\ left'[q] = left[q]
  <2>1. Return(p) \/ (UNCHANGED left /\ \E label : Goto(p, label))
    BY DEF PushRead, PushSource, PushSave, PushSend, NewBatch, RestampLocations, RestampTariffs
  <2> QED
    BY <2>1 DEF Return, Goto, IInv, LocalsOK, Shapes
<1> QED
  BY <1>1, <1>2, <1>3, <1>4, SeedStands DEF Shapes

\* The reset that truncated last has everything to seed.
LEMMA ResetDataSeed ==
  ASSUME IInv, Shapes, SeedInv, NEW p \in Procs, boot = "up", ResetData(p) PROVE SeedInv'
<1>1. /\ own' = [i \in {} |-> NoCopy] /\ left' = [left EXCEPT ![p] = Ids]
      /\ whole' = whole \cup {p} /\ pc' = [pc EXCEPT ![p] = "seed"]
      /\ UNCHANGED <<boot, bootLeft, torn>>
  BY DEF ResetData, Goto, process
<1>2. DOMAIN own' = {} /\ left'[p] = Ids
  BY <1>1 DEF Shapes
<1>3. BootAlone'
  BY <1>1 DEF SeedInv, BootAlone, IInv, LocalsOK, Shapes
<1>4. Phases'
  BY <1>1, <1>2 DEF SeedInv, Phases
<1>5. Covering'
  BY <1>1, <1>2 DEF Covering, Covered, Missing
<1> QED
  BY <1>3, <1>4, <1>5 DEF SeedInv

LEMMA SeedObjectSeed ==
  ASSUME IInv, Shapes, SeedInv, NEW p \in Procs, boot = "up", SeedObject(p) PROVE SeedInv'
<1>1. PICK id \in NextObjects(left[p]) : /\ own' = UpsertOwn(own, id, SeedRow(id))
                                         /\ left' = [left EXCEPT ![p] = @ \ {id}]
  BY DEF SeedObject
<1>2. UNCHANGED <<boot, bootLeft, torn, whole, pc>>
  BY DEF SeedObject, process, history
<1>3. DOMAIN own' = DOMAIN own \cup {id}
  BY <1>1, UpsertDomain
<1>4. \A q \in Procs : left[q] \ {id} \subseteq left'[q]
  BY <1>1 DEF Shapes
<1>5. Covered => Covered'
  BY <1>2, <1>3, <1>4 DEF Covered, Missing, Shapes
<1>6. bootLeft = {}
  BY DEF SeedInv, BootAlone
<1>7. BootAlone' /\ Phases'
  BY <1>2, <1>6 DEF SeedInv, BootAlone, Phases
<1> QED
  BY <1>2, <1>5, <1>7 DEF SeedInv, Covering

\* A reset that ends has nothing more to seed: if it is the one that truncated
\* last nothing is missing, else that one is still about.
LEMMA ResetDoneSeed ==
  ASSUME IInv, Shapes, SeedInv, NEW p \in Procs, boot = "up", ResetDone(p) PROVE SeedInv'
<1>1. /\ UNCHANGED <<own, boot, bootLeft>> /\ Return(p)
      /\ torn' = (torn /\ p \notin whole) /\ whole' = whole \ {p}
      /\ NextObjects(left[p]) = {}
  BY DEF ResetDone, tables, process
<1>2. left[p] = {}
  BY <1>1 DEF NextObjects
<1>3. \A q \in Procs \ {p} : pc'[q] = pc[q] /\ left'[q] = left[q]
  BY <1>1 DEF Return, Goto, IInv, LocalsOK, Shapes
<1>4. Covered => Covered'
  <2>1. CASE Missing = {}
    BY <1>1, <2>1 DEF Covered, Missing
  <2>2. CASE \E q \in whole : Missing \subseteq left[q]
    <3>1. PICK q \in whole : Missing \subseteq left[q]
      BY <2>2
    <3>2. CASE q = p
      BY <1>1, <1>2, <3>1, <3>2 DEF Covered, Missing
    <3>3. CASE q # p
      BY <1>1, <1>3, <3>1, <3>3 DEF Covered, Missing, Shapes
    <3> QED
      BY <3>2, <3>3
  <2> QED
    BY <2>1, <2>2 DEF Covered
<1>5. BootAlone'
  BY <1>1, <1>3 DEF SeedInv, BootAlone, Shapes
<1>6. Phases'
  BY <1>1 DEF SeedInv, BootAlone, Phases
<1>7. Covering'
  BY <1>1, <1>4 DEF SeedInv, Covering
<1> QED
  BY <1>5, <1>6, <1>7 DEF SeedInv

LEMMA CutOffSeed ==
  ASSUME IInv, Shapes, SeedInv, NEW p \in Procs, boot = "up", CutOff(p) PROVE SeedInv'
<1>1. /\ UNCHANGED <<own, boot, bootLeft>> /\ Return(p)
      /\ torn' = (torn \/ pc[p] = "seed")
      /\ whole' = IF pc[p] = "seed" THEN {} ELSE whole
  BY DEF CutOff, tables, process
<1>2. \A q \in Procs \ {p} : pc'[q] = pc[q] /\ left'[q] = left[q]
  BY <1>1 DEF Return, Goto, IInv, LocalsOK, Shapes
<1>3. CASE pc[p] = "seed"
  BY <1>1, <1>3 DEF SeedInv, BootAlone, Phases, Covering
<1>4. CASE pc[p] # "seed"
  <2>1. p \notin whole /\ UNCHANGED <<boot, bootLeft, torn, whole>>
    BY <1>1, <1>4 DEF SeedInv, BootAlone, Shapes
  <2> QED
    BY <1>1, <1>2, <2>1, SeedStands DEF Shapes
<1> QED
  BY <1>3, <1>4

LEMMA WorkSeed == ASSUME IInv, Shapes, SeedInv, NEW p \in Procs, Work(p) PROVE SeedInv'
  BY WorkUp, OtherWorkSeed, ResetDataSeed, SeedObjectSeed, ResetDoneSeed, CutOffSeed DEF Work

-----------------------------------------------------------------------------
(* Start-up. *)

LEMMA BootCheckSeed == ASSUME IInv, Shapes, SeedInv, BootCheck PROVE SeedInv'
<1>1. /\ UNCHANGED <<own, torn, whole, pc, left>>
      /\ \/ /\ boot = "checkBase" /\ boot' = "seedBase"
            /\ bootLeft' = IF BatchMissing(own, Base) THEN Base ELSE {}
         \/ /\ boot = "checkCron" /\ boot' = "seedCron"
            /\ bootLeft' = IF BatchMissing(own, Cron) THEN Cron ELSE {}
  BY DEF BootCheck, BatchOf, tables, history, locals
<1>2. RowsSound /\ Table
  BY DEF IInv, Shapes
<1>3. BootAlone' /\ Covering'
  BY <1>1 DEF SeedInv, BootAlone, Covering, Covered, Missing
<1>4. ASSUME ~torn, boot = "checkBase"
      PROVE  bootLeft' = Base \ DOMAIN own /\ AllOrNone(Cron)
  <2>1. AllOrNone(Base) /\ AllOrNone(Cron)
    BY <1>4 DEF SeedInv, Phases
  <2>2. IF BatchMissing(own, Base) THEN Base \cap DOMAIN own = {} ELSE Base \subseteq DOMAIN own
    BY <1>2, <2>1, MissingMeans
  <2> QED
    BY <1>1, <1>4, <2>1, <2>2
<1>5. ASSUME ~torn, boot = "checkCron"
      PROVE  bootLeft' = Cron \ DOMAIN own /\ Base \subseteq DOMAIN own
  <2>1. AllOrNone(Cron) /\ Base \subseteq DOMAIN own
    BY <1>5 DEF SeedInv, Phases
  <2>2. IF BatchMissing(own, Cron) THEN Cron \cap DOMAIN own = {} ELSE Cron \subseteq DOMAIN own
    BY <1>2, <2>1, MissingMeans
  <2> QED
    BY <1>1, <1>5, <2>1, <2>2
<1>6. Phases'
  BY <1>1, <1>4, <1>5 DEF Phases, AllOrNone
<1> QED
  BY <1>3, <1>6 DEF SeedInv

LEMMA BootSeedSeed == ASSUME IInv, Shapes, SeedInv, BootSeed PROVE SeedInv'
<1>1. PICK id \in bootLeft : own' = UpsertOwn(own, id, SeedRow(id)) /\ bootLeft' = bootLeft \ {id}
  BY DEF BootSeed
<1>2. UNCHANGED <<boot, torn, whole, pc, left>>
  BY DEF BootSeed, history, locals
<1>3. DOMAIN own' = DOMAIN own \cup {id} /\ boot \in {"seedBase", "seedCron"}
  BY <1>1, UpsertDomain DEF SeedInv, BootAlone
<1>4. BootAlone'
  BY <1>1, <1>2, <1>3 DEF SeedInv, BootAlone
<1>5. Phases'
  <2> SUFFICES ASSUME ~torn PROVE Phases'
    BY <1>2 DEF Phases
  <2>1. bootLeft' \cap DOMAIN own' = {}
    BY <1>1, <1>3 DEF SeedInv, Phases
  <2>2. CASE boot = "seedBase"
    <3>1. id \notin Cron
      BY <2>2 DEF SeedInv, Phases, Cron
    <3> QED
      BY <1>1, <1>2, <1>3, <2>1, <2>2, <3>1 DEF SeedInv, Phases, AllOrNone
  <2>3. CASE boot = "seedCron"
    BY <1>1, <1>2, <1>3, <2>1, <2>3 DEF SeedInv, Phases
  <2> QED
    BY <1>3, <2>2, <2>3
<1>6. Covering'
  <2>1. Covered => Covered'
    BY <1>2, <1>3 DEF Covered, Missing
  <2> QED
    BY <1>2, <2>1 DEF SeedInv, Covering
<1> QED
  BY <1>4, <1>5, <1>6 DEF SeedInv

LEMMA BootNextSeed == ASSUME IInv, Shapes, SeedInv, BootNext PROVE SeedInv'
<1>1. /\ UNCHANGED <<own, bootLeft, torn, whole, pc, left>> /\ bootLeft = {}
      /\ \/ boot = "seedBase" /\ boot' = "checkCron"
         \/ boot = "seedCron" /\ boot' = "up"
  BY DEF BootNext, tables, history, locals
<1>2. BootAlone' /\ Phases'
  BY <1>1 DEF SeedInv, BootAlone, Phases, AllOrNone
<1>3. ASSUME ~torn, boot = "seedCron" PROVE Missing' = {}
  BY <1>1, <1>3, IdsAssumption DEF SeedInv, Phases, Missing, Cron
<1>4. whole = {}
  BY <1>1 DEF SeedInv, BootAlone, Shapes
<1> QED
  BY <1>1, <1>2, <1>3, <1>4 DEF SeedInv, Covering, Covered

LEMMA CrashSeed == ASSUME IInv, Shapes, SeedInv, Crash PROVE SeedInv'
<1>1. /\ UNCHANGED own /\ boot' = "checkBase" /\ bootLeft' = {} /\ whole' = {}
      /\ torn' = (torn \/ bootLeft # {} \/ \E p \in Procs : pc[p] = "seed")
      /\ pc' = [p \in Procs |-> "idle"]
  BY DEF Crash, tables
<1>2. BootAlone' /\ Covering'
  BY <1>1 DEF BootAlone, Covering
<1>3. ASSUME ~torn' PROVE AllOrNone(Base) /\ AllOrNone(Cron)
  <2>1. ~torn /\ bootLeft = {} /\ \A p \in Procs : pc[p] # "seed"
    BY <1>1, <1>3
  <2>2. CASE boot = "up"
    <3>1. Missing = {}
      BY <2>1, <2>2 DEF SeedInv, Covering, Covered, BootAlone, Shapes
    <3> QED
      BY <3>1, BatchesAreIds DEF Missing, AllOrNone
  <2>3. CASE boot # "up"
    BY <2>1, <2>3 DEF SeedInv, Phases, AllOrNone, Shapes
  <2> QED
    BY <2>2, <2>3
<1>4. Phases'
  BY <1>1, <1>3 DEF Phases, AllOrNone
<1> QED
  BY <1>2, <1>4 DEF SeedInv

LEMMA NextSeed == ASSUME IInv, Shapes, SeedInv, [Next]_cvars PROVE SeedInv'
<1>1. CASE Tick \/ Done \/ UNCHANGED cvars
  <2>1. UNCHANGED <<own, boot, bootLeft, torn, whole, pc, left>>
    BY <1>1 DEF Tick, Done, cvars, tables, process, history, locals
  <2> QED
    BY <2>1, SeedStands
<1> QED
  BY <1>1, WorkSeed, BootCheckSeed, BootSeedSeed, BootNextSeed, CrashSeed DEF Next

LEMMA InitSeed == ASSUME Init PROVE SeedInv
  BY DEF Init, SeedInv, BootAlone, Phases, Covering, AllOrNone

LEMMA SeedingHolds == Spec => [](IInv /\ Shapes /\ SeedInv)
<1>1. Init => IInv /\ Shapes /\ SeedInv
  BY InitIInv, InitShapes, InitSeed
<1>2. IInv /\ Shapes /\ SeedInv /\ [Next]_cvars => (IInv /\ Shapes /\ SeedInv)'
  BY NextIInv, NextShapes, NextSeed
<1> QED
  BY <1>1, <1>2, PTL DEF Spec

LEMMA SeededWhole == ASSUME Shapes, SeedInv PROVE CatalogueWhole
<1> SUFFICES ASSUME Settled PROVE DOMAIN own = Ids
  BY DEF CatalogueWhole
<1>1. whole = {}
  BY DEF Settled, SeedInv, BootAlone, Shapes
<1>2. Missing = {}
  BY <1>1 DEF Settled, SeedInv, Covering, Covered
<1> QED
  BY <1>2 DEF Missing, Shapes, Table

LEMMA StartKeepsRows ==
  ASSUME SeedInv, [Next]_cvars, boot # "up", ~torn, NEW id \in DOMAIN own
  PROVE  own'[id] = own[id]
<1>1. CASE BootSeed
  <2>1. PICK other \in bootLeft : own' = UpsertOwn(own, other, SeedRow(other))
    BY <1>1 DEF BootSeed
  <2>2. other # id
    BY DEF SeedInv, Phases
  <2> QED
    BY <2>1, <2>2 DEF UpsertOwn
<1>2. CASE BootCheck \/ BootNext \/ Crash \/ Tick \/ Done \/ UNCHANGED cvars
  BY <1>2 DEF BootCheck, BootNext, Crash, Tick, Done, cvars, tables
<1> QED
  BY <1>1, <1>2, WorkUp DEF Next

\* Once nothing is in flight and no seeding was cut off since the last whole one,
\* every object of both batches has its row, however resets, pushes, restarts
\* and failures overlapped.
THEOREM CatalogueWholeAlways == Spec => []CatalogueWhole
<1>1. IInv /\ Shapes /\ SeedInv => CatalogueWhole
  BY SeededWhole
<1> QED
  BY <1>1, SeedingHolds, PTL

\* Start-up changes no row that is there, unless a seeding was cut off.
THEOREM RestartKeepsAlways == Spec => RestartKeeps
<1>1. IInv /\ Shapes /\ SeedInv /\ [Next]_cvars =>
        [boot # "up" /\ ~torn => \A id \in DOMAIN own : own'[id] = own[id]]_cvars
  BY StartKeepsRows
<1> QED
  BY <1>1, SeedingHolds, PTL DEF Spec, RestartKeeps
=============================================================================
