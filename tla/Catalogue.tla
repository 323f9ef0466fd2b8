----------------------------- MODULE Catalogue -----------------------------
(***************************************************************************)
(* The partner's own catalogue: own_locations and own_tariffs              *)
(* (internal/store/own.go), the pushes that change a location and send it  *)
(* (client/evolt.go, PushLocationLevel), the restamping of the cron batch  *)
(* (AdminNewBatch), and the seeding of both tables, at start-up and by     *)
(* POST /admin/seed/reset (internal/seed).                                 *)
(*                                                                         *)
(* One step is one SQL statement or one call; requests interleave between  *)
(* them.  The process may die: it seeds before it serves again.            *)
(*                                                                         *)
(* A row keeps its last_updated twice, in the column the feed filters by   *)
(* and in the payload a puller reads.  Of the payload the model keeps that *)
(* and the last_updated of each EVSE or connector embedded in it, which    *)
(* stands for its content.  Times are whole seconds; 0 is when the seed    *)
(* data is dated, before anything runs.  PushEvseStatus, PushTariff and    *)
(* DeleteTariff send without writing anything here and are left out.       *)
(***************************************************************************)
EXTENDS Naturals

CONSTANTS
  Procs,       \* slots for requests in flight at one time
  Locations,   \* ids in own_locations
  Tariffs,     \* ids in own_tariffs
  Base,        \* the ids of the file dataset; the rest are the cron batch
  Parts,       \* EVSEs and connectors embedded in a location
  MaxTime,     \* bound: the clock
  MaxRequests, \* bound: requests and crashes in a behaviour
  MayFail      \* a request may be cut off, the process may die

Ids == Locations \cup Tariffs
Cron == Ids \ Base

ASSUME IdsAssumption == Locations \cap Tariffs = {} /\ Base \subseteq Ids
ASSUME BatchAssumption ==
  \A batch \in {Base, Cron} : batch \cap Locations # {} /\ batch \cap Tariffs # {}
ASSUME BoundAssumption == MaxTime \in Nat \ {0} /\ MaxRequests \in Nat
ASSUME FailAssumption == MayFail \in BOOLEAN

VARIABLES
  own,       \* both tables: id -> row
  theirs,    \* the parts of our locations as the counterparty last took them
  now,       \* the clock
  boot,      \* what the process does: seeds a batch, or serves
  bootLeft,  \* the objects start-up has yet to seed
  torn,      \* history: since the last whole seeding one was cut off
  whole,     \* history: the resets whose end makes the catalogue whole again
  started,   \* requests and crashes so far, for the bound
  pc,        \* the step each request takes next
  obj,       \* the location it pushes
  copy,      \* its copy of that row
  edit,      \* the parts its fields are applied to
  sent,      \* the parts its call carries
  time,      \* the earliest time it may stamp, then the one it did
  left       \* the objects a reset has yet to seed

tables == <<own, theirs>>
process == <<boot, bootLeft>>
history == <<torn, whole>>
locals == <<pc, obj, copy, edit, sent, time, left>>
cvars == <<tables, now, process, history, started, locals>>

SourceOf(id) == IF id \in Base THEN "base" ELSE "cron"

Row == [column: Nat, stamp: Nat, parts: [Parts -> Nat], source: {"base", "cron"}]

\* An object as the dataset of its batch has it.
SeedRow(id) ==
  [column |-> 0, stamp |-> 0, parts |-> [u \in Parts |-> 0], source |-> SourceOf(id)]

AnyId == CHOOSE id \in Ids : TRUE
NoCopy == SeedRow(AnyId)

-----------------------------------------------------------------------------
(* Statements. *)

\* INSERT ... ON CONFLICT (id) DO UPDATE, every column from the caller.
UpsertOwn(table, id, row) ==
  [i \in DOMAIN table \cup {id} |-> IF i = id THEN row ELSE table[i]]

\* Mutant: the row is re-dated and its payload is not.
RestampColumn(table, ids, t) ==
  [i \in DOMAIN table |->
     IF i \in ids /\ table[i].source = "cron" THEN [table[i] EXCEPT !.column = t]
     ELSE table[i]]

\* UPDATE ... WHERE source: the row and its payload.
RestampSource(table, ids, t) ==
  [i \in DOMAIN table |->
     IF i \in ids /\ table[i].source = "cron"
     THEN [table[i] EXCEPT !.column = t, !.stamp = t] ELSE table[i]]

\* Mutant: start-up does not look.
AlwaysMissing(table, batch) == TRUE

\* batchMissing: one of the two tables holds nothing of the batch's source.
BatchMissing(table, batch) ==
  \E kind \in {Locations, Tariffs} :
    \A i \in DOMAIN table \cap kind : \A j \in batch : table[i].source # SourceOf(j)

Init ==
  /\ own = [i \in {} |-> NoCopy]
  /\ theirs = [id \in Locations |-> [u \in Parts |-> 0]]
  /\ now = 1
  /\ boot = "checkBase"
  /\ bootLeft = {}
  /\ torn = FALSE
  /\ whole = {}
  /\ started = 0
  /\ pc = [p \in Procs |-> "idle"]
  /\ obj = [p \in Procs |-> AnyId]
  /\ copy = [p \in Procs |-> NoCopy]
  /\ edit = [p \in Procs |-> {}]
  /\ sent = [p \in Procs |-> {}]
  /\ time = [p \in Procs |-> 0]
  /\ left = [p \in Procs |-> {}]

Tick ==
  /\ now < MaxTime
  /\ now' = now + 1
  /\ UNCHANGED <<tables, process, history, started, locals>>

-----------------------------------------------------------------------------
(* The shape of a request. *)

Begin(p) ==
  /\ boot = "up"
  /\ pc[p] = "idle"
  /\ started < MaxRequests
  /\ started' = started + 1

At(p, label) == pc[p] = label /\ UNCHANGED started

Goto(p, label) == pc' = [pc EXCEPT ![p] = label]

Return(p) ==
  /\ Goto(p, "idle")
  /\ obj' = [obj EXCEPT ![p] = AnyId]
  /\ copy' = [copy EXCEPT ![p] = NoCopy]
  /\ edit' = [edit EXCEPT ![p] = {}]
  /\ sent' = [sent EXCEPT ![p] = {}]
  /\ time' = [time EXCEPT ![p] = 0]
  /\ left' = [left EXCEPT ![p] = {}]

-----------------------------------------------------------------------------
(* PushLocationLevel: read, change, persist, send. *)

\* A push reads the row.  It addresses the location or a part of it; a PUT may
\* change nothing and goes straight to its call.  PUT sends the object it
\* addresses, PATCH what it changed.  What is changed is any map in the code; its
\* caller, the screen, names fields of the object it addresses, and so it is here:
\* a list of embedded objects is not replaced by one with dates of its own.
PushRead(p) ==
  /\ Begin(p)
  /\ \E id \in Locations \cap DOMAIN own :
       /\ obj' = [obj EXCEPT ![p] = id]
       /\ copy' = [copy EXCEPT ![p] = own[id]]
  /\ \/ /\ \E object \in {Parts} \cup {{u} : u \in Parts} : sent' = [sent EXCEPT ![p] = object]
        /\ Goto(p, "send")
        /\ UNCHANGED edit
     \/ /\ \/ \E u \in Parts : /\ edit' = [edit EXCEPT ![p] = {u}]
                               /\ sent' = [sent EXCEPT ![p] = {u}]
           \/ /\ \E object \in {{}, Parts} : sent' = [sent EXCEPT ![p] = object]
              /\ UNCHANGED edit
        /\ Goto(p, "source")
  /\ time' = [time EXCEPT ![p] = now]
  /\ UNCHANGED <<tables, now, process, history, left>>

\* Mutants: the location's own last_updated stays; the time is rounded up.
ChangedPartOnly(p, t) ==
  [copy[p] EXCEPT !.parts = [u \in Parts |-> IF u \in edit[p] THEN t ELSE @[u]]]

ChangedRoundedUp(p, t) ==
  [copy[p] EXCEPT !.column = t + 1, !.stamp = t + 1,
                  !.parts = [u \in Parts |-> IF u \in edit[p] THEN t + 1 ELSE @[u]]]

\* The clock is read between the two SELECTs, so the change bears a time between
\* them.  It goes to the part and to the location in both places, and the row
\* stays in the batch it is in.
Changed(p, t) ==
  [copy[p] EXCEPT !.column = t, !.stamp = t,
                  !.parts = [u \in Parts |-> IF u \in edit[p] THEN t ELSE @[u]]]

\* Mutant: the upsert takes the default source.
ToDefaultSource(p) ==
  /\ At(p, "source")
  /\ obj[p] \in DOMAIN own
  /\ \E t \in time[p]..now :
       copy' = [copy EXCEPT ![p] = [Changed(p, t) EXCEPT !.source = "base"]]
  /\ Goto(p, "save")
  /\ UNCHANGED <<tables, now, process, history, obj, edit, sent, time, left>>

PushSource(p) ==
  /\ At(p, "source")
  /\ \/ /\ obj[p] \in DOMAIN own
        /\ \E t \in time[p]..now :
             copy' = [copy EXCEPT ![p] = [Changed(p, t) EXCEPT !.source = own[obj[p]].source]]
        /\ Goto(p, "save")
        /\ UNCHANGED <<obj, edit, sent, time, left>>
     \/ /\ obj[p] \notin DOMAIN own
        /\ Return(p)
  /\ UNCHANGED <<tables, now, process, history>>

PushSave(p) ==
  /\ At(p, "save")
  /\ own' = UpsertOwn(own, obj[p], copy[p])
  /\ Goto(p, "send")
  /\ UNCHANGED <<theirs, now, process, history, obj, copy, edit, sent, time, left>>

\* The counterparty takes what the call carries (external), or the push fails
\* and nothing is sent again: no REGISTERED row, a refusal, no answer.
PushSend(p) ==
  /\ At(p, "send")
  /\ \/ theirs' = [theirs EXCEPT ![obj[p]] =
                     [u \in Parts |-> IF u \in sent[p] THEN copy[p].parts[u] ELSE @[u]]]
     \/ UNCHANGED theirs
  /\ Return(p)
  /\ UNCHANGED <<own, now, process, history>>

-----------------------------------------------------------------------------
(* AdminNewBatch: the time is taken first, then a statement for each table. *)

NewBatch(p) ==
  /\ Begin(p)
  /\ time' = [time EXCEPT ![p] = now]
  /\ Goto(p, "restampLocations")
  /\ UNCHANGED <<tables, now, process, history, obj, copy, edit, sent, left>>

RestampLocations(p) ==
  /\ At(p, "restampLocations")
  /\ own' = RestampSource(own, Locations, time[p])
  /\ Goto(p, "restampTariffs")
  /\ UNCHANGED <<theirs, now, process, history, obj, copy, edit, sent, time, left>>

RestampTariffs(p) ==
  /\ At(p, "restampTariffs")
  /\ own' = RestampSource(own, Tariffs, time[p])
  /\ Return(p)
  /\ UNCHANGED <<theirs, now, process, history>>

-----------------------------------------------------------------------------
(* AdminSeedReset: truncate, then upsert every object, the file dataset     *)
(* before the cron batch; within one, the tables come in any order.         *)

ResetData(p) ==
  /\ Begin(p)
  /\ own' = [i \in {} |-> NoCopy]
  /\ left' = [left EXCEPT ![p] = Ids]
  /\ whole' = whole \cup {p}
  /\ Goto(p, "seed")
  /\ UNCHANGED <<theirs, now, process, torn, obj, copy, edit, sent, time>>

\* Mutant: the batches are told apart and the second is never reached.
FirstBatchOnly(todo) == todo \cap Base

NextObjects(todo) == IF todo \cap Base # {} THEN todo \cap Base ELSE todo

SeedObject(p) ==
  /\ At(p, "seed")
  /\ \E id \in NextObjects(left[p]) :
       /\ own' = UpsertOwn(own, id, SeedRow(id))
       /\ left' = [left EXCEPT ![p] = @ \ {id}]
  /\ UNCHANGED <<theirs, now, process, history, pc, obj, copy, edit, sent, time>>

ResetDone(p) ==
  /\ At(p, "seed")
  /\ NextObjects(left[p]) = {}
  /\ Return(p)
  /\ torn' = (torn /\ p \notin whole)
  /\ whole' = whole \ {p}
  /\ UNCHANGED <<tables, now, process>>

-----------------------------------------------------------------------------
(* Start-up, EnsureSeeded: the server does not listen yet, so no request    *)
(* runs beside it.                                                          *)

BatchOf == [seedBase |-> Base, seedCron |-> Cron]

BootCheck ==
  /\ \E step \in {<<"checkBase", "seedBase">>, <<"checkCron", "seedCron">>} :
       /\ boot = step[1]
       /\ boot' = step[2]
       /\ bootLeft' = IF BatchMissing(own, BatchOf[step[2]]) THEN BatchOf[step[2]] ELSE {}
  /\ UNCHANGED <<tables, now, history, started, locals>>

BootSeed ==
  /\ \E id \in bootLeft :
       /\ own' = UpsertOwn(own, id, SeedRow(id))
       /\ bootLeft' = bootLeft \ {id}
  /\ UNCHANGED <<theirs, now, boot, history, started, locals>>

BootNext ==
  /\ bootLeft = {}
  /\ \/ boot = "seedBase" /\ boot' = "checkCron"
     \/ boot = "seedCron" /\ boot' = "up"
  /\ UNCHANGED <<tables, now, bootLeft, history, started, locals>>

-----------------------------------------------------------------------------
(* Failure. *)

\* A statement fails or the caller hangs up: the handler returns.
CutOff(p) ==
  /\ MayFail
  /\ pc[p] # "idle"
  /\ torn' = (torn \/ pc[p] = "seed")
  /\ whole' = IF pc[p] = "seed" THEN {} ELSE whole
  /\ Return(p)
  /\ UNCHANGED <<tables, now, process, started>>

\* The process dies, with every request in flight, and is started again.
Crash ==
  /\ MayFail
  /\ started < MaxRequests
  /\ started' = started + 1
  /\ torn' = (torn \/ bootLeft # {} \/ \E p \in Procs : pc[p] = "seed")
  /\ whole' = {}
  /\ boot' = "checkBase"
  /\ bootLeft' = {}
  /\ pc' = [p \in Procs |-> "idle"]
  /\ obj' = [p \in Procs |-> AnyId]
  /\ copy' = [p \in Procs |-> NoCopy]
  /\ edit' = [p \in Procs |-> {}]
  /\ sent' = [p \in Procs |-> {}]
  /\ time' = [p \in Procs |-> 0]
  /\ left' = [p \in Procs |-> {}]
  /\ UNCHANGED <<tables, now>>

\* The bounds are used up and every request has been answered.
Done ==
  /\ started = MaxRequests /\ now = MaxTime /\ boot = "up"
  /\ \A p \in Procs : pc[p] = "idle"
  /\ UNCHANGED cvars

Work(p) ==
  \/ PushRead(p) \/ PushSource(p) \/ PushSave(p) \/ PushSend(p)
  \/ NewBatch(p) \/ RestampLocations(p) \/ RestampTariffs(p)
  \/ ResetData(p) \/ SeedObject(p) \/ ResetDone(p)
  \/ CutOff(p)

Next ==
  \/ \E p \in Procs : Work(p)
  \/ BootCheck \/ BootSeed \/ BootNext
  \/ Crash \/ Tick
  \/ Done

Spec == Init /\ [][Next]_cvars

-----------------------------------------------------------------------------
(* Properties. *)

\* Nothing in a row is dated after t.
NoLater(row, t) ==
  row.column <= t /\ row.stamp <= t /\ \A u \in Parts : row.parts[u] <= t

\* Rows, the clock, the process and the locals of requests have the shapes their
\* comments give them, and no time in a row, a copy, or at the counterparty is in
\* the future.
TypeOK ==
  /\ DOMAIN own \subseteq Ids
  /\ own \in [DOMAIN own -> Row]
  /\ \A id \in DOMAIN own : NoLater(own[id], now)
  /\ theirs \in [Locations -> [Parts -> 0..now]]
  /\ now \in 1..MaxTime
  /\ boot \in {"checkBase", "seedBase", "checkCron", "seedCron", "up"}
  /\ bootLeft \subseteq Ids
  /\ torn \in BOOLEAN
  /\ whole \subseteq Procs
  /\ started \in 0..MaxRequests
  /\ pc \in [Procs -> {"idle", "source", "save", "send", "seed",
                       "restampLocations", "restampTariffs"}]
  /\ obj \in [Procs -> Ids]
  /\ copy \in [Procs -> Row]
  /\ \A p \in Procs : NoLater(copy[p], now)
  /\ edit \in [Procs -> SUBSET Parts]
  /\ sent \in [Procs -> SUBSET Parts]
  /\ time \in [Procs -> 0..now]
  /\ left \in [Procs -> SUBSET Ids]

Settled == boot = "up" /\ ~torn /\ \A p \in Procs : pc[p] = "idle"

\* "A database seeded before a batch existed still gets it", and a reset leaves
\* "seeded and received data" seeded: once nothing is in flight, every object of
\* both batches has its row, whatever resets, pushes and restarts overlapped,
\* unless a seeding was cut off and none has run whole since.
CatalogueWhole == Settled => DOMAIN own = Ids

\* "An upsert that defaults the source would silently move a cron-batch object
\* into the hand-picked one": a row is always in the batch it was seeded in,
\* also when a push writes it back after a reset or a restart took it away.
BatchKept == \A id \in DOMAIN own : own[id].source = SourceOf(id)

\* A row is re-dated "in the row and inside the payload both": the column the
\* feed filters by is what the puller reads as last_updated, whoever wrote last.
DatedOnce == \A id \in DOMAIN own : own[id].column = own[id].stamp

\* "A change anywhere inside a Location bumps the Location's own last_updated
\* too": no hand-picked location is older than a part of it, although pushes
\* write copies they read before others changed the row.  (A cron-batch row may
\* be: a restamp that took its time before a push writes after it.)
PartsCovered ==
  \A id \in DOMAIN own \cap Base : \A u \in Parts : own[id].parts[u] <= own[id].stamp

\* "A restart never clobbers data mutated during a demo": unless a seeding was
\* cut off, start-up changes no row that is there.
RestartKeeps ==
  [][(boot # "up" /\ ~torn) => \A id \in DOMAIN own : own'[id] = own[id]]_cvars

\* "The two sides never drift": a push that persists its change leaves no part
\* of the location older with us than the counterparty took it.
NoDrift ==
  [][\A p \in Procs :
       (pc[p] = "save" /\ pc'[p] = "send") =>
         \A u \in Parts : own'[obj[p]].parts[u] >= theirs[obj[p]][u]]_cvars
=============================================================================
