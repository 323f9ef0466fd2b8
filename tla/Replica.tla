------------------------------ MODULE Replica ------------------------------
(***************************************************************************)
(* The replica a partner keeps of a counterparty's location: its row in    *)
(* received_locations and its rows in received_evses and                   *)
(* received_connectors (internal/store/received.go), as the EMSP receiver  *)
(* (handlers/emsp.go), a pull (client/evolt.go, cachePulled) and the       *)
(* operator (AdminInjectLocation, AdminSeedReset) write them.              *)
(*                                                                         *)
(* Every statement filters by the location's whole key, so one location is *)
(* modelled.  PutReceivedLocationObject runs its statements outside any    *)
(* transaction: each is a step, and requests interleave between them.      *)
(*                                                                         *)
(* Of an object the model keeps its last_updated, which also stands for    *)
(* the status and the other fields that arrived with it, and the objects   *)
(* embedded in it.  The objects embedded in the row of an EVSE are never   *)
(* read again and are left out.  0 is the absence of a row, or of a        *)
(* last_updated in an embedded object.                                     *)
(***************************************************************************)
EXTENDS Naturals, Functions

CONSTANTS
  Procs,        \* slots for requests in flight at one time
  Evses,        \* EVSE uids of the location
  Connectors,   \* connector ids of an EVSE
  MaxTime,      \* bound: last_updated values
  MaxRequests,  \* bound: requests started in a behaviour
  Bodies,       \* the lists of EVSEs a location may arrive with
  MayFail       \* a statement may fail, or a request be cut off

Absent == 0
Time == 1..MaxTime

PartialFunctions(S, T) == UNION {[D -> T] : D \in SUBSET S}

\* The objects embedded in a location, each with its last_updated if it has one.
EmbeddedConnectors == PartialFunctions(Connectors, {Absent} \cup Time)
EmbeddedEvses ==
  PartialFunctions(Evses, [stamp: {Absent} \cup Time, connectors: EmbeddedConnectors])

ASSUME EvsesAssumption == Evses # {}
ASSUME TimeAssumption == MaxTime \in Nat /\ MaxRequests \in Nat
ASSUME BodiesAssumption == Bodies \subseteq EmbeddedEvses
ASSUME FailAssumption == MayFail \in BOOLEAN

VARIABLES
  location,   \* received_locations: [stamp, evses] or NoLocation
  evse,       \* received_evses: uid -> last_updated, or Absent
  connector,  \* received_connectors: <<uid, id>> -> last_updated, or Absent
  torn,       \* history: since the last whole write of the location a request was cut off
  whole,      \* history: the requests whose end makes the replica whole again
  started,    \* requests started, for the bound
  pc,         \* the statement each request runs next
  fallback,   \* last_updated of the object the request is about
  evsesLeft,  \* the embedded EVSEs it has yet to write
  uid,        \* the EVSE it is at
  connsLeft,  \* the connectors of that EVSE it has yet to write
  stamp       \* the last_updated it passes to the parents

tables == <<location, evse, connector>>
history == <<torn, whole>>
locals == <<pc, fallback, evsesLeft, uid, connsLeft, stamp>>
vars == <<tables, history, started, locals>>

Nothing == [x \in {} |-> Absent]
NoLocation == [stamp |-> Absent, evses |-> Nothing]
AnyEvse == CHOOSE u \in Evses : TRUE

\* timestampOf: an embedded object's own last_updated, else its location's.
StampOf(own, default) == IF own = Absent THEN default ELSE own

\* Mutants: a parent touched just after its child, and a comparison the wrong
\* way round.
BumpedLater(row, child) == IF row # Absent /\ row <= child THEN child + 1 ELSE row

BumpedBack(row, child) == IF row # Absent /\ child < row THEN child ELSE row

\* bumpParents: a row that exists and is older takes the child's last_updated.
Bumped(row, child) == IF row # Absent /\ row < child THEN child ELSE row

\* Mutant: the loop over an embedded list ends after its first object.
FirstOnly(f, x) == Nothing

\* The rest of an embedded list.
Without(f, x) == Restrict(f, DOMAIN f \ {x})

Init ==
  /\ location = NoLocation
  /\ evse = [u \in Evses |-> Absent]
  /\ connector = [k \in Evses \X Connectors |-> Absent]
  /\ torn = FALSE
  /\ whole = {}
  /\ started = 0
  /\ pc = [p \in Procs |-> "idle"]
  /\ fallback = [p \in Procs |-> Absent]
  /\ evsesLeft = [p \in Procs |-> Nothing]
  /\ uid = [p \in Procs |-> AnyEvse]
  /\ connsLeft = [p \in Procs |-> Nothing]
  /\ stamp = [p \in Procs |-> Absent]

-----------------------------------------------------------------------------
(* A request is accepted: PutReceivedLocationObject is called with its      *)
(* object, which is the location or, one EVSE or connector standing alone,  *)
(* what explodeLocation would call it with.                                 *)

Begin(p, label, time, evses, u, conns) ==
  /\ pc[p] = "idle"
  /\ started < MaxRequests
  /\ started' = started + 1
  /\ pc' = [pc EXCEPT ![p] = label]
  /\ fallback' = [fallback EXCEPT ![p] = time]
  /\ evsesLeft' = [evsesLeft EXCEPT ![p] = evses]
  /\ uid' = [uid EXCEPT ![p] = u]
  /\ connsLeft' = [connsLeft EXCEPT ![p] = conns]
  /\ UNCHANGED <<tables, torn, stamp>>

BeginLocation(p, time, evses) ==
  /\ Begin(p, "location", time, evses, AnyEvse, Nothing)
  /\ whole' = whole \cup {p}

\* An EVSE that arrives by itself is not decomposed.
BeginEvse(p, time, u) ==
  /\ Begin(p, "object", time,
           [x \in {u} |-> [stamp |-> time, connectors |-> Nothing]], u, Nothing)
  /\ UNCHANGED whole

BeginConnector(p, time, u, c) ==
  /\ Begin(p, "object", time, Nothing, u, [x \in {c} |-> time])
  /\ UNCHANGED whole

\* PUT of any depth, the pull's cachePulled and the operator's injection.
PutLocationObject(p) ==
  \E time \in Time :
    \/ \E evses \in Bodies : BeginLocation(p, time, evses)
    \/ \E u \in Evses : BeginEvse(p, time, u)
    \/ \E u \in Evses, c \in Connectors : BeginConnector(p, time, u, c)

\* PATCH reads the stored object and merges the body's fields over it: a body
\* without EVSEs writes the location with the EVSEs just read.  An unknown
\* object is answered 2003.
PatchLocationObject(p) ==
  \E time \in Time :
    \/ /\ location # NoLocation
       /\ \E evses \in Bodies \cup {location.evses} : BeginLocation(p, time, evses)
    \/ \E u \in Evses : evse[u] # Absent /\ BeginEvse(p, time, u)
    \/ \E u \in Evses, c \in Connectors :
         connector[<<u, c>>] # Absent /\ BeginConnector(p, time, u, c)

-----------------------------------------------------------------------------
(* PutReceivedLocationObject, explodeLocation and bumpParents, statement by *)
(* statement.  An embedded list comes in any order.                         *)

Goto(p, label) == pc' = [pc EXCEPT ![p] = label]

WriteLocation(p) ==
  /\ pc[p] = "location"
  /\ location' = [stamp |-> fallback[p], evses |-> evsesLeft[p]]
  /\ Goto(p, "object")
  /\ UNCHANGED <<evse, connector, history, started,
                 fallback, evsesLeft, uid, connsLeft, stamp>>

\* The next embedded EVSE, once the connectors of the one before are written.
WriteEvse(p) ==
  /\ pc[p] = "object"
  /\ connsLeft[p] = Nothing
  /\ \E u \in DOMAIN evsesLeft[p] :
       LET time == StampOf(evsesLeft[p][u].stamp, fallback[p])
       IN  /\ evse' = [evse EXCEPT ![u] = time]
           /\ stamp' = [stamp EXCEPT ![p] = time]
           /\ uid' = [uid EXCEPT ![p] = u]
           /\ connsLeft' = [connsLeft EXCEPT ![p] = evsesLeft[p][u].connectors]
           /\ evsesLeft' = [evsesLeft EXCEPT ![p] = Without(evsesLeft[p], u)]
  /\ Goto(p, "bumpLocation")
  /\ UNCHANGED <<location, connector, history, started, fallback>>

WriteConnector(p) ==
  /\ pc[p] = "object"
  /\ \E c \in DOMAIN connsLeft[p] :
       LET time == StampOf(connsLeft[p][c], fallback[p])
       IN  /\ connector' = [connector EXCEPT ![<<uid[p], c>>] = time]
           /\ stamp' = [stamp EXCEPT ![p] = time]
           /\ connsLeft' = [connsLeft EXCEPT ![p] = Without(connsLeft[p], c)]
  /\ Goto(p, "bumpEvse")
  /\ UNCHANGED <<location, evse, history, started, fallback, evsesLeft, uid>>

BumpEvse(p) ==
  /\ pc[p] = "bumpEvse"
  /\ evse' = [evse EXCEPT ![uid[p]] = Bumped(@, stamp[p])]
  /\ Goto(p, "bumpLocation")
  /\ UNCHANGED <<location, connector, history, started,
                 fallback, evsesLeft, uid, connsLeft, stamp>>

BumpLocation(p) ==
  /\ pc[p] = "bumpLocation"
  /\ location' = [location EXCEPT !.stamp = Bumped(@, stamp[p])]
  /\ Goto(p, "object")
  /\ UNCHANGED <<evse, connector, history, started,
                 fallback, evsesLeft, uid, connsLeft, stamp>>

Return(p) ==
  /\ Goto(p, "idle")
  /\ fallback' = [fallback EXCEPT ![p] = Absent]
  /\ evsesLeft' = [evsesLeft EXCEPT ![p] = Nothing]
  /\ uid' = [uid EXCEPT ![p] = AnyEvse]
  /\ connsLeft' = [connsLeft EXCEPT ![p] = Nothing]
  /\ stamp' = [stamp EXCEPT ![p] = Absent]
  /\ UNCHANGED started

\* Every statement succeeded.
Answer(p) ==
  /\ pc[p] = "object"
  /\ evsesLeft[p] = Nothing /\ connsLeft[p] = Nothing
  /\ Return(p)
  /\ torn' = (torn /\ p \notin whole)
  /\ whole' = whole \ {p}
  /\ UNCHANGED tables

-----------------------------------------------------------------------------
(* Failure, and the end of the data. *)

\* A statement fails, its caller hangs up or the process dies: what was
\* written stays, the rest is never written.
CutOff(p) ==
  /\ MayFail
  /\ pc[p] # "idle"
  /\ Return(p)
  /\ torn' = TRUE
  /\ whole' = {}
  /\ UNCHANGED tables

\* POST /admin/seed/reset truncates the three tables in one statement.
ResetData(p) ==
  /\ pc[p] = "idle"
  /\ started < MaxRequests
  /\ started' = started + 1
  /\ location' = NoLocation
  /\ evse' = [u \in Evses |-> Absent]
  /\ connector' = [k \in Evses \X Connectors |-> Absent]
  /\ UNCHANGED <<history, locals>>

\* The bound is used up and every request has been answered.
Done ==
  /\ started = MaxRequests
  /\ \A p \in Procs : pc[p] = "idle"
  /\ UNCHANGED vars

Next ==
  \/ \E p \in Procs :
       \/ PutLocationObject(p) \/ PatchLocationObject(p)
       \/ WriteLocation(p) \/ WriteEvse(p) \/ WriteConnector(p)
       \/ BumpEvse(p) \/ BumpLocation(p)
       \/ Answer(p) \/ CutOff(p)
       \/ ResetData(p)
  \/ Done

Spec == Init /\ [][Next]_vars

-----------------------------------------------------------------------------
(* Properties. *)

Stamp == {Absent} \cup Time

\* Rows, embedded lists and the locals of a request have the shapes their
\* comments give them.
TypeOK ==
  /\ location \in [stamp: Stamp, evses: EmbeddedEvses]
  /\ evse \in [Evses -> Stamp]
  /\ connector \in [Evses \X Connectors -> Stamp]
  /\ torn \in BOOLEAN
  /\ whole \subseteq Procs
  /\ started \in 0..MaxRequests
  /\ pc \in [Procs -> {"idle", "location", "object", "bumpEvse", "bumpLocation"}]
  /\ fallback \in [Procs -> Stamp]
  /\ evsesLeft \in [Procs -> EmbeddedEvses]
  /\ uid \in [Procs -> Evses]
  /\ connsLeft \in [Procs -> EmbeddedConnectors]
  /\ stamp \in [Procs -> Stamp]

\* No request is in flight, and none was cut off since the location was last
\* written whole.
Settled == ~torn /\ \A p \in Procs : pc[p] = "idle"

\* "Without it a fresh replica would answer 2003 to every EVSE-status PATCH
\* forever": in a settled replica every EVSE and connector embedded in the
\* stored location has a row of its own, however PUTs, PATCHes that merge an
\* older read, pulls and truncations interleaved, and a location written whole
\* heals what a cut-off request left.
SplitComplete ==
  Settled =>
    \A u \in DOMAIN location.evses :
      /\ evse[u] # Absent
      /\ \A c \in DOMAIN location.evses[u].connectors : connector[<<u, c>>] # Absent

\* bumpParents "cascades last_updated up the tree (connector->evse->location)
\* as the module guide requires": a settled location is never older than a row
\* it embeds, although any PUT or PATCH may set any of the stamps back.
ParentCovers ==
  Settled =>
    \A u \in DOMAIN location.evses :
      /\ evse[u] <= location.stamp
      /\ \A c \in DOMAIN location.evses[u].connectors :
           connector[<<u, c>>] <= location.stamp
=============================================================================
