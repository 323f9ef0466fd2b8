--------------------------- MODULE ReplicaProofs ---------------------------
(***************************************************************************)
(* What holds of Replica for every set of requests, EVSEs and connectors,  *)
(* every range of timestamps and with or without failures.                 *)
(*                                                                         *)
(*   TypeCorrect          Spec => []TypeOK                                 *)
(*   SplitCompleteAlways  Spec => []SplitComplete                          *)
(*   ParentCoversAlways   Spec => []ParentCovers                           *)
(*                                                                         *)
(* Between requests the two properties are plain facts about the tables.   *)
(* While requests run they are debts: what the tables lack, some request   *)
(* in flight is still going to write.  The invariant below says so.        *)
(***************************************************************************)
EXTENDS Replica, TLAPS

-----------------------------------------------------------------------------
(* Embedded lists. *)

LEMMA PartialFunction ==
  ASSUME NEW S, NEW T, NEW f \in PartialFunctions(S, T)
  PROVE  /\ DOMAIN f \subseteq S
         /\ \A x \in DOMAIN f : f[x] \in T
         /\ f = [x \in DOMAIN f |-> f[x]]
  BY DEF PartialFunctions

LEMMA WithoutIsPartial ==
  ASSUME NEW S, NEW T, NEW f \in PartialFunctions(S, T), NEW x
  PROVE  /\ Without(f, x) \in PartialFunctions(S, T)
         /\ DOMAIN Without(f, x) = DOMAIN f \ {x}
         /\ \A y \in DOMAIN f \ {x} : Without(f, x)[y] = f[y]
  <1>1. Without(f, x) = [y \in DOMAIN f \ {x} |-> f[y]]
    BY DEF Without, Restrict
  <1>2. DOMAIN f \ {x} \in SUBSET S /\ \A y \in DOMAIN f : f[y] \in T
    BY PartialFunction
  <1>3. [y \in DOMAIN f \ {x} |-> f[y]] \in [DOMAIN f \ {x} -> T]
    BY <1>2
  <1> QED
    BY <1>1, <1>2, <1>3 DEF PartialFunctions

LEMMA NothingIsPartial ==
  ASSUME NEW S, NEW T
  PROVE  Nothing \in PartialFunctions(S, T) /\ DOMAIN Nothing = {}
  <1>1. Nothing \in [{} -> T]
    BY DEF Nothing
  <1>2. {} \in SUBSET S
    OBVIOUS
  <1> QED
    BY <1>1, <1>2 DEF PartialFunctions, Nothing

LEMMA SingletonIsPartial ==
  ASSUME NEW S, NEW T, NEW x \in S, NEW v \in T
  PROVE  [y \in {x} |-> v] \in PartialFunctions(S, T)
  <1>1. [y \in {x} |-> v] \in [{x} -> T] /\ {x} \in SUBSET S
    OBVIOUS
  <1> QED
    BY <1>1 DEF PartialFunctions

\* A list with nothing left is Nothing.
LEMMA EmptyIsNothing ==
  ASSUME NEW S, NEW T, NEW f \in PartialFunctions(S, T), DOMAIN f = {}
  PROVE  f = Nothing
  <1>1. f = [x \in {} |-> f[x]]
    BY PartialFunction
  <1> QED
    BY <1>1 DEF Nothing

-----------------------------------------------------------------------------
(* Types. *)

Embedded == [stamp: {Absent} \cup Time, connectors: EmbeddedConnectors]

LEMMA TimeFacts ==
  /\ Time \subseteq Nat \ {0}
  /\ Stamp \subseteq Nat
  /\ Absent \in Stamp /\ Time \subseteq Stamp /\ Absent \notin Time
  BY TimeAssumption DEF Time, Stamp, Absent

LEMMA StampOfType ==
  ASSUME NEW own \in Stamp, NEW default \in Stamp
  PROVE  /\ StampOf(own, default) \in Stamp
         /\ default \in Time => StampOf(own, default) \in Time
  BY DEF StampOf, Stamp

LEMMA BumpedType ==
  ASSUME NEW row \in Stamp, NEW child \in Stamp
  PROVE  Bumped(row, child) \in Stamp
  BY DEF Bumped

LEMMA AnyEvseType == AnyEvse \in Evses
  BY EvsesAssumption DEF AnyEvse

LEMMA EmbeddedEvsesDef ==
  /\ EmbeddedEvses = PartialFunctions(Evses, Embedded)
  /\ Embedded = [stamp: Stamp, connectors: EmbeddedConnectors]
  /\ EmbeddedConnectors = PartialFunctions(Connectors, Stamp)
  BY DEF EmbeddedEvses, Embedded, EmbeddedConnectors, Stamp

LEMMA EmbeddedType ==
  ASSUME NEW evses \in EmbeddedEvses, NEW u \in DOMAIN evses
  PROVE  /\ u \in Evses
         /\ evses[u].stamp \in Stamp
         /\ evses[u].connectors \in EmbeddedConnectors
  <1>1. evses \in PartialFunctions(Evses, Embedded)
    BY EmbeddedEvsesDef
  <1>2. u \in Evses /\ evses[u] \in Embedded
    BY <1>1, PartialFunction
  <1> QED
    BY <1>2, EmbeddedEvsesDef

LEMMA BeginType ==
  ASSUME TypeOK, NEW p \in Procs, NEW label \in {"location", "object"},
         NEW time \in Time, NEW evses \in EmbeddedEvses, NEW u \in Evses,
         NEW conns \in EmbeddedConnectors,
         Begin(p, label, time, evses, u, conns),
         whole' \subseteq Procs
  PROVE  TypeOK'
  <1>1. started' \in 0..MaxRequests
    BY TimeAssumption DEF Begin, TypeOK
  <1>2. pc' \in [Procs -> {"idle", "location", "object", "bumpEvse", "bumpLocation"}]
    BY DEF Begin, TypeOK
  <1>3. time \in Stamp
    BY TimeFacts
  <1>4. /\ fallback' \in [Procs -> Stamp] /\ evsesLeft' \in [Procs -> EmbeddedEvses]
        /\ uid' \in [Procs -> Evses] /\ connsLeft' \in [Procs -> EmbeddedConnectors]
    BY <1>3 DEF Begin, TypeOK
  <1> QED
    BY <1>1, <1>2, <1>4 DEF Begin, TypeOK, tables

LEMMA BeginLocationType ==
  ASSUME TypeOK, NEW p \in Procs, NEW time \in Time, NEW evses \in EmbeddedEvses,
         BeginLocation(p, time, evses)
  PROVE  TypeOK'
  <1>1. Nothing \in EmbeddedConnectors
    BY NothingIsPartial, EmbeddedEvsesDef
  <1>2. whole' \subseteq Procs
    BY DEF BeginLocation, TypeOK
  <1> QED
    BY <1>1, <1>2, BeginType, AnyEvseType DEF BeginLocation

LEMMA BeginEvseType ==
  ASSUME TypeOK, NEW p \in Procs, NEW time \in Time, NEW u \in Evses,
         BeginEvse(p, time, u)
  PROVE  TypeOK'
  <1>1. Nothing \in EmbeddedConnectors
    BY NothingIsPartial, EmbeddedEvsesDef
  <1>2. [stamp |-> time, connectors |-> Nothing] \in Embedded
    BY <1>1 DEF Embedded
  <1>3. [x \in {u} |-> [stamp |-> time, connectors |-> Nothing]] \in EmbeddedEvses
    BY <1>2, SingletonIsPartial, EmbeddedEvsesDef
  <1>4. whole' \subseteq Procs
    BY DEF BeginEvse, TypeOK
  <1> QED
    BY <1>1, <1>3, <1>4, BeginType DEF BeginEvse

LEMMA BeginConnectorType ==
  ASSUME TypeOK, NEW p \in Procs, NEW time \in Time, NEW u \in Evses,
         NEW c \in Connectors, BeginConnector(p, time, u, c)
  PROVE  TypeOK'
  <1>1. [x \in {c} |-> time] \in EmbeddedConnectors
    BY TimeFacts, SingletonIsPartial, EmbeddedEvsesDef
  <1>2. Nothing \in EmbeddedEvses
    BY NothingIsPartial, EmbeddedEvsesDef
  <1>3. whole' \subseteq Procs
    BY DEF BeginConnector, TypeOK
  <1> QED
    BY <1>1, <1>2, <1>3, BeginType DEF BeginConnector

LEMMA ReturnType ==
  ASSUME TypeOK, NEW p \in Procs, Return(p), whole' \subseteq Procs,
         torn' \in BOOLEAN, UNCHANGED tables
  PROVE  TypeOK'
  <1>1. Nothing \in EmbeddedConnectors /\ Nothing \in EmbeddedEvses
    BY NothingIsPartial, EmbeddedEvsesDef
  <1> QED
    BY <1>1, AnyEvseType, TimeFacts DEF Return, Goto, TypeOK, tables

LEMMA InitType == Init => TypeOK
  <1>1. Nothing \in EmbeddedConnectors /\ Nothing \in EmbeddedEvses
    BY NothingIsPartial, EmbeddedEvsesDef
  <1>2. NoLocation \in [stamp: Stamp, evses: EmbeddedEvses]
    BY <1>1, TimeFacts DEF NoLocation
  <1>3. 0 \in 0..MaxRequests
    BY TimeAssumption
  <1> SUFFICES ASSUME Init PROVE TypeOK
    OBVIOUS
  <1>4. location \in [stamp: Stamp, evses: EmbeddedEvses]
    BY <1>2 DEF Init
  <1>5. evse \in [Evses -> Stamp] /\ connector \in [Evses \X Connectors -> Stamp]
    BY TimeFacts DEF Init
  <1>6. torn \in BOOLEAN /\ whole \subseteq Procs /\ started \in 0..MaxRequests
    BY <1>3 DEF Init
  <1>7. pc \in [Procs -> {"idle", "location", "object", "bumpEvse", "bumpLocation"}]
    BY DEF Init
  <1>8. /\ fallback \in [Procs -> Stamp] /\ evsesLeft \in [Procs -> EmbeddedEvses]
        /\ uid \in [Procs -> Evses] /\ connsLeft \in [Procs -> EmbeddedConnectors]
        /\ stamp \in [Procs -> Stamp]
    BY <1>1, AnyEvseType, TimeFacts DEF Init
  <1> QED
    BY <1>4, <1>5, <1>6, <1>7, <1>8 DEF TypeOK

LEMMA WriteEvseType ==
  ASSUME TypeOK, NEW p \in Procs, WriteEvse(p)
  PROVE  TypeOK'
  <1>1. PICK u \in DOMAIN evsesLeft[p] :
          LET time == StampOf(evsesLeft[p][u].stamp, fallback[p])
          IN  /\ evse' = [evse EXCEPT ![u] = time]
              /\ stamp' = [stamp EXCEPT ![p] = time]
              /\ uid' = [uid EXCEPT ![p] = u]
              /\ connsLeft' = [connsLeft EXCEPT ![p] = evsesLeft[p][u].connectors]
              /\ evsesLeft' = [evsesLeft EXCEPT ![p] = Without(evsesLeft[p], u)]
    BY DEF WriteEvse
  <1>2. evsesLeft[p] \in EmbeddedEvses /\ fallback[p] \in Stamp
    BY DEF TypeOK
  <1>3. u \in Evses /\ evsesLeft[p][u].connectors \in EmbeddedConnectors
        /\ evsesLeft[p][u].stamp \in Stamp
    BY <1>2, EmbeddedType
  <1>4. StampOf(evsesLeft[p][u].stamp, fallback[p]) \in Stamp
    BY <1>2, <1>3, StampOfType
  <1>5. Without(evsesLeft[p], u) \in EmbeddedEvses
    <2>1. evsesLeft[p] \in PartialFunctions(Evses, Embedded)
      BY <1>2, EmbeddedEvsesDef
    <2> QED
      BY <2>1, WithoutIsPartial, EmbeddedEvsesDef
  <1> QED
    BY <1>1, <1>3, <1>4, <1>5 DEF WriteEvse, Goto, TypeOK, history

LEMMA WriteConnectorType ==
  ASSUME TypeOK, NEW p \in Procs, WriteConnector(p)
  PROVE  TypeOK'
  <1>1. PICK c \in DOMAIN connsLeft[p] :
          LET time == StampOf(connsLeft[p][c], fallback[p])
          IN  /\ connector' = [connector EXCEPT ![<<uid[p], c>>] = time]
              /\ stamp' = [stamp EXCEPT ![p] = time]
              /\ connsLeft' = [connsLeft EXCEPT ![p] = Without(connsLeft[p], c)]
    BY DEF WriteConnector
  <1>2. connsLeft[p] \in PartialFunctions(Connectors, Stamp) /\ fallback[p] \in Stamp
    BY EmbeddedEvsesDef DEF TypeOK
  <1>3. c \in Connectors /\ connsLeft[p][c] \in Stamp
    BY <1>2, PartialFunction
  <1>4. StampOf(connsLeft[p][c], fallback[p]) \in Stamp
    BY <1>2, <1>3, StampOfType
  <1>5. Without(connsLeft[p], c) \in EmbeddedConnectors
    BY <1>2, WithoutIsPartial, EmbeddedEvsesDef
  <1> QED
    BY <1>1, <1>3, <1>4, <1>5 DEF WriteConnector, Goto, TypeOK, history

\* TypeOK is inductive: one step per action.
LEMMA TypeStep == TypeOK /\ [Next]_vars => TypeOK'
  <1> SUFFICES ASSUME TypeOK, [Next]_vars PROVE TypeOK'
    OBVIOUS
  <1>1. ASSUME NEW p \in Procs, PutLocationObject(p) PROVE TypeOK'
    <2>1. PICK time \in Time :
            \/ \E evses \in Bodies : BeginLocation(p, time, evses)
            \/ \E u \in Evses : BeginEvse(p, time, u)
            \/ \E u \in Evses, c \in Connectors : BeginConnector(p, time, u, c)
      BY <1>1 DEF PutLocationObject
    <2> QED
      BY <2>1, BodiesAssumption,
         BeginLocationType, BeginEvseType, BeginConnectorType
  <1>2. ASSUME NEW p \in Procs, PatchLocationObject(p) PROVE TypeOK'
    <2>1. PICK time \in Time :
            \/ BeginLocation(p, time, location.evses)
            \/ \E evses \in Bodies : BeginLocation(p, time, evses)
            \/ \E u \in Evses : BeginEvse(p, time, u)
            \/ \E u \in Evses, c \in Connectors : BeginConnector(p, time, u, c)
      BY <1>2 DEF PatchLocationObject
    <2>2. location.evses \in EmbeddedEvses
      BY DEF TypeOK
    <2> QED
      BY <2>1, <2>2, BodiesAssumption,
         BeginLocationType, BeginEvseType, BeginConnectorType
  <1>3. ASSUME NEW p \in Procs, WriteLocation(p) PROVE TypeOK'
    BY <1>3 DEF WriteLocation, Goto, TypeOK, history
  <1>4. ASSUME NEW p \in Procs, WriteEvse(p) PROVE TypeOK'
    BY <1>4, WriteEvseType
  <1>5. ASSUME NEW p \in Procs, WriteConnector(p) PROVE TypeOK'
    BY <1>5, WriteConnectorType
  <1>6. ASSUME NEW p \in Procs, BumpEvse(p) PROVE TypeOK'
    <2>1. evse' \in [Evses -> Stamp]
      BY <1>6, BumpedType DEF BumpEvse, TypeOK
    <2> QED
      BY <1>6, <2>1 DEF BumpEvse, Goto, TypeOK, history
  <1>7. ASSUME NEW p \in Procs, BumpLocation(p) PROVE TypeOK'
    <2>1. location' \in [stamp: Stamp, evses: EmbeddedEvses]
      BY <1>7, BumpedType DEF BumpLocation, TypeOK
    <2> QED
      BY <1>7, <2>1 DEF BumpLocation, Goto, TypeOK, history
  <1>8. ASSUME NEW p \in Procs, Answer(p) PROVE TypeOK'
    <2>1. whole' \subseteq Procs /\ torn' \in BOOLEAN
      BY <1>8 DEF Answer, TypeOK
    <2> QED
      BY <1>8, <2>1, ReturnType DEF Answer
  <1>9. ASSUME NEW p \in Procs, CutOff(p) PROVE TypeOK'
    <2>1. whole' \subseteq Procs /\ torn' \in BOOLEAN
      BY <1>9 DEF CutOff
    <2> QED
      BY <1>9, <2>1, ReturnType DEF CutOff
  <1>10. ASSUME NEW p \in Procs, ResetData(p) PROVE TypeOK'
    <2>1. NoLocation \in [stamp: Stamp, evses: EmbeddedEvses]
      BY NothingIsPartial, EmbeddedEvsesDef, TimeFacts DEF NoLocation
    <2>2. started' \in 0..MaxRequests
      BY <1>10, TimeAssumption DEF ResetData, TypeOK
    <2> QED
      BY <1>10, <2>1, <2>2, TimeFacts DEF ResetData, TypeOK, history, locals
  <1>11. CASE UNCHANGED vars
    BY <1>11 DEF vars, tables, history, locals, TypeOK
  <1> QED
    BY <1>1, <1>2, <1>3, <1>4, <1>5, <1>6, <1>7, <1>8, <1>9, <1>10, <1>11
    DEF Next, Done

\* Whatever a counterparty sends and however requests fail, every row, embedded
\* list and local keeps its shape.
THEOREM TypeCorrect == Spec => []TypeOK
  BY InitType, TypeStep, PTL DEF Spec

-----------------------------------------------------------------------------
(* The invariant: what the tables lack is due from a request in flight. *)

Writing(p) == pc[p] \notin {"idle", "location"}

WillWriteEvse(p, u) == Writing(p) /\ u \in DOMAIN evsesLeft[p]

WillWriteConnector(p, u, c) ==
  \/ WillWriteEvse(p, u) /\ c \in DOMAIN evsesLeft[p][u].connectors
  \/ Writing(p) /\ uid[p] = u /\ c \in DOMAIN connsLeft[p]

WillLift(p, time) == pc[p] \in {"bumpEvse", "bumpLocation"} /\ time <= stamp[p]

EvseDue(u) == \E p \in Procs : WillWriteEvse(p, u)
ConnectorDue(u, c) == \E p \in Procs : WillWriteConnector(p, u, c)
LiftDue(time) == \E p \in Procs : WillLift(p, time)

EvseSound(u) ==
  \/ EvseDue(u)
  \/ evse[u] # Absent /\ (evse[u] <= location.stamp \/ LiftDue(evse[u]))

ConnectorSound(u, c) ==
  \/ ConnectorDue(u, c)
  \/ /\ connector[<<u, c>>] # Absent
     /\ connector[<<u, c>>] <= location.stamp \/ LiftDue(connector[<<u, c>>])

Sound ==
  \A u \in DOMAIN location.evses :
    /\ EvseSound(u)
    /\ \A c \in DOMAIN location.evses[u].connectors : ConnectorSound(u, c)

\* The replica is sound unless a request was cut off and no later one has
\* written the location yet.
Trusted == ~torn \/ \E p \in whole : Writing(p)

StampsOK ==
  /\ \A p \in Procs : pc[p] # "idle" => fallback[p] \in Time
  /\ \A p \in Procs : pc[p] \in {"bumpEvse", "bumpLocation"} => stamp[p] \in Time
  /\ location.stamp = Absent => DOMAIN location.evses = {}

WholeOK == \A p \in whole : pc[p] # "idle"

IInv == TypeOK /\ StampsOK /\ WholeOK /\ (Trusted => Sound)

\* A step of p leaves what the other requests owe as it was.
Frame(p) ==
  \A q \in Procs \ {p} :
    /\ pc'[q] = pc[q]
    /\ evsesLeft'[q] = evsesLeft[q]
    /\ uid'[q] = uid[q]
    /\ connsLeft'[q] = connsLeft[q]
    /\ stamp'[q] = stamp[q]

LEMMA OthersStillOwe ==
  ASSUME NEW p \in Procs, Frame(p)
  PROVE  /\ \A u : EvseDue(u) => EvseDue(u)' \/ WillWriteEvse(p, u)
         /\ \A u, c : ConnectorDue(u, c) => ConnectorDue(u, c)' \/ WillWriteConnector(p, u, c)
         /\ \A time : LiftDue(time) => LiftDue(time)' \/ WillLift(p, time)
  <1>1. ASSUME NEW u, EvseDue(u), ~WillWriteEvse(p, u) PROVE EvseDue(u)'
    BY <1>1 DEF Frame, EvseDue, WillWriteEvse, Writing
  <1>2. ASSUME NEW u, NEW c, ConnectorDue(u, c), ~WillWriteConnector(p, u, c)
        PROVE  ConnectorDue(u, c)'
    BY <1>2 DEF Frame, ConnectorDue, WillWriteConnector, WillWriteEvse, Writing
  <1>3. ASSUME NEW time, LiftDue(time), ~WillLift(p, time) PROVE LiftDue(time)'
    BY <1>3 DEF Frame, LiftDue, WillLift
  <1> QED
    BY <1>1, <1>2, <1>3

\* A step of a request that owes nothing, and writes nothing, changes no debt.
LEMMA SoundWithout ==
  ASSUME Sound, UNCHANGED tables, NEW p \in Procs, Frame(p),
         \/ pc[p] = "idle"
         \/ pc[p] = "object" /\ evsesLeft[p] = Nothing /\ connsLeft[p] = Nothing
  PROVE  Sound'
  <1>1. DOMAIN Nothing = {}
    BY DEF Nothing
  <1>2. /\ \A u : ~WillWriteEvse(p, u)
        /\ \A u, c : ~WillWriteConnector(p, u, c)
        /\ \A time : ~WillLift(p, time)
    BY <1>1 DEF WillWriteEvse, WillWriteConnector, WillLift, Writing
  <1>3. /\ \A u : EvseDue(u) => EvseDue(u)'
        /\ \A u, c : ConnectorDue(u, c) => ConnectorDue(u, c)'
        /\ \A time : LiftDue(time) => LiftDue(time)'
    BY <1>2, OthersStillOwe
  <1>4. \A u : EvseSound(u) => EvseSound(u)'
    BY <1>3 DEF EvseSound, tables
  <1>5. \A u, c : ConnectorSound(u, c) => ConnectorSound(u, c)'
    BY <1>3 DEF ConnectorSound, tables
  <1> QED
    BY <1>4, <1>5 DEF Sound, tables

LEMMA WriteLocationSound ==
  ASSUME TypeOK, NEW p \in Procs, WriteLocation(p)
  PROVE  Sound'
  <1>1. location'.evses = evsesLeft[p] /\ evsesLeft' = evsesLeft
    BY DEF WriteLocation
  <1>2. Writing(p)'
    BY DEF WriteLocation, Goto, Writing, TypeOK
  <1>3. \A u \in DOMAIN location'.evses : EvseSound(u)'
    BY <1>1, <1>2 DEF EvseSound, EvseDue, WillWriteEvse
  <1>4. \A u \in DOMAIN location'.evses :
          \A c \in DOMAIN location'.evses[u].connectors : ConnectorSound(u, c)'
    BY <1>1, <1>2 DEF ConnectorSound, ConnectorDue, WillWriteConnector, WillWriteEvse
  <1> QED
    BY <1>3, <1>4 DEF Sound

\* The EVSE is written; its connectors are still due, and so is the lift of the
\* location.
LEMMA WriteEvseSound ==
  ASSUME TypeOK, StampsOK, Sound, NEW p \in Procs, WriteEvse(p)
  PROVE  Sound'
  <1> DEFINE left == evsesLeft[p]
  <1>1. PICK u0 \in DOMAIN left :
          LET time == StampOf(left[u0].stamp, fallback[p])
          IN  /\ evse' = [evse EXCEPT ![u0] = time]
              /\ stamp' = [stamp EXCEPT ![p] = time]
              /\ uid' = [uid EXCEPT ![p] = u0]
              /\ connsLeft' = [connsLeft EXCEPT ![p] = left[u0].connectors]
              /\ evsesLeft' = [evsesLeft EXCEPT ![p] = Without(left, u0)]
    BY DEF WriteEvse
  <1>2. /\ pc[p] = "object" /\ connsLeft[p] = Nothing
        /\ pc' = [pc EXCEPT ![p] = "bumpLocation"]
        /\ UNCHANGED <<location, connector>>
    BY DEF WriteEvse, Goto
  <1>3. Frame(p)
    BY <1>1, <1>2 DEF Frame, TypeOK
  <1>4. left \in PartialFunctions(Evses, Embedded) /\ u0 \in Evses
        /\ left[u0].stamp \in Stamp
    <2>1. left \in EmbeddedEvses
      BY DEF TypeOK
    <2> QED
      BY <2>1, EmbeddedEvsesDef, EmbeddedType
  <1>5. /\ DOMAIN Without(left, u0) = DOMAIN left \ {u0}
        /\ \A u \in DOMAIN left \ {u0} : Without(left, u0)[u] = left[u]
    <2>1. left \in PartialFunctions(Evses, Embedded)
      BY <1>4
    <2> HIDE DEF left
    <2> QED
      BY <2>1, WithoutIsPartial
  <1>6. StampOf(left[u0].stamp, fallback[p]) \in Time
    BY <1>2, <1>4, StampOfType DEF StampsOK, TypeOK
  <1>7. Writing(p) /\ Writing(p)'
    BY <1>2 DEF Writing, TypeOK
  <1>8. ASSUME NEW u, EvseSound(u), u \in Evses PROVE EvseSound(u)'
    <2>1. CASE u = u0
      <3>1. evse'[u] = StampOf(left[u0].stamp, fallback[p])
            /\ stamp'[p] = evse'[u]
        BY <1>1, <1>4, <2>1 DEF TypeOK
      <3>2. WillLift(p, evse[u])' /\ evse'[u] # Absent
        <4>1. pc'[p] = "bumpLocation" /\ evse'[u] \in Nat \ {0}
          BY <1>2, <1>6, <3>1, TimeFacts DEF TypeOK
        <4> QED
          BY <3>1, <4>1 DEF WillLift, Absent
      <3> QED
        BY <3>2 DEF EvseSound, LiftDue, WillLift
    <2>2. CASE u # u0
      <3>1. evse'[u] = evse[u] /\ location' = location
        BY <1>1, <1>2, <2>2 DEF TypeOK
      <3>2. EvseDue(u) => EvseDue(u)'
        <4>1. WillWriteEvse(p, u) => WillWriteEvse(p, u)'
          BY <1>1, <1>5, <1>7, <2>2 DEF WillWriteEvse, TypeOK
        <4> QED
          BY <1>3, <4>1, OthersStillOwe DEF EvseDue
      <3>3. \A time : LiftDue(time) => LiftDue(time)'
        BY <1>2, <1>3, OthersStillOwe DEF WillLift
      <3> QED
        BY <1>8, <3>1, <3>2, <3>3 DEF EvseSound
    <2> QED
      BY <2>1, <2>2
  <1>9. ASSUME NEW u, NEW c, ConnectorSound(u, c) PROVE ConnectorSound(u, c)'
    <2>1. WillWriteConnector(p, u, c) => WillWriteConnector(p, u, c)'
      <3>1. CASE u = u0
        BY <1>1, <1>2, <1>7, <3>1 DEF WillWriteConnector, WillWriteEvse, Nothing, TypeOK
      <3>2. CASE u # u0
        BY <1>1, <1>2, <1>5, <1>7, <3>2
        DEF WillWriteConnector, WillWriteEvse, Nothing, TypeOK
      <3> QED
        BY <3>1, <3>2
    <2>2. ConnectorDue(u, c) => ConnectorDue(u, c)'
      BY <1>3, <2>1, OthersStillOwe DEF ConnectorDue
    <2>3. \A time : LiftDue(time) => LiftDue(time)'
      BY <1>2, <1>3, OthersStillOwe DEF WillLift
    <2> QED
      BY <1>2, <1>9, <2>2, <2>3 DEF ConnectorSound
  <1>10. DOMAIN location.evses \subseteq Evses
    <2>1. location.evses \in EmbeddedEvses
      BY DEF TypeOK
    <2> QED
      BY <2>1, EmbeddedType
  <1> QED
    BY <1>2, <1>8, <1>9, <1>10 DEF Sound

LEMMA WriteConnectorSound ==
  ASSUME TypeOK, StampsOK, Sound, NEW p \in Procs, WriteConnector(p)
  PROVE  Sound'
  <1>1. PICK c0 \in DOMAIN connsLeft[p] :
          LET time == StampOf(connsLeft[p][c0], fallback[p])
          IN  /\ connector' = [connector EXCEPT ![<<uid[p], c0>>] = time]
              /\ stamp' = [stamp EXCEPT ![p] = time]
              /\ connsLeft' = [connsLeft EXCEPT ![p] = Without(connsLeft[p], c0)]
    BY DEF WriteConnector
  <1>2. /\ pc[p] = "object"
        /\ pc' = [pc EXCEPT ![p] = "bumpEvse"]
        /\ UNCHANGED <<location, evse, evsesLeft, uid>>
    BY DEF WriteConnector, Goto
  <1>3. Frame(p)
    BY <1>1, <1>2 DEF Frame, TypeOK
  <1>4. connsLeft[p] \in PartialFunctions(Connectors, Stamp)
    BY EmbeddedEvsesDef DEF TypeOK
  <1>5. c0 \in Connectors /\ connsLeft[p][c0] \in Stamp
    BY <1>4, PartialFunction
  <1>6. DOMAIN Without(connsLeft[p], c0) = DOMAIN connsLeft[p] \ {c0}
    BY DEF Without, Restrict
  <1>7. StampOf(connsLeft[p][c0], fallback[p]) \in Time
    BY <1>2, <1>5, StampOfType DEF StampsOK, TypeOK
  <1>8. Writing(p) /\ Writing(p)'
    BY <1>2 DEF Writing, TypeOK
  <1>9. \A time : LiftDue(time) => LiftDue(time)'
    BY <1>2, <1>3, OthersStillOwe DEF WillLift
  <1>10. ASSUME NEW u, EvseSound(u) PROVE EvseSound(u)'
    <2>1. WillWriteEvse(p, u) => WillWriteEvse(p, u)'
      BY <1>2, <1>8 DEF WillWriteEvse
    <2>2. EvseDue(u) => EvseDue(u)'
      BY <1>3, <2>1, OthersStillOwe DEF EvseDue
    <2> QED
      BY <1>2, <1>9, <1>10, <2>2 DEF EvseSound
  <1>11. ASSUME NEW u, NEW c, ConnectorSound(u, c), u \in Evses, c \in Connectors
         PROVE  ConnectorSound(u, c)'
    <2>1. CASE u = uid[p] /\ c = c0
      <3>1. connector'[<<u, c>>] = StampOf(connsLeft[p][c0], fallback[p])
            /\ stamp'[p] = connector'[<<u, c>>]
        BY <1>1, <1>11, <2>1 DEF TypeOK
      <3>2. pc'[p] = "bumpEvse" /\ connector'[<<u, c>>] \in Nat \ {0}
        BY <1>2, <1>7, <3>1, TimeFacts DEF TypeOK
      <3>3. WillLift(p, connector[<<u, c>>])'
        BY <3>1, <3>2 DEF WillLift
      <3> QED
        BY <3>2, <3>3 DEF ConnectorSound, LiftDue, WillLift, Absent
    <2>2. CASE ~(u = uid[p] /\ c = c0)
      <3>1. connector'[<<u, c>>] = connector[<<u, c>>]
        BY <1>1, <1>11, <2>2 DEF TypeOK
      <3>2. WillWriteConnector(p, u, c) => WillWriteConnector(p, u, c)'
        BY <1>1, <1>2, <1>6, <1>8, <2>2
        DEF WillWriteConnector, WillWriteEvse, TypeOK
      <3>3. ConnectorDue(u, c) => ConnectorDue(u, c)'
        BY <1>3, <3>2, OthersStillOwe DEF ConnectorDue
      <3> QED
        BY <1>2, <1>9, <1>11, <3>1, <3>3 DEF ConnectorSound
    <2> QED
      BY <2>1, <2>2
  <1>12. location.evses \in EmbeddedEvses
    BY DEF TypeOK
  <1>13. ASSUME NEW u \in DOMAIN location.evses
         PROVE  /\ u \in Evses
                /\ DOMAIN location.evses[u].connectors \subseteq Connectors
    <2>1. u \in Evses /\ location.evses[u].connectors \in EmbeddedConnectors
      BY <1>12, EmbeddedType
    <2> QED
      BY <2>1, EmbeddedEvsesDef DEF PartialFunctions
  <1> QED
    BY <1>2, <1>10, <1>11, <1>13 DEF Sound

\* A bump makes a parent no older and no younger than one of its children.
LEMMA BumpedFacts ==
  ASSUME NEW row \in Stamp, NEW child \in Stamp
  PROVE  /\ Bumped(row, child) \in {row, child}
         /\ row # Absent => Bumped(row, child) >= row /\ Bumped(row, child) >= child
         /\ Bumped(row, child) = Absent <=> row = Absent
  BY TimeFacts DEF Bumped, Absent

LEMMA BumpEvseSound ==
  ASSUME TypeOK, StampsOK, Sound, NEW p \in Procs, BumpEvse(p)
  PROVE  Sound'
  <1>1. /\ pc[p] = "bumpEvse"
        /\ pc' = [pc EXCEPT ![p] = "bumpLocation"]
        /\ evse' = [evse EXCEPT ![uid[p]] = Bumped(evse[uid[p]], stamp[p])]
        /\ UNCHANGED <<location, connector, evsesLeft, uid, connsLeft, stamp>>
    BY DEF BumpEvse, Goto
  <1>2. Frame(p)
    BY <1>1 DEF Frame, TypeOK
  <1>3. /\ \A u : WillWriteEvse(p, u) => WillWriteEvse(p, u)'
        /\ \A u, c : WillWriteConnector(p, u, c) => WillWriteConnector(p, u, c)'
        /\ \A time : WillLift(p, time) => WillLift(p, time)'
    BY <1>1 DEF WillWriteEvse, WillWriteConnector, WillLift, Writing, TypeOK
  <1>4. /\ \A u : EvseDue(u) => EvseDue(u)'
        /\ \A u, c : ConnectorDue(u, c) => ConnectorDue(u, c)'
        /\ \A time : LiftDue(time) => LiftDue(time)'
    BY <1>2, <1>3, OthersStillOwe DEF EvseDue, ConnectorDue, LiftDue
  <1>5. ASSUME NEW u \in Evses, EvseSound(u) PROVE EvseSound(u)'
    <2>1. CASE evse'[u] = evse[u]
      BY <1>1, <1>4, <1>5, <2>1 DEF EvseSound
    <2>2. CASE evse'[u] # evse[u]
      <3>1. evse[u] \in Stamp /\ stamp[p] \in Stamp
        BY DEF TypeOK
      <3>2. u = uid[p] /\ evse'[u] = Bumped(evse[u], stamp[p])
        BY <1>1, <2>2 DEF TypeOK
      <3>3. evse'[u] = stamp[p] /\ (evse'[u] = Absent => evse[u] = Absent)
        BY <2>2, <3>1, <3>2, BumpedFacts
      <3>4. evse'[u] # Absent
        BY <2>2, <3>3
      <3>5. pc'[p] = "bumpLocation" /\ evse'[u] <= stamp'[p]
        <4>1. stamp[p] \in Nat
          BY <3>1, TimeFacts
        <4> QED
          BY <1>1, <3>3, <4>1 DEF TypeOK
      <3> QED
        BY <3>4, <3>5 DEF EvseSound, LiftDue, WillLift
    <2> QED
      BY <2>1, <2>2
  <1>6. \A u, c : ConnectorSound(u, c) => ConnectorSound(u, c)'
    BY <1>1, <1>4 DEF ConnectorSound
  <1>7. DOMAIN location.evses \subseteq Evses
    <2>1. location.evses \in EmbeddedEvses
      BY DEF TypeOK
    <2> QED
      BY <2>1, EmbeddedType
  <1> QED
    BY <1>1, <1>5, <1>6, <1>7 DEF Sound

\* What p was going to lift is lifted now.
LEMMA BumpLocationSound ==
  ASSUME TypeOK, StampsOK, Sound, NEW p \in Procs, BumpLocation(p)
  PROVE  Sound'
  <1>1. /\ pc[p] = "bumpLocation"
        /\ pc' = [pc EXCEPT ![p] = "object"]
        /\ location' = [location EXCEPT !.stamp = Bumped(location.stamp, stamp[p])]
        /\ UNCHANGED <<evse, connector, evsesLeft, uid, connsLeft, stamp>>
    BY DEF BumpLocation, Goto
  <1>2. Frame(p)
    BY <1>1 DEF Frame, TypeOK
  <1>3. /\ location.stamp \in Stamp /\ stamp[p] \in Stamp
        /\ location'.stamp = Bumped(location.stamp, stamp[p])
        /\ location'.evses = location.evses
    BY <1>1 DEF TypeOK
  <1>4. /\ \A u : WillWriteEvse(p, u) => WillWriteEvse(p, u)'
        /\ \A u, c : WillWriteConnector(p, u, c) => WillWriteConnector(p, u, c)'
    BY <1>1 DEF WillWriteEvse, WillWriteConnector, Writing, TypeOK
  <1>5. /\ \A u : EvseDue(u) => EvseDue(u)'
        /\ \A u, c : ConnectorDue(u, c) => ConnectorDue(u, c)'
    BY <1>2, <1>4, OthersStillOwe DEF EvseDue, ConnectorDue
  <1> SUFFICES ASSUME DOMAIN location.evses # {} PROVE Sound'
    BY <1>3 DEF Sound
  <1>6. location'.stamp \in Nat /\ location'.stamp >= location.stamp
        /\ location'.stamp >= stamp[p]
    <2>1. location.stamp # Absent
      BY DEF StampsOK
    <2> QED
      BY <1>3, <2>1, BumpedFacts, BumpedType, TimeFacts
  <1>7. ASSUME NEW time \in Nat, time <= location.stamp \/ LiftDue(time)
        PROVE  time <= location'.stamp \/ LiftDue(time)'
    <2>1. CASE time <= location.stamp
      <3>1. location.stamp \in Nat
        BY <1>3, TimeFacts
      <3> QED
        BY <1>6, <2>1, <3>1
    <2>2. CASE LiftDue(time) /\ ~WillLift(p, time)
      BY <1>2, <2>2, OthersStillOwe
    <2>3. CASE WillLift(p, time)
      <3>1. time <= stamp[p] /\ stamp[p] \in Nat
        BY <1>3, <2>3, TimeFacts DEF WillLift
      <3> QED
        BY <1>6, <3>1
    <2> QED
      BY <1>7, <2>1, <2>2, <2>3
  <1>8. ASSUME NEW u \in Evses, EvseSound(u) PROVE EvseSound(u)'
    <2>1. evse[u] \in Nat /\ evse' = evse
      BY <1>1, TimeFacts DEF TypeOK
    <2>2. CASE EvseDue(u)
      BY <1>5, <2>2 DEF EvseSound
    <2>3. CASE ~EvseDue(u)
      <3>1. evse[u] # Absent /\ (evse[u] <= location.stamp \/ LiftDue(evse[u]))
        BY <1>8, <2>3 DEF EvseSound
      <3> QED
        BY <1>7, <2>1, <3>1 DEF EvseSound, LiftDue, WillLift
    <2> QED
      BY <2>2, <2>3
  <1>9. ASSUME NEW u \in Evses, NEW c \in Connectors, ConnectorSound(u, c)
        PROVE  ConnectorSound(u, c)'
    <2>1. connector[<<u, c>>] \in Nat /\ connector' = connector
      BY <1>1, TimeFacts DEF TypeOK
    <2>2. CASE ConnectorDue(u, c)
      BY <1>5, <2>2 DEF ConnectorSound
    <2>3. CASE ~ConnectorDue(u, c)
      <3>1. /\ connector[<<u, c>>] # Absent
            /\ connector[<<u, c>>] <= location.stamp \/ LiftDue(connector[<<u, c>>])
        BY <1>9, <2>3 DEF ConnectorSound
      <3> QED
        BY <1>7, <2>1, <3>1 DEF ConnectorSound, LiftDue, WillLift
    <2> QED
      BY <2>2, <2>3
  <1>10. location.evses \in EmbeddedEvses
    BY DEF TypeOK
  <1>11. ASSUME NEW u \in DOMAIN location.evses
         PROVE  /\ u \in Evses
                /\ DOMAIN location.evses[u].connectors \subseteq Connectors
    <2>1. u \in Evses /\ location.evses[u].connectors \in EmbeddedConnectors
      BY <1>10, EmbeddedType
    <2> QED
      BY <2>1, EmbeddedEvsesDef DEF PartialFunctions
  <1> QED
    BY <1>3, <1>8, <1>9, <1>11 DEF Sound

-----------------------------------------------------------------------------
(* The rest of the invariant. *)

LEMMA BeginKeeps ==
  ASSUME IInv, NEW p \in Procs, NEW label \in {"location", "object"},
         NEW time \in Time, NEW evses, NEW u, NEW conns,
         Begin(p, label, time, evses, u, conns),
         \/ whole' = whole
         \/ whole' = whole \cup {p} /\ label = "location"
  PROVE  StampsOK' /\ WholeOK' /\ (Trusted' => Sound')
  <1>1. /\ pc[p] = "idle" /\ pc' = [pc EXCEPT ![p] = label]
        /\ fallback' = [fallback EXCEPT ![p] = time]
        /\ UNCHANGED tables /\ torn' = torn /\ stamp' = stamp
    BY DEF Begin
  <1>2. Frame(p)
    BY DEF Begin, Frame, IInv, TypeOK
  <1>3. StampsOK'
    BY <1>1 DEF IInv, StampsOK, TypeOK, tables
  <1>4. WholeOK'
    BY <1>1 DEF IInv, WholeOK, TypeOK
  <1>5. Trusted' => Trusted
    BY <1>1 DEF Trusted, Writing, IInv, WholeOK, TypeOK
  <1> QED
    BY <1>1, <1>2, <1>3, <1>4, <1>5, SoundWithout DEF IInv

\* A step that moves p between statements, and the stamps, by what it wrote.
LEMMA StatementKeeps ==
  ASSUME IInv, NEW p \in Procs,
         WriteLocation(p) \/ WriteEvse(p) \/ WriteConnector(p)
           \/ BumpEvse(p) \/ BumpLocation(p)
  PROVE  WholeOK' /\ (Trusted' /\ ~WriteLocation(p) => Trusted)
  <1>1. /\ pc[p] # "idle"
        /\ pc[p] = "location" => WriteLocation(p)
        /\ \E label \in {"object", "bumpEvse", "bumpLocation"} :
             pc' = [pc EXCEPT ![p] = label]
        /\ whole' = whole /\ torn' = torn
    BY DEF WriteLocation, WriteEvse, WriteConnector, BumpEvse, BumpLocation, Goto, history
  <1> QED
    BY <1>1 DEF IInv, WholeOK, Trusted, Writing, TypeOK

LEMMA StampsKept ==
  ASSUME IInv, NEW p \in Procs,
         WriteLocation(p) \/ WriteEvse(p) \/ WriteConnector(p)
           \/ BumpEvse(p) \/ BumpLocation(p)
  PROVE  StampsOK'
  <1>1. CASE WriteLocation(p)
    <2>1. fallback[p] \in Time /\ location'.stamp = fallback[p]
      BY <1>1 DEF WriteLocation, IInv, StampsOK
    <2> QED
      BY <1>1, <2>1, TimeFacts DEF WriteLocation, Goto, IInv, StampsOK, TypeOK
  <1>2. CASE WriteEvse(p)
    <2>1. PICK u \in DOMAIN evsesLeft[p] :
            stamp' = [stamp EXCEPT ![p] = StampOf(evsesLeft[p][u].stamp, fallback[p])]
      BY <1>2 DEF WriteEvse
    <2>2. evsesLeft[p][u].stamp \in Stamp
      <3>1. evsesLeft[p] \in EmbeddedEvses
        BY DEF IInv, TypeOK
      <3> QED
        BY <3>1, EmbeddedType
    <2>3. fallback[p] \in Time
      BY <1>2 DEF WriteEvse, IInv, StampsOK
    <2>4. StampOf(evsesLeft[p][u].stamp, fallback[p]) \in Time
      BY <2>2, <2>3, StampOfType, TimeFacts
    <2> QED
      BY <1>2, <2>1, <2>4 DEF WriteEvse, Goto, IInv, StampsOK, TypeOK
  <1>3. CASE WriteConnector(p)
    <2>1. PICK c \in DOMAIN connsLeft[p] :
            stamp' = [stamp EXCEPT ![p] = StampOf(connsLeft[p][c], fallback[p])]
      BY <1>3 DEF WriteConnector
    <2>2. connsLeft[p][c] \in Stamp
      <3>1. connsLeft[p] \in PartialFunctions(Connectors, Stamp)
        BY EmbeddedEvsesDef DEF IInv, TypeOK
      <3> QED
        BY <3>1, PartialFunction
    <2>3. fallback[p] \in Time
      BY <1>3 DEF WriteConnector, IInv, StampsOK
    <2>4. StampOf(connsLeft[p][c], fallback[p]) \in Time
      BY <2>2, <2>3, StampOfType, TimeFacts
    <2> QED
      BY <1>3, <2>1, <2>4 DEF WriteConnector, Goto, IInv, StampsOK, TypeOK
  <1>4. CASE BumpEvse(p)
    BY <1>4 DEF BumpEvse, Goto, IInv, StampsOK, TypeOK
  <1>5. CASE BumpLocation(p)
    <2>1. /\ location.stamp \in Stamp /\ stamp[p] \in Stamp
          /\ location'.stamp = Bumped(location.stamp, stamp[p])
          /\ location'.evses = location.evses
      BY <1>5 DEF BumpLocation, IInv, TypeOK
    <2>2. location'.stamp = Absent => location.stamp = Absent
      BY <2>1, BumpedFacts
    <2> QED
      BY <1>5, <2>1, <2>2 DEF BumpLocation, Goto, IInv, StampsOK, TypeOK
  <1> QED
    BY <1>1, <1>2, <1>3, <1>4, <1>5

LEMMA EndKeeps ==
  ASSUME IInv, NEW p \in Procs, Return(p), UNCHANGED tables
  PROVE  StampsOK' /\ Frame(p)
  BY DEF IInv, Return, Goto, StampsOK, Frame, TypeOK, tables

\* IInv is inductive: one step per action.
LEMMA InvStep == IInv /\ [Next]_vars => IInv'
  <1> SUFFICES ASSUME IInv, [Next]_vars PROVE IInv'
    OBVIOUS
  <1>1. TypeOK'
    BY TypeStep DEF IInv
  <1>2. ASSUME NEW p \in Procs, PutLocationObject(p) \/ PatchLocationObject(p)
        PROVE  StampsOK' /\ WholeOK' /\ (Trusted' => Sound')
    <2>1. PICK time \in Time :
            \/ \E evses : BeginLocation(p, time, evses)
            \/ \E u : BeginEvse(p, time, u)
            \/ \E u, c : BeginConnector(p, time, u, c)
      BY <1>2 DEF PutLocationObject, PatchLocationObject
    <2>2. CASE \E evses : BeginLocation(p, time, evses)
      BY <2>2, BeginKeeps DEF BeginLocation
    <2>3. CASE \E u : BeginEvse(p, time, u)
      BY <2>3, BeginKeeps DEF BeginEvse
    <2>4. CASE \E u, c : BeginConnector(p, time, u, c)
      BY <2>4, BeginKeeps DEF BeginConnector
    <2> QED
      BY <2>1, <2>2, <2>3, <2>4
  <1>3. ASSUME NEW p \in Procs,
               WriteLocation(p) \/ WriteEvse(p) \/ WriteConnector(p)
                 \/ BumpEvse(p) \/ BumpLocation(p)
        PROVE  StampsOK' /\ WholeOK' /\ (Trusted' => Sound')
    <2>1. StampsOK' /\ WholeOK' /\ (Trusted' /\ ~WriteLocation(p) => Trusted)
      BY <1>3, StampsKept, StatementKeeps
    <2>2. ASSUME Trusted', ~WriteLocation(p) PROVE Sound
      BY <2>1, <2>2 DEF IInv
    <2> QED
      BY <1>3, <2>1, <2>2, WriteLocationSound, WriteEvseSound,
         WriteConnectorSound, BumpEvseSound, BumpLocationSound DEF IInv
  <1>4. ASSUME NEW p \in Procs, Answer(p)
        PROVE  StampsOK' /\ WholeOK' /\ (Trusted' => Sound')
    <2>1. StampsOK' /\ Frame(p)
      BY <1>4, EndKeeps DEF Answer
    <2>2. WholeOK'
      BY <1>4 DEF Answer, Return, Goto, IInv, WholeOK, TypeOK
    <2>3. Trusted' => Trusted
      BY <1>4 DEF Answer, Return, Goto, IInv, Trusted, Writing, TypeOK
    <2>4. Sound => Sound'
      BY <1>4, <2>1, SoundWithout DEF Answer
    <2> QED
      BY <2>1, <2>2, <2>3, <2>4 DEF IInv
  <1>5. ASSUME NEW p \in Procs, CutOff(p)
        PROVE  StampsOK' /\ WholeOK' /\ (Trusted' => Sound')
    <2>1. StampsOK'
      BY <1>5, EndKeeps DEF CutOff
    <2> QED
      BY <1>5, <2>1 DEF CutOff, WholeOK, Trusted
  <1>6. ASSUME NEW p \in Procs, ResetData(p)
        PROVE  StampsOK' /\ WholeOK' /\ (Trusted' => Sound')
    <2>1. DOMAIN location'.evses = {}
      BY <1>6 DEF ResetData, NoLocation, Nothing
    <2>2. StampsOK'
      BY <1>6, <2>1 DEF ResetData, locals, IInv, StampsOK
    <2>3. WholeOK'
      BY <1>6 DEF ResetData, locals, history, IInv, WholeOK
    <2>4. Sound'
      BY <2>1 DEF Sound
    <2> QED
      BY <2>2, <2>3, <2>4
  <1>7. ASSUME UNCHANGED vars
        PROVE  StampsOK' /\ WholeOK' /\ (Trusted' => Sound')
    BY <1>7 DEF vars, tables, history, locals, IInv, StampsOK, WholeOK, Trusted, Sound,
       Writing, EvseSound, ConnectorSound, EvseDue, ConnectorDue, LiftDue,
       WillWriteEvse, WillWriteConnector, WillLift
  <1> QED
    BY <1>1, <1>2, <1>3, <1>4, <1>5, <1>6, <1>7 DEF Next, Done, IInv

LEMMA InitInv == Init => IInv
  <1> SUFFICES ASSUME Init PROVE IInv
    OBVIOUS
  <1>1. DOMAIN location.evses = {}
    BY DEF Init, NoLocation, Nothing
  <1> QED
    BY <1>1, InitType DEF Init, IInv, StampsOK, WholeOK, Sound

\* Nothing is due from a replica that is settled.
LEMMA SettledSound ==
  IInv => SplitComplete /\ ParentCovers
  <1> SUFFICES ASSUME IInv, Settled PROVE SplitComplete /\ ParentCovers
    BY DEF SplitComplete, ParentCovers
  <1>1. Sound
    BY DEF IInv, Trusted, Settled
  <1>2. /\ \A u : ~EvseDue(u)
        /\ \A u, c : ~ConnectorDue(u, c)
        /\ \A time : ~LiftDue(time)
    BY DEF Settled, EvseDue, ConnectorDue, LiftDue,
       WillWriteEvse, WillWriteConnector, WillLift, Writing
  <1>3. ASSUME NEW u \in DOMAIN location.evses
        PROVE  evse[u] # Absent /\ evse[u] <= location.stamp
    BY <1>1, <1>2 DEF Sound, EvseSound
  <1>4. ASSUME NEW u \in DOMAIN location.evses,
               NEW c \in DOMAIN location.evses[u].connectors
        PROVE  connector[<<u, c>>] # Absent /\ connector[<<u, c>>] <= location.stamp
    BY <1>1, <1>2 DEF Sound, ConnectorSound
  <1> QED
    BY <1>3, <1>4 DEF SplitComplete, ParentCovers

LEMMA Invariant == Spec => []IInv
  BY InitInv, InvStep, PTL DEF Spec

\* However PUTs, PATCHes, pulls, truncations and failures interleave, a settled
\* replica has a row of its own for every object its location embeds.
THEOREM SplitCompleteAlways == Spec => []SplitComplete
  BY Invariant, SettledSound, PTL

\* And its location is never older than a row it embeds.
THEOREM ParentCoversAlways == Spec => []ParentCovers
  BY Invariant, SettledSound, PTL
=============================================================================
