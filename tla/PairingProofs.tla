--------------------------- MODULE PairingProofs ---------------------------
(***************************************************************************)
(* What holds of Registration when its requests do not overlap, for any    *)
(* number of requests and whatever replies are lost.                       *)
(*                                                                         *)
(*   TokensDieSerially              PairingSpec => []TokensDie             *)
(*   SingleRowSerially              PairingSpec => []SingleRow             *)
(*   CallbackAuthenticatesSerially  PairingSpec => []CallbackAuthenticates *)
(*                                                                         *)
(* and, unless a caller hangs up (~MayCancel), after which a row may be    *)
(* left half rotated,                                                      *)
(*                                                                         *)
(*   WholePairSerially              PairingSpec => []WholePair             *)
(*   PairingImplemented             PairingSpec => ImplementsPairing       *)
(*                                                                         *)
(* All rest on Serial, which says at every step of the one request what    *)
(* its copies have to do with the table: between a read and the write that *)
(* follows they are the table, so a write is never stale; and from the     *)
(* write of the new inbound token to the end of the request the snapshot   *)
(* is a row the rollback may put back.                                     *)
(***************************************************************************)
EXTENDS RegistrationPairing, RegistrationProofs

Step == pc[Request]

\* The table is what the copy says.
Shows(copy) ==
  \/ copy = NoCopy /\ DOMAIN regs = {}
  \/ copy.id # 0 /\ DOMAIN regs = {copy.id} /\ regs[copy.id] = copy.row

\* A row that may be in the table for good.
Sound(row) ==
  /\ {row.in, row.out} \cap dead = {}
  /\ row.status = Registered /\ ~MayCancel => <<row.in, row.out>> \in agreed

\* A token that nobody holds but the request that made it.
New(token) ==
  /\ token \notin dead \cup {NoToken, peer.use}
  /\ \A i \in DOMAIN regs : token \notin {regs[i].in, regs[i].out}

\* A copy with a new inbound token.
Rotated(copy, old, token) ==
  /\ copy.id = old.id
  /\ copy.row.in = token /\ copy.row.out = old.row.out
  /\ copy.row.status = old.row.status

\* The steps at which the row carries the new inbound token.
Calling == {"post", "put", "rollback"}
Called == {"postFinish", "putFinish"}

\* Only a caller that hangs up ends the context of a request.
Lives == ~MayCancel => alive[Request]

Issued ==
  /\ \A i \in DOMAIN regs : regs[i].in < fresh /\ regs[i].out < fresh
  /\ peer.use < fresh /\ peer.accept < fresh
  /\ \A t \in dead : t # NoToken /\ t < fresh
  /\ \A pair \in agreed : pair[1] # NoToken /\ pair[2] # NoToken
  /\ tok[Request] < fresh
  /\ prev[Request].row.in < fresh /\ prev[Request].row.out < fresh

RowsKept ==
  \A i \in DOMAIN regs :
    IF Step \in Calling \cup Called THEN {regs[i].in, regs[i].out} \cap dead = {}
    ELSE Sound(regs[i])

\* Before the new inbound token is written.
Reading ==
  LET c == cur[Request]  b == prev[Request]  t == tok[Request] IN
  /\ Step \in {"tokenSave", "pendingSave"} => Shows(c)
  /\ Step \in {"pendingRead", "pendingSave", "rotateSave"} => Shows(b)
  /\ Step \in {"tokenSave", "pendingRead", "pendingSave", "rotateSave"} => New(t)
  /\ Step = "rotateSave" => /\ b.id # 0 /\ b.row.status = Registered
                            /\ Rotated(c, b, t)
  /\ Step \in {"delete", "drop"} \cup Handlers => c.id # 0 /\ Shows(c)
  /\ Step \in {"delete", "drop"} => c.row.status = Registered
  /\ Step = "drop" => peer = NoPair
  /\ Step = "reply" => FirstPair = Given

\* After it.
Exchanging ==
  LET c == cur[Request]  b == prev[Request]  t == tok[Request]  g == grant[Request] IN
  /\ Step \in Calling \cup Called => c.id # 0 /\ Shows(c)
  /\ Step \in Calling => \/ b = NoCopy /\ c.row.status = Pending
                         \/ b.id = c.id /\ Sound(b.row)
  /\ Step \in {"post", "put"} => /\ t \notin dead \cup {NoToken, peer.use, b.row.in}
                                 /\ c.row.in = t
  /\ Step = "put" => b.row.status = Registered /\ Rotated(c, b, t)
  /\ Step \in Called => /\ c.row.in = t
                        /\ peer = Given
                        /\ <<t, g>> \in agreed
                        /\ {t, g} \cap dead = {}
  /\ Step = "putFinish" => c.row.status = Registered

Serial ==
  /\ TypeOK
  /\ Lives
  /\ SingleRow
  /\ Issued /\ RowsKept /\ Reading /\ Exchanging

-----------------------------------------------------------------------------
(* The one slot, and what a read finds. *)

LEMMA OneSlot == Procs = {Request}
<1>1. PICK p \in Procs : Procs = {p}
  BY OneRequestAtATime
<1> QED
  BY <1>1 DEF Request

LEMMA LocalTypes ==
  ASSUME TypeOK
  PROVE  /\ cur[Request] \in Copy /\ prev[Request] \in Copy
         /\ tok[Request] \in Nat /\ grant[Request] \in Nat
         /\ Step \in Labels
         /\ fresh \in Nat /\ nextId \in Nat \ {0} /\ peer \in Pair
         /\ \A i \in DOMAIN regs : i \in Nat \ {0} /\ i < nextId /\ regs[i] \in Row
  BY OneSlot DEF TypeOK, LocalsOK, TableOK, Step

LEMMA ReadShows ==
  ASSUME TypeOK, SingleRow,
         NEW copy \in {NoCopy} \cup {CopyOf(id) : id \in DOMAIN regs},
         ReadFirst(DOMAIN regs, copy)
  PROVE  Shows(copy)
<1>1. CASE DOMAIN regs = {} /\ copy = NoCopy
  BY <1>1 DEF Shows
<1>2. ASSUME NEW id \in DOMAIN regs, copy = CopyOf(id)
      PROVE  Shows(copy)
  <2>1. DOMAIN regs = {id} /\ id # 0
    BY LocalTypes DEF SingleRow
  <2> QED
    BY <1>2, <2>1 DEF Shows, CopyOf
<1> QED
  BY <1>1, <1>2 DEF ReadFirst

LEMMA FreshIsNew == ASSUME TypeOK, Issued PROVE New(fresh)
  BY LocalTypes DEF New, Issued, TypeOK, NoToken

\* What the request holds when it starts, or after it has returned.
LEMMA ReturnRests ==
  ASSUME TypeOK, NEW p \in Procs, Return(p)
  PROVE  /\ Step' = "idle" /\ alive'[Request]
         /\ cur'[Request] = NoCopy /\ prev'[Request] = NoCopy
         /\ tok'[Request] = NoToken /\ grant'[Request] = NoToken
  BY OneSlot DEF TypeOK, LocalsOK, Return, Step

LEMMA GotoSteps ==
  ASSUME TypeOK, NEW p \in Procs, NEW label, Goto(p, label)
  PROVE  Step' = label /\ UNCHANGED alive
  BY OneSlot DEF TypeOK, LocalsOK, Goto, Step

LEMMA KeepHolds ==
  ASSUME TypeOK, NEW p \in Procs, NEW copy, Keep(p, copy)
  PROVE  cur'[Request] = copy
  BY OneSlot DEF TypeOK, LocalsOK, Keep

LEMMA TokenMade ==
  ASSUME TypeOK, NEW p \in Procs, IssueToken(p)
  PROVE  tok'[Request] = fresh /\ fresh' = fresh + 1
  BY OneSlot DEF TypeOK, LocalsOK, IssueToken

\* A step that reads: the table and Evolt stay, and no row carries a new token.
LEMMA ReadKeeps ==
  ASSUME Serial, TypeOK',
         UNCHANGED <<table, peer, history, alive>>,
         Step \notin Calling \cup Called, Step' \notin Calling \cup Called,
         fresh <= fresh', tok'[Request] < fresh',
         prev'[Request].row.in < fresh' /\ prev'[Request].row.out < fresh',
         Reading'
  PROVE  Serial'
<1>1. SingleRow' /\ Lives'
  BY DEF Serial, Lives, SingleRow, table
<1>2. fresh \in Nat /\ fresh' \in Nat
  BY DEF Serial, TypeOK
<1>3. Issued'
  <2>1. \A i \in DOMAIN regs : regs[i].in \in Nat /\ regs[i].out \in Nat
    BY LocalTypes DEF Serial, Row
  <2>2. peer.use \in Nat /\ peer.accept \in Nat /\ dead \subseteq Nat
    BY DEF Serial, TypeOK, Pair
  <2> QED
    BY <1>2, <2>1, <2>2 DEF Serial, Issued, table, history
<1>4. RowsKept'
  BY DEF Serial, RowsKept, Sound, table, history
<1>5. Exchanging'
  BY DEF Exchanging, Calling, Called
<1> QED
  BY <1>1, <1>3, <1>4, <1>5 DEF Serial

LEMMA AdminCreateTokenReadSerial ==
  ASSUME Serial, TypeOK', NEW p \in Procs, AdminCreateTokenRead(p)
  PROVE  Serial'
<1>1. /\ Step = "idle" /\ Step' = "tokenSave" /\ tok'[Request] = fresh /\ fresh' = fresh + 1
      /\ UNCHANGED <<table, peer, history, alive, prev>>
  BY OneSlot, GotoSteps, TokenMade DEF AdminCreateTokenRead, Begin, Serial, Step
<1>2. Shows(cur'[Request]) /\ New(fresh)
  BY ReadShows, FreshIsNew, KeepHolds DEF AdminCreateTokenRead, Serial
<1>3. Reading'
  BY <1>1, <1>2 DEF Reading, Shows, New, table, history, Handlers
<1> QED
  BY <1>1, <1>3, ReadKeeps, LocalTypes DEF Calling, Called, Serial, Issued, Copy, Row

LEMMA HandshakeSnapshotSerial ==
  ASSUME Serial, TypeOK', NEW p \in Procs, HandshakeSnapshot(p)
  PROVE  Serial'
<1>1. /\ Step = "idle" /\ Step' = "pendingRead" /\ tok'[Request] = fresh /\ fresh' = fresh + 1
      /\ UNCHANGED <<table, peer, history, alive>>
  BY OneSlot, GotoSteps, TokenMade DEF HandshakeSnapshot, Begin, Serial, Step
<1>2. Shows(prev'[Request]) /\ New(fresh)
  BY OneSlot, ReadShows, FreshIsNew DEF HandshakeSnapshot, Serial, TypeOK, LocalsOK
<1>3. Reading'
  BY <1>1, <1>2 DEF Reading, Shows, New, table, history, Handlers
<1>4. prev'[Request].row.in < fresh' /\ prev'[Request].row.out < fresh'
  BY <1>1, <1>2, LocalTypes DEF Serial, Issued, Shows, NoCopy, PendingRow, NoToken, Row, TypeOK
<1> QED
  BY <1>1, <1>3, <1>4, ReadKeeps, LocalTypes DEF Calling, Called, Serial

LEMMA UpsertPendingReadSerial ==
  ASSUME Serial, TypeOK', NEW p \in Procs, UpsertPendingRead(p)
  PROVE  Serial'
<1>1. /\ Step = "pendingRead" /\ Step' = "pendingSave"
      /\ UNCHANGED <<table, fresh, peer, history, alive, prev, tok>>
  BY OneSlot, GotoSteps DEF UpsertPendingRead, At, Serial, Step
<1>2. Shows(cur'[Request])
  BY ReadShows, KeepHolds DEF UpsertPendingRead, Serial
<1>3. Reading'
  BY <1>1, <1>2 DEF Serial, Reading, Shows, New, table, history, Handlers
<1> QED
  BY <1>1, <1>3, ReadKeeps, LocalTypes DEF Calling, Called, Serial, Issued

\* The first REGISTERED row is the only row.
LEMMA RegisteredShows ==
  ASSUME TypeOK, SingleRow, NEW copy \in {CopyOf(id) : id \in DOMAIN regs},
         FirstRegistered(copy)
  PROVE  copy.id # 0 /\ Shows(copy) /\ copy.row.status = Registered
<1>1. PICK id \in DOMAIN regs : copy = CopyOf(id)
  OBVIOUS
<1>2. DOMAIN regs = {id} /\ id # 0
  BY LocalTypes DEF SingleRow
<1>3. copy # NoCopy
  BY <1>1, <1>2 DEF CopyOf, NoCopy
<1>4. copy.row.status = Registered
  BY <1>3 DEF FirstRegistered, ReadFirst, IsFirst, RegisteredRows, CopyOf
<1> QED
  BY <1>1, <1>2, <1>4 DEF Shows, CopyOf

LEMMA UpdateCredentialsReadSerial ==
  ASSUME Serial, TypeOK', NEW p \in Procs, UpdateCredentialsRead(p)
  PROVE  Serial'
<1>1. /\ Step = "idle" /\ Step' = "rotateSave" /\ tok'[Request] = fresh /\ fresh' = fresh + 1
      /\ UNCHANGED <<table, peer, history, alive>>
  BY OneSlot, GotoSteps, TokenMade DEF UpdateCredentialsRead, Begin, Serial, Step
<1>2. PICK copy \in {CopyOf(id) : id \in DOMAIN regs} :
        /\ FirstRegistered(copy)
        /\ prev' = [prev EXCEPT ![p] = copy]
        /\ Keep(p, [copy EXCEPT !.row.in = fresh])
  BY DEF UpdateCredentialsRead
<1>3. prev'[Request] = copy /\ cur'[Request] = [copy EXCEPT !.row.in = fresh]
  BY <1>2, OneSlot, KeepHolds DEF Serial, TypeOK, LocalsOK
<1>4. copy.id # 0 /\ Shows(copy) /\ copy.row.status = Registered /\ New(fresh)
  BY <1>2, RegisteredShows, FreshIsNew DEF Serial
<1>5. copy \in Copy /\ Rotated([copy EXCEPT !.row.in = fresh], copy, fresh)
  BY LocalTypes, CopyOfType DEF Serial, Rotated, Copy, Row, TypeOK
<1>6. Reading'
  <2>1. Shows(prev[Request])' /\ New(tok[Request])' /\ Rotated(cur[Request], prev[Request], tok[Request])'
    BY <1>1, <1>3, <1>4, <1>5 DEF Shows, New, table, history, Rotated
  <2> QED
    BY <1>1, <1>3, <1>4, <2>1 DEF Reading, Handlers
<1>7. prev'[Request].row.in < fresh' /\ prev'[Request].row.out < fresh'
  <2>1. copy.id \in DOMAIN regs /\ copy.row = regs[copy.id]
    BY <1>4 DEF Shows, NoCopy
  <2>2. copy.row.in \in Nat /\ copy.row.out \in Nat /\ fresh \in Nat
    BY <2>1, LocalTypes DEF Serial, Row
  <2>3. copy.row.in < fresh /\ copy.row.out < fresh
    BY <2>1 DEF Serial, Issued
  <2> QED
    BY <1>1, <1>3, <2>2, <2>3
<1> QED
  BY <1>1, <1>6, <1>7, ReadKeeps, LocalTypes DEF Calling, Called, Serial

LEMMA DeleteCredentialsReadSerial ==
  ASSUME Serial, TypeOK', NEW p \in Procs, DeleteCredentialsRead(p)
  PROVE  Serial'
<1>1. /\ Step = "idle" /\ Step' = "delete"
      /\ UNCHANGED <<table, fresh, peer, history, alive, prev, tok>>
  BY OneSlot, GotoSteps DEF DeleteCredentialsRead, Begin, Serial, Step
<1>2. PICK copy \in {CopyOf(id) : id \in DOMAIN regs} : FirstRegistered(copy) /\ Keep(p, copy)
  BY DEF DeleteCredentialsRead
<1>3. cur'[Request] = copy /\ copy.id # 0 /\ Shows(copy) /\ copy.row.status = Registered
  BY <1>2, KeepHolds, RegisteredShows DEF Serial
<1>4. Reading'
  BY <1>1, <1>3 DEF Reading, Shows, table, Handlers
<1> QED
  BY <1>1, <1>4, ReadKeeps, LocalTypes DEF Calling, Called, Serial, Issued

LEMMA OCPIAuthSerial ==
  ASSUME Serial, TypeOK', NEW p \in Procs, OCPIAuth(p)
  PROVE  Serial'
<1>1. /\ Step = "idle" /\ Step' \in Handlers
      /\ UNCHANGED <<table, fresh, peer, history, alive, prev, tok>>
  BY OneSlot, GotoSteps DEF OCPIAuth, Begin, Serial, Step
<1>2. PICK id \in DOMAIN regs : cur'[Request] = CopyOf(id)
  BY KeepHolds DEF OCPIAuth, RowsWithToken, Serial
<1>3. cur'[Request].id # 0 /\ Shows(cur'[Request])
  <2>1. DOMAIN regs = {id} /\ id # 0
    BY LocalTypes DEF Serial, SingleRow
  <2> QED
    BY <1>2, <2>1 DEF Shows, CopyOf
<1>4. Reading'
  BY <1>1, <1>3 DEF Reading, Shows, table, Handlers
<1> QED
  BY <1>1, <1>4, ReadKeeps, LocalTypes DEF Calling, Called, Serial, Issued, Handlers

\* A request that returns leaves a table that may stay as it is.
LEMMA ReturnSerial ==
  ASSUME Serial, TypeOK', NEW p \in Procs, Return(p),
         SingleRow', fresh <= fresh', 
         \A i \in DOMAIN regs' :
           Sound(regs[i])' /\ regs'[i].in < fresh' /\ regs'[i].out < fresh',
         peer'.use < fresh' /\ peer'.accept < fresh',
         \A t \in dead' : t # NoToken /\ t < fresh',
         agreed' \subseteq agreed \cup ((Nat \ {0}) \X (Nat \ {0}))
  PROVE  Serial'
<1>1. /\ Step' = "idle" /\ alive'[Request]
      /\ cur'[Request] = NoCopy /\ prev'[Request] = NoCopy
      /\ tok'[Request] = NoToken /\ grant'[Request] = NoToken
  BY ReturnRests DEF Serial
<1>2. Issued'
  <2>1. fresh' \in Nat \ {0}
    BY DEF TypeOK
  <2>2. \A pair \in agreed' : pair[1] # NoToken /\ pair[2] # NoToken
    BY DEF Serial, Issued, NoToken
  <2> QED
    BY <1>1, <2>1, <2>2 DEF Issued, NoCopy, PendingRow, NoToken
<1>3. RowsKept' /\ Reading' /\ Exchanging'
  BY <1>1 DEF RowsKept, Reading, Exchanging, Calling, Called, Handlers
<1> QED
  BY <1>1, <1>2, <1>3 DEF Serial, Lives

\* What a request that changes nothing needs to return.
LEMMA RowsRest ==
  ASSUME Serial, Step \notin Calling \cup Called
  PROVE  \A i \in DOMAIN regs : Sound(regs[i]) /\ regs[i].in < fresh /\ regs[i].out < fresh
  BY DEF Serial, RowsKept, Issued

LEMMA ReturnUnchanged ==
  ASSUME Serial, TypeOK', NEW p \in Procs, Return(p), Step \notin Calling \cup Called,
         UNCHANGED <<table, fresh, history>>,
         peer'.use < fresh /\ peer'.accept < fresh
  PROVE  Serial'
<1>1. SingleRow' /\ fresh <= fresh'
  BY DEF Serial, SingleRow, TypeOK, table
<1>2. \A i \in DOMAIN regs' :
           Sound(regs[i])' /\ regs'[i].in < fresh' /\ regs'[i].out < fresh'
  BY RowsRest DEF Sound, table, history
<1> QED
  BY <1>1, <1>2, ReturnSerial DEF table, history, Serial, Issued

LEMMA RefuseSerial ==
  ASSUME Serial, TypeOK', NEW p \in Procs, Refuse(p) PROVE Serial'
<1>1. Step \notin Calling \cup Called
  BY OneSlot DEF Refuse, Step, Calling, Called
<1> QED
  BY <1>1, ReturnUnchanged DEF Refuse, Serial, Issued

LEMMA ReplySerial ==
  ASSUME Serial, TypeOK', NEW p \in Procs, Reply(p) PROVE Serial'
<1>1. Step = "reply" /\ FirstPair = Given
  BY OneSlot DEF Reply, Step, Serial, Reading
<1>2. Given.use < fresh /\ Given.accept < fresh
  <2>1. \A i \in DOMAIN regs : regs[i].in < fresh /\ regs[i].out < fresh
    BY DEF Serial, Issued
  <2>2. CASE RegisteredRows(regs) = {}
    BY <1>1, <2>2, LocalTypes DEF FirstPair, NoPair, NoToken, Serial, TypeOK
  <2>3. CASE RegisteredRows(regs) # {}
    <3>1. PICK i \in DOMAIN regs : RegisteredRows(regs) = {i}
      BY <2>3 DEF RegisteredRows, Serial, SingleRow
    <3>2. IsFirst(i, {i}) /\ \A j \in {i} : j = i
      BY LocalTypes DEF IsFirst, Serial
    <3>3. FirstPair = PairOf(regs[i])
      BY <3>1, <3>2 DEF FirstPair
    <3>4. regs[i].status = Registered
      BY <3>1 DEF RegisteredRows
    <3> QED
      BY <1>1, <3>3, <3>4, <2>1 DEF PairOf
  <2> QED
    BY <2>2, <2>3
<1>3. peer'.use < fresh /\ peer'.accept < fresh
  BY <1>2, OneSlot DEF Reply, Serial, Issued, Given
<1> QED
  BY <1>1, <1>3, ReturnUnchanged DEF Reply, Calling, Called

-----------------------------------------------------------------------------
(* Writes.  The one row is the request's. *)

\* The row of a copy that is written is the only row.
LEMMA ShownRow ==
  ASSUME NEW copy, copy.id # 0, Shows(copy)
  PROVE  DOMAIN regs = {copy.id} /\ regs[copy.id] = copy.row
<1>1. NoCopy.id = 0
  BY DEF NoCopy
<1> QED
  BY <1>1 DEF Shows

LEMMA WriteShows ==
  ASSUME TypeOK, NEW copy \in Copy, NEW old \in Copy, old.id # 0, Shows(old),
         copy.id = old.id, Write(copy)
  PROVE  DOMAIN regs' = {copy.id} /\ regs'[copy.id] = copy.row /\ nextId' = nextId
<1>1. DOMAIN regs = {copy.id}
  BY ShownRow
<1> QED
  BY <1>1 DEF Write, UpdateRegistration

LEMMA UpsertShows ==
  ASSUME TypeOK, NEW copy \in Copy, NEW old \in Copy, Shows(old), copy.id = old.id, Upsert(copy)
  PROVE  LET id == IF copy.id = 0 THEN nextId ELSE copy.id
         IN  id # 0 /\ DOMAIN regs' = {id} /\ regs'[id] = copy.row
<1>1. CASE copy.id = 0
  <2>1. DOMAIN regs = {} /\ nextId # 0
    BY <1>1, LocalTypes DEF Shows
  <2> QED
    BY <1>1, <2>1 DEF Upsert, CreateRegistration
<1>2. CASE copy.id # 0
  <2>1. DOMAIN regs = {copy.id}
    BY <1>2, ShownRow
  <2> QED
    BY <1>2, <2>1 DEF Upsert, UpdateRegistration
<1> QED
  BY <1>1, <1>2

LEMMA AdminCreateTokenSaveSerial ==
  ASSUME Serial, RegisteredComplete, TypeOK', NEW p \in Procs, AdminCreateTokenSave(p)
  PROVE  Serial'
<1> DEFINE c == cur[Request]
           t == tok[Request]
           copy == [id |-> c.id, row |-> TokenARow(c, t)]
<1>1. p = Request /\ Step = "tokenSave" /\ Shows(c) /\ New(t)
  BY OneSlot DEF AdminCreateTokenSave, At, Step, Serial, Reading
<1>2. c \in Copy /\ c.id \in Nat /\ c.row \in Row /\ t \in Nat
  BY LocalTypes DEF Serial, Copy
<1>3. /\ copy \in Copy /\ copy.id = c.id
      /\ copy.row.in = t /\ copy.row.out = NoToken /\ copy.row.status = Pending
  BY <1>2 DEF TokenARow, Copy, Row, NoToken
<1>4. Upsert(copy)
  BY <1>1 DEF AdminCreateTokenSave
<1>5. PICK id : DOMAIN regs' = {id} /\ regs'[id] = copy.row
  BY <1>1, <1>2, <1>3, <1>4, UpsertShows DEF Serial
<1>6. dead' = dead \cup (IF c.row.status = Registered THEN {c.row.in, c.row.out} ELSE {})
  BY <1>1 DEF AdminCreateTokenSave
<1>7. UNCHANGED <<fresh, peer, agreed>> /\ Return(p)
  BY DEF AdminCreateTokenSave
<1>8. c.row.status = Registered =>
        /\ c.row.in < fresh /\ c.row.out < fresh
        /\ c.row.in # NoToken /\ c.row.out # NoToken
        /\ t \notin {c.row.in, c.row.out}
  <2> SUFFICES ASSUME c.row.status = Registered
               PROVE  /\ c.row.in < fresh /\ c.row.out < fresh
                      /\ c.row.in # NoToken /\ c.row.out # NoToken
                      /\ t \notin {c.row.in, c.row.out}
    OBVIOUS
  <2>1. c.id \in DOMAIN regs /\ c.row = regs[c.id]
    BY <1>1 DEF Shows, NoCopy, PendingRow, Registered, Pending
  <2>2. c.row.in # NoToken /\ c.row.out # NoToken
    BY <2>1 DEF RegisteredComplete
  <2> QED
    BY <1>1, <2>1, <2>2 DEF Serial, Issued, New
<1>9. \A d \in dead' : d # NoToken /\ d < fresh
  BY <1>6, <1>8 DEF Serial, Issued
<1>10. NoToken \notin dead' /\ t \notin dead' /\ t < fresh /\ NoToken < fresh
  BY <1>1, <1>6, <1>8, <1>9 DEF New, Serial, Issued, TypeOK, NoToken
<1> HIDE DEF copy, c, t
<1>11. SingleRow'
  BY <1>5 DEF SingleRow
<1>12. \A i \in DOMAIN regs' : Sound(regs[i])' /\ regs'[i].in < fresh' /\ regs'[i].out < fresh'
  <2>1. \A i \in DOMAIN regs' : regs'[i] = copy.row
    BY <1>5
  <2>2. copy.row.in < fresh' /\ copy.row.out < fresh' /\ {copy.row.in, copy.row.out} \cap dead' = {}
    BY <1>3, <1>7, <1>10
  <2>3. copy.row.status # Registered
    BY <1>3 DEF Pending, Registered
  <2> QED
    BY <2>1, <2>2, <2>3 DEF Sound
<1>13. /\ peer'.use < fresh' /\ peer'.accept < fresh' /\ fresh <= fresh'
       /\ \A d \in dead' : d # NoToken /\ d < fresh'
       /\ agreed' \subseteq agreed
  BY <1>7, <1>9 DEF Serial, Issued, TypeOK
<1> QED
  BY <1>7, <1>11, <1>12, <1>13, ReturnSerial

LEMMA AdminUnregisterSerial ==
  ASSUME Serial, TypeOK', NEW p \in Procs, AdminUnregister(p)
  PROVE  Serial'
<1>1. /\ Step = "idle" /\ DOMAIN regs' = {}
      /\ UNCHANGED <<nextId, fresh, peer, history, locals, Step>>
  BY OneSlot DEF AdminUnregister, Begin, Step, locals, DeleteAllRegistrations
<1> QED
  BY <1>1 DEF Serial, Lives, SingleRow, Issued, RowsKept, Reading, Exchanging, locals,
              history, Calling, Called, Handlers

LEMMA DropSerial ==
  ASSUME Serial, TypeOK', NEW p \in Procs, DeleteCredentialsDrop(p)
  PROVE  Serial'
<1>1. Step = "drop" /\ regs' = DeleteRegistration(regs, cur[Request].id)
  BY OneSlot DEF DeleteCredentialsDrop, At, Step
<1>2. DOMAIN regs' = {}
  <2>1. DOMAIN regs = {cur[Request].id}
    BY <1>1, ShownRow DEF Serial, Reading
  <2> QED
    BY <1>1, <2>1 DEF DeleteRegistration
<1>3. Return(p) /\ UNCHANGED <<fresh, peer, agreed, dead>> /\ fresh \in Nat
  BY DEF DeleteCredentialsDrop, history, Serial, TypeOK
<1>4. /\ peer'.use < fresh' /\ peer'.accept < fresh' /\ fresh <= fresh'
      /\ \A t \in dead' : t # NoToken /\ t < fresh'
  BY <1>3 DEF Serial, Issued
<1> QED
  BY <1>2, <1>3, <1>4, ReturnSerial DEF SingleRow

LEMMA RowCopied ==
  ASSUME Serial, cur[Request].id # 0, Shows(cur[Request])
  PROVE  LET c == cur[Request] IN
         /\ DOMAIN regs = {c.id} /\ c.row = regs[c.id]
         /\ c.id \in Nat /\ c.row \in Row /\ c \in Copy
         /\ c.row.in < fresh /\ c.row.out < fresh
<1>1. DOMAIN regs = {cur[Request].id} /\ cur[Request].row = regs[cur[Request].id]
  BY DEF Shows, NoCopy
<1> QED
  BY <1>1, LocalTypes DEF Serial, Issued, Copy

\* The write that ends an exchange: the row gets the pair both sides have.
LEMMA FinishSerial ==
  ASSUME Serial, TypeOK', NEW p \in Procs, NEW copy \in Copy, Write(copy), Return(p),
         Step \in Called, copy.id = cur[Request].id,
         copy.row.in = tok[Request], copy.row.out = grant[Request],
         UNCHANGED <<fresh, peer, history>>
  PROVE  Serial'
<1> DEFINE c == cur[Request]
<1>1. /\ c.id # 0 /\ Shows(c) /\ c \in Copy
      /\ peer = Given
      /\ <<copy.row.in, copy.row.out>> \in agreed
      /\ {copy.row.in, copy.row.out} \cap dead = {}
  BY LocalTypes DEF Serial, Exchanging
<1>2. copy.row.in < fresh /\ copy.row.out < fresh
  BY <1>1 DEF Serial, Issued, Given
<1>3. DOMAIN regs' = {copy.id} /\ regs'[copy.id] = copy.row
  BY <1>1, WriteShows DEF Serial
<1> HIDE DEF c
<1>4. SingleRow'
  BY <1>3 DEF SingleRow
<1>5. \A i \in DOMAIN regs' : Sound(regs[i])' /\ regs'[i].in < fresh' /\ regs'[i].out < fresh'
  BY <1>1, <1>2, <1>3 DEF Sound, history
<1> QED
  BY <1>4, <1>5, ReturnSerial DEF history, Serial, Issued, TypeOK

LEMMA HandshakeFinishSerial ==
  ASSUME Serial, TypeOK', NEW p \in Procs, HandshakeFinish(p)
  PROVE  Serial'
<1> DEFINE c == cur[Request]
           copy == [c EXCEPT !.row.out = grant[Request], !.row.status = Registered]
<1>1. p = Request /\ Step = "postFinish"
  BY OneSlot DEF HandshakeFinish, At, Step
<1>2. c.row.in = tok[Request] /\ c \in Copy /\ grant[Request] \in Nat
  BY <1>1, LocalTypes DEF Serial, Exchanging, Called
<1>3. /\ copy \in Copy /\ copy.id = c.id
      /\ copy.row.in = tok[Request] /\ copy.row.out = grant[Request]
  BY <1>2, CopyWith DEF Copy, Row
<1> QED
  BY <1>1, <1>3, FinishSerial DEF HandshakeFinish, Called

LEMMA UpdateCredentialsFinishSerial ==
  ASSUME Serial, TypeOK', NEW p \in Procs, UpdateCredentialsFinish(p)
  PROVE  Serial'
<1> DEFINE c == cur[Request]
           copy == [c EXCEPT !.row.out = grant[Request]]
<1>1. p = Request /\ Step = "putFinish"
  BY OneSlot DEF UpdateCredentialsFinish, At, Step
<1>2. c.row.in = tok[Request] /\ c \in Copy /\ grant[Request] \in Nat
  BY <1>1, LocalTypes DEF Serial, Exchanging, Called
<1>3. /\ copy \in Copy /\ copy.id = c.id
      /\ copy.row.in = tok[Request] /\ copy.row.out = grant[Request]
  BY <1>2, CopyWith DEF Copy, Row
<1> QED
  BY <1>1, <1>3, FinishSerial DEF UpdateCredentialsFinish, Called

\* A rollback puts the snapshot back; without one the row stays PENDING.
LEMMA RollbackSerial ==
  ASSUME Serial, TypeOK', NEW p \in Procs, Rollback(p)
  PROVE  Serial'
<1> DEFINE c == cur[Request]
           b == prev[Request]
<1>1. p = Request /\ Step = "rollback" /\ Write(b)
  BY OneSlot DEF Rollback, At, Step
<1>2. /\ c.id # 0 /\ Shows(c) /\ c \in Copy /\ b \in Copy
      /\ \/ b = NoCopy /\ c.row.status = Pending
         \/ b.id = c.id /\ Sound(b.row)
  BY <1>1, LocalTypes DEF Serial, Exchanging, Calling
<1>3. DOMAIN regs = {c.id} /\ regs[c.id] = c.row
  BY <1>2 DEF Shows, NoCopy
<1>4. SingleRow'
  BY <1>1, <1>3 DEF Write, UpdateRegistration, SingleRow
<1>5. \A i \in DOMAIN regs : {regs[i].in, regs[i].out} \cap dead = {}
  BY <1>1 DEF Serial, RowsKept, Calling
<1>6. \A i \in DOMAIN regs' : Sound(regs[i])' /\ regs'[i].in < fresh' /\ regs'[i].out < fresh'
  <2>1. CASE b = NoCopy /\ c.row.status = Pending
    <3>1. regs' = regs
      BY <1>1, <1>2, <1>3, <2>1 DEF Write, UpdateRegistration, NoCopy, Serial, TypeOK, TableOK
    <3>2. \A i \in DOMAIN regs : regs[i].status = Pending
      BY <1>3, <2>1
    <3> QED
      BY <1>5, <3>1, <3>2 DEF Rollback, Sound, Serial, Issued, history, Pending, Registered
  <2>2. CASE b.id = c.id /\ Sound(b.row)
    <3>1. DOMAIN regs' = {b.id} /\ regs'[b.id] = b.row
      BY <1>1, <1>2, <2>2, WriteShows DEF Serial
    <3> QED
      BY <2>2, <3>1 DEF Rollback, Sound, Serial, Issued, history
  <2> QED
    BY <1>2, <2>1, <2>2
<1>7. Return(p) /\ UNCHANGED <<fresh, peer, agreed, dead>> /\ fresh \in Nat
  BY DEF Rollback, history, Serial, TypeOK
<1>8. /\ peer'.use < fresh' /\ peer'.accept < fresh' /\ fresh <= fresh'
      /\ \A t \in dead' : t # NoToken /\ t < fresh'
  BY <1>7 DEF Serial, Issued
<1> QED
  BY <1>4, <1>6, <1>7, <1>8, ReturnSerial

-----------------------------------------------------------------------------
(* The exchange we start. *)

\* The write that makes the new inbound token live.
LEMMA SaveSerial ==
  ASSUME Serial, TypeOK', NEW copy \in Copy,
         Step \in {"pendingSave", "rotateSave"}, Step' \in {"post", "put"},
         copy.id # 0, DOMAIN regs' = {copy.id}, regs'[copy.id] = copy.row,
         cur'[Request] = copy,
         copy.row.in = tok[Request], copy.row.out = cur[Request].row.out,
         \/ prev[Request] = NoCopy /\ copy.row.status = Pending
         \/ prev[Request].id = copy.id,
         Step' = "put" => /\ prev[Request].row.status = Registered
                          /\ Rotated(copy, prev[Request], tok[Request]),
         UNCHANGED <<fresh, peer, history, alive, prev, tok>>
  PROVE  Serial'
<1> DEFINE c == cur[Request]
           b == prev[Request]
           t == tok[Request]
<1>1. Shows(b) /\ New(t)
  BY DEF Serial, Reading
<1>2. Step \notin Calling \cup Called /\ Step' \in Calling \ Called
  BY DEF Calling, Called
<1>3. 0 \notin dead /\ fresh > 0 /\ fresh \in Nat
  BY DEF Serial, Issued, NoToken, TypeOK
<1>4. c.row.out \notin dead /\ c.row.out < fresh
  <2>1. CASE Step = "pendingSave"
    <3>1. Shows(c)
      BY <2>1 DEF Serial, Reading
    <3>2. CASE c = NoCopy
      BY <1>3, <3>2 DEF NoCopy, PendingRow, NoToken
    <3>3. CASE c # NoCopy
      BY <1>2, <3>1, <3>3, RowsRest DEF Shows, Sound
    <3> QED
      BY <3>2, <3>3
  <2>2. CASE Step = "rotateSave"
    <3>1. c.row.out = b.row.out /\ b.id # 0
      BY <2>2 DEF Serial, Reading, Rotated
    <3>2. b.id \in DOMAIN regs /\ regs[b.id] = b.row
      BY <1>1, <3>1, ShownRow
    <3> QED
      BY <1>2, <3>1, <3>2, RowsRest DEF Sound
  <2> QED
    BY <2>1, <2>2
<1>5. t \notin dead \cup {NoToken, peer.use, b.row.in} /\ t < fresh
  <2>1. CASE b = NoCopy
    BY <1>1, <2>1 DEF New, NoCopy, PendingRow, Serial, Issued
  <2>2. CASE b # NoCopy
    BY <1>1, <2>2 DEF New, Shows, Serial, Issued
  <2> QED
    BY <2>1, <2>2
<1>6. \/ b = NoCopy /\ copy.row.status = Pending
      \/ b.id = copy.id /\ Sound(b.row)
  <2>1. CASE b.id = copy.id
    <3>1. b.id \in DOMAIN regs /\ regs[b.id] = b.row
      BY <1>1, <2>1, ShownRow
    <3> QED
      BY <1>2, <2>1, <3>1, RowsRest
  <2> QED
    BY <2>1
<1>7. SingleRow' /\ Lives'
  BY DEF SingleRow, Serial, Lives
<1>8. Issued'
  BY <1>4, <1>5 DEF Serial, Issued, history
<1>9. RowsKept'
  BY <1>2, <1>4, <1>5 DEF RowsKept, history
<1>10. Reading'
  BY DEF Reading, Handlers
<1>11. Exchanging'
  <2>1. Shows(cur[Request])'
    BY DEF Shows
  <2>2. Sound(b.row) => Sound(prev[Request].row)'
    BY DEF Sound, history
  <2>3. (Step = "put" => Rotated(cur[Request], prev[Request], tok[Request]))'
    BY DEF Rotated
  <2> QED
    BY <1>2, <1>5, <1>6, <2>1, <2>2, <2>3 DEF Exchanging, history, Calling, Called
<1> QED
  BY <1>7, <1>8, <1>9, <1>10, <1>11 DEF Serial

LEMMA UpsertPendingSaveSerial ==
  ASSUME Serial, TypeOK', NEW p \in Procs, UpsertPendingSave(p)
  PROVE  Serial'
<1> DEFINE c == cur[Request]
           b == prev[Request]
           t == tok[Request]
<1>1. p = Request /\ Step = "pendingSave" /\ Step' = "post"
  BY OneSlot, GotoSteps DEF UpsertPendingSave, At, Step, Serial
<1>2. Shows(c) /\ Shows(b) /\ c \in Copy /\ t \in Nat
  BY <1>1, LocalTypes DEF Serial, Reading
<1>3. PICK row :
        /\ \E creds \in BOOLEAN :
             row = [c.row EXCEPT !.in = t, !.status = Pending, !.creds = creds]
        /\ Upsert([id |-> c.id, row |-> row])
        /\ Keep(p, [id |-> IF c.id = 0 THEN nextId ELSE c.id, row |-> row])
  BY <1>1 DEF UpsertPendingSave
<1>4. row \in Row /\ row.in = t /\ row.out = c.row.out /\ row.status = Pending
  BY <1>2, <1>3 DEF Copy, Row
<1> DEFINE old == [id |-> c.id, row |-> row]
           new == [id |-> IF c.id = 0 THEN nextId ELSE c.id, row |-> row]
<1>5. old \in Copy /\ new \in Copy /\ old.id = c.id /\ old.row = row /\ new.row = row
  BY <1>2, <1>4, LocalTypes DEF Copy, Serial
<1>6. new.id # 0 /\ DOMAIN regs' = {new.id} /\ regs'[new.id] = new.row
  <2>1. Upsert(old)
    BY <1>3
  <2>2. new.id = IF old.id = 0 THEN nextId ELSE old.id
    OBVIOUS
  <2> HIDE DEF old, new, c
  <2> QED
    BY <1>2, <1>5, <2>1, <2>2, UpsertShows DEF Serial
<1>7. cur'[Request] = new
  BY <1>3, KeepHolds DEF Serial
<1>8. b = NoCopy \/ b.id = new.id
  <2>1. CASE b # NoCopy
    <3>1. DOMAIN regs = {b.id}
      BY <1>2, <2>1 DEF Shows
    <3>2. DOMAIN regs # {}
      BY <3>1
    <3>3. DOMAIN regs = {c.id} /\ c.id # 0
      BY <1>2, <3>2 DEF Shows
    <3>4. c.id = b.id /\ c.id # 0
      BY <3>1, <3>3
    <3> QED
      BY <3>4
  <2> QED
    BY <2>1
<1>9. UNCHANGED <<fresh, peer, history, alive, prev, tok>>
  BY DEF UpsertPendingSave, Goto
<1> HIDE DEF new, c, b, t
<1>10. new.row.in = tok[Request] /\ new.row.out = cur[Request].row.out
       /\ new.row.status = Pending
  BY <1>4, <1>5 DEF c, t
<1> QED
  BY <1>1, <1>5, <1>6, <1>7, <1>8, <1>9, <1>10, SaveSerial DEF b

LEMMA UpdateCredentialsSaveSerial ==
  ASSUME Serial, TypeOK', NEW p \in Procs, UpdateCredentialsSave(p)
  PROVE  Serial'
<1> DEFINE c == cur[Request]
           b == prev[Request]
<1>1. p = Request /\ Step = "rotateSave" /\ Step' = "put"
  BY OneSlot, GotoSteps DEF UpdateCredentialsSave, At, Step, Serial
<1>2. c \in Copy /\ b \in Copy /\ Shows(b) /\ b.id # 0 /\ b.row.status = Registered
      /\ Rotated(c, b, tok[Request])
  BY <1>1, LocalTypes DEF Serial, Reading
<1>3. DOMAIN regs' = {c.id} /\ regs'[c.id] = c.row
  BY <1>1, <1>2, WriteShows DEF UpdateCredentialsSave, Serial, Rotated
<1>4. UNCHANGED <<fresh, peer, history, alive, prev, tok, cur>>
  BY DEF UpdateCredentialsSave, Goto
<1> QED
  BY <1>1, <1>2, <1>3, <1>4, SaveSerial DEF Rotated

LEMMA CallEvoltSerial ==
  ASSUME Serial, TypeOK', NEW p \in Procs, CallEvolt(p)
  PROVE  Serial'
<1> DEFINE c == cur[Request]
           b == prev[Request]
           t == tok[Request]
<1>1. p = Request /\ Step \in {"post", "put"}
      /\ UNCHANGED <<table, started, cur, prev, tok>> /\ UNCHANGED dead
  BY OneSlot DEF CallEvolt, Step, EvoltExchanges, history
<1>2. /\ c.id # 0 /\ Shows(c) /\ c.row.in = t
      /\ t \notin dead \cup {NoToken, peer.use, b.row.in}
      /\ \/ b = NoCopy /\ c.row.status = Pending
         \/ b.id = c.id /\ Sound(b.row)
      /\ Step = "put" => c.row.status = Registered
  BY <1>1 DEF Serial, Exchanging, Rotated, Calling
<1>3. fresh \in Nat \ {0} /\ t \in Nat /\ t < fresh /\ fresh \notin dead
  BY LocalTypes DEF Serial, TypeOK, Issued
<1>4. /\ Step' \in Called \cup {"rollback"} /\ Lives'
      /\ \/ UNCHANGED <<fresh, peer, agreed>> /\ Step' = "rollback"
         \/ /\ fresh' = fresh + 1
            /\ peer' = [use |-> t, accept |-> fresh]
            /\ agreed' = agreed \cup {<<t, fresh>>}
            /\ Step' \in Called => grant'[Request] = fresh
            /\ Step' = "putFinish" => Step = "put"
  BY <1>1, OneSlot, GotoSteps
     DEF CallEvolt, Serial, Lives, TypeOK, LocalsOK, Called, EvoltExchanges, history, Step
<1>5. SingleRow'
  BY <1>1 DEF Serial, SingleRow, table
<1>6. Issued'
  <2>1. /\ peer'.use < fresh' /\ peer'.accept < fresh' /\ fresh <= fresh' /\ fresh' \in Nat
        /\ \A pair \in agreed' : pair[1] # NoToken /\ pair[2] # NoToken
    BY <1>2, <1>3, <1>4 DEF Serial, Issued, NoToken
  <2>2. /\ \A i \in DOMAIN regs : regs[i].in \in Nat /\ regs[i].out \in Nat
        /\ dead \subseteq Nat /\ b.row.in \in Nat /\ b.row.out \in Nat
    BY LocalTypes DEF Serial, TypeOK, Row, Copy
  <2>3. \A i \in DOMAIN regs' : regs'[i].in < fresh' /\ regs'[i].out < fresh'
    BY <1>1, <1>3, <2>1, <2>2 DEF Serial, Issued, table
  <2>4. \A d \in dead' : d # NoToken /\ d < fresh'
    <3>1. dead' = dead /\ fresh \in Nat /\ fresh' \in Nat /\ fresh <= fresh'
      BY <1>1, <1>3, <2>1
    <3>2. \A d \in dead : d # NoToken /\ d \in Nat /\ d < fresh
      BY <2>2 DEF Serial, Issued
    <3> QED
      BY <3>1, <3>2
  <2>5. tok'[Request] < fresh' /\ prev'[Request].row.in < fresh'
        /\ prev'[Request].row.out < fresh'
    BY <1>1, <1>3, <2>1, <2>2 DEF Serial, Issued
  <2> QED
    BY <2>1, <2>3, <2>4, <2>5 DEF Issued
<1>7. RowsKept'
  BY <1>1, <1>4 DEF Serial, RowsKept, Calling, Called, table
<1>8. Reading'
  BY <1>4 DEF Reading, Called, Handlers
<1>9. Exchanging'
  <2>1. Shows(cur[Request])' /\ cur'[Request] = c /\ prev'[Request] = b /\ tok'[Request] = t
    BY <1>1, <1>2 DEF Shows, table
  <2>2. Sound(b.row) => Sound(prev[Request].row)'
    BY <1>1, <1>4 DEF Sound
  <2>3. CASE Step' = "rollback"
    BY <1>2, <2>1, <2>2, <2>3 DEF Exchanging, Calling, Called
  <2>4. CASE Step' \in Called
    <3>1. peer' = Given' /\ <<t, fresh>> \in agreed' /\ {t, fresh} \cap dead' = {}
          /\ grant'[Request] = fresh
      BY <1>1, <1>2, <1>3, <1>4, <2>1, <2>4 DEF Given, Called
    <3> QED
      BY <1>2, <1>4, <2>1, <2>4, <3>1 DEF Exchanging, Calling, Called
  <2> QED
    BY <1>4, <2>3, <2>4
<1> QED
  BY <1>4, <1>5, <1>6, <1>7, <1>8, <1>9 DEF Serial

LEMMA CallEvoltDeleteSerial ==
  ASSUME Serial, TypeOK', NEW p \in Procs, CallEvoltDelete(p)
  PROVE  Serial'
<1>1. p = Request /\ Step = "delete" /\ UNCHANGED <<table, fresh, history>>
  BY OneSlot DEF CallEvoltDelete, Step
<1>2. Step \notin Calling \cup Called
  BY <1>1 DEF Calling, Called
<1>3. peer' \in {peer, NoPair} /\ NoPair.use = 0 /\ NoPair.accept = 0
  BY DEF CallEvoltDelete, NoPair, NoToken
<1>4. fresh > 0 /\ peer'.use < fresh /\ peer'.accept < fresh
  BY <1>3 DEF Serial, Issued, TypeOK
<1>5. CASE Return(p)
  BY <1>1, <1>2, <1>4, <1>5, ReturnUnchanged
<1>6. CASE peer' = NoPair /\ Goto(p, "drop") /\ UNCHANGED <<cur, prev, tok, grant>>
  <2>1. Step' = "drop" /\ UNCHANGED alive
    BY <1>6, GotoSteps DEF Serial
  <2>2. SingleRow' /\ Issued' /\ Lives'
    BY <1>1, <1>4, <1>6, <2>1 DEF Serial, Lives, SingleRow, Issued, table, history
  <2>3. RowsKept'
    BY <1>1, <1>2, <2>1 DEF Serial, RowsKept, Sound, Calling, Called, table, history
  <2>4. Reading' /\ Exchanging'
    BY <1>1, <1>6, <2>1 DEF Serial, Reading, Exchanging, Shows, Calling, Called, Handlers, table
  <2> QED
    BY <2>1, <2>2, <2>3, <2>4 DEF Serial
<1> QED
  BY <1>5, <1>6 DEF CallEvoltDelete

-----------------------------------------------------------------------------
(* The exchange Evolt starts. *)

\* What FirstPair says of a table with one row, and of one with none.
LEMMA OneRowPair ==
  ASSUME NEW tab, NEW id \in Nat, DOMAIN tab = {id}
  PROVE  LET ids == RegisteredRows(tab)
         IN  (IF ids = {} THEN NoPair
              ELSE PairOf(tab[CHOOSE i \in ids : IsFirst(i, ids)])) = PairOf(tab[id])
<1>1. CASE tab[id].status = Registered
  <2>1. RegisteredRows(tab) = {id} /\ IsFirst(id, {id})
    BY <1>1 DEF RegisteredRows, IsFirst
  <2>2. (CHOOSE i \in {id} : IsFirst(i, {id})) = id
    BY <2>1
  <2> QED
    BY <2>1, <2>2
<1>2. CASE tab[id].status # Registered
  BY <1>2 DEF RegisteredRows, PairOf
<1> QED
  BY <1>1, <1>2

LEMMA NoRowPair ==
  ASSUME NEW tab, DOMAIN tab = {}
  PROVE  LET ids == RegisteredRows(tab)
         IN  (IF ids = {} THEN NoPair
              ELSE PairOf(tab[CHOOSE i \in ids : IsFirst(i, ids)])) = NoPair
  BY DEF RegisteredRows

\* A handler's copy of the row is the table.
LEMMA HandlerHolds ==
  ASSUME Serial, Step \in Handlers
  PROVE  LET c == cur[Request] IN
         /\ Step \notin Calling \cup Called
         /\ c.id # 0 /\ c.id \in Nat /\ c.row \in Row /\ c \in Copy /\ Shows(c)
         /\ DOMAIN regs = {c.id} /\ regs[c.id] = c.row /\ Sound(c.row)
         /\ c.row.in < fresh /\ c.row.out < fresh
<1>1. Step \notin Calling \cup Called
  BY DEF Handlers, Calling, Called
<1>2. cur[Request].id # 0 /\ Shows(cur[Request])
  BY DEF Serial, Reading
<1> QED
  BY <1>1, <1>2, RowCopied, RowsRest

\* Token C and the token of the body replace both tokens of the row.
LEMMA TakeShows ==
  ASSUME Serial, Step \in Handlers, NEW row \in Row, TakeCredentials(Request, row)
  PROVE  LET id == cur[Request].id IN
         /\ DOMAIN regs' = {id} /\ fresh' = fresh + 2 /\ fresh \in Nat \ {0}
         /\ regs'[id].in = fresh /\ regs'[id].out = fresh + 1
         /\ regs'[id].status = row.status
         /\ \A d \in dead : d # NoToken /\ d < fresh /\ d \in Nat
<1> DEFINE c == cur[Request]
           copy == [id |-> c.id, row |-> [row EXCEPT !.in = fresh, !.out = fresh + 1]]
<1>1. c.id # 0 /\ c.id \in Nat /\ c \in Copy /\ Shows(c) /\ fresh \in Nat \ {0}
  BY HandlerHolds DEF Serial, TypeOK
<1>2. copy \in Copy /\ copy.id = c.id /\ copy.row.in = fresh /\ copy.row.out = fresh + 1
      /\ copy.row.status = row.status
  <2> DEFINE new == [row EXCEPT !.in = fresh, !.out = fresh + 1]
  <2>0. fresh \in Nat /\ fresh + 1 \in Nat
    BY <1>1
  <2>1. new \in Row
    BY <2>0, RowWith
  <2>2. new.in = fresh /\ new.out = fresh + 1 /\ new.status = row.status
    BY DEF Row
  <2> QED
    BY <1>1, <2>1, <2>2 DEF Copy
<1>3. Write(copy) /\ fresh' = fresh + 2
  BY DEF TakeCredentials
<1>4. DOMAIN regs' = {c.id} /\ regs'[c.id] = copy.row
  <2> HIDE DEF copy, c
  <2> QED
    BY <1>1, <1>2, <1>3, WriteShows DEF Serial
<1> QED
  BY <1>1, <1>2, <1>3, <1>4 DEF Serial, Issued, TypeOK

\* The answer goes out and Evolt has not read it yet.
LEMMA AnswerSerial ==
  ASSUME Serial, TypeOK', Step \in Handlers, NEW token \in Nat, NEW given \in Nat,
         Answer(Request, token, given), SingleRow', fresh <= fresh', token < fresh',
         \A i \in DOMAIN regs' :
           Sound(regs[i])' /\ regs'[i].in < fresh' /\ regs'[i].out < fresh',
         agreed' \subseteq agreed \cup ((Nat \ {0}) \X (Nat \ {0})),
         FirstPair' = [use |-> token, accept |-> given],
         UNCHANGED <<peer, dead>>
  PROVE  Serial'
<1>1. /\ Step' = "reply" /\ UNCHANGED <<alive, cur, prev>>
      /\ tok'[Request] = token /\ grant'[Request] = given
  BY OneSlot, GotoSteps DEF Answer, Serial, TypeOK, LocalsOK, Goto
<1>2. Issued'
  <2>1. /\ \A i \in DOMAIN regs : regs[i].in \in Nat /\ regs[i].out \in Nat
        /\ dead \subseteq Nat /\ peer.use \in Nat /\ peer.accept \in Nat
        /\ prev[Request].row.in \in Nat /\ prev[Request].row.out \in Nat
        /\ fresh \in Nat /\ fresh' \in Nat
    BY LocalTypes DEF Serial, TypeOK, Row, Copy, Pair
  <2>2. \A pair \in agreed' : pair[1] # NoToken /\ pair[2] # NoToken
    BY DEF Serial, Issued, NoToken
  <2>3. \A t \in dead' : t # NoToken /\ t < fresh'
    BY <2>1 DEF Serial, Issued
  <2>4. /\ peer'.use < fresh' /\ peer'.accept < fresh'
        /\ prev'[Request].row.in < fresh' /\ prev'[Request].row.out < fresh'
    BY <1>1, <2>1 DEF Serial, Issued
  <2> QED
    BY <1>1, <2>2, <2>3, <2>4 DEF Issued
<1>3. RowsKept' /\ Exchanging'
  BY <1>1 DEF RowsKept, Exchanging, Calling, Called
<1>4. Reading'
  BY <1>1 DEF Reading, Handlers, Given
<1> QED
  BY <1>1, <1>2, <1>3, <1>4 DEF Serial, Lives

LEMMA PostCredentialsSerial ==
  ASSUME Serial, TypeOK', NEW p \in Procs, PostCredentials(p)
  PROVE  Serial'
<1> DEFINE c == cur[Request]
<1>1. p = Request /\ Step \in Handlers
  BY OneSlot DEF PostCredentials, At, Step, Handlers
<1>2. PICK creds \in BOOLEAN :
        TakeCredentials(p, [c.row EXCEPT !.status = Registered, !.creds = creds])
  BY <1>1 DEF PostCredentials
<1> DEFINE row == [c.row EXCEPT !.status = Registered, !.creds = creds]
<1>3. row \in Row /\ row.status = Registered
  BY <1>1, HandlerHolds, RowWith DEF Row
<1>4. TakeCredentials(Request, row)
  BY <1>1, <1>2
<1> HIDE DEF row
<1>5. /\ DOMAIN regs' = {c.id} /\ fresh' = fresh + 2 /\ fresh \in Nat \ {0}
      /\ regs'[c.id].in = fresh /\ regs'[c.id].out = fresh + 1
      /\ regs'[c.id].status = Registered
      /\ \A d \in dead : d # NoToken /\ d < fresh /\ d \in Nat
  BY <1>1, <1>3, <1>4, TakeShows
<1>6. /\ Answer(Request, fresh, fresh + 1) /\ UNCHANGED <<peer, dead>>
      /\ agreed' = agreed \cup {<<fresh, fresh + 1>>}
  BY <1>1 DEF PostCredentials
<1>7. SingleRow' /\ c.id \in Nat
  BY <1>1, <1>5, HandlerHolds DEF SingleRow
<1>8. \A i \in DOMAIN regs' :
        Sound(regs[i])' /\ regs'[i].in < fresh' /\ regs'[i].out < fresh'
  BY <1>5, <1>6 DEF Sound
<1>9. FirstPair' = [use |-> fresh, accept |-> fresh + 1]
  <2>1. FirstPair' = PairOf(regs'[c.id])
    BY <1>5, <1>7, OneRowPair DEF FirstPair
  <2> QED
    BY <1>5, <2>1 DEF PairOf
<1> QED
  BY <1>1, <1>5, <1>6, <1>7, <1>8, <1>9, AnswerSerial

LEMMA PutCredentialsSerial ==
  ASSUME Serial, TypeOK', NEW p \in Procs, PutCredentials(p)
  PROVE  Serial'
<1> DEFINE c == cur[Request]
<1>1. p = Request /\ Step \in Handlers
  BY OneSlot DEF PutCredentials, At, Step, Handlers
<1>2. c.row \in Row /\ TakeCredentials(Request, c.row)
  BY <1>1, HandlerHolds DEF PutCredentials
<1>3. /\ DOMAIN regs' = {c.id} /\ fresh' = fresh + 2 /\ fresh \in Nat \ {0}
      /\ regs'[c.id].in = fresh /\ regs'[c.id].out = fresh + 1
      /\ regs'[c.id].status = c.row.status
      /\ \A d \in dead : d # NoToken /\ d < fresh /\ d \in Nat
  BY <1>1, <1>2, TakeShows
<1>4. UNCHANGED <<peer, dead>>
  BY DEF PutCredentials
<1>5. SingleRow' /\ c.id \in Nat
  BY <1>1, <1>3, HandlerHolds DEF SingleRow
<1>6. CASE Answered405(p)
  <2>1. Return(p) /\ UNCHANGED agreed /\ c.row.status # Registered
    BY <1>1, <1>6 DEF PutCredentials, Answered405
  <2>2. \A i \in DOMAIN regs' :
          Sound(regs[i])' /\ regs'[i].in < fresh' /\ regs'[i].out < fresh'
    BY <1>3, <1>4, <2>1 DEF Sound
  <2>3. /\ peer'.use < fresh' /\ peer'.accept < fresh' /\ fresh <= fresh'
        /\ \A t \in dead' : t # NoToken /\ t < fresh'
    BY <1>3, <1>4 DEF Serial, Issued, TypeOK, Pair
  <2> QED
    BY <1>5, <2>1, <2>2, <2>3, ReturnSerial
<1>7. CASE ~Answered405(p)
  <2>1. /\ Answer(Request, fresh, fresh + 1)
        /\ agreed' = agreed \cup {<<fresh, fresh + 1>>} /\ c.row.status = Registered
    BY <1>1, <1>7 DEF PutCredentials, Answered405
  <2>2. \A i \in DOMAIN regs' :
          Sound(regs[i])' /\ regs'[i].in < fresh' /\ regs'[i].out < fresh'
    BY <1>3, <1>4, <2>1 DEF Sound
  <2>3. FirstPair' = [use |-> fresh, accept |-> fresh + 1]
    <3>1. FirstPair' = PairOf(regs'[c.id])
      BY <1>3, <1>5, OneRowPair DEF FirstPair
    <3> QED
      BY <1>3, <2>1, <3>1 DEF PairOf
  <2> QED
    BY <1>1, <1>3, <1>4, <1>5, <2>1, <2>2, <2>3, AnswerSerial
<1> QED
  BY <1>6, <1>7

LEMMA DeleteCredentialsSerial ==
  ASSUME Serial, TypeOK', NEW p \in Procs, DeleteCredentials(p)
  PROVE  Serial'
<1>1. p = Request /\ Step \in Handlers
  BY OneSlot DEF DeleteCredentials, At, Step, Handlers
<1>2. DOMAIN regs' = {}
  BY <1>1, HandlerHolds DEF DeleteCredentials, DeleteRegistration
<1>3. SingleRow' /\ UNCHANGED <<fresh, peer, agreed, dead>> /\ fresh \in Nat \ {0}
  BY <1>2 DEF SingleRow, DeleteCredentials, history, Serial, TypeOK
<1>4. CASE Answered405(p)
  <2>1. Return(p)
    BY <1>4 DEF DeleteCredentials
  <2>2. /\ peer'.use < fresh' /\ peer'.accept < fresh' /\ fresh <= fresh'
        /\ \A t \in dead' : t # NoToken /\ t < fresh'
    BY <1>3 DEF Serial, Issued
  <2> QED
    BY <1>2, <1>3, <2>1, <2>2, ReturnSerial
<1>5. CASE ~Answered405(p)
  <2>1. Answer(Request, NoToken, NoToken) /\ NoToken \in Nat /\ NoToken < fresh'
    BY <1>1, <1>3, <1>5 DEF DeleteCredentials, NoToken
  <2>2. FirstPair' = [use |-> NoToken, accept |-> NoToken]
    BY <1>2, NoRowPair DEF FirstPair, NoPair
  <2> QED
    BY <1>1, <1>2, <1>3, <2>1, <2>2, AnswerSerial
<1> QED
  BY <1>4, <1>5

-----------------------------------------------------------------------------
(* Failure. *)

\* A hang-up stops nothing by itself.
LEMMA CancelSerial ==
  ASSUME Serial, TypeOK', NEW p \in Procs, Cancel(p) PROVE Serial'
<1>1. UNCHANGED <<table, fresh, peer, history, started, pc, cur, prev, tok, grant>> /\ MayCancel
  BY DEF Cancel
<1> QED
  BY <1>1
     DEF table, history, Serial, Lives, SingleRow, Issued, RowsKept, Sound,
         Reading, Exchanging, Shows, New, Rotated, Step, FirstPair, Given

\* A request that is cut off leaves its row as it is, with tokens that live.
LEMMA AbortSerial ==
  ASSUME Serial, TypeOK', NEW p \in Procs, Abort(p) PROVE Serial'
<1>1. MayCancel /\ Return(p) /\ UNCHANGED <<table, fresh, peer, history>>
  BY OneSlot DEF Abort, Serial, Lives
<1>2. SingleRow' /\ fresh <= fresh'
  BY <1>1 DEF Serial, SingleRow, TypeOK, table
<1>3. \A i \in DOMAIN regs : {regs[i].in, regs[i].out} \cap dead = {}
  BY DEF Serial, RowsKept, Sound
<1>4. \A i \in DOMAIN regs' :
        Sound(regs[i])' /\ regs'[i].in < fresh' /\ regs'[i].out < fresh'
  BY <1>1, <1>3 DEF Sound, Serial, Issued, table, history
<1> QED
  BY <1>1, <1>2, <1>4, ReturnSerial DEF history, Serial, Issued

-----------------------------------------------------------------------------
(* Serial is inductive. *)

LEMMA InitSerial == Init => Serial
<1> SUFFICES ASSUME Init PROVE Serial
  OBVIOUS
<1>1. TypeOK
  BY InitType
<1>2. /\ DOMAIN regs = {} /\ Step = "idle" /\ alive[Request]
      /\ tok[Request] = NoToken /\ prev[Request] = NoCopy
  BY OneSlot DEF Init, DeleteAllRegistrations, Step
<1>3. SingleRow /\ RowsKept /\ Reading /\ Exchanging
  BY <1>2 DEF SingleRow, RowsKept, Reading, Exchanging, Calling, Called, Handlers
<1>4. Issued
  BY <1>2 DEF Issued, Init, NoCopy, PendingRow, NoPair, NoToken
<1> QED
  BY <1>1, <1>2, <1>3, <1>4 DEF Serial, Lives

LEMMA NextSerial ==
  ASSUME Serial, RegisteredComplete, [Next]_vars
  PROVE  Serial'
<1>1. TypeOK'
  BY NextType DEF Serial
<1>2. ASSUME UNCHANGED vars PROVE Serial'
  BY <1>1, <1>2
     DEF vars, table, locals, history, Serial, Lives, SingleRow, Issued, RowsKept, Sound,
         Reading, Exchanging, Shows, New, Rotated, Step, FirstPair, Given
<1>3. CASE Done
  BY <1>2, <1>3 DEF Done
<1> QED
  BY <1>1, <1>2, <1>3, CancelSerial, AbortSerial, AdminCreateTokenReadSerial, AdminCreateTokenSaveSerial,
     AdminUnregisterSerial, HandshakeSnapshotSerial, UpsertPendingReadSerial,
     UpsertPendingSaveSerial, HandshakeFinishSerial, UpdateCredentialsReadSerial,
     UpdateCredentialsSaveSerial, UpdateCredentialsFinishSerial, RollbackSerial,
     DeleteCredentialsReadSerial, DropSerial, CallEvoltSerial, CallEvoltDeleteSerial,
     OCPIAuthSerial, RefuseSerial, PostCredentialsSerial, PutCredentialsSerial,
     DeleteCredentialsSerial, ReplySerial
     DEF Next

LEMMA SerialAlways == PairingSpec => []Serial
<1>1. PairingInit => Serial /\ Init
  BY InitSerial DEF PairingInit
<1>2. [PairingNext]_<<vars, losses>> => [Next]_vars
  BY DEF PairingNext
<1>3. Serial /\ RegisteredComplete /\ [Next]_vars => Serial'
  BY NextSerial
<1> QED
  BY <1>1, <1>2, <1>3, RegisteredCompleteAlways, PTL DEF PairingSpec, Spec

\* Whatever replies are lost and wherever callers hang up, the tokens of a
\* REGISTERED row that a new token A replaced are never in the table again: no
\* copy outlives the write that follows it, and what a rollback restores was
\* still in the table when this very request read it.
THEOREM TokensDieSerially == PairingSpec => []TokensDie
<1>1. Serial => TokensDie
  BY DEF Serial, RowsKept, Sound, TokensDie
<1> QED
  BY <1>1, SerialAlways, PTL

\* When the request has returned and its caller stayed, a REGISTERED row holds
\* the two tokens of one exchange: never one of one and one of another.
THEOREM WholePairSerially ==
  ASSUME ~MayCancel
  PROVE  PairingSpec => []WholePair
<1>1. Serial => WholePair
  BY OneSlot DEF Serial, RowsKept, Sound, WholePair, Step, Calling, Called, RegisteredRows
<1> QED
  BY <1>1, SerialAlways, PTL

\* There is never more than one row: an INSERT follows a read that found none.
THEOREM SingleRowSerially == PairingSpec => []SingleRow
<1>1. Serial => SingleRow
  BY DEF Serial
<1> QED
  BY <1>1, SerialAlways, PTL

\* While Evolt has our call, the token in its body authenticates the callback.
THEOREM CallbackAuthenticatesSerially == PairingSpec => []CallbackAuthenticates
<1>1. Serial => CallbackAuthenticates
  <2> SUFFICES ASSUME Serial, NEW p \in Procs, pc[p] \in {"post", "put"}
               PROVE  RowsWithToken(regs, tok[p]) # {}
    BY DEF CallbackAuthenticates
  <2>1. p = Request
    BY OneSlot
  <2>2. LET c == cur[Request]  t == tok[Request] IN
        c.id # 0 /\ Shows(c) /\ c.row.in = t /\ t # NoToken
    BY <2>1 DEF Serial, Exchanging, Step, Calling
  <2>3. cur[Request].id \in DOMAIN regs /\ regs[cur[Request].id].in = tok[Request]
    BY <2>2, ShownRow
  <2> QED
    BY <2>1, <2>2, <2>3 DEF RowsWithToken
<1> QED
  BY <1>1, SerialAlways, PTL

-----------------------------------------------------------------------------
(* Registration implements Pairing. *)

Counted == losses' = losses + (IF LosesReply THEN 1 ELSE 0)

Mapped == [Abstract!Next]_(Abstract!pairing)

\* The steps Ours and Theirs read the table and peer at.
Resting == Labels \ (Calling \cup Called \cup {"drop", "reply"})

LEMMA StutterMapped ==
  ASSUME losses \in Nat, Counted, UNCHANGED <<Ours, Theirs>>, ~LosesReply
  PROVE  Mapped
  BY DEF Counted, Mapped, Abstract!pairing

LEMMA PartMapped ==
  ASSUME losses \in Nat, Counted, Theirs' # Theirs, UNCHANGED Ours, LosesReply
  PROVE  Mapped
  BY DEF Counted, Mapped, Abstract!Next, Abstract!Part

LEMMA ForgetMapped ==
  ASSUME losses \in Nat, Counted, UNCHANGED Theirs, Ours' = NoPair, ~LosesReply
  PROVE  Mapped
  BY DEF Counted, Mapped, Abstract!Next, Abstract!Forget, Abstract!Unpaired, NoPair, NoToken

LEMMA DissolveMapped ==
  ASSUME losses \in Nat, Counted, Theirs' = NoPair, Ours' = NoPair, ~LosesReply
  PROVE  Mapped
  BY DEF Counted, Mapped, Abstract!Next, Abstract!Dissolve, Abstract!Unpaired, NoPair, NoToken

LEMMA ExchangeMapped ==
  ASSUME losses \in Nat, Counted, ~LosesReply,
         NEW t \in Nat \ {0}, NEW g \in Nat \ {0},
         Ours' = [use |-> t, accept |-> g], Theirs' = [use |-> t, accept |-> g],
         t \notin {Ours.use, Theirs.use}, g \notin {Ours.accept, Theirs.accept}
  PROVE  Mapped
  BY DEF Counted, Mapped, Abstract!Next, Abstract!Exchange, Abstract!Paired

\* A table that shows a copy pairs as the copy does.
LEMMA ShowsPair ==
  ASSUME NEW copy \in Copy, Shows(copy)
  PROVE  FirstPair = PairOf(copy.row)
<1>1. CASE copy = NoCopy
  <2>1. DOMAIN regs = {}
    BY <1>1, ShownRow DEF Shows, NoCopy
  <2>2. FirstPair = NoPair
    BY <2>1, NoRowPair DEF FirstPair
  <2> QED
    BY <1>1, <2>2 DEF PairOf, NoCopy, PendingRow, Pending, Registered
<1>2. CASE copy # NoCopy
  <2>1. copy.id \in Nat /\ DOMAIN regs = {copy.id} /\ regs[copy.id] = copy.row
    BY <1>2 DEF Shows, Copy
  <2> QED
    BY <2>1, OneRowPair DEF FirstPair
<1> QED
  BY <1>1, <1>2

\* What the table after a step says, from its one row.
LEMMA RowPair ==
  ASSUME NEW id \in Nat, DOMAIN regs' = {id}
  PROVE  FirstPair' = PairOf(regs'[id])
  BY OneRowPair DEF FirstPair

LEMMA EmptyPair == ASSUME DOMAIN regs' = {} PROVE FirstPair' = NoPair
  BY NoRowPair DEF FirstPair

LEMMA OursTheirs ==
  /\ Step \in Resting => Ours = FirstPair /\ Theirs = peer
  /\ Step \in Calling => Ours = PairOf(prev[Request].row) /\ Theirs = peer
  /\ Step \in Called => Ours = Given /\ Theirs = peer
  /\ Step = "drop" => Ours = NoPair /\ Theirs = peer
  /\ Step = "reply" => Ours = FirstPair /\ Theirs = Given
  BY DEF Ours, Theirs, Step, Resting, Calling, Called

LEMMA OursTheirsNext ==
  /\ Step' \in Resting => Ours' = FirstPair' /\ Theirs' = peer'
  /\ Step' \in Calling => Ours' = PairOf(prev'[Request].row) /\ Theirs' = peer'
  /\ Step' \in Called => Ours' = Given' /\ Theirs' = peer'
  /\ Step' = "drop" => Ours' = NoPair /\ Theirs' = peer'
  /\ Step' = "reply" => Ours' = FirstPair' /\ Theirs' = Given'
  BY DEF Ours, Theirs, Step, Resting, Calling, Called

\* Only these steps can lose a reply.
LEMMA NoLoss ==
  ASSUME \/ Step \notin {"post", "put", "delete", "reply"}
         \/ Step \in {"post", "put", "delete"} /\ peer' = peer
         \/ Step \in {"post", "put", "delete"} /\ Step' \notin {"rollback", "idle"}
         \/ Step = "reply" /\ peer' = Given
  PROVE  ~LosesReply
  BY DEF LosesReply, Step

LEMMA IdleRests == "idle" \in Resting
  BY DEF Resting, Labels, Calling, Called, Handlers

\* A step that reads, or returns with nothing done, changes nothing.
LEMMA RestMapped ==
  ASSUME losses \in Nat, Counted, UNCHANGED <<table, peer>>,
         Step \in Resting, Step' \in Resting
  PROVE  Mapped
<1>1. FirstPair' = FirstPair
  BY DEF FirstPair, table
<1>2. UNCHANGED <<Ours, Theirs>>
  BY <1>1, OursTheirs, OursTheirsNext
<1>3. ~LosesReply
  BY NoLoss DEF Resting, Calling, Called
<1> QED
  BY <1>2, <1>3, StutterMapped

LEMMA ReadMapped ==
  ASSUME Serial, losses \in Nat, Counted, NEW p \in Procs,
         \/ AdminCreateTokenRead(p) \/ HandshakeSnapshot(p) \/ UpsertPendingRead(p)
         \/ UpdateCredentialsRead(p) \/ DeleteCredentialsRead(p) \/ OCPIAuth(p)
         \/ Refuse(p)
  PROVE  Mapped
<1>1. UNCHANGED <<table, peer>>
  BY DEF AdminCreateTokenRead, HandshakeSnapshot, UpsertPendingRead,
         UpdateCredentialsRead, DeleteCredentialsRead, OCPIAuth, Refuse
<1>2. Step \in {"idle", "pendingRead"} \cup Handlers
  BY OneSlot
     DEF AdminCreateTokenRead, HandshakeSnapshot, UpsertPendingRead,
         UpdateCredentialsRead, DeleteCredentialsRead, OCPIAuth, Refuse, Begin, At, Step,
         Handlers
<1>3. Step' \in {"idle", "tokenSave", "pendingRead", "pendingSave", "rotateSave", "delete"}
               \cup Handlers
  BY OneSlot, GotoSteps, ReturnRests
     DEF AdminCreateTokenRead, HandshakeSnapshot, UpsertPendingRead, Serial,
         UpdateCredentialsRead, DeleteCredentialsRead, OCPIAuth, Refuse
<1>4. Step \in Resting /\ Step' \in Resting
  BY <1>2, <1>3 DEF Resting, Labels, Calling, Called, Handlers
<1> QED
  BY <1>1, <1>4, RestMapped

\* The write of the new inbound token pairs nobody: until the call is over the
\* pairing is the one the rollback would restore.
LEMMA SaveMapped ==
  ASSUME Serial, losses \in Nat, Counted, NEW p \in Procs,
         UpsertPendingSave(p) \/ UpdateCredentialsSave(p)
  PROVE  Mapped
<1>1. /\ Step \in {"pendingSave", "rotateSave"} /\ Step' \in {"post", "put"}
      /\ UNCHANGED <<peer, prev>>
  BY OneSlot, GotoSteps DEF UpsertPendingSave, UpdateCredentialsSave, At, Step, Serial
<1>2. Step \in Resting /\ Step' \in Calling
  BY <1>1 DEF Resting, Labels, Calling, Called, Handlers
<1>3. Shows(prev[Request]) /\ prev[Request] \in Copy
  BY <1>1, LocalTypes DEF Serial, Reading
<1>4. UNCHANGED <<Ours, Theirs>>
  BY <1>1, <1>2, <1>3, ShowsPair, OursTheirs, OursTheirsNext
<1> QED
  BY <1>1, <1>4, NoLoss, StutterMapped

LEMMA ForgetsMapped ==
  ASSUME Serial, losses \in Nat, Counted, NEW p \in Procs,
         AdminCreateTokenSave(p) \/ AdminUnregister(p)
  PROVE  Mapped
<1>1. Step \in {"idle", "tokenSave"} /\ Step' = "idle" /\ UNCHANGED peer
  BY OneSlot, ReturnRests
     DEF AdminCreateTokenSave, AdminUnregister, At, Begin, Step, Serial, locals
<1>2. Step \in Resting /\ Step' \in Resting
  BY <1>1 DEF Resting, Labels, Calling, Called, Handlers
<1>3. FirstPair' = NoPair
  <2>1. CASE AdminUnregister(p)
    BY <2>1, EmptyPair DEF AdminUnregister, DeleteAllRegistrations
  <2>2. CASE AdminCreateTokenSave(p)
    <3> DEFINE c == cur[Request]
               copy == [id |-> c.id, row |-> TokenARow(c, tok[Request])]
    <3>1. Shows(c) /\ c \in Copy /\ Upsert(copy) /\ tok[Request] \in Nat
      BY <2>2, OneSlot, LocalTypes DEF AdminCreateTokenSave, At, Step, Serial, Reading
    <3>2. copy \in Copy /\ copy.id = c.id /\ copy.row.status = Pending /\ copy.id \in Nat
      BY <3>1 DEF TokenARow, Copy, Row, NoToken
    <3>3. PICK id \in Nat : DOMAIN regs' = {id} /\ regs'[id] = copy.row
      <4> HIDE DEF copy, c
      <4> QED
        BY <3>1, <3>2, UpsertShows, LocalTypes DEF Serial
    <3> QED
      BY <3>2, <3>3, RowPair DEF PairOf, Pending, Registered
  <2> QED
    BY <2>1, <2>2
<1> QED
  BY <1>1, <1>2, <1>3, OursTheirs, OursTheirsNext, NoLoss, ForgetMapped

LEMMA CallEvoltMapped ==
  ASSUME Serial, losses \in Nat, Counted, NEW p \in Procs, CallEvolt(p)
  PROVE  Mapped
<1> DEFINE b == prev[Request]
           t == tok[Request]
<1>1. /\ p = Request /\ Step \in {"post", "put"} /\ Step \in Calling
      /\ UNCHANGED <<cur, prev, tok>>
  BY OneSlot DEF CallEvolt, Step, Calling
<1>2. /\ t \in Nat \ {0} /\ fresh \in Nat \ {0}
      /\ t \notin {peer.use, b.row.in}
      /\ fresh \notin {peer.accept, b.row.out}
  BY <1>1, LocalTypes DEF Serial, TypeOK, Exchanging, Issued, NoToken, Pair, Copy, Row
<1>3. Ours = PairOf(b.row) /\ Theirs = peer
  BY <1>1, OursTheirs
<1>4. /\ Step' \in Called \cup {"rollback"}
      /\ \/ UNCHANGED peer /\ Step' = "rollback"
         \/ /\ peer' = [use |-> t, accept |-> fresh]
            /\ Step' \in Called => grant'[Request] = fresh
  BY <1>1, OneSlot, GotoSteps
     DEF CallEvolt, Serial, TypeOK, LocalsOK, Called, EvoltExchanges, Step
<1>5. CASE Step' = "rollback" /\ UNCHANGED peer
  <2>1. UNCHANGED <<Ours, Theirs>>
    BY <1>1, <1>3, <1>5, OursTheirsNext DEF Calling
  <2> QED
    BY <1>1, <1>5, <2>1, NoLoss, StutterMapped
<1>6. CASE Step' = "rollback" /\ peer' = [use |-> t, accept |-> fresh]
  <2>1. UNCHANGED Ours /\ Theirs' # Theirs /\ peer' # peer
    BY <1>1, <1>2, <1>3, <1>6, OursTheirsNext DEF Calling
  <2>2. LosesReply
    BY <1>1, <1>6, <2>1 DEF LosesReply, Step
  <2> QED
    BY <2>1, <2>2, PartMapped
<1>7. CASE Step' \in Called
  <2>1. peer' = [use |-> t, accept |-> fresh] /\ Given' = [use |-> t, accept |-> fresh]
    BY <1>1, <1>4, <1>7 DEF Called, Given
  <2>2. Ours' = [use |-> t, accept |-> fresh] /\ Theirs' = [use |-> t, accept |-> fresh]
    BY <1>7, <2>1, OursTheirsNext
  <2>3. ~LosesReply
    BY <1>1, <1>7, NoLoss DEF Called
  <2>4. t \notin {Ours.use, Theirs.use} /\ fresh \notin {Ours.accept, Theirs.accept}
    BY <1>2, <1>3 DEF PairOf, NoPair, NoToken
  <2> QED
    BY <1>2, <2>2, <2>3, <2>4, ExchangeMapped
<1> QED
  BY <1>4, <1>5, <1>6, <1>7

LEMMA CallEvoltDeleteMapped ==
  ASSUME Serial, losses \in Nat, Counted, NEW p \in Procs, CallEvoltDelete(p)
  PROVE  Mapped
<1>1. Step = "delete" /\ Step \in Resting /\ UNCHANGED table
  BY OneSlot DEF CallEvoltDelete, Step, Resting, Labels, Calling, Called, Handlers
<1>2. Ours = FirstPair /\ Theirs = peer /\ FirstPair' = FirstPair
  BY <1>1, OursTheirs DEF FirstPair, table
<1>3. CASE peer' = NoPair /\ Goto(p, "drop")
  <2>1. Step' = "drop"
    BY <1>3, GotoSteps DEF Serial
  <2>2. Ours' = NoPair /\ Theirs' = NoPair
    BY <1>3, <2>1, OursTheirsNext
  <2> QED
    BY <1>1, <2>1, <2>2, NoLoss, DissolveMapped
<1>4. CASE Return(p) /\ peer' \in {peer, NoPair}
  <2>1. Step' = "idle"
    BY <1>4, ReturnRests DEF Serial
  <2>2. Ours' = Ours /\ Theirs' = peer'
    BY <1>2, <2>1, OursTheirsNext, IdleRests
  <2>3. CASE UNCHANGED peer
    BY <1>1, <1>2, <2>2, <2>3, NoLoss, StutterMapped
  <2>4. CASE peer' # peer
    BY <1>1, <1>2, <2>1, <2>2, <2>4, PartMapped DEF LosesReply, Step
  <2> QED
    BY <2>3, <2>4
<1> QED
  BY <1>3, <1>4 DEF CallEvoltDelete, EvoltKnowsUs

\* A failed exchange ends where it began.
LEMMA RollbackMapped ==
  ASSUME Serial, losses \in Nat, Counted, NEW p \in Procs, Rollback(p)
  PROVE  Mapped
<1> DEFINE c == cur[Request]
           b == prev[Request]
<1>1. /\ Step = "rollback" /\ Step' = "idle" /\ Step \in Calling
      /\ Write(b) /\ UNCHANGED peer
  BY OneSlot, ReturnRests DEF Rollback, At, Step, Serial, Calling
<1>2. /\ c.id # 0 /\ Shows(c) /\ c \in Copy /\ b \in Copy /\ c.id \in Nat
      /\ \/ b = NoCopy /\ c.row.status = Pending
         \/ b.id = c.id
  BY <1>1, LocalTypes DEF Serial, Exchanging, Copy
<1>3. DOMAIN regs = {c.id} /\ regs[c.id] = c.row
  BY <1>2, ShownRow
<1>4. FirstPair' = PairOf(b.row)
  <2>1. CASE b = NoCopy /\ c.row.status = Pending
    <3>1. DOMAIN regs' = {c.id} /\ regs'[c.id] = c.row
      BY <1>1, <1>2, <1>3, <2>1 DEF Write, UpdateRegistration, NoCopy
    <3>2. FirstPair' = NoPair
      BY <1>2, <2>1, <3>1, RowPair DEF PairOf, Pending, Registered
    <3> QED
      BY <2>1, <3>2 DEF PairOf, NoCopy, PendingRow, Pending, Registered
  <2>2. CASE b.id = c.id
    <3>1. DOMAIN regs' = {b.id} /\ regs'[b.id] = b.row
      BY <1>1, <1>2, <2>2, WriteShows DEF Serial
    <3> QED
      BY <1>2, <2>2, <3>1, RowPair
  <2> QED
    BY <1>2, <2>1, <2>2
<1>5. UNCHANGED <<Ours, Theirs>>
  BY <1>1, <1>4, OursTheirs, OursTheirsNext, IdleRests
<1> QED
  BY <1>1, <1>5, NoLoss, StutterMapped

\* The row gets the pair both sides already have.
LEMMA FinishMapped ==
  ASSUME Serial, losses \in Nat, Counted, NEW p \in Procs,
         NEW copy \in Copy, Write(copy), Return(p), Step \in Called, UNCHANGED peer,
         copy.id = cur[Request].id, copy.row.status = Registered,
         copy.row.in = tok[Request], copy.row.out = grant[Request]
  PROVE  Mapped
<1>1. Step' = "idle"
  BY ReturnRests DEF Serial
<1>2. /\ cur[Request].id # 0 /\ Shows(cur[Request]) /\ cur[Request] \in Copy
      /\ copy.id \in Nat
  BY LocalTypes DEF Serial, Exchanging, Copy
<1>3. DOMAIN regs' = {copy.id} /\ regs'[copy.id] = copy.row
  BY <1>2, WriteShows DEF Serial
<1>4. FirstPair' = Given
  BY <1>2, <1>3, RowPair DEF PairOf, Given
<1>5. UNCHANGED <<Ours, Theirs>>
  BY <1>1, <1>4, OursTheirs, OursTheirsNext, IdleRests
<1> QED
  BY <1>5, NoLoss, StutterMapped DEF Called

LEMMA FinishesMapped ==
  ASSUME Serial, losses \in Nat, Counted, NEW p \in Procs,
         HandshakeFinish(p) \/ UpdateCredentialsFinish(p)
  PROVE  Mapped
<1> DEFINE c == cur[Request]
           g == grant[Request]
<1>1. p = Request /\ Step \in Called
  BY OneSlot DEF HandshakeFinish, UpdateCredentialsFinish, At, Step, Called
<1>2. c \in Copy /\ g \in Nat /\ c.row.in = tok[Request]
  BY <1>1, LocalTypes DEF Serial, Exchanging
<1>3. CASE HandshakeFinish(p)
  <2> DEFINE copy == [c EXCEPT !.row.out = g, !.row.status = Registered]
  <2>1. /\ copy \in Copy /\ copy.id = c.id /\ copy.row.status = Registered
        /\ copy.row.in = tok[Request] /\ copy.row.out = g
    BY <1>2, CopyWith DEF Copy, Row
  <2> QED
    BY <1>1, <1>3, <2>1, FinishMapped DEF HandshakeFinish
<1>4. CASE UpdateCredentialsFinish(p)
  <2> DEFINE copy == [c EXCEPT !.row.out = g]
  <2>1. c.row.status = Registered
    BY <1>1, <1>4 DEF UpdateCredentialsFinish, At, Step, Serial, Exchanging
  <2>2. /\ copy \in Copy /\ copy.id = c.id /\ copy.row.status = Registered
        /\ copy.row.in = tok[Request] /\ copy.row.out = g
    BY <1>2, <2>1, CopyWith DEF Copy, Row
  <2> QED
    BY <1>1, <1>4, <2>2, FinishMapped DEF UpdateCredentialsFinish
<1> QED
  BY <1>3, <1>4

LEMMA DropMapped ==
  ASSUME Serial, losses \in Nat, Counted, NEW p \in Procs, DeleteCredentialsDrop(p)
  PROVE  Mapped
<1>1. /\ Step = "drop" /\ Step' = "idle" /\ UNCHANGED peer
      /\ regs' = DeleteRegistration(regs, cur[Request].id)
  BY OneSlot, ReturnRests DEF DeleteCredentialsDrop, At, Step, Serial
<1>2. DOMAIN regs = {cur[Request].id}
  BY <1>1, ShownRow DEF Serial, Reading
<1>3. FirstPair' = NoPair
  BY <1>1, <1>2, EmptyPair DEF DeleteRegistration
<1>4. UNCHANGED <<Ours, Theirs>>
  BY <1>1, <1>3, OursTheirs, OursTheirsNext, IdleRests
<1> QED
  BY <1>1, <1>4, NoLoss, StutterMapped

\* Where a handler of Evolt's requests starts.
LEMMA HandlerPair ==
  ASSUME Serial, Step \in Handlers
  PROVE  /\ Ours = PairOf(cur[Request].row) /\ Theirs = peer /\ ~LosesReply
         /\ Ours.use < fresh /\ Ours.accept < fresh /\ Ours.use \in Nat /\ Ours.accept \in Nat
         /\ peer.use < fresh /\ peer.accept < fresh /\ peer.use \in Nat /\ peer.accept \in Nat
         /\ fresh \in Nat \ {0}
<1> DEFINE c == cur[Request]
<1>1. c \in Copy /\ Shows(c) /\ c.row.in < fresh /\ c.row.out < fresh /\ c.row \in Row
  BY HandlerHolds
<1>2. Step \in Resting
  BY DEF Resting, Labels, Calling, Called, Handlers
<1>3. Ours = PairOf(c.row) /\ Theirs = peer
  BY <1>1, <1>2, OursTheirs, ShowsPair
<1>4. ~LosesReply
  BY NoLoss DEF Handlers
<1>5. fresh \in Nat \ {0} /\ peer \in Pair /\ peer.use < fresh /\ peer.accept < fresh
  BY DEF Serial, TypeOK, Issued
<1>6. PairOf(c.row).use \in {c.row.in, 0} /\ PairOf(c.row).accept \in {c.row.out, 0}
  BY DEF PairOf, NoPair, NoToken
<1>7. /\ Ours.use < fresh /\ Ours.accept < fresh /\ Ours.use \in Nat /\ Ours.accept \in Nat
  BY <1>1, <1>3, <1>5, <1>6 DEF Row
<1> QED
  BY <1>3, <1>4, <1>5, <1>7 DEF Pair

\* An answer with token C, read or not, is an exchange.
LEMMA AnswerMapped ==
  ASSUME Serial, Serial', losses \in Nat, Counted, Step \in Handlers,
         Answer(Request, fresh, fresh + 1)
  PROVE  Mapped
<1> DEFINE new == [use |-> fresh, accept |-> fresh + 1]
<1>1. Step' = "reply" /\ tok'[Request] = fresh /\ grant'[Request] = fresh + 1
  BY OneSlot, GotoSteps DEF Answer, Serial, TypeOK, LocalsOK
<1>2. Given' = new /\ FirstPair' = Given'
  BY <1>1 DEF Given, Serial, Reading
<1>3. Ours' = new /\ Theirs' = new
  BY <1>1, <1>2, OursTheirsNext
<1>4. fresh \notin {Ours.use, Theirs.use} /\ fresh + 1 \notin {Ours.accept, Theirs.accept}
      /\ fresh \in Nat \ {0} /\ fresh + 1 \in Nat \ {0} /\ ~LosesReply
  BY HandlerPair
<1> QED
  BY <1>3, <1>4, ExchangeMapped

LEMMA PostCredentialsMapped ==
  ASSUME Serial, Serial', losses \in Nat, Counted, NEW p \in Procs, PostCredentials(p)
  PROVE  Mapped
  BY OneSlot, AnswerMapped DEF PostCredentials, At, Step, Handlers

\* A handler that answers 405 leaves a row that pairs nobody, or none.
LEMMA RefusedMapped ==
  ASSUME Serial, losses \in Nat, Counted, NEW p \in Procs, Step \in Handlers,
         Answered405(Request), Return(p), UNCHANGED peer, FirstPair' = NoPair
  PROVE  Mapped
<1>1. Step' = "idle"
  BY ReturnRests DEF Serial
<1>2. Ours = NoPair /\ Theirs = peer /\ ~LosesReply
  BY HandlerPair DEF PairOf, Answered405
<1> QED
  BY <1>1, <1>2, OursTheirsNext, IdleRests, StutterMapped

LEMMA PutCredentialsMapped ==
  ASSUME Serial, Serial', losses \in Nat, Counted, NEW p \in Procs, PutCredentials(p)
  PROVE  Mapped
<1> DEFINE c == cur[Request]
<1>1. p = Request /\ Step \in Handlers
  BY OneSlot DEF PutCredentials, At, Step, Handlers
<1>2. CASE Answered405(p)
  <2>1. Return(p) /\ UNCHANGED peer /\ c.row.status # Registered
        /\ TakeCredentials(Request, c.row)
    BY <1>1, <1>2 DEF PutCredentials, Answered405
  <2>2. c.id \in Nat /\ DOMAIN regs' = {c.id} /\ regs'[c.id].status = c.row.status
    BY <1>1, <2>1, HandlerHolds, TakeShows
  <2>3. FirstPair' = NoPair
    BY <2>1, <2>2, RowPair DEF PairOf
  <2> QED
    BY <1>1, <1>2, <2>1, <2>3, RefusedMapped
<1>3. CASE ~Answered405(p)
  BY <1>1, <1>3, AnswerMapped DEF PutCredentials
<1> QED
  BY <1>2, <1>3

LEMMA DeleteCredentialsMapped ==
  ASSUME Serial, Serial', losses \in Nat, Counted, NEW p \in Procs, DeleteCredentials(p)
  PROVE  Mapped
<1>1. p = Request /\ Step \in Handlers
  BY OneSlot DEF DeleteCredentials, At, Step, Handlers
<1>2. DOMAIN regs' = {}
  BY <1>1, HandlerHolds DEF DeleteCredentials, DeleteRegistration
<1>3. FirstPair' = NoPair /\ UNCHANGED peer
  BY <1>2, EmptyPair DEF DeleteCredentials
<1>4. CASE Answered405(p)
  BY <1>1, <1>3, <1>4, RefusedMapped DEF DeleteCredentials
<1>5. CASE ~Answered405(p)
  <2>1. Answer(Request, NoToken, NoToken)
    BY <1>1, <1>5 DEF DeleteCredentials
  <2>2. Step' = "reply"
    BY <2>1, GotoSteps, OneSlot DEF Answer, Serial
  <2>3. Given' = FirstPair'
    BY <2>2 DEF Serial, Reading
  <2>4. Ours' = NoPair /\ Theirs' = NoPair
    BY <1>3, <2>2, <2>3, OursTheirsNext
  <2> QED
    BY <1>1, <2>4, HandlerPair, DissolveMapped
<1> QED
  BY <1>4, <1>5

\* Evolt reads the answer it was already counted to have, or stays behind.
LEMMA ReplyMapped ==
  ASSUME Serial, losses \in Nat, Counted, NEW p \in Procs, Reply(p)
  PROVE  Mapped
<1>1. Step = "reply" /\ Step' = "idle" /\ UNCHANGED table
  BY OneSlot, ReturnRests DEF Reply, Step, Serial
<1>2. Ours = FirstPair /\ Theirs = Given /\ Ours' = FirstPair' /\ Theirs' = peer'
  BY <1>1, OursTheirs, OursTheirsNext, IdleRests
<1>3. UNCHANGED Ours
  BY <1>1, <1>2 DEF FirstPair, table
<1>4. CASE peer' = Given
  BY <1>1, <1>2, <1>3, <1>4, NoLoss, StutterMapped
<1>5. CASE peer' # Given
  <2>1. LosesReply
    BY <1>1, <1>5 DEF LosesReply, Step
  <2> QED
    BY <1>2, <1>3, <1>5, <2>1, PartMapped
<1> QED
  BY <1>4, <1>5

LEMMA NextMapped ==
  ASSUME ~MayCancel, Serial, Serial', losses \in Nat, PairingNext
  PROVE  Mapped
<1>1. Counted
  BY DEF PairingNext, Counted
<1>2. ASSUME NEW p \in Procs, Cancel(p) \/ Abort(p) PROVE FALSE
  BY <1>2, OneSlot DEF Cancel, Abort, Serial, Lives
<1>3. CASE Done
  <2>1. UNCHANGED vars /\ Step = "idle" /\ Step \in Resting
    BY <1>3, OneSlot, IdleRests DEF Done, Step
  <2>2. UNCHANGED <<table, peer, Step>>
    BY <2>1 DEF vars, locals, Step
  <2> QED
    BY <1>1, <2>1, <2>2, RestMapped
<1> QED
  BY <1>1, <1>2, <1>3, ReadMapped, SaveMapped, ForgetsMapped, CallEvoltMapped,
     CallEvoltDeleteMapped, RollbackMapped, FinishesMapped, DropMapped,
     PostCredentialsMapped, PutCredentialsMapped, DeleteCredentialsMapped, ReplyMapped
     DEF PairingNext, Next

\* Requests that do not overlap are each one step of both sides: a handshake or
\* a rotation pairs them with two new tokens or does nothing, an unregistration
\* dissolves the pairing or forgets it on our side, and every lost reply parts
\* them once.  It holds for any number of requests and lost replies, as long as
\* no caller hangs up.
THEOREM PairingImplemented ==
  ASSUME ~MayCancel
  PROVE  PairingSpec => ImplementsPairing
<1>1. PairingInit => Abstract!Init
  <2> SUFFICES ASSUME PairingInit PROVE Abstract!Init
    OBVIOUS
  <2>1. DOMAIN regs = {} /\ Step = "idle" /\ peer = NoPair /\ losses = 0
    BY OneSlot DEF PairingInit, Init, DeleteAllRegistrations, Step
  <2>2. FirstPair = NoPair
    BY <2>1, NoRowPair DEF FirstPair
  <2>3. Ours = NoPair /\ Theirs = NoPair
    BY <2>1, <2>2, OursTheirs, IdleRests
  <2> QED
    BY <2>1, <2>3 DEF Abstract!Init, Abstract!Unpaired, NoPair, NoToken
<1>2. PairingInit => losses \in Nat
  BY DEF PairingInit
<1>3. losses \in Nat /\ [PairingNext]_<<vars, losses>> => (losses \in Nat)'
  BY DEF PairingNext
<1>4. /\ Serial /\ Serial' /\ losses \in Nat
      /\ [PairingNext]_<<vars, losses>>
      => [Abstract!Next]_(Abstract!pairing)
  <2> SUFFICES ASSUME Serial, Serial', losses \in Nat, [PairingNext]_<<vars, losses>>
               PROVE  Mapped
    BY DEF Mapped
  <2>1. CASE UNCHANGED <<vars, losses>>
    BY <2>1 DEF Mapped, Abstract!pairing, Ours, Theirs, FirstPair, Given, vars, table, locals
  <2> QED
    BY <2>1, NextMapped
<1> QED
  BY <1>1, <1>2, <1>3, <1>4, SerialAlways, PTL
     DEF PairingSpec, ImplementsPairing, Abstract!Spec
=============================================================================
