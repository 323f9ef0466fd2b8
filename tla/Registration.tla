---------------------------- MODULE Registration ----------------------------
(***************************************************************************)
(* The credentials protocol of one partner: every HTTP request that reads  *)
(* or writes the registrations table, in both directions, and the Evolt    *)
(* side as far as it decides what those requests do.                       *)
(*                                                                         *)
(*   operator  -> AdminCreateToken, AdminUnregister, AdminHandshake        *)
(*                (POST, PUT and DELETE): handlers/admin.go, client/evolt.go *)
(*   Evolt     -> POST, PUT and DELETE /ocpi/2.2.1/credentials:            *)
(*                middleware/ocpiauth.go, handlers/credentials.go          *)
(*                                                                         *)
(* A request runs in a goroutine of its own.  Its steps are its SQL        *)
(* statements and its calls to Evolt; between two steps any other request  *)
(* may run.  What a request keeps between its steps (the row it read, the  *)
(* snapshot a rollback restores, the token it made) is in its locals.      *)
(* A request that returns an error before it wrote anything changes no     *)
(* state: it is a stutter here unless it had already taken a step.         *)
(***************************************************************************)
EXTENDS RegistrationStore

CONSTANTS
  Procs,          \* slots for requests in flight at one time
  MaxRequests,    \* bound: requests started in a behaviour
  MayLoseReply,   \* a reply may be lost after its request took effect
  MayCancel,      \* a request's context may be cancelled, or the process die
  StrictCallback  \* STRICT_CALLBACK: a failed callback fails the handshake

ASSUME ProcsAssumption == Procs # {}
ASSUME MaxRequestsAssumption == MaxRequests \in Nat
ASSUME SwitchAssumption ==
  /\ MayLoseReply \in BOOLEAN
  /\ MayCancel \in BOOLEAN
  /\ StrictCallback \in BOOLEAN

VARIABLES
  regs,     \* the table: id -> row
  nextId,   \* the BIGSERIAL sequence
  fresh,    \* the next token nobody has seen (uuid.NewString, on either side)
  peer,     \* what Evolt holds of us: the token it presents, the one it accepts
  agreed,   \* history: the token pairs both sides took part in exchanging
  dead,     \* history: the tokens of REGISTERED rows that a token A replaced
  started,  \* requests started, for the bound
  pc,       \* the step each request takes next
  alive,    \* is the request's context still live
  cur,      \* the request's copy of the row it works on
  prev,     \* the copy its rollback restores
  tok,      \* the inbound token it issues
  grant     \* the outbound token it was given

table == <<regs, nextId>>
locals == <<pc, alive, cur, prev, tok, grant>>
history == <<agreed, dead>>
vars == <<table, fresh, peer, history, started, locals>>

\* A copy of a row; id 0 (never a row's) says that there was none.
Copy == [id: Nat, row: Row]
NoCopy == [id |-> 0, row |-> PendingRow(NoToken, FALSE)]
CopyOf(id) == [id |-> id, row |-> regs[id]]

\* What Evolt knows of one pairing, or NoPair.
Pair == [use: Nat, accept: Nat]
NoPair == [use |-> NoToken, accept |-> NoToken]

\* SELECT ... ORDER BY id LIMIT 1 over the rows S, into a copy.
ReadFirst(S, copy) ==
  \/ S = {} /\ copy = NoCopy
  \/ \E id \in S : IsFirst(id, S) /\ copy = CopyOf(id)

Init ==
  /\ regs = DeleteAllRegistrations
  /\ nextId = 1
  /\ fresh = 1
  /\ peer = NoPair
  /\ agreed = {}
  /\ dead = {}
  /\ started = 0
  /\ pc = [p \in Procs |-> "idle"]
  /\ alive = [p \in Procs |-> TRUE]
  /\ cur = [p \in Procs |-> NoCopy]
  /\ prev = [p \in Procs |-> NoCopy]
  /\ tok = [p \in Procs |-> NoToken]
  /\ grant = [p \in Procs |-> NoToken]

-----------------------------------------------------------------------------
(* The shape of a step. *)

Begin(p) ==
  /\ pc[p] = "idle"
  /\ started < MaxRequests
  /\ started' = started + 1

\* A statement of p on a live context.
At(p, label) == pc[p] = label /\ alive[p] /\ UNCHANGED started

Goto(p, label) == pc' = [pc EXCEPT ![p] = label] /\ UNCHANGED alive

Keep(p, copy) == cur' = [cur EXCEPT ![p] = copy]

\* uuid.NewString for the inbound token of p.
IssueToken(p) == tok' = [tok EXCEPT ![p] = fresh] /\ fresh' = fresh + 1

\* The handler returns and its locals are gone.
Return(p) ==
  /\ pc' = [pc EXCEPT ![p] = "idle"]
  /\ alive' = [alive EXCEPT ![p] = TRUE]
  /\ cur' = [cur EXCEPT ![p] = NoCopy]
  /\ prev' = [prev EXCEPT ![p] = NoCopy]
  /\ tok' = [tok EXCEPT ![p] = NoToken]
  /\ grant' = [grant EXCEPT ![p] = NoToken]

\* Mutant: the row is not looked for first.
AlwaysInsert(copy) ==
  /\ regs' = CreateRegistration(regs, nextId, copy.row)
  /\ nextId' = nextId + 1

\* Write the copy: an INSERT when the read found no row, else an UPDATE.
Upsert(copy) ==
  IF copy.id = 0
  THEN /\ regs' = CreateRegistration(regs, nextId, copy.row)
       /\ nextId' = nextId + 1
  ELSE /\ regs' = UpdateRegistration(regs, copy.id, copy.row)
       /\ UNCHANGED nextId

Write(copy) ==
  /\ regs' = UpdateRegistration(regs, copy.id, copy.row)
  /\ UNCHANGED nextId

-----------------------------------------------------------------------------
(* Operator requests that stay on our side. *)

\* POST /admin/tokens, first statement.  A REGISTERED row needs force=true,
\* without it the answer is 409.
AdminCreateTokenRead(p) ==
  /\ Begin(p)
  /\ \E copy \in {NoCopy} \cup {CopyOf(id) : id \in DOMAIN regs}, force \in BOOLEAN :
       /\ ReadFirst(DOMAIN regs, copy)
       /\ copy.row.status = Registered => force
       /\ Keep(p, copy)
  /\ IssueToken(p)
  /\ Goto(p, "tokenSave")
  /\ UNCHANGED <<table, peer, history, prev, grant>>

\* Mutants: token A that forgets to reset the status, or the outbound token.
TokenAKeepsStatus(copy, token) ==
  [copy.row EXCEPT !.in = token, !.out = NoToken]

TokenAKeepsOutbound(copy, token) ==
  [copy.row EXCEPT !.in = token, !.status = Pending]

\* The row read above, as token A makes it: both tokens of a pairing go.
TokenARow(copy, token) ==
  [copy.row EXCEPT !.in = token, !.out = NoToken, !.status = Pending]

AdminCreateTokenSave(p) ==
  /\ At(p, "tokenSave")
  /\ Upsert([id |-> cur[p].id, row |-> TokenARow(cur[p], tok[p])])
  /\ dead' = dead \cup (IF cur[p].row.status = Registered
                        THEN {cur[p].row.in, cur[p].row.out} ELSE {})
  /\ Return(p)
  /\ UNCHANGED <<fresh, peer, agreed>>

\* DELETE /admin/registrations: one statement, Evolt is not told.
AdminUnregister(p) ==
  /\ Begin(p)
  /\ regs' = DeleteAllRegistrations
  /\ UNCHANGED <<nextId, fresh, peer, history, locals>>

-----------------------------------------------------------------------------
(* The handshake we initiate: client.Handshake.  The two GETs that come     *)
(* first touch no state; the step below is what follows them.               *)

HandshakeSnapshot(p) ==
  /\ Begin(p)
  /\ \E copy \in {NoCopy} \cup {CopyOf(id) : id \in DOMAIN regs} :
       /\ ReadFirst(DOMAIN regs, copy)
       /\ prev' = [prev EXCEPT ![p] = copy]
  /\ IssueToken(p)
  /\ Goto(p, "pendingRead")
  /\ UNCHANGED <<table, peer, history, cur, grant>>

\* upsertPending lists the rows again: not the list the snapshot came from.
UpsertPendingRead(p) ==
  /\ At(p, "pendingRead")
  /\ \E copy \in {NoCopy} \cup {CopyOf(id) : id \in DOMAIN regs} :
       ReadFirst(DOMAIN regs, copy) /\ Keep(p, copy)
  /\ Goto(p, "pendingSave")
  /\ UNCHANGED <<table, fresh, peer, history, prev, tok, grant>>

\* The new inbound token goes live before Evolt is called; the outbound token
\* of an existing row stays in it.
UpsertPendingSave(p) ==
  /\ At(p, "pendingSave")
  /\ \E creds \in BOOLEAN :
       LET row == [cur[p].row EXCEPT !.in = tok[p], !.status = Pending, !.creds = creds]
       IN  /\ Upsert([id |-> cur[p].id, row |-> row])
           /\ Keep(p, [id  |-> IF cur[p].id = 0 THEN nextId ELSE cur[p].id,
                       row |-> row])
  /\ Goto(p, "post")
  /\ UNCHANGED <<fresh, peer, history, prev, tok, grant>>

HandshakeFinish(p) ==
  /\ At(p, "postFinish")
  /\ Write([cur[p] EXCEPT !.row.out = grant[p], !.row.status = Registered])
  /\ Return(p)
  /\ UNCHANGED <<fresh, peer, history>>

-----------------------------------------------------------------------------
(* Rotation and unregistration we initiate, at the first REGISTERED row.    *)

\* The first REGISTERED row, if it has a credentials endpoint to call.
FirstRegistered(copy) ==
  /\ ReadFirst(RegisteredRows(regs), copy)
  /\ copy.id # 0
  /\ copy.row.creds

UpdateCredentialsRead(p) ==
  /\ Begin(p)
  /\ \E copy \in {CopyOf(id) : id \in DOMAIN regs} :
       /\ FirstRegistered(copy)
       /\ prev' = [prev EXCEPT ![p] = copy]
       /\ Keep(p, [copy EXCEPT !.row.in = fresh])
  /\ IssueToken(p)
  /\ Goto(p, "rotateSave")
  /\ UNCHANGED <<table, peer, history, grant>>

\* Mutant: the rotated token is kept back until the PUT has succeeded.
RotateAfterPut(p) ==
  /\ At(p, "rotateSave")
  /\ Goto(p, "put")
  /\ UNCHANGED <<table, fresh, peer, history, cur, prev, tok, grant>>

UpdateCredentialsSave(p) ==
  /\ At(p, "rotateSave")
  /\ Write(cur[p])
  /\ Goto(p, "put")
  /\ UNCHANGED <<fresh, peer, history, cur, prev, tok, grant>>

\* Mutant: the outbound token of the answer is not stored.
RotateInboundOnly(p) ==
  /\ At(p, "putFinish")
  /\ Write(cur[p])
  /\ Return(p)
  /\ UNCHANGED <<fresh, peer, history>>

UpdateCredentialsFinish(p) ==
  /\ At(p, "putFinish")
  /\ Write([cur[p] EXCEPT !.row.out = grant[p]])
  /\ Return(p)
  /\ UNCHANGED <<fresh, peer, history>>

\* Mutant: a failed exchange leaves the row as it is.
NoRollback(p) ==
  /\ At(p, "rollback")
  /\ Return(p)
  /\ UNCHANGED <<table, fresh, peer, history>>

\* Handshake and UpdateCredentials restore their snapshot the same way, on the
\* request's own context; with no snapshot there is nothing to restore.
Rollback(p) ==
  /\ At(p, "rollback")
  /\ Write(prev[p])
  /\ Return(p)
  /\ UNCHANGED <<fresh, peer, history>>

DeleteCredentialsRead(p) ==
  /\ Begin(p)
  /\ \E copy \in {CopyOf(id) : id \in DOMAIN regs} :
       FirstRegistered(copy) /\ Keep(p, copy)
  /\ Goto(p, "delete")
  /\ UNCHANGED <<table, fresh, peer, history, prev, tok, grant>>

DeleteCredentialsDrop(p) ==
  /\ At(p, "drop")
  /\ regs' = DeleteRegistration(regs, cur[p].id)
  /\ Return(p)
  /\ UNCHANGED <<nextId, fresh, peer, history>>

-----------------------------------------------------------------------------
(* Evolt answering our calls (external).  POST carries Evolt's own token A; *)
(* PUT and DELETE need the token Evolt gave us.                             *)

EvoltKnowsUs(p) == peer # NoPair /\ peer.accept = cur[p].row.out

\* Evolt takes the token we sent and grants one.
EvoltExchanges(p) ==
  /\ peer' = [use |-> tok[p], accept |-> fresh]
  /\ agreed' = agreed \cup {<<tok[p], fresh>>}
  /\ fresh' = fresh + 1
  /\ UNCHANGED dead

CallEvolt(p) ==
  /\ pc[p] \in {"post", "put"}
  /\ \/ /\ alive[p]
        /\ pc[p] = "put" => EvoltKnowsUs(p)
        /\ EvoltExchanges(p)
        /\ grant' = [grant EXCEPT ![p] = fresh]
        /\ Goto(p, IF pc[p] = "post" THEN "postFinish" ELSE "putFinish")
     \/ \* no usable answer: time-out, cut connection, empty token
        /\ MayLoseReply \/ ~alive[p]
        /\ pc[p] = "put" => EvoltKnowsUs(p)
        /\ EvoltExchanges(p)
        /\ Goto(p, "rollback")
        /\ UNCHANGED grant
     \/ \* Evolt refuses, or the call never reaches it
        /\ Goto(p, "rollback")
        /\ UNCHANGED <<fresh, peer, history, grant>>
  /\ UNCHANGED <<table, started, cur, prev, tok>>

CallEvoltDelete(p) ==
  /\ pc[p] = "delete"
  /\ \/ /\ alive[p]
        /\ EvoltKnowsUs(p)
        /\ peer' = NoPair
        /\ Goto(p, "drop")
        /\ UNCHANGED <<cur, prev, tok, grant>>
     \/ /\ MayLoseReply \/ ~alive[p]
        /\ EvoltKnowsUs(p)
        /\ peer' = NoPair
        /\ Return(p)
     \/ Return(p) /\ UNCHANGED peer
  /\ UNCHANGED <<table, fresh, history, started>>

-----------------------------------------------------------------------------
(* Credentials requests of Evolt. *)

Handlers == {"postHandler", "putHandler", "deleteHandler"}

\* OCPIAuth with ScopeHandshake: the row whose inbound token was presented is
\* copied into the request's context; an unknown token is a 401.
OCPIAuth(p) ==
  /\ Begin(p)
  /\ \E token \in {regs[i].in : i \in DOMAIN regs} :
     \E id \in RowsWithToken(regs, token) :
       /\ IsFirst(id, RowsWithToken(regs, token))
       /\ Keep(p, CopyOf(id))
  /\ \E handler \in Handlers : Goto(p, handler)
  /\ UNCHANGED <<table, fresh, peer, history, prev, tok, grant>>

\* A handler that answers 400, 405, 2001 or 3001 and writes nothing; DELETE
\* has no body to find fault with.
Refuse(p) ==
  /\ pc[p] \in {"postHandler", "putHandler"}
  /\ Return(p)
  /\ UNCHANGED <<table, fresh, peer, history, started>>

\* registeredOnly answers 405 for a row that is not REGISTERED, but what it
\* returns is the nil error of a JSON write that succeeded: its callers go on.
Answered405(p) == cur[p].row.status # Registered

\* Token C for Evolt, and the token Evolt's body carried.
TakeCredentials(p, row) ==
  /\ Write([id |-> cur[p].id, row |-> [row EXCEPT !.in = fresh, !.out = fresh + 1]])
  /\ fresh' = fresh + 2

\* The answer with token C goes out; Evolt heeds it only with a 200.
Answer(p, token, given) ==
  /\ Goto(p, "reply")
  /\ tok' = [tok EXCEPT ![p] = token]
  /\ grant' = [grant EXCEPT ![p] = given]
  /\ UNCHANGED <<cur, prev>>

\* The callback to the initiator's versions URL ran between OCPIAuth's read
\* and this write; without its answer there are no endpoints.
PostCredentials(p) ==
  /\ At(p, "postHandler")
  /\ cur[p].row.status # Registered
  /\ \E called, creds \in BOOLEAN :
       /\ called \/ ~StrictCallback
       /\ creds => called
       /\ TakeCredentials(p, [cur[p].row EXCEPT !.status = Registered, !.creds = creds])
  /\ Answer(p, fresh, fresh + 1)
  /\ agreed' = agreed \cup {<<fresh, fresh + 1>>}
  /\ UNCHANGED <<peer, dead>>

PutCredentials(p) ==
  /\ At(p, "putHandler")
  /\ TakeCredentials(p, cur[p].row)
  /\ IF Answered405(p)
     THEN Return(p) /\ UNCHANGED agreed
     ELSE Answer(p, fresh, fresh + 1) /\ agreed' = agreed \cup {<<fresh, fresh + 1>>}
  /\ UNCHANGED <<peer, dead>>

DeleteCredentials(p) ==
  /\ At(p, "deleteHandler")
  /\ regs' = DeleteRegistration(regs, cur[p].id)
  /\ IF Answered405(p) THEN Return(p) ELSE Answer(p, NoToken, NoToken)
  /\ UNCHANGED <<nextId, fresh, peer, history>>

\* Evolt reads the answer (external), or never sees it.
Reply(p) ==
  /\ pc[p] = "reply"
  /\ \/ alive[p] /\ peer' = [use |-> tok[p], accept |-> grant[p]]
     \/ (MayLoseReply \/ ~alive[p]) /\ UNCHANGED peer
  /\ Return(p)
  /\ UNCHANGED <<table, fresh, history, started>>

-----------------------------------------------------------------------------
(* Failure. *)

\* The caller hangs up and net/http cancels the request's context, or the
\* process ends: either way no later statement of the request runs.
Cancel(p) ==
  /\ MayCancel
  /\ pc[p] # "idle"
  /\ alive[p]
  /\ alive' = [alive EXCEPT ![p] = FALSE]
  /\ UNCHANGED <<table, fresh, peer, history, started, pc, cur, prev, tok, grant>>

\* Every statement on a dead context fails and its handler returns; a rollback
\* logs the failure and returns as well.
Abort(p) ==
  /\ ~alive[p]
  /\ pc[p] \notin {"idle", "post", "put", "delete", "reply"}
  /\ Return(p)
  /\ UNCHANGED <<table, fresh, peer, history, started>>

\* The bound is used up and every request has been answered.
Done ==
  /\ started = MaxRequests
  /\ \A p \in Procs : pc[p] = "idle"
  /\ UNCHANGED vars

Next ==
  \/ \E p \in Procs :
       \/ AdminCreateTokenRead(p) \/ AdminCreateTokenSave(p)
       \/ AdminUnregister(p)
       \/ HandshakeSnapshot(p) \/ UpsertPendingRead(p) \/ UpsertPendingSave(p)
       \/ HandshakeFinish(p)
       \/ UpdateCredentialsRead(p) \/ UpdateCredentialsSave(p)
       \/ UpdateCredentialsFinish(p)
       \/ Rollback(p)
       \/ DeleteCredentialsRead(p) \/ DeleteCredentialsDrop(p)
       \/ CallEvolt(p) \/ CallEvoltDelete(p)
       \/ OCPIAuth(p) \/ Refuse(p)
       \/ PostCredentials(p) \/ PutCredentials(p) \/ DeleteCredentials(p)
       \/ Reply(p)
       \/ Cancel(p) \/ Abort(p)
  \/ Done

Spec == Init /\ [][Next]_vars

-----------------------------------------------------------------------------
(* Properties. *)

Labels ==
  {"idle", "tokenSave", "pendingRead", "pendingSave", "post", "postFinish",
   "rotateSave", "put", "putFinish", "rollback", "delete", "drop", "reply"}
  \cup Handlers

TableOK ==
  /\ nextId \in Nat \ {0}
  /\ DOMAIN regs \subseteq 1..(nextId - 1)
  /\ regs \in [DOMAIN regs -> Row]

LocalsOK ==
  /\ pc \in [Procs -> Labels]
  /\ alive \in [Procs -> BOOLEAN]
  /\ cur \in [Procs -> Copy]
  /\ prev \in [Procs -> Copy]
  /\ tok \in [Procs -> Nat]
  /\ grant \in [Procs -> Nat]

\* The ids in the table were drawn from the sequence, a request's locals are
\* copies of rows, and every other variable has the shape its comment gives it.
TypeOK ==
  /\ TableOK
  /\ LocalsOK
  /\ fresh \in Nat \ {0}
  /\ peer \in Pair
  /\ agreed \subseteq Nat \X Nat
  /\ dead \subseteq Nat
  /\ started \in 0..MaxRequests

\* However requests interleave, are cancelled or lose replies, no two rows ever
\* carry the same inbound token: FindByInboundToken, which takes the first row
\* that matches, then authenticates a caller as the one party it was issued to.
TokenUnique ==
  \A i, j \in DOMAIN regs : regs[i].in = regs[j].in => i = j

\* A REGISTERED row always has a token to present and a token to be called
\* with, although it is written whole from copies that may be stale by then:
\* pushes and pulls take any REGISTERED row and send its token unchecked.
RegisteredComplete ==
  \A i \in DOMAIN regs :
    regs[i].status = Registered => regs[i].in # NoToken /\ regs[i].out # NoToken

\* When no request is in flight, a REGISTERED row holds the two tokens of one
\* exchange.  "a half-rotated REGISTERED counterparty would be locked out":
\* with one token of one exchange and one of another, one side answers 401.
WholePair ==
  (\A p \in Procs : pc[p] = "idle") =>
    \A i \in RegisteredRows(regs) : <<regs[i].in, regs[i].out>> \in agreed

\* "the mock only ever talks to a single Evolt environment": one row at most,
\* which is why FirstRegistered and the list-then-update handlers take the
\* first one.
SingleRow == \A i, j \in DOMAIN regs : i = j

\* While Evolt handles the credentials call we sent, the token in its body
\* already authenticates: Evolt calls GET /ocpi/versions back with it.
CallbackAuthenticates ==
  \A p \in Procs :
    pc[p] \in {"post", "put"} => RowsWithToken(regs, tok[p]) # {}

\* Re-issuing token A "wipes an active registration (inbound + outbound tokens
\* both die)": the tokens of a REGISTERED row that a token A replaced are never
\* in the table again, whatever was in flight when it was replaced.
TokensDie ==
  \A i \in DOMAIN regs : {regs[i].in, regs[i].out} \cap dead = {}

\* registeredOnly "guards GET/PUT/DELETE which are meaningless before the
\* handshake completes": a PUT or DELETE that presents token A changes no row.
PendingIsRefused ==
  [][\A p \in Procs :
       (/\ pc[p] \in {"putHandler", "deleteHandler"}
        /\ cur[p].row.status = Pending
        /\ pc'[p] # pc[p]) => UNCHANGED regs]_vars
=============================================================================
