------------------------- MODULE RegistrationProofs -------------------------
(***************************************************************************)
(* What holds of Registration for every set of request slots, every number *)
(* of requests and every setting of the failure switches.                  *)
(*                                                                         *)
(*   TypeCorrect              Spec => []TypeOK                             *)
(*   TokenUniqueAlways        Spec => []TokenUnique                        *)
(*   RegisteredCompleteAlways Spec => []RegisteredComplete                 *)
(*                                                                         *)
(* The last two rest on one inductive invariant, IInv: every copy a        *)
(* request holds is as sound as a row, and every token that was issued,    *)
(* stored or copied belongs to one row id or is still reserved by the one  *)
(* request that will store it.                                             *)
(***************************************************************************)
EXTENDS Registration, TLAPS

LEMMA RowWith ==
  ASSUME NEW row \in Row
  PROVE  /\ \A in, out \in Nat : [row EXCEPT !.in = in, !.out = out] \in Row
         /\ \A in, out \in Nat :
              [row EXCEPT !.in = in, !.out = out, !.status = Pending] \in Row
         /\ \A creds \in BOOLEAN :
              [row EXCEPT !.status = Registered, !.creds = creds] \in Row
         /\ \A in \in Nat, creds \in BOOLEAN :
              [row EXCEPT !.in = in, !.status = Pending, !.creds = creds] \in Row
  BY DEF Row

LEMMA CopyWith ==
  ASSUME NEW copy \in Copy, NEW token \in Nat
  PROVE  /\ [copy EXCEPT !.row.in = token] \in Copy
         /\ [copy EXCEPT !.row.out = token] \in Copy
         /\ [copy EXCEPT !.row.out = token, !.row.status = Registered] \in Copy
  BY DEF Copy, Row

\* A copy that is given the outbound token Evolt granted.
LEMMA CopyGranted ==
  ASSUME NEW copy \in Copy, NEW token \in Nat,
         NEW full \in {[copy EXCEPT !.row.out = token],
                       [copy EXCEPT !.row.out = token, !.row.status = Registered]}
  PROVE  /\ full \in Copy /\ full.id = copy.id
         /\ full.row.in = copy.row.in /\ full.row.out = token
<1>1. CASE full = [copy EXCEPT !.row.out = token]
  BY <1>1 DEF Copy, Row
<1>2. CASE full = [copy EXCEPT !.row.out = token, !.row.status = Registered]
  BY <1>2 DEF Copy, Row
<1> QED
  BY <1>1, <1>2

LEMMA LocalsType ==
  ASSUME LocalsOK, NEW p \in Procs
  PROVE  /\ cur[p] \in Copy /\ cur[p].id \in Nat /\ cur[p].row \in Row
         /\ prev[p] \in Copy
         /\ tok[p] \in Nat /\ grant[p] \in Nat
  BY DEF LocalsOK, Copy

LEMMA WriteType ==
  ASSUME TableOK, NEW copy \in Copy, Write(copy)
  PROVE  TableOK'
  BY DEF TableOK, Write, UpdateRegistration, Copy, Row

LEMMA UpsertType ==
  ASSUME TableOK, NEW copy \in Copy, Upsert(copy)
  PROVE  TableOK'
  BY DEF TableOK, Upsert, CreateRegistration, UpdateRegistration, Copy, Row

LEMMA DropType ==
  ASSUME TableOK, NEW id \in Nat,
         regs' = DeleteRegistration(regs, id), UNCHANGED nextId
  PROVE  TableOK'
  BY DEF TableOK, DeleteRegistration, Row

LEMMA NoCopyType == NoCopy \in Copy
  BY DEF NoCopy, Copy, PendingRow, Row, NoToken, Pending

LEMMA CopyOfType ==
  ASSUME TableOK, NEW id \in DOMAIN regs
  PROVE  CopyOf(id) \in Copy
  BY DEF TableOK, CopyOf, Copy, Row

LEMMA ReturnType ==
  ASSUME LocalsOK, NEW p \in Procs, Return(p)
  PROVE  LocalsOK'
  BY NoCopyType DEF LocalsOK, Return, NoToken, Labels

LEMMA KeepType ==
  ASSUME LocalsOK, NEW p \in Procs, NEW copy \in Copy, Keep(p, copy)
  PROVE  cur' \in [Procs -> Copy]
  BY DEF LocalsOK, Keep

LEMMA ReadFirstType ==
  ASSUME TableOK,
         NEW copy \in {NoCopy} \cup {CopyOf(id) : id \in DOMAIN regs}
  PROVE  copy \in Copy
  BY NoCopyType, CopyOfType

LEMMA InitType == Init => TypeOK
  <1> SUFFICES ASSUME Init PROVE TypeOK
    OBVIOUS
  <1>1. TableOK
    BY DEF Init, TableOK, DeleteAllRegistrations
  <1>2. LocalsOK
    BY NoCopyType DEF Init, LocalsOK, Labels, NoToken
  <1> QED
    BY <1>1, <1>2, MaxRequestsAssumption DEF Init, TypeOK, Pair, NoPair, NoToken

LEMMA BeginType ==
  ASSUME TypeOK, NEW p \in Procs, Begin(p)
  PROVE  started' \in 0..MaxRequests
  BY MaxRequestsAssumption DEF TypeOK, Begin

LEMMA NextType == TypeOK /\ [Next]_vars => TypeOK'
  <1> SUFFICES ASSUME TypeOK, [Next]_vars PROVE TypeOK'
    OBVIOUS
  <1> USE DEF At, Goto, IssueToken, Labels, Handlers
  <1>s. ASSUME UNCHANGED vars PROVE TypeOK'
    BY <1>s DEF TypeOK, TableOK, LocalsOK, vars, table, locals, history
  <1>1. ASSUME NEW p \in Procs, AdminCreateTokenRead(p) PROVE TypeOK'
    BY <1>1, BeginType, ReadFirstType, KeepType
       DEF AdminCreateTokenRead, TypeOK, TableOK, LocalsOK, table, history
  <1>2. ASSUME NEW p \in Procs, AdminCreateTokenSave(p) PROVE TypeOK'
    <2> DEFINE copy == [id |-> cur[p].id, row |-> TokenARow(cur[p], tok[p])]
    <2>1. copy \in Copy
      BY LocalsType, RowWith DEF TypeOK, TokenARow, Copy, NoToken
    <2>2. TableOK'
      BY <1>2, <2>1, UpsertType DEF AdminCreateTokenSave, TypeOK
    <2>3. LocalsOK'
      BY <1>2, ReturnType DEF AdminCreateTokenSave, TypeOK
    <2>4. dead' \subseteq Nat
      BY <1>2 DEF AdminCreateTokenSave, TypeOK, LocalsOK, Copy, Row
    <2> QED
      BY <1>2, <2>2, <2>3, <2>4 DEF AdminCreateTokenSave, TypeOK
  <1>3. ASSUME NEW p \in Procs, AdminUnregister(p) PROVE TypeOK'
    BY <1>3, BeginType
       DEF AdminUnregister, TypeOK, TableOK, LocalsOK, locals, history,
           DeleteAllRegistrations
  <1>4. ASSUME NEW p \in Procs, HandshakeSnapshot(p) PROVE TypeOK'
    BY <1>4, BeginType, ReadFirstType
       DEF HandshakeSnapshot, TypeOK, TableOK, LocalsOK, table, history
  <1>5. ASSUME NEW p \in Procs, UpsertPendingRead(p) PROVE TypeOK'
    BY <1>5, ReadFirstType, KeepType
       DEF UpsertPendingRead, TypeOK, TableOK, LocalsOK, table, history
  <1>6. ASSUME NEW p \in Procs, UpsertPendingSave(p) PROVE TypeOK'
    <2> PICK creds \in BOOLEAN :
          LET row == [cur[p].row EXCEPT !.in = tok[p], !.status = Pending, !.creds = creds]
          IN  /\ Upsert([id |-> cur[p].id, row |-> row])
              /\ Keep(p, [id  |-> IF cur[p].id = 0 THEN nextId ELSE cur[p].id,
                          row |-> row])
      BY <1>6 DEF UpsertPendingSave
    <2> DEFINE row == [cur[p].row EXCEPT !.in = tok[p], !.status = Pending, !.creds = creds]
               old == [id |-> cur[p].id, row |-> row]
               new == [id |-> IF cur[p].id = 0 THEN nextId ELSE cur[p].id, row |-> row]
    <2>0. row \in Row
      BY LocalsType, RowWith DEF TypeOK
    <2>a. Upsert(old) /\ Keep(p, new)
      OBVIOUS
    <2> HIDE DEF row
    <2>1. old \in Copy /\ new \in Copy
      BY <2>0, LocalsType DEF TypeOK, TableOK, Copy
    <2>2. TableOK'
      BY <2>1, <2>a, UpsertType DEF TypeOK
    <2>3. cur' \in [Procs -> Copy]
      BY <2>1, <2>a, KeepType DEF TypeOK
    <2> QED
      BY <1>6, <2>2, <2>3 DEF UpsertPendingSave, TypeOK, LocalsOK, history
  <1>7. ASSUME NEW p \in Procs, HandshakeFinish(p) PROVE TypeOK'
    <2> DEFINE copy == [cur[p] EXCEPT !.row.out = grant[p], !.row.status = Registered]
    <2>1. copy \in Copy
      BY LocalsType, CopyWith DEF TypeOK
    <2> QED
      BY <1>7, <2>1, WriteType, ReturnType DEF HandshakeFinish, TypeOK, history
  <1>8. ASSUME NEW p \in Procs, UpdateCredentialsRead(p) PROVE TypeOK'
    <2> PICK copy \in {CopyOf(id) : id \in DOMAIN regs} :
          /\ prev' = [prev EXCEPT ![p] = copy]
          /\ Keep(p, [copy EXCEPT !.row.in = fresh])
      BY <1>8 DEF UpdateCredentialsRead
    <2>1. copy \in Copy
      BY CopyOfType DEF TypeOK
    <2>2. [copy EXCEPT !.row.in = fresh] \in Copy
      BY <2>1, CopyWith DEF TypeOK
    <2>3. cur' \in [Procs -> Copy]
      BY <2>2, KeepType DEF TypeOK
    <2>4. prev' \in [Procs -> Copy]
      BY <2>1 DEF TypeOK, LocalsOK
    <2>5. fresh' \in Nat \ {0} /\ tok' \in [Procs -> Nat]
      BY <1>8 DEF UpdateCredentialsRead, TypeOK, LocalsOK
    <2> QED
      BY <1>8, <2>3, <2>4, <2>5, BeginType
         DEF UpdateCredentialsRead, TypeOK, TableOK, LocalsOK, table, history
  <1>9. ASSUME NEW p \in Procs, UpdateCredentialsSave(p) PROVE TypeOK'
    <2>1. cur[p] \in Copy
      BY DEF TypeOK, LocalsOK
    <2> QED
      BY <1>9, <2>1, WriteType DEF UpdateCredentialsSave, TypeOK, LocalsOK, history
  <1>10. ASSUME NEW p \in Procs, UpdateCredentialsFinish(p) PROVE TypeOK'
    <2>1. [cur[p] EXCEPT !.row.out = grant[p]] \in Copy
      BY LocalsType, CopyWith DEF TypeOK
    <2> QED
      BY <1>10, <2>1, WriteType, ReturnType DEF UpdateCredentialsFinish, TypeOK, history
  <1>11. ASSUME NEW p \in Procs, Rollback(p) PROVE TypeOK'
    <2>1. prev[p] \in Copy
      BY DEF TypeOK, LocalsOK
    <2> QED
      BY <1>11, <2>1, WriteType, ReturnType DEF Rollback, TypeOK, history
  <1>12. ASSUME NEW p \in Procs, DeleteCredentialsRead(p) PROVE TypeOK'
    <2> PICK copy \in {CopyOf(id) : id \in DOMAIN regs} : Keep(p, copy)
      BY <1>12 DEF DeleteCredentialsRead
    <2>1. copy \in Copy
      BY CopyOfType DEF TypeOK
    <2> QED
      BY <1>12, <2>1, KeepType, BeginType
         DEF DeleteCredentialsRead, TypeOK, TableOK, LocalsOK, table, history
  <1>13. ASSUME NEW p \in Procs, DeleteCredentialsDrop(p) PROVE TypeOK'
    <2>1. cur[p].id \in Nat
      BY DEF TypeOK, LocalsOK, Copy
    <2> QED
      BY <1>13, <2>1, DropType, ReturnType DEF DeleteCredentialsDrop, TypeOK, history
  <1>14. ASSUME NEW p \in Procs, CallEvolt(p) PROVE TypeOK'
    BY <1>14 DEF CallEvolt, EvoltExchanges, TypeOK, TableOK, LocalsOK, table, history, Pair
  <1>15. ASSUME NEW p \in Procs, CallEvoltDelete(p) PROVE TypeOK'
    <2>1. LocalsOK'
      BY <1>15, ReturnType DEF CallEvoltDelete, TypeOK, LocalsOK
    <2>2. peer' \in Pair
      BY <1>15 DEF CallEvoltDelete, TypeOK, NoPair, NoToken, Pair
    <2> QED
      BY <1>15, <2>1, <2>2 DEF CallEvoltDelete, TypeOK, TableOK, table, history
  <1>16. ASSUME NEW p \in Procs, OCPIAuth(p) PROVE TypeOK'
    <2> PICK id \in DOMAIN regs : Keep(p, CopyOf(id))
      BY <1>16 DEF OCPIAuth, RowsWithToken
    <2>1. CopyOf(id) \in Copy
      BY CopyOfType DEF TypeOK
    <2> QED
      BY <1>16, <2>1, KeepType, BeginType
         DEF OCPIAuth, TypeOK, TableOK, LocalsOK, table, history
  <1>17. ASSUME NEW p \in Procs, Refuse(p) PROVE TypeOK'
    BY <1>17, ReturnType DEF Refuse, TypeOK, TableOK, table, history
  <1>t. ASSUME NEW p \in Procs, NEW row \in Row, TakeCredentials(p, row)
        PROVE  TableOK' /\ fresh' \in Nat \ {0}
    <2> DEFINE copy == [id |-> cur[p].id, row |-> [row EXCEPT !.in = fresh, !.out = fresh + 1]]
    <2>0. fresh \in Nat /\ fresh + 1 \in Nat
      BY DEF TypeOK
    <2>1. copy \in Copy
      BY <2>0, LocalsType, RowWith DEF TypeOK, Copy
    <2> QED
      BY <1>t, <2>1, WriteType DEF TakeCredentials, TypeOK
  <1>a. ASSUME NEW p \in Procs, NEW token \in Nat, NEW given \in Nat,
               Answer(p, token, given)
        PROVE  LocalsOK'
    BY <1>a DEF Answer, TypeOK, LocalsOK
  <1>18. ASSUME NEW p \in Procs, PostCredentials(p) PROVE TypeOK'
    <2> PICK creds \in BOOLEAN :
          TakeCredentials(p, [cur[p].row EXCEPT !.status = Registered, !.creds = creds])
      BY <1>18 DEF PostCredentials
    <2>1. [cur[p].row EXCEPT !.status = Registered, !.creds = creds] \in Row
      BY LocalsType, RowWith DEF TypeOK
    <2>2. TableOK' /\ fresh' \in Nat \ {0}
      BY <2>1, <1>t
    <2>3. LocalsOK'
      BY <1>18, <1>a DEF PostCredentials, TypeOK
    <2> QED
      BY <1>18, <2>2, <2>3 DEF PostCredentials, TypeOK
  <1>19. ASSUME NEW p \in Procs, PutCredentials(p) PROVE TypeOK'
    <2>1. cur[p].row \in Row
      BY DEF TypeOK, LocalsOK, Copy
    <2>2. TableOK' /\ fresh' \in Nat \ {0}
      BY <1>19, <2>1, <1>t DEF PutCredentials
    <2>3. LocalsOK' /\ agreed' \subseteq Nat \X Nat
      BY <1>19, <1>a, ReturnType DEF PutCredentials, TypeOK
    <2> QED
      BY <1>19, <2>2, <2>3 DEF PutCredentials, TypeOK
  <1>20. ASSUME NEW p \in Procs, DeleteCredentials(p) PROVE TypeOK'
    <2>1. cur[p].id \in Nat
      BY DEF TypeOK, LocalsOK, Copy
    <2>2. TableOK'
      BY <1>20, <2>1, DropType DEF DeleteCredentials, TypeOK
    <2>3. LocalsOK'
      BY <1>20, <1>a, ReturnType DEF DeleteCredentials, TypeOK, NoToken
    <2> QED
      BY <1>20, <2>2, <2>3 DEF DeleteCredentials, TypeOK, history
  <1>21. ASSUME NEW p \in Procs, Reply(p) PROVE TypeOK'
    <2>1. peer' \in Pair
      BY <1>21 DEF Reply, TypeOK, LocalsOK, Pair
    <2> QED
      BY <1>21, <2>1, ReturnType DEF Reply, TypeOK, TableOK, table, history
  <1>22. ASSUME NEW p \in Procs, Cancel(p) PROVE TypeOK'
    BY <1>22 DEF Cancel, TypeOK, TableOK, LocalsOK, table, history
  <1>23. ASSUME NEW p \in Procs, Abort(p) PROVE TypeOK'
    BY <1>23, ReturnType DEF Abort, TypeOK, TableOK, table, history
  <1>24. ASSUME Done PROVE TypeOK'
    BY <1>24, <1>s DEF Done
  <1> QED
    BY <1>s, <1>1, <1>2, <1>3, <1>4, <1>5, <1>6, <1>7, <1>8, <1>9, <1>10, <1>11,
       <1>12, <1>13, <1>14, <1>15, <1>16, <1>17, <1>18, <1>19, <1>20, <1>21,
       <1>22, <1>23, <1>24 DEF Next

\* The table, the locals of every request and all counters keep their types,
\* for any number of requests in flight.
THEOREM TypeCorrect == Spec => []TypeOK
  BY InitType, NextType, PTL DEF Spec

-----------------------------------------------------------------------------
(* TokenUnique and RegisteredComplete speak of the table only, and neither  *)
(* is inductive: rows are written whole from copies read earlier, so the    *)
(* copies in flight must satisfy them too, and a token a request has made   *)
(* but not yet written must be nobody's.                                    *)

RowOK(row, bound) ==
  /\ row.in # NoToken /\ row.in < bound
  /\ row.status = Registered => row.out # NoToken

CopyOK(copy, bound) == copy.id # 0 => RowOK(copy.row, bound)

RowsOK == \A i \in DOMAIN regs : RowOK(regs[i], fresh)

CopiesOK == \A p \in Procs : CopyOK(cur[p], fresh) /\ CopyOK(prev[p], fresh)

\* The requests whose token is in no row yet.
Unsaved == {"tokenSave", "pendingRead", "pendingSave"}

TokensOK ==
  \A p \in Procs :
    /\ tok[p] < fresh
    /\ pc[p] \in Unsaved => tok[p] # NoToken
    /\ pc[p] \in {"postFinish", "putFinish"} => grant[p] # NoToken

\* Row id holds token t, in the table or in the copy of a request.
Claim(id, t) ==
  \/ id \in DOMAIN regs /\ regs[id].in = t
  \/ \E p \in Procs : id # 0 /\ cur[p].id = id /\ cur[p].row.in = t
  \/ \E p \in Procs : id # 0 /\ prev[p].id = id /\ prev[p].row.in = t

OneOwner ==
  \A i, j, t \in Nat : Claim(i, t) /\ Claim(j, t) => i = j

Reserved ==
  \A p \in Procs : pc[p] \in Unsaved =>
    /\ \A i \in Nat : ~Claim(i, tok[p])
    /\ \A q \in Procs : q # p /\ pc[q] \in Unsaved => tok[q] # tok[p]

IInv == TypeOK /\ RowsOK /\ CopiesOK /\ TokensOK /\ OneOwner /\ Reserved

\* A step that makes row x the holder of token y and adds no other claim.
Grows(x, y) ==
  \A i, t \in Nat : Claim(i, t)' => Claim(i, t) \/ (i = x /\ t = y)

LEMMA InitIInv == Init => IInv
  <1> SUFFICES ASSUME Init PROVE IInv
    OBVIOUS
  <1>1. TypeOK
    BY InitType
  <1>2. \A i, t \in Nat : ~Claim(i, t)
    BY DEF Init, Claim, DeleteAllRegistrations, NoCopy
  <1>3. RowsOK /\ CopiesOK /\ TokensOK
    BY DEF Init, RowsOK, CopiesOK, TokensOK, CopyOK, DeleteAllRegistrations,
           NoCopy, NoToken, Unsaved
  <1>4. Reserved
    BY DEF Init, Reserved, Unsaved
  <1> QED
    BY <1>1, <1>2, <1>3, <1>4 DEF IInv, OneOwner

LEMMA ClaimBound ==
  ASSUME IInv, NEW i \in Nat, NEW t \in Nat, Claim(i, t)
  PROVE  t # NoToken /\ t < fresh
  BY DEF IInv, Claim, RowsOK, CopiesOK, CopyOK, RowOK

\* The claims after a step, from what it does to the rows and the copies.
LEMMA GrowsBy ==
  ASSUME TypeOK', NEW x \in Nat, NEW y \in Nat,
         \A i \in DOMAIN regs' :
           Claim(i, regs'[i].in) \/ (i = x /\ regs'[i].in = y),
         \A q \in Procs : cur'[q].id # 0 =>
           \/ Claim(cur'[q].id, cur'[q].row.in)
           \/ cur'[q].id = x /\ cur'[q].row.in = y,
         \A q \in Procs : prev'[q].id # 0 =>
           Claim(prev'[q].id, prev'[q].row.in)
  PROVE  Grows(x, y)
  <1> SUFFICES ASSUME NEW i \in Nat, NEW t \in Nat, Claim(i, t)'
               PROVE  Claim(i, t) \/ (i = x /\ t = y)
    BY DEF Grows
  <1>1. CASE i \in DOMAIN regs' /\ regs'[i].in = t
    BY <1>1
  <1>2. CASE \E p \in Procs : i # 0 /\ cur'[p].id = i /\ cur'[p].row.in = t
    BY <1>2
  <1>3. CASE \E p \in Procs : i # 0 /\ prev'[p].id = i /\ prev'[p].row.in = t
    BY <1>3
  <1> QED
    BY <1>1, <1>2, <1>3 DEF Claim

LEMMA KeepsOwner ==
  ASSUME OneOwner, NEW x \in Nat, NEW y \in Nat, Grows(x, y),
         \A i \in Nat : ~Claim(i, y)
  PROVE  OneOwner'
  BY DEF OneOwner, Grows

\* p is the request that steps: it leaves the unsaved ones, stays among them
\* with its token, or joins them with a token nobody has seen.
LEMMA KeepsReserved ==
  ASSUME IInv, NEW p \in Procs, NEW x \in Nat, NEW y \in Nat, Grows(x, y),
         tok' \in [Procs -> Nat],
         \A q \in Procs \ {p} : pc'[q] = pc[q] /\ tok'[q] = tok[q],
         \/ pc'[p] \notin Unsaved
         \/ pc[p] \in Unsaved /\ tok'[p] = tok[p]
         \/ tok'[p] = fresh,
         \A q \in Procs : pc'[q] \in Unsaved => tok'[q] # y
  PROVE  Reserved'
  <1> SUFFICES ASSUME NEW q \in Procs, pc'[q] \in Unsaved
               PROVE  /\ \A i \in Nat : ~Claim(i, tok[q])'
                      /\ \A r \in Procs : r # q /\ pc'[r] \in Unsaved => tok'[r] # tok'[q]
    BY DEF Reserved
  <1>1. \A r \in Procs : tok[r] < fresh /\ tok[r] \in Nat
    BY DEF IInv, TokensOK, TypeOK, LocalsOK
  <1>2. fresh \in Nat
    BY DEF IInv, TypeOK
  <1>3. \A i \in Nat : ~Claim(i, tok'[q])
    <2>1. CASE pc[q] \in Unsaved /\ tok'[q] = tok[q]
      BY <2>1 DEF IInv, Reserved
    <2>2. CASE tok'[q] = fresh
      BY <2>2, <1>2, ClaimBound
    <2> QED
      BY <2>1, <2>2
  <1>4. \A i \in Nat : ~Claim(i, tok[q])'
    <2>1. \A i, t \in Nat : Claim(i, t)' => Claim(i, t) \/ (i = x /\ t = y)
      BY DEF Grows
    <2>2. tok'[q] \in Nat /\ tok'[q] # y
      OBVIOUS
    <2>3. \A i \in Nat : Claim(i, tok[q])' <=> (\E t \in Nat : t = tok'[q] /\ Claim(i, t)')
      BY <2>2 DEF Claim
    <2> QED
      BY <2>1, <2>2, <2>3, <1>3
  <1>5. ASSUME NEW r \in Procs, r # q, pc'[r] \in Unsaved
        PROVE  tok'[r] # tok'[q]
    BY <1>5, <1>1, <1>2 DEF IInv, Reserved
  <1> QED
    BY <1>4, <1>5

\* After a step, a copy a request holds (or the row written from it) is sound
\* and claims what was claimed before, or token y for row x.
Good(copy, x, y) ==
  copy.id # 0 =>
    /\ RowOK(copy.row, fresh')
    /\ Claim(copy.id, copy.row.in) \/ (copy.id = x /\ copy.row.in = y)

GoodTable(x, y) == \A i \in DOMAIN regs' : Good([id |-> i, row |-> regs'[i]], x, y)

LEMMA OldGood ==
  ASSUME IInv, fresh' \in Nat, fresh' >= fresh, NEW x \in Nat, NEW y \in Nat
  PROVE  /\ \A i \in DOMAIN regs : Good(CopyOf(i), x, y)
         /\ \A q \in Procs : Good(cur[q], x, y) /\ Good(prev[q], x, y)
         /\ Good(NoCopy, x, y)
  <1>1. fresh \in Nat
    BY DEF IInv, TypeOK
  <1>2. ASSUME NEW i \in DOMAIN regs PROVE Good(CopyOf(i), x, y)
    BY <1>1 DEF IInv, TypeOK, TableOK, RowsOK, RowOK, Good, CopyOf, Claim, Row
  <1>3. ASSUME NEW q \in Procs PROVE Good(cur[q], x, y) /\ Good(prev[q], x, y)
    BY <1>1 DEF IInv, TypeOK, LocalsOK, Copy, Row, CopiesOK, CopyOK, RowOK, Good, Claim
  <1>4. Good(NoCopy, x, y)
    BY DEF NoCopy, Good
  <1> QED
    BY <1>2, <1>3, <1>4

LEMMA SameTable ==
  ASSUME IInv, fresh' \in Nat, fresh' >= fresh, NEW x \in Nat, NEW y \in Nat,
         regs' = regs
  PROVE  GoodTable(x, y)
  BY OldGood DEF GoodTable, CopyOf

LEMMA GoodWrite ==
  ASSUME IInv, fresh' \in Nat, fresh' >= fresh, NEW x \in Nat, NEW y \in Nat,
         NEW copy \in Copy, Write(copy), Good(copy, x, y)
  PROVE  GoodTable(x, y)
  <1> SUFFICES ASSUME NEW i \in DOMAIN regs'
               PROVE  Good([id |-> i, row |-> regs'[i]], x, y)
    BY DEF GoodTable
  <1>1. i \in DOMAIN regs /\ i # 0
    BY DEF Write, UpdateRegistration, IInv, TypeOK, TableOK
  <1>2. CASE i = copy.id
    BY <1>1, <1>2 DEF Write, UpdateRegistration, Good
  <1>3. CASE i # copy.id
    <2>1. regs'[i] = regs[i]
      BY <1>1, <1>3 DEF Write, UpdateRegistration
    <2> QED
      BY <1>1, <2>1, OldGood DEF CopyOf
  <1> QED
    BY <1>2, <1>3

LEMMA GoodUpsert ==
  ASSUME IInv, fresh' \in Nat, fresh' >= fresh,
         NEW copy \in Copy, Upsert(copy), RowOK(copy.row, fresh')
  PROVE  GoodTable(IF copy.id = 0 THEN nextId ELSE copy.id, copy.row.in)
  <1> DEFINE x == IF copy.id = 0 THEN nextId ELSE copy.id
  <1>1. x \in Nat /\ copy.row.in \in Nat
    BY DEF IInv, TypeOK, TableOK, Copy, Row
  <1> SUFFICES ASSUME NEW i \in DOMAIN regs'
               PROVE  Good([id |-> i, row |-> regs'[i]], x, copy.row.in)
    BY DEF GoodTable
  <1>2. CASE i = x /\ regs'[i] = copy.row
    BY <1>2 DEF Good
  <1>3. CASE ~(i = x /\ regs'[i] = copy.row)
    <2>1. i \in DOMAIN regs /\ regs'[i] = regs[i]
      BY <1>3 DEF Upsert, CreateRegistration, UpdateRegistration
    <2> QED
      BY <1>1, <2>1, OldGood DEF CopyOf
  <1> QED
    BY <1>2, <1>3

LEMMA GoodDrop ==
  ASSUME IInv, fresh' \in Nat, fresh' >= fresh, NEW x \in Nat, NEW y \in Nat,
         NEW id \in Nat, regs' = DeleteRegistration(regs, id)
  PROVE  GoodTable(x, y)
  BY OldGood DEF GoodTable, CopyOf, DeleteRegistration

\* The whole invariant, from what a step of p does to the table, to the copies
\* and to the tokens.
LEMMA Preserves ==
  ASSUME IInv, TypeOK', NEW p \in Procs, NEW x \in Nat, NEW y \in Nat,
         fresh' >= fresh,
         \A i \in Nat : ~Claim(i, y),
         GoodTable(x, y),
         \A q \in Procs : Good(cur'[q], x, y) /\ Good(prev'[q], 0, NoToken),
         TokensOK',
         \A q \in Procs \ {p} : pc'[q] = pc[q] /\ tok'[q] = tok[q],
         \/ pc'[p] \notin Unsaved
         \/ pc[p] \in Unsaved /\ tok'[p] = tok[p]
         \/ tok'[p] = fresh,
         \A q \in Procs : pc'[q] \in Unsaved => tok'[q] # y
  PROVE  IInv'
  <1>0. \A i \in Nat : ~Claim(i, NoToken)
    BY ClaimBound DEF NoToken
  <1>1. DOMAIN regs' \subseteq Nat \ {0}
    BY DEF TypeOK, TableOK
  <1>2. RowsOK'
    BY <1>1 DEF GoodTable, Good, RowsOK
  <1>3. CopiesOK'
    BY DEF Good, CopiesOK, CopyOK
  <1>4. \A q \in Procs : cur'[q] \in Copy /\ prev'[q] \in Copy
    BY DEF TypeOK, LocalsOK
  <1>5. Grows(x, y)
    <2>1. \A i \in DOMAIN regs' : Claim(i, regs'[i].in) \/ (i = x /\ regs'[i].in = y)
      BY <1>1 DEF GoodTable, Good
    <2>2. \A q \in Procs : cur'[q].id # 0 =>
            \/ Claim(cur'[q].id, cur'[q].row.in)
            \/ cur'[q].id = x /\ cur'[q].row.in = y
      BY DEF Good
    <2>3. \A q \in Procs : prev'[q].id # 0 => Claim(prev'[q].id, prev'[q].row.in)
      BY DEF Good
    <2> QED
      BY <2>1, <2>2, <2>3, GrowsBy
  <1>6. OneOwner'
    BY <1>5, KeepsOwner DEF IInv
  <1>7. Reserved'
    BY <1>5, KeepsReserved DEF TypeOK, LocalsOK
  <1> QED
    BY <1>2, <1>3, <1>6, <1>7 DEF IInv

LEMMA ReturnPreserves ==
  ASSUME IInv, TypeOK', NEW p \in Procs, NEW x \in Nat, NEW y \in Nat,
         Return(p), fresh' >= fresh,
         \A i \in Nat : ~Claim(i, y),
         GoodTable(x, y),
         \A q \in Procs \ {p} : pc[q] \in Unsaved => tok[q] # y
  PROVE  IInv'
  <1>0. fresh' \in Nat /\ fresh \in Nat \ {0}
    BY DEF IInv, TypeOK
  <1>1. /\ pc'[p] = "idle" /\ cur'[p] = NoCopy /\ prev'[p] = NoCopy
        /\ tok'[p] = NoToken
        /\ \A q \in Procs \ {p} :
             /\ pc'[q] = pc[q] /\ cur'[q] = cur[q] /\ prev'[q] = prev[q]
             /\ tok'[q] = tok[q] /\ grant'[q] = grant[q]
    BY DEF Return, IInv, TypeOK, LocalsOK
  <1>2. \A q \in Procs : Good(cur'[q], x, y) /\ Good(prev'[q], 0, NoToken)
    BY <1>0, <1>1, OldGood DEF NoToken
  <1>3. TokensOK'
    <2> SUFFICES ASSUME NEW q \in Procs
                 PROVE  /\ tok'[q] < fresh'
                        /\ pc'[q] \in Unsaved => tok'[q] # NoToken
                        /\ pc'[q] \in {"postFinish", "putFinish"} => grant'[q] # NoToken
      BY DEF TokensOK
    <2>1. CASE q = p
      BY <1>0, <1>1, <2>1 DEF Unsaved, NoToken
    <2>2. CASE q # p
      BY <1>0, <1>1, <2>2 DEF IInv, TokensOK, TypeOK, LocalsOK
    <2> QED
      BY <2>1, <2>2
  <1>4. pc'[p] \notin Unsaved
    BY <1>1 DEF Unsaved
  <1> QED
    BY <1>1, <1>2, <1>3, <1>4, Preserves

\* A step of p moves no other request.
LEMMA OthersSame ==
  ASSUME IInv, NEW p \in Procs, NEW label,
         pc' = [pc EXCEPT ![p] = label]
  PROVE  pc'[p] = label /\ \A q \in Procs \ {p} : pc'[q] = pc[q]
  BY DEF IInv, TypeOK, LocalsOK

LEMMA FreshUnclaimed ==
  ASSUME IInv
  PROVE  /\ \A i \in Nat : ~Claim(i, NoToken) /\ ~Claim(i, fresh)
         /\ \A q \in Procs : pc[q] \in Unsaved => tok[q] \notin {NoToken, fresh}
         /\ fresh \in Nat \ {0}
  <1>1. fresh \in Nat \ {0}
    BY DEF IInv, TypeOK
  <1>2. \A i \in Nat : ~Claim(i, NoToken) /\ ~Claim(i, fresh)
    BY <1>1, ClaimBound DEF NoToken
  <1>3. \A q \in Procs : pc[q] \in Unsaved => tok[q] \notin {NoToken, fresh}
    BY <1>1 DEF IInv, TokensOK, TypeOK, LocalsOK
  <1> QED
    BY <1>1, <1>2, <1>3

LEMMA ReadGood ==
  ASSUME IInv, fresh' \in Nat, fresh' >= fresh, NEW x \in Nat, NEW y \in Nat,
         NEW copy \in {NoCopy} \cup {CopyOf(id) : id \in DOMAIN regs}
  PROVE  Good(copy, x, y)
  BY OldGood

LEMMA NextIInv == IInv /\ [Next]_vars => IInv'
  <1> SUFFICES ASSUME IInv, [Next]_vars PROVE IInv'
    OBVIOUS
  <1>0. TypeOK /\ TypeOK' /\ fresh \in Nat \ {0} /\ fresh' \in Nat
    BY NextType DEF IInv, TypeOK
  <1>f. UNCHANGED fresh => fresh' >= fresh
    BY <1>0
  <1>s. ASSUME UNCHANGED vars PROVE IInv'
    <2>1. /\ regs' = regs /\ fresh' = fresh /\ pc' = pc /\ cur' = cur
          /\ prev' = prev /\ tok' = tok /\ grant' = grant
      BY <1>s DEF vars, table, locals
    <2>2. \A i, t : Claim(i, t)' <=> Claim(i, t)
      BY <2>1 DEF Claim
    <2>3. OneOwner' /\ Reserved'
      BY <2>1, <2>2 DEF IInv, OneOwner, Reserved
    <2>4. RowsOK' /\ CopiesOK' /\ TokensOK'
      BY <2>1 DEF IInv, RowsOK, CopiesOK, TokensOK
    <2> QED
      BY <1>0, <2>3, <2>4 DEF IInv
  <1>1. ASSUME NEW p \in Procs, AdminCreateTokenRead(p) PROVE IInv'
    <2> PICK copy \in {NoCopy} \cup {CopyOf(id) : id \in DOMAIN regs} : Keep(p, copy)
      BY <1>1 DEF AdminCreateTokenRead
    <2>1. /\ fresh' >= fresh /\ fresh' = fresh + 1 /\ regs' = regs
          /\ pc' = [pc EXCEPT ![p] = "tokenSave"] /\ prev' = prev /\ grant' = grant
          /\ tok' = [tok EXCEPT ![p] = fresh] /\ cur' = [cur EXCEPT ![p] = copy]
      BY <1>1, <1>0 DEF AdminCreateTokenRead, IssueToken, Goto, Keep, table
    <2>2. GoodTable(0, NoToken)
      BY <2>1, <1>0, SameTable DEF NoToken
    <2>3. \A q \in Procs : Good(cur'[q], 0, NoToken) /\ Good(prev'[q], 0, NoToken)
      BY <2>1, <1>0, OldGood, ReadGood DEF NoToken, TypeOK, LocalsOK
    <2>4. TokensOK'
      BY <2>1, <1>0 DEF IInv, TokensOK, TypeOK, LocalsOK, NoToken
    <2> QED
      BY <2>1, <2>2, <2>3, <2>4, <1>0, FreshUnclaimed, Preserves
         DEF NoToken, TypeOK, LocalsOK
  <1>2. ASSUME NEW p \in Procs, AdminCreateTokenSave(p) PROVE IInv'
    <2> DEFINE copy == [id |-> cur[p].id, row |-> TokenARow(cur[p], tok[p])]
               x == IF copy.id = 0 THEN nextId ELSE copy.id
    <2>0. cur[p].row \in Row /\ tok[p] \in Nat /\ cur[p].id \in Nat
      BY <1>0, LocalsType DEF TypeOK
    <2>a. /\ TokenARow(cur[p], tok[p]) \in Row
          /\ TokenARow(cur[p], tok[p]).in = tok[p]
          /\ TokenARow(cur[p], tok[p]).status = Pending
      BY <2>0, RowWith DEF TokenARow, Row, NoToken
    <2>1. copy \in Copy /\ copy.row.in = tok[p] /\ x \in Nat /\ tok[p] \in Nat
      BY <1>0, <2>0, <2>a DEF TypeOK, TableOK, Copy
    <2>2. pc[p] \in Unsaved /\ Upsert(copy) /\ Return(p) /\ fresh' = fresh
      BY <1>2 DEF AdminCreateTokenSave, At, Unsaved
    <2>3. RowOK(copy.row, fresh')
      BY <2>1, <2>2, <2>a DEF IInv, TokensOK, RowOK, Pending, Registered
    <2>4. GoodTable(x, tok[p])
      BY <1>0, <1>f, <2>1, <2>2, <2>3, GoodUpsert
    <2>5. /\ \A i \in Nat : ~Claim(i, tok[p])
          /\ \A q \in Procs \ {p} : pc[q] \in Unsaved => tok[q] # tok[p]
      BY <2>2 DEF IInv, Reserved
    <2> QED
      BY <1>0, <1>f, <2>1, <2>2, <2>4, <2>5, ReturnPreserves
  <1>3. ASSUME NEW p \in Procs, AdminUnregister(p) PROVE IInv'
    <2>1. /\ DOMAIN regs' = {} /\ fresh' = fresh /\ pc' = pc /\ cur' = cur
          /\ prev' = prev /\ tok' = tok /\ grant' = grant
      BY <1>3 DEF AdminUnregister, DeleteAllRegistrations, locals
    <2>2. GoodTable(0, NoToken)
      BY <2>1 DEF GoodTable
    <2>3. \A q \in Procs : Good(cur'[q], 0, NoToken) /\ Good(prev'[q], 0, NoToken)
      BY <2>1, <1>0, <1>f, OldGood DEF NoToken
    <2>4. TokensOK'
      BY <2>1 DEF IInv, TokensOK
    <2> QED
      BY <2>1, <2>2, <2>3, <2>4, <1>0, <1>f, FreshUnclaimed, Preserves DEF NoToken
  <1>4. ASSUME NEW p \in Procs, HandshakeSnapshot(p) PROVE IInv'
    <2> PICK copy \in {NoCopy} \cup {CopyOf(id) : id \in DOMAIN regs} :
          prev' = [prev EXCEPT ![p] = copy]
      BY <1>4 DEF HandshakeSnapshot
    <2>1. /\ fresh' >= fresh /\ fresh' = fresh + 1 /\ regs' = regs
          /\ pc' = [pc EXCEPT ![p] = "pendingRead"] /\ cur' = cur /\ grant' = grant
          /\ tok' = [tok EXCEPT ![p] = fresh]
      BY <1>4, <1>0 DEF HandshakeSnapshot, IssueToken, Goto, table
    <2>2. GoodTable(0, NoToken)
      BY <2>1, <1>0, SameTable DEF NoToken
    <2>3. \A q \in Procs : Good(cur'[q], 0, NoToken) /\ Good(prev'[q], 0, NoToken)
      BY <2>1, <1>0, OldGood, ReadGood DEF NoToken, TypeOK, LocalsOK
    <2>4. TokensOK'
      BY <2>1, <1>0 DEF IInv, TokensOK, TypeOK, LocalsOK, NoToken
    <2> QED
      BY <2>1, <2>2, <2>3, <2>4, <1>0, FreshUnclaimed, Preserves
         DEF NoToken, TypeOK, LocalsOK
  <1>5. ASSUME NEW p \in Procs, UpsertPendingRead(p) PROVE IInv'
    <2> PICK copy \in {NoCopy} \cup {CopyOf(id) : id \in DOMAIN regs} : Keep(p, copy)
      BY <1>5 DEF UpsertPendingRead
    <2>1. /\ fresh' = fresh /\ regs' = regs /\ pc[p] \in Unsaved
          /\ pc' = [pc EXCEPT ![p] = "pendingSave"] /\ prev' = prev /\ grant' = grant
          /\ tok' = tok /\ cur' = [cur EXCEPT ![p] = copy]
      BY <1>5 DEF UpsertPendingRead, At, Goto, Keep, table, Unsaved
    <2>2. GoodTable(0, NoToken)
      BY <2>1, <1>0, <1>f, SameTable DEF NoToken
    <2>3. \A q \in Procs : Good(cur'[q], 0, NoToken) /\ Good(prev'[q], 0, NoToken)
      BY <2>1, <1>0, <1>f, OldGood, ReadGood DEF NoToken, TypeOK, LocalsOK
    <2>4. TokensOK'
      BY <2>1, <1>0 DEF IInv, TokensOK, TypeOK, LocalsOK, Unsaved
    <2>5. \A q \in Procs : pc'[q] \in Unsaved => pc[q] \in Unsaved
      BY <2>1 DEF TypeOK, LocalsOK
    <2> QED
      BY <2>1, <2>2, <2>3, <2>4, <2>5, <1>0, <1>f, FreshUnclaimed, Preserves, OthersSame
         DEF NoToken
  <1>6. ASSUME NEW p \in Procs, UpsertPendingSave(p) PROVE IInv'
    <2> PICK creds \in BOOLEAN :
          LET row == [cur[p].row EXCEPT !.in = tok[p], !.status = Pending, !.creds = creds]
          IN  /\ Upsert([id |-> cur[p].id, row |-> row])
              /\ Keep(p, [id  |-> IF cur[p].id = 0 THEN nextId ELSE cur[p].id,
                          row |-> row])
      BY <1>6 DEF UpsertPendingSave
    <2> DEFINE row == [cur[p].row EXCEPT !.in = tok[p], !.status = Pending, !.creds = creds]
               old == [id |-> cur[p].id, row |-> row]
               x == IF cur[p].id = 0 THEN nextId ELSE cur[p].id
               new == [id |-> x, row |-> row]
    <2>0. cur[p].row \in Row /\ tok[p] \in Nat
      BY <1>0, LocalsType DEF TypeOK
    <2>1. row \in Row /\ row.in = tok[p] /\ row.status = Pending
      BY <2>0, RowWith DEF Row
    <2>a. Upsert(old) /\ Keep(p, new)
      OBVIOUS
    <2> HIDE DEF row
    <2>2. old \in Copy /\ x \in Nat /\ tok[p] \in Nat
      BY <1>0, <2>1, LocalsType DEF TypeOK, TableOK, Copy
    <2>3. /\ fresh' = fresh /\ pc[p] \in Unsaved
          /\ pc' = [pc EXCEPT ![p] = "post"] /\ prev' = prev /\ grant' = grant
          /\ tok' = tok /\ cur' = [cur EXCEPT ![p] = new]
      BY <1>6, <2>a DEF UpsertPendingSave, At, Goto, Keep, Unsaved
    <2>4. RowOK(row, fresh')
      BY <1>0, <2>1, <2>3 DEF IInv, TokensOK, RowOK, Pending, Registered
    <2>5. GoodTable(x, tok[p])
      BY <1>0, <1>f, <2>1, <2>2, <2>3, <2>4, <2>a, GoodUpsert
    <2>6. Good(new, x, tok[p])
      BY <2>1, <2>4 DEF Good
    <2>7. \A q \in Procs : Good(cur'[q], x, tok[p]) /\ Good(prev'[q], 0, NoToken)
      BY <2>2, <2>3, <2>6, <1>0, <1>f, OldGood DEF NoToken, TypeOK, LocalsOK
    <2>p. pc'[p] = "post" /\ \A q \in Procs \ {p} : pc'[q] = pc[q]
      BY <2>3, <1>0 DEF TypeOK, LocalsOK
    <2>8. pc'[p] \notin Unsaved /\ \A q \in Procs \ {p} : pc'[q] = pc[q]
      BY <2>p DEF Unsaved
    <2>9. TokensOK'
      BY <2>3, <1>0, <2>8 DEF IInv, TokensOK, TypeOK, LocalsOK
    <2>10. /\ \A i \in Nat : ~Claim(i, tok[p])
           /\ \A q \in Procs : pc'[q] \in Unsaved => tok'[q] # tok[p]
      BY <2>3, <2>8 DEF IInv, Reserved
    <2> QED
      BY <2>2, <2>3, <2>5, <2>7, <2>8, <2>9, <2>10, <1>0, <1>f, Preserves
  <1>7. ASSUME NEW p \in Procs, HandshakeFinish(p) PROVE IInv'
    <2> DEFINE copy == [cur[p] EXCEPT !.row.out = grant[p], !.row.status = Registered]
    <2>1. /\ copy \in Copy /\ copy.id = cur[p].id /\ copy.row.in = cur[p].row.in
          /\ copy.row.out = grant[p]
      BY <1>0, LocalsType, CopyGranted DEF TypeOK
    <2>2. Write(copy) /\ Return(p) /\ fresh' = fresh /\ grant[p] # NoToken
      BY <1>7 DEF HandshakeFinish, At, IInv, TokensOK
    <2>3. Good(copy, 0, NoToken)
      BY <2>1, <2>2, <1>0, <1>f, OldGood DEF Good, RowOK, NoToken
    <2> HIDE DEF copy
    <2>4. GoodTable(0, NoToken)
      BY <2>1, <2>2, <2>3, <1>0, <1>f, GoodWrite DEF NoToken
    <2> QED
      BY <2>2, <2>4, <1>0, <1>f, FreshUnclaimed, ReturnPreserves DEF NoToken
  <1>8. ASSUME NEW p \in Procs, UpdateCredentialsRead(p) PROVE IInv'
    <2> PICK copy \in {CopyOf(id) : id \in DOMAIN regs} :
          /\ FirstRegistered(copy)
          /\ prev' = [prev EXCEPT ![p] = copy]
          /\ Keep(p, [copy EXCEPT !.row.in = fresh])
      BY <1>8 DEF UpdateCredentialsRead
    <2> DEFINE new == [copy EXCEPT !.row.in = fresh]
    <2>1. /\ fresh' >= fresh /\ fresh' = fresh + 1 /\ regs' = regs
          /\ pc' = [pc EXCEPT ![p] = "rotateSave"] /\ grant' = grant
          /\ tok' = [tok EXCEPT ![p] = fresh] /\ cur' = [cur EXCEPT ![p] = new]
      BY <1>8, <1>0 DEF UpdateCredentialsRead, IssueToken, Goto, Keep, table
    <2>2. copy \in Copy /\ Good(copy, 0, NoToken)
      BY <2>1, <1>0, OldGood, CopyOfType DEF NoToken, TypeOK
    <2>3. /\ new.id = copy.id /\ new.row.in = fresh /\ new.id \in Nat
          /\ new.row.out = copy.row.out /\ new.row.status = copy.row.status
      BY <2>2, <1>0 DEF Copy, Row
    <2>4. Good(new, new.id, fresh)
      BY <2>1, <2>2, <2>3, <1>0 DEF Good, RowOK, NoToken
    <2> HIDE DEF new
    <2>5. GoodTable(new.id, fresh)
      BY <2>1, <2>3, <1>0, SameTable
    <2>6. \A q \in Procs : Good(cur'[q], new.id, fresh) /\ Good(prev'[q], 0, NoToken)
      BY <2>1, <2>2, <2>3, <2>4, <1>0, OldGood DEF NoToken, TypeOK, LocalsOK
    <2>7. TokensOK'
      BY <2>1, <1>0 DEF IInv, TokensOK, TypeOK, LocalsOK, NoToken, Unsaved
    <2>8. pc'[p] = "rotateSave" /\ \A q \in Procs \ {p} : pc'[q] = pc[q] /\ tok'[q] = tok[q]
      BY <2>1, <1>0 DEF TypeOK, LocalsOK
    <2>9. pc'[p] \notin Unsaved
      BY <2>8 DEF Unsaved
    <2> QED
      BY <2>1, <2>3, <2>5, <2>6, <2>7, <2>8, <2>9, <1>0, FreshUnclaimed, Preserves
  <1>9. ASSUME NEW p \in Procs, UpdateCredentialsSave(p) PROVE IInv'
    <2>1. /\ Write(cur[p]) /\ fresh' = fresh /\ pc' = [pc EXCEPT ![p] = "put"]
          /\ cur' = cur /\ prev' = prev /\ tok' = tok /\ grant' = grant
      BY <1>9 DEF UpdateCredentialsSave, At, Goto
    <2>2. GoodTable(0, NoToken)
      BY <2>1, <1>0, <1>f, OldGood, GoodWrite, LocalsType DEF NoToken, TypeOK
    <2>3. \A q \in Procs : Good(cur'[q], 0, NoToken) /\ Good(prev'[q], 0, NoToken)
      BY <2>1, <1>0, <1>f, OldGood DEF NoToken
    <2>4. pc'[p] = "put" /\ \A q \in Procs \ {p} : pc'[q] = pc[q]
      BY <2>1, OthersSame
    <2>5. TokensOK'
      BY <2>1, <2>4 DEF IInv, TokensOK, Unsaved
    <2> QED
      BY <2>1, <2>2, <2>3, <2>4, <2>5, <1>0, <1>f, FreshUnclaimed, Preserves
         DEF NoToken, Unsaved
  <1>10. ASSUME NEW p \in Procs, UpdateCredentialsFinish(p) PROVE IInv'
    <2> DEFINE copy == [cur[p] EXCEPT !.row.out = grant[p]]
    <2>1. /\ copy \in Copy /\ copy.id = cur[p].id /\ copy.row.in = cur[p].row.in
          /\ copy.row.out = grant[p]
      BY <1>0, LocalsType, CopyGranted DEF TypeOK
    <2>2. Write(copy) /\ Return(p) /\ fresh' = fresh /\ grant[p] # NoToken
      BY <1>10 DEF UpdateCredentialsFinish, At, IInv, TokensOK
    <2>3. Good(copy, 0, NoToken)
      BY <2>1, <2>2, <1>0, <1>f, OldGood DEF Good, RowOK, NoToken
    <2> HIDE DEF copy
    <2>4. GoodTable(0, NoToken)
      BY <2>1, <2>2, <2>3, <1>0, <1>f, GoodWrite DEF NoToken
    <2> QED
      BY <2>2, <2>4, <1>0, <1>f, FreshUnclaimed, ReturnPreserves DEF NoToken
  <1>11. ASSUME NEW p \in Procs, Rollback(p) PROVE IInv'
    <2>1. Write(prev[p]) /\ Return(p) /\ fresh' = fresh
      BY <1>11 DEF Rollback
    <2>2. GoodTable(0, NoToken)
      BY <2>1, <1>0, <1>f, OldGood, GoodWrite, LocalsType DEF NoToken, TypeOK
    <2> QED
      BY <2>1, <2>2, <1>0, <1>f, FreshUnclaimed, ReturnPreserves DEF NoToken
  <1>k. ASSUME NEW p \in Procs, NEW label \in Labels \ (Unsaved \cup {"postFinish", "putFinish"}),
               NEW copy \in {CopyOf(id) : id \in DOMAIN regs},
               regs' = regs, fresh' = fresh, prev' = prev, tok' = tok, grant' = grant,
               Keep(p, copy), Goto(p, label)
        PROVE  IInv'
    <2>1. GoodTable(0, NoToken)
      BY <1>k, <1>0, <1>f, SameTable DEF NoToken
    <2>2. \A q \in Procs : Good(cur'[q], 0, NoToken) /\ Good(prev'[q], 0, NoToken)
      BY <1>k, <1>0, <1>f, OldGood, ReadGood DEF Keep, NoToken, TypeOK, LocalsOK
    <2>3. pc'[p] = label /\ \A q \in Procs \ {p} : pc'[q] = pc[q]
      BY <1>k, OthersSame DEF Goto
    <2>4. TokensOK'
      BY <1>k, <2>3 DEF IInv, TokensOK
    <2> QED
      BY <1>k, <2>1, <2>2, <2>3, <2>4, <1>0, <1>f, FreshUnclaimed, Preserves
         DEF NoToken
  <1>12. ASSUME NEW p \in Procs, DeleteCredentialsRead(p) PROVE IInv'
    <2> PICK copy \in {CopyOf(id) : id \in DOMAIN regs} : Keep(p, copy)
      BY <1>12 DEF DeleteCredentialsRead
    <2>1. "delete" \in Labels \ (Unsaved \cup {"postFinish", "putFinish"})
      BY DEF Labels, Unsaved
    <2> QED
      BY <1>12, <2>1, <1>k DEF DeleteCredentialsRead, table
  <1>13. ASSUME NEW p \in Procs, DeleteCredentialsDrop(p) PROVE IInv'
    <2>1. /\ regs' = DeleteRegistration(regs, cur[p].id) /\ Return(p)
          /\ fresh' = fresh /\ cur[p].id \in Nat
      BY <1>13, <1>0, LocalsType DEF DeleteCredentialsDrop, TypeOK
    <2>2. GoodTable(0, NoToken)
      BY <2>1, <1>0, <1>f, GoodDrop DEF NoToken
    <2> QED
      BY <2>1, <2>2, <1>0, <1>f, FreshUnclaimed, ReturnPreserves DEF NoToken
  <1>14. ASSUME NEW p \in Procs, CallEvolt(p) PROVE IInv'
    <2>1. /\ fresh' \in {fresh, fresh + 1} /\ fresh' >= fresh
          /\ regs' = regs /\ cur' = cur /\ prev' = prev /\ tok' = tok
          /\ \E label \in {"postFinish", "putFinish", "rollback"} : pc' = [pc EXCEPT ![p] = label]
          /\ \/ grant' = grant /\ pc' = [pc EXCEPT ![p] = "rollback"]
             \/ grant' = [grant EXCEPT ![p] = fresh]
      BY <1>14, <1>0 DEF CallEvolt, EvoltExchanges, Goto, table
    <2>2. GoodTable(0, NoToken)
      BY <2>1, <1>0, SameTable DEF NoToken
    <2>3. \A q \in Procs : Good(cur'[q], 0, NoToken) /\ Good(prev'[q], 0, NoToken)
      BY <2>1, <1>0, OldGood DEF NoToken
    <2>4. pc'[p] \notin Unsaved /\ \A q \in Procs \ {p} : pc'[q] = pc[q]
      BY <2>1, OthersSame DEF Unsaved
    <2>5. TokensOK'
      <3> SUFFICES ASSUME NEW q \in Procs
                   PROVE  /\ tok'[q] < fresh'
                          /\ pc'[q] \in Unsaved => tok'[q] # NoToken
                          /\ pc'[q] \in {"postFinish", "putFinish"} => grant'[q] # NoToken
        BY DEF TokensOK
      <3>1. tok'[q] < fresh' /\ (pc'[q] \in Unsaved => tok'[q] # NoToken)
        BY <2>1, <2>4, <1>0 DEF IInv, TokensOK, TypeOK, LocalsOK
      <3>2. pc'[q] \in {"postFinish", "putFinish"} => grant'[q] # NoToken
        BY <2>1, <2>4, <1>0 DEF IInv, TokensOK, TypeOK, LocalsOK, NoToken
      <3> QED
        BY <3>1, <3>2
    <2> QED
      BY <2>1, <2>2, <2>3, <2>4, <2>5, <1>0, FreshUnclaimed, Preserves DEF NoToken
  <1>15. ASSUME NEW p \in Procs, CallEvoltDelete(p) PROVE IInv'
    <2>1. regs' = regs /\ fresh' = fresh
      BY <1>15 DEF CallEvoltDelete, table
    <2>2. GoodTable(0, NoToken)
      BY <2>1, <1>0, <1>f, SameTable DEF NoToken
    <2>3. CASE Return(p)
      BY <2>1, <2>2, <2>3, <1>0, <1>f, FreshUnclaimed, ReturnPreserves DEF NoToken
    <2>4. CASE Goto(p, "drop") /\ UNCHANGED <<cur, prev, tok, grant>>
      <3>1. \A q \in Procs : Good(cur'[q], 0, NoToken) /\ Good(prev'[q], 0, NoToken)
        BY <2>1, <2>4, <1>0, <1>f, OldGood DEF NoToken
      <3>2. pc'[p] = "drop" /\ \A q \in Procs \ {p} : pc'[q] = pc[q]
        BY <2>4, OthersSame DEF Goto
      <3>3. TokensOK'
        BY <2>1, <2>4, <3>2 DEF IInv, TokensOK, Unsaved
      <3> QED
        BY <2>1, <2>2, <2>4, <3>1, <3>2, <3>3, <1>0, <1>f, FreshUnclaimed, Preserves
           DEF NoToken, Unsaved
    <2> QED
      BY <1>15, <2>3, <2>4 DEF CallEvoltDelete
  <1>16. ASSUME NEW p \in Procs, OCPIAuth(p) PROVE IInv'
    <2> PICK id \in DOMAIN regs, handler \in Handlers :
          Keep(p, CopyOf(id)) /\ Goto(p, handler)
      BY <1>16 DEF OCPIAuth, RowsWithToken
    <2>1. handler \in Labels \ (Unsaved \cup {"postFinish", "putFinish"})
      BY DEF Labels, Unsaved, Handlers
    <2>2. CopyOf(id) \in {CopyOf(i) : i \in DOMAIN regs}
      OBVIOUS
    <2> QED
      BY <1>16, <2>1, <2>2, <1>k DEF OCPIAuth, table
  <1>r. ASSUME NEW p \in Procs, Return(p), regs' = regs, fresh' = fresh PROVE IInv'
    <2>1. GoodTable(0, NoToken)
      BY <1>r, <1>0, <1>f, SameTable DEF NoToken
    <2> QED
      BY <1>r, <2>1, <1>0, <1>f, FreshUnclaimed, ReturnPreserves DEF NoToken
  <1>17. ASSUME NEW p \in Procs, Refuse(p) PROVE IInv'
    BY <1>17, <1>r DEF Refuse, table
  <1>t. ASSUME NEW p \in Procs, NEW row \in Row, TakeCredentials(p, row)
        PROVE  /\ GoodTable(cur[p].id, fresh) /\ cur[p].id \in Nat
               /\ fresh' = fresh + 2 /\ fresh' >= fresh
    <2> DEFINE taken == [row EXCEPT !.in = fresh, !.out = fresh + 1]
               copy == [id |-> cur[p].id, row |-> taken]
    <2>1. fresh \in Nat /\ fresh + 1 \in Nat
      BY <1>0
    <2>2. taken \in Row /\ taken.in = fresh /\ taken.out = fresh + 1
      BY <2>1, RowWith DEF Row
    <2>3. fresh' = fresh + 2 /\ fresh' >= fresh /\ Write(copy)
      BY <1>t, <1>0 DEF TakeCredentials
    <2> HIDE DEF taken
    <2>4. copy \in Copy /\ cur[p].id \in Nat
      BY <2>2, <1>0, LocalsType DEF TypeOK, Copy
    <2>5. Good(copy, cur[p].id, fresh)
      BY <2>2, <2>3, <1>0 DEF Good, RowOK, NoToken
    <2> QED
      BY <2>1, <2>3, <2>4, <2>5, <1>0, GoodWrite
  \* The answer of a handler leaves p outside the requests that hold a token.
  <1>a. ASSUME NEW p \in Procs, NEW x \in Nat, NEW y \in Nat,
               NEW token \in Nat, NEW given \in Nat,
               Answer(p, token, given), token < fresh', fresh' >= fresh,
               GoodTable(x, y), y \in {NoToken, fresh}
        PROVE  IInv'
    <2>1. /\ pc'[p] = "reply" /\ tok'[p] = token /\ cur' = cur /\ prev' = prev
          /\ \A q \in Procs \ {p} : pc'[q] = pc[q] /\ tok'[q] = tok[q] /\ grant'[q] = grant[q]
      BY <1>a, <1>0 DEF Answer, Goto, TypeOK, LocalsOK
    <2>2. \A q \in Procs : Good(cur'[q], x, y) /\ Good(prev'[q], 0, NoToken)
      BY <1>a, <2>1, <1>0, OldGood DEF NoToken
    <2>3. TokensOK'
      <3> SUFFICES ASSUME NEW q \in Procs
                   PROVE  /\ tok'[q] < fresh'
                          /\ pc'[q] \in Unsaved => tok'[q] # NoToken
                          /\ pc'[q] \in {"postFinish", "putFinish"} => grant'[q] # NoToken
        BY DEF TokensOK
      <3>1. CASE q = p
        BY <1>a, <2>1, <3>1 DEF Unsaved
      <3>2. CASE q # p
        BY <1>a, <2>1, <3>2, <1>0 DEF IInv, TokensOK, TypeOK, LocalsOK
      <3> QED
        BY <3>1, <3>2
    <2> QED
      BY <1>a, <2>1, <2>2, <2>3, <1>0, FreshUnclaimed, Preserves DEF Unsaved
  <1>18. ASSUME NEW p \in Procs, PostCredentials(p) PROVE IInv'
    <2> PICK creds \in BOOLEAN :
          TakeCredentials(p, [cur[p].row EXCEPT !.status = Registered, !.creds = creds])
      BY <1>18 DEF PostCredentials
    <2>1. [cur[p].row EXCEPT !.status = Registered, !.creds = creds] \in Row
      BY <1>0, LocalsType, RowWith DEF TypeOK
    <2>2. Answer(p, fresh, fresh + 1)
      BY <1>18 DEF PostCredentials
    <2> QED
      BY <2>1, <2>2, <1>t, <1>a, <1>0
  <1>19. ASSUME NEW p \in Procs, PutCredentials(p) PROVE IInv'
    <2>1. TakeCredentials(p, cur[p].row) /\ cur[p].row \in Row
      BY <1>19, <1>0, LocalsType DEF PutCredentials, TypeOK
    <2>2. CASE Return(p)
      BY <2>1, <2>2, <1>t, <1>0, FreshUnclaimed, ReturnPreserves
    <2>3. CASE Answer(p, fresh, fresh + 1)
      BY <2>1, <2>3, <1>t, <1>a, <1>0
    <2> QED
      BY <1>19, <2>2, <2>3 DEF PutCredentials
  <1>20. ASSUME NEW p \in Procs, DeleteCredentials(p) PROVE IInv'
    <2>1. /\ regs' = DeleteRegistration(regs, cur[p].id) /\ fresh' = fresh
          /\ cur[p].id \in Nat
      BY <1>20, <1>0, LocalsType DEF DeleteCredentials, TypeOK
    <2>2. GoodTable(0, NoToken)
      BY <2>1, <1>0, <1>f, GoodDrop DEF NoToken
    <2>3. CASE Return(p)
      BY <2>1, <2>2, <2>3, <1>0, <1>f, FreshUnclaimed, ReturnPreserves DEF NoToken
    <2>4. CASE Answer(p, NoToken, NoToken)
      BY <2>1, <2>2, <2>4, <1>a, <1>0, <1>f DEF NoToken
    <2> QED
      BY <1>20, <2>3, <2>4 DEF DeleteCredentials
  <1>21. ASSUME NEW p \in Procs, Reply(p) PROVE IInv'
    BY <1>21, <1>r DEF Reply, table
  <1>22. ASSUME NEW p \in Procs, Cancel(p) PROVE IInv'
    BY <1>22, <1>0 DEF Cancel, table, history, IInv, RowsOK, CopiesOK, TokensOK,
                       OneOwner, Reserved, Claim
  <1>23. ASSUME NEW p \in Procs, Abort(p) PROVE IInv'
    BY <1>23, <1>r DEF Abort, table
  <1>24. ASSUME Done PROVE IInv'
    BY <1>24, <1>s DEF Done
  <1> QED
    BY <1>s, <1>1, <1>2, <1>3, <1>4, <1>5, <1>6, <1>7, <1>8, <1>9, <1>10, <1>11,
       <1>12, <1>13, <1>14, <1>15, <1>16, <1>17, <1>18, <1>19, <1>20, <1>21,
       <1>22, <1>23, <1>24 DEF Next

LEMMA Inductive == Spec => []IInv
  BY InitIInv, NextIInv, PTL DEF Spec

LEMMA UniqueFromIInv == IInv => TokenUnique
  <1> SUFFICES ASSUME IInv, NEW i \in DOMAIN regs, NEW j \in DOMAIN regs,
                      regs[i].in = regs[j].in
               PROVE  i = j
    BY DEF TokenUnique
  <1>1. i \in Nat /\ j \in Nat /\ regs[i].in \in Nat
    BY DEF IInv, TypeOK, TableOK, Row
  <1> QED
    BY <1>1 DEF IInv, OneOwner, Claim

LEMMA CompleteFromIInv == IInv => RegisteredComplete
  BY DEF IInv, RowsOK, RowOK, RegisteredComplete

\* No two rows carry the same inbound token, whatever requests are in flight,
\* however they interleave and wherever their contexts are cancelled: the first
\* row FindByInboundToken matches is the only one.
THEOREM TokenUniqueAlways == Spec => []TokenUnique
  BY Inductive, UniqueFromIInv, PTL

\* A REGISTERED row has both its tokens, although it is written from copies
\* that other requests may have made stale.
THEOREM RegisteredCompleteAlways == Spec => []RegisteredComplete
  BY Inductive, CompleteFromIInv, PTL
=============================================================================
