------------------------- MODULE RegistrationStore -------------------------
(***************************************************************************)
(* The registrations table of one partner (internal/store/registrations.go *)
(* and the schema in store.go).  A table is a function from the ids of its *)
(* rows to the rows; every operator below is one SQL statement, and one    *)
(* statement is the unit of atomicity: no caller opens a transaction.      *)
(*                                                                         *)
(* A token is a number, 0 the empty string.  Of a row the model keeps what *)
(* the credentials protocol reads: the token the counterparty presents     *)
(* (in), the token we present (out), the status, and whether the stored    *)
(* endpoints name a RECEIVER credentials endpoint (creds).  Party names,   *)
(* URLs and timestamps are left out; so is initiated_by, which the UPDATE  *)
(* statement never writes and no handler reads.                            *)
(***************************************************************************)
EXTENDS Naturals

NoToken == 0

Pending == "PENDING"
Registered == "REGISTERED"

Row == [in: Nat, out: Nat, status: {Pending, Registered}, creds: BOOLEAN]

PendingRow(token, creds) ==
  [in |-> token, out |-> NoToken, status |-> Pending, creds |-> creds]

\* Which ids of S an "ORDER BY id" puts first: none when S is empty.
IsFirst(id, S) == id \in S /\ \A other \in S : id <= other

\* INSERT ... RETURNING: the next id of the sequence, never one used before.
CreateRegistration(table, id, row) ==
  [i \in DOMAIN table \cup {id} |-> IF i = id THEN row ELSE table[i]]

\* Mutants: an UPDATE that inserts a row it does not find, and one without its
\* WHERE clause.
InsertingUpdate(table, id, row) ==
  [i \in DOMAIN table \cup {id} |-> IF i = id THEN row ELSE table[i]]

UpdateEveryRow(table, id, row) == [i \in DOMAIN table |-> row]

\* UPDATE ... WHERE id: the whole row, from the caller's copy.  A row deleted
\* meanwhile is no error: zero rows change and the caller is not told.
UpdateRegistration(table, id, row) ==
  [i \in DOMAIN table |-> IF i = id THEN row ELSE table[i]]

DeleteRegistration(table, id) == [i \in DOMAIN table \ {id} |-> table[i]]

DeleteAllRegistrations == [i \in {} |-> PendingRow(NoToken, FALSE)]

RegisteredRows(table) == {i \in DOMAIN table : table[i].status = Registered}

\* FindByInboundToken walks the rows by id and takes the first that matches;
\* an empty stored token matches nothing.
RowsWithToken(table, token) ==
  {i \in DOMAIN table : table[i].in # NoToken /\ table[i].in = token}
=============================================================================
