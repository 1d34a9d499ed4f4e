--------------------------- MODULE ReadCommitted ---------------------------
(***************************************************************************)
(* The part of PostgreSQL that the server's withTransaction relies on:     *)
(* transactions at the default isolation level, READ COMMITTED, over rows  *)
(* that are locked one at a time.                                          *)
(*                                                                         *)
(*   - a SELECT sees the latest committed version of a row, or the version *)
(*     its own transaction wrote;                                          *)
(*   - an UPDATE, DELETE, SELECT ... FOR UPDATE or INSERT on a unique key  *)
(*     waits until no other transaction holds the row, then works on the   *)
(*     version it finds THEN, and holds the row until its transaction      *)
(*     ends;                                                               *)
(*   - COMMIT publishes what the transaction wrote, ROLLBACK (an exception *)
(*     in the callback, a lost connection, a killed server) drops it.      *)
(*                                                                         *)
(* A row that does not exist is a row whose version is NoRow, so the key   *)
(* of a pending INSERT is locked like any other row.                       *)
(***************************************************************************)
CONSTANTS NoProc,   \* no transaction holds the row
          NoRow     \* the version of a row that does not exist

VARIABLES db,       \* row -> its latest committed version
          pend,     \* row -> the version its owner will commit
          owner     \* row -> the transaction that holds it, or NoProc

rcVars == <<db, pend, owner>>

RcInit(rows) == db = rows /\ pend = rows /\ owner = [r \in DOMAIN rows |-> NoProc]

\* What a SELECT in p's transaction returns for row r.
Sees(p, r) == IF owner[r] = p THEN pend[r] ELSE db[r]

\* p's statement on row r need not wait.
CanLock(p, r) == owner[r] \in {p, NoProc}

\* p waits for a row another transaction holds.
WaitsFor(p, q, r) == owner[r] = q /\ q \notin {p, NoProc}

\* p writes version v of row r, having waited for the row.
Put(p, r, v) ==
  /\ CanLock(p, r)
  /\ pend'  = [pend EXCEPT ![r] = v]
  /\ owner' = [owner EXCEPT ![r] = p]
  /\ UNCHANGED db

\* p writes the versions new (row -> version) of rows it need not wait for.
PutAll(p, new) ==
  /\ \A r \in DOMAIN new : CanLock(p, r)
  /\ pend'  = [r \in DOMAIN pend |-> IF r \in DOMAIN new THEN new[r] ELSE pend[r]]
  /\ owner' = [r \in DOMAIN owner |-> IF r \in DOMAIN new THEN p ELSE owner[r]]
  /\ UNCHANGED db

\* A statement outside any transaction writes version v of row r.
WriteNow(p, r, v) ==
  /\ CanLock(p, r)
  /\ db'   = [db EXCEPT ![r] = v]
  /\ pend' = [pend EXCEPT ![r] = v]
  /\ UNCHANGED owner

\* SELECT ... FOR UPDATE of an existing row.
ForUpdate(p, r) == Put(p, r, Sees(p, r))

Released(p) == [r \in DOMAIN owner |-> IF owner[r] = p THEN NoProc ELSE owner[r]]

Commit(p) ==
  /\ db' = [r \in DOMAIN db |-> Sees(p, r)]
  /\ owner' = Released(p)
  /\ UNCHANGED pend

Rollback(p) ==
  /\ pend' = [r \in DOMAIN db |-> IF owner[r] = p THEN db[r] ELSE pend[r]]
  /\ owner' = Released(p)
  /\ UNCHANGED db

\* ROLLBACK TO SAVEPOINT: of p's rows, those it wrote since are dropped.
RollbackTo(p, since) ==
  /\ pend' = [r \in DOMAIN db |-> IF r \in since /\ owner[r] = p THEN db[r] ELSE pend[r]]
  /\ owner' = [r \in DOMAIN owner |-> IF r \in since /\ owner[r] = p THEN NoProc ELSE owner[r]]
  /\ UNCHANGED db

\* Nothing but an open transaction separates the pending and committed rows.
PendingIsOwned == \A r \in DOMAIN db : owner[r] = NoProc => pend[r] = db[r]
=============================================================================
