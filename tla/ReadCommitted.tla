--------------------------- MODULE ReadCommitted ---------------------------
(***************************************************************************)
(* What the code relies on of PostgreSQL at its default isolation level,   *)
(* READ COMMITTED (postgres.go sets no other), one statement at a time.    *)
(*                                                                         *)
(* A statement sees the last committed version of each row, and the        *)
(* uncommitted ones of its own transaction.  A write to a row that another *)
(* transaction has written waits for it to end, and then applies to the    *)
(* version it left; a statement that matches no committed row does not     *)
(* wait.  A statement whose WHERE looks at the row it changes and nothing  *)
(* else is therefore one step, taken when the row is free.                 *)
(***************************************************************************)
EXTENDS Naturals, FiniteSets

CONSTANT Nobody  \* holds the lock of no row

VARIABLES db,    \* the committed version of each row
          lock,  \* the session whose transaction wrote the row, or Nobody
          draft  \* the version that transaction wrote; the committed one if none

rows == <<db, lock, draft>>

Sees(s, r) == IF lock[r] = s THEN draft[r] ELSE db[r]

Free(s, r) == lock[r] \in {s, Nobody}

Held(s) == {r \in DOMAIN lock : lock[r] = s}

\* A write, or SELECT ... FOR UPDATE, inside a transaction.
Write(s, r, version) ==
    /\ Free(s, r)
    /\ lock' = [lock EXCEPT ![r] = s]
    /\ draft' = [draft EXCEPT ![r] = version]
    /\ UNCHANGED db

\* The same as a transaction of its own.
Store(r, version) ==
    /\ lock[r] = Nobody
    /\ db' = [db EXCEPT ![r] = version]
    /\ draft' = [draft EXCEPT ![r] = version]
    /\ UNCHANGED lock

Unlock(s) == lock' = [r \in DOMAIN lock |-> IF lock[r] = s THEN Nobody ELSE lock[r]]

Commit(s) ==
    /\ Unlock(s)
    /\ db' = [r \in DOMAIN db |-> Sees(s, r)]
    /\ UNCHANGED draft

Rollback(s) ==
    /\ Unlock(s)
    /\ draft' = [r \in DOMAIN db |-> IF lock[r] = s THEN db[r] ELSE draft[r]]
    /\ UNCHANGED db
============================================================================
