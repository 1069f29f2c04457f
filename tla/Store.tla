------------------------------- MODULE Store -------------------------------
(***************************************************************************)
(* The DataStore behind the program: SqliteDataStore and                   *)
(* PostgresDataStore, with several coroutines saving at a time.            *)
(*                                                                         *)
(* SqliteDataStore has one connection for everyone.  A save awaits         *)
(* execute() for each row and then commit(): the first row opens a         *)
(* transaction that belongs to the connection, other coroutines' rows get  *)
(* into it, reads see it, and whoever commits first commits all of it.     *)
(* PostgresDataStore runs each save as a statement of its own on a         *)
(* connection of the pool.                                                 *)
(*                                                                         *)
(* A record is a table and a key; StoreTables says what its columns hold.  *)
(***************************************************************************)
EXTENDS StoreTables, Sequences

CONSTANTS Callers,      \* the coroutines that save
          Records,      \* <<table, key>>
          Scopes,       \* bound: the sets of records a behaviour may be about
          MaxSaves      \* bound: saves that are made

ASSUME StoreAssumption == /\ \A r \in Records : r[1] \in Tables
                          /\ Scopes \subseteq SUBSET Records
                          /\ MaxSaves \in Nat

VARIABLES scope,        \* the records this behaviour is about
          backend,      \* "sqlite" or "postgres"
          disk,         \* record -> the row that is committed, or None
          open,         \* record -> the rows written in the open transaction
          calls,        \* caller -> the rows it has yet to write, the records it has
                        \* written, whether its last save raised an exception
          count         \* saves made so far
storeVars == <<scope, backend, disk, open, calls, count>>

Nothing == [r \in {} |-> None]
Idle == [todo |-> Nothing, done |-> {}, raised |-> FALSE]
Failed == [Idle EXCEPT !.raised = TRUE]
Idling(c) == calls[c] \in {Idle, Failed}
Without(f, S) == [r \in DOMAIN f \ S |-> f[r]]

Latest(s) == s[Len(s)]
\* the versions of a record in the database: committed, and in the transaction
Stored(r) == <<disk[r]>> \o open[r]

----------------------------------------------------------------------------
(* Rows *)
\* what a save writes for a row
Written(r, row) == IF backend = "sqlite" THEN Blanked(row, Table[r[1]].blank)
                                         ELSE Blanked(row, Pg[r[1]].written)

\* what the database holds when it has been written over the row old
Merged(r, old, row) ==
    IF backend = "sqlite" \/ old = None THEN row
    ELSE [x \in DOMAIN row |-> IF x \in Pg[r[1]].sets THEN row[x] ELSE old[x]]

\* what a get makes of a row that is stored
Read(r, row) == IF row = None \/ backend = "sqlite" THEN row ELSE Blanked(row, Pg[r[1]].read)

\* the row of a new record, and that of a record some columns of which have changed;
\* v is the value of the columns that can have it
NewRow(t, n, v) == [x \in Table[t].columns |-> IF v \in Values(x, n) THEN v ELSE n]
Changed(t, row, n, v) == LET new == NewRow(t, n, v) IN
    [x \in DOMAIN row |-> IF x \in Again[t] THEN new[x] ELSE row[x]]

----------------------------------------------------------------------------
(* Actions *)
Call(c, todo) ==
    /\ Idling(c) /\ count < MaxSaves
    /\ calls' = [calls EXCEPT ![c] = [Idle EXCEPT !.todo = todo]]
    /\ count' = count + 1
    /\ UNCHANGED <<scope, backend, disk, open>>

\* a record has one creator
BeingMade(r) == Latest(Stored(r)) = None /\ \E c \in Callers : r \in DOMAIN calls[c].todo

\* save_...(): a new record, or an older one with what has changed
SaveNew(c, r) ==
    /\ Latest(Stored(r)) = None /\ ~BeingMade(r)
    /\ \E v \in {count + 1, None, Zero} : Call(c, [x \in {r} |-> NewRow(r[1], count + 1, v)])
SaveAgain(c, r) ==
    /\ Latest(Stored(r)) # None /\ Again[r[1]] # {}
    /\ \E v \in {count + 1, None, Zero} :
          Call(c, [x \in {r} |-> Changed(r[1], Read(r, Latest(Stored(r))), count + 1, v)])

\* upsert_candles(): bars known and new
UpsertCandles(c) ==
    \E S \in SUBSET {r \in scope : r[1] = "candles"} :
        S # {} /\ Call(c, [r \in S |-> NewRow("candles", count + 1, count + 1)])

\* execute(): one row gets into the connection's transaction
ExecuteSqlite(c) ==
    /\ backend = "sqlite"
    /\ \E r \in DOMAIN calls[c].todo :
          /\ open' = [open EXCEPT ![r] = Append(@, Written(r, calls[c].todo[r]))]
          /\ calls' = [calls EXCEPT ![c].todo = Without(@, {r}), ![c].done = @ \cup {r}]
    /\ UNCHANGED <<scope, backend, disk, count>>

\* mutant: the caller goes on without its commit
Commit_Not(c) ==
    /\ backend = "sqlite" /\ calls[c].todo = Nothing /\ calls[c].done # {}
    /\ calls' = [calls EXCEPT ![c] = Idle]
    /\ UNCHANGED <<scope, backend, disk, open, count>>
\* mutant: the caller waits for a transaction of its own
Commit_Own(c) ==
    /\ backend = "sqlite" /\ calls[c].todo = Nothing /\ calls[c].done # {}
    /\ \A r \in calls[c].done : open[r] # <<>>
    /\ disk' = [r \in Records |-> Latest(Stored(r))]
    /\ open' = [r \in Records |-> <<>>]
    /\ calls' = [calls EXCEPT ![c] = Idle]
    /\ UNCHANGED <<scope, backend, count>>

\* commit(): everyone's rows
Commit(c) ==
    /\ backend = "sqlite" /\ calls[c].todo = Nothing /\ calls[c].done # {}
    /\ disk' = [r \in Records |-> Latest(Stored(r))]
    /\ open' = [r \in Records |-> <<>>]
    /\ calls' = [calls EXCEPT ![c] = Idle]
    /\ UNCHANGED <<scope, backend, count>>

\* a statement, or executemany(): all rows or none
ExecutePostgres(c) ==
    /\ backend = "postgres" /\ calls[c].todo # Nothing
    /\ LET todo == calls[c].todo IN
          disk' = [r \in Records |-> IF r \in DOMAIN todo
                                     THEN Merged(r, disk[r], Written(r, todo[r])) ELSE disk[r]]
    /\ calls' = [calls EXCEPT ![c].todo = Nothing, ![c].done = DOMAIN calls[c].todo]
    /\ UNCHANGED <<scope, backend, open, count>>

ReturnPostgres(c) ==
    /\ backend = "postgres" /\ calls[c].todo = Nothing /\ calls[c].done # {}
    /\ calls' = [calls EXCEPT ![c] = Idle]
    /\ UNCHANGED <<scope, backend, disk, open, count>>

\* the database refuses (locked by another connection, connection lost) or the
\* coroutine is cancelled: what it has executed stays where it is
Fail(c) ==
    /\ ~Idling(c)
    /\ calls' = [calls EXCEPT ![c] = Failed]
    /\ UNCHANGED <<scope, backend, disk, open, count>>

\* the process dies, or disconnects: the transaction is rolled back
Stop ==
    /\ open' = [r \in Records |-> <<>>]
    /\ calls' = [c \in Callers |-> Idle]
    /\ UNCHANGED <<scope, backend, disk, count>>

StoreInit ==
    /\ scope \in Scopes
    /\ backend \in {"sqlite", "postgres"}
    /\ disk = [r \in Records |-> None]
    /\ open = [r \in Records |-> <<>>]
    /\ calls = [c \in Callers |-> Idle]
    /\ count = 0

Continue(c) == ExecuteSqlite(c) \/ Commit(c) \/ ExecutePostgres(c) \/ ReturnPostgres(c)
StoreNext ==
    \/ Stop
    \/ \E c \in Callers :
          \/ \E r \in scope : SaveNew(c, r) \/ SaveAgain(c, r)
          \/ UpsertCandles(c) \/ Continue(c) \/ Fail(c)

\* The database answers, and the event loop resumes who waits for it.
StoreSpec == StoreInit /\ [][StoreNext]_storeVars /\ \A c \in Callers : WF_storeVars(Continue(c))

----------------------------------------------------------------------------
(* Properties *)
\* What a row says: zero or empty is nothing in a blank column.  PostgresDataStore
\* keeps the price of an order it has, so that is left out there.
Lost(r) == IF backend = "postgres" /\ r[1] = "orders" THEN {"price"} ELSE {}
Seen(r, row) == IF row = None THEN None
                ELSE Without(Blanked(row, Table[r[1]].blank), Lost(r))

SeenVersions == [r \in Records |-> [i \in 1 .. Len(Stored(r)) |-> Seen(r, Read(r, Stored(r)[i]))]]
SeenCalls == [c \in Callers |->
                 [todo |-> [r \in DOMAIN calls[c].todo |-> Seen(r, calls[c].todo[r])],
                  done |-> calls[c].done, raised |-> calls[c].raised]]
Promise == INSTANCE RecordStore WITH versions <- SeenVersions, calls <- SeenCalls

\* With either backend, a read returns the row saved last, and a save that has
\* returned is there after a crash, whatever the other coroutines do in between: a
\* shared transaction and a partial list of columns included.
Keeps == Promise!Spec

\* Each save ends, whoever commits its rows.
SavesEnd == \A c \in Callers : ~Idling(c) ~> Idling(c)
=============================================================================
