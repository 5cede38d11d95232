--------------------------- MODULE PostgresWriter ---------------------------
(***************************************************************************)
(* PostgreSQLStorage.insert as the report threads of the server call it on *)
(* the one storage object of the process: an attempt under the lock, and   *)
(* after an error a reset of the connection and a reconnect outside it,    *)
(* then a second attempt, and the dump file as the last resort.            *)
(*                                                                         *)
(* self._conn is read anew for every call made on it.  _init_db publishes  *)
(* a connection before it has created the schema on it, so the threads see *)
(* half-initialised connections and may have several of them in use.       *)
(*                                                                         *)
(* Of psycopg2: one statement at a time per connection (its mutex), and a  *)
(* connection that nothing refers to is closed.  Of PostgreSQL: CREATE     *)
(* INDEX waits for the uncommitted rows of the other connections, and an   *)
(* INSERT for their uncommitted CREATE INDEX, and where two statements     *)
(* wait for each other it fails one.  The order of its lock queue is left  *)
(* out, and so are the columns missing from old tables.                    *)
(***************************************************************************)
EXTENDS Naturals, FiniteSets

CONSTANTS
  Writers,     \* the calls of insert
  Connections, \* names for psycopg2 connections; a closed one's is used again
  MaxFaults,   \* bound: dropped backends and refused connects
  Null         \* None

WriterAssumption ==
  /\ Null \notin Writers \cup Connections
  /\ MaxFaults \in Nat

VARIABLES
  conn,     \* self._conn
  lock,     \* who holds self._lock
  link,     \* each connection: open, dead (its backend is gone) or closed
  txn,      \* its transaction: none, begun, begun with the table locked for
            \* an index (shared), or aborted
  pending,  \* the rows inserted in that transaction
  rows,     \* the committed rows
  bad,      \* the database rejects the record (a type or a length)
  pc,       \* where each call is
  held,     \* the connection of the call that it makes
  cursor,   \* that of insert's cur, kept until it is bound again
  ddl,      \* that of _init_db's cur
  retrying, \* it is at its second attempt
  outcome,  \* how it ended
  alone,    \* no other call ran while it did (this and the next: not in the code)
  calm,     \* no fault happened while it ran
  faults

vars == <<conn, lock, link, txn, pending, rows, bad, pc, held, cursor, ddl,
          retrying, outcome, alone, calm, faults>>

Outcomes == {"none", "returned", "dumped", "raised"}

\* The steps that call a connection, and those between them.
Calls == {"probing", "discarding", "create", "index", "indexing", "publishing",
          "execute", "inserting", "committing", "rollback", "close"}
Steps == Calls \cup {"idle", "ensure", "probe", "discard", "drop", "open",
                     "tables", "publish", "opened", "wait", "cursor", "commit",
                     "reset", "forget", "done"}

TypeOK ==
  /\ conn \in Connections \cup {Null}
  /\ lock \in Writers \cup {Null}
  /\ link \in [Connections -> {"open", "dead", "closed"}]
  /\ txn \in [Connections -> {"none", "begun", "shared", "aborted"}]
  /\ pending \in [Connections -> SUBSET Writers]
  /\ rows \subseteq Writers
  /\ bad \in [Writers -> BOOLEAN]
  /\ pc \in [Writers -> Steps]
  /\ held \in [Writers -> Connections \cup {Null}]
  /\ cursor \in [Writers -> Connections \cup {Null}]
  /\ ddl \in [Writers -> Connections \cup {Null}]
  /\ retrying \in [Writers -> BOOLEAN]
  /\ outcome \in [Writers -> Outcomes]
  /\ alone \in [Writers -> BOOLEAN]
  /\ calm \in [Writers -> BOOLEAN]
  /\ faults \in 0 .. MaxFaults
  /\ \A w \in Writers : pc[w] \in Calls => held[w] # Null

\* The database was down when the storage was constructed.
Init ==
  /\ conn = Null
  /\ lock = Null
  /\ link = [k \in Connections |-> "closed"]
  /\ txn = [k \in Connections |-> "none"]
  /\ pending = [k \in Connections |-> {}]
  /\ rows = {}
  /\ bad \in [Writers -> BOOLEAN]
  /\ pc = [w \in Writers |-> "idle"]
  /\ held = [w \in Writers |-> Null]
  /\ cursor = [w \in Writers |-> Null]
  /\ ddl = [w \in Writers |-> Null]
  /\ retrying = [w \in Writers |-> FALSE]
  /\ outcome = [w \in Writers |-> "none"]
  /\ alone = [w \in Writers |-> FALSE]
  /\ calm = [w \in Writers |-> FALSE]
  /\ faults = 0

-----------------------------------------------------------------------------
Running(w) == pc[w] \notin {"idle", "done"}
At(w, s) == pc[w] = s

Observed == UNCHANGED <<bad, alone, calm, faults>>
Database == <<link, txn, pending, rows>>
Locals == <<cursor, ddl, retrying, outcome>>

\* The call goes on to step s, with connection k in hand.
Moves(w, s, k) ==
  /\ pc' = [pc EXCEPT ![w] = s]
  /\ held' = [held EXCEPT ![w] = k]
Goes(w, s) == Moves(w, s, Null) /\ UNCHANGED Locals

\* The call ends; its locals are gone, and the lock it may have is released.
Ends(w, how) ==
  /\ Moves(w, "done", Null)
  /\ outcome' = [outcome EXCEPT ![w] = how]
  /\ cursor' = [cursor EXCEPT ![w] = Null]
  /\ ddl' = [ddl EXCEPT ![w] = Null]
  /\ retrying' = [retrying EXCEPT ![w] = FALSE]

Released(w) == lock' = IF lock = w THEN Null ELSE lock

\* AttributeError on None, or a probe in an aborted transaction: nothing
\* catches it.
Raises(w) == Ends(w, "raised") /\ Released(w)

NeverLast(w) == FALSE
LastTry(w) == retrying[w]

FailsUndumped(w) ==
  /\ Released(w)
  /\ IF LastTry(w) THEN Ends(w, "returned") ELSE Goes(w, "reset")

\* psycopg2.Error in an attempt: the second one dumps, the first one resets.
Fails(w) ==
  /\ Released(w)
  /\ IF LastTry(w) THEN Ends(w, "dumped") ELSE Goes(w, "reset")

\* psycopg2.Error in _init_db: the record is dumped.
InitFails(w) == conn' = Null /\ Ends(w, "dumped") /\ UNCHANGED lock

\* self._conn.x(): on the connection that the storage has at that moment.
Reads(w, s) ==
  \/ conn = Null /\ Raises(w)
  \/ conn # Null /\ Moves(w, s, conn) /\ UNCHANGED <<lock, Locals>>

\* The mutex of the connection in hand is free.
Free(w) ==
  \A v \in Writers \ {w} :
    pc[v] \in {"indexing", "inserting"} => held[v] # held[w]

\* Nothing refers to it any more, so it is collected, and closed with that.
Unused(k) == conn # k /\ \A v \in Writers : k \notin {held[v], cursor[v], ddl[v]}
Live(k) == link[k] = "open" /\ ~Unused(k)

\* The statement that w has sent waits for the transaction of connection k.
WaitsFor(w, k) ==
  /\ k # held[w]
  /\ Live(k)
  /\ \/ At(w, "indexing") /\ pending[k] # {}
     \/ At(w, "inserting") /\ txn[k] = "shared"
Blocked(w) == \E k \in Connections : WaitsFor(w, k)

\* The database sees a cycle of two waits (any longer cycle has one).
Deadlocked(w) ==
  \E v \in Writers : Blocked(v) /\ WaitsFor(w, held[v]) /\ WaitsFor(v, held[w])

\* A statement on k fails; and what one that succeeds leaves of its transaction.
Rejects(k) == link[k] # "open" \/ txn[k] = "aborted"
TxnBegun(k) == [txn EXCEPT ![k] = IF @ = "none" THEN "begun" ELSE @]

Aborts(k) ==
  /\ txn' = [txn EXCEPT ![k] = "aborted"]
  /\ pending' = [pending EXCEPT ![k] = {}]

\* What the end of a transaction, and of connection k itself, leave of it.
TxnEnded(k) == txn' = [txn EXCEPT ![k] = "none"] /\ pending' = [pending EXCEPT ![k] = {}]
Closed(k) == link' = [link EXCEPT ![k] = "closed"] /\ TxnEnded(k)

Commits(k) == rows' = rows \cup pending[k] /\ TxnEnded(k)

-----------------------------------------------------------------------------
Begin(w) ==
  /\ At(w, "idle")
  /\ Goes(w, IF conn = Null THEN "ensure" ELSE "wait")
  /\ alone' = [v \in Writers |-> IF v = w THEN \A u \in Writers : ~Running(u)
                                 ELSE alone[v] /\ ~Running(v)]
  /\ calm' = [calm EXCEPT ![w] = TRUE]
  /\ UNCHANGED <<conn, lock, Database, bad, faults>>

\* _ensure_connected.
Ensure(w) ==
  /\ At(w, "ensure")
  /\ Goes(w, IF conn = Null THEN "open" ELSE "probe")
  /\ UNCHANGED <<conn, lock, Database>> /\ Observed

\* SELECT 1.  An aborted transaction raises an error it does not catch.
ReadToProbe(w) ==
  /\ At(w, "probe")
  /\ Reads(w, "probing")
  /\ UNCHANGED <<conn, Database>> /\ Observed

Probe(w) ==
  LET k == held[w]
  IN  /\ At(w, "probing") /\ Free(w)
      /\ \/ link[k] # "open" /\ Goes(w, "discard") /\ UNCHANGED <<lock, txn>>
         \/ link[k] = "open" /\ txn[k] = "aborted" /\ Raises(w) /\ UNCHANGED txn
         \/ ~Rejects(k) /\ Goes(w, "wait") /\ txn' = TxnBegun(k) /\ UNCHANGED lock
      /\ UNCHANGED <<conn, link, pending, rows>> /\ Observed

\* The probe failed: whatever self._conn now is gets closed, and then dropped.
Discard(w) ==
  /\ At(w, "discard")
  /\ Moves(w, IF conn = Null THEN "drop" ELSE "discarding", conn)
  /\ UNCHANGED <<conn, lock, Database, Locals>> /\ Observed

Discarding(w) ==
  /\ At(w, "discarding") /\ Free(w)
  /\ Closed(held[w])
  /\ Goes(w, "drop")
  /\ UNCHANGED <<conn, lock, rows>> /\ Observed

Drop(w) ==
  /\ At(w, "drop")
  /\ conn' = Null
  /\ Goes(w, "open")
  /\ UNCHANGED <<lock, Database>> /\ Observed

-----------------------------------------------------------------------------
\* _init_db: the new connection is the storage's before it has a schema.
Fresh == CHOOSE k \in Connections : Unused(k)

Open(w) ==
  /\ At(w, "open")
  /\ \E k \in Connections : Unused(k)
  /\ conn' = Fresh
  /\ link' = [link EXCEPT ![Fresh] = "open"]
  /\ TxnEnded(Fresh)
  /\ Goes(w, "tables")
  /\ UNCHANGED <<lock, rows>> /\ Observed

ConnectRefused(w) ==
  /\ At(w, "open")
  /\ faults < MaxFaults
  /\ faults' = faults + 1
  /\ calm' = [v \in Writers |-> FALSE]
  /\ InitFails(w)
  /\ UNCHANGED <<Database, bad, alone>>

\* with self._conn.cursor() as cur
Tables(w) ==
  /\ At(w, "tables")
  /\ \/ conn = Null /\ Raises(w)
     \/ /\ conn # Null
        /\ Moves(w, "create", conn)
        /\ ddl' = [ddl EXCEPT ![w] = conn]
        /\ UNCHANGED <<lock, cursor, retrying, outcome>>
  /\ UNCHANGED <<conn, Database>> /\ Observed

\* CREATE TABLE and the checks of its columns.
Create(w) ==
  LET k == held[w]
  IN  /\ At(w, "create") /\ Free(w)
      /\ \/ Rejects(k) /\ InitFails(w) /\ UNCHANGED txn
         \/ /\ ~Rejects(k)
            /\ txn' = TxnBegun(k)
            /\ Moves(w, "index", k)
            /\ UNCHANGED <<conn, lock, Locals>>
      /\ UNCHANGED <<link, pending, rows>> /\ Observed

\* CREATE INDEX, once it is sent; its errors are logged.
Index(w) ==
  /\ At(w, "index") /\ Free(w)
  /\ Moves(w, "indexing", held[w])
  /\ UNCHANGED <<conn, lock, Database, Locals>> /\ Observed

Indexing(w) ==
  LET k == held[w]
  IN  /\ At(w, "indexing")
      /\ \/ Rejects(k) /\ UNCHANGED <<txn, pending>>
         \/ ~Rejects(k) /\ Deadlocked(w) /\ Aborts(k)
         \/ /\ ~Rejects(k) /\ ~Blocked(w)
            /\ txn' = [txn EXCEPT ![k] = "shared"]
            /\ UNCHANGED pending
      /\ Goes(w, "publish")
      /\ UNCHANGED <<conn, lock, link, rows>> /\ Observed

\* self._conn.commit(), on the connection the storage has by now.
ReadToPublish(w) ==
  /\ At(w, "publish")
  /\ Reads(w, "publishing")
  /\ UNCHANGED <<conn, Database>> /\ Observed

Publish(w) ==
  LET k == held[w]
  IN  /\ At(w, "publishing") /\ Free(w)
      /\ \/ link[k] # "open" /\ InitFails(w) /\ UNCHANGED <<txn, pending, rows>>
         \/ /\ link[k] = "open"
            /\ Commits(k)
            /\ Moves(w, "opened", Null)
            /\ ddl' = [ddl EXCEPT ![w] = Null]
            /\ UNCHANGED <<conn, lock, cursor, retrying, outcome>>
      /\ UNCHANGED link /\ Observed

\* return self._conn is not None; without a connection the record is dumped.
Opened(w) ==
  /\ At(w, "opened")
  /\ IF conn = Null THEN Ends(w, "dumped") ELSE Goes(w, "wait")
  /\ UNCHANGED <<conn, lock, Database>> /\ Observed

-----------------------------------------------------------------------------
Lock(w) ==
  /\ At(w, "wait")
  /\ lock = Null
  /\ lock' = w
  /\ Goes(w, "cursor")
  /\ UNCHANGED <<conn, Database>> /\ Observed

\* with self._conn.cursor() as cur
Cursor(w) ==
  /\ At(w, "cursor")
  /\ \/ conn = Null /\ Raises(w)
     \/ /\ conn # Null
        /\ Moves(w, "execute", conn)
        /\ cursor' = [cursor EXCEPT ![w] = conn]
        /\ UNCHANGED <<lock, ddl, retrying, outcome>>
  /\ UNCHANGED <<conn, Database>> /\ Observed

\* cur.execute(_INSERT_PG_SQL, fields), once it is sent.
Execute(w) ==
  /\ At(w, "execute") /\ Free(w)
  /\ Moves(w, "inserting", held[w])
  /\ UNCHANGED <<conn, lock, Database, Locals>> /\ Observed

Inserting(w) ==
  LET k == held[w]
  IN  /\ At(w, "inserting")
      /\ \/ Rejects(k) /\ Fails(w) /\ UNCHANGED <<txn, pending>>
         \/ /\ ~Rejects(k) /\ (Deadlocked(w) \/ (~Blocked(w) /\ bad[w]))
            /\ Fails(w)
            /\ Aborts(k)
         \/ /\ ~Rejects(k) /\ ~Blocked(w) /\ ~bad[w]
            /\ Goes(w, "commit")
            /\ txn' = TxnBegun(k)
            /\ pending' = [pending EXCEPT ![k] = @ \cup {w}]
            /\ UNCHANGED lock
      /\ UNCHANGED <<conn, link, rows>> /\ Observed

\* The connection whose transaction the attempt commits: self._conn again.
CommitOn(w) == conn

ReadToCommit(w) ==
  /\ At(w, "commit")
  /\ \/ CommitOn(w) = Null /\ Raises(w)
     \/ /\ CommitOn(w) # Null
        /\ Moves(w, "committing", CommitOn(w))
        /\ UNCHANGED <<lock, Locals>>
  /\ UNCHANGED <<conn, Database>> /\ Observed

\* On an aborted transaction it rolls back and reports no error.
Commit(w) ==
  LET k == held[w]
  IN  /\ At(w, "committing") /\ Free(w)
      /\ \/ link[k] # "open" /\ Fails(w) /\ UNCHANGED <<txn, pending, rows>>
         \/ link[k] = "open" /\ Ends(w, "returned") /\ Released(w) /\ Commits(k)
      /\ UNCHANGED <<conn, link>> /\ Observed

-----------------------------------------------------------------------------
ResetKeeps(w) ==
  /\ At(w, "reset")
  /\ Moves(w, "ensure", Null)
  /\ retrying' = [retrying EXCEPT ![w] = TRUE]
  /\ UNCHANGED <<conn, lock, Database, cursor, ddl, outcome>> /\ Observed

\* _reset_conn looks at the connection of the storage ...
Reset(w) ==
  /\ At(w, "reset")
  /\ Moves(w, "forget", conn)
  /\ retrying' = [retrying EXCEPT ![w] = TRUE]
  /\ UNCHANGED <<conn, lock, Database, cursor, ddl, outcome>> /\ Observed

\* ... takes it out of it ...
Forget(w) ==
  /\ At(w, "forget")
  /\ conn' = Null
  /\ Moves(w, IF held[w] = Null THEN "ensure" ELSE "rollback", held[w])
  /\ UNCHANGED <<lock, Database, Locals>> /\ Observed

\* ... rolls it back ...
Rollback(w) ==
  LET k == held[w]
  IN  /\ At(w, "rollback") /\ Free(w)
      /\ Moves(w, "close", k)
      /\ IF link[k] = "open" THEN TxnEnded(k) ELSE UNCHANGED <<txn, pending>>
      /\ UNCHANGED <<conn, lock, link, rows, Locals>> /\ Observed

\* ... and closes it; insert goes on to reconnect.
Close(w) ==
  /\ At(w, "close") /\ Free(w)
  /\ Closed(held[w])
  /\ Goes(w, "ensure")
  /\ UNCHANGED <<conn, lock, rows>> /\ Observed

\* The server or the network ends a backend, and with it its transaction.
DropBackend(k) ==
  /\ link[k] = "open"
  /\ faults < MaxFaults
  /\ faults' = faults + 1
  /\ calm' = [v \in Writers |-> calm[v] /\ ~Running(v)]
  /\ link' = [link EXCEPT ![k] = "dead"]
  /\ TxnEnded(k)
  /\ UNCHANGED <<conn, lock, rows, bad, pc, held, Locals, alone>>

-----------------------------------------------------------------------------
Connect(w) ==
  \/ Ensure(w) \/ ReadToProbe(w) \/ Probe(w) \/ Discard(w) \/ Discarding(w)
  \/ Drop(w) \/ Open(w) \/ ConnectRefused(w) \/ Tables(w) \/ Create(w)
  \/ Index(w) \/ Indexing(w) \/ ReadToPublish(w) \/ Publish(w) \/ Opened(w)

Attempt(w) ==
  \/ Lock(w) \/ Cursor(w) \/ Execute(w) \/ Inserting(w) \/ ReadToCommit(w)
  \/ Commit(w)

Recover(w) == Reset(w) \/ Forget(w) \/ Rollback(w) \/ Close(w)

Step(w) == Begin(w) \/ Connect(w) \/ Attempt(w) \/ Recover(w)

\* Every call has ended; or one waits for another's transaction, maybe forever.
Rest ==
  /\ (\A w \in Writers : pc[w] = "done") \/ (\E w \in Writers : Blocked(w))
  /\ UNCHANGED vars

Next ==
  \/ \E w \in Writers : Step(w)
  \/ \E k \in Connections : DropBackend(k)
  \/ Rest

\* The report threads run, and each gets the lock in the end.
Fairness == \A w \in Writers : WF_vars(Step(w))
Spec == Init /\ [][Next]_vars /\ Fairness

-----------------------------------------------------------------------------
Done(w) == outcome[w] # "none"

(***************************************************************************)
(* An insert that overlapped no other stores its row or dumps the record:  *)
(* whatever the earlier ones left behind and whatever fails under it.      *)
(***************************************************************************)
AloneIsKept ==
  \A w \in Writers : Done(w) /\ alone[w] =>
    outcome[w] = IF w \in rows THEN "returned" ELSE "dumped"

(***************************************************************************)
(* Issue #243: no failure, aborted transaction or dead connection an       *)
(* earlier insert left makes a later one fail, once the database is up.    *)
(***************************************************************************)
RecordingRecovers ==
  \A w \in Writers : Done(w) /\ alone[w] /\ calm[w] /\ ~bad[w] => w \in rows

(***************************************************************************)
(* Retries and reconnects never go on for ever, whatever the other threads *)
(* do to the connection meanwhile.  An insert that does not end is in one  *)
(* place only: behind a statement that waits for the transaction of        *)
(* another connection, which InsertsEnd shows may be for ever.             *)
(***************************************************************************)
EveryInsertEnds ==
  \/ <>(\A w \in Writers : pc[w] = "done")
  \/ <>[](\E w \in Writers : Blocked(w))

(***************************************************************************)
(* storage.py 1700-1702: an outage "should not permanently break           *)
(* recording": an insert ends.  Two first inserts after one open two       *)
(* connections; the CREATE INDEX of one (1688) waits for the row of the    *)
(* other, whose commit (1834) waits for that statement.  Or the INSERT     *)
(* waits for the index, whose commit (1691) waits for the INSERT.          *)
(***************************************************************************)
InsertsEnd == \A w \in Writers : <>(pc[w] = "done")

(***************************************************************************)
(* storage.py 1819-1822: "never silently loses a capture".  An insert that *)
(* returns normally, and so is acknowledged to the sensor, stored its row. *)
(***************************************************************************)
ReturnedIsStored ==
  \A w \in Writers : outcome[w] = "returned" => w \in rows
=============================================================================
