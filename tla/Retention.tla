----------------------------- MODULE Retention -----------------------------
(***************************************************************************)
(* What becomes of old rows of an SQLite database that several processes   *)
(* have open: delete_old_records drops them, archive_old_records copies    *)
(* them to a database of the day, whose transaction is committed first,    *)
(* and deletes what it copied.  A process has one connection, _WRITE_LOCK  *)
(* keeps its calls apart, and a transaction that failed is not rolled      *)
(* back: it stays open, until the next insert commits it.                  *)
(***************************************************************************)

CONSTANTS
  Rows,
  Processes  \* with the database open

VARIABLES
  old,      \* rows whose timestamp is before the cutoff
  stored,   \* rows whose insert has returned (not in the code)
  table,    \* honeypot_bears, as committed
  archive,  \* honeypot_bears_archive, as committed, whatever its file
  doomed,   \* rows deleted in the open transaction of each connection
  open,     \* connections whose transaction has the lock on the database
  pc,       \* where each process is
  chosen,   \* the rows its call has read, and then those it copied
  dropped   \* rows delete_old_records deleted (not in the code)

vars == <<old, stored, table, archive, doomed, open, pc, chosen, dropped>>

TypeOK ==
  /\ old \subseteq Rows
  /\ stored \subseteq Rows
  /\ table \subseteq stored
  /\ archive \subseteq stored
  /\ doomed \in [Processes -> SUBSET table]
  /\ open \subseteq Processes /\ \A p, q \in open : p = q
  /\ pc \in [Processes -> {"idle", "reading", "copying", "deleting", "dropping", "committing"}]
  /\ chosen \in [Processes -> SUBSET Rows]
  /\ dropped \subseteq Rows

Init ==
  /\ old = {}
  /\ stored = {}
  /\ table = {}
  /\ archive = {}
  /\ doomed = [p \in Processes |-> {}]
  /\ open = {}
  /\ pc = [p \in Processes |-> "idle"]
  /\ chosen = [p \in Processes |-> {}]
  /\ dropped = {}

-----------------------------------------------------------------------------
Goes(p, to) == pc' = [pc EXCEPT ![p] = to]
Returns(p) == Goes(p, "idle") /\ chosen' = [chosen EXCEPT ![p] = {}]
\* No other connection has the lock.
Writable(p) == open \subseteq {p}
\* What the connection of a process sees.
Seen(p) == table \ doomed[p]

\* What a commit of the connection does, to the rows it inserted too.
Commits(p, inserted) ==
  /\ table' = Seen(p) \cup inserted
  /\ doomed' = [doomed EXCEPT ![p] = {}]
  /\ open' = open \ {p}

\* insert commits whatever transaction it finds open.
Insert(p, r) ==
  /\ pc[p] = "idle"
  /\ Writable(p)
  /\ r \notin stored
  /\ Commits(p, {r})
  /\ stored' = stored \cup {r}
  /\ UNCHANGED <<old, archive, pc, chosen, dropped>>

-----------------------------------------------------------------------------
\* archive_old_records, if there is anything before the cutoff.
StartArchive(p) ==
  /\ pc[p] = "idle"
  /\ Seen(p) \cap old # {}
  /\ chosen' = [chosen EXCEPT ![p] = old]
  /\ Goes(p, "reading")
  /\ UNCHANGED <<old, stored, table, archive, doomed, open, dropped>>

\* The rows before the cutoff, which is that of the start, as they are now.
ReadOld(p) ==
  /\ pc[p] = "reading"
  /\ chosen' = [chosen EXCEPT ![p] = @ \cap Seen(p)]
  /\ Goes(p, "copying")
  /\ UNCHANGED <<old, stored, table, archive, doomed, open, dropped>>

ChosenAll(p, copied) == chosen[p]
\* archived_ids: a row that failed to be copied is not among them; one that a
\* call before has left in the archive is (issue #225).
ArchivedIds(p, copied) == copied

\* Some rows may fail; what is copied is committed.
Copy(p, copied) ==
  /\ pc[p] = "copying"
  /\ copied \subseteq chosen[p]
  /\ archive' = archive \cup copied
  /\ chosen' = [chosen EXCEPT ![p] = ArchivedIds(p, copied)]
  /\ Goes(p, IF chosen'[p] = {} THEN "idle" ELSE "deleting")
  /\ UNCHANGED <<old, stored, table, doomed, open, dropped>>

\* The archive cannot be written or committed, and the call returns None.
CopyFails(p) ==
  /\ pc[p] = "copying"
  /\ Returns(p)
  /\ UNCHANGED <<old, stored, table, archive, doomed, open, dropped>>

\* DELETE ... WHERE id IN archived_ids.
Delete(p) ==
  /\ pc[p] = "deleting"
  /\ Writable(p)
  /\ doomed' = [doomed EXCEPT ![p] = @ \cup (chosen[p] \cap table)]
  /\ open' = open \cup {p}
  /\ Goes(p, "committing")
  /\ UNCHANGED <<old, stored, table, archive, chosen, dropped>>

-----------------------------------------------------------------------------
\* delete_old_records.
StartDrop(p) ==
  /\ pc[p] = "idle"
  /\ Seen(p) \cap old # {}
  /\ chosen' = [chosen EXCEPT ![p] = old]
  /\ Goes(p, "dropping")
  /\ UNCHANGED <<old, stored, table, archive, doomed, open, dropped>>

Drop(p) ==
  /\ pc[p] = "dropping"
  /\ Writable(p)
  /\ doomed' = [doomed EXCEPT ![p] = @ \cup (chosen[p] \cap table)]
  /\ open' = open \cup {p}
  /\ dropped' = dropped \cup (chosen[p] \cap Seen(p))
  /\ Goes(p, "committing")
  /\ UNCHANGED <<old, stored, table, archive, chosen>>

Commit(p) ==
  /\ pc[p] = "committing"
  /\ Commits(p, {})
  /\ Returns(p)
  /\ UNCHANGED <<old, stored, archive, dropped>>

\* The database is locked, or it cannot be written: the call returns, and what
\* it deleted so far stays in the open transaction.
Fails(p) ==
  /\ pc[p] \in {"deleting", "dropping", "committing"}
  /\ Returns(p)
  /\ UNCHANGED <<old, stored, table, archive, doomed, open, dropped>>

-----------------------------------------------------------------------------
\* A process is killed and started again: its transaction is rolled back.
Crash(p) ==
  /\ Returns(p)
  /\ doomed' = [doomed EXCEPT ![p] = {}]
  /\ open' = open \ {p}
  /\ UNCHANGED <<old, stored, table, archive, dropped>>

Age(r) ==
  /\ r \in stored \ old
  /\ old' = old \cup {r}
  /\ UNCHANGED <<stored, table, archive, doomed, open, pc, chosen, dropped>>

\* Every row is stored, and nothing is going on.
Kept ==
  /\ stored = Rows
  /\ \A p \in Processes : pc[p] = "idle"
  /\ UNCHANGED vars

Next ==
  \/ \E p \in Processes :
       \/ \E r \in Rows : Insert(p, r)
       \/ StartArchive(p) \/ ReadOld(p) \/ CopyFails(p) \/ Delete(p)
       \/ \E copied \in SUBSET Rows : Copy(p, copied)
       \/ StartDrop(p) \/ Drop(p) \/ Commit(p) \/ Fails(p) \/ Crash(p)
  \/ \E r \in Rows : Age(r)
  \/ Kept

Spec == Init /\ [][Next]_vars

-----------------------------------------------------------------------------
(***************************************************************************)
(* "A partial archive never deletes rows that didn't make it"              *)
(* (storage.py:1082): whatever fails or is killed between the two commits, *)
(* and whoever commits what a failed call left behind, a row leaves the    *)
(* table only into an archive or because delete_old_records was to drop it.*)
(***************************************************************************)
RowsSurvive ==
  stored \subseteq table \cup archive \cup dropped
=============================================================================
