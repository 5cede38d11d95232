----------------------------- MODULE MCStorage -----------------------------
(***************************************************************************)
(* A small instance of the way a report is kept: its delivery from the     *)
(* sensor to the SQLite storage of the collector, and the inserts into     *)
(* PostgreSQL that stand in for that storage.  They share no variable, so  *)
(* a behaviour exercises one of them, chosen at the start, while the other *)
(* keeps its initial state.  The delivery is extended, the other is an     *)
(* instance.                                                               *)
(***************************************************************************)
EXTENDS MCReportDelivery

CONSTANTS
  insert1, insert2, \* the calls of insert
  Connections, MaxFaults, Null

Writers == {insert1, insert2}

VARIABLES
  part,
  conn, lock, link, txn, pending, stored, bad, insertPc, held, cursor, ddl,
  retrying, outcome, alone, calm, faults

Store == INSTANCE PostgresWriter WITH pc <- insertPc, rows <- stored

ASSUME StorageAssumption == Store!WriterAssumption

storeVars == <<conn, lock, link, txn, pending, stored, bad, insertPc, held,
               cursor, ddl, retrying, outcome, alone, calm, faults>>
storageVars == <<part, vars, storeVars>>

\* The two calls differ in nothing: if one has a record that the database
\* rejects, it is insert1.
StorageInit ==
  /\ part \in {"delivery", "store"}
  /\ Init
  /\ Store!Init
  /\ bad[insert2] => bad[insert1]
  /\ part = "store" \/ bad = [w \in Writers |-> FALSE]

InDelivery(A) == part = "delivery" /\ A /\ UNCHANGED <<part, storeVars>>
InStore(A) == part = "store" /\ A /\ UNCHANGED <<part, vars>>

StorageNext == InDelivery(Next) \/ InStore(Store!Next)

\* The fairness of the delivery and of the store, each while it runs.
StorageFairness ==
  /\ \A r \in Reports : WF_vars(InDelivery(Put(r)))
  /\ \A w \in Workers : WF_vars(InDelivery(Work(w)))
  /\ \A c \in Conns : WF_vars(InDelivery(Handle(c)))
  /\ WF_vars(InDelivery(ServerRestart))
  /\ \A w \in Writers : WF_storeVars(InStore(Store!Step(w)))

StorageSpec == StorageInit /\ [][StorageNext]_storageVars /\ StorageFairness

-----------------------------------------------------------------------------
\* The delivery is the part that runs.
ReportsSettle == part = "delivery" => EverySettled

StoreTypeOK == Store!TypeOK
AloneIsKept == Store!AloneIsKept
RecordingRecovers == Store!RecordingRecovers
EveryInsertEnds == part = "store" => Store!EveryInsertEnds
=============================================================================
