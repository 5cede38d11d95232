------------------------ MODULE PostgresWriterProofs ------------------------
(***************************************************************************)
(* Proofs about PostgresWriter for any number of inserts and connections,  *)
(* and any number of faults.                                               *)
(***************************************************************************)
EXTENDS PostgresWriter, TLAPS

(***************************************************************************)
(* What holds of every insert: an outcome is that of a call that is over,  *)
(* and a record is in the database only after its insert has begun.        *)
(***************************************************************************)
CallInv(w) ==
  /\ outcome[w] = "none" <=> pc[w] # "done"
  /\ pc[w] = "idle" => /\ w \notin rows
                       /\ \A k \in Connections : w \notin pending[k]
                       /\ ~alone[w] /\ ~retrying[w]

(***************************************************************************)
(* What an insert that runs alone may count on: nobody takes the           *)
(* connection away between its steps, so that it reconnects exactly when   *)
(* the storage has none, every call it makes is on the connection of the   *)
(* storage, and it commits the transaction its row is in.                  *)
(***************************************************************************)
Sole(w) == alone[w] /\ Running(w)

Without == {"ensure", "open", "rollback", "close"}
With == {"tables", "publish", "opened", "wait", "cursor", "commit"}
OnIt == {"create", "index", "indexing", "publishing", "execute", "inserting", "committing"}

SoleInv(w) ==
  Sole(w) =>
    /\ \A v \in Writers \ {w} : ~Running(v)
    /\ pc[w] \in Without \cup With \cup OnIt \cup {"reset", "forget"}
    /\ pc[w] \in Without => conn = Null
    /\ pc[w] \in With => conn # Null
    /\ pc[w] \in OnIt => conn # Null /\ held[w] = conn
    /\ pc[w] = "forget" => held[w] = conn
    /\ pc[w] \in {"commit", "committing"} /\ link[conn] = "open" => w \in pending[conn]
    /\ w \notin rows

(***************************************************************************)
(* Its row waits for a commit nowhere else, and no more once it is over.   *)
(***************************************************************************)
WaitsInv(w) ==
  \A k \in Connections :
    alone[w] /\ w \in pending[k] =>
      pc[w] \in {"commit", "committing"} /\ k = conn /\ link[k] = "open"

(***************************************************************************)
(* Why the second attempt succeeds: it is made on a connection opened for  *)
(* it, whatever the first one found, and no fault ends that.               *)
(***************************************************************************)
Usable(k) == link[k] = "open" /\ txn[k] # "aborted"

CalmInv(w) ==
  Sole(w) /\ calm[w] =>
    /\ pc[w] \in {"tables", "create", "index", "indexing", "publish", "publishing",
                  "opened"} => Usable(conn)
    /\ retrying[w] /\ pc[w] \in {"wait", "cursor", "execute", "inserting"} => Usable(conn)
    /\ pc[w] \in {"commit", "committing"} => link[conn] = "open"

(***************************************************************************)
(* And what the two properties say of it.                                  *)
(***************************************************************************)
EndInv(w) ==
  Done(w) /\ alone[w] =>
    /\ outcome[w] = IF w \in rows THEN "returned" ELSE "dumped"
    /\ calm[w] /\ ~bad[w] => w \in rows

InsertInv(w) == CallInv(w) /\ SoleInv(w) /\ WaitsInv(w) /\ CalmInv(w) /\ EndInv(w)

WriterInv == TypeOK /\ \A w \in Writers : InsertInv(w)

(***************************************************************************)
(* A storage constructed while the database was down.                      *)
(***************************************************************************)
LEMMA InitWriter == WriterAssumption /\ Init => WriterInv
<1> SUFFICES ASSUME WriterAssumption, Init PROVE WriterInv
  OBVIOUS
<1>1. 0 \in 0 .. MaxFaults
  BY DEF WriterAssumption
<1>2. TypeOK
  BY <1>1 DEF Init, TypeOK, Outcomes, Steps, Calls
<1>3. ASSUME NEW w \in Writers PROVE InsertInv(w)
  BY <1>3 DEF Init, InsertInv, CallInv, SoleInv, WaitsInv, CalmInv, EndInv, Sole, Running, Done
<1> QED BY <1>2, <1>3 DEF WriterInv

(***************************************************************************)
(* What a call that goes on, and one that ends, leaves of its locals.      *)
(***************************************************************************)
CallsTyped ==
  /\ pc \in [Writers -> Steps]
  /\ held \in [Writers -> Connections \cup {Null}]
  /\ \A v \in Writers : pc[v] \in Calls => held[v] # Null

LocalsTyped ==
  /\ cursor \in [Writers -> Connections \cup {Null}]
  /\ ddl \in [Writers -> Connections \cup {Null}]
  /\ retrying \in [Writers -> BOOLEAN]
  /\ outcome \in [Writers -> Outcomes]

\* The calls keep their types where one moves on.
LEMMA MovesTyped ==
  ASSUME TypeOK, NEW w \in Writers, NEW s \in Steps, NEW k \in Connections \cup {Null},
         s \in Calls => k # Null, Moves(w, s, k)
  PROVE  CallsTyped'
BY DEF TypeOK, Moves, CallsTyped

\* So do all locals where one only goes on ...
LEMMA GoesTyped ==
  ASSUME TypeOK, NEW w \in Writers, NEW s \in Steps \ Calls, Goes(w, s)
  PROVE  CallsTyped' /\ LocalsTyped'
<1>1. Moves(w, s, Null) /\ UNCHANGED Locals
  BY DEF Goes
<1>2. CallsTyped'
  BY <1>1, MovesTyped
<1>3. LocalsTyped'
  BY <1>1 DEF Locals, TypeOK, LocalsTyped
<1> QED BY <1>2, <1>3

\* ... or ends ...
LEMMA EndsTyped ==
  ASSUME TypeOK, NEW w \in Writers, NEW how \in Outcomes, Ends(w, how)
  PROVE  CallsTyped' /\ LocalsTyped'
<1>1. CallsTyped'
  <2>1. "done" \in Steps \ Calls /\ Moves(w, "done", Null)
    BY DEF Steps, Calls, Ends
  <2> QED BY <2>1, MovesTyped
<1>2. LocalsTyped'
  BY DEF Ends, TypeOK, LocalsTyped
<1> QED BY <1>1, <1>2

\* ... by an error or not, and the lock with them.
LEMMA ErrorsTyped ==
  ASSUME TypeOK, NEW w \in Writers, Raises(w) \/ Fails(w) \/ (InitFails(w) /\ conn \in Connections \cup {Null})
  PROVE  CallsTyped' /\ LocalsTyped' /\ lock' \in Writers \cup {Null}
<1>1. lock' \in Writers \cup {Null}
  BY DEF Raises, Fails, InitFails, Released, TypeOK
<1>2. {"raised", "dumped", "returned"} \subseteq Outcomes /\ "reset" \in Steps \ Calls
  BY DEF Outcomes, Steps, Calls
<1>3. Ends(w, "raised") \/ Ends(w, "dumped") \/ Goes(w, "reset")
  BY DEF Raises, Fails, InitFails
<1> QED BY <1>1, <1>2, <1>3, EndsTyped, GoesTyped

\* A call on the connection of the storage, or the error where there is none.
LEMMA ReadsTyped ==
  ASSUME WriterAssumption, TypeOK, NEW w \in Writers, NEW s \in Steps, Reads(w, s)
  PROVE  CallsTyped' /\ LocalsTyped' /\ lock' \in Writers \cup {Null}
<1>1. CASE conn = Null /\ Raises(w)
  BY <1>1, ErrorsTyped
<1>2. CASE conn # Null /\ Moves(w, s, conn) /\ UNCHANGED <<lock, Locals>>
  <2>1. CallsTyped'
    BY <1>2, MovesTyped DEF TypeOK
  <2> QED BY <1>2, <2>1 DEF Locals, TypeOK, LocalsTyped
<1> QED BY <1>1, <1>2 DEF Reads

(***************************************************************************)
(* The types of the connections and of what is observed.                   *)
(***************************************************************************)
SharedTyped ==
  /\ conn \in Connections \cup {Null}
  /\ lock \in Writers \cup {Null}
  /\ link \in [Connections -> {"open", "dead", "closed"}]
  /\ txn \in [Connections -> {"none", "begun", "shared", "aborted"}]
  /\ pending \in [Connections -> SUBSET Writers]
  /\ rows \subseteq Writers

ObservedTyped ==
  /\ bad \in [Writers -> BOOLEAN]
  /\ alone \in [Writers -> BOOLEAN]
  /\ calm \in [Writers -> BOOLEAN]
  /\ faults \in 0 .. MaxFaults

LEMMA TypesJoin == TypeOK <=> CallsTyped /\ LocalsTyped /\ SharedTyped /\ ObservedTyped
BY DEF TypeOK, CallsTyped, LocalsTyped, SharedTyped, ObservedTyped

(***************************************************************************)
(* Types are kept by the steps to a connection ...                         *)
(***************************************************************************)
LEMMA ConnectTyped ==
  ASSUME WriterAssumption, TypeOK, NEW w \in Writers, Connect(w)
  PROVE  TypeOK'
<1>a. CallsTyped /\ LocalsTyped /\ SharedTyped /\ ObservedTyped
  BY TypesJoin
<1>j. ASSUME CallsTyped', LocalsTyped', SharedTyped', ObservedTyped' PROVE TypeOK'
  BY <1>j DEF TypeOK, CallsTyped, LocalsTyped, SharedTyped, ObservedTyped
<1>b. /\ {"ensure", "probe", "discard", "drop", "open", "tables", "publish", "opened", "wait"}
           \subseteq Steps \ Calls
      /\ {"probing", "discarding", "create", "index", "indexing", "publishing"} \subseteq Steps
      /\ {"none", "dumped", "raised"} \subseteq Outcomes
  BY DEF Steps, Calls, Outcomes
<1>c. Observed => ObservedTyped'
  BY <1>a DEF Observed, ObservedTyped
<1>d. pc[w] \in Calls => held[w] \in Connections
  BY <1>a DEF CallsTyped
<1>e. /\ "probing" \in Calls /\ "discarding" \in Calls /\ "create" \in Calls /\ "index" \in Calls
      /\ "indexing" \in Calls /\ "publishing" \in Calls
  BY DEF Calls
<1> DEFINE Local == CallsTyped /\ LocalsTyped
<1> USE DEF At, Database, SharedTyped
<1>1. ASSUME Ensure(w) PROVE TypeOK'
  <2>1. Local'
    BY <1>1, <1>b, GoesTyped DEF Ensure
  <2> QED BY <1>1, <1>a, <1>c, <2>1, <1>j DEF Ensure
<1>2. ASSUME ReadToProbe(w) PROVE TypeOK'
  <2>1. Local' /\ lock' \in Writers \cup {Null}
    BY <1>2, <1>b, ReadsTyped DEF ReadToProbe
  <2> QED BY <1>2, <1>a, <1>c, <2>1, <1>j DEF ReadToProbe
<1>3. ASSUME Probe(w) PROVE TypeOK'
  <2>1. Local' /\ lock' \in Writers \cup {Null}
    BY <1>3, <1>a, <1>b, GoesTyped, ErrorsTyped DEF Probe
  <2>2. txn' \in [Connections -> {"none", "begun", "shared", "aborted"}]
    BY <1>3, <1>a, <1>d, <1>e DEF Probe, TxnBegun
  <2> QED BY <1>3, <1>a, <1>c, <2>1, <2>2, <1>j DEF Probe
<1>4. ASSUME Discard(w) PROVE TypeOK'
  <2>1. CallsTyped'
    BY <1>4, <1>a, <1>b, MovesTyped DEF Discard
  <2>2. LocalsTyped'
    BY <1>4, <1>a DEF Discard, Locals, LocalsTyped
  <2> QED BY <1>4, <1>a, <1>c, <2>1, <2>2, <1>j DEF Discard
<1>5. ASSUME Discarding(w) PROVE TypeOK'
  <2>1. Local'
    BY <1>5, <1>b, GoesTyped DEF Discarding
  <2> QED BY <1>5, <1>a, <1>c, <1>d, <1>e, <2>1, <1>j DEF Discarding, Closed, TxnEnded
<1>6. ASSUME Drop(w) PROVE TypeOK'
  <2>1. Local'
    BY <1>6, <1>b, GoesTyped DEF Drop
  <2> QED BY <1>6, <1>a, <1>c, <2>1, <1>j DEF Drop
<1>7. ASSUME Open(w) PROVE TypeOK'
  <2>1. Local'
    BY <1>7, <1>b, GoesTyped DEF Open
  <2>2. Fresh \in Connections
    BY <1>7 DEF Open, Fresh
  <2> QED BY <1>7, <1>a, <1>c, <2>1, <2>2, <1>j DEF Open, TxnEnded
<1>8. ASSUME ConnectRefused(w) PROVE TypeOK'
  <2>1. Local' /\ conn' = Null /\ UNCHANGED lock
    BY <1>8, <1>a, <1>b, ErrorsTyped DEF ConnectRefused, InitFails
  <2>2. ObservedTyped'
    BY <1>8, <1>a DEF ConnectRefused, ObservedTyped, WriterAssumption
  <2> QED BY <1>8, <1>a, <2>1, <2>2, <1>j DEF ConnectRefused
<1>9. ASSUME Tables(w) PROVE TypeOK'
  <2>1. CASE conn = Null /\ Raises(w)
    <3>1. Local' /\ lock' \in Writers \cup {Null}
      BY <2>1, ErrorsTyped
    <3> QED BY <1>9, <1>a, <1>c, <3>1, <1>j DEF Tables
  <2>2. CASE /\ conn # Null /\ Moves(w, "create", conn)
             /\ ddl' = [ddl EXCEPT ![w] = conn]
             /\ UNCHANGED <<lock, cursor, retrying, outcome>>
    <3>1. CallsTyped'
      BY <2>2, <1>a, <1>b, MovesTyped
    <3>2. LocalsTyped'
      BY <2>2, <1>a DEF LocalsTyped
    <3> QED BY <1>9, <2>2, <1>a, <1>c, <3>1, <3>2, <1>j DEF Tables
  <2> QED BY <1>9, <2>1, <2>2 DEF Tables
<1>10. ASSUME Create(w) PROVE TypeOK'
  <2>0. held[w] \in Connections
    BY <1>10, <1>d, <1>e DEF Create
  <2>1. CASE InitFails(w) /\ UNCHANGED txn
    <3>1. Local' /\ conn' = Null /\ UNCHANGED lock
      BY <2>1, <1>a, ErrorsTyped DEF InitFails
    <3> QED BY <1>10, <2>1, <1>a, <1>c, <3>1, <1>j DEF Create
  <2>2. CASE /\ txn' = TxnBegun(held[w]) /\ Moves(w, "index", held[w])
             /\ UNCHANGED <<conn, lock, Locals>>
    <3>1. CallsTyped'
      BY <2>0, <2>2, <1>a, <1>b, MovesTyped DEF WriterAssumption
    <3>2. LocalsTyped'
      BY <2>2, <1>a DEF Locals, LocalsTyped
    <3> QED BY <1>10, <2>0, <2>2, <1>a, <1>c, <3>1, <3>2, <1>j DEF Create, TxnBegun
  <2> QED BY <1>10, <2>1, <2>2 DEF Create
<1>11. ASSUME Index(w) PROVE TypeOK'
  <2>1. CallsTyped'
    BY <1>11, <1>a, <1>b, <1>d, <1>e, MovesTyped DEF Index, WriterAssumption
  <2>2. LocalsTyped'
    BY <1>11, <1>a DEF Index, Locals, LocalsTyped
  <2> QED BY <1>11, <1>a, <1>c, <2>1, <2>2, <1>j DEF Index
<1>12. ASSUME Indexing(w) PROVE TypeOK'
  <2>1. Local'
    BY <1>12, <1>b, GoesTyped DEF Indexing
  <2> QED BY <1>12, <1>a, <1>c, <1>d, <1>e, <2>1, <1>j DEF Indexing, Aborts
<1>13. ASSUME ReadToPublish(w) PROVE TypeOK'
  <2>1. Local' /\ lock' \in Writers \cup {Null}
    BY <1>13, <1>b, ReadsTyped DEF ReadToPublish
  <2> QED BY <1>13, <1>a, <1>c, <2>1, <1>j DEF ReadToPublish
<1>14. ASSUME Publish(w) PROVE TypeOK'
  <2>0. held[w] \in Connections
    BY <1>14, <1>d, <1>e DEF Publish
  <2>1. CASE InitFails(w) /\ UNCHANGED <<txn, pending, rows>>
    <3>1. Local' /\ conn' = Null /\ UNCHANGED lock
      BY <2>1, <1>a, ErrorsTyped DEF InitFails
    <3> QED BY <1>14, <2>1, <1>a, <1>c, <3>1, <1>j DEF Publish
  <2>2. CASE /\ Commits(held[w]) /\ Moves(w, "opened", Null)
             /\ ddl' = [ddl EXCEPT ![w] = Null]
             /\ UNCHANGED <<conn, lock, cursor, retrying, outcome>>
    <3>1. CallsTyped'
      BY <2>2, <1>a, <1>b, MovesTyped
    <3>2. LocalsTyped'
      BY <2>2, <1>a DEF LocalsTyped
    <3> QED BY <1>14, <2>0, <2>2, <1>a, <1>c, <3>1, <3>2, <1>j DEF Publish, Commits, TxnEnded
  <2> QED BY <1>14, <2>1, <2>2 DEF Publish
<1>15. ASSUME Opened(w) PROVE TypeOK'
  <2>1. Local'
    BY <1>15, <1>b, GoesTyped, EndsTyped DEF Opened
  <2> QED BY <1>15, <1>a, <1>c, <2>1, <1>j DEF Opened
<1> QED BY <1>1, <1>2, <1>3, <1>4, <1>5, <1>6, <1>7, <1>8, <1>9, <1>10, <1>11, <1>12,
           <1>13, <1>14, <1>15 DEF Connect

(***************************************************************************)
(* ... and by those of the attempts, and those between them.               *)
(***************************************************************************)
LEMMA AttemptTyped ==
  ASSUME WriterAssumption, TypeOK, NEW w \in Writers, Begin(w) \/ Attempt(w) \/ Recover(w)
  PROVE  TypeOK'
<1>a. CallsTyped /\ LocalsTyped /\ SharedTyped /\ ObservedTyped
  BY TypesJoin
<1>j. ASSUME CallsTyped', LocalsTyped', SharedTyped', ObservedTyped' PROVE TypeOK'
  BY <1>j DEF TypeOK, CallsTyped, LocalsTyped, SharedTyped, ObservedTyped
<1>b. /\ {"ensure", "wait", "cursor", "commit", "reset", "forget"} \subseteq Steps \ Calls
      /\ {"execute", "inserting", "committing", "rollback", "close"} \subseteq Steps \cap Calls
      /\ {"none", "dumped", "raised", "returned"} \subseteq Outcomes
  BY DEF Steps, Calls, Outcomes
<1>c. Observed => ObservedTyped'
  BY <1>a DEF Observed, ObservedTyped
<1>d. pc[w] \in Calls => held[w] \in Connections /\ held[w] # Null
  BY <1>a DEF CallsTyped
<1> DEFINE Local == CallsTyped /\ LocalsTyped
<1> USE DEF At, Database, SharedTyped
<1>1. ASSUME Begin(w) PROVE TypeOK'
  <2>1. Local'
    BY <1>1, <1>b, GoesTyped DEF Begin
  <2>2. ObservedTyped'
    BY <1>1, <1>a DEF Begin, ObservedTyped
  <2> QED BY <1>1, <1>a, <2>1, <2>2, <1>j DEF Begin
<1>2. ASSUME Lock(w) PROVE TypeOK'
  <2>1. Local'
    BY <1>2, <1>b, GoesTyped DEF Lock
  <2> QED BY <1>2, <1>a, <1>c, <2>1, <1>j DEF Lock
<1>3. ASSUME Cursor(w) PROVE TypeOK'
  <2>1. CASE conn = Null /\ Raises(w)
    <3>1. Local' /\ lock' \in Writers \cup {Null}
      BY <2>1, ErrorsTyped
    <3> QED BY <1>3, <1>a, <1>c, <3>1, <1>j DEF Cursor
  <2>2. CASE /\ conn # Null /\ Moves(w, "execute", conn)
             /\ cursor' = [cursor EXCEPT ![w] = conn]
             /\ UNCHANGED <<lock, ddl, retrying, outcome>>
    <3>1. CallsTyped'
      BY <2>2, <1>a, <1>b, MovesTyped
    <3>2. LocalsTyped'
      BY <2>2, <1>a DEF LocalsTyped
    <3> QED BY <1>3, <2>2, <1>a, <1>c, <3>1, <3>2, <1>j DEF Cursor
  <2> QED BY <1>3, <2>1, <2>2 DEF Cursor
<1>4. ASSUME Execute(w) PROVE TypeOK'
  <2>1. CallsTyped'
    BY <1>4, <1>a, <1>b, <1>d, MovesTyped DEF Execute
  <2>2. LocalsTyped'
    BY <1>4, <1>a DEF Execute, Locals, LocalsTyped
  <2> QED BY <1>4, <1>a, <1>c, <2>1, <2>2, <1>j DEF Execute
<1>5. ASSUME Inserting(w) PROVE TypeOK'
  <2>0. held[w] \in Connections
    BY <1>5, <1>b, <1>d DEF Inserting
  <2>1. Local' /\ lock' \in Writers \cup {Null}
    BY <1>5, <1>a, <1>b, GoesTyped, ErrorsTyped DEF Inserting
  <2>2. /\ txn' \in [Connections -> {"none", "begun", "shared", "aborted"}]
        /\ pending' \in [Connections -> SUBSET Writers]
    BY <1>5, <1>a, <2>0 DEF Inserting, Aborts, TxnBegun
  <2> QED BY <1>5, <1>a, <1>c, <2>1, <2>2, <1>j DEF Inserting
<1>6. ASSUME ReadToCommit(w) PROVE TypeOK'
  <2>1. CASE conn = Null /\ Raises(w)
    <3>1. Local' /\ lock' \in Writers \cup {Null}
      BY <2>1, ErrorsTyped
    <3> QED BY <1>6, <1>a, <1>c, <3>1, <1>j DEF ReadToCommit
  <2>2. CASE conn # Null /\ Moves(w, "committing", conn) /\ UNCHANGED <<lock, Locals>>
    <3>1. CallsTyped'
      BY <2>2, <1>a, <1>b, MovesTyped
    <3>2. LocalsTyped'
      BY <2>2, <1>a DEF Locals, LocalsTyped
    <3> QED BY <1>6, <2>2, <1>a, <1>c, <3>1, <3>2, <1>j DEF ReadToCommit
  <2> QED BY <1>6, <2>1, <2>2 DEF ReadToCommit, CommitOn
<1>7. ASSUME Commit(w) PROVE TypeOK'
  <2>0. held[w] \in Connections
    BY <1>7, <1>b, <1>d DEF Commit
  <2>1. Local' /\ lock' \in Writers \cup {Null}
    <3>1. CASE Fails(w)
      BY <3>1, ErrorsTyped
    <3>2. CASE Ends(w, "returned") /\ Released(w)
      BY <3>2, <1>a, <1>b, EndsTyped DEF Released
    <3> QED BY <1>7, <3>1, <3>2 DEF Commit
  <2> QED BY <1>7, <1>a, <1>c, <2>0, <2>1, <1>j DEF Commit, Commits, TxnEnded
<1>8. ASSUME Reset(w) PROVE TypeOK'
  <2>1. CallsTyped'
    BY <1>8, <1>a, <1>b, MovesTyped DEF Reset
  <2>2. LocalsTyped'
    BY <1>8, <1>a DEF Reset, LocalsTyped
  <2> QED BY <1>8, <1>a, <1>c, <2>1, <2>2, <1>j DEF Reset
<1>9. ASSUME Forget(w) PROVE TypeOK'
  <2>1. CallsTyped'
    <3>1. held[w] \in Connections \cup {Null}
      BY <1>a DEF CallsTyped
    <3> QED BY <1>9, <1>b, <3>1, MovesTyped DEF Forget
  <2>2. LocalsTyped'
    BY <1>9, <1>a DEF Forget, Locals, LocalsTyped
  <2> QED BY <1>9, <1>a, <1>c, <2>1, <2>2, <1>j DEF Forget
<1>10. ASSUME Rollback(w) PROVE TypeOK'
  <2>0. held[w] \in Connections /\ held[w] # Null
    BY <1>10, <1>b, <1>d DEF Rollback
  <2>1. CallsTyped'
    BY <1>10, <2>0, <1>b, MovesTyped DEF Rollback
  <2>2. LocalsTyped'
    BY <1>10, <1>a DEF Rollback, Locals, LocalsTyped
  <2> QED BY <1>10, <1>a, <1>c, <2>0, <2>1, <2>2, <1>j DEF Rollback, TxnEnded
<1>11. ASSUME Close(w) PROVE TypeOK'
  <2>1. Local'
    BY <1>11, <1>b, GoesTyped DEF Close
  <2> QED BY <1>11, <1>a, <1>b, <1>c, <1>d, <2>1, <1>j DEF Close, Closed, TxnEnded
<1> QED BY <1>1, <1>2, <1>3, <1>4, <1>5, <1>6, <1>7, <1>8, <1>9, <1>10, <1>11
        DEF Attempt, Recover

(***************************************************************************)
(* Types are kept by every step of an insert.                              *)
(***************************************************************************)
LEMMA StepTyped == ASSUME WriterAssumption, TypeOK, NEW w \in Writers, Step(w) PROVE TypeOK'
BY ConnectTyped, AttemptTyped DEF Step

(***************************************************************************)
(* What the steps of one insert leave of the others: only its own locals   *)
(* change, a row enters a transaction for itself and the table from one    *)
(* transaction, and who was not alone does not become so.                  *)
(***************************************************************************)
Frame(w) ==
  /\ bad' = bad
  /\ \A v \in Writers \ {w} :
       /\ pc'[v] = pc[v] /\ outcome'[v] = outcome[v] /\ retrying'[v] = retrying[v]
       /\ alone'[v] => alone[v] /\ (pc[w] = "idle" => ~Running(v))
       /\ calm'[v] => calm[v]
       /\ \A k \in Connections : v \in pending'[k] => v \in pending[k]
  /\ pc[w] # "done"
  /\ rows \subseteq rows'
  /\ \A v \in rows' : v \in rows \/ \E k \in Connections : v \in pending[k]

\* Its two halves.
Private(w) ==
  \A v \in Writers \ {w} :
    pc'[v] = pc[v] /\ outcome'[v] = outcome[v] /\ retrying'[v] = retrying[v]

Adds(w) ==
  /\ \A v \in Writers \ {w} : \A k \in Connections : v \in pending'[k] => v \in pending[k]
  /\ rows \subseteq rows'
  /\ \A v \in rows' : v \in rows \/ \E k \in Connections : v \in pending[k]

\* Every step of an insert leaves the others as Frame says.
LEMMA StepFrames ==
  ASSUME WriterAssumption, TypeOK, NEW w \in Writers, Step(w)
  PROVE  Frame(w)
<1>a. \A s, k : Moves(w, s, k) => \A v \in Writers \ {w} : pc'[v] = pc[v]
  BY DEF TypeOK, Moves
<1>b. \A how : Ends(w, how) => Private(w)
  BY <1>a DEF TypeOK, Ends, Private
<1>c. \A s : Goes(w, s) => Private(w)
  BY <1>a DEF TypeOK, Goes, Locals, Private
<1>d. \A s : Reads(w, s) => Private(w)
  BY <1>a, <1>b DEF Reads, Raises, Locals, Private
<1>e. Raises(w) \/ Fails(w) \/ InitFails(w) => Private(w)
  BY <1>b, <1>c DEF Raises, Fails, InitFails
<1>f. pc[w] \in Calls => held[w] \in Connections
  BY DEF TypeOK
<1>g. \A k \in Connections :
        /\ TxnEnded(k) /\ UNCHANGED rows => Adds(w)
        /\ Commits(k) => Adds(w)
        /\ Aborts(k) /\ UNCHANGED rows => Adds(w)
  BY DEF TypeOK, TxnEnded, Commits, Aborts, Adds
<1>h. UNCHANGED <<pending, rows>> => Adds(w)
  BY DEF Adds
<1>1. CASE Begin(w)
  <2>1. Private(w) /\ Adds(w)
    BY <1>1, <1>c, <1>h DEF Begin, Database
  <2> QED BY <1>1, <2>1 DEF Begin, At, TypeOK, Frame, Private, Adds
<1>2. ASSUME Private(w), Adds(w), Observed, pc[w] # "done", pc[w] # "idle"
      PROVE  Frame(w)
  BY <1>2 DEF Frame, Private, Adds, Observed
<1>3. CASE ConnectRefused(w)
  <2>1. Private(w) /\ Adds(w)
    BY <1>3, <1>e, <1>h DEF ConnectRefused, Database
  <2> QED BY <1>3, <2>1 DEF ConnectRefused, At, TypeOK, Frame, Private, Adds
<1>4. CASE Connect(w) /\ ~ConnectRefused(w)
  <2> USE <1>2 DEF At, Database
  <2>1. CASE Ensure(w)
    BY <2>1, <1>c, <1>h DEF Ensure
  <2>2. CASE ReadToProbe(w)
    BY <2>2, <1>d, <1>h DEF ReadToProbe
  <2>3. CASE Probe(w)
    BY <2>3, <1>c, <1>e, <1>h DEF Probe
  <2>4. CASE Discard(w)
    BY <2>4, <1>a, <1>h DEF Discard, Locals, Private
  <2>5. CASE Discarding(w)
    BY <2>5, <1>c, <1>f, <1>g DEF Discarding, Closed, Calls
  <2>6. CASE Drop(w)
    BY <2>6, <1>c, <1>h DEF Drop
  <2>7. CASE Open(w)
    BY <2>7, <1>c, <1>g DEF Open, Fresh
  <2>8. CASE Tables(w)
    BY <2>8, <1>a, <1>e, <1>h DEF Tables, Private
  <2>9. CASE Create(w)
    BY <2>9, <1>a, <1>e, <1>h DEF Create, Locals, Private
  <2>10. CASE Index(w)
    BY <2>10, <1>a, <1>h DEF Index, Locals, Private
  <2>11. CASE Indexing(w)
    BY <2>11, <1>c, <1>f, <1>g, <1>h DEF Indexing, Calls
  <2>12. CASE ReadToPublish(w)
    BY <2>12, <1>d, <1>h DEF ReadToPublish
  <2>13. CASE Publish(w)
    BY <2>13, <1>a, <1>e, <1>f, <1>g, <1>h DEF Publish, Private, Calls
  <2>14. CASE Opened(w)
    BY <2>14, <1>b, <1>c, <1>h DEF Opened
  <2> QED BY <1>4, <2>1, <2>2, <2>3, <2>4, <2>5, <2>6, <2>7, <2>8, <2>9, <2>10, <2>11,
             <2>12, <2>13, <2>14 DEF Connect
<1>5. CASE Attempt(w)
  <2> USE <1>2 DEF At, Database
  <2>1. CASE Lock(w)
    BY <2>1, <1>c, <1>h DEF Lock
  <2>2. CASE Cursor(w)
    BY <2>2, <1>a, <1>e, <1>h DEF Cursor, Private
  <2>3. CASE Execute(w)
    BY <2>3, <1>a, <1>h DEF Execute, Locals, Private
  <2>4. CASE Inserting(w)
    <3>1. held[w] \in Connections /\ UNCHANGED rows
      BY <2>4, <1>f DEF Inserting, Calls
    <3>2. pending' = [pending EXCEPT ![held[w]] = @ \cup {w}] => Adds(w)
      BY <3>1 DEF Adds, TypeOK
    <3> QED BY <2>4, <3>1, <3>2, <1>c, <1>e, <1>g, <1>h DEF Inserting
  <2>5. CASE ReadToCommit(w)
    BY <2>5, <1>a, <1>e, <1>h DEF ReadToCommit, Locals, Private
  <2>6. CASE Commit(w)
    BY <2>6, <1>b, <1>e, <1>f, <1>g, <1>h DEF Commit, Calls
  <2> QED BY <1>5, <2>1, <2>2, <2>3, <2>4, <2>5, <2>6 DEF Attempt
<1>6. CASE Recover(w)
  <2> USE <1>2 DEF At, Database
  <2>1. CASE Reset(w)
    <3>1. Private(w)
      BY <2>1, <1>a DEF Reset, Private, TypeOK
    <3> QED BY <2>1, <3>1, <1>h DEF Reset
  <2>2. CASE Forget(w)
    BY <2>2, <1>a, <1>h DEF Forget, Locals, Private
  <2>3. CASE Rollback(w)
    BY <2>3, <1>a, <1>f, <1>g, <1>h DEF Rollback, Locals, Private, Calls
  <2>4. CASE Close(w)
    BY <2>4, <1>c, <1>f, <1>g DEF Close, Closed, Calls
  <2> QED BY <1>6, <2>1, <2>2, <2>3, <2>4 DEF Recover
<1> QED BY <1>1, <1>3, <1>4, <1>5, <1>6 DEF Step

(***************************************************************************)
(* So an insert that is alone keeps what holds of it while others begin,   *)
(* and one that is over whatever they do.                                  *)
(***************************************************************************)
LEMMA StepKeepsOthers ==
  ASSUME WriterAssumption, WriterInv, NEW w \in Writers, Step(w),
         NEW v \in Writers, v # w
  PROVE  InsertInv(v)'
<1>1. Frame(w) /\ TypeOK
  BY StepFrames DEF WriterInv
<1>2. InsertInv(v)
  BY DEF WriterInv
<1>3. /\ pc'[v] = pc[v] /\ outcome'[v] = outcome[v] /\ retrying'[v] = retrying[v]
      /\ (alone'[v] => alone[v]) /\ (calm'[v] => calm[v]) /\ bad'[v] = bad[v]
      /\ (v \in rows => v \in rows')
      /\ \A k \in Connections : v \in pending'[k] => v \in pending[k]
  BY <1>1 DEF Frame
<1>4. ~Sole(v)'
  <2> SUFFICES ASSUME Sole(v)' PROVE FALSE
    OBVIOUS
  <2>1. Sole(v) /\ pc[w] # "idle"
    BY <1>1, <1>3 DEF Frame, Sole, Running
  <2>2. ~Running(w)
    BY <1>2, <2>1 DEF InsertInv, SoleInv
  <2> QED BY <1>1, <2>1, <2>2 DEF Frame, Running
<1>5. \A k \in Connections : ~(alone'[v] /\ v \in pending'[k])
  <2> SUFFICES ASSUME NEW k \in Connections, alone'[v], v \in pending'[k] PROVE FALSE
    OBVIOUS
  <2>1. pc[v] \in {"commit", "committing"}
    BY <1>2, <1>3 DEF InsertInv, WaitsInv
  <2> QED BY <1>3, <1>4, <2>1 DEF Sole, Running
<1>6. alone'[v] /\ outcome'[v] # "none" => (v \in rows' <=> v \in rows)
  <2> SUFFICES ASSUME alone'[v], outcome'[v] # "none", v \in rows', v \notin rows
               PROVE  FALSE
    BY <1>3
  <2>1. PICK k \in Connections : v \in pending[k]
    BY <1>1 DEF Frame
  <2> QED BY <1>2, <1>3, <2>1 DEF InsertInv, WaitsInv, CallInv
<1>7. CallInv(v)'
  <2>1. pc[v] = "idle" => v \notin rows'
    <3> SUFFICES ASSUME pc[v] = "idle", v \in rows' PROVE FALSE
      OBVIOUS
    <3>1. v \notin rows /\ \A k \in Connections : v \notin pending[k]
      BY <1>2 DEF InsertInv, CallInv
    <3> QED BY <1>1, <3>1 DEF Frame
  <2> QED BY <1>2, <1>3, <2>1 DEF InsertInv, CallInv
<1>8. SoleInv(v)' /\ CalmInv(v)' /\ WaitsInv(v)'
  BY <1>4, <1>5 DEF SoleInv, CalmInv, WaitsInv
<1>9. EndInv(v)'
  BY <1>2, <1>3, <1>6 DEF EndInv, InsertInv, Done
<1> QED BY <1>7, <1>8, <1>9 DEF InsertInv

(***************************************************************************)
(* An insert that stays on its way keeps nobody else running, and what its *)
(* steps must establish is about itself.                                   *)
(***************************************************************************)
LEMMA OwnStep ==
  ASSUME WriterAssumption, WriterInv, NEW w \in Writers, Step(w),
         pc[w] # "idle", alone' = alone
  PROVE  /\ alone[w] => /\ Sole(w)
                        /\ \A v \in Writers \ {w} : ~Running(v) /\ ~Running(v)'
                        /\ w \notin rows
         /\ outcome[w] = "none" /\ alone'[w] = alone[w] /\ bad'[w] = bad[w]
         /\ TypeOK'
<1>1. Frame(w) /\ TypeOK /\ InsertInv(w)
  BY StepFrames DEF WriterInv
<1>2. TypeOK'
  BY <1>1, StepTyped
<1>3. outcome[w] = "none" /\ Running(w)
  BY <1>1 DEF Frame, Running, InsertInv, CallInv
<1> QED BY <1>1, <1>2, <1>3 DEF Frame, Running, InsertInv, SoleInv, Sole

(***************************************************************************)
(* What a step leaves of the call that takes it.                           *)
(***************************************************************************)
Went(w, s, k) == pc'[w] = s /\ held'[w] = k /\ outcome'[w] = outcome[w] /\ retrying'[w] = retrying[w]
Ended(w, how) == pc'[w] = "done" /\ outcome'[w] = how

\* The parts of the steps, as seen by that call.
LEMMA CallGoes ==
  ASSUME TypeOK, NEW w \in Writers
  PROVE  /\ \A s, k : Moves(w, s, k) /\ UNCHANGED <<outcome, retrying>> => Went(w, s, k)
         /\ \A s, k : Moves(w, s, k) /\ UNCHANGED Locals => Went(w, s, k)
         /\ \A s : Goes(w, s) => Went(w, s, Null)
         /\ \A how : Ends(w, how) => Ended(w, how)
         /\ Raises(w) => Ended(w, "raised")
         /\ InitFails(w) => Ended(w, "dumped")
         /\ Fails(w) => IF retrying[w] THEN Ended(w, "dumped") ELSE Went(w, "reset", Null)
         /\ \A s : Reads(w, s) => IF conn = Null THEN Ended(w, "raised") ELSE Went(w, s, conn)
<1>1. \A s, k : Moves(w, s, k) /\ UNCHANGED <<outcome, retrying>> => Went(w, s, k)
  BY DEF TypeOK, Moves, Went
<1>2. \A s, k : Moves(w, s, k) /\ UNCHANGED Locals => Went(w, s, k)
  BY <1>1 DEF Locals
<1>3. \A s : Goes(w, s) => Went(w, s, Null)
  BY <1>2 DEF Goes
<1>4. \A how : Ends(w, how) => Ended(w, how)
  BY DEF TypeOK, Moves, Ends, Ended
<1>5. Raises(w) => Ended(w, "raised")
  BY <1>4 DEF Raises
<1>6. InitFails(w) => Ended(w, "dumped")
  BY <1>4 DEF InitFails
<1>7. Fails(w) => IF retrying[w] THEN Ended(w, "dumped") ELSE Went(w, "reset", Null)
  BY <1>3, <1>4 DEF Fails, LastTry
<1>8. \A s : Reads(w, s) => IF conn = Null THEN Ended(w, "raised") ELSE Went(w, s, conn)
  BY <1>2, <1>5 DEF Reads
<1> QED BY <1>1, <1>2, <1>3, <1>4, <1>5, <1>6, <1>7, <1>8

(***************************************************************************)
(* How an insert that is alone keeps its invariant: by going on with what  *)
(* holds at the step it comes to, or by ending as it should.               *)
(***************************************************************************)
Place(w) ==
  /\ pc[w] \in Without \cup With \cup OnIt \cup {"reset", "forget"}
  /\ pc[w] \in Without => conn = Null
  /\ pc[w] \in With => conn # Null
  /\ pc[w] \in OnIt => conn # Null /\ held[w] = conn
  /\ pc[w] = "forget" => held[w] = conn
  /\ pc[w] \in {"commit", "committing"} /\ link[conn] = "open" => w \in pending[conn]

Calm(w) ==
  calm[w] =>
    /\ pc[w] \in {"tables", "create", "index", "indexing", "publish", "publishing",
                  "opened"} => Usable(conn)
    /\ retrying[w] /\ pc[w] \in {"wait", "cursor", "execute", "inserting"} => Usable(conn)
    /\ pc[w] \in {"commit", "committing"} => link[conn] = "open"

\* It goes on ...
LEMMA GoesOn ==
  ASSUME NEW w \in Writers, alone' = alone, \A v \in Writers \ {w} : ~Running(v)',
         w \notin rows', WaitsInv(w)', Place(w)', Calm(w)', outcome'[w] = "none"
  PROVE  InsertInv(w)'
<1>1. pc'[w] # "idle" /\ pc'[w] # "done"
  BY DEF Place, Without, With, OnIt
<1>2. CallInv(w)' /\ EndInv(w)'
  BY <1>1 DEF CallInv, EndInv, Done
<1>3. SoleInv(w)' /\ CalmInv(w)'
  BY DEF SoleInv, Place, CalmInv, Calm
<1> QED BY <1>2, <1>3 DEF InsertInv

\* ... or ends ...
LEMMA EndsWell ==
  ASSUME NEW w \in Writers, pc'[w] = "done", WaitsInv(w)',
         outcome'[w] = IF w \in rows' THEN "returned" ELSE "dumped",
         calm'[w] /\ ~bad'[w] => w \in rows'
  PROVE  InsertInv(w)'
<1>1. ~Running(w)' /\ outcome'[w] # "none"
  BY DEF Running
<1> QED BY <1>1 DEF InsertInv, CallInv, SoleInv, CalmInv, EndInv, Sole

\* ... and one that is not alone has little to keep.
LEMMA NotAlone ==
  ASSUME NEW w \in Writers, ~alone'[w], pc'[w] # "idle", outcome'[w] = "none" <=> pc'[w] # "done"
  PROVE  InsertInv(w)'
BY DEF InsertInv, CallInv, SoleInv, WaitsInv, CalmInv, EndInv, Sole

(***************************************************************************)
(* Every step of a call after its first gives it an outcome as it ends.    *)
(***************************************************************************)
LEMMA OutcomeIsEnd ==
  ASSUME TypeOK, NEW w \in Writers, Connect(w) \/ Attempt(w) \/ Recover(w), outcome[w] = "none"
  PROVE  pc'[w] # "idle" /\ (outcome'[w] = "none" <=> pc'[w] # "done")
<1> DEFINE Goal == pc'[w] # "idle" /\ (outcome'[w] = "none" <=> pc'[w] # "done")
<1>1. \A s, k : Went(w, s, k) /\ s \notin {"idle", "done"} => Goal
  BY DEF Went
<1>2. \A how : Ended(w, how) /\ how # "none" => Goal
  BY DEF Ended
<1>3. \A s : s \notin {"idle", "done"} =>
        /\ \A k : Moves(w, s, k) /\ UNCHANGED <<outcome, retrying>> => Goal
        /\ \A k : Moves(w, s, k) /\ UNCHANGED Locals => Goal
        /\ Goes(w, s) => Goal
        /\ Reads(w, s) => Goal
  BY <1>1, <1>2, CallGoes
<1>4. Raises(w) \/ InitFails(w) \/ Fails(w) \/ Ends(w, "returned") \/ Ends(w, "dumped") => Goal
  BY <1>1, <1>2, CallGoes
<1>5. ASSUME NEW s, NEW k, Moves(w, s, k), UNCHANGED outcome, s \notin {"idle", "done"} PROVE Goal
  BY <1>5 DEF Moves, TypeOK
<1> HIDE DEF Goal
<1>6. CASE Connect(w)
  <2>1. Ensure(w) \/ Drop(w) \/ Open(w) \/ Opened(w) \/ Probe(w) \/ Discarding(w) \/ Indexing(w) => Goal
    BY <1>3, <1>4 DEF Ensure, Drop, Open, Opened, Probe, Discarding, Indexing
  <2>2. ReadToProbe(w) \/ ReadToPublish(w) \/ Discard(w) \/ Index(w) => Goal
    BY <1>3 DEF ReadToProbe, ReadToPublish, Discard, Index
  <2>3. ConnectRefused(w) \/ Tables(w) \/ Create(w) \/ Publish(w) => Goal
    BY <1>3, <1>4 DEF ConnectRefused, Tables, Create, Publish
  <2> QED BY <1>6, <2>1, <2>2, <2>3 DEF Connect, Goal
<1>7. CASE Attempt(w)
  <2>1. Lock(w) \/ Cursor(w) \/ Execute(w) \/ Inserting(w) \/ ReadToCommit(w) \/ Commit(w) => Goal
    BY <1>3, <1>4 DEF Lock, Cursor, Execute, Inserting, ReadToCommit, Commit
  <2> QED BY <1>7, <2>1 DEF Attempt, Goal
<1>8. CASE Recover(w)
  <2>1. Reset(w) \/ Forget(w) \/ Rollback(w) \/ Close(w) => Goal
    BY <1>3, <1>5 DEF Reset, Forget, Rollback, Close
  <2> QED BY <1>8, <2>1 DEF Recover, Goal
<1> QED BY <1>6, <1>7, <1>8

(***************************************************************************)
(* What an insert that is alone has when it takes a step, and who else.    *)
(***************************************************************************)
LEMMA AloneHas ==
  ASSUME WriterAssumption, WriterInv, NEW w \in Writers,
         Connect(w) \/ Attempt(w) \/ Recover(w), alone[w], alone' = alone
  PROVE  /\ TypeOK /\ Place(w) /\ Calm(w) /\ WaitsInv(w) /\ outcome[w] = "none"
         /\ \A v \in Writers \ {w} : ~Running(v) /\ ~Running(v)'
         /\ w \notin rows
         /\ bad'[w] = bad[w]
         /\ \A k \in Connections : pc[w] \notin {"commit", "committing"} => w \notin pending[k]
<1>0. Step(w)
  BY DEF Step
<1>1. TypeOK /\ InsertInv(w)
  BY DEF WriterInv
<1>2. pc[w] # "idle"
  BY <1>1 DEF InsertInv, CallInv
<1>3. /\ Sole(w) /\ w \notin rows /\ outcome[w] = "none" /\ bad'[w] = bad[w]
      /\ \A v \in Writers \ {w} : ~Running(v) /\ ~Running(v)'
  BY <1>0, <1>2, OwnStep
<1>4. Place(w) /\ Calm(w)
  BY <1>1, <1>3 DEF InsertInv, SoleInv, CalmInv, Place, Calm
<1> QED BY <1>1, <1>3, <1>4 DEF InsertInv, WaitsInv

(***************************************************************************)
(* It connects exactly when the storage has no connection, and to one that *)
(* it can use: without a fault it is not the end of it.                    *)
(***************************************************************************)
LEMMA ConnectKeeps ==
  ASSUME WriterAssumption, WriterInv, NEW w \in Writers, Connect(w), alone[w], alone' = alone
  PROVE  InsertInv(w)'
<1>0. /\ TypeOK /\ Place(w) /\ Calm(w) /\ outcome[w] = "none"
      /\ \A v \in Writers \ {w} : ~Running(v) /\ ~Running(v)'
      /\ w \notin rows
      /\ bad'[w] = bad[w]
      /\ pc[w] \notin {"commit", "committing"} => \A k \in Connections : w \notin pending[k]
  BY AloneHas
<1>1. \A s, k : Went(w, s, k) => pc'[w] = s /\ held'[w] = k /\ outcome'[w] = "none"
                                 /\ retrying'[w] = retrying[w]
  BY <1>0 DEF Went
\* The row is in no transaction, before and after.
<1>2. (\A k \in Connections : w \notin pending'[k]) => WaitsInv(w)'
  BY DEF WaitsInv
<1>3. pc[w] \notin {"probe", "probing", "discard", "discarding", "drop"}
  BY <1>0 DEF Place, Without, With, OnIt
<1> USE DEF At, Database
<1>4. CASE Ensure(w)
  <2>1. pc[w] = "ensure" /\ conn = Null
    BY <1>0, <1>4 DEF Ensure, Place, Without
  <2>2. Went(w, "open", Null) /\ UNCHANGED <<conn, pending, rows, link, txn>>
    BY <1>0, <1>4, <2>1, CallGoes DEF Ensure
  <2> QED BY <1>0, <1>1, <1>2, <2>1, <2>2, GoesOn DEF Place, Calm, Without, With, OnIt
<1>5. CASE Open(w)
  <2>1. Fresh \in Connections /\ pc[w] = "open"
    BY <1>5 DEF Open, Fresh
  <2>2. /\ Went(w, "tables", Null) /\ conn' = Fresh /\ UNCHANGED rows
        /\ link' = [link EXCEPT ![Fresh] = "open"] /\ txn' = [txn EXCEPT ![Fresh] = "none"]
        /\ pending' = [pending EXCEPT ![Fresh] = {}]
    BY <1>0, <1>5, CallGoes DEF Open, TxnEnded
  <2>3. Usable(conn)' /\ conn' # Null
    BY <1>0, <2>1, <2>2 DEF TypeOK, Usable, WriterAssumption
  <2>4. \A k \in Connections : w \notin pending'[k]
    BY <1>0, <2>1, <2>2 DEF TypeOK
  <2> QED BY <1>0, <1>1, <1>2, <2>2, <2>3, <2>4, GoesOn DEF Place, Calm, Without, With, OnIt
<1>6. CASE ConnectRefused(w)
  <2>1. /\ pc[w] = "open" /\ Ended(w, "dumped") /\ UNCHANGED <<pending, rows>>
        /\ calm' = [v \in Writers |-> FALSE]
    BY <1>0, <1>6, CallGoes DEF ConnectRefused
  <2> QED BY <1>0, <1>2, <2>1, EndsWell DEF Ended
<1>7. CASE Tables(w)
  <2>1. pc[w] = "tables" /\ conn # Null
    BY <1>0, <1>7 DEF Tables, Place, With
  <2>2. Went(w, "create", conn) /\ UNCHANGED <<conn, link, txn, pending, rows, calm>>
    BY <1>0, <1>7, <2>1, CallGoes DEF Tables, Observed
  <2> QED BY <1>0, <1>1, <1>2, <2>1, <2>2, GoesOn DEF Place, Calm, Without, With, OnIt, Usable
<1>8. CASE Create(w)
  <2>1. /\ pc[w] = "create" /\ held[w] = conn /\ conn # Null /\ (calm[w] => Usable(conn))
        /\ conn \in Connections
    BY <1>0, <1>8 DEF Create, Place, Calm, OnIt, TypeOK
  <2>2. UNCHANGED <<link, pending, rows, calm>>
    BY <1>8 DEF Create, Observed
  <2>3. CASE InitFails(w) /\ Rejects(held[w])
    <3>1. Ended(w, "dumped") /\ ~calm[w]
      BY <1>0, <2>1, <2>3, CallGoes DEF Rejects, Usable
    <3> QED BY <1>0, <1>2, <2>1, <2>2, <3>1, EndsWell DEF Ended
  <2>4. CASE /\ txn' = TxnBegun(held[w]) /\ Moves(w, "index", held[w])
             /\ UNCHANGED <<conn, lock, Locals>>
    <3>1. Went(w, "index", conn) /\ conn' = conn /\ (Usable(conn) => Usable(conn)')
      BY <1>0, <2>1, <2>2, <2>4, CallGoes DEF TxnBegun, TypeOK, Usable
    <3> QED BY <1>0, <1>1, <1>2, <2>1, <2>2, <3>1, GoesOn DEF Place, Calm, Without, With, OnIt
  <2> QED BY <1>8, <2>3, <2>4 DEF Create
<1>9. CASE Index(w)
  <2>1. pc[w] = "index" /\ held[w] = conn /\ conn # Null
    BY <1>0, <1>9 DEF Index, Place, OnIt
  <2>2. Went(w, "indexing", conn) /\ UNCHANGED <<conn, link, txn, pending, rows, calm>>
    BY <1>0, <1>9, <2>1, CallGoes DEF Index, Observed
  <2> QED BY <1>0, <1>1, <1>2, <2>1, <2>2, GoesOn DEF Place, Calm, Without, With, OnIt, Usable
<1>10. CASE Indexing(w)
  <2>1. /\ pc[w] = "indexing" /\ held[w] = conn /\ conn # Null /\ conn \in Connections
        /\ (calm[w] => Usable(conn))
    BY <1>0, <1>10 DEF Indexing, Place, Calm, OnIt, TypeOK
  \* No other call runs that its statement could be in a cycle with.
  <2>2. ~Deadlocked(w)
    BY <1>0 DEF Deadlocked, WaitsFor, Blocked, Running, At
  <2>3. Went(w, "publish", Null) /\ UNCHANGED <<conn, link, rows, calm>>
    BY <1>0, <1>10, CallGoes DEF Indexing, Observed
  <2>4. UNCHANGED pending /\ (Usable(conn) => Usable(conn)')
    BY <1>0, <1>10, <2>1, <2>2, <2>3 DEF Indexing, Rejects, Usable, TypeOK
  <2> QED BY <1>0, <1>1, <1>2, <2>1, <2>3, <2>4, GoesOn DEF Place, Calm, Without, With, OnIt
<1>11. CASE ReadToPublish(w)
  <2>1. pc[w] = "publish" /\ conn # Null
    BY <1>0, <1>11 DEF ReadToPublish, Place, With
  <2>2. Went(w, "publishing", conn) /\ UNCHANGED <<conn, link, txn, pending, rows, calm>>
    BY <1>0, <1>11, <2>1, CallGoes DEF ReadToPublish, Observed
  <2> QED BY <1>0, <1>1, <1>2, <2>1, <2>2, GoesOn DEF Place, Calm, Without, With, OnIt, Usable
<1>12. CASE Publish(w)
  <2>1. /\ pc[w] = "publishing" /\ held[w] = conn /\ conn # Null /\ conn \in Connections
        /\ (calm[w] => Usable(conn))
    BY <1>0, <1>12 DEF Publish, Place, Calm, OnIt, TypeOK
  <2>2. UNCHANGED <<link, calm>>
    BY <1>12 DEF Publish, Observed
  <2>3. CASE InitFails(w) /\ link[held[w]] # "open" /\ UNCHANGED <<pending, rows>>
    <3>1. Ended(w, "dumped") /\ ~calm[w]
      BY <1>0, <2>1, <2>3, CallGoes DEF Usable
    <3> QED BY <1>0, <1>2, <2>1, <2>2, <2>3, <3>1, EndsWell DEF Ended
  <2>4. CASE /\ link[held[w]] = "open" /\ Commits(held[w]) /\ Moves(w, "opened", Null)
             /\ UNCHANGED <<conn, lock, cursor, retrying, outcome>>
    <3>1. Went(w, "opened", Null) /\ UNCHANGED conn
      BY <1>0, <2>4, CallGoes
    <3>2. /\ w \notin rows' /\ \A k \in Connections : w \notin pending'[k]
      BY <1>0, <2>1, <2>4 DEF Commits, TxnEnded, TypeOK
    <3>3. Usable(conn)'
      BY <1>0, <2>1, <2>2, <2>4 DEF Commits, TxnEnded, TypeOK, Usable
    <3> QED BY <1>0, <1>1, <1>2, <2>1, <3>1, <3>2, <3>3, GoesOn DEF Place, Calm, Without, With, OnIt
  <2> QED BY <1>12, <2>3, <2>4 DEF Publish
<1>13. CASE Opened(w)
  <2>1. pc[w] = "opened" /\ conn # Null
    BY <1>0, <1>13 DEF Opened, Place, With
  <2>2. Went(w, "wait", Null) /\ UNCHANGED <<conn, link, txn, pending, rows, calm>>
    BY <1>0, <1>13, <2>1, CallGoes DEF Opened, Observed
  <2> QED BY <1>0, <1>1, <1>2, <2>1, <2>2, GoesOn DEF Place, Calm, Without, With, OnIt, Usable
<1>14. ~ReadToProbe(w) /\ ~Probe(w) /\ ~Discard(w) /\ ~Discarding(w) /\ ~Drop(w)
  BY <1>3 DEF ReadToProbe, Probe, Discard, Discarding, Drop
<1> QED BY <1>4, <1>5, <1>6, <1>7, <1>8, <1>9, <1>10, <1>11, <1>12, <1>13, <1>14 DEF Connect

(***************************************************************************)
(* The steps of an attempt.  One that fails at its second try, alone, has  *)
(* seen a fault or was of a record the database rejects.                   *)
(***************************************************************************)
LEMMA AttemptKeeps ==
  ASSUME WriterAssumption, WriterInv, NEW w \in Writers, Attempt(w), alone[w], alone' = alone
  PROVE  InsertInv(w)'
<1>0. /\ TypeOK /\ Place(w) /\ Calm(w) /\ WaitsInv(w) /\ outcome[w] = "none"
      /\ \A v \in Writers \ {w} : ~Running(v) /\ ~Running(v)'
      /\ w \notin rows
      /\ bad'[w] = bad[w]
      /\ pc[w] \notin {"commit", "committing"} => \A k \in Connections : w \notin pending[k]
  BY AloneHas
<1>1. \A s, k : Went(w, s, k) => pc'[w] = s /\ held'[w] = k /\ outcome'[w] = "none"
                                 /\ retrying'[w] = retrying[w]
  BY <1>0 DEF Went
<1>2. (\A k \in Connections : w \notin pending'[k]) => WaitsInv(w)'
  BY DEF WaitsInv
<1>a. UNCHANGED calm
  BY DEF Attempt, Lock, Cursor, Execute, Inserting, ReadToCommit, Commit, Observed
\* An attempt that fails leaves nothing of the row behind.
<1>3. ASSUME Fails(w), UNCHANGED rows, \A k \in Connections : w \notin pending'[k],
             calm[w] /\ retrying[w] => bad[w]
      PROVE  InsertInv(w)'
  <2>1. CASE retrying[w]
    <3>1. Ended(w, "dumped")
      BY <1>0, <1>3, <2>1, CallGoes
    <3> QED BY <1>0, <1>2, <1>3, <1>a, <2>1, <3>1, EndsWell DEF Ended
  <2>2. CASE ~retrying[w]
    <3>1. Went(w, "reset", Null)
      BY <1>0, <1>3, <2>2, CallGoes
    <3> QED BY <1>0, <1>1, <1>2, <1>3, <3>1, GoesOn DEF Place, Calm, Without, With, OnIt
  <2> QED BY <2>1, <2>2
<1> USE DEF At, Database
<1>4. CASE Lock(w)
  <2>1. pc[w] = "wait" /\ conn # Null
    BY <1>0, <1>4 DEF Lock, Place, With
  <2>2. Went(w, "cursor", Null) /\ UNCHANGED <<conn, link, txn, pending, rows>>
    BY <1>0, <1>4, <2>1, CallGoes DEF Lock
  <2> QED BY <1>0, <1>1, <1>2, <1>a, <2>1, <2>2, GoesOn DEF Place, Calm, Without, With, OnIt, Usable
<1>5. CASE Cursor(w)
  <2>1. pc[w] = "cursor" /\ conn # Null
    BY <1>0, <1>5 DEF Cursor, Place, With
  <2>2. Went(w, "execute", conn) /\ UNCHANGED <<conn, link, txn, pending, rows>>
    BY <1>0, <1>5, <2>1, CallGoes DEF Cursor
  <2> QED BY <1>0, <1>1, <1>2, <1>a, <2>1, <2>2, GoesOn DEF Place, Calm, Without, With, OnIt, Usable
<1>6. CASE Execute(w)
  <2>1. pc[w] = "execute" /\ held[w] = conn /\ conn # Null
    BY <1>0, <1>6 DEF Execute, Place, OnIt
  <2>2. Went(w, "inserting", conn) /\ UNCHANGED <<conn, link, txn, pending, rows>>
    BY <1>0, <1>6, <2>1, CallGoes DEF Execute
  <2> QED BY <1>0, <1>1, <1>2, <1>a, <2>1, <2>2, GoesOn DEF Place, Calm, Without, With, OnIt, Usable
<1>7. CASE Inserting(w)
  <2>1. /\ pc[w] = "inserting" /\ held[w] = conn /\ conn # Null /\ conn \in Connections
        /\ (calm[w] /\ retrying[w] => Usable(conn))
    BY <1>0, <1>7 DEF Inserting, Place, Calm, OnIt, TypeOK
  <2>2. UNCHANGED <<conn, link, rows>> /\ ~Deadlocked(w)
    BY <1>0, <1>7 DEF Inserting, Deadlocked, WaitsFor, Blocked, Running, At
  <2>3. CASE Rejects(conn) /\ Fails(w) /\ UNCHANGED <<txn, pending>>
    <3>1. calm[w] /\ retrying[w] => bad[w]
      BY <2>1, <2>3 DEF Rejects, Usable
    <3>2. \A k \in Connections : w \notin pending'[k]
      BY <1>0, <2>1, <2>3
    <3> QED BY <1>3, <2>2, <2>3, <3>1, <3>2
  <2>4. CASE bad[w] /\ Fails(w) /\ Aborts(conn)
    <3>1. \A k \in Connections : w \notin pending'[k]
      BY <1>0, <2>1, <2>4 DEF Aborts, TypeOK
    <3> QED BY <1>3, <2>2, <2>4, <3>1
  <2>5. CASE ~Rejects(conn) /\ Goes(w, "commit") /\ pending' = [pending EXCEPT ![conn] = @ \cup {w}]
    <3>1. Went(w, "commit", Null) /\ link[conn] = "open"
      BY <1>0, <2>5, CallGoes DEF Rejects
    <3>2. w \in pending'[conn] /\ \A k \in Connections : w \in pending'[k] => k = conn
      BY <1>0, <2>1, <2>5 DEF TypeOK
    <3>3. WaitsInv(w)'
      BY <1>1, <2>2, <3>1, <3>2 DEF WaitsInv
    <3> QED BY <1>0, <1>1, <1>a, <2>1, <2>2, <3>1, <3>2, <3>3, GoesOn DEF Place, Calm, Without, With, OnIt
  <2> QED BY <1>7, <2>1, <2>2, <2>3, <2>4, <2>5 DEF Inserting
<1>8. CASE ReadToCommit(w)
  <2>1. pc[w] = "commit" /\ conn # Null
    BY <1>0, <1>8 DEF ReadToCommit, Place, With
  <2>2. Went(w, "committing", conn) /\ UNCHANGED <<conn, link, txn, pending, rows>>
    BY <1>0, <1>8, <2>1, CallGoes DEF ReadToCommit, CommitOn
  <2>3. WaitsInv(w)'
    BY <1>0, <1>1, <2>2 DEF WaitsInv
  <2> QED BY <1>0, <1>1, <1>a, <2>1, <2>2, <2>3, GoesOn DEF Place, Calm, Without, With, OnIt, Usable
<1>9. CASE Commit(w)
  <2>1. /\ pc[w] = "committing" /\ held[w] = conn /\ conn # Null /\ conn \in Connections
        /\ (calm[w] => link[conn] = "open")
    BY <1>0, <1>9 DEF Commit, Place, Calm, OnIt, TypeOK
  <2>2. CASE link[conn] # "open" /\ Fails(w) /\ UNCHANGED <<txn, pending, rows>>
    <3>1. \A k \in Connections : w \notin pending'[k]
      BY <1>0, <2>2 DEF WaitsInv
    <3> QED BY <1>3, <2>1, <2>2, <3>1
  <2>3. CASE link[conn] = "open" /\ Ends(w, "returned") /\ Commits(conn)
    <3>1. Ended(w, "returned")
      BY <1>0, <2>3, CallGoes
    <3>2. w \in rows' /\ \A k \in Connections : w \notin pending'[k]
      BY <1>0, <2>1, <2>3 DEF Commits, TxnEnded, TypeOK, WaitsInv, Place
    <3> QED BY <1>2, <3>1, <3>2, EndsWell DEF Ended
  <2> QED BY <1>9, <2>1, <2>2, <2>3 DEF Commit
<1> QED BY <1>4, <1>5, <1>6, <1>7, <1>8, <1>9 DEF Attempt

(***************************************************************************)
(* The steps between two attempts.                                         *)
(***************************************************************************)
LEMMA RecoverKeeps ==
  ASSUME WriterAssumption, WriterInv, NEW w \in Writers, Recover(w), alone[w], alone' = alone
  PROVE  InsertInv(w)'
<1>0. /\ TypeOK /\ Place(w) /\ outcome[w] = "none"
      /\ \A v \in Writers \ {w} : ~Running(v) /\ ~Running(v)'
      /\ w \notin rows
      /\ pc[w] \notin {"commit", "committing"} => \A k \in Connections : w \notin pending[k]
  BY AloneHas
<1>1. pc[w] \in {"reset", "forget", "rollback", "close"} /\ UNCHANGED <<rows, outcome>>
  BY DEF Recover, Reset, Forget, Rollback, Close, At, Goes, Locals, Observed, Database
<1>2. \A k \in Connections : w \notin pending'[k]
  BY <1>0, <1>1 DEF Recover, Reset, Forget, Rollback, Close, Closed, TxnEnded, Database, TypeOK
<1>3. WaitsInv(w)'
  BY <1>2 DEF WaitsInv
<1>4. \A s, k : Moves(w, s, k) => pc'[w] = s /\ held'[w] = k
  BY <1>0 DEF Moves, TypeOK
<1>5. Place(w)'
  <2>1. CASE Reset(w)
    BY <2>1, <1>4 DEF Reset, Place, Without, With, OnIt
  <2>2. CASE Forget(w)
    BY <2>2, <1>4 DEF Forget, Place, Without, With, OnIt
  <2>3. CASE Rollback(w)
    BY <2>3, <1>0, <1>4 DEF Rollback, Place, Without, With, OnIt, At
  <2>4. CASE Close(w)
    BY <2>4, <1>0, <1>4 DEF Close, Goes, Place, Without, With, OnIt, At
  <2> QED BY <2>1, <2>2, <2>3, <2>4 DEF Recover
<1>6. pc'[w] \in {"forget", "ensure", "rollback", "close"}
  BY <1>4 DEF Recover, Reset, Forget, Rollback, Close, Goes
<1>7. Calm(w)'
  BY <1>6 DEF Calm
<1> QED BY <1>0, <1>1, <1>3, <1>5, <1>7, GoesOn

(***************************************************************************)
(* A call begins.                                                          *)
(***************************************************************************)
LEMMA BeginKeeps ==
  ASSUME WriterAssumption, WriterInv, NEW w \in Writers, Begin(w)
  PROVE  InsertInv(w)'
<1>0. TypeOK /\ InsertInv(w) /\ TypeOK'
  BY AttemptTyped DEF WriterInv
<1>1. /\ pc[w] = "idle" /\ Went(w, IF conn = Null THEN "ensure" ELSE "wait", Null)
      /\ UNCHANGED <<conn, link, txn, pending, rows, bad>>
      /\ alone' = [v \in Writers |-> IF v = w THEN \A u \in Writers : ~Running(u)
                                     ELSE alone[v] /\ ~Running(v)]
  BY <1>0, CallGoes DEF Begin, At, Database
<1>2. alone'[w] => \A v \in Writers \ {w} : ~Running(v)'
  BY <1>0, <1>1 DEF Begin, Goes, Moves, TypeOK, Running
<1>3. /\ w \notin rows' /\ (\A k \in Connections : w \notin pending'[k])
      /\ ~retrying'[w] /\ outcome'[w] = "none"
  BY <1>0, <1>1 DEF InsertInv, CallInv, Went
<1>4. pc'[w] = IF conn = Null THEN "ensure" ELSE "wait"
  BY <1>1 DEF Went
<1> QED BY <1>1, <1>2, <1>3, <1>4 DEF InsertInv, CallInv, SoleInv, WaitsInv, CalmInv, EndInv,
           Done, Sole, Without, With, OnIt

(***************************************************************************)
(* A dropped backend takes its transaction with it, and the calm.          *)
(***************************************************************************)
LEMMA DropKeeps ==
  ASSUME WriterAssumption, WriterInv, NEW k \in Connections, DropBackend(k)
  PROVE  WriterInv'
<1>0. /\ TypeOK /\ link[k] = "open" /\ faults < MaxFaults /\ faults' = faults + 1
      /\ calm' = [v \in Writers |-> calm[v] /\ ~Running(v)]
      /\ link' = [link EXCEPT ![k] = "dead"]
      /\ txn' = [txn EXCEPT ![k] = "none"]
      /\ pending' = [pending EXCEPT ![k] = {}]
      /\ UNCHANGED <<conn, lock, rows, bad, pc, held, cursor, ddl, retrying, outcome, alone>>
  BY DEF DropBackend, TxnEnded, Locals, WriterInv
<1>1. TypeOK'
  BY <1>0 DEF TypeOK, WriterAssumption
<1>2. ASSUME NEW w \in Writers PROVE InsertInv(w)'
  <2>1. InsertInv(w)
    BY DEF WriterInv
  <2>2. CallInv(w)' /\ WaitsInv(w)'
    <3>1. \A j \in Connections : w \in pending'[j] => w \in pending[j] /\ j # k
      BY <1>0 DEF TypeOK
    <3>2. \A j \in Connections : j # k => link'[j] = link[j]
      BY <1>0 DEF TypeOK
    <3> QED BY <1>0, <2>1, <3>1, <3>2 DEF InsertInv, CallInv, WaitsInv
  <2>3. SoleInv(w)'
    <3>1. \A j \in Connections : link'[j] = "open" => link[j] = "open" /\ pending'[j] = pending[j]
      BY <1>0 DEF TypeOK
    <3>2. pc[w] \in With => conn \in Connections \/ ~Sole(w)
      BY <1>0, <2>1 DEF InsertInv, SoleInv, TypeOK
    <3>3. pc[w] \in OnIt => conn \in Connections \/ ~Sole(w)
      BY <1>0, <2>1 DEF InsertInv, SoleInv, TypeOK
    <3>4. Sole(w)' = Sole(w) /\ \A v \in Writers : Running(v)' = Running(v)
      BY <1>0 DEF Sole, Running
    <3>5. "commit" \in With /\ "committing" \in OnIt
      BY DEF With, OnIt
    <3> QED BY <1>0, <2>1, <3>1, <3>2, <3>3, <3>4, <3>5 DEF InsertInv, SoleInv
  <2>4. CalmInv(w)' /\ EndInv(w)'
    BY <1>0, <2>1 DEF InsertInv, CalmInv, EndInv, Done, Sole, Running
  <2> QED BY <2>2, <2>3, <2>4 DEF InsertInv
<1> QED BY <1>1, <1>2 DEF WriterInv

(***************************************************************************)
(* The inductive invariant of the writer.                                  *)
(***************************************************************************)
LEMMA WriterInvHolds == ASSUME WriterAssumption PROVE Init /\ [][Next]_vars => []WriterInv
<1>1. Init => WriterInv
  BY InitWriter
<1>2. WriterInv /\ [Next]_vars => WriterInv'
  <2> SUFFICES ASSUME WriterInv, [Next]_vars PROVE WriterInv'
    OBVIOUS
  <2>1. ASSUME NEW w \in Writers, Step(w) PROVE WriterInv'
    <3>1. TypeOK'
      BY <2>1, StepTyped DEF WriterInv
    <3>2. InsertInv(w)'
      <4>1. CASE Begin(w)
        BY <4>1, BeginKeeps
      <4>2. CASE Connect(w) \/ Attempt(w) \/ Recover(w)
        <5>1. alone' = alone
          BY <4>2 DEF Connect, Ensure, ReadToProbe, Probe, Discard, Discarding, Drop, Open,
                      ConnectRefused, Tables, Create, Index, Indexing, ReadToPublish, Publish,
                      Opened, Attempt, Lock, Cursor, Execute, Inserting, ReadToCommit, Commit,
                      Recover, Reset, Forget, Rollback, Close, Observed
        <5>2. CASE alone[w]
          BY <4>2, <5>1, <5>2, ConnectKeeps, AttemptKeeps, RecoverKeeps
        <5>3. CASE ~alone[w]
          <6>1. pc[w] # "idle" /\ pc[w] # "done"
            BY <4>2 DEF Connect, Ensure, ReadToProbe, Probe, Discard, Discarding, Drop, Open,
                        ConnectRefused, Tables, Create, Index, Indexing, ReadToPublish, Publish,
                        Opened, Attempt, Lock, Cursor, Execute, Inserting, ReadToCommit, Commit,
                        Recover, Reset, Forget, Rollback, Close, At
          <6>2. outcome[w] = "none"
            BY <6>1 DEF WriterInv, InsertInv, CallInv
          <6>3. pc'[w] # "idle" /\ (outcome'[w] = "none" <=> pc'[w] # "done")
            BY <4>2, <6>2, OutcomeIsEnd DEF WriterInv
          <6> QED BY <5>1, <5>3, <6>3, NotAlone
        <5> QED BY <5>2, <5>3
      <4> QED BY <2>1, <4>1, <4>2 DEF Step
    <3>3. \A v \in Writers : v # w => InsertInv(v)'
      BY <2>1, StepKeepsOthers
    <3> QED BY <3>1, <3>2, <3>3 DEF WriterInv
  <2>2. CASE UNCHANGED vars
    <3>1. TypeOK'
      BY <2>2 DEF vars, WriterInv, TypeOK
    <3>2. ASSUME NEW w \in Writers PROVE InsertInv(w)'
      BY <2>2 DEF vars, WriterInv, InsertInv, CallInv, SoleInv, WaitsInv, CalmInv, EndInv,
                  Sole, Running, Usable, Done
    <3> QED BY <3>1, <3>2 DEF WriterInv
  <2> QED BY <2>1, <2>2, DropKeeps DEF Next, Rest
<1> QED BY <1>1, <1>2, PTL

(***************************************************************************)
(* Type correctness of the writer; the fairness plays no part here, and    *)
(* where the writer is a part of a larger instance there is none.          *)
(***************************************************************************)
THEOREM WriterTypeOK == ASSUME WriterAssumption PROVE Init /\ [][Next]_vars => []TypeOK
<1>1. WriterInv => TypeOK
  BY DEF WriterInv
<1> QED BY <1>1, WriterInvHolds, PTL

(***************************************************************************)
(* An insert that overlapped no other stores its row or dumps the record,  *)
(* whatever the earlier ones left behind and whatever fails under it.      *)
(***************************************************************************)
THEOREM AloneIsKeptHolds ==
  ASSUME WriterAssumption PROVE Init /\ [][Next]_vars => []AloneIsKept
<1>1. WriterInv => AloneIsKept
  BY DEF WriterInv, InsertInv, EndInv, AloneIsKept
<1> QED BY <1>1, WriterInvHolds, PTL

(***************************************************************************)
(* Issue #243: with no fault under it such an insert stores its row, for   *)
(* its second attempt is on a connection of its own.                       *)
(***************************************************************************)
THEOREM RecordingRecoversHolds ==
  ASSUME WriterAssumption PROVE Init /\ [][Next]_vars => []RecordingRecovers
<1>1. WriterInv => RecordingRecovers
  BY DEF WriterInv, InsertInv, EndInv, RecordingRecovers
<1> QED BY <1>1, WriterInvHolds, PTL
=============================================================================
