------------------------ MODULE ReportDeliveryProofs ------------------------
(***************************************************************************)
(* Proofs about ReportDelivery for any number of reports, workers, queue   *)
(* slots and attempts, and for any bound on crashes; and about MCStorage,  *)
(* where the delivery stands beside the inserts into PostgreSQL.           *)
(***************************************************************************)
EXTENDS MCStorage, TLAPS

\* The inserts that PostgresWriterProofs is about.
StoreP == INSTANCE PostgresWriterProofs WITH pc <- insertPc, rows <- stored

(***************************************************************************)
(* A worker holds a report exactly while it is away from q.get, and sleeps *)
(* only before an attempt it still has, which is what keeps the attempt    *)
(* number within range(1, REPORT_SEND_MAX_RETRIES + 1).                    *)
(***************************************************************************)
WorkerInv ==
  \A w \in Workers :
    /\ (wpc[w] = "get") <=> (wrep[w] = NoReport)
    /\ wpc[w] = "sleep" => watt[w] < MaxRetries

TypeInv == TypeOK /\ WorkerInv

(***************************************************************************)
(* The values the steps assign, so that the sets they come from need not   *)
(* be expanded below.                                                      *)
(***************************************************************************)
LEMMA Members ==
  /\ {"putting", "queued", "sending", "acked", "unacked", "dumped", "lost"} \subseteq Places
  /\ {"get", "connect", "recv", "sleep", "dump"} \subseteq WorkerSteps
  /\ {"backlog", "reading", "insert", "reply", "closed"} \subseteq Phases
  /\ {"200", "300", "eof", "rst"} \subseteq Replies
  /\ 1 \in 1 .. MaxRetries
BY DeliveryAssumption
   DEF Places, Held, Settled, WorkerSteps, Phases, Replies

(***************************************************************************)
(* The type invariant is preserved by every step of a worker ...           *)
(***************************************************************************)
LEMMA WorkPreservesType ==
  ASSUME TypeInv, NEW w \in Workers, Work(w)
  PROVE  TypeInv'
<1> USE DeliveryAssumption, Members DEF TypeInv, TypeOK, WorkerInv,
        sensorVars, serverVars
<1>1. CASE Get(w)
  <2>1. /\ Head(queue) \in Reports
        /\ queue' \in Seq(Reports)
    BY <1>1 DEF Get, Taken
  <2> QED BY <1>1, <2>1 DEF Get
<1>2. CASE Connect(w)
  BY <1>2 DEF Connect
<1>3. CASE ConnectFails(w)
  BY <1>3 DEF ConnectFails, SocketError, AfterError
<1>4. CASE RecvTimesOut(w)
  BY <1>4 DEF RecvTimesOut, SocketError, AfterError
<1>5. CASE RecvReset(w)
  BY <1>5 DEF RecvReset, SocketError, AfterError
<1>6. CASE RecvReturns(w)
  <2> DEFINE how == IF reply[Conn(w)] = "200" THEN "acked" ELSE "unacked"
  <2>1. how \in Places
    OBVIOUS
  <2>2. Finish(w, how)
    BY ONLY <1>6 DEF RecvReturns
  <2> HIDE DEF how
  <2> QED BY <1>6, <2>1, <2>2 DEF RecvReturns, Finish
<1>7. CASE NextAttempt(w)
  BY <1>7 DEF NextAttempt
<1>8. CASE SensorDump(w)
  <2>1. sensorDump' \subseteq Reports
    BY <1>8 DEF SensorDump, Dumped
  <2>2. PICK how \in {"dumped", "lost"} : Finish(w, how)
    BY <1>8 DEF SensorDump
  <2> QED BY <1>8, <2>1, <2>2 DEF SensorDump, Finish
<1> QED
  BY <1>1, <1>2, <1>3, <1>4, <1>5, <1>6, <1>7, <1>8 DEF Work

(***************************************************************************)
(* ... by every step of a server thread ...                                *)
(***************************************************************************)
LEMMA HandlePreservesType ==
  ASSUME TypeInv, NEW c \in Conns, Handle(c)
  PROVE  TypeInv'
<1> USE Members DEF TypeInv, TypeOK, WorkerInv, sensorVars
<1>0. c[1] \in Reports
  BY DEF Conns
<1>1. CASE Accept(c)
  BY <1>1 DEF Accept
<1>2. CASE Receive(c)
  BY <1>2 DEF Receive
<1>3. CASE RejectMessage(c)
  BY <1>3 DEF RejectMessage
<1>4. CASE Insert(c)
  BY <1>0, <1>4 DEF Insert, InsertOrIgnore
<1>5. CASE InsertLocked(c)
  <2>1. serverDump' \subseteq Reports
    BY <1>0, <1>5 DEF InsertLocked, Contended, Dumped
  <2>2. \/ phase' = phase
        \/ phase' = [phase EXCEPT ![c] = "reply"]
    BY <1>5 DEF InsertLocked
  <2> QED BY <1>5, <2>1, <2>2 DEF InsertLocked
<1>6. CASE InsertSkipped(c)
  BY <1>6 DEF InsertSkipped
<1>7. CASE Reply(c)
  BY <1>7 DEF Reply
<1>8. CASE InsertRaises(c)
  <2>1. serverDump' \subseteq Reports
    BY <1>0, <1>8 DEF InsertRaises, Dumped
  <2>2. phase' \in [Conns -> Phases] /\ reply' \in [Conns -> Replies]
    BY <1>8 DEF InsertRaises
  <2> QED BY <1>8, <2>1, <2>2 DEF InsertRaises
<1> QED
  BY <1>1, <1>2, <1>3, <1>4, <1>5, <1>6, <1>7, <1>8 DEF Handle

(***************************************************************************)
(* ... and by the deaths and restarts of the two processes.                *)
(***************************************************************************)
LEMMA DeathPreservesType ==
  ASSUME TypeInv, ServerCrash \/ ServerRestart \/ SensorStop
  PROVE  TypeInv'
<1> USE Members DEF TypeInv, TypeOK, WorkerInv, sensorVars, serverVars
<1>1. CASE ServerCrash
  <2>1. phase' \in [Conns -> Phases]
    BY <1>1 DEF ServerCrash
  <2>2. reply' \in [Conns -> Replies]
    <3>1. PICK half \in {"eof", "rst"} :
            reply' = [c \in Conns |-> AfterCrash(c, half)]
      BY <1>1 DEF ServerCrash
    <3>2. {"eof", "rst", half} \subseteq Replies
      BY <3>1
    <3>3. ASSUME NEW c \in Conns PROVE AfterCrash(c, half) \in Replies
      BY <3>2 DEF AfterCrash
    <3> QED BY <3>1, <3>3
  <2>3. UNCHANGED <<sensorVars, tries, rows, serverDump, stops>>
    BY <1>1 DEF ServerCrash
  <2>4. serverUp' \in BOOLEAN
    BY <1>1, Zenon DEF ServerCrash
  <2>5. crashes' \in Nat
    BY <1>1 DEF ServerCrash
  <2> QED BY <2>1, <2>2, <2>3, <2>4, <2>5
<1>2. CASE ServerRestart
  BY <1>2 DEF ServerRestart
<1>3. CASE SensorStop
  <2>1. << >> \in Seq(Reports)
    OBVIOUS
  <2>2. place' \in [Reports -> Places]
    BY <1>3 DEF SensorStop
  <2>3. /\ wrep' \in [Workers -> Reports \cup {NoReport}]
        /\ wpc' \in [Workers -> WorkerSteps]
        /\ watt' \in [Workers -> 1 .. MaxRetries]
    BY <1>3 DEF SensorStop
  <2> QED BY <1>3, <2>1, <2>2, <2>3 DEF SensorStop
<1> QED BY <1>1, <1>2, <1>3

(***************************************************************************)
(* The type invariant with what makes it inductive.                        *)
(***************************************************************************)
LEMMA TypeInvHolds == Spec => []TypeInv
<1>1. Init => TypeInv
  <2> SUFFICES ASSUME Init PROVE TypeInv
    OBVIOUS
  <2>1. << >> \in Seq(Reports)
    OBVIOUS
  <2> QED
    BY <2>1, DeliveryAssumption
       DEF Init, TypeInv, TypeOK, WorkerInv, Places, WorkerSteps, Phases, Replies
<1>2. TypeInv /\ [Next]_vars => TypeInv'
  <2> SUFFICES ASSUME TypeInv, [Next]_vars PROVE TypeInv'
    OBVIOUS
  <2> USE Members DEF TypeInv, TypeOK, WorkerInv, sensorVars, serverVars
  <2>1. ASSUME NEW r \in Reports, Capture(r) PROVE TypeInv'
    BY <2>1 DEF Capture
  <2>2. ASSUME NEW r \in Reports, Put(r) PROVE TypeInv'
    BY <2>2 DEF Put
  <2>3. CASE Quiet \/ UNCHANGED vars
    BY <2>3 DEF Quiet, vars
  <2> QED
    BY <2>1, <2>2, <2>3, WorkPreservesType, HandlePreservesType,
       DeathPreservesType DEF Next
<1> QED
  BY <1>1, <1>2, PTL DEF Spec

(***************************************************************************)
(* Every variable keeps its type, every worker away from the queue holds a *)
(* report, and no attempt beyond REPORT_SEND_MAX_RETRIES is ever made.     *)
(***************************************************************************)
THEOREM TypeCorrect == Spec => []TypeOK
<1>1. TypeInv => TypeOK
  BY DEF TypeInv
<1> QED
  BY <1>1, TypeInvHolds, PTL

-----------------------------------------------------------------------------
(***************************************************************************)
(* The hand-over of reports, in the form the steps use: only the places,   *)
(* the queue and what each worker holds matter to it.                      *)
(***************************************************************************)
HandOver == TypeInv /\ OnePlace

\* A worker that settles its report holds none afterwards.
LEMMA FinishKeepsOnePlace ==
  ASSUME HandOver, NEW w \in Workers, wpc[w] # "get",
         NEW how \in Settled, Finish(w, how)
  PROVE  OnePlace'
<1> USE DEF HandOver, TypeInv, TypeOK, WorkerInv, OnePlace, Finish
<1>1. /\ wrep[w] \in Reports
      /\ place[wrep[w]] = "sending"
  OBVIOUS
<1>2. how \notin {"queued", "sending"}
  BY DEF Settled
<1>3. \A r \in Reports : r # wrep[w] => place'[r] = place[r]
  OBVIOUS
<1>4. place'[wrep[w]] = how
  BY <1>1
<1>5. \A v \in Workers : wrep'[v] = IF v = w THEN NoReport ELSE wrep[v]
  OBVIOUS
<1>6. \A v \in Workers : v # w => wrep[v] # wrep[w]
  BY <1>1, DeliveryAssumption
<1>7. /\ Len(queue') <= QueueMax
      /\ \A i, j \in 1 .. Len(queue') : queue'[i] = queue'[j] => i = j
  OBVIOUS
<1>8. ASSUME NEW r \in Reports
      PROVE  (place'[r] = "queued") <=> (\E i \in 1 .. Len(queue') : queue'[i] = r)
  BY <1>1, <1>2, <1>3, <1>4
<1>9. ASSUME NEW r \in Reports
      PROVE  (place'[r] = "sending") <=> (\E v \in Workers : wrep'[v] = r)
  BY <1>1, <1>2, <1>3, <1>4, <1>5, <1>6, DeliveryAssumption
<1>10. \A u, v \in Workers : wrep'[u] = wrep'[v] /\ wrep'[u] # NoReport => u = v
  BY <1>5
<1> QED
  BY <1>7, <1>8, <1>9, <1>10

\* A report is queued once, by the thread that captured it.
LEMMA PutKeepsOnePlace ==
  ASSUME HandOver, NEW r \in Reports, Put(r)
  PROVE  OnePlace'
<1> USE DEF HandOver, TypeInv, TypeOK, OnePlace
<1>1. /\ queue' = Append(queue, r)
      /\ place' = [place EXCEPT ![r] = "queued"]
      /\ wrep' = wrep
      /\ place[r] = "putting"
  BY DEF Put
<1>2. Len(queue) < QueueMax
  BY DEF Put, Room
<1>3. /\ Len(queue') = Len(queue) + 1
      /\ \A i \in 1 .. Len(queue) : queue'[i] = queue[i]
      /\ queue'[Len(queue) + 1] = r
  BY <1>1
<1>4. \A i \in 1 .. Len(queue) : queue[i] # r
  BY <1>1
<1>5. Len(queue') <= QueueMax
  BY <1>2, <1>3, DeliveryAssumption
<1>6. ASSUME NEW i \in 1 .. Len(queue'), NEW j \in 1 .. Len(queue'),
             queue'[i] = queue'[j]
      PROVE  i = j
  <2>1. /\ i \in 1 .. Len(queue) \/ i = Len(queue) + 1
        /\ j \in 1 .. Len(queue) \/ j = Len(queue) + 1
    BY <1>3
  <2>2. CASE i \in 1 .. Len(queue) /\ j \in 1 .. Len(queue)
    <3>1. queue[i] = queue[j]
      BY <1>3, <1>6, <2>2
    <3> QED BY <2>2, <3>1
  <2>3. CASE i \in 1 .. Len(queue) /\ j = Len(queue) + 1
    <3>1. queue[i] = r
      BY <1>3, <1>6, <2>3
    <3> QED BY <1>4, <2>3, <3>1
  <2>4. CASE i = Len(queue) + 1 /\ j \in 1 .. Len(queue)
    <3>1. queue[j] = r
      BY <1>3, <1>6, <2>4
    <3> QED BY <1>4, <2>4, <3>1
  <2> QED BY <2>1, <2>2, <2>3, <2>4
<1>7. ASSUME NEW q \in Reports
      PROVE  (place'[q] = "queued") <=> (\E i \in 1 .. Len(queue') : queue'[i] = q)
  <2>1. CASE q = r
    BY <2>1, <1>1, <1>3
  <2>2. CASE q # r
    <3>1. (place'[q] = "queued") <=> (\E i \in 1 .. Len(queue) : queue[i] = q)
      BY <2>2, <1>1
    <3>2. ASSUME NEW i \in 1 .. Len(queue), queue[i] = q
          PROVE  \E j \in 1 .. Len(queue') : queue'[j] = q
      BY <3>2, <1>3
    <3>3. ASSUME NEW j \in 1 .. Len(queue'), queue'[j] = q
          PROVE  j \in 1 .. Len(queue) /\ queue[j] = q
      BY <3>3, <2>2, <1>3
    <3> QED BY <3>1, <3>2, <3>3
  <2> QED BY <2>1, <2>2
<1>8. /\ \A q \in Reports :
           (place'[q] = "sending") <=> (\E w \in Workers : wrep'[w] = q)
      /\ \A v, w \in Workers : wrep'[v] = wrep'[w] /\ wrep'[v] # NoReport => v = w
  BY <1>1
<1> QED
  BY <1>5, <1>6, <1>7, <1>8

\* A worker takes the head of the queue, and nobody else holds it.
LEMMA GetKeepsOnePlace ==
  ASSUME HandOver, NEW w \in Workers, Get(w)
  PROVE  OnePlace'
<1> USE DEF HandOver, TypeInv, TypeOK, WorkerInv, OnePlace
<1> DEFINE h == Head(queue)
<1>1. /\ queue # << >>
      /\ queue' = Tail(queue)
      /\ place' = [place EXCEPT ![h] = "sending"]
      /\ wrep' = [wrep EXCEPT ![w] = h]
      /\ wrep[w] = NoReport
  BY DEF Get, Taken
<1>2. /\ Len(queue) \in Nat \ {0}
      /\ h = queue[1]
      /\ h \in Reports
      /\ Len(queue') = Len(queue) - 1
      /\ \A i \in 1 .. Len(queue') : queue'[i] = queue[i + 1]
  BY <1>1
<1>3. place[h] = "queued"
  <2>1. 1 \in 1 .. Len(queue) /\ queue[1] = h
    BY <1>2
  <2> QED BY <2>1, <1>2
<1>4. \A v \in Workers : wrep[v] # h
  BY <1>2, <1>3
<1> HIDE DEF h
<1>5. Len(queue') <= QueueMax
  BY <1>2, DeliveryAssumption
<1>6. ASSUME NEW i \in 1 .. Len(queue'), NEW j \in 1 .. Len(queue'),
             queue'[i] = queue'[j]
      PROVE  i = j
  <2>1. /\ i + 1 \in 1 .. Len(queue) /\ j + 1 \in 1 .. Len(queue)
        /\ queue[i + 1] = queue[j + 1]
    BY <1>2, <1>6
  <2>2. i + 1 = j + 1
    BY <2>1
  <2> QED BY <2>2
<1>7. ASSUME NEW q \in Reports
      PROVE  (place'[q] = "queued") <=> (\E i \in 1 .. Len(queue') : queue'[i] = q)
  <2>1. CASE q = h
    BY <2>1, <1>1, <1>2
  <2>2. CASE q # h
    <3>1. (place'[q] = "queued") <=> (\E i \in 1 .. Len(queue) : queue[i] = q)
      BY <2>2, <1>1
    <3>2. ASSUME NEW i \in 1 .. Len(queue), queue[i] = q
          PROVE  \E j \in 1 .. Len(queue') : queue'[j] = q
      <4>1. i - 1 \in 1 .. Len(queue') /\ queue'[i - 1] = q
        BY <2>2, <3>2, <1>2
      <4> QED BY <4>1
    <3>3. ASSUME NEW j \in 1 .. Len(queue'), queue'[j] = q
          PROVE  \E i \in 1 .. Len(queue) : queue[i] = q
      <4>1. j + 1 \in 1 .. Len(queue) /\ queue[j + 1] = q
        BY <3>3, <1>2
      <4> QED BY <4>1
    <3> QED BY <3>1, <3>2, <3>3
  <2> QED BY <2>1, <2>2
<1>8. ASSUME NEW q \in Reports
      PROVE  (place'[q] = "sending") <=> (\E v \in Workers : wrep'[v] = q)
  BY <1>1, <1>2, <1>4, DeliveryAssumption
<1>9. \A u, v \in Workers : wrep'[u] = wrep'[v] /\ wrep'[u] # NoReport => u = v
  BY <1>1, <1>4
<1> QED
  BY <1>5, <1>6, <1>7, <1>8, <1>9

(***************************************************************************)
(* Every captured report is in exactly one place between _enrich_and_send, *)
(* the bounded queue and _report_worker, so no two workers ever send the   *)
(* same capture and none is dropped on the way to a worker.                *)
(***************************************************************************)
THEOREM OnePlaceHolds == Spec => []OnePlace
<1>1. Init => OnePlace
  BY DeliveryAssumption DEF Init, OnePlace
<1>2. TypeInv /\ OnePlace /\ [Next]_vars => OnePlace'
  <2> SUFFICES ASSUME TypeInv, OnePlace, [Next]_vars PROVE OnePlace'
    OBVIOUS
  <2> USE DEF HandOver
  <2>1. CASE UNCHANGED <<place, queue, wrep>>
    BY <2>1 DEF OnePlace
  <2>2. ASSUME NEW r \in Reports, Capture(r) PROVE OnePlace'
    <3>1. /\ place[r] = "idle"
          /\ place' = [place EXCEPT ![r] = "putting"]
          /\ UNCHANGED <<queue, wrep>>
      BY <2>2 DEF Capture
    <3> QED BY <3>1 DEF TypeInv, TypeOK, OnePlace
  <2>3. ASSUME NEW r \in Reports, Put(r) PROVE OnePlace'
    BY <2>3, PutKeepsOnePlace
  <2>4. ASSUME NEW w \in Workers, Work(w) PROVE OnePlace'
    <3>1. CASE Get(w)
      BY <3>1, GetKeepsOnePlace
    <3>2. CASE Connect(w) \/ ConnectFails(w) \/ RecvTimesOut(w) \/ RecvReset(w)
               \/ NextAttempt(w)
      BY <3>2, <2>1 DEF Connect, ConnectFails, RecvTimesOut, RecvReset,
                        NextAttempt, SocketError
    <3>3. CASE RecvReturns(w)
      <4>1. PICK how \in {"acked", "unacked"} : Finish(w, how)
        BY <3>3, Zenon DEF RecvReturns
      <4>2. how \in Settled /\ wpc[w] # "get"
        BY <3>3, <4>1 DEF RecvReturns, Settled
      <4> QED BY <4>1, <4>2, FinishKeepsOnePlace
    <3>4. CASE SensorDump(w)
      <4>1. PICK how \in {"dumped", "lost"} : Finish(w, how)
        BY <3>4 DEF SensorDump
      <4>2. how \in Settled /\ wpc[w] # "get"
        BY <3>4, <4>1 DEF SensorDump, Settled
      <4> QED BY <4>1, <4>2, FinishKeepsOnePlace
    <3> QED BY <2>4, <3>1, <3>2, <3>3, <3>4 DEF Work
  <2>5. ASSUME NEW c \in Conns, Handle(c) PROVE OnePlace'
    BY <2>5, <2>1 DEF Handle, Accept, Receive, RejectMessage, Insert,
       InsertLocked, InsertRaises, InsertSkipped, Reply, sensorVars
  <2>6. CASE ServerCrash \/ ServerRestart
    BY <2>6, <2>1 DEF ServerCrash, ServerRestart, sensorVars
  <2>7. CASE SensorStop
    <3>1. /\ queue' = << >>
          /\ wrep' = [w \in Workers |-> NoReport]
          /\ place' = [r \in Reports |-> IF place[r] \in Held THEN "lost" ELSE place[r]]
      BY <2>7 DEF SensorStop
    <3>2. \A r \in Reports : place'[r] \notin {"queued", "sending"}
      BY <3>1 DEF Held
    <3> QED BY <3>1, <3>2, DeliveryAssumption DEF OnePlace
  <2>8. CASE Quiet \/ UNCHANGED vars
    BY <2>8, <2>1 DEF Quiet, vars
  <2> QED
    BY <2>2, <2>3, <2>4, <2>5, <2>6, <2>7, <2>8 DEF Next
<1> QED
  BY <1>1, <1>2, TypeInvHolds, PTL DEF Spec

-----------------------------------------------------------------------------
(***************************************************************************)
(* The database holds at most one row of a report, however many attempts   *)
(* the server handles at once or after the sensor has given up on them.    *)
(***************************************************************************)
THEOREM AtMostOneRowHolds == Spec => []AtMostOneRow
<1>1. Init => AtMostOneRow
  BY DEF Init, AtMostOneRow
<1>2. TypeInv /\ AtMostOneRow /\ [Next]_vars => AtMostOneRow'
  <2> SUFFICES ASSUME TypeInv, AtMostOneRow, [Next]_vars PROVE AtMostOneRow'
    OBVIOUS
  <2>1. CASE UNCHANGED rows
    BY <2>1 DEF AtMostOneRow
  <2>2. ASSUME NEW c \in Conns, Insert(c) PROVE AtMostOneRow'
    <3>1. rows' = [rows EXCEPT ![c[1]] = InsertOrIgnore(@)]
      BY <2>2 DEF Insert
    <3> QED
      BY <3>1 DEF AtMostOneRow, InsertOrIgnore, TypeInv, TypeOK
  <2>3. ASSUME NEW w \in Workers, Work(w) PROVE UNCHANGED rows
    BY <2>3 DEF Work, Get, Connect, ConnectFails, RecvTimesOut, RecvReset,
       RecvReturns, NextAttempt, SensorDump, SocketError, serverVars
  <2>4. ASSUME NEW c \in Conns, Handle(c), ~Insert(c) PROVE UNCHANGED rows
    BY <2>4 DEF Handle, Accept, Receive, RejectMessage, InsertLocked,
       InsertRaises, InsertSkipped, Reply
  <2>5. CASE \/ \E r \in Reports : Capture(r) \/ Put(r)
             \/ ServerCrash \/ ServerRestart \/ SensorStop
             \/ Quiet \/ UNCHANGED vars
    BY <2>5, <2>1 DEF Capture, Put, ServerCrash, ServerRestart, SensorStop,
       Quiet, serverVars, vars
  <2> QED
    BY <2>1, <2>2, <2>3, <2>4, <2>5 DEF Next
<1> QED
  BY <1>1, <1>2, TypeInvHolds, PTL DEF Spec

-----------------------------------------------------------------------------
(***************************************************************************)
(* Why a 200 can be believed: '200 OK' is only sent by a thread that has   *)
(* committed the row or dumped the record, and both survive every process. *)
(***************************************************************************)
Kept(r) == InDatabase(r) \/ r \in serverDump

AckInv ==
  /\ \A c \in Conns : phase[c] = "reply" \/ reply[c] = "200" => Kept(c[1])
  /\ AckIsDurable


\* What the server has committed or dumped stays.
LEMMA KeptStays ==
  ASSUME TypeInv, [Next]_vars, NEW r \in Reports, Kept(r)
  PROVE  Kept(r)'
<1> USE DEF Kept, InDatabase
<1>1. CASE UNCHANGED <<rows, serverDump>>
  BY <1>1
<1>2. ASSUME NEW c \in Conns, Insert(c) PROVE Kept(r)'
  <2>1. /\ rows' = [rows EXCEPT ![c[1]] = InsertOrIgnore(@)]
        /\ serverDump' = serverDump
    BY <1>2 DEF Insert
  <2>2. rows \in [Reports -> Nat]
    BY DEF TypeInv, TypeOK
  <2> QED BY <2>1, <2>2 DEF InsertOrIgnore
<1>3. ASSUME NEW c \in Conns, InsertLocked(c) \/ InsertRaises(c) PROVE Kept(r)'
  BY <1>3 DEF InsertLocked, InsertRaises, Contended, Dumped
<1>4. ASSUME NEW w \in Workers, Work(w) PROVE UNCHANGED <<rows, serverDump>>
  BY <1>4 DEF Work, Get, Connect, ConnectFails, RecvTimesOut, RecvReset,
     RecvReturns, NextAttempt, SensorDump, SocketError, serverVars
<1>5. ASSUME NEW c \in Conns, Handle(c), ~Insert(c), ~InsertLocked(c),
             ~InsertRaises(c)
      PROVE  UNCHANGED <<rows, serverDump>>
  BY <1>5 DEF Handle, Accept, Receive, RejectMessage, InsertSkipped, Reply
<1>6. CASE \/ \E q \in Reports : Capture(q) \/ Put(q)
           \/ ServerCrash \/ ServerRestart \/ SensorStop
           \/ Quiet \/ UNCHANGED vars
  BY <1>6, <1>1 DEF Capture, Put, ServerCrash, ServerRestart, SensorStop,
     Quiet, serverVars, vars
<1> QED
  BY <1>1, <1>2, <1>3, <1>4, <1>5, <1>6 DEF Next

(***************************************************************************)
(* The invariant holds when INSERT fails only for lock contention and the  *)
(* dump file can be written: InsertSkipped answers without keeping.        *)
(***************************************************************************)
LEMMA AckInvHolds ==
  ASSUME StoreFaults \subseteq {"locked", "raises"}, DumpFaults = FALSE
  PROVE  Spec => []AckInv
<1>1. Init => AckInv
  BY DEF Init, AckInv, AckIsDurable
<1>2. TypeInv /\ AckInv /\ [Next]_vars => AckInv'
  <2> SUFFICES ASSUME TypeInv, AckInv, [Next]_vars PROVE AckInv'
    OBVIOUS
  <2>0. \A c \in Conns : c[1] \in Reports
    BY DEF Conns
  <2>1. \A r \in Reports : Kept(r) => Kept(r)'
    BY KeptStays
  <2> DEFINE Backed == \A c \in Conns : phase[c] = "reply" \/ reply[c] = "200" => Kept(c[1])
             Acked == \A r \in Reports : place[r] = "acked" => Kept(r)
  <2>2. (AckInv <=> Backed /\ Acked) /\ (AckInv' <=> Backed' /\ Acked')
    BY DEF AckInv, AckIsDurable, Kept
  <2>3. ASSUME UNCHANGED <<phase, reply>> PROVE Backed'
    BY <2>0, <2>1, <2>2, <2>3
  <2>4. ASSUME UNCHANGED place PROVE Acked'
    BY <2>1, <2>2, <2>4
  <2>5. ASSUME NEW c \in Conns, Handle(c) PROVE AckInv'
    <3>1. Acked'
      BY <2>5, <2>4 DEF Handle, Accept, Receive, RejectMessage, Insert,
         InsertLocked, InsertRaises, InsertSkipped, Reply, sensorVars
    <3>2. \A d \in Conns : d # c => phase'[d] = phase[d] /\ reply'[d] = reply[d]
      BY <2>5 DEF Handle, Accept, Receive, RejectMessage, Insert,
         InsertLocked, InsertRaises, InsertSkipped, Reply, TypeInv, TypeOK
    <3>3. phase'[c] = "reply" \/ reply'[c] = "200" => Kept(c[1])'
      <4> USE <2>0, <2>1, <2>2 DEF TypeInv, TypeOK
      <4>1. CASE Accept(c) \/ Receive(c) \/ RejectMessage(c) \/ Reply(c)
        BY <4>1 DEF Accept, Receive, RejectMessage, Reply
      <4>2. CASE Insert(c)
        BY <4>2 DEF Insert, InsertOrIgnore, Kept, InDatabase
      <4>3. CASE InsertLocked(c)
        <5>1. CASE tries[c] + 1 < InsertTries
          BY <4>3, <5>1 DEF InsertLocked
        <5>2. CASE ~(tries[c] + 1 < InsertTries)
          BY <4>3, <5>2 DEF InsertLocked, Contended, Dumped, Kept
        <5> QED BY <5>1, <5>2
      <4>4. ~InsertSkipped(c)
        BY DEF InsertSkipped
      <4>5. CASE InsertRaises(c)
        BY <4>5 DEF InsertRaises, Dumped, Kept
      <4> QED BY <2>5, <4>1, <4>2, <4>3, <4>4, <4>5 DEF Handle
    <3>4. Backed'
      BY <2>0, <2>1, <2>2, <3>2, <3>3
    <3> QED BY <2>2, <3>1, <3>4
  <2>6. ASSUME NEW w \in Workers, Work(w) PROVE AckInv'
    <3>1. Backed'
      <4>1. CASE Connect(w)
        <5>1. /\ phase' = [phase EXCEPT ![Conn(w)] = "backlog"]
              /\ reply' = reply
          BY <4>1 DEF Connect
        <5> QED BY <5>1, <2>0, <2>1, <2>2 DEF TypeInv, TypeOK
      <4>2. CASE ~Connect(w)
        BY <2>6, <4>2, <2>3 DEF Work, Get, ConnectFails, RecvTimesOut,
           RecvReset, RecvReturns, NextAttempt, SensorDump, SocketError, serverVars
      <4> QED BY <4>1, <4>2
    <3>2. Acked'
      <4>1. CASE RecvReturns(w)
        <5>1. PICK r \in Reports : r = wrep[w] /\ Conn(w) \in Conns /\ Conn(w)[1] = r
          BY <4>1 DEF RecvReturns, TypeInv, TypeOK, WorkerInv, Conn, Conns
        <5>2. CASE reply[Conn(w)] = "200"
          <6>1. Kept(r)'
            BY <5>1, <5>2, <2>1, <2>2
          <6>2. place' = [place EXCEPT ![r] = "acked"]
            BY <4>1, <5>1, <5>2 DEF RecvReturns, Finish
          <6> QED BY <6>1, <6>2, <2>1, <2>2 DEF TypeInv, TypeOK
        <5>3. CASE reply[Conn(w)] # "200"
          <6>1. place' = [place EXCEPT ![wrep[w]] = "unacked"]
            BY <4>1, <5>3 DEF RecvReturns, Finish
          <6> QED BY <6>1, <2>1, <2>2 DEF TypeInv, TypeOK
        <5> QED BY <5>2, <5>3
      <4>2. CASE SensorDump(w)
        <5>1. PICK how \in {"dumped", "lost"} :
                place' = [place EXCEPT ![wrep[w]] = how]
          BY <4>2 DEF SensorDump, Finish
        <5> QED BY <5>1, <2>1, <2>2 DEF TypeInv, TypeOK
      <4>3. CASE Get(w)
        <5>1. place' = [place EXCEPT ![Head(queue)] = "sending"]
          BY <4>3 DEF Get
        <5> QED BY <5>1, <2>1, <2>2 DEF TypeInv, TypeOK
      <4>4. CASE ~RecvReturns(w) /\ ~SensorDump(w) /\ ~Get(w)
        BY <2>6, <4>4, <2>4 DEF Work, Connect, ConnectFails, RecvTimesOut,
           RecvReset, NextAttempt, SocketError
      <4> QED BY <4>1, <4>2, <4>3, <4>4
    <3> QED BY <3>1, <3>2, <2>2
  <2>7. ASSUME NEW r \in Reports, Capture(r) \/ Put(r) PROVE AckInv'
    <3>1. PICK where \in {"putting", "queued"} : place' = [place EXCEPT ![r] = where]
      BY <2>7 DEF Capture, Put
    <3>2. Acked'
      BY <3>1, <2>1, <2>2 DEF TypeInv, TypeOK
    <3>3. UNCHANGED <<phase, reply>>
      BY <2>7 DEF Capture, Put, serverVars
    <3> QED BY <3>2, <3>3, <2>3, <2>2
  <2>8. CASE ServerCrash
    <3>1. Acked'
      BY <2>8, <2>4 DEF ServerCrash, sensorVars
    <3>2. PICK half \in {"eof", "rst"} : reply' = [c \in Conns |-> AfterCrash(c, half)]
      BY <2>8 DEF ServerCrash
    <3>3. \A c \in Conns : reply'[c] = "200" => reply[c] = "200"
      BY <3>2 DEF AfterCrash
    <3>4. \A c \in Conns : phase'[c] # "reply"
      BY <2>8 DEF ServerCrash, Live
    <3>5. Backed'
      BY <2>0, <2>1, <2>2, <3>3, <3>4
    <3> QED BY <2>2, <3>1, <3>5
  <2>9. CASE SensorStop
    <3>1. /\ place' = [r \in Reports |-> IF place[r] \in Held THEN "lost" ELSE place[r]]
          /\ UNCHANGED <<phase, reply>>
      BY <2>9 DEF SensorStop, serverVars
    <3>2. Acked'
      BY <3>1, <2>1, <2>2
    <3> QED BY <3>1, <3>2, <2>3, <2>2
  <2>10. CASE ServerRestart \/ Quiet \/ UNCHANGED vars
    <3>1. UNCHANGED <<phase, reply, place>>
      BY <2>10 DEF ServerRestart, Quiet, vars, sensorVars, serverVars
    <3> QED BY <3>1, <2>3, <2>4, <2>2
  <2> QED
    BY <2>5, <2>6, <2>7, <2>8, <2>9, <2>10 DEF Next
<1> QED
  BY <1>1, <1>2, TypeInvHolds, PTL DEF Spec

(***************************************************************************)
(* When INSERT fails only for lock contention and the dump file can be     *)
(* written, a report the sensor counts as acknowledged is in the database  *)
(* or in the server's dump file.  (With any other INSERT error the server  *)
(* answers 200 for a report it has dropped, and this does not hold.)       *)
(***************************************************************************)
THEOREM AckIsDurableHolds ==
  ASSUME StoreFaults \subseteq {"locked", "raises"}, DumpFaults = FALSE
  PROVE  Spec => []AckIsDurable
<1>1. AckInv => AckIsDurable
  BY DEF AckInv
<1> QED
  BY <1>1, AckInvHolds, PTL

-----------------------------------------------------------------------------
(***************************************************************************)
(* Why nothing is lost while both processes live: the server answers only  *)
(* 200, so that a worker settles its report as acknowledged, or after its  *)
(* last attempt as dumped.                                                 *)
(***************************************************************************)
DumpedInv == \A r \in Reports : place[r] = "dumped" => r \in sensorDump

LossInv ==
  /\ DumpedInv
  /\ crashes = 0 => /\ \A c \in Conns : reply[c] \in {"none", "200"}
                    /\ \A r \in Reports : place[r] # "unacked"
  /\ stops = 0 => \A r \in Reports : place[r] # "lost"

(***************************************************************************)
(* What a worker does when it is done with a report.                       *)
(***************************************************************************)
LEMMA FinishKeepsLoss ==
  ASSUME TypeInv, LossInv, NEW w \in Workers, wpc[w] # "get",
         NEW how \in Settled, Finish(w, how), UNCHANGED <<reply, crashes, stops>>,
         how = "lost" => stops # 0,
         how = "unacked" => crashes # 0,
         sensorDump' = IF how = "dumped" THEN sensorDump \cup {wrep[w]} ELSE sensorDump
  PROVE  LossInv'
<1>1. wrep[w] \in Reports /\ place' = [place EXCEPT ![wrep[w]] = how]
  BY DEF Finish, TypeInv, TypeOK, WorkerInv
<1>2. DumpedInv'
  BY <1>1 DEF LossInv, DumpedInv, TypeInv, TypeOK
<1> QED BY <1>1, <1>2 DEF LossInv, TypeInv, TypeOK

(***************************************************************************)
(* A step of a worker; it reads no answer but 200 until the server dies.   *)
(***************************************************************************)
LEMMA WorkKeepsLoss ==
  ASSUME DumpFaults = FALSE, TypeInv, OnePlace, LossInv, NEW w \in Workers, Work(w)
  PROVE  LossInv'
<1>1. CASE RecvReturns(w)
  <2> DEFINE how == IF reply[Conn(w)] = "200" THEN "acked" ELSE "unacked"
  <2>1. wpc[w] = "recv" /\ UNCHANGED <<sensorDump, reply, crashes, stops>>
    BY <1>1 DEF RecvReturns
  <2>2. Finish(w, how)
    BY ONLY <1>1 DEF RecvReturns
  <2>3. Conn(w) \in Conns
    BY <2>1 DEF TypeInv, TypeOK, WorkerInv, Conn, Conns
  <2>4. how = "unacked" => crashes # 0
    BY <1>1, <2>3 DEF RecvReturns, LossInv
  <2>5. how \in Settled /\ how # "lost" /\ how # "dumped"
    BY DEF Settled
  <2> HIDE DEF how
  <2> QED BY <2>1, <2>2, <2>4, <2>5, FinishKeepsLoss
<1>2. CASE SensorDump(w)
  <2>1. /\ wpc[w] = "dump" /\ UNCHANGED <<reply, crashes, stops>>
        /\ sensorDump' = sensorDump \cup {wrep[w]}
        /\ Finish(w, "dumped")
    BY <1>2 DEF SensorDump, Dumped
  <2>2. "dumped" \in Settled
    BY DEF Settled
  <2> QED BY <2>1, <2>2, FinishKeepsLoss
<1>3. CASE Get(w)
  <2>1. /\ place' = [place EXCEPT ![Head(queue)] = "sending"]
        /\ UNCHANGED <<sensorDump, reply, crashes, stops>>
    BY <1>3 DEF Get
  <2> QED BY <2>1 DEF LossInv, DumpedInv, TypeInv, TypeOK
<1>4. CASE ~RecvReturns(w) /\ ~SensorDump(w) /\ ~Get(w)
  <2>1. UNCHANGED <<place, sensorDump, reply, crashes, stops>>
    BY <1>4 DEF Work, Connect, ConnectFails, RecvTimesOut, RecvReset,
       NextAttempt, SocketError
  <2> QED BY <2>1 DEF LossInv, DumpedInv
<1> QED BY <1>1, <1>2, <1>3, <1>4

\* With these faults, and no others, LossInv is kept by every step.
LEMMA LossInvHolds ==
  ASSUME StoreFaults \subseteq {"locked", "raises"},
         DumpFaults = FALSE, BadMessages = FALSE
  PROVE  Spec => []LossInv
<1>1. Init => LossInv
  BY DEF Init, LossInv, DumpedInv
<1>2. TypeInv /\ OnePlace /\ LossInv /\ [Next]_vars => LossInv'
  <2> SUFFICES ASSUME TypeInv, OnePlace, LossInv, [Next]_vars PROVE LossInv'
    OBVIOUS
  <2>1. ASSUME NEW w \in Workers, Work(w) PROVE LossInv'
    BY <2>1, WorkKeepsLoss
  <2>2. ASSUME NEW c \in Conns, Handle(c) PROVE LossInv'
    <3>1. UNCHANGED <<place, sensorDump, crashes, stops>>
      BY <2>2 DEF Handle, Accept, Receive, RejectMessage, Insert, InsertLocked,
         InsertRaises, InsertSkipped, Reply, sensorVars
    <3>2. reply' = reply \/ reply' = [reply EXCEPT ![c] = "200"]
      BY <2>2 DEF Handle, Accept, Receive, RejectMessage, Insert, InsertLocked,
         InsertRaises, InsertSkipped, Reply
    <3> QED BY <3>1, <3>2 DEF LossInv, DumpedInv, TypeInv, TypeOK
  <2>3. ASSUME NEW r \in Reports, Capture(r) \/ Put(r) PROVE LossInv'
    <3>1. PICK where \in {"putting", "queued"} : place' = [place EXCEPT ![r] = where]
      BY <2>3 DEF Capture, Put
    <3>2. UNCHANGED <<sensorDump, reply, crashes, stops>>
      BY <2>3 DEF Capture, Put
    <3> QED BY <3>1, <3>2 DEF LossInv, DumpedInv, TypeInv, TypeOK
  <2>4. CASE ServerCrash
    <3>1. crashes' # 0 /\ UNCHANGED <<place, sensorDump, stops>>
      BY <2>4 DEF ServerCrash, sensorVars, TypeInv, TypeOK
    <3> QED BY <3>1 DEF LossInv, DumpedInv
  <2>5. CASE SensorStop
    <3>1. /\ stops' # 0 /\ UNCHANGED <<sensorDump, reply, crashes>>
          /\ \A r \in Reports : place'[r] \in {"lost", place[r]}
      BY <2>5 DEF SensorStop, TypeInv, TypeOK
    <3> QED BY <3>1 DEF LossInv, DumpedInv
  <2>6. CASE ServerRestart \/ Quiet \/ UNCHANGED vars
    <3>1. UNCHANGED <<place, sensorDump, reply, crashes, stops>>
      BY <2>6 DEF ServerRestart, Quiet, vars, sensorVars
    <3> QED BY <3>1 DEF LossInv, DumpedInv
  <2> QED BY <2>1, <2>2, <2>3, <2>4, <2>5, <2>6 DEF Next
<1> QED BY <1>1, <1>2, TypeInvHolds, OnePlaceHolds, PTL DEF Spec

(***************************************************************************)
(* While neither process dies, a settled report is stored or dumped,       *)
(* whatever times out, is refused or contended.  The assumptions are those *)
(* of AckIsDurableHolds, and that the server rejects no message: a sensor  *)
(* does not keep a report that is answered with 'CODE 300 ERROR'.          *)
(***************************************************************************)
THEOREM NothingLostHolds ==
  ASSUME StoreFaults \subseteq {"locked", "raises"},
         DumpFaults = FALSE, BadMessages = FALSE
  PROVE  Spec => []NothingLost
<1>1. LossInv /\ AckInv => NothingLost
  BY DEF LossInv, DumpedInv, AckInv, AckIsDurable, NothingLost, Durable, Settled
<1> QED BY <1>1, LossInvHolds, AckInvHolds, PTL

-----------------------------------------------------------------------------
(***************************************************************************)
(* A connection exists only for a report that has been captured, and a     *)
(* captured report never becomes uncaptured.                               *)
(***************************************************************************)
ConnInv == \A c \in Conns : phase[c] # "none" => place[c[1]] # "idle"

\* A captured report never becomes uncaptured.
LEMMA NeverIdleAgain ==
  ASSUME TypeInv, [Next]_vars, NEW r \in Reports, place[r] # "idle"
  PROVE  place'[r] # "idle"
<1> USE DEF TypeInv, TypeOK
<1>1. CASE UNCHANGED place
  BY <1>1
<1>2. ASSUME NEW q \in Reports, Capture(q) \/ Put(q) PROVE place'[r] # "idle"
  BY <1>2 DEF Capture, Put
<1>3. ASSUME NEW w \in Workers, Work(w) PROVE place'[r] # "idle"
  BY <1>3 DEF Work, Get, Connect, ConnectFails, RecvTimesOut, RecvReset,
     RecvReturns, NextAttempt, SensorDump, SocketError, Finish
<1>4. ASSUME NEW c \in Conns, Handle(c) PROVE UNCHANGED place
  BY <1>4 DEF Handle, Accept, Receive, RejectMessage, Insert, InsertLocked,
     InsertRaises, InsertSkipped, Reply, sensorVars
<1>5. CASE ServerCrash \/ ServerRestart \/ Quiet \/ UNCHANGED vars
  BY <1>5, <1>1 DEF ServerCrash, ServerRestart, Quiet, sensorVars, vars
<1>6. CASE SensorStop
  BY <1>6 DEF SensorStop
<1> QED
  BY <1>1, <1>2, <1>3, <1>4, <1>5, <1>6 DEF Next

\* A connection is opened by a worker that holds a captured report.
LEMMA ConnInvHolds == Spec => []ConnInv
<1>1. Init => ConnInv
  BY DEF Init, ConnInv
<1>2. TypeInv /\ OnePlace /\ ConnInv /\ [Next]_vars => ConnInv'
  <2> SUFFICES ASSUME TypeInv, OnePlace, ConnInv, [Next]_vars PROVE ConnInv'
    OBVIOUS
  <2>0. \A c \in Conns : c[1] \in Reports
    BY DEF Conns
  <2>1. CASE \A c \in Conns : phase'[c] # "none" => phase[c] # "none"
    BY <2>0, <2>1, NeverIdleAgain DEF ConnInv
  <2>2. ASSUME NEW w \in Workers, Connect(w) PROVE ConnInv'
    <3>1. PICK r \in Reports : r = wrep[w] /\ Conn(w)[1] = r
      BY <2>2 DEF Connect, TypeInv, TypeOK, WorkerInv, Conn
    <3>2. place[r] = "sending"
      BY <3>1 DEF OnePlace
    <3>3. /\ phase' = [phase EXCEPT ![Conn(w)] = "backlog"]
          /\ place' = place
      BY <2>2 DEF Connect
    <3> QED BY <2>0, <3>1, <3>2, <3>3 DEF ConnInv, TypeInv, TypeOK
  <2>3. ASSUME NEW w \in Workers, Work(w), ~Connect(w) PROVE UNCHANGED phase
    BY <2>3 DEF Work, Get, ConnectFails, RecvTimesOut, RecvReset,
       RecvReturns, NextAttempt, SensorDump, SocketError, serverVars
  <2>4. ASSUME NEW c \in Conns, Handle(c) PROVE ConnInv'
    BY <2>1, <2>4 DEF Handle, Accept, Receive, RejectMessage, Insert,
       InsertLocked, InsertRaises, InsertSkipped, Reply, TypeInv, TypeOK
  <2>5. CASE ServerCrash
    BY <2>1, <2>5 DEF ServerCrash, Live
  <2>6. CASE \/ \E r \in Reports : Capture(r) \/ Put(r)
             \/ ServerRestart \/ SensorStop \/ Quiet \/ UNCHANGED vars
    BY <2>1, <2>6 DEF Capture, Put, ServerRestart, SensorStop, Quiet,
       serverVars, vars
  <2> QED
    BY <2>1, <2>2, <2>3, <2>4, <2>5, <2>6 DEF Next
<1> QED
  BY <1>1, <1>2, TypeInvHolds, OnePlaceHolds, PTL DEF Spec

(***************************************************************************)
(* Each step of the threads, seen from the ledger.                         *)
(***************************************************************************)
RefInv == TypeInv /\ OnePlace /\ ConnInv /\ AckInv

\* What is durable depends on the tables and the two dump files alone.
LEMMA SameDurable ==
  ASSUME UNCHANGED <<rows, sensorDump, serverDump>>
  PROVE  UNCHANGED DurableSet
BY DEF DurableSet, Durable, InDatabase

\* A worker that finishes with a report settles it in the ledger.
LEMMA SettleStep ==
  ASSUME RefInv, NEW w \in Workers, wpc[w] # "get", NEW how \in Settled,
         Finish(w, how), UNCHANGED <<rows, serverDump>>,
         sensorDump' = IF how = "dumped" THEN sensorDump \cup {wrep[w]} ELSE sensorDump,
         how = "acked" => Kept(wrep[w])
  PROVE  Ledger!Next
<1> USE DEF RefInv, TypeInv, TypeOK, WorkerInv, OnePlace
<1>1. PICK r \in Reports : r = wrep[w] /\ place[r] = "sending"
  OBVIOUS
<1>2. Fate[r] = "pending"
  BY <1>1 DEF Fate, Held
<1>3. how = "acked" => r \in DurableSet
  BY <1>1 DEF DurableSet, Durable, Kept
<1>4. Fate' = [Fate EXCEPT ![r] = how]
  BY <1>1 DEF Fate, Finish, Held, Settled
<1>5. DurableSet' = IF how = "dumped" THEN DurableSet \cup {r} ELSE DurableSet
  BY <1>1 DEF DurableSet, Durable, InDatabase
<1>6. how \in Ledger!Settled
  BY DEF Settled, Ledger!Settled
<1> QED
  BY <1>2, <1>3, <1>4, <1>5, <1>6 DEF Ledger!Next, Ledger!Settle

\* A commit or a dump of the server makes one captured report durable.
LEMMA PersistStep ==
  ASSUME RefInv, NEW c \in Conns, phase[c] # "none", UNCHANGED <<place, sensorDump>>,
         \/ UNCHANGED rows /\ serverDump' = serverDump \cup {c[1]}
         \/ rows' = [rows EXCEPT ![c[1]] = InsertOrIgnore(@)] /\ UNCHANGED serverDump
  PROVE  Ledger!Next
<1> USE DEF RefInv, TypeInv, TypeOK
<1>1. PICK r \in Reports : r = c[1] /\ place[r] # "idle"
  BY DEF Conns, ConnInv
<1>2. Fate[r] # "idle" /\ UNCHANGED Fate
  BY <1>1 DEF Fate
<1>3. DurableSet' = DurableSet \cup {r}
  <2>1. CASE serverDump' = serverDump \cup {c[1]} /\ UNCHANGED rows
    BY <1>1, <2>1 DEF DurableSet, Durable, InDatabase
  <2>2. CASE rows' = [rows EXCEPT ![c[1]] = InsertOrIgnore(@)] /\ UNCHANGED serverDump
    BY <1>1, <2>2 DEF DurableSet, Durable, InDatabase, InsertOrIgnore
  <2> QED BY <2>1, <2>2
<1> QED
  BY <1>1, <1>2, <1>3 DEF Ledger!Next, Ledger!Persist

(***************************************************************************)
(* The sensor's threads, the retries of send_report, the server's threads  *)
(* and the database implement the ledger: a report is settled once, and    *)
(* "acknowledged" is never said of a report that a restart would lose.     *)
(* The assumptions are those of AckIsDurableHolds.                         *)
(***************************************************************************)
THEOREM ImplementsLedger ==
  ASSUME StoreFaults \subseteq {"locked", "raises"}, DumpFaults = FALSE
  PROVE  Spec => LedgerSpec
<1>1. Init => Ledger!Init
  BY DEF Init, Ledger!Init, Fate, DurableSet, Durable, InDatabase, Held
<1>2. RefInv /\ [Next]_vars => [Ledger!Next]_(Ledger!vars)
  <2> SUFFICES ASSUME RefInv, [Next]_vars
               PROVE  Ledger!Next \/ UNCHANGED <<Fate, DurableSet>>
    BY DEF Ledger!vars
  <2> USE DEF RefInv
  <2>0. \A r \in Reports : place[r] \in Places
    BY DEF TypeInv, TypeOK
  <2>1. CASE UNCHANGED <<place, rows, sensorDump, serverDump>>
    BY <2>1, SameDurable DEF Fate
  <2>2. ASSUME NEW r \in Reports, Capture(r) PROVE Ledger!Next
    <3>1. Fate[r] = "idle" /\ Fate' = [Fate EXCEPT ![r] = "pending"]
      BY <2>2 DEF Capture, Fate, Held, TypeInv, TypeOK
    <3>2. UNCHANGED DurableSet
      BY <2>2, SameDurable DEF Capture, serverVars
    <3> QED BY <3>1, <3>2 DEF Ledger!Next, Ledger!Open
  <2>3. ASSUME NEW r \in Reports, Put(r) PROVE UNCHANGED <<Fate, DurableSet>>
    <3>1. UNCHANGED Fate
      BY <2>3 DEF Put, Fate, Held, TypeInv, TypeOK
    <3>2. UNCHANGED DurableSet
      BY <2>3, SameDurable DEF Put, serverVars
    <3> QED BY <3>1, <3>2
  <2>4. ASSUME NEW w \in Workers, Get(w) PROVE UNCHANGED <<Fate, DurableSet>>
    <3>1. Head(queue) \in Reports /\ place[Head(queue)] = "queued"
      <4>1. 1 \in 1 .. Len(queue) /\ Head(queue) = queue[1]
        BY <2>4 DEF Get, TypeInv, TypeOK
      <4> QED BY <4>1 DEF OnePlace, TypeInv, TypeOK
    <3>2. UNCHANGED Fate
      BY <2>4, <3>1 DEF Get, Fate, Held, TypeInv, TypeOK
    <3>3. UNCHANGED DurableSet
      BY <2>4, SameDurable DEF Get, serverVars
    <3> QED BY <3>2, <3>3
  <2>5. ASSUME NEW w \in Workers, RecvReturns(w) PROVE Ledger!Next
    <3> DEFINE how == IF reply[Conn(w)] = "200" THEN "acked" ELSE "unacked"
    <3>1. /\ wpc[w] # "get"
          /\ UNCHANGED <<rows, serverDump, sensorDump>>
      BY <2>5 DEF RecvReturns, serverVars
    <3>2. Finish(w, how)
      BY ONLY <2>5 DEF RecvReturns
    <3>3. how = "acked" => Kept(wrep[w])
      <4>1. Conn(w) \in Conns /\ Conn(w)[1] = wrep[w]
        BY <3>1 DEF TypeInv, TypeOK, WorkerInv, Conn, Conns
      <4> QED BY <4>1 DEF AckInv
    <3>4. how \in Settled /\ how # "dumped"
      BY DEF Settled
    <3> HIDE DEF how
    <3> QED BY <3>1, <3>2, <3>3, <3>4, SettleStep
  <2>6. ASSUME NEW w \in Workers, SensorDump(w) PROVE Ledger!Next
    <3>1. /\ wpc[w] # "get"
          /\ UNCHANGED <<rows, serverDump>>
          /\ Finish(w, "dumped")
          /\ sensorDump' = sensorDump \cup {wrep[w]}
      BY <2>6 DEF SensorDump, Dumped, serverVars
    <3>2. "dumped" \in Settled
      BY DEF Settled
    <3> QED BY <3>1, <3>2, SettleStep
  <2>7. ASSUME NEW w \in Workers, Work(w),
               ~Get(w), ~RecvReturns(w), ~SensorDump(w)
        PROVE  UNCHANGED <<place, rows, sensorDump, serverDump>>
    BY <2>7 DEF Work, Connect, ConnectFails, RecvTimesOut, RecvReset,
       NextAttempt, SocketError, serverVars
  <2>8. ASSUME NEW c \in Conns, Insert(c) PROVE Ledger!Next
    BY <2>8, PersistStep DEF Insert, sensorVars
  <2>9. ASSUME NEW c \in Conns, InsertLocked(c)
        PROVE  Ledger!Next \/ UNCHANGED <<place, rows, sensorDump, serverDump>>
    <3>1. CASE tries[c] + 1 < InsertTries
      BY <2>9, <3>1 DEF InsertLocked, sensorVars
    <3>2. CASE ~(tries[c] + 1 < InsertTries)
      BY <2>9, <3>2, PersistStep DEF InsertLocked, Contended, Dumped, sensorVars
    <3> QED BY <3>1, <3>2
  <2>10. ASSUME NEW c \in Conns, Handle(c), ~Insert(c), ~InsertLocked(c),
             ~InsertRaises(c)
         PROVE  UNCHANGED <<place, rows, sensorDump, serverDump>>
    BY <2>10 DEF Handle, Accept, Receive, RejectMessage, InsertSkipped,
       Reply, sensorVars
  <2>13. ASSUME NEW c \in Conns, InsertRaises(c) PROVE Ledger!Next
    BY <2>13, PersistStep DEF InsertRaises, Dumped, sensorVars
  <2>11. CASE SensorStop
    <3>1. Fate' = [r \in Reports |-> IF Fate[r] = "pending" THEN "lost" ELSE Fate[r]]
      BY <2>11, <2>0 DEF SensorStop, Fate, Places, Held, Settled
    <3>2. UNCHANGED DurableSet
      BY <2>11, SameDurable DEF SensorStop, serverVars
    <3> QED BY <3>1, <3>2 DEF Ledger!Next, Ledger!Abandon
  <2>12. CASE ServerCrash \/ ServerRestart \/ Quiet \/ UNCHANGED vars
    BY <2>12, <2>1 DEF ServerCrash, ServerRestart, Quiet, vars, sensorVars,
       serverVars
  <2> QED
    BY <2>1, <2>2, <2>3, <2>4, <2>5, <2>6, <2>7, <2>8, <2>9, <2>10, <2>11,
       <2>12, <2>13 DEF Next
<1> QED
  BY <1>1, <1>2, TypeInvHolds, OnePlaceHolds, ConnInvHolds, AckInvHolds, PTL
     DEF Spec, LedgerSpec, Ledger!Spec, RefInv

-----------------------------------------------------------------------------
(* The storage as a whole.                                                 *)

(***************************************************************************)
(* The writer that PostgresWriterProofs is about is the one that runs.     *)
(***************************************************************************)
LEMMA StoreAgrees ==
  /\ Store!WriterAssumption => StoreP!WriterAssumption
  /\ Store!Init => StoreP!Init
  /\ [Store!Next]_(Store!vars) => [StoreP!Next]_(StoreP!vars)
  /\ StoreP!TypeOK => Store!TypeOK
  /\ StoreP!AloneIsKept => Store!AloneIsKept
  /\ StoreP!RecordingRecovers => Store!RecordingRecovers
<1>1. Store!WriterAssumption => StoreP!WriterAssumption
  BY DEF Store!WriterAssumption, StoreP!WriterAssumption
<1>2. Store!Init => StoreP!Init
  BY DEF Store!Init, StoreP!Init
<1>3. [Store!Next]_(Store!vars) => [StoreP!Next]_(StoreP!vars)
  BY DEF Store!Next, StoreP!Next, Store!Step, StoreP!Step, Store!DropBackend,
      StoreP!DropBackend, Store!Rest, StoreP!Rest, Store!Begin, StoreP!Begin,
      Store!Connect, StoreP!Connect, Store!Attempt, StoreP!Attempt, Store!Recover,
      StoreP!Recover, Store!Running, StoreP!Running, Store!TxnEnded, StoreP!TxnEnded,
      Store!Locals, StoreP!Locals, Store!Blocked, StoreP!Blocked, Store!vars, StoreP!vars,
      Store!At, StoreP!At, Store!Goes, StoreP!Goes, Store!Database, StoreP!Database,
      Store!Ensure, StoreP!Ensure, Store!ReadToProbe, StoreP!ReadToProbe, Store!Probe,
      StoreP!Probe, Store!Discard, StoreP!Discard, Store!Discarding, StoreP!Discarding,
      Store!Drop, StoreP!Drop, Store!Open, StoreP!Open, Store!ConnectRefused,
      StoreP!ConnectRefused, Store!Tables, StoreP!Tables, Store!Create, StoreP!Create,
      Store!Index, StoreP!Index, Store!Indexing, StoreP!Indexing, Store!ReadToPublish,
      StoreP!ReadToPublish, Store!Publish, StoreP!Publish, Store!Opened, StoreP!Opened,
      Store!Lock, StoreP!Lock, Store!Cursor, StoreP!Cursor, Store!Execute, StoreP!Execute,
      Store!Inserting, StoreP!Inserting, Store!ReadToCommit, StoreP!ReadToCommit,
      Store!Commit, StoreP!Commit, Store!Reset, StoreP!Reset, Store!Forget, StoreP!Forget,
      Store!Rollback, StoreP!Rollback, Store!Close, StoreP!Close, Store!WaitsFor,
      StoreP!WaitsFor, Store!Moves, StoreP!Moves, Store!Observed, StoreP!Observed,
      Store!Reads, StoreP!Reads, Store!Free, StoreP!Free, Store!Raises, StoreP!Raises,
      Store!Rejects, StoreP!Rejects, Store!TxnBegun, StoreP!TxnBegun, Store!Closed,
      StoreP!Closed, Store!Unused, StoreP!Unused, Store!Fresh, StoreP!Fresh,
      Store!InitFails, StoreP!InitFails, Store!Deadlocked, StoreP!Deadlocked,
      Store!Aborts, StoreP!Aborts, Store!Commits, StoreP!Commits, Store!Ends, StoreP!Ends,
      Store!Fails, StoreP!Fails, Store!CommitOn, StoreP!CommitOn, Store!Released,
      StoreP!Released, Store!Live, StoreP!Live, Store!LastTry, StoreP!LastTry
<1>4. StoreP!TypeOK => Store!TypeOK
  BY DEF Store!TypeOK, StoreP!TypeOK, Store!Steps, StoreP!Steps, Store!Outcomes,
      StoreP!Outcomes, Store!Calls, StoreP!Calls
<1>5. StoreP!AloneIsKept => Store!AloneIsKept
  BY DEF Store!AloneIsKept, StoreP!AloneIsKept, Store!Done, StoreP!Done
<1>6. StoreP!RecordingRecovers => Store!RecordingRecovers
  BY DEF Store!RecordingRecovers, StoreP!RecordingRecovers, Store!Done, StoreP!Done
<1> QED BY <1>1, <1>2, <1>3, <1>4, <1>5, <1>6

(***************************************************************************)
(* Both parts behave in the whole as they do alone: a step is one of the   *)
(* part that runs, and the other stutters.                                 *)
(***************************************************************************)
LEMMA PartsRun ==
  StorageSpec => /\ Init /\ [][Next]_vars
                 /\ Store!Init /\ [][Store!Next]_(Store!vars)
<1> USE DEF StorageNext, storageVars, InDelivery, InStore
<1>1. StorageInit => Init /\ Store!Init
  BY DEF StorageInit
<1>2. [StorageNext]_storageVars => [Next]_vars
  OBVIOUS
<1>3. [StorageNext]_storageVars => [Store!Next]_(Store!vars)
  BY DEF storeVars, Store!vars
<1> QED BY <1>1, <1>2, <1>3, PTL DEF StorageSpec

(***************************************************************************)
(* So the inserts keep in the whole what is proved of them alone.          *)
(***************************************************************************)
LEMMA StoreServes == StorageSpec => [](StoreTypeOK /\ AloneIsKept /\ RecordingRecovers)
<1>a. StoreP!WriterAssumption
  BY StorageAssumption, StoreAgrees
<1>1. StoreP!Init /\ [][StoreP!Next]_(StoreP!vars) =>
        [](StoreP!TypeOK /\ StoreP!AloneIsKept /\ StoreP!RecordingRecovers)
  BY <1>a, StoreP!WriterTypeOK, StoreP!AloneIsKeptHolds, StoreP!RecordingRecoversHolds, PTL
<1>2. Store!Init /\ [][Store!Next]_(Store!vars) =>
        StoreP!Init /\ [][StoreP!Next]_(StoreP!vars)
  BY StoreAgrees, PTL
<1>3. StoreP!TypeOK /\ StoreP!AloneIsKept /\ StoreP!RecordingRecovers =>
        StoreTypeOK /\ AloneIsKept /\ RecordingRecovers
  BY StoreAgrees DEF StoreTypeOK, AloneIsKept, RecordingRecovers
<1> QED BY <1>1, <1>2, <1>3, PartsRun, PTL

(***************************************************************************)
(* An insert that overlapped no other is stored or dumped, whatever the    *)
(* earlier ones left behind and whatever fails under it.                   *)
(***************************************************************************)
THEOREM StorageAloneIsKept == StorageSpec => []AloneIsKept
BY StoreServes, PTL

(***************************************************************************)
(* Issue #243: with no fault under it, such an insert stores its row.      *)
(***************************************************************************)
THEOREM StorageRecordingRecovers == StorageSpec => []RecordingRecovers
BY StoreServes, PTL
=============================================================================
