--------------------------- MODULE ReportDelivery ---------------------------
(***************************************************************************)
(* The path of a captured interaction from a connection thread of the      *)
(* sensor to the database of the collector:                                *)
(*                                                                         *)
(*   connection threads --put--> bounded queue --get--> report workers     *)
(*     --TCP, with retries--> one server thread per connection             *)
(*     --INSERT under the process-wide write lock--> honeypot_bears        *)
(*                                                                         *)
(* with the two dump files that catch what could not be delivered, and     *)
(* with the sensor and the server processes dying at any point.            *)
(* A TCP connection is identified by the report and the number of the      *)
(* attempt that opened it: a queue item is taken by one worker, which      *)
(* opens one connection per attempt.                                       *)
(***************************************************************************)
EXTENDS Naturals, Sequences, FiniteSets

CONSTANTS
  Reports,       \* captured interactions, each with its own (bot_ip, timestamp)
  Workers,       \* the report_worker threads (MAX_REPORT_THREADS of them)
  NoReport,      \* what an idle worker holds
  QueueMax,      \* maxsize of the report queue
  MaxRetries,    \* REPORT_SEND_MAX_RETRIES
  InsertTries,   \* attempts of SQLiteStorage.insert
  StoreFaults,   \* how an INSERT may fail: "locked" (retried), "raises" (dumped
                 \* by save_data) or "error" (logged only)
  BadMessages,   \* may the server reject a message (cut short, unknown key)?
  DumpFaults,    \* may writing a dump file fail?
  MaxCrashes,    \* bound: deaths of the server process
  MaxStops       \* bound: deaths of the sensor process

ASSUME DeliveryAssumption ==
  /\ NoReport \notin Reports
  /\ QueueMax \in Nat \ {0}
  /\ MaxRetries \in Nat \ {0}
  /\ InsertTries \in Nat \ {0}
  /\ StoreFaults \subseteq {"locked", "raises", "error"}
  /\ BadMessages \in BOOLEAN
  /\ DumpFaults \in BOOLEAN
  /\ MaxCrashes \in Nat
  /\ MaxStops \in Nat

VARIABLES
  place,         \* where each report is, on the sensor's side
  queue,         \* _report_queue
  wpc,           \* the step each worker is at
  wrep,          \* the report each worker is sending
  watt,          \* the attempt it is making
  phase,         \* how far the server is with each connection
  tries,         \* failed INSERT attempts made for each connection
  reply,         \* what the sensor's end of each connection can read
  rows,          \* rows of honeypot_bears holding each report
  sensorDump,    \* reports in the sensor's dump file
  serverDump,    \* reports in the server's dump file
  serverUp,
  crashes, stops

sensorVars == <<place, queue, wpc, wrep, watt, sensorDump>>
serverVars == <<phase, tries, rows, serverDump>>
vars == <<place, queue, wpc, wrep, watt, phase, tries, reply, rows,
          sensorDump, serverDump, serverUp, crashes, stops>>

Conns == Reports \X (1 .. MaxRetries)

Settled == {"acked", "unacked", "dumped", "lost"}
Held    == {"putting", "queued", "sending"}
Places  == {"idle"} \cup Held \cup Settled
Phases  == {"none", "backlog", "reading", "insert", "reply", "closed"}
Replies == {"none", "200", "300", "eof", "rst"}
WorkerSteps == {"get", "connect", "recv", "sleep", "dump"}

TypeOK ==
  /\ place \in [Reports -> Places]
  /\ queue \in Seq(Reports)
  /\ wpc \in [Workers -> WorkerSteps]
  /\ wrep \in [Workers -> Reports \cup {NoReport}]
  /\ watt \in [Workers -> 1 .. MaxRetries]
  /\ phase \in [Conns -> Phases]
  /\ tries \in [Conns -> Nat]
  /\ reply \in [Conns -> Replies]
  /\ rows \in [Reports -> Nat]
  /\ sensorDump \subseteq Reports
  /\ serverDump \subseteq Reports
  /\ serverUp \in BOOLEAN
  /\ crashes \in Nat
  /\ stops \in Nat

Init ==
  /\ place = [r \in Reports |-> "idle"]
  /\ queue = << >>
  /\ wpc = [w \in Workers |-> "get"]
  /\ wrep = [w \in Workers |-> NoReport]
  /\ watt = [w \in Workers |-> 1]
  /\ phase = [c \in Conns |-> "none"]
  /\ tries = [c \in Conns |-> 0]
  /\ reply = [c \in Conns |-> "none"]
  /\ rows = [r \in Reports |-> 0]
  /\ sensorDump = {}
  /\ serverDump = {}
  /\ serverUp = TRUE
  /\ crashes = 0
  /\ stops = 0

-----------------------------------------------------------------------------
(* Connection threads and the bounded queue.                               *)

\* A connection thread has captured, enriched and classified an interaction.
Capture(r) ==
  /\ place[r] = "idle"
  /\ place' = [place EXCEPT ![r] = "putting"]
  /\ UNCHANGED <<queue, wpc, wrep, watt, sensorDump, serverVars, reply,
                 serverUp, crashes, stops>>

\* q.put: blocks the connection thread while the queue is full.
Room(q) == Len(q) < QueueMax

Put(r) ==
  /\ place[r] = "putting"
  /\ Room(queue)
  /\ queue' = Append(queue, r)
  /\ place' = [place EXCEPT ![r] = "queued"]
  /\ UNCHANGED <<wpc, wrep, watt, sensorDump, serverVars, reply,
                 serverUp, crashes, stops>>

\* Taking an item removes it; a peek would hand it to two workers.
Peeked(q) == q
Taken(q) == Tail(q)

Get(w) ==
  /\ wpc[w] = "get"
  /\ queue # << >>
  /\ queue' = Taken(queue)
  /\ place' = [place EXCEPT ![Head(queue)] = "sending"]
  /\ wrep' = [wrep EXCEPT ![w] = Head(queue)]
  /\ watt' = [watt EXCEPT ![w] = 1]
  /\ wpc' = [wpc EXCEPT ![w] = "connect"]
  /\ UNCHANGED <<sensorDump, serverVars, reply, serverUp, crashes, stops>>

-----------------------------------------------------------------------------
(* send_report, run by a worker.                                           *)

Conn(w) == <<wrep[w], watt[w]>>

\* The worker is done with its report and returns to q.get().
Finish(w, how) ==
  /\ place' = [place EXCEPT ![wrep[w]] = how]
  /\ wpc' = [wpc EXCEPT ![w] = "get"]
  /\ wrep' = [wrep EXCEPT ![w] = NoReport]
  /\ watt' = [watt EXCEPT ![w] = 1]
  /\ UNCHANGED queue

\* What follows a socket error: back off and try again, or fall back to the
\* dump file after the last attempt.
AfterErrorForever(att) == "sleep"
AfterError(att) == IF att < MaxRetries THEN "sleep" ELSE "dump"

SocketError(w) ==
  /\ wpc' = [wpc EXCEPT ![w] = AfterError(watt[w])]
  /\ UNCHANGED <<place, queue, wrep, watt, sensorDump, serverVars, reply,
                 serverUp, crashes, stops>>

\* connect() and sendall() complete: the message is in the server's backlog.
Connect(w) ==
  /\ wpc[w] = "connect"
  /\ serverUp
  /\ phase' = [phase EXCEPT ![Conn(w)] = "backlog"]
  /\ wpc' = [wpc EXCEPT ![w] = "recv"]
  /\ UNCHANGED <<place, queue, wrep, watt, sensorDump, tries, rows, serverDump,
                 reply, serverUp, crashes, stops>>

\* Refused (the server is down), unreachable, or no answer within 10 s.
ConnectFails(w) ==
  /\ wpc[w] = "connect"
  /\ SocketError(w)

\* recv() gives up after 10 s although the server may still be at work.
RecvTimesOut(w) ==
  /\ wpc[w] = "recv"
  /\ reply[Conn(w)] = "none"
  /\ SocketError(w)

RecvReset(w) ==
  /\ wpc[w] = "recv"
  /\ reply[Conn(w)] = "rst"
  /\ SocketError(w)

\* recv() returns.  Anything but a 200 is only logged: no retry, no dump.
RecvReturns(w) ==
  /\ wpc[w] = "recv"
  /\ reply[Conn(w)] \in {"200", "300", "eof"}
  /\ Finish(w, IF reply[Conn(w)] = "200" THEN "acked" ELSE "unacked")
  /\ UNCHANGED <<sensorDump, serverVars, reply, serverUp, crashes, stops>>

\* time.sleep(delay) is over.
NextAttempt(w) ==
  /\ wpc[w] = "sleep"
  /\ wpc' = [wpc EXCEPT ![w] = "connect"]
  /\ watt' = [watt EXCEPT ![w] = @ + 1]
  /\ UNCHANGED <<place, queue, wrep, sensorDump, serverVars, reply,
                 serverUp, crashes, stops>>

\* A line appended to a dump file; a give-up that forgets to write it.
NotDumped(d, r) == d
Dumped(d, r) == d \cup {r}

\* dump_file after the last attempt.  If the file cannot be written the
\* exception ends send_report and _report_worker only logs it.
SensorDump(w) ==
  /\ wpc[w] = "dump"
  /\ \/ /\ sensorDump' = Dumped(sensorDump, wrep[w])
        /\ Finish(w, "dumped")
     \/ /\ DumpFaults
        /\ Finish(w, "lost")
        /\ UNCHANGED sensorDump
  /\ UNCHANGED <<serverVars, reply, serverUp, crashes, stops>>

-----------------------------------------------------------------------------
(* The server: one thread per accepted connection.                         *)

Accept(c) ==
  /\ serverUp
  /\ phase[c] = "backlog"
  /\ phase' = [phase EXCEPT ![c] = "reading"]
  /\ UNCHANGED <<sensorVars, tries, rows, serverDump, reply, serverUp, crashes, stops>>

\* receive_timeout returns after an idle gap of 2 s (the sensor keeps its end
\* open); the message is parsed, decrypted and decoded.
Receive(c) ==
  /\ phase[c] = "reading"
  /\ phase' = [phase EXCEPT ![c] = "insert"]
  /\ UNCHANGED <<sensorVars, tries, rows, serverDump, reply, serverUp, crashes, stops>>

\* A message cut short, or from an identifier that is not in AUTHORIZED_BEES,
\* raises ValueError and is answered 'CODE 300 ERROR'.
RejectMessage(c) ==
  /\ BadMessages
  /\ phase[c] = "reading"
  /\ phase' = [phase EXCEPT ![c] = "closed"]
  /\ reply' = [reply EXCEPT ![c] = "300"]
  /\ UNCHANGED <<sensorVars, tries, rows, serverDump, serverUp, crashes, stops>>

\* INSERT OR IGNORE against UNIQUE(bot_ip, timestamp).
InsertPlain(n) == n + 1
InsertOrIgnore(n) == IF n = 0 THEN 1 ELSE n

\* execute and commit, both under _WRITE_LOCK.
Insert(c) ==
  /\ phase[c] = "insert"
  /\ rows' = [rows EXCEPT ![c[1]] = InsertOrIgnore(@)]
  /\ phase' = [phase EXCEPT ![c] = "reply"]
  /\ UNCHANGED <<sensorVars, tries, serverDump, reply, serverUp, crashes, stops>>

\* What a give-up after lock contention leaves in the server's dump file.
ContendedSilently(d, r) == d
Contended(d, r) == Dumped(d, r)

\* 'database is locked': sleep outside the lock and retry, or give up and
\* dump the record; a dump that fails is only logged.
InsertLocked(c) ==
  /\ "locked" \in StoreFaults
  /\ phase[c] = "insert"
  /\ tries' = [tries EXCEPT ![c] = @ + 1]
  /\ IF tries[c] + 1 < InsertTries
       THEN UNCHANGED <<phase, serverDump>>
       ELSE /\ phase' = [phase EXCEPT ![c] = "reply"]
            /\ \/ serverDump' = Contended(serverDump, c[1])
               \/ DumpFaults /\ UNCHANGED serverDump
  /\ UNCHANGED <<sensorVars, rows, reply, serverUp, crashes, stops>>

\* save_data dumps what raises ConnectionError or TypeError and still answers
\* 200.  If the dump raises too, an OSError leaves the thread without a reply.
InsertRaises(c) ==
  /\ "raises" \in StoreFaults
  /\ phase[c] = "insert"
  /\ \/ /\ serverDump' = Dumped(serverDump, c[1])
        /\ phase' = [phase EXCEPT ![c] = "reply"]
        /\ UNCHANGED reply
     \/ /\ DumpFaults
        /\ phase' = [phase EXCEPT ![c] = "closed"]
        /\ reply' = [reply EXCEPT ![c] = "eof"]
        /\ UNCHANGED serverDump
  /\ UNCHANGED <<sensorVars, tries, rows, serverUp, crashes, stops>>

\* Any other sqlite3 error, or a storage that failed to initialise: logged,
\* and insert returns as if the row had been written.
InsertSkipped(c) ==
  /\ "error" \in StoreFaults
  /\ phase[c] = "insert"
  /\ phase' = [phase EXCEPT ![c] = "reply"]
  /\ UNCHANGED <<sensorVars, tries, rows, serverDump, reply, serverUp, crashes, stops>>

\* process_request returned True: send '200 OK' and close.
Reply(c) ==
  /\ phase[c] = "reply"
  /\ phase' = [phase EXCEPT ![c] = "closed"]
  /\ reply' = [reply EXCEPT ![c] = "200"]
  /\ UNCHANGED <<sensorVars, tries, rows, serverDump, serverUp, crashes, stops>>

-----------------------------------------------------------------------------
(* Deaths of the two processes; the supervisor starts each again.          *)

Live == {"backlog", "reading", "insert", "reply"}

\* The kernel closes the server's sockets: with unread data the sensor sees
\* a reset, otherwise an orderly end of file.
AfterCrash(c, half) ==
  IF phase[c] = "backlog" THEN "rst"
  ELSE IF phase[c] = "reading" THEN half
  ELSE IF phase[c] \in {"insert", "reply"} THEN "eof"
  ELSE reply[c]

ServerCrash ==
  /\ serverUp
  /\ crashes < MaxCrashes
  /\ serverUp' = FALSE
  /\ crashes' = crashes + 1
  /\ phase' = [c \in Conns |-> IF phase[c] \in Live THEN "closed" ELSE phase[c]]
  /\ \E half \in {"eof", "rst"} :
       reply' = [c \in Conns |-> AfterCrash(c, half)]
  /\ UNCHANGED <<sensorVars, tries, rows, serverDump, stops>>

ServerRestart ==
  /\ ~serverUp
  /\ serverUp' = TRUE
  /\ UNCHANGED <<sensorVars, serverVars, reply, crashes, stops>>

\* The sensor child dies (or is terminated by its parent): the queue and the
\* daemon workers go with it.  What the server already received goes on.
SensorStop ==
  /\ stops < MaxStops
  /\ stops' = stops + 1
  /\ place' = [r \in Reports |-> IF place[r] \in Held THEN "lost" ELSE place[r]]
  /\ queue' = << >>
  /\ wpc' = [w \in Workers |-> "get"]
  /\ wrep' = [w \in Workers |-> NoReport]
  /\ watt' = [w \in Workers |-> 1]
  /\ UNCHANGED <<sensorDump, serverVars, reply, serverUp, crashes>>

-----------------------------------------------------------------------------
Work(w) ==
  \/ Get(w)
  \/ Connect(w)
  \/ ConnectFails(w)
  \/ RecvTimesOut(w)
  \/ RecvReset(w)
  \/ RecvReturns(w)
  \/ NextAttempt(w)
  \/ SensorDump(w)

Handle(c) ==
  \/ Accept(c)
  \/ Receive(c)
  \/ RejectMessage(c)
  \/ Insert(c)
  \/ InsertLocked(c)
  \/ InsertRaises(c)
  \/ InsertSkipped(c)
  \/ Reply(c)

\* Every report is settled and the server has nothing left to handle: nothing
\* happens until another bot connects.
Quiet ==
  /\ \A r \in Reports : place[r] \in Settled
  /\ \A c \in Conns : phase[c] \notin Live
  /\ serverUp
  /\ UNCHANGED vars

Next ==
  \/ \E r \in Reports : Capture(r)
  \/ \E r \in Reports : Put(r)
  \/ \E w \in Workers : Work(w)
  \/ \E c \in Conns : Handle(c)
  \/ ServerCrash
  \/ ServerRestart
  \/ SensorStop
  \/ Quiet

Spec == Init /\ [][Next]_vars

\* Threads are scheduled; bots are not obliged to come, processes are not
\* obliged to die, but a dead server is restarted by its supervisor.
Fairness ==
  /\ \A r \in Reports : WF_vars(Put(r))
  /\ \A w \in Workers : WF_vars(Work(w))
  /\ \A c \in Conns : WF_vars(Handle(c))
  /\ WF_vars(ServerRestart)

FairSpec == Spec /\ Fairness

-----------------------------------------------------------------------------
(* What must hold.                                                         *)

InDatabase(r) == rows[r] > 0
Durable(r) == InDatabase(r) \/ r \in sensorDump \/ r \in serverDump

(***************************************************************************)
(* A captured report is in exactly one place of the sensor: blocked in     *)
(* q.put, once in the bounded queue, in the hands of one worker, or        *)
(* settled.  No two workers send the same capture and none is forgotten    *)
(* between _enrich_and_send, the queue and _report_worker.                 *)
(***************************************************************************)
OnePlace ==
  /\ Len(queue) <= QueueMax
  /\ \A i, j \in 1 .. Len(queue) : queue[i] = queue[j] => i = j
  /\ \A r \in Reports :
       (place[r] = "queued") <=> (\E i \in 1 .. Len(queue) : queue[i] = r)
  /\ \A r \in Reports :
       (place[r] = "sending") <=> (\E w \in Workers : wrep[w] = r)
  /\ \A v, w \in Workers : wrep[v] = wrep[w] /\ wrep[v] # NoReport => v = w

(***************************************************************************)
(* A resend after a slow answer never gives the database a second row: the *)
(* server threads of several attempts may insert the same report at any    *)
(* distance from each other (UNIQUE(bot_ip, timestamp), INSERT OR IGNORE). *)
(***************************************************************************)
AtMostOneRow == \A r \in Reports : rows[r] <= 1

(***************************************************************************)
(* When the sensor stops retrying because it read 200, the report is in    *)
(* the database or in the server's dump file, whatever crashed, timed out  *)
(* or was contended meanwhile.                                             *)
(***************************************************************************)
AckIsDurable ==
  \A r \in Reports : place[r] = "acked" => InDatabase(r) \/ r \in serverDump

(***************************************************************************)
(* Timeouts, refused connections and lock contention together lose nothing *)
(* as long as neither process dies: a settled report is stored or dumped.  *)
(***************************************************************************)
NothingLost ==
  crashes = 0 /\ stops = 0 =>
    \A r \in Reports : place[r] \in Settled => Durable(r)

(***************************************************************************)
(* "Retry with exponential backoff to handle server restarts"              *)
(* (report_sender.py:84): a report the sensor has settled while the server *)
(* restarted is stored, dumped, or still being handled.                    *)
(***************************************************************************)
RestartLosesNothing ==
  \A r \in Reports :
    place[r] \in Settled =>
      Durable(r) \/ \E a \in 1 .. MaxRetries : phase[<<r, a>>] \in Live

(***************************************************************************)
(* Backpressure ends: a connection thread blocked in q.put gets its report *)
(* through the queue and the workers settle it, however often the server   *)
(* is refused, slow or restarted.  (A report comes once and settled is for *)
(* good, so that nothing held is left in the end.)                         *)
(***************************************************************************)
EverySettled == []<>(\A r \in Reports : place[r] \notin Held)

(***************************************************************************)
(* The sensor, the server and the database implement the ledger.           *)
(***************************************************************************)
Fate == [r \in Reports |-> IF place[r] \in Held THEN "pending" ELSE place[r]]
DurableSet == {r \in Reports : Durable(r)}

Ledger == INSTANCE ReportLedger WITH fate <- Fate, durable <- DurableSet

LedgerSpec == Ledger!Spec

=============================================================================
