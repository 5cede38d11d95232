---------------------------- MODULE ReportQueue ----------------------------
(***************************************************************************)
(* The life of report_queue.py's singleton: connection threads create the  *)
(* queue and its pool of workers on first use (double-checked locking),    *)
(* shutdown_report_executor drains and forgets them, and a later use makes *)
(* a new pool.  The global and its flag are read and cleared without the   *)
(* lock, so a shutdown may come between any two steps of a lookup: a       *)
(* thread may then be left with None (and raise), or with the queue of a   *)
(* pool that has ended.                                                    *)
(*                                                                         *)
(* The module's state belongs to one process.  A test or an embedder calls *)
(* shutdown_report_executor in the process that owns the queue; mfh.run    *)
(* calls it in the supervisor, after terminating the client process whose  *)
(* threads use the queue.                                                  *)
(***************************************************************************)
EXTENDS Naturals, Sequences, FiniteSets

CONSTANTS
  Producers,     \* connection threads, each with one report to queue
  PoolSize,      \* MAX_REPORT_THREADS
  QueueMax,      \* maxsize of the queue
  MaxPools       \* bound: pools ever created

VARIABLES
  current,       \* _report_queue: the number of its pool, 0 for None
  aliveFlag,     \* _report_queue_alive
  created,       \* pools created so far
  items,         \* what each pool's queue holds
  pc,            \* the step each producer and worker thread is at
  q,             \* the queue each thread has in its local variable
  task,          \* the report a worker is sending
  sent,          \* reports whose fn(*args) has returned
  listed,        \* _report_workers
  stopping,      \* the step of shutdown_report_executor, or killed by the
                 \* supervisor, which calls it in its own process
  waiting,       \* workers it has yet to join
  atStop         \* reports queued or being sent when the flag was cleared

vars == <<current, aliveFlag, created, items, pc, q, task, sent, listed,
          stopping, waiting, atStop>>

Pools == 1 .. MaxPools
Workers == Pools \X (1 .. PoolSize)
PoolWorkers(p) == {w \in Workers : w[1] = p}
Threads == Producers \cup Workers

QueueAssumption ==
  /\ PoolSize \in Nat \ {0}
  /\ QueueMax \in Nat \ {0}
  /\ MaxPools \in Nat \ {0}
  /\ Producers \cap Workers = {} \* they are different threads

ThreadSteps == {"unborn", "look", "lock", "enable", "start", "list", "return",
                "put", "loop", "send", "exited", "failed", "killed"}

TypeOK ==
  /\ current \in 0 .. MaxPools
  /\ aliveFlag \in BOOLEAN
  /\ created \in 0 .. MaxPools
  /\ items \in [Pools -> Seq(Producers)]
  /\ \A p \in Pools : Len(items[p]) <= QueueMax
  /\ pc \in [Threads -> ThreadSteps]
  /\ q \in [Threads -> 0 .. MaxPools]
  /\ task \in [Workers -> SUBSET Producers]
  /\ sent \subseteq Producers
  /\ listed \subseteq Workers
  /\ stopping \in {"no", "flagged", "joining", "clearing", "returned", "killed"}
  /\ waiting \subseteq Workers
  /\ atStop \subseteq Producers

Init ==
  /\ current = 0
  /\ aliveFlag = FALSE
  /\ created = 0
  /\ items = [p \in Pools |-> << >>]
  /\ pc = [t \in Threads |-> IF t \in Producers THEN "look" ELSE "unborn"]
  /\ q = [t \in Threads |-> 0]
  /\ task = [w \in Workers |-> {}]
  /\ sent = {}
  /\ listed = {}
  /\ stopping = "no"
  /\ waiting = {}
  /\ atStop = {}

-----------------------------------------------------------------------------
(* _get_report_queue, called by producers and by a worker's first step.    *)

\* The check without the lock.
LookUp(t) ==
  /\ pc[t] = "look"
  /\ pc' = [pc EXCEPT ![t] = IF current = 0 THEN "lock" ELSE "return"]
  /\ UNCHANGED <<current, aliveFlag, created, items, q, task, sent, listed,
                 stopping, waiting, atStop>>

\* Some thread creates a pool under _report_queue_lock.
Creating == \E t \in Threads : pc[t] \in {"enable", "start", "list"}
\* It starts the workers under _report_workers_lock.
Starting == \E t \in Threads : pc[t] \in {"start", "list"}

\* Under _report_queue_lock the check is made again.
StillMissingUnchecked == TRUE
StillMissing == current = 0

LookUpLocked(t) ==
  /\ pc[t] = "lock"
  /\ ~Creating
  /\ IF StillMissing
       THEN /\ created < MaxPools
            /\ created' = created + 1
            /\ current' = created + 1
            /\ pc' = [pc EXCEPT ![t] = "enable"]
       ELSE /\ pc' = [pc EXCEPT ![t] = "return"]
            /\ UNCHANGED <<current, created>>
  /\ UNCHANGED <<aliveFlag, items, q, task, sent, listed, stopping, waiting, atStop>>

Enable(t) ==
  /\ pc[t] = "enable"
  /\ aliveFlag' = TRUE
  /\ pc' = [pc EXCEPT ![t] = "start"]
  /\ UNCHANGED <<current, created, items, q, task, sent, listed, stopping,
                 waiting, atStop>>

\* t.start() of one more worker of the new pool.
StartWorker(t) ==
  /\ pc[t] = "start"
  /\ \E w \in PoolWorkers(created) :
       /\ pc[w] = "unborn"
       /\ \A v \in PoolWorkers(created) : v[2] < w[2] => pc[v] # "unborn"
       /\ pc' = [pc EXCEPT ![t] = "list", ![w] = "look"]
  /\ UNCHANGED <<current, aliveFlag, created, items, q, task, sent, listed,
                 stopping, waiting, atStop>>

Born(p) == {w \in PoolWorkers(p) : pc[w] # "unborn"}

\* _report_workers.append(t).
List(t) ==
  /\ pc[t] = "list"
  /\ listed' = listed \cup Born(created)
  /\ pc' = [pc EXCEPT ![t] =
              IF Born(created) = PoolWorkers(created) THEN "return" ELSE "start"]
  /\ UNCHANGED <<current, aliveFlag, created, items, q, task, sent, stopping,
                 waiting, atStop>>

\* return _report_queue reads the global again; on None the caller raises.
HasQueue(t) == IF t \in Producers THEN "put" ELSE "loop"

Return(t) ==
  /\ pc[t] = "return"
  /\ q' = [q EXCEPT ![t] = current]
  /\ pc' = [pc EXCEPT ![t] = IF current = 0 THEN "failed" ELSE HasQueue(t)]
  /\ UNCHANGED <<current, aliveFlag, created, items, task, sent, listed,
                 stopping, waiting, atStop>>

\* q.put blocks while the queue is full; a queue without maxsize never is.
RoomAlways(p) == TRUE
Room(p) == Len(items[p]) < QueueMax

Put(t) ==
  /\ pc[t] = "put"
  /\ Room(q[t])
  /\ items' = [items EXCEPT ![q[t]] = Append(@, t)]
  /\ pc' = [pc EXCEPT ![t] = "exited"]
  /\ UNCHANGED <<current, aliveFlag, created, q, task, sent, listed, stopping,
                 waiting, atStop>>

-----------------------------------------------------------------------------
(* _report_worker.                                                         *)

\* The loop condition; before issue #645 it was the flag alone.
GoesOnWhileAlive(w) == aliveFlag
GoesOn(w) == aliveFlag \/ items[q[w]] # << >>

\* q.get(timeout=1): with an empty queue the loop only comes round again.
Take(w) ==
  /\ pc[w] = "loop"
  /\ GoesOn(w)
  /\ items[q[w]] # << >>
  /\ task' = [task EXCEPT ![w] = {Head(items[q[w]])}]
  /\ items' = [items EXCEPT ![q[w]] = Tail(@)]
  /\ pc' = [pc EXCEPT ![w] = "send"]
  /\ UNCHANGED <<current, aliveFlag, created, q, sent, listed, stopping,
                 waiting, atStop>>

\* fn(*args) returns or raises; a send to a dead port may also never end.
Sent(w) ==
  /\ pc[w] = "send"
  /\ sent' = sent \cup task[w]
  /\ task' = [task EXCEPT ![w] = {}]
  /\ pc' = [pc EXCEPT ![w] = "loop"]
  /\ UNCHANGED <<current, aliveFlag, created, items, q, listed, stopping,
                 waiting, atStop>>

WorkerExit(w) ==
  /\ pc[w] = "loop"
  /\ ~GoesOn(w)
  /\ pc' = [pc EXCEPT ![w] = "exited"]
  /\ UNCHANGED <<current, aliveFlag, created, items, q, task, sent, listed,
                 stopping, waiting, atStop>>

-----------------------------------------------------------------------------
(* shutdown_report_executor.                                               *)

InQueue(p) == {items[p][i] : i \in 1 .. Len(items[p])}
Pending == (UNION {InQueue(p) : p \in Pools}) \cup (UNION {task[w] : w \in Workers})

\* Nothing to shut down: also when the queue is there and its flag not yet.
StopNothing ==
  /\ stopping = "no"
  /\ current = 0 \/ ~aliveFlag
  /\ stopping' = "returned"
  /\ UNCHANGED <<current, aliveFlag, created, items, pc, q, task, sent, listed,
                 waiting, atStop>>

Stop ==
  /\ stopping = "no"
  /\ current # 0 /\ aliveFlag
  /\ stopping' = "flagged"
  /\ aliveFlag' = FALSE
  /\ atStop' = Pending
  /\ UNCHANGED <<current, created, items, pc, q, task, sent, listed, waiting>>

\* list(_report_workers), without its lock.
Snapshot ==
  /\ stopping = "flagged"
  /\ waiting' = listed
  /\ stopping' = "joining"
  /\ UNCHANGED <<current, aliveFlag, created, items, pc, q, task, sent, listed,
                 atStop>>

\* join returns when the worker has exited or after SHUTDOWN_JOIN_TIMEOUT.
JoinedIfExited(w) == pc[w] = "exited"
Joined(w) == TRUE

Join(w) ==
  /\ stopping = "joining"
  /\ w \in waiting
  /\ Joined(w)
  /\ waiting' = waiting \ {w}
  /\ UNCHANGED <<current, aliveFlag, created, items, pc, q, task, sent, listed,
                 stopping, atStop>>

\* The queue is forgotten, and then its workers.
Forget ==
  /\ stopping = "joining"
  /\ waiting = {}
  /\ current' = 0
  /\ stopping' = "clearing"
  /\ UNCHANGED <<aliveFlag, created, items, pc, q, task, sent, listed, waiting,
                 atStop>>

Clear ==
  /\ stopping = "clearing"
  /\ ~Starting
  /\ listed' = {}
  /\ stopping' = "returned"
  /\ UNCHANGED <<current, aliveFlag, created, items, pc, q, task, sent, waiting,
                 atStop>>

\* The parent terminates the client process and then shuts down its own,
\* never created, queue.
ParentStop ==
  /\ stopping = "no"
  /\ pc' = [t \in Threads |-> "killed"]
  /\ atStop' = Pending
  /\ stopping' = "killed"
  /\ UNCHANGED <<current, aliveFlag, created, items, q, task, sent, listed, waiting>>

\* Once stopped, threads may stay blocked in put or polling an empty queue.
Stopped ==
  /\ stopping \in {"returned", "killed"}
  /\ UNCHANGED vars

\* A new pool is started.
StartPool(t) == Enable(t) \/ StartWorker(t) \/ List(t)

Advance(t) ==
  \/ LookUp(t)
  \/ LookUpLocked(t)
  \/ StartPool(t)
  \/ Return(t)
  \/ t \in Producers /\ Put(t)
  \/ t \in Workers /\ (Take(t) \/ WorkerExit(t))

Joining == Snapshot \/ (\E w \in Workers : Join(w)) \/ Forget \/ Clear

Shutdown == StopNothing \/ Stop \/ Joining \/ ParentStop

Next ==
  \/ \E t \in Threads : Advance(t)
  \/ \E w \in Workers : Sent(w)
  \/ Shutdown
  \/ Stopped

Spec == Init /\ [][Next]_vars

\* The thread that starts a pool runs and joins time out; but a worker may
\* stay in a send for ever, and a producer in a put.
Fairness ==
  /\ WF_vars(\E t \in Threads : StartPool(t))
  /\ WF_vars(Joining)

FairSpec == Spec /\ Fairness

-----------------------------------------------------------------------------
(***************************************************************************)
(* Concurrent first uses make one pool: a second one needs a shutdown that *)
(* forgot the first (_get_report_queue's check under the lock).            *)
(***************************************************************************)
OnePool ==
  /\ created <= IF stopping \in {"clearing", "returned"} THEN 2 ELSE 1
  /\ \A t \in Producers : q[t] # 0 /\ stopping = "no" => q[t] = current

\* The workers that took the first queue, the only one a shutdown can flag.
Crew == {w \in Workers : q[w] = 1}

(***************************************************************************)
(* Once the workers that took the queue have all ended by themselves,      *)
(* nothing that was queued or being sent when the flag was cleared is left *)
(* unsent ("queued items are processed instead of being abandoned"),       *)
(* whatever shutdown, late workers and late lookups do meanwhile.  It      *)
(* takes one worker: a shutdown that comes before any of them has looked   *)
(* up the queue returns with the queue abandoned.  Nor does it speak of a  *)
(* report put on the queue after the flag was cleared, which may find no   *)
(* worker left.                                                            *)
(***************************************************************************)
DrainedByExit ==
  Crew # {} /\ (\A w \in Crew : pc[w] = "exited") => atStop \subseteq sent

(***************************************************************************)
(* A worker stuck in a send does not stall the shutdown (issue #645), nor  *)
(* does a pool that is still being started.                                *)
(***************************************************************************)
ShutdownReturns == stopping = "flagged" ~> stopping = "returned"

=============================================================================
