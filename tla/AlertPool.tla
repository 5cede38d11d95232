----------------------------- MODULE AlertPool -----------------------------
(***************************************************************************)
(* The delivery of alerts about captured credentials (common/alerting.py): *)
(* capture threads create a pool of workers on first use, under no lock,   *)
(* and hand it their alert; if it takes none they deliver it themselves.   *)
(* shutdown_alert_executor drains the pool and forgets it.  mfh.run calls  *)
(* it in the supervisor, after terminating the process that has the pool.  *)
(***************************************************************************)
EXTENDS Naturals, Sequences, FiniteSets, SequencesExt

CONSTANTS
  Callers,  \* capture threads, each with one alert
  PoolSize, \* _ALERT_MAX_WORKERS
  MaxPools  \* bound: pools ever created

AlertAssumption == PoolSize \in Nat \ {0} /\ MaxPools \in Nat \ {0}

Pools == 1 .. MaxPools

VARIABLES
  current,  \* _alert_executor: the number of the pool, 0 for None
  created,  \* pools created so far
  shut,     \* pools whose _shutdown is set
  items,    \* what each pool's queue holds
  running,  \* what its workers are delivering
  pc,       \* where each caller is
  mine,     \* the pool it was given, 0 for None
  tried,    \* how often the delivery of each alert was attempted
  stopping, \* where shutdown_alert_executor is, or "killed"
  closing   \* the pool it shuts down, 0 for None

vars == <<current, created, shut, items, running, pc, mine, tried, stopping, closing>>

TypeOK ==
  /\ current \in 0 .. MaxPools
  /\ created \in 0 .. MaxPools
  /\ shut \subseteq 1 .. created
  /\ items \in [Pools -> Seq(Callers)]
  /\ running \in [Pools -> SUBSET Callers]
  /\ \A p \in Pools : Cardinality(running[p]) <= PoolSize
  /\ pc \in [Callers -> {"look", "create", "reread", "submit", "inline", "over", "killed"}]
  /\ mine \in [Callers -> 0 .. MaxPools]
  /\ tried \in [Callers -> 0 .. 2]
  /\ stopping \in {"no", "clearing", "closing", "joining", "returned", "killed"}
  /\ closing \in 0 .. MaxPools

Init ==
  /\ current = 0
  /\ created = 0
  /\ shut = {}
  /\ items = [p \in Pools |-> <<>>]
  /\ running = [p \in Pools |-> {}]
  /\ pc = [c \in Callers |-> "look"]
  /\ mine = [c \in Callers |-> 0]
  /\ tried = [c \in Callers |-> 0]
  /\ stopping = "no"
  /\ closing = 0

-----------------------------------------------------------------------------
\* _get_alert_executor reads the global, writes it if need be, and reads it
\* again for its result, with other threads in between.
LookUp(c) ==
  /\ pc[c] = "look"
  /\ pc' = [pc EXCEPT ![c] = IF current = 0 \/ current \in shut THEN "create" ELSE "reread"]
  /\ UNCHANGED <<current, created, shut, items, running, mine, tried, stopping, closing>>

Create(c) ==
  /\ pc[c] = "create"
  /\ created < MaxPools
  /\ created' = created + 1
  /\ current' = created + 1
  /\ pc' = [pc EXCEPT ![c] = "reread"]
  /\ UNCHANGED <<shut, items, running, mine, tried, stopping, closing>>

ReRead(c) ==
  /\ pc[c] = "reread"
  /\ mine' = [mine EXCEPT ![c] = current]
  /\ pc' = [pc EXCEPT ![c] = "submit"]
  /\ UNCHANGED <<current, created, shut, items, running, tried, stopping, closing>>

RefusedDropped == "over"
\* What becomes of an alert that submit raises for: the pool is shut down, or
\* it is None by now.
Refused == "inline"

Submit(c) ==
  /\ pc[c] = "submit"
  /\ IF mine[c] = 0 \/ mine[c] \in shut
       THEN pc' = [pc EXCEPT ![c] = Refused] /\ UNCHANGED items
       ELSE /\ items' = [items EXCEPT ![mine[c]] = Append(@, c)]
            /\ pc' = [pc EXCEPT ![c] = "over"]
  /\ UNCHANGED <<current, created, shut, running, mine, tried, stopping, closing>>

\* The capture thread delivers its alert; an error is swallowed.
Inline(c) ==
  /\ pc[c] = "inline"
  /\ tried' = [tried EXCEPT ![c] = @ + 1]
  /\ pc' = [pc EXCEPT ![c] = "over"]
  /\ UNCHANGED <<current, created, shut, items, running, mine, stopping, closing>>

\* A worker of a pool, shut down, forgotten or not, goes on while it has items.
Take(p) ==
  /\ items[p] # <<>>
  /\ Cardinality(running[p]) < PoolSize
  /\ running' = [running EXCEPT ![p] = @ \cup {Head(items[p])}]
  /\ items' = [items EXCEPT ![p] = Tail(@)]
  /\ UNCHANGED <<current, created, shut, pc, mine, tried, stopping, closing>>

Deliver(p) ==
  /\ \E c \in running[p] :
       /\ tried' = [tried EXCEPT ![c] = @ + 1]
       /\ running' = [running EXCEPT ![p] = @ \ {c}]
  /\ UNCHANGED <<current, created, shut, items, pc, mine, stopping, closing>>

-----------------------------------------------------------------------------
\* shutdown_alert_executor: the global is read, cleared, and what was read is
\* shut down.
Stop ==
  /\ stopping = "no"
  /\ closing' = current
  /\ stopping' = "clearing"
  /\ UNCHANGED <<current, created, shut, items, running, pc, mine, tried>>

Clear ==
  /\ stopping = "clearing"
  /\ current' = 0
  /\ stopping' = IF closing = 0 THEN "returned" ELSE "closing"
  /\ UNCHANGED <<created, shut, items, running, pc, mine, tried, closing>>

Close ==
  /\ stopping = "closing"
  /\ shut' = shut \cup {closing}
  /\ stopping' = "joining"
  /\ UNCHANGED <<current, created, items, running, pc, mine, tried, closing>>

DrainedAlways(p) == TRUE
\* shutdown(wait=True) joins the workers, which end when the queue is empty.
Drained(p) == items[p] = <<>> /\ running[p] = {}

Join ==
  /\ stopping = "joining"
  /\ Drained(closing)
  /\ stopping' = "returned"
  /\ UNCHANGED <<current, created, shut, items, running, pc, mine, tried, closing>>

\* The supervisor terminates the process with the pool, and then shuts down
\* its own, which was never created.
ParentStop ==
  /\ stopping = "no"
  /\ pc' = [c \in Callers |-> "killed"]
  /\ items' = [p \in Pools |-> <<>>]
  /\ running' = [p \in Pools |-> {}]
  /\ stopping' = "killed"
  /\ UNCHANGED <<current, created, shut, mine, tried, closing>>

Stopped ==
  /\ stopping \in {"returned", "killed"}
  /\ \A c \in Callers : pc[c] \in {"over", "killed"}
  /\ UNCHANGED vars

Next ==
  \/ \E c \in Callers : LookUp(c) \/ Create(c) \/ ReRead(c) \/ Submit(c) \/ Inline(c)
  \/ \E p \in Pools : Take(p) \/ Deliver(p)
  \/ Stop \/ Clear \/ Close \/ Join
  \/ ParentStop
  \/ Stopped

Spec == Init /\ [][Next]_vars

-----------------------------------------------------------------------------
Waiting(p) == ToSet(items[p]) \cup running[p]

(***************************************************************************)
(* "A late delivery during shutdown is still attempted rather than         *)
(* silently dropped" and a capture just before is not "killed mid-send"    *)
(* (alerting.py:53, 76): unless the process is terminated, an alert whose  *)
(* thread has gone on is in the hands of a pool or has been tried, once,   *)
(* and when the shutdown returns only pools that it never saw have any.    *)
(***************************************************************************)
AlertsKept ==
  stopping # "killed" =>
    /\ \A c \in Callers :
         tried[c] + Cardinality({p \in Pools : c \in Waiting(p)})
           = (IF pc[c] = "over" THEN 1 ELSE 0)
    /\ stopping = "returned" /\ closing # 0 => Waiting(closing) = {}
=============================================================================
