------------------------- MODULE ReportQueueProofs -------------------------
(***************************************************************************)
(* Proofs about ReportQueue for any connection threads, pool and queue.    *)
(***************************************************************************)
EXTENDS ReportQueue, SequenceTheorems, TLAPS

(***************************************************************************)
(* Why there is one pool: until the queue is forgotten, the current pool   *)
(* is the only one ever created; after that, a pool is created once at     *)
(* most and stays.                                                         *)
(***************************************************************************)
Forgotten == stopping \in {"clearing", "returned"}

PoolInv ==
  /\ ~Forgotten => current = created /\ created <= 1
  /\ stopping \in {"flagged", "joining"} => current = 1
  /\ created <= 2
  /\ current # 0 => current = created
  /\ created = 2 => current = 2

(***************************************************************************)
(* Before a shutdown, a worker is only ever started with the flag set, and *)
(* does not end.                                                           *)
(***************************************************************************)
FlagInv ==
  stopping = "no" =>
    /\ \A w \in Workers : pc[w] # "exited" /\ (pc[w] # "unborn" => aliveFlag)
    /\ \A t \in Threads : pc[t] \in {"start", "list"} => aliveFlag

(***************************************************************************)
(* What a thread holds: the queue of a pool that exists.                   *)
(***************************************************************************)
ThreadInv ==
  /\ \A t \in Threads :
       /\ q[t] <= created
       /\ pc[t] \in {"put", "loop", "send"} => q[t] # 0
       /\ pc[t] = "killed" <=> stopping = "killed"
  /\ \A t \in Producers : pc[t] \notin {"unborn", "loop", "send"}
  /\ \A w \in Workers :
       /\ pc[w] # "put"
       /\ task[w] # {} => pc[w] \in {"send", "killed"}

(***************************************************************************)
(* A report is queued by a thread that has gone on, in a pool that exists. *)
(***************************************************************************)
Gone(t) == pc[t] \in {"exited", "killed"}

ItemInv ==
  /\ \A p \in Pools : /\ \A t \in InQueue(p) : Gone(t)
                      /\ items[p] # << >> => p <= created
  /\ \A w \in Workers : \A t \in task[w] : Gone(t)
  /\ \A t \in atStop : Gone(t)

(***************************************************************************)
(* Why the queue is drained: what was pending when the flag was cleared is *)
(* sent, being sent by a worker that took the first queue, or still in it; *)
(* and no longer in it once such a worker has found it empty and ended,    *)
(* for what is queued later comes from other threads.                      *)
(***************************************************************************)
Sending == UNION {task[w] : w \in Crew}

DrainInv ==
  stopping # "killed" =>
    /\ atStop \subseteq sent \cup InQueue(1) \cup Sending
    /\ (\E w \in Crew : pc[w] = "exited") => atStop \cap InQueue(1) = {}

NoStopYet == stopping = "no" => atStop = {}

QueueInv == /\ TypeOK /\ PoolInv /\ FlagInv /\ ThreadInv /\ ItemInv /\ DrainInv
            /\ NoStopYet

(***************************************************************************)
(* The sizes are positive, the first pool is one, and a thread is either a *)
(* producer or a worker.                                                   *)
(***************************************************************************)
LEMMA Sizes ==
  ASSUME QueueAssumption
  PROVE  /\ PoolSize \in Nat \ {0} /\ MaxPools \in Nat \ {0} /\ QueueMax \in Nat \ {0}
         /\ 1 \in Pools
         /\ \A t \in Producers : t \notin Workers
BY DEF QueueAssumption, Pools

(***************************************************************************)
(* The module as imported: no queue, no threads.                           *)
(***************************************************************************)
LEMMA InitQueue ==
  ASSUME QueueAssumption, Init
  PROVE  QueueInv
<1> USE Sizes DEF Init
<1>1. TypeOK
  <2>1. << >> \in Seq(Producers) /\ Len(<< >>) = 0
    BY EmptySeq
  <2>2. items \in [Pools -> Seq(Producers)] /\ \A p \in Pools : Len(items[p]) <= QueueMax
    BY <2>1
  <2>3. pc \in [Threads -> ThreadSteps]
    BY DEF ThreadSteps
  <2>4. q \in [Threads -> 0 .. MaxPools] /\ task \in [Workers -> SUBSET Producers]
    OBVIOUS
  <2>5. 0 \in 0 .. MaxPools
    OBVIOUS
  <2> QED BY <2>2, <2>3, <2>4, <2>5 DEF TypeOK
<1>2. PoolInv
  BY DEF PoolInv, Forgotten
<1>3. ThreadInv /\ FlagInv
  BY DEF ThreadInv, FlagInv, Threads
<1>4. ItemInv
  BY DEF ItemInv, InQueue, Threads
<1> QED BY <1>1, <1>2, <1>3, <1>4 DEF QueueInv, DrainInv, NoStopYet

(***************************************************************************)
(* The items of a queue.                                                   *)
(***************************************************************************)
LEMMA QueuedAre ==
  ASSUME TypeOK, NEW p \in Pools
  PROVE  InQueue(p) \subseteq Producers
BY DEF InQueue, TypeOK

(***************************************************************************)
(* What a step leaves of the drain that neither queues nor sends nor lets  *)
(* a worker end: a worker changes its queue only with empty hands.         *)
(***************************************************************************)
LEMMA OthersKeepDrain ==
  ASSUME QueueInv,
         UNCHANGED <<items, task, sent, stopping, atStop>>,
         created' \in Nat, created <= created',
         \A u \in Threads : /\ Gone(u) => Gone(u)'
                            /\ pc'[u] = "exited" => pc[u] = "exited"
                            /\ q'[u] = q[u] \/ pc[u] = "return"
  PROVE  ItemInv' /\ DrainInv' /\ NoStopYet'
<1>1. \A p \in Pools : InQueue(p)' = InQueue(p) /\ InQueue(p) \subseteq Producers
  BY QueuedAre DEF InQueue, QueueInv
<1>2. Sending \subseteq Sending'
  <2>1. \A w \in Crew : task[w] # {} => w \in Crew'
    BY DEF Crew, QueueInv, ThreadInv, Threads
  <2> QED BY <2>1 DEF Sending
<1>3. ItemInv'
  BY <1>1 DEF ItemInv, QueueInv, TypeOK, Threads, Pools
<1>4. (\E w \in Crew' : pc'[w] = "exited") => \E w \in Crew : pc[w] = "exited"
  BY DEF Crew, Threads
<1>5. InQueue(1)' = InQueue(1)
  BY DEF InQueue
<1>6. DrainInv' /\ NoStopYet'
  BY <1>2, <1>4, <1>5 DEF DrainInv, NoStopYet, QueueInv
<1> QED BY <1>3, <1>6

(***************************************************************************)
(* A thread looks for the queue, under no lock.                            *)
(***************************************************************************)
LEMMA LookUpKeepsQueue ==
  ASSUME QueueAssumption, QueueInv, NEW t \in Threads, LookUp(t)
  PROVE  QueueInv'
<1> USE Sizes DEF QueueInv
<1>0. /\ pc[t] = "look"
      /\ pc' = [pc EXCEPT ![t] = IF current = 0 THEN "lock" ELSE "return"]
      /\ UNCHANGED <<current, aliveFlag, created, items, q, task, sent, listed,
                     stopping, waiting, atStop>>
  BY DEF LookUp
<1>1. TypeOK'
  BY <1>0 DEF TypeOK, ThreadSteps
<1>2. PoolInv'
  BY <1>0 DEF PoolInv, Forgotten
<1>3. ThreadInv' /\ FlagInv'
  BY <1>0 DEF ThreadInv, FlagInv, TypeOK, Threads
<1>4. \A u \in Threads : /\ Gone(u) => Gone(u)'
                         /\ pc'[u] = "exited" => pc[u] = "exited"
  BY <1>0 DEF TypeOK, Gone
<1>5. ItemInv' /\ DrainInv' /\ NoStopYet'
  <2>1. created' \in Nat /\ created <= created'
    BY <1>0 DEF TypeOK
  <2> QED BY <1>0, <1>4, <2>1, OthersKeepDrain
<1> QED BY <1>1, <1>2, <1>3, <1>5

(***************************************************************************)
(* Under the lock, a pool is made only where none is current.              *)
(***************************************************************************)
LEMMA LookUpLockedKeepsQueue ==
  ASSUME QueueAssumption, QueueInv, NEW t \in Threads, LookUpLocked(t)
  PROVE  QueueInv'
<1> USE Sizes DEF QueueInv
<1>0. /\ pc[t] = "lock"
      /\ UNCHANGED <<aliveFlag, items, q, task, sent, listed, stopping, waiting, atStop>>
      /\ \E s \in {"enable", "return"} : pc' = [pc EXCEPT ![t] = s]
  BY DEF LookUpLocked
<1>1. \/ UNCHANGED <<current, created>>
      \/ current = 0 /\ created < MaxPools /\ created' = created + 1 /\ current' = created + 1
  BY DEF LookUpLocked, StillMissing
<1>2. created \in Nat /\ created' \in Nat /\ created <= created'
  BY <1>1 DEF TypeOK
<1>3. TypeOK'
  <2>1. pc' \in [Threads -> ThreadSteps]
    BY <1>0 DEF TypeOK, ThreadSteps
  <2>2. current' \in 0 .. MaxPools /\ created' \in 0 .. MaxPools
    BY <1>1, <1>2 DEF TypeOK
  <2> QED BY <1>0, <2>1, <2>2 DEF TypeOK
<1>4. PoolInv'
  <2>1. CASE UNCHANGED <<current, created>>
    BY <1>0, <2>1 DEF PoolInv, Forgotten
  <2>2. CASE current = 0 /\ created < MaxPools /\ created' = created + 1 /\ current' = created + 1
    <3>1. created <= 1 /\ (~Forgotten => created = 0)
      BY <1>2, <2>2 DEF PoolInv
    <3>2. stopping \notin {"flagged", "joining"}
      BY <2>2 DEF PoolInv
    <3> QED BY <1>0, <1>2, <2>2, <3>1, <3>2 DEF PoolInv, Forgotten
  <2> QED BY <1>1, <2>1, <2>2
<1>5. ThreadInv'
  <2>1. \A u \in Threads : q[u] \in Nat /\ q[u] <= created'
    BY <1>2 DEF ThreadInv, TypeOK
  <2> QED BY <1>0, <2>1 DEF ThreadInv, TypeOK, Threads
<1>6. FlagInv'
  BY <1>0 DEF FlagInv, TypeOK, Threads
<1>7. \A u \in Threads : /\ Gone(u) => Gone(u)'
                         /\ pc'[u] = "exited" => pc[u] = "exited"
  BY <1>0 DEF TypeOK, Gone
<1>8. ItemInv' /\ DrainInv' /\ NoStopYet'
  BY <1>0, <1>2, <1>7, OthersKeepDrain
<1> QED BY <1>3, <1>4, <1>5, <1>6, <1>8

(***************************************************************************)
(* Setting the flag, starting the workers and listing them.                *)
(***************************************************************************)
LEMMA StartKeepsQueue ==
  ASSUME QueueAssumption, QueueInv, NEW t \in Threads,
         Enable(t) \/ StartWorker(t) \/ List(t)
  PROVE  QueueInv'
<1> USE Sizes DEF QueueInv
<1>0. UNCHANGED <<current, created, items, q, task, sent, stopping, waiting, atStop>>
  BY DEF Enable, StartWorker, List
<1>1. /\ aliveFlag' \in BOOLEAN /\ (aliveFlag => aliveFlag')
      /\ stopping = "no" => aliveFlag'
  BY DEF Enable, StartWorker, List, FlagInv, TypeOK
<1>2. listed' \subseteq Workers
  BY DEF Enable, StartWorker, List, Born, PoolWorkers, TypeOK
<1>3. ASSUME NEW u \in Threads
      PROVE  \/ pc'[u] = pc[u]
             \/ /\ pc[u] \in {"enable", "start", "list", "unborn"}
                /\ pc'[u] \in {"start", "list", "look", "return"}
  <2>1. CASE Enable(t)
    BY <2>1 DEF Enable, TypeOK
  <2>2. CASE StartWorker(t)
    <3>1. PICK w \in PoolWorkers(created) :
            pc[w] = "unborn" /\ pc' = [pc EXCEPT ![t] = "list", ![w] = "look"]
      BY <2>2 DEF StartWorker
    <3>2. pc[t] = "start" /\ w \in Threads
      BY <2>2 DEF StartWorker, PoolWorkers, Threads
    <3> QED BY <3>1, <3>2 DEF TypeOK
  <2>3. CASE List(t)
    BY <2>3 DEF List, TypeOK
  <2> QED BY <2>1, <2>2, <2>3
<1>4. pc' \in [Threads -> ThreadSteps]
  <2>1. CASE Enable(t)
    BY <2>1 DEF Enable, TypeOK, ThreadSteps
  <2>2. CASE StartWorker(t)
    <3>1. PICK w \in PoolWorkers(created) : pc' = [pc EXCEPT ![t] = "list", ![w] = "look"]
      BY <2>2 DEF StartWorker
    <3> QED BY <3>1 DEF TypeOK, ThreadSteps
  <2>3. CASE List(t)
    BY <2>3 DEF List, TypeOK, ThreadSteps
  <2> QED BY <2>1, <2>2, <2>3
<1>5. TypeOK'
  BY <1>0, <1>1, <1>2, <1>4 DEF TypeOK
<1>6. PoolInv'
  BY <1>0 DEF PoolInv, Forgotten
<1>7. FlagInv'
  BY <1>0, <1>1, <1>3 DEF FlagInv, Threads
<1>8. ThreadInv'
  <2>1. \A u \in Threads : /\ q'[u] <= created'
                           /\ pc'[u] \in {"put", "loop", "send"} => q'[u] # 0
                           /\ pc'[u] = "killed" <=> stopping' = "killed"
    BY <1>0, <1>3 DEF ThreadInv
  <2>2. \A u \in Producers : pc'[u] \notin {"unborn", "loop", "send"}
    BY <1>3 DEF ThreadInv, Threads
  <2>3. \A w \in Workers : pc'[w] # "put" /\ (task'[w] # {} => pc'[w] \in {"send", "killed"})
    BY <1>0, <1>3 DEF ThreadInv, Threads
  <2> QED BY <2>1, <2>2, <2>3 DEF ThreadInv
<1>9. \A u \in Threads : /\ Gone(u) => Gone(u)'
                         /\ pc'[u] = "exited" => pc[u] = "exited"
  BY <1>3 DEF Gone
<1>10. ItemInv' /\ DrainInv' /\ NoStopYet'
  <2>1. created' \in Nat /\ created <= created'
    BY <1>0 DEF TypeOK
  <2> QED BY <1>0, <1>9, <2>1, OthersKeepDrain
<1> QED BY <1>5, <1>6, <1>7, <1>8, <1>10

(***************************************************************************)
(* The lookup returns what the global holds by then.                       *)
(***************************************************************************)
LEMMA ReturnKeepsQueue ==
  ASSUME QueueAssumption, QueueInv, NEW t \in Threads, Return(t)
  PROVE  QueueInv'
<1> USE Sizes DEF QueueInv
<1>0. /\ pc[t] = "return" /\ q' = [q EXCEPT ![t] = current]
      /\ pc' = [pc EXCEPT ![t] = IF current = 0 THEN "failed" ELSE HasQueue(t)]
      /\ UNCHANGED <<current, aliveFlag, created, items, task, sent, listed,
                     stopping, waiting, atStop>>
  BY DEF Return
<1>1. TypeOK'
  BY <1>0 DEF TypeOK, HasQueue, ThreadSteps
<1>2. PoolInv'
  BY <1>0 DEF PoolInv, Forgotten
<1>3. FlagInv'
  BY <1>0 DEF FlagInv, TypeOK, HasQueue, Threads
<1>4. ThreadInv'
  <2>1. current \in Nat /\ created \in Nat /\ current <= created
    BY DEF PoolInv, TypeOK
  <2>2. t \in Workers => task[t] = {}
    BY <1>0 DEF ThreadInv
  <2> QED BY <1>0, <2>1, <2>2 DEF ThreadInv, TypeOK, HasQueue, Threads
<1>5. \A u \in Threads : /\ Gone(u) => Gone(u)'
                         /\ pc'[u] = "exited" => pc[u] = "exited"
                         /\ q'[u] = q[u] \/ pc[u] = "return"
  BY <1>0 DEF TypeOK, HasQueue, Gone
<1>6. ItemInv' /\ DrainInv' /\ NoStopYet'
  <2>1. created' \in Nat /\ created <= created'
    BY <1>0 DEF TypeOK
  <2> QED BY <1>0, <1>5, <2>1, OthersKeepDrain
<1> QED BY <1>1, <1>2, <1>3, <1>4, <1>6

(***************************************************************************)
(* What a put adds to a queue.                                             *)
(***************************************************************************)
LEMMA AppendAdds ==
  ASSUME TypeOK, NEW p \in Pools, NEW t \in Producers,
         items' = [items EXCEPT ![p] = Append(@, t)]
  PROVE  /\ InQueue(p)' = InQueue(p) \cup {t}
         /\ \A r \in Pools : r # p => InQueue(r)' = InQueue(r) /\ items'[r] = items[r]
         /\ items' \in [Pools -> Seq(Producers)] /\ Len(items'[p]) = Len(items[p]) + 1
<1>1. items[p] \in Seq(Producers) /\ items'[p] = Append(items[p], t)
  BY DEF TypeOK
<1>2. /\ Len(items'[p]) = Len(items[p]) + 1 /\ Len(items[p]) \in Nat
      /\ items'[p][Len(items[p]) + 1] = t
      /\ \A i \in 1 .. Len(items[p]) : items'[p][i] = items[p][i]
  BY <1>1
<1>3. InQueue(p)' = InQueue(p) \cup {t}
  BY <1>2 DEF InQueue
<1>4. \A r \in Pools : r # p => InQueue(r)' = InQueue(r) /\ items'[r] = items[r]
  BY DEF InQueue, TypeOK
<1>5. items' \in [Pools -> Seq(Producers)]
  BY <1>1 DEF TypeOK
<1> QED BY <1>2, <1>3, <1>4, <1>5

(***************************************************************************)
(* What a get takes from it.                                               *)
(***************************************************************************)
LEMMA TailTakes ==
  ASSUME TypeOK, NEW p \in Pools, items[p] # << >>,
         items' = [items EXCEPT ![p] = Tail(@)]
  PROVE  /\ Head(items[p]) \in InQueue(p)
         /\ InQueue(p)' \subseteq InQueue(p)
         /\ InQueue(p) \subseteq InQueue(p)' \cup {Head(items[p])}
         /\ \A r \in Pools : r # p => InQueue(r)' = InQueue(r) /\ items'[r] = items[r]
         /\ items' \in [Pools -> Seq(Producers)] /\ Len(items'[p]) = Len(items[p]) - 1
<1>1. items[p] \in Seq(Producers) /\ items'[p] = Tail(items[p])
  BY DEF TypeOK
<1>2. /\ Len(items[p]) \in Nat \ {0} /\ Len(items'[p]) = Len(items[p]) - 1
      /\ Head(items[p]) = items[p][1]
      /\ \A i \in 1 .. Len(items'[p]) : items'[p][i] = items[p][i + 1]
      /\ items'[p] \in Seq(Producers)
  <2>1. Len(items[p]) \in Nat \ {0}
    BY <1>1, EmptySeq
  <2>2. /\ Len(items'[p]) = Len(items[p]) - 1 /\ items'[p] \in Seq(Producers)
        /\ \A i \in 1 .. Len(items'[p]) : items'[p][i] = items[p][i + 1]
    BY <1>1, HeadTailProperties
  <2>3. Head(items[p]) = items[p][1]
    BY <1>1
  <2> QED BY <2>1, <2>2, <2>3
<1>3. Head(items[p]) \in InQueue(p) /\ InQueue(p)' \subseteq InQueue(p)
  BY <1>2 DEF InQueue
<1>4. ASSUME NEW t \in InQueue(p), t # Head(items[p])
      PROVE  t \in InQueue(p)'
  <2>1. PICK i \in 1 .. Len(items[p]) : t = items[p][i]
    BY DEF InQueue
  <2>2. i - 1 \in 1 .. Len(items'[p]) /\ items'[p][i - 1] = t
    BY <1>2, <1>4, <2>1
  <2> QED BY <2>2 DEF InQueue
<1>5. \A r \in Pools : r # p => InQueue(r)' = InQueue(r) /\ items'[r] = items[r]
  BY DEF InQueue, TypeOK
<1>6. items' \in [Pools -> Seq(Producers)]
  BY <1>1, <1>2 DEF TypeOK
<1> QED BY <1>2, <1>3, <1>4, <1>5, <1>6

(***************************************************************************)
(* A put comes from a thread that is not among those whose reports were    *)
(* pending, and goes to a pool that exists.                                *)
(***************************************************************************)
LEMMA PutKeepsQueue ==
  ASSUME QueueAssumption, QueueInv, NEW t \in Producers, Put(t)
  PROVE  QueueInv'
<1> USE Sizes DEF QueueInv
<1>0. /\ pc[t] = "put" /\ Room(q[t]) /\ pc' = [pc EXCEPT ![t] = "exited"]
      /\ items' = [items EXCEPT ![q[t]] = Append(@, t)]
      /\ UNCHANGED <<current, aliveFlag, created, q, task, sent, listed, stopping,
                     waiting, atStop>>
      /\ t \in Threads /\ t \notin Workers
  BY DEF Put, Threads
<1>1. q[t] \in Pools /\ q[t] <= created
  BY <1>0 DEF ThreadInv, TypeOK, Pools
<1>2. /\ InQueue(q[t])' = InQueue(q[t]) \cup {t}
      /\ \A r \in Pools : r # q[t] => InQueue(r)' = InQueue(r) /\ items'[r] = items[r]
      /\ items' \in [Pools -> Seq(Producers)] /\ Len(items'[q[t]]) = Len(items[q[t]]) + 1
  BY <1>0, <1>1, AppendAdds
<1>3. \A p \in Pools : InQueue(p) \subseteq Producers
  BY QueuedAre
<1>4. TypeOK'
  <2>1. \A p \in Pools : Len(items'[p]) <= QueueMax
    <3> SUFFICES ASSUME NEW p \in Pools PROVE Len(items'[p]) <= QueueMax
      OBVIOUS
    <3>1. CASE p = q[t]
      <4>1. Len(items[p]) \in Nat /\ Len(items[p]) < QueueMax
        BY <1>0, <3>1 DEF Room, TypeOK
      <4> QED BY <1>2, <3>1, <4>1
    <3>2. CASE p # q[t]
      BY <1>2, <3>2 DEF TypeOK
    <3> QED BY <3>1, <3>2
  <2>2. pc' \in [Threads -> ThreadSteps]
    BY <1>0 DEF TypeOK, ThreadSteps
  <2> QED BY <1>0, <1>2, <2>1, <2>2 DEF TypeOK
<1>5. PoolInv' /\ NoStopYet'
  BY <1>0 DEF PoolInv, Forgotten, NoStopYet
<1>6. ThreadInv' /\ FlagInv'
  BY <1>0 DEF ThreadInv, FlagInv, TypeOK, Threads
<1>7. \A u \in Threads : (Gone(u) => Gone(u)') /\ Gone(t)'
  BY <1>0 DEF TypeOK, Gone
<1>8. ItemInv'
  <2>1. ASSUME NEW p \in Pools
        PROVE  (\A u \in InQueue(p)' : Gone(u)') /\ (items'[p] # << >> => p <= created)
    BY <1>0, <1>1, <1>2, <1>3, <1>7 DEF ItemInv, Threads
  <2>2. \A w \in Workers : \A u \in task[w] : Gone(u)'
    BY <1>7 DEF ItemInv, TypeOK, Threads
  <2>3. \A u \in atStop : Gone(u)'
    BY <1>7 DEF ItemInv, TypeOK, Threads
  <2> QED BY <1>0, <2>1, <2>2, <2>3 DEF ItemInv
<1>9. DrainInv'
  <2>1. t \notin atStop
    BY <1>0 DEF ItemInv, Gone
  <2>2. InQueue(1) \subseteq InQueue(1)' /\ InQueue(1)' \subseteq InQueue(1) \cup {t}
    <3>1. CASE q[t] = 1
      <4>1. items' = [items EXCEPT ![1] = Append(@, t)]
        BY <1>0, <3>1
      <4> QED BY <4>1, AppendAdds
    <3>2. CASE q[t] # 1
      <4>1. items'[1] = items[1]
        BY <1>2, <3>2
      <4> QED BY <4>1 DEF InQueue
    <3> QED BY <3>1, <3>2
  <2>3. \A w \in Workers : pc'[w] = pc[w]
    BY <1>0 DEF TypeOK
  <2>4. Crew' = Crew /\ Sending' = Sending /\ Crew \subseteq Workers
    BY <1>0 DEF Crew, Sending
  <2> QED BY <1>0, <2>1, <2>2, <2>3, <2>4 DEF DrainInv
<1> QED BY <1>4, <1>5, <1>6, <1>8, <1>9

(***************************************************************************)
(* What a worker takes is in its hands.                                    *)
(***************************************************************************)
LEMMA TakeKeepsQueue ==
  ASSUME QueueAssumption, QueueInv, NEW w \in Workers, Take(w)
  PROVE  QueueInv'
<1> USE Sizes DEF QueueInv
<1>a. pc[w] = "loop" /\ q[w] \in Pools /\ q[w] <= created
  BY DEF Take, Threads, ThreadInv, TypeOK, Pools
<1>b. PICK p \in Pools : p = q[w]
  BY <1>a
<1>c. PICK h : h = Head(items[p])
  OBVIOUS
<1>0. /\ pc[w] = "loop" /\ items[p] # << >>
      /\ task' = [task EXCEPT ![w] = {h}] /\ pc' = [pc EXCEPT ![w] = "send"]
      /\ items' = [items EXCEPT ![p] = Tail(@)]
      /\ UNCHANGED <<current, aliveFlag, created, q, sent, listed, stopping,
                     waiting, atStop>>
      /\ w \in Threads
  BY <1>b, <1>c DEF Take, Threads
<1>1. p \in Pools /\ p <= created /\ task[w] = {}
  BY <1>a, <1>b DEF ThreadInv
<1>2. /\ h \in InQueue(p)
      /\ \A r \in Pools : InQueue(r)' \subseteq InQueue(r)
      /\ \A r \in Pools : InQueue(r) \subseteq InQueue(r)' \cup {x \in {h} : r = p}
      /\ \A r \in Pools : r # p => items'[r] = items[r]
      /\ items' \in [Pools -> Seq(Producers)] /\ Len(items'[p]) = Len(items[p]) - 1
  <2>1. /\ h \in InQueue(p)
        /\ InQueue(p)' \subseteq InQueue(p)
        /\ InQueue(p) \subseteq InQueue(p)' \cup {h}
        /\ \A r \in Pools : r # p => InQueue(r)' = InQueue(r) /\ items'[r] = items[r]
        /\ items' \in [Pools -> Seq(Producers)] /\ Len(items'[p]) = Len(items[p]) - 1
    BY <1>0, <1>c, TailTakes
  <2> QED
    <3> SUFFICES ASSUME NEW r \in Pools
                 PROVE  /\ InQueue(r)' \subseteq InQueue(r)
                        /\ InQueue(r) \subseteq InQueue(r)' \cup {x \in {h} : r = p}
      BY <2>1
    <3>1. CASE r = p
      BY <2>1, <3>1
    <3>2. CASE r # p
      BY <2>1, <3>2
    <3> QED BY <3>1, <3>2
<1>3. h \in Producers /\ Gone(h)
  BY <1>0, <1>1, <1>2, QueuedAre DEF ItemInv, Gone
<1>4. TypeOK'
  <2>1. ASSUME NEW r \in Pools PROVE Len(items'[r]) <= QueueMax
    <3>1. CASE r = p
      <4>1. Len(items[p]) \in Nat /\ Len(items[p]) <= QueueMax
        BY DEF TypeOK
      <4> QED BY <1>2, <3>1, <4>1
    <3>2. CASE r # p
      BY <1>2, <3>2 DEF TypeOK
    <3> QED BY <3>1, <3>2
  <2>2. pc' \in [Threads -> ThreadSteps] /\ task' \in [Workers -> SUBSET Producers]
    BY <1>0, <1>3 DEF TypeOK, ThreadSteps
  <2> QED BY <1>0, <1>2, <2>1, <2>2 DEF TypeOK
<1>5. PoolInv' /\ NoStopYet'
  BY <1>0 DEF PoolInv, Forgotten, NoStopYet
<1>6. ThreadInv' /\ FlagInv'
  BY <1>0 DEF ThreadInv, FlagInv, TypeOK, Threads
<1>7. \A u \in Threads : (Gone(u) => Gone(u)') /\ (pc'[u] = "exited" => pc[u] = "exited")
  BY <1>0 DEF TypeOK, Gone
<1>8. ItemInv'
  <2>1. ASSUME NEW r \in Pools
        PROVE  (\A u \in InQueue(r)' : Gone(u)') /\ (items'[r] # << >> => r <= created)
    <3>1. \A u \in InQueue(r) : Gone(u) /\ u \in Threads
      BY QueuedAre DEF ItemInv, Threads
    <3> QED BY <1>1, <1>2, <1>7, <3>1 DEF ItemInv
  <2>2. \A v \in Workers : \A u \in task'[v] : Gone(u)'
    BY <1>0, <1>3, <1>7 DEF ItemInv, TypeOK, Threads
  <2>3. \A u \in atStop : Gone(u)'
    BY <1>7 DEF ItemInv, TypeOK, Threads
  <2> QED BY <1>0, <2>1, <2>2, <2>3 DEF ItemInv
<1>9. DrainInv'
  <2>0. Crew' = Crew /\ Crew \subseteq Workers
    BY <1>0 DEF Crew
  <2>1. InQueue(1) \subseteq InQueue(1)' \cup Sending'
    <3>1. CASE p = 1
      <4>1. w \in Crew /\ task'[w] = {h}
        BY <1>0, <1>b, <3>1 DEF Crew, TypeOK
      <4>2. h \in Sending'
        BY <2>0, <4>1 DEF Sending
      <4> QED BY <1>2, <4>2
    <3>2. CASE p # 1
      BY <1>2, <3>2
    <3> QED BY <3>1, <3>2
  <2>2. Sending \subseteq Sending'
    <3>1. \A v \in Crew : task[v] \subseteq task'[v]
      BY <1>0, <1>1, <2>0 DEF TypeOK
    <3> QED BY <2>0, <3>1 DEF Sending
  <2>3. InQueue(1)' \subseteq InQueue(1)
    BY <1>2
  <2>4. \A v \in Workers : pc'[v] = "exited" => pc[v] = "exited"
    BY <1>7 DEF Threads
  <2> QED BY <1>0, <2>0, <2>1, <2>2, <2>3, <2>4 DEF DrainInv
<1> QED BY <1>4, <1>5, <1>6, <1>8, <1>9

(***************************************************************************)
(* What it has sent is sent.                                               *)
(***************************************************************************)
LEMMA SentKeepsQueue ==
  ASSUME QueueAssumption, QueueInv, NEW w \in Workers, Sent(w)
  PROVE  QueueInv'
<1> USE Sizes DEF QueueInv
<1>0. /\ pc[w] = "send" /\ w \in Threads
      /\ sent' = sent \cup task[w]
      /\ task' = [task EXCEPT ![w] = {}] /\ pc' = [pc EXCEPT ![w] = "loop"]
      /\ UNCHANGED <<current, aliveFlag, created, items, q, listed, stopping,
                     waiting, atStop>>
  BY DEF Sent, Threads
<1>1. TypeOK'
  BY <1>0 DEF TypeOK, ThreadSteps
<1>2. PoolInv' /\ NoStopYet'
  BY <1>0 DEF PoolInv, Forgotten, NoStopYet
<1>3. ThreadInv' /\ FlagInv'
  BY <1>0 DEF ThreadInv, FlagInv, TypeOK, Threads
<1>4. \A u \in Threads : (Gone(u) => Gone(u)') /\ (pc'[u] = "exited" => pc[u] = "exited")
  BY <1>0 DEF TypeOK, Gone
<1>5. \A p \in Pools : InQueue(p)' = InQueue(p) /\ InQueue(p) \subseteq Threads
  BY <1>0, QueuedAre DEF InQueue, Threads
<1>6. ItemInv'
  <2>1. \A v \in Workers : task'[v] \subseteq task[v] /\ task[v] \subseteq Threads
    BY <1>0 DEF TypeOK, Threads
  <2>2. \A p \in Pools : (\A u \in InQueue(p)' : Gone(u)') /\ (items'[p] # << >> => p <= created')
    BY <1>0, <1>4, <1>5 DEF ItemInv
  <2>3. \A v \in Workers : \A u \in task'[v] : Gone(u)'
    BY <1>4, <2>1 DEF ItemInv
  <2>4. \A u \in atStop' : Gone(u)'
    BY <1>0, <1>4 DEF ItemInv, TypeOK, Threads
  <2> QED BY <2>2, <2>3, <2>4 DEF ItemInv
<1>7. DrainInv'
  <2>0. Crew' = Crew /\ Crew \subseteq Workers
    BY <1>0 DEF Crew
  <2>1. Sending \subseteq Sending' \cup sent'
    <3>1. \A v \in Crew : task[v] \subseteq task'[v] \cup sent'
      BY <1>0, <2>0 DEF TypeOK
    <3> QED BY <2>0, <3>1 DEF Sending
  <2>2. InQueue(1)' = InQueue(1)
    BY <1>5
  <2>3. \A v \in Workers : pc'[v] = "exited" => pc[v] = "exited"
    BY <1>4 DEF Threads
  <2> QED BY <1>0, <2>0, <2>1, <2>2, <2>3 DEF DrainInv
<1> QED BY <1>1, <1>2, <1>3, <1>6, <1>7

(***************************************************************************)
(* A worker ends by itself only after the stop, with its queue empty.      *)
(***************************************************************************)
LEMMA ExitKeepsQueue ==
  ASSUME QueueAssumption, QueueInv, NEW w \in Workers, WorkerExit(w)
  PROVE  QueueInv'
<1> USE Sizes DEF QueueInv
<1>0. /\ pc[w] = "loop" /\ w \in Threads /\ pc' = [pc EXCEPT ![w] = "exited"]
      /\ ~aliveFlag /\ items[q[w]] = << >>
      /\ UNCHANGED <<current, aliveFlag, created, items, q, task, sent, listed,
                     stopping, waiting, atStop>>
  BY DEF WorkerExit, GoesOn, Threads
<1>1. stopping # "no" /\ task[w] = {}
  BY <1>0 DEF FlagInv, ThreadInv
<1>2. q[w] = 1 => InQueue(1) = {}
  BY <1>0, EmptySeq DEF InQueue
<1>3. TypeOK'
  BY <1>0 DEF TypeOK, ThreadSteps
<1>4. PoolInv' /\ NoStopYet'
  BY <1>0 DEF PoolInv, Forgotten, NoStopYet
<1>5. ThreadInv' /\ FlagInv'
  BY <1>0, <1>1 DEF ThreadInv, FlagInv, TypeOK, Threads
<1>6. \A u \in Threads : (Gone(u) => Gone(u)') /\ (pc'[u] = "exited" => pc[u] = "exited" \/ u = w)
  BY <1>0 DEF TypeOK, Gone
<1>7. \A p \in Pools : InQueue(p)' = InQueue(p) /\ InQueue(p) \subseteq Threads
  BY <1>0, QueuedAre DEF InQueue, Threads
<1>8. ItemInv'
  <2>1. \A p \in Pools : (\A u \in InQueue(p)' : Gone(u)') /\ (items'[p] # << >> => p <= created')
    BY <1>0, <1>6, <1>7 DEF ItemInv
  <2>2. \A v \in Workers : \A u \in task'[v] : Gone(u)'
    BY <1>0, <1>6 DEF ItemInv, TypeOK, Threads
  <2>3. \A u \in atStop' : Gone(u)'
    BY <1>0, <1>6 DEF ItemInv, TypeOK, Threads
  <2> QED BY <2>1, <2>2, <2>3 DEF ItemInv
<1>9. DrainInv'
  <2>1. InQueue(1)' = InQueue(1)
    BY <1>7
  <2>2. Crew' = Crew /\ Sending' = Sending /\ Crew \subseteq Workers
    BY <1>0 DEF Crew, Sending
  <2>3. (\E v \in Crew : pc'[v] = "exited") =>
          (\E v \in Crew : pc[v] = "exited") \/ InQueue(1) = {}
    BY <1>2, <1>6, <2>2 DEF Crew, Threads
  <2> QED BY <1>0, <2>1, <2>2, <2>3 DEF DrainInv
<1> QED BY <1>3, <1>4, <1>5, <1>8, <1>9

(***************************************************************************)
(* What is pending is queued or being sent, and comes from a thread that   *)
(* has gone on.                                                            *)
(***************************************************************************)
LEMMA PendingAre ==
  ASSUME QueueInv, NEW u \in Pending
  PROVE  /\ u \in Producers /\ Gone(u)
         /\ (\E p \in Pools : u \in InQueue(p)) \/ (\E w \in Workers : u \in task[w])
<1>1. (\E p \in Pools : u \in InQueue(p)) \/ (\E w \in Workers : u \in task[w])
  <2>1. u \in UNION {InQueue(p) : p \in Pools} \/ u \in UNION {task[w] : w \in Workers}
    BY DEF Pending
  <2>2. ASSUME u \in UNION {InQueue(p) : p \in Pools} PROVE \E p \in Pools : u \in InQueue(p)
    BY <2>2, Zenon
  <2>3. ASSUME u \in UNION {task[w] : w \in Workers} PROVE \E w \in Workers : u \in task[w]
    BY <2>3, Zenon
  <2> QED BY <2>1, <2>2, <2>3
<1>2. CASE \E p \in Pools : u \in InQueue(p)
  BY <1>1, <1>2, QueuedAre DEF QueueInv, ItemInv
<1>3. CASE \E w \in Workers : u \in task[w]
  BY <1>1, <1>3 DEF QueueInv, ItemInv, TypeOK
<1> QED BY <1>1, <1>2, <1>3

(***************************************************************************)
(* A shutdown that finds no pool, or one whose flag is not set, stops      *)
(* nothing; the one that finds a pool finds the first, and what is pending *)
(* is in its queue or with the workers that took it.                       *)
(***************************************************************************)
LEMMA StopKeepsQueue ==
  ASSUME QueueAssumption, QueueInv, StopNothing \/ Stop
  PROVE  QueueInv'
<1> USE Sizes DEF QueueInv
<1>0. /\ stopping = "no" /\ stopping' \in {"flagged", "returned"}
      /\ UNCHANGED <<current, created, items, pc, q, task, sent, listed, waiting>>
      /\ aliveFlag' \in BOOLEAN
  BY DEF StopNothing, Stop, TypeOK
<1>1. ThreadInv' /\ FlagInv'
  BY <1>0 DEF ThreadInv, FlagInv
<1>2. \A p \in Pools : InQueue(p)' = InQueue(p)
  BY <1>0 DEF InQueue
<1>3. Sending' = Sending /\ Crew' = Crew /\ Crew \subseteq Workers
  BY <1>0 DEF Sending, Crew
<1>4. \A w \in Workers : pc[w] # "exited"
  BY <1>0 DEF FlagInv
<1>5. CASE StopNothing
  <2>1. stopping' = "returned" /\ UNCHANGED <<aliveFlag, atStop>> /\ atStop = {}
    BY <1>0, <1>5 DEF StopNothing, NoStopYet
  <2>2. TypeOK' /\ PoolInv' /\ NoStopYet' /\ DrainInv'
    BY <1>0, <2>1 DEF TypeOK, PoolInv, Forgotten, NoStopYet, DrainInv
  <2>3. ItemInv'
    BY <1>0, <1>2, <2>1 DEF ItemInv, Gone
  <2> QED BY <1>1, <2>2, <2>3
<1>6. CASE Stop
  <2>1. stopping' = "flagged" /\ current # 0 /\ aliveFlag' = FALSE /\ atStop' = Pending
    BY <1>6 DEF Stop
  <2>2. current = 1 /\ created = 1
    BY <1>0, <2>1 DEF PoolInv, Forgotten, TypeOK
  <2>3. Pending \subseteq InQueue(1) \cup Sending
    <3>1. \A p \in Pools : p # 1 => InQueue(p) = {}
      <4> SUFFICES ASSUME NEW p \in Pools, p # 1 PROVE InQueue(p) = {}
        OBVIOUS
      <4>1. items[p] = << >>
        BY <2>2 DEF ItemInv, Pools
      <4> QED BY <4>1, EmptySeq DEF InQueue
    <3>2. \A w \in Workers : task[w] # {} => w \in Crew
      BY <1>0, <2>2 DEF ThreadInv, TypeOK, Threads, Crew
    <3>3. ASSUME NEW u \in Pending PROVE u \in InQueue(1) \/ u \in Sending
      BY <3>1, <3>2, <3>3, PendingAre DEF Sending
    <3> QED BY <3>3
  <2>4. Pending \subseteq Producers /\ \A u \in Pending : Gone(u)
    BY PendingAre
  <2>5. TypeOK' /\ PoolInv' /\ NoStopYet'
    BY <1>0, <2>1, <2>2, <2>4 DEF TypeOK, PoolInv, Forgotten, NoStopYet
  <2>6. ItemInv'
    BY <1>0, <1>2, <2>1, <2>4 DEF ItemInv, Gone
  <2>7. DrainInv'
    BY <1>0, <1>2, <1>3, <1>4, <2>1, <2>3 DEF DrainInv
  <2> QED BY <1>1, <2>5, <2>6, <2>7
<1> QED BY <1>5, <1>6

(***************************************************************************)
(* Joining and forgetting the workers.                                     *)
(***************************************************************************)
LEMMA JoiningKeepsQueue ==
  ASSUME QueueAssumption, QueueInv, Joining
  PROVE  QueueInv'
<1> USE Sizes DEF QueueInv
<1>0. /\ UNCHANGED <<aliveFlag, created, items, pc, q, task, sent, atStop>>
      /\ listed' \subseteq Workers /\ waiting' \subseteq Workers
      /\ stopping \notin {"no", "killed"} /\ stopping' \notin {"no", "killed"}
  BY DEF Joining, Snapshot, Join, Forget, Clear, TypeOK
<1>1. \A p \in Pools : InQueue(p)' = InQueue(p)
  BY <1>0 DEF InQueue
<1>2. Sending' = Sending /\ Crew' = Crew
  BY <1>0 DEF Sending, Crew
<1>3. /\ current' \in {current, 0}
      /\ stopping' \in {"flagged", "joining", "clearing", "returned"}
  BY <1>0 DEF Joining, Snapshot, Join, Forget, Clear, TypeOK
<1>4. TypeOK'
  BY <1>0, <1>3 DEF TypeOK
<1>5. PoolInv'
  <2>1. CASE Snapshot \/ \E w \in Workers : Join(w)
    <3>1. current' = current /\ current = 1 /\ stopping' = "joining" /\ ~Forgotten
      BY <2>1 DEF Snapshot, Join, PoolInv, Forgotten
    <3> QED BY <1>0, <3>1 DEF PoolInv, Forgotten
  <2>2. CASE Forget
    <3>1. current = created /\ created = 1 /\ current' = 0 /\ stopping' = "clearing"
      BY <2>2 DEF Forget, PoolInv, Forgotten
    <3> QED BY <1>0, <3>1 DEF PoolInv, Forgotten
  <2>3. CASE Clear
    <3>1. current' = current /\ stopping' = "returned" /\ Forgotten
      BY <2>3 DEF Clear, Forgotten
    <3> QED BY <1>0, <3>1 DEF PoolInv, Forgotten
  <2> QED BY <2>1, <2>2, <2>3 DEF Joining
<1>6. FlagInv' /\ ThreadInv' /\ NoStopYet'
  BY <1>0 DEF FlagInv, ThreadInv, NoStopYet
<1>7. ItemInv'
  BY <1>0, <1>1 DEF ItemInv, Gone
<1>8. DrainInv'
  BY <1>0, <1>1, <1>2 DEF DrainInv
<1> QED BY <1>4, <1>5, <1>6, <1>7, <1>8

(***************************************************************************)
(* A terminated client process leaves its queue as it is.                  *)
(***************************************************************************)
LEMMA ParentStopKeepsQueue ==
  ASSUME QueueAssumption, QueueInv, ParentStop
  PROVE  QueueInv'
<1> USE Sizes DEF QueueInv
<1>0. /\ stopping = "no" /\ pc' = [t \in Threads |-> "killed"]
      /\ atStop' = Pending /\ stopping' = "killed"
      /\ UNCHANGED <<current, aliveFlag, created, items, q, task, sent, listed, waiting>>
  BY DEF ParentStop
<1>1. Pending \subseteq Producers
  BY PendingAre
<1>2. TypeOK'
  BY <1>0, <1>1 DEF TypeOK, ThreadSteps
<1>3. PoolInv' /\ NoStopYet' /\ DrainInv' /\ FlagInv'
  BY <1>0 DEF PoolInv, Forgotten, NoStopYet, DrainInv, FlagInv
<1>4. ThreadInv'
  BY <1>0 DEF ThreadInv, Threads
<1>5. ItemInv'
  <2>1. \A p \in Pools : InQueue(p)' = InQueue(p) /\ InQueue(p) \subseteq Threads
    BY <1>0, QueuedAre DEF InQueue, Threads
  <2>2. \A u \in Threads : Gone(u)'
    BY <1>0 DEF Gone
  <2>3. (\A w \in Workers : task[w] \subseteq Threads) /\ atStop' \subseteq Threads
    BY <1>0, <1>1 DEF TypeOK, Threads
  <2> QED BY <1>0, <2>1, <2>2, <2>3 DEF ItemInv, Threads
<1> QED BY <1>2, <1>3, <1>4, <1>5

(***************************************************************************)
(* The inductive invariant of the queue.                                   *)
(***************************************************************************)
LEMMA QueueInvHolds == ASSUME QueueAssumption PROVE Spec => []QueueInv
<1>1. Init => QueueInv
  BY InitQueue
<1>2. QueueInv /\ [Next]_vars => QueueInv'
  <2> SUFFICES ASSUME QueueInv, [Next]_vars PROVE QueueInv'
    OBVIOUS
  <2>1. CASE \E t \in Threads : Advance(t)
    <3>1. PICK t \in Threads : Advance(t)
      BY <2>1
    <3> QED BY <3>1, LookUpKeepsQueue, LookUpLockedKeepsQueue, StartKeepsQueue,
               ReturnKeepsQueue, PutKeepsQueue, TakeKeepsQueue, ExitKeepsQueue
               DEF Advance, StartPool
  <2>2. CASE \E w \in Workers : Sent(w)
    BY <2>2, SentKeepsQueue
  <2>3. CASE Shutdown
    BY <2>3, StopKeepsQueue, JoiningKeepsQueue, ParentStopKeepsQueue DEF Shutdown
  <2>4. CASE UNCHANGED vars
    <3>1. TypeOK' /\ PoolInv' /\ FlagInv' /\ ThreadInv'
      BY <2>4 DEF vars, QueueInv, TypeOK, PoolInv, Forgotten, FlagInv, ThreadInv
    <3>2. ItemInv' /\ DrainInv' /\ NoStopYet'
      <4>1. created' \in Nat /\ created <= created'
        BY <2>4 DEF vars, QueueInv, TypeOK
      <4>2. \A u \in Threads : /\ (Gone(u) => Gone(u)') /\ (pc'[u] = "exited" => pc[u] = "exited")
                               /\ q'[u] = q[u]
        BY <2>4 DEF vars, Gone
      <4> QED BY <2>4, <4>1, <4>2, OthersKeepDrain DEF vars
    <3> QED BY <3>1, <3>2 DEF QueueInv
  <2> QED BY <2>1, <2>2, <2>3, <2>4 DEF Next, Stopped
<1> QED BY <1>1, <1>2, PTL DEF Spec

(***************************************************************************)
(* Type correctness of the queue.                                          *)
(***************************************************************************)
THEOREM QueueTypeOK == ASSUME QueueAssumption PROVE Spec => []TypeOK
<1>1. QueueInv => TypeOK
  BY DEF QueueInv
<1> QED BY <1>1, QueueInvHolds, PTL

(***************************************************************************)
(* Concurrent first uses make one pool (_get_report_queue's check under    *)
(* the lock), for any number of threads.                                   *)
(***************************************************************************)
THEOREM OnePoolHolds == ASSUME QueueAssumption PROVE Spec => []OnePool
<1>1. ASSUME QueueInv PROVE OnePool
  <2>1. created <= IF Forgotten THEN 2 ELSE 1
    BY <1>1 DEF QueueInv, PoolInv
  <2>2. ASSUME NEW t \in Producers, q[t] # 0, stopping = "no"
        PROVE  q[t] = current
    BY <1>1, <2>2 DEF QueueInv, PoolInv, Forgotten, ThreadInv, TypeOK, Threads
  <2> QED BY <2>1, <2>2 DEF OnePool, Forgotten
<1> QED BY <1>1, QueueInvHolds, PTL

(***************************************************************************)
(* What was pending when shutdown_report_executor cleared the flag is sent *)
(* once the workers that took the queue have all ended by themselves.      *)
(***************************************************************************)
THEOREM DrainedByExitHolds == ASSUME QueueAssumption PROVE Spec => []DrainedByExit
<1>1. ASSUME QueueAssumption, QueueInv PROVE DrainedByExit
  <2> SUFFICES ASSUME NEW v \in Crew, \A w \in Crew : pc[w] = "exited"
               PROVE  atStop \subseteq sent
    BY DEF DrainedByExit
  <2>1. \A w \in Crew : w \in Workers /\ w \in Threads
    BY DEF Crew, Threads
  <2>2. stopping # "killed"
    <3>1. pc[v] # "killed" /\ v \in Threads
      BY <2>1
    <3> QED BY <1>1, <3>1 DEF QueueInv, ThreadInv
  <2>3. Sending = {}
    <3>1. \A w \in Crew : task[w] = {}
      BY <1>1, <2>1 DEF QueueInv, ThreadInv
    <3> QED BY <3>1 DEF Sending
  <2> QED BY <1>1, <2>2, <2>3 DEF QueueInv, DrainInv
<1> QED BY <1>1, QueueInvHolds, PTL
=============================================================================
