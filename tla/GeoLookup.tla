----------------------------- MODULE GeoLookup -----------------------------
(***************************************************************************)
(* The geolocation of a captured address (common/geolocate.py) as the      *)
(* capture threads use it: resolve_geo asks the cache and otherwise queues *)
(* the address for a background worker, and _backfill_geo_sync looks it up *)
(* in the capture thread when that left the report without attribution.    *)
(* All lookups share the cache, under its lock, and the time of the last   *)
(* one, under none.  Times are kept as what is left of them.               *)
(***************************************************************************)
EXTENDS Naturals, Sequences, SequencesExt

CONSTANTS
  Ips,       \* addresses of peers
  Skipped,   \* those the code takes for private by how they start
  Captures,  \* capture threads
  CacheMax,  \* _GEO_CACHE_MAX_SIZE
  Ttl,       \* _GEO_CACHE_TTL, in ticks
  Delay,     \* _RATE_LIMIT_DELAY, likewise
  MaxStops,  \* bound: calls of stop_geo_worker
  None       \* no queue, no address

GeoAssumption ==
  /\ Skipped \subseteq Ips
  /\ {CacheMax, Ttl, Delay} \subseteq Nat \ {0}
  /\ MaxStops \in Nat
  /\ None \notin Nat \cup Ips
  /\ Captures \cap Nat = {}

Queues == 1 .. MaxStops + 1 \* also the workers: one is made with each queue
Threads == Captures \cup Queues

VARIABLES
  cache,   \* _geo_cache, the least recently used first
  since,   \* ticks since _last_geo_lookup_time, up to Delay
  current, \* _geo_queue and _geo_worker_thread, or None
  queue,   \* what is in each queue; None for the signal to stop
  at,      \* where each thread is
  ip,      \* the address a thread is about
  held,    \* the queue a thread holds
  nap,     \* what a thread that paces itself has left to sleep
  known,   \* whether the report of a capture has its attribution
  refused, \* ticks left of the Ttl since a lookup of each address came to
           \* nothing (not in the code)
  excused  \* why a capture may lack its attribution: its address had been
           \* refused when it got its result, or is skipped (likewise)

vars == <<cache, since, current, queue, at, ip, held, nap, known, refused, excused>>

TypeOK ==
  /\ cache \in Seq([ip: Ips, known: BOOLEAN, left: 0 .. Ttl])
  /\ Len(cache) <= CacheMax
  /\ \A i, j \in DOMAIN cache : cache[i].ip = cache[j].ip => i = j
  /\ since \in 0 .. Delay
  /\ current \in Queues \cup {None}
  /\ queue \in [Queues -> Seq(Ips \cup {None})]
  /\ at \in [Threads -> {"new", "looking", "starting", "queuing", "backfill",
                         "reading", "getting", "pacing", "asking", "stamping",
                         "over"}]
  /\ ip \in [Threads -> Ips \cup {None}]
  /\ held \in [Threads -> Queues \cup {None}]
  /\ nap \in [Threads -> 0 .. Delay]
  /\ known \in [Captures -> BOOLEAN]
  /\ refused \in [Ips -> 0 .. Ttl]
  /\ excused \in [Captures -> {"no", "refused", "skipped"}]

Init ==
  /\ cache = <<>>
  /\ since = Delay
  /\ current = None
  /\ queue = [q \in Queues |-> <<>>]
  /\ at = [t \in Threads |-> "new"]
  /\ ip = [t \in Threads |-> None]
  /\ held = [t \in Threads |-> None]
  /\ nap = [t \in Threads |-> 0]
  /\ known = [c \in Captures |-> FALSE]
  /\ refused = [i \in Ips |-> 0]
  /\ excused = [c \in Captures |-> "no"]

-----------------------------------------------------------------------------
Cached(i) == {e \in ToSet(cache) : e.ip = i}
\* The entry of an address that has not expired, if any.
Fresh(i) == {e \in ToSet(cache) : e.ip = i /\ e.left > 0}
Without(i) ==
  LET hits == {n \in DOMAIN cache : cache[n].ip = i}
  IN  IF hits = {} THEN cache ELSE RemoveAt(cache, CHOOSE n \in hits : TRUE)

\* _store_geo: the entry is the most recently used; the oldest make room.
Stored(i, answer) ==
  LET rest == Without(i)
      over == IF Len(rest) >= CacheMax THEN Len(rest) - CacheMax + 1 ELSE 0
  IN  Append(SubSeq(rest, over + 1, Len(rest)),
             [ip |-> i, known |-> answer, left |-> Ttl])

Goes(t, to) == at' = [at EXCEPT ![t] = to]
\* A thread that is through with its address.
Finished(t) ==
  /\ Goes(t, IF t \in Captures THEN "over" ELSE "reading")
  /\ ip' = [ip EXCEPT ![t] = None]

\* What a capture gets, and whether refused has an excuse for it.
Gets(c, answer) ==
  /\ known' = [known EXCEPT ![c] = answer]
  /\ excused' = [excused EXCEPT ![c] = IF refused'[ip[c]] > 0 THEN "refused" ELSE "no"]

Capture(c, i) ==
  /\ at[c] = "new"
  /\ Goes(c, "looking")
  /\ ip' = [ip EXCEPT ![c] = i]
  /\ UNCHANGED <<cache, since, current, queue, held, nap, known, refused, excused>>

\* An address that starts like a private one, which 172. does for more than the
\* private 172.16.0.0/12, is neither looked for in the cache nor queued.
Skip(c) ==
  /\ at[c] = "looking"
  /\ ip[c] \in Skipped
  /\ Goes(c, "backfill")
  /\ UNCHANGED <<cache, since, current, queue, ip, held, nap, known, refused, excused>>

\* lookup_ip_geolocation: a fresh entry becomes the most recently used. If it
\* is empty, the report still lacks its attribution and goes to the backfill.
Hit(c) ==
  /\ at[c] = "looking"
  /\ ip[c] \notin Skipped
  /\ \E e \in Fresh(ip[c]) :
       /\ cache' = Append(Without(ip[c]), e)
       /\ UNCHANGED refused
       /\ IF e.known
            THEN Gets(c, TRUE) /\ Finished(c)
            ELSE Goes(c, "backfill") /\ UNCHANGED <<ip, known, excused>>
  /\ UNCHANGED <<since, current, queue, held, nap>>

Miss(c) ==
  /\ at[c] = "looking"
  /\ ip[c] \notin Skipped
  /\ Fresh(ip[c]) = {}
  /\ Goes(c, "starting")
  /\ UNCHANGED <<cache, since, current, queue, ip, held, nap, known, refused, excused>>

\* start_geo_worker: under _geo_state_lock.
Start(c) ==
  /\ at[c] = "starting"
  /\ IF current # None /\ at[current] # "over"
       THEN /\ held' = [held EXCEPT ![c] = current]
            /\ Goes(c, "queuing")
            /\ UNCHANGED current
       ELSE \E q \in Queues :
            /\ \A r \in Queues : at[r] = "new" <=> r >= q
            /\ current' = q
            /\ held' = [held EXCEPT ![c] = q]
            /\ at' = [at EXCEPT ![c] = "queuing", ![q] = "reading"]
  /\ UNCHANGED <<cache, since, queue, ip, nap, known, refused, excused>>

Put(c) ==
  /\ at[c] = "queuing"
  /\ queue' = [queue EXCEPT ![held[c]] = Append(@, ip[c])]
  /\ held' = [held EXCEPT ![c] = None]
  /\ Goes(c, "backfill")
  /\ UNCHANGED <<cache, since, current, ip, nap, known, refused, excused>>

\* lookup_ip_geolocation_sync skips the same addresses.
BackfillSkip(c) ==
  /\ at[c] = "backfill"
  /\ ip[c] \in Skipped
  /\ excused' = [excused EXCEPT ![c] = "skipped"]
  /\ Finished(c)
  /\ UNCHANGED <<cache, since, current, queue, held, nap, known, refused>>

\* For the others it takes what the cache has by now, even nothing.
Backfill(c) ==
  /\ at[c] = "backfill"
  /\ ip[c] \notin Skipped
  /\ UNCHANGED refused
  /\ IF Fresh(ip[c]) = {}
       THEN Goes(c, "pacing") /\ UNCHANGED <<ip, known, excused>>
       ELSE \E e \in Fresh(ip[c]) : Gets(c, e.known) /\ Finished(c)
  /\ UNCHANGED <<cache, since, current, queue, held, nap>>

-----------------------------------------------------------------------------
\* _do_geo_lookup, in a capture or a worker: the thread sleeps until the last
\* lookup it has seen is long enough ago, and asks without looking again.
Pace(t) ==
  /\ at[t] = "pacing"
  /\ nap' = [nap EXCEPT ![t] = Delay - since]
  /\ Goes(t, "asking")
  /\ UNCHANGED <<cache, since, current, queue, ip, held, known, refused, excused>>

\* What came back is cached, and is what the capture gets.
Store(t, answer) ==
  /\ at[t] = "asking"
  /\ nap[t] = 0
  /\ cache' = Stored(ip[t], answer)
  /\ refused' = IF answer THEN refused ELSE [refused EXCEPT ![ip[t]] = Ttl]
  /\ IF t \in Captures THEN Gets(t, answer) ELSE UNCHANGED <<known, excused>>
  /\ UNCHANGED <<since, current, queue, held, nap>>

\* An answer, be it without attribution, counts for the pace of the others.
Answered(t) == \E answer \in BOOLEAN :
  Store(t, answer) /\ Goes(t, "stamping") /\ UNCHANGED ip

\* An exception caches the empty result, and nothing more.
Failed(t) == Store(t, FALSE) /\ Finished(t)

Stamp(t) ==
  /\ at[t] = "stamping"
  /\ since' = 0
  /\ Finished(t)
  /\ UNCHANGED <<cache, current, queue, held, nap, known, refused, excused>>

-----------------------------------------------------------------------------
\* _geo_worker_loop serves the queue that is current whenever it looks, which
\* after a stop and a start need not be the one it was made for.
Read(w) ==
  /\ at[w] = "reading"
  /\ held' = [held EXCEPT ![w] = current]
  /\ Goes(w, IF current = None THEN "over" ELSE "getting")
  /\ UNCHANGED <<cache, since, current, queue, ip, nap, known, refused, excused>>

Get(w) ==
  /\ at[w] = "getting"
  /\ queue[held[w]] # <<>>
  /\ LET item == Head(queue[held[w]])
     IN  ip' = [ip EXCEPT ![w] = item] /\ Goes(w, IF item = None THEN "over" ELSE "pacing")
  /\ queue' = [queue EXCEPT ![held[w]] = Tail(@)]
  /\ held' = [held EXCEPT ![w] = None]
  /\ UNCHANGED <<cache, since, current, nap, known, refused, excused>>

GetTimesOut(w) ==
  /\ at[w] = "getting"
  /\ queue[held[w]] = <<>>
  /\ held' = [held EXCEPT ![w] = None]
  /\ Goes(w, "reading")
  /\ UNCHANGED <<cache, since, current, queue, ip, nap, known, refused, excused>>

\* stop_geo_worker: under _geo_state_lock. The last queue is not stopped, so
\* that the bound leaves one to restart with.
StopWorker ==
  /\ current \in 1 .. MaxStops
  /\ queue' = [queue EXCEPT ![current] = Append(@, None)]
  /\ current' = None
  /\ UNCHANGED <<cache, since, at, ip, held, nap, known, refused, excused>>

Less(n) == IF n = 0 THEN 0 ELSE n - 1

Tick ==
  /\ cache' = [i \in DOMAIN cache |-> [cache[i] EXCEPT !.left = Less(@)]]
  /\ since' = IF since < Delay THEN since + 1 ELSE since
  /\ nap' = [t \in Threads |-> Less(nap[t])]
  /\ refused' = [i \in Ips |-> Less(refused[i])]
  /\ UNCHANGED <<current, queue, at, ip, held, known, excused>>

Next ==
  \/ \E c \in Captures :
       \/ \E i \in Ips : Capture(c, i)
       \/ Skip(c) \/ Hit(c) \/ Miss(c) \/ Start(c) \/ Put(c)
       \/ BackfillSkip(c) \/ Backfill(c)
  \/ \E t \in Threads : Pace(t) \/ Answered(t) \/ Failed(t) \/ Stamp(t)
  \/ \E w \in Queues : Read(w) \/ Get(w) \/ GetTimesOut(w)
  \/ StopWorker
  \/ Tick

Spec == Init /\ [][Next]_vars

-----------------------------------------------------------------------------
(***************************************************************************)
(* _backfill_geo_sync is there so that "attacker-infra attribution lands   *)
(* on the row": a report goes out without it only if a lookup of that very *)
(* address came to nothing within the _GEO_CACHE_TTL before, be it the     *)
(* capture's own or that of another thread which overtook it, or if the    *)
(* address is one of those the code never looks up. "Private/reserved IPs  *)
(* have no meaningful geo data" (geolocate.py:295) is not true of all of   *)
(* them: 172.0.0.0 to 172.15.255.255 and 172.32.0.0 on are public.         *)
(***************************************************************************)
AttributedUnlessRefused ==
  \A c \in Captures : at[c] = "over" => known[c] \/ excused[c] # "no"
=============================================================================
