---------------------------- MODULE SharedRouter ----------------------------
(***************************************************************************)
(* The process-wide Router and the handler instances it keeps, as the      *)
(* threads of overlapping HTTP connections use them: each dispatches one   *)
(* request, lets the handler find or create the profile of its address     *)
(* and record the request, records the dialogue, spends a while on DNS and *)
(* geolocation, collects the profiles of its address into its report, and  *)
(* at its end clears the instances of every connection.                    *)
(***************************************************************************)
EXTENDS Naturals, Sequences, FiniteSets, FiniteSetsExt, SequencesExt

CONSTANTS
  Conns,        \* the connections
  IpOf,         \* the address each comes from
  Routes,       \* the routes, by index in the table; the last matches any path
  DomainOf,     \* the domain of the handler of each: hundreds of routes share
                \* some fifty of them
  Paths,        \* the sets of routes that the paths requested match
  MaxProfiles,  \* MAX_PROFILES of a handler
  MaxServed,    \* bound: connections served at a time
  None

RouterAssumption ==
  /\ DOMAIN IpOf = Conns
  /\ None \notin Conns \cup (Routes \X Conns)
  /\ Routes \subseteq Nat /\ Routes # {}
  /\ DOMAIN DomainOf = Routes
  /\ \A p \in Paths : p \subseteq Routes /\ Max(Routes) \in p
  /\ MaxProfiles \in Nat \ {0}
  /\ MaxServed \in Nat

(***************************************************************************)
(* A connection creates at most one instance of a route, so an instance is *)
(* named by the route and the connection that created it; it creates at    *)
(* most one profile in an instance, so a profile is named by its instance  *)
(* and the connection that created it.                                     *)
(***************************************************************************)
Instances == Routes \X Conns

VARIABLES
  pc,        \* where each thread is
  untried,   \* the matching routes its dispatch has not tried
  handler,   \* the instance it dispatches to
  profile,   \* who created the profile its handler holds
  instances, \* _handler_instances: who created the instance of each route
  older,     \* the routes that came before each instance in that dictionary
  cache,     \* bot_profiles of each instance, least recently used first:
             \* the creators of its profiles
  history,   \* the requests recorded in each profile
  dialogue,  \* the interactions recorded in each profile
  snapshot,  \* the instances its report has still to look at
  answered,  \* a handler produced its answer
  report,    \* the requests and interactions in its report, by domain
  alone      \* no other connection was served while it was (not in the code)

vars == <<pc, untried, handler, profile, instances, older, cache, history, dialogue,
          snapshot, answered, report, alone>>

Profiles == Instances \X Conns
Domains == {DomainOf[r] : r \in Routes}
ReportData == [requests: SUBSET Conns, interactions: SUBSET Conns]
NoData == [requests |-> {}, interactions |-> {}]
Nothing == [d \in Domains |-> NoData]

TypeOK ==
  /\ pc \in [Conns -> {"idle", "match", "lookup", "record", "dialogue",
                       "enrich", "collect", "reply", "gone"}]
  /\ untried \in [Conns -> SUBSET Routes]
  /\ handler \in [Conns -> Instances \cup {None}]
  /\ profile \in [Conns -> Conns \cup {None}]
  /\ instances \in [Routes -> Conns \cup {None}]
  /\ older \in [Instances -> SUBSET Routes]
  /\ cache \in [Instances -> Seq(Conns)]
  /\ history \in [Profiles -> SUBSET Conns]
  /\ dialogue \in [Profiles -> SUBSET Conns]
  /\ snapshot \in [Conns -> SUBSET Instances]
  /\ answered \in [Conns -> BOOLEAN]
  /\ report \in [Conns -> [Domains -> ReportData]]
  /\ alone \in [Conns -> BOOLEAN]

Init ==
  /\ pc = [c \in Conns |-> "idle"]
  /\ untried = [c \in Conns |-> {}]
  /\ handler = [c \in Conns |-> None]
  /\ profile = [c \in Conns |-> None]
  /\ instances = [r \in Routes |-> None]
  /\ older = [i \in Instances |-> {}]
  /\ cache = [i \in Instances |-> <<>>]
  /\ history = [p \in Profiles |-> {}]
  /\ dialogue = [p \in Profiles |-> {}]
  /\ snapshot = [c \in Conns |-> {}]
  /\ answered = [c \in Conns |-> FALSE]
  /\ report = [c \in Conns |-> Nothing]
  /\ alone = [c \in Conns |-> FALSE]

-----------------------------------------------------------------------------
Goes(c, from, to) == pc[c] = from /\ pc' = [pc EXCEPT ![c] = to]
Served(c) == pc[c] \notin {"idle", "gone"}
RoomToServe == Cardinality({d \in Conns : Served(d)}) < MaxServed

AnyProfile(i, c) == Range(cache[i])
\* The profiles of the address of c in an instance: one at most.
Mine(i, c) == {x \in Conns : x \in Range(cache[i]) /\ IpOf[x] = IpOf[c]}

\* move_to_end, in instance i, of what matches the address of c.
Touched(i, c) ==
  LET held == cache[i]
      hits == {n \in DOMAIN held : IpOf[held[n]] = IpOf[c]}
      hit == CHOOSE n \in hits : TRUE
  IN  IF hits = {} THEN held ELSE Append(RemoveAt(held, hit), held[hit])

\* The locals of a dispatch end with it.
Dropped(c) ==
  /\ handler' = [handler EXCEPT ![c] = None]
  /\ profile' = [profile EXCEPT ![c] = None]

-----------------------------------------------------------------------------
\* A connection is accepted on an HTTP port; what it sends is an HTTP request
\* with a path, or another protocol, which is not dispatched.
Accept(c, path) ==
  /\ RoomToServe
  /\ Goes(c, "idle", "match")
  /\ untried' = [untried EXCEPT ![c] = path]
  /\ alone' = [d \in Conns |-> IF d = c THEN \A e \in Conns : ~Served(e)
                                        ELSE alone[d] /\ ~Served(d)]
  /\ UNCHANGED <<handler, profile, instances, older, cache, history, dialogue,
                 snapshot, answered, report>>

AcceptProbe(c) ==
  /\ RoomToServe
  /\ Goes(c, "idle", "reply")
  /\ alone' = [d \in Conns |-> IF d = c THEN FALSE ELSE alone[d] /\ ~Served(d)]
  /\ UNCHANGED <<untried, handler, profile, instances, older, cache, history,
                 dialogue, snapshot, answered, report>>

\* The routes that have an instance.
Kept == {r \in Routes : instances[r] # None}

\* The first matching route left: its instance is found or created under the
\* lock of the router.
Match(c) ==
  LET r == Min(untried[c])
      new == instances[r] = None
      creator == IF new THEN c ELSE instances[r]
  IN  /\ Goes(c, "match", "lookup")
      /\ untried[c] # {}
      /\ untried' = [untried EXCEPT ![c] = @ \ {r}]
      /\ instances' = [instances EXCEPT ![r] = creator]
      /\ older' = IF new THEN [older EXCEPT ![<<r, c>>] = Kept] ELSE older
      /\ handler' = [handler EXCEPT ![c] = <<r, creator>>]
      /\ UNCHANGED <<profile, cache, history, dialogue, snapshot, answered,
                     report, alone>>

\* Every matching handler failed: fallback_response answers.
FallBack(c) ==
  /\ Goes(c, "match", "enrich")
  /\ untried[c] = {}
  /\ UNCHANGED <<untried, handler, profile, instances, older, cache, history,
                 dialogue, snapshot, answered, report, alone>>

\* A handler raised: the dispatch goes on with the next matching route.
Raise(c) ==
  /\ \/ Goes(c, "lookup", "match")
     \/ Goes(c, "dialogue", "match")
  /\ Dropped(c)
  /\ UNCHANGED <<untried, instances, older, cache, history,
                 dialogue, snapshot, answered, report, alone>>

EvictedLate(s) == IF Len(s) <= MaxProfiles THEN s ELSE Tail(s)
\* What the cache of a full instance loses before a new profile joins it.
Evicted(s) == IF Len(s) < MaxProfiles THEN s
              ELSE SubSeq(s, Len(s) - MaxProfiles + 2, Len(s))

\* get_or_create_profile, under the lock of the instance.
LookUp(c) ==
  LET i == handler[c]
  IN  /\ Goes(c, "lookup", "record")
      /\ IF Mine(i, c) # {}
           THEN /\ profile' = [profile EXCEPT ![c] = CHOOSE x \in Mine(i, c) : TRUE]
                /\ cache' = [cache EXCEPT ![i] = Touched(i, c)]
           ELSE /\ profile' = [profile EXCEPT ![c] = c]
                /\ cache' = [cache EXCEPT ![i] = Append(Evicted(@), c)]
      /\ UNCHANGED <<untried, handler, instances, older, history, dialogue, snapshot,
                     answered, report, alone>>

\* record_request on the profile the handler holds, evicted or not.
RecordRequest(c) ==
  /\ Goes(c, "record", "dialogue")
  /\ history' = [history EXCEPT ![<<handler[c], profile[c]>>] = @ \cup {c}]
  /\ UNCHANGED <<untried, handler, profile, instances, older, cache, dialogue,
                 snapshot, answered, report, alone>>

\* _record_interaction, on the profile the instance now has for the address.
RecordInteraction(c) ==
  LET i == handler[c]
  IN  /\ Goes(c, "dialogue", "enrich")
      /\ answered' = [answered EXCEPT ![c] = TRUE]
      /\ cache' = [cache EXCEPT ![i] = Touched(i, c)]
      /\ dialogue' = [p \in Profiles |->
                        IF p[1] = i /\ p[2] \in Mine(i, c)
                        THEN dialogue[p] \cup {c} ELSE dialogue[p]]
      /\ untried' = [untried EXCEPT ![c] = {}]
      /\ Dropped(c)
      /\ UNCHANGED <<instances, older, history, snapshot,
                     report, alone>>

-----------------------------------------------------------------------------
\* After DNS, geolocation and classification: the instances the router has
\* now, under its lock.
Snapshot(c) ==
  /\ Goes(c, "enrich", "collect")
  /\ snapshot' = [snapshot EXCEPT ![c] =
                    {<<r, instances[r]>> : r \in Kept}]
  /\ UNCHANGED <<untried, handler, profile, instances, older, cache, history,
                 dialogue, answered, report, alone>>

\* The profile of the address in the first instance left of the snapshot, if
\* any, becomes what the report has of its domain.
Collect(c) ==
  \E i \in snapshot[c] :
    LET found == {<<i, x>> : x \in Mine(i, c)}
    IN  /\ Goes(c, "collect", "collect")
        /\ \A j \in snapshot[c] : j[1] \notin older[i]
        /\ snapshot' = [snapshot EXCEPT ![c] = @ \ {i}]
        /\ cache' = [cache EXCEPT ![i] = Touched(i, c)]
        /\ report' = IF found = {} THEN report ELSE
             [report EXCEPT ![c][DomainOf[i[1]]] =
                [requests |-> UNION {history[p] : p \in found},
                 interactions |-> UNION {dialogue[p] : p \in found}]]
        /\ UNCHANGED <<untried, handler, profile, instances, older, history,
                       dialogue, answered, alone>>

\* The report is put on the queue.
Send(c) ==
  /\ Goes(c, "collect", "reply")
  /\ snapshot[c] = {}
  /\ UNCHANGED <<untried, handler, profile, instances, older, cache, history,
                 dialogue, snapshot, answered, report, alone>>

KeptInstances == instances
\* What the end of a connection leaves of the instances.
Cleared == [r \in Routes |-> None]

\* An instance that the dictionary or a thread still refers to.
Referred(i) ==
  \/ instances'[i[1]] = i[2]
  \/ \E c \in Conns : handler[c] = i \/ i \in snapshot[c]

\* The answer is sent, or not, and the finally block clears the instances;
\* those that no thread refers to are garbage, with their profiles.
Close(c) ==
  /\ Goes(c, "reply", "gone")
  /\ instances' = Cleared
  /\ older' = [i \in Instances |-> IF Referred(i) THEN older[i] ELSE {}]
  /\ cache' = [i \in Instances |-> IF Referred(i) THEN cache[i] ELSE <<>>]
  /\ history' = [p \in Profiles |-> IF Referred(p[1]) THEN history[p] ELSE {}]
  /\ dialogue' = [p \in Profiles |-> IF Referred(p[1]) THEN dialogue[p] ELSE {}]
  /\ answered' = [answered EXCEPT ![c] = FALSE]
  /\ report' = [report EXCEPT ![c] = Nothing]
  /\ alone' = [alone EXCEPT ![c] = FALSE]
  /\ UNCHANGED <<untried, handler, profile, snapshot>>

-----------------------------------------------------------------------------
Gone == (\A c \in Conns : pc[c] = "gone") /\ UNCHANGED vars

Next ==
  \/ \E c \in Conns :
       \/ \E p \in Paths : Accept(c, p)
       \/ AcceptProbe(c)
       \/ Match(c) \/ FallBack(c) \/ Raise(c)
       \/ LookUp(c) \/ RecordRequest(c) \/ RecordInteraction(c)
       \/ Snapshot(c) \/ Collect(c) \/ Send(c) \/ Close(c)
  \/ Gone

Spec == Init /\ [][Next]_vars

-----------------------------------------------------------------------------
Reported(c) == pc[c] = "reply"
Requests(c) == UNION {report[c][d].requests : d \in Domains}
Interactions(c) == UNION {report[c][d].interactions : d \in Domains}

(***************************************************************************)
(* Sharing handlers between connections never puts what one address sent   *)
(* into the report of another.                                             *)
(***************************************************************************)
NoForeignActivity ==
  \A c \in Conns :
    \A d \in Requests(c) \cup Interactions(c) : IpOf[d] = IpOf[c]

(***************************************************************************)
(* A cache never exceeds MAX_PROFILES and has one profile per address.     *)
(***************************************************************************)
CacheIsLRU ==
  \A i \in Instances :
    /\ Len(cache[i]) <= MaxProfiles
    /\ \A m, n \in 1 .. Len(cache[i]) :
         IpOf[cache[i][m]] = IpOf[cache[i][n]] => m = n

(***************************************************************************)
(* A connection served while no other was reports exactly what it did: its *)
(* own interaction if a handler answered it, and nothing an earlier        *)
(* connection of the same address left behind.                             *)
(***************************************************************************)
AloneReportsItself ==
  \A c \in Conns : Reported(c) /\ alone[c] =>
    /\ Requests(c) \subseteq {c}
    /\ Interactions(c) = IF answered[c] THEN {c} ELSE {}

(***************************************************************************)
(* router.py 150-152: "Handler instances are persisted across dispatch     *)
(* calls so that per-request state [...] survives within a single          *)
(* connection/session": what a handler answered is in the report.          *)
(***************************************************************************)
AnswerIsReported ==
  \A c \in Conns : Reported(c) /\ answered[c] => c \in Interactions(c)
=============================================================================
