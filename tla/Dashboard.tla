----------------------------- MODULE Dashboard -----------------------------
(***************************************************************************)
(* The dashboard process: a refresher thread builds the payload and the    *)
(* page of every range in the background, and request threads serve the    *)
(* cached copies, or build and cache one themselves when there is none or  *)
(* it is too old.                                                          *)
(* Of a payload we keep what its log is restricted to and, of a page, how  *)
(* many captures it counts.                                                *)
(***************************************************************************)
EXTENDS Naturals

CONSTANTS
  Ranges,      \* _VOLUME_RANGES
  Default,     \* _DASHBOARD_DEFAULT_RANGE
  Scopes,      \* what a request may restrict the log to: an ip or a host,
  Searches,    \* ... a search or a method
  Filters,     \* the combinations of them that are asked for
  Viewers,     \* request threads
  StaleServe,  \* _STALE_SERVE_SECONDS, in ticks
  MaxCaptured, \* bound: captures stored while we look
  MaxFailures, \* bound: builds that raise
  Miss         \* None

VARIABLES
  captured,    \* records in the database
  polled,      \* _PAYLOAD_CACHE under _cache_key(range, 1); what the refresher
               \* puts there it puts under the bare range, which nothing reads
  pages,       \* _HTML_CACHE
  stage,       \* what the refresher is at
  shared,      \* its bundle of range-independent data: the captures it counts
  built,       \* how far its pass is with each range
  draft,       \* the captures counted by the payload it is building
  primed,      \* _PRIMED
  open,        \* the dashboard listens
  failures,
  pc,          \* what each request thread is at
  asked,       \* its request
  count,       \* the captures counted by the payload it builds
  answer       \* the restrictions of the log it answers with

vars == <<captured, polled, pages, stage, shared, built, draft, primed,
          open, failures, pc, asked, count, answer>>

refresherVars == <<stage, shared, built, draft, primed>>
viewerVars == <<pc, asked, count, answer>>
caches == <<polled, pages>>

Filtered == SUBSET (Scopes \cup Searches)
NoFilter == {}
Counts == 0 .. MaxCaptured
Payloads == [filter : Filtered, age : 0 .. StaleServe + 1]
Pages == [filter : Filtered, seen : Counts, age : 0 .. StaleServe + 1]
\* The first page of the log as a full page or as a fragment, or a deeper one.
Requests == [view : {"page", "fragment", "deeper"}, range : Ranges,
             filter : Filters]

DashboardAssumption ==
  /\ Default \in Ranges
  /\ StaleServe \in Nat
  /\ MaxCaptured \in Nat
  /\ MaxFailures \in Nat
  /\ Scopes \cap Searches = {}
  /\ Filters \subseteq Filtered
  /\ Miss \notin Pages

TypeOK ==
  /\ captured \in Counts
  /\ polled \in [Ranges -> Payloads \cup {Miss}]
  /\ pages \in [Ranges -> Pages \cup {Miss}]
  /\ stage \in {"bundle", "default", "others", "wait", "dead"}
  /\ shared \in Counts \cup {Miss}
  /\ built \in [Ranges -> {"todo", "read", "done"}]
  /\ draft \in [Ranges -> Counts]
  /\ primed \in BOOLEAN
  /\ open \in BOOLEAN
  /\ failures \in 0 .. MaxFailures
  /\ pc \in [Viewers -> {"idle", "build", "store", "answered"}]
  /\ asked \in [Viewers -> Requests \cup {Miss}]
  /\ count \in [Viewers -> Counts]
  /\ answer \in [Viewers -> Filtered \cup {Miss}]
  /\ \A r \in Ranges : built[r] # "read" => draft[r] = 0

Init ==
  /\ captured = 0
  /\ polled = [r \in Ranges |-> Miss]
  /\ pages = [r \in Ranges |-> Miss]
  /\ stage = "bundle"
  /\ shared = Miss
  /\ built = [r \in Ranges |-> "todo"]
  /\ draft = [r \in Ranges |-> 0]
  /\ primed = FALSE
  /\ open = FALSE
  /\ failures = 0
  /\ pc = [v \in Viewers |-> "idle"]
  /\ asked = [v \in Viewers |-> Miss]
  /\ count = [v \in Viewers |-> 0]
  /\ answer = [v \in Viewers |-> Miss]

Page(filter, n) == [filter |-> filter, seen |-> n, age |-> 0]
Payload(filter) == [filter |-> filter, age |-> 0]
Raises == failures < MaxFailures /\ failures' = failures + 1

-----------------------------------------------------------------------------
(* The refresher.                                                          *)

\* _build_shared, once per pass ...
BuildShared ==
  /\ stage = "bundle"
  /\ stage' = "default"
  /\ shared' = captured
  /\ UNCHANGED <<captured, caches, built, draft, primed, open, failures, viewerVars>>

\* ... or it raises, and every range builds its own. (get_storage, before it,
\* is not caught, but makes the storage once and does not mind an outage.)
SharedFails ==
  /\ stage = "bundle"
  /\ Raises
  /\ stage' = "default"
  /\ shared' = Miss
  /\ UNCHANGED <<captured, caches, built, draft, primed, open, viewerVars>>

\* The default range comes first, the others after it and concurrently.
Turn(r) == stage = IF r = Default THEN "default" ELSE "others"

ReadRange(r) ==
  /\ Turn(r) /\ built[r] = "todo"
  /\ built' = [built EXCEPT ![r] = "read"]
  /\ draft' = [draft EXCEPT ![r] = IF shared = Miss THEN captured ELSE shared]
  /\ UNCHANGED <<captured, caches, stage, shared, primed, open, failures, viewerVars>>

StoreRange(r) ==
  /\ Turn(r) /\ built[r] = "read"
  /\ built' = [built EXCEPT ![r] = "done"]
  /\ draft' = [draft EXCEPT ![r] = 0]
  /\ pages' = [pages EXCEPT ![r] = Page(NoFilter, draft[r])]
  /\ UNCHANGED <<captured, polled, stage, shared, primed, open, failures, viewerVars>>

\* What the thread is at after a build raised.
AfterFailureDead == "dead"
AfterFailure == stage

\* _build_range catches what its build raises and leaves the old copies.
RangeFails(r) ==
  /\ Turn(r) /\ built[r] = "todo"
  /\ Raises
  /\ built' = [built EXCEPT ![r] = "done"]
  /\ stage' = AfterFailure
  /\ UNCHANGED <<captured, caches, shared, draft, primed, open, viewerVars>>

ReadyEarly == stage = "default"
Ready == stage = "default" /\ built[Default] = "done"

\* _PRIMED.set(), whether or not the default range could be built.
Prime ==
  /\ Ready
  /\ stage' = "others"
  /\ primed' = TRUE
  /\ UNCHANGED <<captured, caches, shared, built, draft, open, failures, viewerVars>>

AllBuilt == \A r \in Ranges : built[r] = "done"

EndPass ==
  /\ stage = "others"
  /\ AllBuilt
  /\ stage' = "wait"
  /\ shared' = Miss
  /\ built' = [r \in Ranges |-> "todo"]
  /\ UNCHANGED <<captured, caches, draft, primed, open, failures, viewerVars>>

\* _REFRESH_INTERVAL is over.
Wake ==
  /\ stage = "wait"
  /\ stage' = "bundle"
  /\ UNCHANGED <<captured, caches, shared, built, draft, primed, open, failures, viewerVars>>

Refresh ==
  \/ BuildShared \/ SharedFails
  \/ \E r \in Ranges : ReadRange(r) \/ StoreRange(r) \/ RangeFails(r)
  \/ Prime \/ EndPass \/ Wake

\* run_dashboard waits for _PRIMED before it listens, but 120 s at most.
Listen ==
  /\ ~open
  /\ open' = TRUE
  /\ UNCHANGED <<captured, caches, refresherVars, failures, viewerVars>>

-----------------------------------------------------------------------------
(* do_GET.                                                                 *)

\* _get_cached finds a copy that is not too old.
Hit(e) == e # Miss /\ e.age <= StaleServe

Answers(v, q, filter) ==
  /\ pc' = [pc EXCEPT ![v] = "answered"]
  /\ asked' = [asked EXCEPT ![v] = q]
  /\ answer' = [answer EXCEPT ![v] = filter]
  /\ UNCHANGED count

Builds(v, q) ==
  /\ pc' = [pc EXCEPT ![v] = "build"]
  /\ asked' = [asked EXCEPT ![v] = q]
  /\ UNCHANGED <<count, answer>>

\* An unfiltered fragment of the first page is the payload of the cache.
PlainDeaf(q) == q.view = "fragment"
Plain(q) == q.view = "fragment" /\ q.filter = NoFilter

\* A full page of the log's first page comes from the page cache, everything
\* else goes through _scoped_payload; a filter or a deeper page is laid over
\* the cached payload of the range (_payload_with_scope).
Request(v, q) ==
  LET page == pages[q.range]
      base == polled[q.range]
  IN  /\ pc[v] = "idle"
      /\ open
      /\ IF q.view = "page"
           THEN IF Hit(page) THEN Answers(v, q, page.filter)
                             ELSE Builds(v, q)
           ELSE IF Hit(base)
             THEN Answers(v, q, IF Plain(q) THEN base.filter ELSE q.filter)
             ELSE Builds(v, q)
      /\ UNCHANGED <<captured, caches, refresherVars, open, failures>>

\* _build_payload on the request thread.
Build(v) ==
  /\ pc[v] = "build"
  /\ pc' = [pc EXCEPT ![v] = "store"]
  /\ count' = [count EXCEPT ![v] = captured]
  /\ UNCHANGED <<captured, caches, refresherVars, open, failures, asked, answer>>

\* It raises, and the request is answered with a 500.
BuildFails(v) ==
  /\ pc[v] = "build"
  /\ Raises
  /\ pc' = [pc EXCEPT ![v] = "idle"]
  /\ asked' = [asked EXCEPT ![v] = Miss]
  /\ UNCHANGED <<captured, caches, refresherVars, open, count, answer>>

\* What the payload built for a request is restricted to: _scoped_payload asks
\* _build_payload for the ip and the host only.
BuiltFor(q) == IF q.view = "page" THEN q.filter ELSE q.filter \ Searches

\* The page cache takes every first page, the payload cache plain payloads.
Store(v) ==
  LET q == asked[v]
  IN  /\ pc[v] = "store"
      /\ pc' = [pc EXCEPT ![v] = "answered"]
      /\ answer' = [answer EXCEPT ![v] = BuiltFor(q)]
      /\ count' = [count EXCEPT ![v] = 0]
      /\ IF q.view = "page"
           THEN pages' = [pages EXCEPT ![q.range] = Page(q.filter, count[v])] /\ UNCHANGED polled
           ELSE /\ polled' = IF Plain(q) THEN [polled EXCEPT ![q.range] = Payload(q.filter)] ELSE polled
                /\ UNCHANGED pages
      /\ UNCHANGED <<captured, refresherVars, open, failures, asked>>

Leave(v) ==
  /\ pc[v] = "answered"
  /\ pc' = [pc EXCEPT ![v] = "idle"]
  /\ asked' = [asked EXCEPT ![v] = Miss]
  /\ answer' = [answer EXCEPT ![v] = Miss]
  /\ UNCHANGED <<captured, caches, refresherVars, open, failures, count>>

-----------------------------------------------------------------------------
\* The server process stores a record.
Capture ==
  /\ captured < MaxCaptured
  /\ captured' = captured + 1
  /\ UNCHANGED <<caches, refresherVars, open, failures, viewerVars>>

Older(e) ==
  IF e = Miss \/ e.age > StaleServe THEN e ELSE [e EXCEPT !.age = @ + 1]

Tick ==
  /\ polled' = [r \in Ranges |-> Older(polled[r])]
  /\ pages' = [r \in Ranges |-> Older(pages[r])]
  /\ UNCHANGED <<captured, refresherVars, open, failures, viewerVars>>

Next ==
  \/ Refresh
  \/ Listen
  \/ \E v \in Viewers :
       \/ \E q \in Requests : Request(v, q)
       \/ Build(v) \/ BuildFails(v) \/ Store(v) \/ Leave(v)
  \/ Capture
  \/ Tick

\* The refresher thread runs and its waits end.
Fairness == WF_vars(Refresh)
Spec == Init /\ [][Next]_vars /\ Fairness

-----------------------------------------------------------------------------
Answered(v) == pc[v] = "answered"

(***************************************************************************)
(* A fragment or a deeper page is restricted to the ip and the host that   *)
(* were asked for, and by nothing that was not, though it may be laid over *)
(* a payload that another request left in the cache.  The search and the   *)
(* method are lost on it when no payload is cached (dashboard.py:954-956), *)
(* contrary to "Return the payload for (range, page, ip, host, search,     *)
(* method, payloads_page)" (925).                                          *)
(***************************************************************************)
FragmentAsAsked ==
  \A v \in Viewers :
    Answered(v) /\ asked[v].view # "page" =>
      /\ answer[v] \subseteq asked[v].filter
      /\ asked[v].filter \cap Scopes \subseteq answer[v]

(***************************************************************************)
(* Issue #409: once the refresher lets the port open, a page is there for  *)
(* the first visitor, unless a build raised.                               *)
(***************************************************************************)
WarmAtOpen == open /\ primed => pages[Default] # Miss \/ failures > 0

(***************************************************************************)
(* The page people load catches up with the captures, whichever builds     *)
(* raised and whatever the request threads put in its place meanwhile.     *)
(***************************************************************************)
PageCatchesUp ==
  captured = MaxCaptured ~>
    pages[Default] # Miss /\ pages[Default].seen = MaxCaptured

(***************************************************************************)
(* dashboard.py 864-866: "a cached payload built for one scope is never    *)
(* served to a different filter (or to the unfiltered log)".               *)
(***************************************************************************)
ScopeServed ==
  \A v \in Viewers : Answered(v) => answer[v] = asked[v].filter
=============================================================================
