-------------------------- MODULE DashboardProofs --------------------------
(***************************************************************************)
(* Proofs about Dashboard for any ranges, filters, request threads and     *)
(* limits that DashboardAssumption allows, with or without its fairness.   *)
(***************************************************************************)
EXTENDS Dashboard, TLAPS

(***************************************************************************)
(* A request thread that is not idle has a request.                        *)
(***************************************************************************)
AskedInv == \A v \in Viewers : pc[v] # "idle" => asked[v] \in Requests

(***************************************************************************)
(* Why a fragment is about what was asked: the payload cache holds plain   *)
(* payloads only, and everything but a plain fragment gets its own ip and  *)
(* host, laid over the cached payload or built for it.                     *)
(***************************************************************************)
PlainInv == \A r \in Ranges : polled[r] # Miss => polled[r].filter = NoFilter

(***************************************************************************)
(* Why a page is there: the refresher is done with the default range only  *)
(* when its page is stored or its build has raised, in its first pass and  *)
(* in every later one; and a page is replaced, never dropped.              *)
(***************************************************************************)
WarmInv ==
  primed \/ built[Default] = "done" => pages[Default] # Miss \/ failures > 0

DashboardInv == TypeOK /\ AskedInv /\ PlainInv /\ FragmentAsAsked /\ WarmInv

(***************************************************************************)
(* Growing older changes neither what a copy is about nor that it is there.*)
(***************************************************************************)
LEMMA OlderKeeps ==
  ASSUME DashboardAssumption, NEW e
  PROVE  /\ e \in Pages \cup {Miss} => /\ Older(e) \in Pages \cup {Miss}
                                       /\ e # Miss => Older(e) # Miss
         /\ e \in Payloads \cup {Miss} =>
              /\ Older(e) \in Payloads \cup {Miss}
              /\ Older(e) # Miss /\ e # Miss => Older(e).filter = e.filter
<1> USE DEF DashboardAssumption
<1>1. CASE e = Miss \/ e.age > StaleServe
  BY <1>1 DEF Older
<1>2. CASE ~(e = Miss \/ e.age > StaleServe)
  <2>1. Older(e) = [e EXCEPT !.age = @ + 1]
    BY <1>2 DEF Older
  <2>2. ASSUME e \in Pages PROVE Older(e) \in Pages
    BY <1>2, <2>1, <2>2 DEF Pages
  <2>3. ASSUME e \in Payloads PROVE Older(e) \in Payloads /\ Older(e).filter = e.filter
    BY <1>2, <2>1, <2>3 DEF Payloads
  <2> QED BY <1>2, <2>2, <2>3
<1> QED BY <1>1, <1>2

(***************************************************************************)
(* A new copy is there, and about what it was built for.                   *)
(***************************************************************************)
LEMMA NewCopies ==
  ASSUME DashboardAssumption, NEW filter \in Filtered, NEW n \in Counts
  PROVE  /\ Page(filter, n) \in Pages /\ Page(filter, n) # Miss
         /\ Payload(filter) \in Payloads /\ Payload(filter).filter = filter
BY DEF DashboardAssumption, Page, Pages, Payload, Payloads

(***************************************************************************)
(* Nothing is cached, and nothing is asked.                                *)
(***************************************************************************)
LEMMA InitDashboard ==
  ASSUME DashboardAssumption, Init
  PROVE  DashboardInv
<1> USE DEF Init, DashboardAssumption
<1>1. 0 \in Counts /\ 0 \in 0 .. MaxFailures
  BY DEF Counts
<1>2. TypeOK
  BY <1>1 DEF TypeOK
<1>3. AskedInv /\ PlainInv /\ FragmentAsAsked
  BY DEF AskedInv, PlainInv, FragmentAsAsked, Answered
<1>4. WarmInv
  BY DEF WarmInv
<1> QED BY <1>2, <1>3, <1>4 DEF DashboardInv

(***************************************************************************)
(* The refresher.                                                          *)
(***************************************************************************)
LEMMA RefreshKeeps ==
  ASSUME DashboardAssumption, DashboardInv, Refresh
  PROVE  DashboardInv'
<1> USE DEF DashboardAssumption, DashboardInv, AskedInv, PlainInv, FragmentAsAsked, WarmInv, Answered, caches,
        refresherVars, viewerVars
<1>0. UNCHANGED <<captured, polled, open, pc, asked, count, answer>>
  BY DEF Refresh, BuildShared, SharedFails, ReadRange, StoreRange, RangeFails, Prime,
         EndPass, Wake
<1>1. ASSUME BuildShared \/ SharedFails PROVE DashboardInv'
  BY <1>1 DEF BuildShared, SharedFails, Raises, TypeOK, Counts
<1>2. ASSUME NEW r \in Ranges, ReadRange(r) PROVE DashboardInv'
  <2>1. /\ built' = [built EXCEPT ![r] = "read"]
        /\ draft' = [draft EXCEPT ![r] = IF shared = Miss THEN captured ELSE shared]
        /\ UNCHANGED <<pages, stage, shared, primed, failures>>
        /\ built[r] = "todo"
    BY <1>2 DEF ReadRange
  <2>2. TypeOK'
    BY <1>0, <2>1 DEF TypeOK
  <2> QED BY <1>0, <2>1, <2>2 DEF TypeOK
<1>3. ASSUME NEW r \in Ranges, StoreRange(r) PROVE DashboardInv'
  <2>1. /\ built' = [built EXCEPT ![r] = "done"]
        /\ draft' = [draft EXCEPT ![r] = 0]
        /\ pages' = [pages EXCEPT ![r] = Page(NoFilter, draft[r])]
        /\ UNCHANGED <<stage, shared, primed, failures>>
    BY <1>3 DEF StoreRange
  <2>2. Page(NoFilter, draft[r]) \in Pages /\ Page(NoFilter, draft[r]) # Miss
      <3>1. NoFilter \in Filtered /\ draft[r] \in Counts
      BY DEF TypeOK, Filtered, NoFilter
    <3> QED BY <3>1, NewCopies
  <2>3. TypeOK'
    BY <1>0, <2>1, <2>2 DEF TypeOK, Counts
  <2>4. pages'[Default] # Miss \/ (pages'[Default] = pages[Default] /\ built'[Default] = built[Default])
    BY <2>1, <2>2 DEF TypeOK
  <2>5. WarmInv'
    BY <2>1, <2>4
  <2> QED BY <1>0, <2>3, <2>5
<1>4. ASSUME NEW r \in Ranges, RangeFails(r) PROVE DashboardInv'
  <2>1. /\ built' = [built EXCEPT ![r] = "done"] /\ failures' = failures + 1
        /\ failures < MaxFailures /\ built[r] = "todo"
        /\ UNCHANGED <<pages, stage, shared, draft, primed>>
    BY <1>4 DEF RangeFails, AfterFailure, Raises
  <2>2. TypeOK' /\ failures' > 0
    BY <1>0, <2>1 DEF TypeOK
  <2> QED BY <1>0, <2>1, <2>2
<1>5. ASSUME Prime PROVE DashboardInv'
  BY <1>5 DEF Prime, Ready, TypeOK
<1>6. ASSUME EndPass PROVE DashboardInv'
  BY <1>6 DEF EndPass, AllBuilt, TypeOK
<1>7. ASSUME Wake PROVE DashboardInv'
  BY <1>7 DEF Wake, TypeOK
<1> QED BY <1>1, <1>2, <1>3, <1>4, <1>5, <1>6, <1>7 DEF Refresh

(***************************************************************************)
(* The request threads.                                                    *)
(***************************************************************************)
LEMMA ViewersKeep ==
  ASSUME DashboardAssumption, DashboardInv, NEW v \in Viewers,
         (\E q \in Requests : Request(v, q)) \/ Build(v) \/ BuildFails(v) \/ Store(v) \/ Leave(v)
  PROVE  DashboardInv'
<1> USE DEF DashboardAssumption, DashboardInv, AskedInv, PlainInv, FragmentAsAsked, WarmInv, Answered, caches,
        refresherVars, viewerVars
\* An answer has the scope that was asked for, unless it is a page.
<1>1. ASSUME NEW q \in Requests, NEW filter \in Filtered, Answers(v, q, filter),
             q.view # "page" => filter \subseteq q.filter /\ q.filter \cap Scopes \subseteq filter,
             UNCHANGED <<captured, polled, pages, refresherVars, open, failures>>
      PROVE  DashboardInv'
  <2>1. /\ pc' = [pc EXCEPT ![v] = "answered"] /\ asked' = [asked EXCEPT ![v] = q]
        /\ answer' = [answer EXCEPT ![v] = filter] /\ count' = count
    BY <1>1 DEF Answers
  <2>2. TypeOK'
    BY <1>1, <2>1 DEF TypeOK
  <2> QED BY <1>1, <2>1, <2>2 DEF TypeOK
<1>2. ASSUME NEW q \in Requests, Builds(v, q),
             UNCHANGED <<captured, polled, pages, refresherVars, open, failures>>
      PROVE  DashboardInv'
  <2>1. /\ pc' = [pc EXCEPT ![v] = "build"] /\ asked' = [asked EXCEPT ![v] = q]
        /\ answer' = answer /\ count' = count
    BY <1>2 DEF Builds
  <2>2. TypeOK'
    BY <1>2, <2>1 DEF TypeOK
  <2> QED BY <1>2, <2>1, <2>2 DEF TypeOK
<1>3. ASSUME NEW q \in Requests, Request(v, q) PROVE DashboardInv'
  <2>0. /\ q.range \in Ranges /\ q.filter \in Filtered
        /\ UNCHANGED <<captured, polled, pages, refresherVars, open, failures>>
    BY <1>3 DEF Requests, Request
  <2>1. CASE q.view = "page" /\ Hit(pages[q.range])
    <3>1. pages[q.range].filter \in Filtered
      BY <2>0, <2>1 DEF TypeOK, Hit, Pages
    <3>2. Answers(v, q, pages[q.range].filter)
      BY <1>3, <2>1 DEF Request
    <3> QED BY <1>1, <2>0, <2>1, <3>1, <3>2
  <2>2. CASE q.view # "page" /\ Hit(polled[q.range])
    <3>1. polled[q.range].filter = NoFilter
      BY <2>0, <2>2 DEF Hit
    <3>2. Answers(v, q, IF Plain(q) THEN NoFilter ELSE q.filter)
      BY <1>3, <2>2, <3>1 DEF Request
    <3>3. Answers(v, q, q.filter)
      BY <3>2 DEF Plain
    <3> HIDE DEF FragmentAsAsked, DashboardInv
    <3>4. q.filter \subseteq q.filter /\ q.filter \cap Scopes \subseteq q.filter
      OBVIOUS
    <3> QED BY <1>1, <2>0, <3>3, <3>4
  <2>3. CASE IF q.view = "page" THEN ~Hit(pages[q.range]) ELSE ~Hit(polled[q.range])
    <3>1. Builds(v, q)
      BY <1>3, <2>3 DEF Request
    <3> QED BY <1>2, <2>0, <3>1
  <2> QED BY <2>1, <2>2, <2>3
<1>4. ASSUME Build(v) \/ BuildFails(v) PROVE DashboardInv'
  <2>1. /\ pc' = [pc EXCEPT ![v] = IF Build(v) THEN "store" ELSE "idle"]
        /\ pc[v] = "build"
        /\ IF Build(v) THEN asked' = asked ELSE asked' = [asked EXCEPT ![v] = Miss]
        /\ UNCHANGED <<captured, polled, pages, refresherVars, open, answer>>
    BY <1>4 DEF Build, BuildFails
  <2>2. /\ failures' \in 0 .. MaxFailures /\ (failures > 0 => failures' > 0)
        /\ count' \in [Viewers -> Counts]
    BY <1>4 DEF Build, BuildFails, Raises, TypeOK
  <2>3. TypeOK'
    BY <2>1, <2>2 DEF TypeOK
  <2>4. \A u \in Viewers : u # v => pc'[u] = pc[u] /\ asked'[u] = asked[u]
    BY <2>1 DEF TypeOK
  <2>5. pc'[v] # "answered" /\ (pc'[v] # "idle" => asked'[v] = asked[v])
    BY <2>1 DEF TypeOK
  <2>6. AskedInv' /\ FragmentAsAsked'
    BY <2>1, <2>4, <2>5
  <2> QED BY <2>1, <2>2, <2>3, <2>6
<1>5. ASSUME Store(v) PROVE DashboardInv'
  <2> DEFINE q == asked[v]
  <2>1. /\ pc' = [pc EXCEPT ![v] = "answered"] /\ answer' = [answer EXCEPT ![v] = BuiltFor(q)]
        /\ count' = [count EXCEPT ![v] = 0] /\ pc[v] = "store"
        /\ UNCHANGED <<captured, refresherVars, open, failures, asked>>
        /\ IF q.view = "page"
             THEN pages' = [pages EXCEPT ![q.range] = Page(q.filter, count[v])] /\ UNCHANGED polled
             ELSE /\ polled' = IF Plain(q) THEN [polled EXCEPT ![q.range] = Payload(q.filter)] ELSE polled
                  /\ UNCHANGED pages
    BY <1>5 DEF Store
  <2>2. q \in Requests /\ q.range \in Ranges /\ q.filter \in Filtered /\ count[v] \in Counts
    <3>1. q \in Requests
      BY <2>1
    <3> QED BY <3>1 DEF Requests, TypeOK
  <2>9. /\ BuiltFor(q) \in Filtered
        /\ BuiltFor(q) \subseteq q.filter
        /\ q.view # "page" => BuiltFor(q) = q.filter \ Searches
    BY <2>2 DEF BuiltFor, Filtered
  <2>3. /\ Page(q.filter, count[v]) \in Pages /\ Page(q.filter, count[v]) # Miss
        /\ Payload(q.filter) \in Payloads /\ Payload(q.filter).filter = q.filter
    BY <2>2, NewCopies
  <2> HIDE DEF q
  <2>4. /\ pages' \in [Ranges -> Pages \cup {Miss}]
        /\ \A r \in Ranges : pages[r] # Miss => pages'[r] # Miss
    BY <2>1, <2>2, <2>3 DEF TypeOK
  <2>5. polled' \in [Ranges -> Payloads \cup {Miss}] /\ PlainInv'
    BY <2>1, <2>2, <2>3 DEF TypeOK, Plain
  <2>6. TypeOK'
    BY <2>1, <2>2, <2>4, <2>5, <2>9 DEF TypeOK, Counts
  <2>7. FragmentAsAsked' /\ AskedInv'
    <3>1. q.view # "page" => q.filter \cap Scopes \subseteq BuiltFor(q)
      BY <2>9
    <3> QED BY <2>1, <2>9, <3>1 DEF TypeOK, q
  <2>8. WarmInv'
    BY <2>1, <2>4
  <2> QED BY <2>5, <2>6, <2>7, <2>8
<1>6. ASSUME Leave(v) PROVE DashboardInv'
  <2>1. /\ pc' = [pc EXCEPT ![v] = "idle"] /\ asked' = [asked EXCEPT ![v] = Miss]
        /\ answer' = [answer EXCEPT ![v] = Miss]
        /\ UNCHANGED <<captured, polled, pages, refresherVars, open, failures, count>>
    BY <1>6 DEF Leave
  <2>2. TypeOK'
    BY <2>1 DEF TypeOK
  <2> QED BY <2>1, <2>2 DEF TypeOK
<1> QED BY <1>3, <1>4, <1>5, <1>6

(***************************************************************************)
(* The rest of the world: captures, the clock and the port.                *)
(***************************************************************************)
LEMMA OthersKeep ==
  ASSUME DashboardAssumption, DashboardInv, Listen \/ Capture \/ Tick \/ UNCHANGED vars
  PROVE  DashboardInv'
<1> USE DEF DashboardAssumption, DashboardInv, AskedInv, PlainInv, FragmentAsAsked, WarmInv, Answered, caches,
        refresherVars, viewerVars
<1>1. ASSUME Listen \/ Capture \/ UNCHANGED vars PROVE DashboardInv'
  <2>1. /\ captured' \in Counts /\ open' \in BOOLEAN
        /\ UNCHANGED <<polled, pages, refresherVars, failures, viewerVars>>
    <3>1. CASE Listen
      BY <3>1 DEF Listen, TypeOK
    <3>2. CASE Capture
      BY <3>2 DEF Capture, TypeOK, Counts
    <3>3. CASE UNCHANGED vars
      BY <3>3 DEF vars, TypeOK
    <3> QED BY <1>1, <3>1, <3>2, <3>3
  <2>2. TypeOK'
    BY <2>1 DEF TypeOK
  <2> QED BY <2>1, <2>2
<1>2. ASSUME Tick PROVE DashboardInv'
  <2>1. /\ polled' = [r \in Ranges |-> Older(polled[r])]
        /\ pages' = [r \in Ranges |-> Older(pages[r])]
        /\ UNCHANGED <<captured, refresherVars, open, failures, viewerVars>>
    BY <1>2 DEF Tick
  <2>2. \A r \in Ranges : /\ Older(pages[r]) \in Pages \cup {Miss}
                          /\ pages[r] # Miss => Older(pages[r]) # Miss
                          /\ Older(polled[r]) \in Payloads \cup {Miss}
                          /\ Older(polled[r]) # Miss => polled[r] # Miss
                          /\ Older(polled[r]) # Miss => Older(polled[r]).filter = polled[r].filter
    <3>1. \A e : e = Miss => Older(e) = Miss
      BY DEF Older
    <3> QED BY <3>1, OlderKeeps DEF TypeOK
  <2>3. TypeOK'
    BY <2>1, <2>2 DEF TypeOK
  <2> QED BY <2>1, <2>2, <2>3
<1> QED BY <1>1, <1>2

(***************************************************************************)
(* The inductive invariant of the dashboard.                               *)
(***************************************************************************)
LEMMA DashboardInvHolds ==
  ASSUME DashboardAssumption
  PROVE  Init /\ [][Next]_vars => []DashboardInv
<1>1. Init => DashboardInv
  BY InitDashboard
<1>2. DashboardInv /\ [Next]_vars => DashboardInv'
  BY RefreshKeeps, ViewersKeep, OthersKeep DEF Next
<1> QED BY <1>1, <1>2, PTL

(***************************************************************************)
(* Type correctness of the dashboard.                                      *)
(***************************************************************************)
THEOREM DashboardTypeOK ==
  ASSUME DashboardAssumption
  PROVE  Init /\ [][Next]_vars => []TypeOK
<1>1. DashboardInv => TypeOK
  BY DEF DashboardInv
<1> QED BY <1>1, DashboardInvHolds, PTL

(***************************************************************************)
(* A fragment or a deeper page has the ip and the host that were asked for *)
(* and nothing that was not (_scoped_payload), whatever other requests     *)
(* have left in the payload cache.                                         *)
(***************************************************************************)
THEOREM FragmentAsAskedHolds ==
  ASSUME DashboardAssumption
  PROVE  Init /\ [][Next]_vars => []FragmentAsAsked
<1>1. DashboardInv => FragmentAsAsked
  BY DEF DashboardInv
<1> QED BY <1>1, DashboardInvHolds, PTL

(***************************************************************************)
(* Once the refresher lets the port open, a page is there for the first    *)
(* visitor, unless a build has raised (issue #409).                        *)
(***************************************************************************)
THEOREM WarmAtOpenHolds ==
  ASSUME DashboardAssumption
  PROVE  Init /\ [][Next]_vars => []WarmAtOpen
<1>1. DashboardInv => WarmAtOpen
  BY DEF DashboardInv, WarmInv, WarmAtOpen
<1> QED BY <1>1, DashboardInvHolds, PTL
=============================================================================
