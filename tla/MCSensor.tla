------------------------------ MODULE MCSensor ------------------------------
(***************************************************************************)
(* Small instances of the parts of the sensor: one connection on each kind *)
(* of face, overlapping HTTP connections that share the router, one HTTP   *)
(* request on its way through the whole route table, the profile of one    *)
(* address, the geolocation of three, and the alerts of three capture      *)
(* threads.  They share no variable, so a behaviour exercises one, chosen  *)
(* at the start, while the others keep their initial states.  The          *)
(* connection is extended, the other parts are instances.                  *)
(***************************************************************************)
EXTENDS BotConnection, TLC

CONSTANTS
  first1, second1, other, \* two connections of one address and one of another
  Routes, MaxProfiles, MaxServed, None,
  MaxHistory, MaxDialogue, MaxCalls,
  Ips, Skipped, CacheMax, Ttl, Delay, MaxStops,
  PoolSize, MaxPools

VARIABLES
  part,
  routerPc, untried, handler, profile, instances, older, cache, history, dialogue, snapshot,
  answered, report, alone,
  stage, request, login, matching, failed, recorded, captured, answer, made,
  calls, requests, exchanges, behaviors, level, metadata, captures,
  located, since, current, queue, at, ip, held, nap, known, refused, excused,
  pool, created, shut, items, running, caller, mine, tried, stopping, closing

Conns == {first1, second1, other}
IpOf == [c \in Conns |-> IF c = other THEN "b" ELSE "a"]
Last == CHOOSE r \in Routes : \A s \in Routes : s <= r
Paths == {{Last}, Routes}
\* One handler serves all the routes, as with those of one service.
DomainOf == [r \in Routes |-> "shared"]

Router == INSTANCE SharedRouter WITH pc <- routerPc

\* A request without anything in particular, and what differs from it in one
\* respect or two: the end of the path, the port, a form, a body, a header.
PlainSender ==
  [escape |-> "none", method |-> "GET", fields |-> {}, marks |-> {},
   authorization |-> "none", port |-> 80]
Senders ==
  {[PlainSender EXCEPT !.escape = e] : e \in {"none", "latin", "wide", "stray", "overlong",
                                              "invalid"}}
  \cup {[PlainSender EXCEPT !.port = p] : p \in {0, 9200}}
  \cup {[PlainSender EXCEPT !.method = "POST", !.fields = f] :
          f \in {{}, {"log", "pwd"}, {"xyuser"}, {"login[username]"}}}
  \cup {[PlainSender EXCEPT !.method = "POST", !.marks = {m}] :
          m \in {"json_list", "json_call", "soap_login", "upload", "invokefunction"}}
  \cup {[PlainSender EXCEPT !.method = "POST", !.fields = {"user"}, !.escape = "wide"],
        [PlainSender EXCEPT !.method = "POST", !.fields = {"j_username"},
                            !.marks = {"j_security_check"}],
        [PlainSender EXCEPT !.authorization = "basic"],
        [PlainSender EXCEPT !.method = "PUT"],
        [PlainSender EXCEPT !.marks = {"docker"}],
        [PlainSender EXCEPT !.marks = {"pearcmd"}]}
OtherPaths ==
  {"/3cwja4nt2qs1a4v", "/8kd92mz71qxw", "/cgi-bin/x", "/api/route", "/api/v1/pods",
   "/apis/apps", "/mysql/x", "/manager/html/j_security_check", "/x/../etc/passwd",
   "/a/wp-login.php", "/z/login"}

\* The request while another part runs.
AnyRequest == PlainSender @@ [path |-> "/"]

Http == INSTANCE HttpDispatch WITH untried <- matching, report <- made, NoAnswer <- None

\* A request with one telling sign or none, and one with two.
Signs == {{}, {"sql"}, {"command"}, {"dots", "inclusion"}, {"dots"}, {"login"}, {"listed"}}

Bot == INSTANCE BotProfile WITH history <- requests, dialogue <- exchanges

Geo == INSTANCE GeoLookup WITH Captures <- {first1, other}, cache <- located

Alerts == INSTANCE AlertPool WITH Callers <- Conns, current <- pool, pc <- caller

\* The parameters of the parts are as their comments assume.
ASSUME SensorAssumption ==
  /\ ConnectionAssumption
  /\ Router!RouterAssumption
  /\ Http!DispatchAssumption /\ AnyRequest \in Http!HttpRequest
  /\ Bot!ProfileAssumption
  /\ Geo!GeoAssumption
  /\ Alerts!AlertAssumption

routerVars == <<routerPc, untried, handler, profile, instances, older, cache, history,
                dialogue, snapshot, answered, report, alone>>
httpVars == <<stage, request, login, matching, failed, recorded, captured, answer, made>>
botVars == <<calls, requests, exchanges, behaviors, level, metadata, captures>>
geoVars == <<located, since, current, queue, at, ip, held, nap, known, refused, excused>>
alertVars == <<pool, created, shut, items, running, caller, mine, tried, stopping, closing>>
sensorVars == <<part, vars, routerVars, httpVars, botVars, geoVars, alertVars>>

\* The face of a connection and the request are fixed while another part runs.
SensorInit ==
  /\ part \in {"connection", "router", "http", "profile", "geo", "alert"}
  /\ IF part = "http" THEN Http!Init ELSE Http!InitWith(AnyRequest)
  /\ Init
  /\ part = "connection" \/ (kind = "http" /\ ~internal)
  /\ Router!Init
  /\ Bot!Init
  /\ Geo!Init
  /\ Alerts!Init

InConn(A) == part = "connection" /\ A
  /\ UNCHANGED <<part, routerVars, httpVars, botVars, geoVars, alertVars>>
\* Of the two connections of one address, which differ in nothing, the one that
\* is served first is first1.
InRouter(A) == part = "router" /\ A
  /\ (routerPc'[first1] = "idle" => routerPc'[second1] = "idle")
  /\ UNCHANGED <<part, vars, httpVars, botVars, geoVars, alertVars>>
InHttp(A) == part = "http" /\ A
  /\ UNCHANGED <<part, vars, routerVars, botVars, geoVars, alertVars>>
InProfile(A) == part = "profile" /\ A
  /\ UNCHANGED <<part, vars, routerVars, httpVars, geoVars, alertVars>>
InGeo(A) == part = "geo" /\ A
  /\ UNCHANGED <<part, vars, routerVars, httpVars, botVars, alertVars>>
InAlert(A) == part = "alert" /\ A
  /\ UNCHANGED <<part, vars, routerVars, httpVars, botVars, geoVars>>

SensorNext ==
  \/ InConn(Next)
  \/ InRouter(Router!Next)
  \/ InHttp(Http!Next)
  \/ InProfile(Bot!Next)
  \/ InGeo(Geo!Next)
  \/ InAlert(Alerts!Next)

\* The thread of the connection runs, as in Spec.
SensorSpec == SensorInit /\ [][SensorNext]_sensorVars /\ WF_sensorVars(InConn(Step))

-----------------------------------------------------------------------------
SensorTypeOK ==
  /\ part = "connection" => TypeOK
  /\ part = "router" => Router!TypeOK
  /\ part = "http" => Http!TypeOK
  /\ part = "profile" => Bot!TypeOK
  /\ part = "geo" => Geo!TypeOK
  /\ part = "alert" => Alerts!TypeOK
\* The connection is the one that runs.
ThreadEnds == part = "connection" => Ends
NoForeignActivity == part = "router" => Router!NoForeignActivity
CacheIsLRU == part = "router" => Router!CacheIsLRU
AloneReportsItself == part = "router" => Router!AloneReportsItself
PolicyHolds == part = "http" => Http!PolicyHolds
OwnFaceAnswers == part = "http" => Http!OwnFaceAnswers
CaptureIsReported == part = "http" => Http!CaptureIsReported
LevelIsWorst == part = "profile" => Bot!LevelIsWorst
AttributedUnlessRefused == part = "geo" => Geo!AttributedUnlessRefused
AlertsKept == part = "alert" => Alerts!AlertsKept

AnswerIsReported == Router!AnswerIsReported
=============================================================================
