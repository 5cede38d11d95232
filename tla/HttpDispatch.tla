---------------------------- MODULE HttpDispatch ----------------------------
(***************************************************************************)
(* One HTTP request from process_request to its report: the credentials it *)
(* posts are extracted, the router tries the routes that match the decoded *)
(* path in the order of the table until a handler answers, the fallback    *)
(* answers if none did, and the report is made.  A handler that raises has *)
(* recorded the request and captured credentials by then, and what it has  *)
(* done stays.                                                             *)
(*                                                                         *)
(* The routes of a service stand together in the table (Elastic's in two   *)
(* places), and its handler is a function of the request, so a table of    *)
(* routes is tried as one; each of its matching routes has an instance of  *)
(* its own, which a raising handler goes through one by one.               *)
(***************************************************************************)
EXTENDS CmsServices, AdminServices, InfraServices, ProbeServices, FiniteSetsExt

CONSTANTS
  OtherPaths, \* the paths asked for besides those of the route table
  Senders,    \* what the requests are like apart from their path
  NoAnswer

VARIABLES
  stage,     \* "dispatch", "respond" or "reported"
  request,
  login,     \* login_creds: credentials were extracted from the request
  untried,   \* the tables with matching routes that have not been tried
  failed,    \* the services whose handlers raised
  recorded,  \* how often the request is in the profile of each service
  captured,  \* the services that captured credentials
  answer,    \* the service, the name and the page of the answer
  report     \* the login, the service and the profiles of the report

vars == <<stage, request, login, untried, failed, recorded, captured, answer, report>>

-----------------------------------------------------------------------------
(***************************************************************************)
(* The route table: which face wins is its order.                          *)
(***************************************************************************)
ExploitTables ==
  <<ExploitCgiRoutes, PhpUnitRoutes, GrafanaRoutes, EnvDiscRoutes, LangflowRoutes,
    KubernetesRoutes, NextjsRoutes>>
FrameworkTables ==
  <<WordPressRoutes, PhpMyAdminRoutes, JenkinsRoutes, TomcatRoutes, DrupalRoutes,
    CPanelRoutes, BitrixRoutes, WebDAVRoutes, ConfigDisclosureRoutes, DBAdminRoutes,
    DockerRoutes, McpRoutes, IotRoutes, NginxProbeRoutes, AtlassianRoutes, SpringRoutes,
    AwsRoutes, HnapRoutes, SquidRoutes, MagentoRoutes, RedisAdminRoutes, SolrRoutes,
    PlexRoutes, JupyterRoutes, RabbitMQRoutes, GitLabRoutes, ElasticRootRoutes,
    ZabbixRoutes, LaravelRoutes, ThinkPHPRoutes, ElasticRoutes, NginxRoutes>>
LateTables ==
  <<JoomlaRoutes, ColdFusionRoutes, FortinetRoutes, CitrixRoutes, SharePointRoutes,
    SplunkRoutes>>
LastTables ==
  <<RoutesOf("random_path", {}, {}), RoutesOf("fingerprint_probe", {"/favicon.ico"}, {}),
    RoutesOf("generic", {}, {""})>>
TablesFrameworksFirst == FrameworkTables \o ExploitTables \o LateTables \o LastTables
Tables == ExploitTables \o FrameworkTables \o LateTables \o LastTables

\* How many routes of a table match: PathExact, PathPrefix, HighEntropyPath
\* and Any.
PrefixesOf(path) == {SubSeq(path, 1, n) : n \in 0 .. Len(path)}
Matches(table, q) ==
  IF table.service = "random_path" THEN (IF IsRandomProbe(q) THEN 1 ELSE 0)
  ELSE Cardinality(table.prefixes \cap PrefixesOf(Path(q)))
       + Cardinality(table.exact \cap {Path(q)})

\* A table scoped to ports is for requests on those, or on no known port.
Scoped(table, q) == table.ports # {} /\ q.port # 0 /\ q.port \notin table.ports
Matching(q) == {i \in DOMAIN Tables : ~Scoped(Tables[i], q) /\ Matches(Tables[i], q) > 0}

\* Every path of the table, and others, from every kind of sender.
Asked == UNION {t.exact \cup t.prefixes : t \in {Tables[i] : i \in DOMAIN Tables}} \ {""}
Requests == {s @@ [path |-> p] : s \in Senders, p \in Asked \cup OtherPaths}

DispatchAssumption == Requests \subseteq HttpRequest

Handle(service, q) ==
  CASE service = "exploit_cgi" -> ExploitCgi(q)
    [] service = "phpunit" -> PhpUnit(q)
    [] service = "grafana" -> Grafana(q)
    [] service = "env_disc" -> EnvDisc(q)
    [] service = "langflow" -> Langflow(q)
    [] service = "kubernetes" -> Kubernetes(q)
    [] service = "nextjs" -> Nextjs(q)
    [] service = "wordpress" -> WordPress(q)
    [] service = "phpmyadmin" -> PhpMyAdmin(q)
    [] service = "jenkins" -> Jenkins(q)
    [] service = "tomcat" -> Tomcat(q)
    [] service = "drupal" -> Drupal(q)
    [] service = "cpanel" -> CPanel(q)
    [] service = "bitrix" -> Bitrix(q)
    [] service = "webdav" -> WebDAV(q)
    [] service = "config_disclosure" -> ConfigDisclosure(q)
    [] service = "dbadmin" -> DBAdmin(q)
    [] service = "docker" -> Docker(q)
    [] service = "mcp" -> Mcp(q)
    [] service = "iot" -> Iot(q)
    [] service = "nginx_probe" -> NginxProbe(q)
    [] service = "atlassian" -> Atlassian(q)
    [] service = "spring" -> Spring(q)
    [] service = "aws_creds" -> Aws(q)
    [] service = "hnap" -> Hnap(q)
    [] service = "squid" -> Squid(q)
    [] service = "magento" -> Magento(q)
    [] service = "redis_admin" -> RedisAdmin(q)
    [] service = "solr" -> Solr(q)
    [] service = "plex" -> Plex(q)
    [] service = "jupyter" -> Jupyter(q)
    [] service = "rabbitmq" -> RabbitMQ(q)
    [] service = "gitlab" -> GitLab(q)
    [] service = "elastic" -> Elastic(q)
    [] service = "zabbix" -> Zabbix(q)
    [] service = "laravel" -> Laravel(q)
    [] service = "thinkphp" -> ThinkPHP(q)
    [] service = "nginx" -> Nginx(q)
    [] service = "joomla" -> Joomla(q)
    [] service = "coldfusion" -> ColdFusion(q)
    [] service = "fortinet" -> Fortinet(q)
    [] service = "citrix" -> Citrix(q)
    [] service = "sharepoint" -> SharePoint(q)
    [] service = "splunk" -> Splunk(q)
    [] service \in {"random_path", "fingerprint_probe"} -> NotFound(q)
    [] service = "generic" -> Generic(q)

-----------------------------------------------------------------------------
\* The services that the table names.
Services ==
  {"exploit_cgi", "phpunit", "grafana", "env_disc", "langflow", "kubernetes", "nextjs",
   "wordpress", "phpmyadmin", "jenkins", "tomcat", "drupal", "cpanel", "bitrix",
   "webdav", "config_disclosure", "dbadmin", "docker", "mcp", "iot", "nginx_probe",
   "atlassian", "spring", "aws_creds", "hnap", "squid", "magento", "redis_admin",
   "solr", "plex", "jupyter", "rabbitmq", "gitlab", "elastic", "zabbix", "laravel",
   "thinkphp", "nginx", "joomla", "coldfusion", "fortinet", "citrix", "sharepoint",
   "splunk", "generic", "random_path", "fingerprint_probe"}

\* An answer is what a service made of the request, or the fallback page, with
\* the path as it was sent, which is in Latin-1.
AnswerOf(outcome) ==
  [service |-> outcome.service, name |-> outcome.name, page |-> outcome.page]
Fallback == [service |-> "none", name |-> "fallback", page |-> Html]
IsAnswer(a) ==
  a = Fallback \/ (a.service \in Services /\ a = AnswerOf(Handle(a.service, request)))

Reported == [login: BOOLEAN, service: Services \cup {"none"}, profiles: SUBSET Services]

TypeOK ==
  /\ stage \in {"received", "dispatch", "respond", "reported"}
  /\ request \in HttpRequest
  /\ login \in BOOLEAN
  /\ untried \subseteq DOMAIN Tables
  /\ failed \in Seq(Services)
  /\ DOMAIN recorded \subseteq Services /\ \A s \in DOMAIN recorded : recorded[s] \in Nat
  /\ captured \subseteq Services
  /\ answer = NoAnswer \/ IsAnswer(answer)
  /\ report = NoAnswer \/ report \in Reported

InitWith(q) ==
  /\ stage = "received"
  /\ request = q
  /\ login = FALSE
  /\ untried = {}
  /\ failed = <<>>
  /\ recorded = <<>>
  /\ captured = {}
  /\ answer = NoAnswer
  /\ report = NoAnswer

Init == \E q \in Requests : InitWith(q)

LoginIfBoth(q) == Posts(q) /\ Has(q, USERNAME_FIELDS) /\ Has(q, PASSWORD_FIELDS)
\* process_request extracts the credentials on its own, before the dispatch: a
\* name or a password will do.
Login(q) == Credentials(q)

Extract ==
  /\ stage = "received"
  /\ stage' = "dispatch"
  /\ login' = Login(request)
  /\ untried' = Matching(request)
  /\ UNCHANGED <<request, failed, recorded, captured, answer, report>>

\* The handler of the next matching route has looked at the request.
Look(i, outcome, times) ==
  /\ untried' = untried \ {i}
  /\ recorded' = [s \in DOMAIN recorded \cup {outcome.service} |->
                    IF s = outcome.service THEN times * outcome.recorded ELSE recorded[s]]
  /\ captured' = IF outcome.captured THEN captured \cup {outcome.service} ELSE captured

\* It answers, and the dispatch ends ...
HandlerAnswers ==
  /\ stage = "dispatch"
  /\ untried # {}
  /\ LET i == Min(untried)
         outcome == Handle(Tables[i].service, request)
     IN  /\ ~outcome.raised
         /\ Look(i, outcome, 1)
         /\ answer' = AnswerOf(outcome)
  /\ stage' = "respond"
  /\ UNCHANGED <<request, login, failed, report>>

\* ... or it raises, as it does on each matching route of its table, and the
\* dispatch goes on.
HandlerRaises ==
  /\ stage = "dispatch"
  /\ untried # {}
  /\ LET i == Min(untried)
         outcome == Handle(Tables[i].service, request)
     IN  /\ outcome.raised
         /\ Look(i, outcome, Matches(Tables[i], request))
         /\ failed' = Append(failed, outcome.service)
  /\ UNCHANGED <<stage, request, login, answer, report>>

\* No route is left.
FallBack ==
  /\ stage = "dispatch"
  /\ untried = {}
  /\ stage' = "respond"
  /\ answer' = Fallback
  /\ UNCHANGED <<request, login, untried, failed, recorded, captured, report>>

\* The report has the profiles of every handler that looked at the request.
Report ==
  /\ stage = "respond"
  /\ stage' = "reported"
  /\ report' = [login |-> login, service |-> answer.service, profiles |-> DOMAIN recorded]
  /\ UNCHANGED <<request, login, untried, failed, recorded, captured, answer>>

Done == stage = "reported" /\ UNCHANGED vars

Next == Extract \/ HandlerAnswers \/ HandlerRaises \/ FallBack \/ Report \/ Done
Spec == Init /\ [][Next]_vars

-----------------------------------------------------------------------------
(***************************************************************************)
(* Whose probes are whose, as the comments of the route table say.         *)
(***************************************************************************)
PrefixPolicy ==
  {<<"/cgi-bin/", "exploit_cgi">>, <<"/admin/vendor/phpunit/", "phpunit">>,
   <<"/api/vendor/phpunit/", "phpunit">>, <<"/laravel/vendor/phpunit/", "phpunit">>,
   <<"/admin/.env", "env_disc">>, <<"/api/datasources", "grafana">>,
   <<"/api/route", "nextjs">>, <<"/_next/", "nextjs">>,
   <<"/api/v1/", "kubernetes">>, <<"/apis/", "kubernetes">>, <<"/mysql/", "phpmyadmin">>,
   <<"/files/", "drupal">>}
ExactPolicy ==
  [p \in {"/api/v1/run", "/api/v1/flows", "/api/v1/validate", "/api/v1/upload"} |-> "langflow"]
  @@ ("/xmlrpc.php" :> "wordpress") @@ ("/.env" :> "config_disclosure")
  @@ ("/_next" :> "nextjs") @@ ("/mysql" :> "phpmyadmin") @@ ("/files" :> "drupal")

\* The first service to look at the request.
FirstFace == IF failed # <<>> THEN Head(failed) ELSE answer.service

Answered == stage \in {"respond", "reported"}

\* Elastic is met on its own ports only.
ElasticOnItsPorts ==
  Answered /\ FirstFace = "elastic" => request.port \in {0, 9200, 15672}

(***************************************************************************)
(* The dispatch policy: a probe the comments of the route table give to a  *)
(* face is looked at by that face first, whatever tables stand before it;  *)
(* Elastic is met on its own ports only; and what only a scanner would ask *)
(* for is never answered with 200.                                         *)
(***************************************************************************)
PolicyHolds ==
  /\ ElasticOnItsPorts
  /\ Answered =>
       /\ Path(request) \in DOMAIN ExactPolicy => FirstFace = ExactPolicy[Path(request)]
       /\ \A owned \in PrefixPolicy :
            StartsWith(Path(request), owned[1]) /\ Path(request) \notin DOMAIN ExactPolicy
              => FirstFace = owned[2]
       /\ IsRandomProbe(request) => answer.page.status = 404

(***************************************************************************)
(* A request is answered by the face that looked at it first, unless its   *)
(* path ends with a character that ISO-8859-1 has not, it is a batch of    *)
(* JSON-RPC or a login to Tomcat: of all handlers, for all requests, only  *)
(* these make one raise.                                                   *)
(***************************************************************************)
OwnFaceAnswers ==
  Answered => \/ answer.service = FirstFace
              \/ Wide(request)
              \/ "json_list" \in request.marks
              \/ In(request, {"j_security_check"})

(***************************************************************************)
(* Credentials that a handler captured are also the login of the report,   *)
(* though the two are extracted apart, unless they were in a header or     *)
(* under the field names of one product.                                   *)
(***************************************************************************)
CaptureIsReported ==
  stage = "reported" /\ captured # {} =>
    \/ report.login
    \/ request.authorization = "basic"
    \/ captured \subseteq {"magento", "coldfusion"}
=============================================================================
