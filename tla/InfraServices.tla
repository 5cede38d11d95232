--------------------------- MODULE InfraServices ---------------------------
(***************************************************************************)
(* The faces of infrastructure: container platforms, search engines,       *)
(* proxies and web servers, gateways and devices.                          *)
(***************************************************************************)
EXTENDS HttpRequests

DockerRoutes ==
  RoutesOf("docker", {"/v2/", "/v2/_catalog", "/version", "/info"},
         {"/v2/", "/containers/", "/docker/"})

\* The engine answers only a client that looks like Docker: its User-Agent or
\* the header Docker-Distribution-Api-Version is the mark "docker".
DockerPage(q) == <<
  <<In(q, {"login", "auth", "token"}) /\ Credentials(q), "failed">>,
  <<Is(q, {"/v2", "/v2/"}), "ping">>,
  <<Is(q, {"/v2/_catalog"}), "catalog">>,
  <<Starts(q, {"/v2/"}) /\ Ends(q, {"/tags/list"}), "tags">>,
  <<Starts(q, {"/v2/"}), "no_manifest">>,
  <<Is(q, {"/info", "/_info", "/version", "/_version", "/containers/json", "/containers"}),
    IF "docker" \in q.marks THEN "engine" ELSE "not_docker">>,
  <<Ends(q, {".env"}), "environment">>,
  <<TRUE, "ping">> >>

Docker(q) ==
  LET name == FirstOf(DockerPage(q))
      page == CASE name \in {"no_manifest", "not_docker"} -> Page(404, "application/json")
                [] name = "environment" -> Text
                [] name = "failed" -> Html
                [] OTHER -> Json
  IN  [Answer("docker", name, page) EXCEPT !.captured = name = "failed"]

-----------------------------------------------------------------------------
KubernetesRoutes ==
  RoutesOf("kubernetes",
    {"/api", "/api/v1", "/api/v1/namespaces", "/healthz", "/readyz", "/apis", "/dashboard"},
    {"/api/v1/", "/apis/", "/kubernetes/"})

KubernetesPage(q) == <<
  <<Credentials(q), "failed">>,
  <<Is(q, {"/"}), "discovery">>,
  <<Is(q, {"/api"}), "versions">>,
  <<Is(q, {"/apis"}), "groups">>,
  <<Is(q, {"/healthz", "/readyz"}), "health">>,
  <<Is(q, {"/dashboard"}), "dashboard">>,
  <<Starts(q, {"/kubernetes/"}), "error">>,
  <<Is(q, {"/api/v1"}) \/ Starts(q, {"/api/v1/"}),
    IF q.authorization # "none" THEN "resources" ELSE "forbidden">>,
  <<TRUE, "not_found">> >>

KubernetesPages ==
  [failed |-> Html, discovery |-> Json, versions |-> Json, groups |-> Json,
   health |-> Text, dashboard |-> Html, error |-> Html, resources |-> Json,
   forbidden |-> Page(403, "application/json")]

Kubernetes(q) ==
  LET name == FirstOf(KubernetesPage(q))
  IN  [Answer("kubernetes", name, IF name = "not_found" THEN Page(404, "application/json")
                                  ELSE KubernetesPages[name]) EXCEPT
         !.captured = name = "failed"]

-----------------------------------------------------------------------------
\* Two tables; all are scoped to the ports of Elasticsearch.
ElasticPorts == {9200, 15672}

ElasticRootRoutes ==
  [RoutesOf("elastic", {"/", "/_cat", "/_search", "/_cluster", "/_nodes", "/query"},
     {"/_cat/", "/_cluster/", "/_nodes/", "/_search/", "/_xpack/", "/_snapshot/",
      "/_license/", "/_sql/", "/_bulk/", "/_plugin/", "/kibana", "/elasticsearch/",
      "/elastic/"}) EXCEPT !.ports = ElasticPorts]

ElasticRoutes ==
  [RoutesOf("elastic",
     {"/_cat", "/_cluster/health", "/_nodes", "/_search", "/_xpack", "/_snapshot",
      "/_license", "/kibana", "/app/kibana", "/_plugin/head", "/_sql", "/_bulk",
      "/_aliases", "/_stats", "/_status", "/_mapping", "/_all", "/elasticsearch/.env",
      "/elastic/.env"},
     {"/_cat/", "/_cluster/", "/_nodes/", "/_search/", "/_xpack/", "/_snapshot/",
      "/_license/", "/_sql/", "/_bulk/", "/_aliases/", "/_stats/", "/_status/",
      "/_mapping/", "/_all/", "/_plugin/", "/kibana", "/elastic"})
     EXCEPT !.ports = ElasticPorts]

ElasticPage(q) == <<
  <<In(q, {"login", "auth", "_security", "kibana"}) /\ Credentials(q), "failed">>,
  <<Is(q, {"/_cat", "/_cat/"}), "cat">>,
  <<Starts(q, {"/_cluster/health"}), "health">>,
  <<Starts(q, {"/_cluster"}), "cluster">>,
  <<Starts(q, {"/_nodes"}), "nodes">>,
  <<Starts(q, {"/_search"}), "search">>,
  <<Starts(q, {"/_xpack"}), "xpack">>,
  <<Starts(q, {"/_snapshot"}), "snapshot">>,
  <<Starts(q, {"/_license"}), "license">>,
  <<Starts(q, {"/_sql"}), "sql">>,
  <<Starts(q, {"/_bulk"}), "bulk">>,
  <<Starts(q, {"/_aliases"}), "aliases">>,
  <<Is(q, {"/_stats", "/_status"}) \/ Starts(q, {"/_stats/", "/_status/"}), "stats">>,
  <<In(q, {"/_mapping"}) \/ Starts(q, {"/_all"}), "mapping">>,
  <<Starts(q, {"/_plugin/head"}), "head">>,
  <<Starts(q, {"/elasticsearch/", "/elastic/"}) /\ Ends(q, {".env"}), "environment">>,
  <<In(q, {"kibana"}), "kibana">>,
  <<TRUE, "root">> >>

Elastic(q) ==
  LET name == FirstOf(ElasticPage(q))
      page == CASE name = "failed" -> Page(401, "application/json")
                [] name \in {"head", "kibana"} -> Html
                [] OTHER -> Json
  IN  [Answer("elastic", name, page) EXCEPT !.captured = name = "failed"]

-----------------------------------------------------------------------------
McpRoutes == RoutesOf("mcp", {"/mcp", "/sse"}, {})

\* What a call is, if the body is JSON: "json_list", a method that is not a
\* text, or the name of a method.
McpPage(q) == <<
  <<q.method = "GET" /\ Is(q, {"/sse"}), "stream">>,
  <<~Is(q, {"/mcp"}), "no_method">>,
  <<~Posts(q), "use_post">>,
  <<"json_list" \in q.marks, "invalid">>,
  <<"json_call" \notin q.marks, "parse_error">>,
  <<TRUE, "result">> >>

Mcp(q) ==
  LET name == FirstOf(McpPage(q))
  IN  Answer("mcp", name, IF name = "stream" THEN Page(200, "text/event-stream") ELSE Json)

-----------------------------------------------------------------------------
CitrixRoutes ==
  RoutesOf("citrix", {"/vpn/index.html", "/cgi/login"},
         {"/nf/", "/logon/", "/pcidss/", "/oauth", "/saml"})

CitrixPage(q) == <<
  <<Starts(q, {"/pcidss/", "/oauth", "/saml", "/cgi/oauth"}), "probe">>,
  <<In(q, {"/cgi/login", "/nf/auth", "/logon"}) /\ Posts(q),
    IF Credentials(q) THEN "logged_in" ELSE "failed">>,
  <<Is(q, {"/vpn/index.html"}), "vpn">>,
  <<In(q, {"/cgi/login"}), "login">>,
  <<In(q, {"/nf/auth"}) \/ Starts(q, {"/nf/"}), "auth">>,
  <<In(q, {"/logon/logonpoint"}) \/ Starts(q, {"/logon/"}), "logon_point">>,
  <<TRUE, "vpn">> >>

Citrix(q) ==
  LET name == FirstOf(CitrixPage(q))
  IN  [Answer("citrix", name,
              IF name = "logged_in" THEN Page(302, "text/html") ELSE Html) EXCEPT
         !.captured = name = "logged_in"]

-----------------------------------------------------------------------------
FortinetRoutes ==
  RoutesOf("fortinet", {"/remote/login", "/remote/logincheck", "/remote/logout", "/jsonrpc"},
         {"/api/v2/"})

FortinetPage(q) == <<
  <<Is(q, {"/remote/logincheck"}) /\ Posts(q),
    IF Credentials(q) THEN "logged_in" ELSE "failed">>,
  <<Is(q, {"/remote/logout"}), "logout">>,
  <<Is(q, {"/jsonrpc"}) /\ Posts(q), "jsonrpc">>,
  <<Starts(q, {"/api/v2/"}), "api">>,
  <<TRUE, "login">> >>

Fortinet(q) ==
  LET name == FirstOf(FortinetPage(q))
  IN  [Answer("fortinet", name, IF name \in {"jsonrpc", "api"} THEN Json ELSE Html) EXCEPT
         !.captured = name = "logged_in"]

-----------------------------------------------------------------------------
HnapRoutes ==
  RoutesOf("hnap", {"/hnap1", "/hnap1/", "/cgi-bin/hnap1", "/privatehnap"}, {"/hnap1/"})

\* A login is told by the path, by a SOAPAction or by the body: "<login".
HnapPage(q) == <<
  <<Posts(q) /\ (In(q, {"login", "auth"}) \/ "soap_login" \in q.marks), "failed">>,
  <<Is(q, {"/"}), "router">>,
  <<TRUE, "device">> >>

Hnap(q) ==
  LET name == FirstOf(HnapPage(q))
  IN  [Answer("hnap", name, IF name = "router" THEN Html ELSE Xml) EXCEPT
         !.captured = name = "failed" /\ Credentials(q)]

-----------------------------------------------------------------------------
IotRoutes == RoutesOf("iot", {"/admin", "/login", "/index.html"}, {"/cgi-bin/", "/upnp/", "/iot/"})

IotPage(q) == <<
  <<In(q, {"login", "auth"}) /\ Credentials(q), "failed">>,
  <<In(q, {"/upnp/"}), "upnp">>,
  <<In(q, {"/cgi-bin/"}), "cgi">>,
  <<In(q, {"/iot/"}), "environment">>,
  <<TRUE, "login">> >>

Iot(q) ==
  LET name == FirstOf(IotPage(q))
      page == CASE name = "upnp" -> Xml [] name = "environment" -> Text [] OTHER -> Html
  IN  [Answer("iot", name, page) EXCEPT !.captured = name = "failed"]

-----------------------------------------------------------------------------
SquidRoutes ==
  RoutesOf("squid",
    {"/squid-internal-mgr/", "/squid-internal-mgr/menu", "/squid-internal-mgr/info",
     "/cachemgr.cgi"},
    {"/squid-internal-mgr/", "/mgr/", "/cgi-bin/"})

SquidPage(q) == <<
  <<Credentials(q), "failed">>,
  <<Ends(q, {"/info"}) \/ In(q, {"/mgr/info"}), "info">>,
  <<TRUE, "menu">> >>

\* The menu shows, in Latin-1, what follows a "?" that was sent as %3f.
Squid(q) ==
  LET name == FirstOf(SquidPage(q))
  IN  [Answer("squid", name, IF name = "info" THEN Text ELSE Html) EXCEPT
         !.captured = name = "failed",
         !.raised = name = "menu" /\ In(q, {"?"}) /\ Unencodable(q)]

-----------------------------------------------------------------------------
NginxRoutes ==
  RoutesOf("nginx", {"/index.html", "/nginx_status", "/server-status"}, {"/api/", "/nginx/"})

NginxPage(q) == <<
  <<In(q, {"login", "auth"}) /\ Credentials(q), "failed">>,
  <<Is(q, {"/nginx_status", "/stub_status", "/status"}), "status">>,
  <<Is(q, {"/server-status"}), "server_status">>,
  <<Starts(q, {"/api/"}), "api">>,
  <<Starts(q, {"/nginx/"}), "probe">>,
  <<TRUE, "welcome">> >>

Nginx(q) ==
  LET name == FirstOf(NginxPage(q))
  IN  [Answer("nginx", name, Html) EXCEPT !.captured = name = "failed"]

-----------------------------------------------------------------------------
\* Three faces of one page each, that differ in their routes; what they send
\* is not HTTP, as of Atlassian.
OnePage(service, q) ==
  LET name == IF In(q, {"login", "auth"}) /\ Credentials(q) THEN "failed" ELSE "main"
  IN  [Answer(service, name, Html) EXCEPT !.captured = name = "failed"]

NginxProbeRoutes ==
  RoutesOf("nginx_probe", {"/nginx_status", "/server-status", "/stub_status", "/status"}, {})
NginxProbe(q) == OnePage("nginx_probe", q)

SpringRoutes ==
  RoutesOf("spring", {"/actuator", "/actuator/health", "/api/env"},
         {"/actuator/health/", "/api/env/"})
Spring(q) == OnePage("spring", q)

AwsRoutes ==
  RoutesOf("aws_creds", {"/.aws/credentials", "/aws/credentials", "/.env.aws"},
         {"/.aws/credentials/", "/aws/credentials/"})
Aws(q) == OnePage("aws_creds", q)
=============================================================================
