--------------------------- MODULE AdminServices ---------------------------
(***************************************************************************)
(* The faces of administration consoles and applications.                  *)
(***************************************************************************)
EXTENDS HttpRequests

TomcatRoutes ==
  RoutesOf("tomcat",
    {"/manager", "/manager/html", "/host-manager", "/host-manager/html", "/tomcat",
     "/server-status", "/server-info", "/jmxproxy", "/examples", "/root"},
    {"/manager/", "/host-manager/", "/tomcat/", "/jmxproxy/", "/examples/", "/root/"})

\* "manager/html" comes first, so that the host manager has no page of its own.
TomcatPage(q) == <<
  <<In(q, {"j_security_check"}) /\ Credentials(q), "failed">>,
  <<In(q, {"manager/html"}), "manager">>,
  <<In(q, {"server-status"}), "status">>,
  <<In(q, {"server-info"}), "info">>,
  <<In(q, {"examples"}), "examples">>,
  <<In(q, {"jmxproxy"}), "jmxproxy">>,
  <<TRUE, "root">> >>

\* The page that refuses a login has a dash that Latin-1 has not.
Tomcat(q) ==
  LET name == FirstOf(TomcatPage(q))
  IN  [Answer("tomcat", name, IF name = "failed" THEN Page(401, "text/html") ELSE Html)
         EXCEPT !.captured = name = "failed", !.raised = name = "failed"]

-----------------------------------------------------------------------------
JenkinsRoutes ==
  RoutesOf("jenkins",
    {"/jenkins", "/jenkins/login", "/jenkins/script", "/jenkins/manage", "/jenkins/api",
     "/jenkins/computer", "/jenkins/view", "/jenkins/job", "/hudson", "/hudson/login"},
    {"/jenkins/", "/hudson/"})

JenkinsPage(q) == <<
  <<(In(q, {"login"}) \/ Says(q, {"j_security_check"})) /\ Credentials(q), "failed">>,
  <<In(q, {"login"}), "login">>,
  <<In(q, {"manage"}), "manage">>,
  <<In(q, {"api"}), "api">>,
  <<In(q, {"computer"}), "computer">>,
  <<In(q, {"script"}), "script">>,
  <<In(q, {"job", "view"}), "job">>,
  <<TRUE, "main">> >>

Jenkins(q) ==
  LET name == FirstOf(JenkinsPage(q))
  IN  [Answer("jenkins", name, Html) EXCEPT !.captured = name = "failed"]

-----------------------------------------------------------------------------
CPanelRoutes ==
  RoutesOf("cpanel",
    {"/cpanel", "/cpanel/hotlinkprotect", "/whm", "/whm/login", "/webmail",
     "/webmail/login", "/mail", "/webdisk", "/cpsess", "/setup1", "/~"},
    {"/cpanel/", "/whm/", "/webmail/", "/mail/", "/webdisk/", "/setup1/"})

CPanelPage(q) == <<
  <<In(q, {"login", "cpsess"}) /\ Credentials(q), "failed">>,
  <<In(q, {"whm", "/setup"}), "whm_login">>,
  <<In(q, {"webmail"}), "webmail_login">>,
  <<TRUE, "login">> >>

CPanel(q) ==
  LET name == FirstOf(CPanelPage(q))
  IN  [Answer("cpanel", name, Html) EXCEPT !.captured = name = "failed"]

-----------------------------------------------------------------------------
GrafanaRoutes ==
  RoutesOf("grafana", {"/grafana", "/login", "/grafana/login", "/api/org"},
    {"/api/datasources", "/api/search", "/api/frontend", "/api/users", "/api/alerts",
     "/api/annotations", "/api/admin", "/api/login", "/api/auth", "/api/dashboards",
     "/api/teams", "/api/folders", "/api/plugins", "/api/prometheus",
     "/api/alertmanager", "/grafana/"})

GrafanaPage(q) == <<
  <<In(q, {"login"}) /\ Credentials(q), "failed">>,
  <<Is(q, {"/api/org"}), "org">>,
  <<Is(q, {"/api/dashboards/home", "/api/frontend/settings", "/api/search",
           "/api/datasources", "/api/health"}), "api">>,
  <<Starts(q, {"/api/"}), "not_found">>,
  <<TRUE, "login">> >>

Grafana(q) ==
  LET name == FirstOf(GrafanaPage(q))
  IN  [Answer("grafana", name, IF name \in {"failed", "login"} THEN Html ELSE Json) EXCEPT
         !.captured = name = "failed"]

-----------------------------------------------------------------------------
GitLabRoutes ==
  RoutesOf("gitlab", {"/users/sign_in", "/api/v4/version", "/-/metrics", "/admin"},
         {"/api/v4/", "/-/", "/gitlab/", "/explore", "/assets/"})

GitLabPage(q) == <<
  <<In(q, {"login", "sign_in"}) /\ Credentials(q), "failed">>,
  <<Is(q, {"/api/v4/version"}), "version">>,
  <<Is(q, {"/-/metrics"}), "metrics">>,
  <<Starts(q, {"/api/v4/"}), "api">>,
  <<Is(q, {"/admin"}), "admin">>,
  <<Starts(q, {"/explore"}), "explore">>,
  <<In(q, {"/grafana"}), "grafana">>,
  <<Starts(q, {"/gitlab/", "/assets/"}) /\ In(q, {"env"}), "environment">>,
  <<Starts(q, {"/gitlab/", "/assets/"}), "asset">>,
  <<TRUE, "sign_in">> >>

GitLab(q) ==
  LET name == FirstOf(GitLabPage(q))
      page == CASE name \in {"version", "api"} -> Json
                [] name \in {"metrics", "environment"} -> Text
                [] name = "asset" -> Page(200, "application/octet-stream")
                [] OTHER -> Html
  IN  [Answer("gitlab", name, page) EXCEPT !.captured = name = "failed"]

-----------------------------------------------------------------------------
SplunkRoutes ==
  RoutesOf("splunk",
    {"/en-us/", "/en-us/account/login", "/services/auth/login", "/services/search/jobs"},
    {"/servicesns/", "/api/"})

SplunkPage(q) == <<
  <<In(q, {"../", "..\\", "http://", "https://", "file://", "gopher://", "dict://"}), "probe">>,
  <<In(q, {"auth/login"}) /\ Credentials(q), "logged_in">>,
  <<Posts(q) /\ In(q, {"search/jobs"}), "jobs">>,
  <<Starts(q, {"/servicesns/"}), "services">>,
  <<Starts(q, {"/api/"}), "api">>,
  <<Is(q, {"/en-us/account/login"}), "login">>,
  <<TRUE, "landing">> >>

\* A probe of its vulnerability is recorded once more; json.dumps escapes what
\* it shows of the path.
Splunk(q) ==
  LET name == FirstOf(SplunkPage(q))
      page == CASE name \in {"login", "landing"} -> Html
                [] name = "jobs" -> Page(201, "application/json")
                [] OTHER -> Json
  IN  [Answer("splunk", name, page) EXCEPT
         !.captured = name = "logged_in",
         !.recorded = IF name = "probe" THEN 2 ELSE 1]

-----------------------------------------------------------------------------
ZabbixRoutes ==
  RoutesOf("zabbix", {"/zc", "/zabbix.php", "/api_jsonrpc.php", "/evox/about"}, {"/zabbix/"})

ZabbixPage(q) == <<
  <<(In(q, {"login", "auth"}) \/ Is(q, {"/zabbix.php", "/zc"})) /\ Credentials(q), "failed">>,
  <<Is(q, {"/api_jsonrpc.php"}), "jsonrpc">>,
  <<Is(q, {"/zabbix/favicon.ico"}), "icon">>,
  <<Is(q, {"/evox/about"}), "about">>,
  <<TRUE, "frontend">> >>

\* A JSON body that is not an object, as the list of a batch, has no "get".
Zabbix(q) ==
  LET name == FirstOf(ZabbixPage(q))
      page == CASE name = "jsonrpc" -> Json
                [] name = "icon" -> Page(200, "image/x-icon")
                [] OTHER -> Html
  IN  [Answer("zabbix", name, page) EXCEPT
         !.captured = name = "failed",
         !.raised = name = "jsonrpc" /\ "json_list" \in q.marks]

-----------------------------------------------------------------------------
RabbitMQRoutes ==
  RoutesOf("rabbitmq",
    {"/api/overview", "/api/whoami", "/api/queues", "/api/exchanges", "/api/connections",
     "/api/aliveness-test/%2f", "/", "/cli"},
    {"/api/", "/cli/", "/rabbitmq/"})

RabbitMQPage(q) == <<
  <<In(q, {"login", "auth", "signin", "sign-in", "session"}) /\ Credentials(q), "failed">>,
  <<Is(q, {"/api/overview", "/api/whoami", "/api/queues", "/api/exchanges",
           "/api/connections"}) \/ Starts(q, {"/api/aliveness-test/"}), "api">>,
  <<Starts(q, {"/api/"}), "index">>,
  <<Is(q, {"/_cluster", "/_nodes", "/_search", "/_cat"})
      \/ Starts(q, {"/_cluster/", "/_nodes/", "/_search/", "/_cat/"}), "api">>,
  <<Starts(q, {"/rabbitmq/"}) /\ Ends(q, {".env"}), "environment">>,
  <<Starts(q, {"/cli/"}), "cli">>,
  <<TRUE, "login">> >>

RabbitMQ(q) ==
  LET name == FirstOf(RabbitMQPage(q))
      page == CASE name \in {"api", "index"} -> Json
                [] name = "environment" -> Text
                [] OTHER -> Html
  IN  [Answer("rabbitmq", name, page) EXCEPT !.captured = name = "failed"]

-----------------------------------------------------------------------------
PlexRoutes ==
  RoutesOf("plex", {"/web", "/:32400/web", "/identity", "/status/sessions"},
         {"/myplex/", "/library/", "/plex/"})

PlexPage(q) == <<
  <<(In(q, {"login", "auth"}) \/ Starts(q, {"/myplex"})) /\ Credentials(q), "failed">>,
  <<Is(q, {"/web"}), "web">>,
  <<Is(q, {"/:32400/web", "/identity"}), "device">>,
  <<Is(q, {"/status/sessions"}), "sessions">>,
  <<Starts(q, {"/myplex/"}) \/ Is(q, {"/myplex"}), "account">>,
  <<Starts(q, {"/library/"}), "library">>,
  <<Is(q, {"/player"}), "player">>,
  <<Starts(q, {"/plex/"}), "environment">>,
  <<TRUE, "web">> >>

Plex(q) ==
  LET name == FirstOf(PlexPage(q))
      page == CASE name \in {"failed", "web"} -> Html
                [] name = "environment" -> Text
                [] OTHER -> Xml
  IN  [Answer("plex", name, page) EXCEPT !.captured = name = "failed"]

-----------------------------------------------------------------------------
JupyterRoutes ==
  RoutesOf("jupyter", {"/jupyter", "/login", "/lab", "/tree", "/api/contents"},
         {"/api/", "/jupyter/", "/notebook"})

JupyterPage(q) == <<
  <<In(q, {"login", "auth"}) /\ Credentials(q), "failed">>,
  <<Starts(q, {"/api/contents"}), "contents">>,
  <<Starts(q, {"/api/sessions"}), "sessions">>,
  <<Starts(q, {"/api"}), "api">>,
  <<TRUE, "login">> >>

Jupyter(q) ==
  LET name == FirstOf(JupyterPage(q))
  IN  [Answer("jupyter", name, IF name = "login" THEN Html ELSE Json) EXCEPT
         !.captured = name = "failed"]

-----------------------------------------------------------------------------
AtlassianRoutes ==
  RoutesOf("atlassian", {"/login", "/confluence", "/wiki", "/jira"},
         {"/rest/", "/atlassian/", "/secure/"})

AtlassianPage(q) == <<
  <<In(q, {"login", "auth"}) /\ Credentials(q), "failed">>,
  <<Starts(q, {"/rest/"}), "rest">>,
  <<Is(q, {"/atlassian/.env"}), "not_found">>,
  <<In(q, {"jira", "secure"}), "jira">>,
  <<TRUE, "confluence">> >>

\* Its lines end in the four characters "\r\n", so that what it sends is not
\* HTTP: no header has an end.
Atlassian(q) ==
  LET name == FirstOf(AtlassianPage(q))
      page == CASE name = "rest" -> Json
                [] name = "not_found" -> Page(404, "text/html")
                [] OTHER -> Html
  IN  [Answer("atlassian", name, page) EXCEPT !.captured = name = "failed"]

-----------------------------------------------------------------------------
WebDAVRoutes ==
  RoutesOf("webdav",
    {"/webdav", "/dav", "/remote.php", "/owncloud", "/caldav", "/carddav", "/web"},
    {"/webdav/", "/dav/", "/remote.php/", "/owncloud/", "/caldav/", "/carddav/", "/web/"})

\* The methods are WebDAV's own; a Content-Type of multipart form data or of
\* octets is the mark "upload".
WebDAVPage(q) == <<
  <<q.method = "PROPFIND", "propfind">>,
  <<q.method = "OPTIONS", "options">>,
  <<q.method = "MKCOL", "created">>,
  <<q.method = "DELETE", "deleted">>,
  <<q.method = "PUT", "stored">>,
  <<In(q, {"login", "auth"}) /\ Credentials(q), "failed">>,
  <<Posts(q) /\ "upload" \in q.marks, "stored">>,
  <<q.method \in {"HEAD", "PATCH", "COPY", "MOVE", "LOCK", "UNLOCK"}, "empty">>,
  <<q.method # "GET", "not_allowed">>,
  <<In(q, {"/server.php", "/index.php"}), "portal">>,
  <<In(q, {"/.htaccess", "/.htpasswd", "/config.php", "/setup.php"}), "forbidden">>,
  <<In(q, {"/admin/", "/login/", "/auth/"}), "login">>,
  <<TRUE, "listing">> >>

WebDAVPages ==
  [propfind |-> Page(207, "application/xml"), options |-> Page(200, "none"),
   created |-> Page(201, "none"), deleted |-> Page(204, "none"),
   stored |-> Page(201, "text/html"), failed |-> Page(401, "none"),
   empty |-> Page(200, "none"), portal |-> Html, forbidden |-> Page(403, "none"),
   login |-> Html, listing |-> Html]

\* Basic credentials are captured whatever the method; what is uploaded is
\* recorded once more. Bodies, which may show the path, are in UTF-8.
WebDAV(q) ==
  LET name == FirstOf(WebDAVPage(q))
  IN  [Answer("webdav", name, IF name = "not_allowed" THEN Page(405, "none")
                              ELSE WebDAVPages[name]) EXCEPT
         !.captured = name = "failed" \/ q.authorization = "basic",
         !.recorded = IF name = "stored" THEN 2 ELSE 1]

-----------------------------------------------------------------------------
DBAdminRoutes ==
  RoutesOf("dbadmin",
    {"/adminer", "/adminer.php", "/sqlbuddy", "/myadmin", "/phpmyadmin", "/dbadmin",
     "/db/%2eenv"},
    {"/dbadmin/", "/db/"})

DBAdminPage(q) == <<
  <<Ends(q, {".env"}) \/ In(q, {"/.env"}), "environment">>,
  <<In(q, {"login", "auth", "index.php", "dbadmin", "myadmin", "adminer"})
      /\ Credentials(q), "failed">>,
  <<TRUE, "login">> >>

DBAdmin(q) ==
  LET name == FirstOf(DBAdminPage(q))
  IN  [Answer("dbadmin", name, Html) EXCEPT !.captured = name = "failed"]

-----------------------------------------------------------------------------
LangflowRoutes ==
  RoutesOf("langflow",
    {"/login", "/api/v1/run", "/api/v1/flows", "/api/v1/validate", "/api/v1/upload"}, {})

LangflowPage(q) == <<
  <<Is(q, {"/login"}) /\ Credentials(q), "token">>,
  <<Is(q, {"/api/v1/run"}), "outputs">>,
  <<Is(q, {"/api/v1/flows"}), "flows">>,
  <<Is(q, {"/api/v1/validate"}), "valid">>,
  <<Is(q, {"/api/v1/upload"}), "file">>,
  <<TRUE, "login">> >>

Langflow(q) ==
  LET name == FirstOf(LangflowPage(q))
  IN  [Answer("langflow", name, IF name = "login" THEN Html ELSE Json) EXCEPT
         !.captured = Credentials(q) /\ name \in {"token", "outputs", "file"}]

-----------------------------------------------------------------------------
SolrRoutes ==
  RoutesOf("solr", {"/solr", "/solr/admin/cores", "/solr/admin/info/system"},
         {"/solr/", "/admin/"})

SolrPage(q) == <<
  <<In(q, {"login", "auth"}) /\ Credentials(q), "failed">>,
  <<Ends(q, {"/admin/cores"}), "cores">>,
  <<Ends(q, {"/admin/info/system"}), "system">>,
  <<In(q, {"authentication"}), "authentication">>,
  <<In(q, {"/solr/collection1/select"}) \/ Ends(q, {"/select"}), "select">>,
  <<TRUE, "admin">> >>

Solr(q) ==
  LET name == FirstOf(SolrPage(q))
  IN  [Answer("solr", name, IF name \in {"failed", "admin"} THEN Html ELSE Json) EXCEPT
         !.captured = name = "failed"]

-----------------------------------------------------------------------------
RedisAdminRoutes ==
  RoutesOf("redis_admin", {"/redis-commander", "/redis-insight", "/api/config"},
         {"/api/", "/admin/", "/redis/"})

RedisAdminPage(q) == <<
  <<In(q, {"login", "auth"}) /\ Credentials(q), "failed">>,
  <<Is(q, {"/api/config"}), "config">>,
  <<Starts(q, {"/api/"}), "api">>,
  <<Starts(q, {"/admin/"}), "admin">>,
  <<TRUE, "main">> >>

\* json.dumps escapes what the api page shows of the path.
RedisAdmin(q) ==
  LET name == FirstOf(RedisAdminPage(q))
  IN  [Answer("redis_admin", name, IF name \in {"config", "api"} THEN Json ELSE Html)
         EXCEPT !.captured = name = "failed"]
=============================================================================
