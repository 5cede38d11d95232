--------------------------- MODULE ProbeServices ---------------------------
(***************************************************************************)
(* The faces that answer exploit probes and probes for disclosed files,    *)
(* the 404 for what only a scanner asks for, and the catch-all.            *)
(***************************************************************************)
EXTENDS HttpRequests, TLC

CgiNames ==
  {"/hndunblock.cgi", "/tmunblock.cgi", "/sysinfo.cgi", "/setup.cgi", "/apply.cgi",
   "/login.cgi", "/diag.cgi"}

ExploitCgiRoutes ==
  RoutesOf("exploit_cgi", {"/cgi-bin"}, CgiNames \cup {"/index.php", "/cgi-bin/"})

\* The markers of file inclusion are looked for in the whole request.
ExploitCgiPage(q) == <<
  <<In(q, CgiNames), "router">>,
  <<In(q, {"/index.php"}) /\ Says(q, {"pearcmd", "config-create", "etc/passwd",
                                      ".git/config", "../", "..%2f", "..%5c"}), "error">>,
  <<TRUE, "index">> >>

ExploitCgi(q) ==
  LET name == FirstOf(ExploitCgiPage(q))
  IN  Answer("exploit_cgi", name, IF name = "error" THEN Page(404, "text/html") ELSE Html)

-----------------------------------------------------------------------------
PhpUnitRoots ==
  {"", "/admin", "/www", "/yii", "/laravel", "/app", "/cms", "/lib", "/panel", "/public",
   "/ws", "/demo", "/testing", "/tests", "/apps", "/backup", "/v2", "/blog", "/api",
   "/zend", "/workspace", "/crm", "/vercel"}

PhpUnitRoutes ==
  RoutesOf("phpunit", {"/phpunit"},
         {"/phpunit/", "/lib/phpunit/"} \cup {r \o "/vendor/phpunit/" : r \in PhpUnitRoots})

PhpUnitPage(q) == IF In(q, {"eval-stdin.php"}) THEN "executed" ELSE "ui"

\* An execution is recorded once more.
PhpUnit(q) ==
  LET name == PhpUnitPage(q)
  IN  [Answer("phpunit", name, Html) EXCEPT !.recorded = IF name = "executed" THEN 2 ELSE 1]

-----------------------------------------------------------------------------
EnvDiscRoutes ==
  RoutesOf("env_disc",
    {"/env", "/config.env", "/.env.example", "/configuration", "/admin/.env",
     "/admin/phpinfo.php", "/admin/settings.json"},
    {"/env/", "/admin/.env", "/admin/phpinfo", "/admin/database", "/admin/debug",
     "/api/.env", "/api/.git", "/api/wp-config", "/api/phpinfo", "/api/email",
     "/api/secrets", "/api/config", "/api/settings", "/api/database", "/api/debug",
     "/api/admin", "/api/sql", "/api/json", "/api/xmlrpc", "/api/web.config", "/api/.ht",
     "/api/composer", "/api/package", "/api/redis", "/api/php.ini"})

EnvDiscPage(q) == <<
  <<Posts(q), "failed">>,
  <<Is(q, {"/config.env", "/.env.example"}) \/ Ends(q, {"/.env"}), "environment">>,
  <<TRUE, "config">> >>

EnvDisc(q) ==
  LET name == FirstOf(EnvDiscPage(q))
  IN  [Answer("env_disc", name, IF name = "environment" THEN Text ELSE Html) EXCEPT
         !.captured = Credentials(q)]

-----------------------------------------------------------------------------
(***************************************************************************)
(* The disclosed files: the path of each, in the order of the route table, *)
(* with the body its handler builds and the media type it gives.           *)
(***************************************************************************)
Served(paths, body, media) == [p \in paths |-> [body |-> body, media |-> media]]
Php(paths, body) == Served(paths, body, "application/x-httpd-php")
Yaml(paths, body) == Served(paths, body, "text/x-yaml")
JsonFile(paths, body) == Served(paths, body, "application/json")
Plain(paths, body) == Served(paths, body, "text/plain")
WithBackup(path) == {path, path \o ".bak"}

CmsFiles ==
  Php(WithBackup("/wp-config.php") \cup {"/wp-config.php.old", "/wp-config.php.dist",
                                         "/wp-config.php.txt"}, "wp_config_php")
  @@ Php({"/config.php", "/configuration.php"}, "config_php")
  @@ Php({"/config.php.bak", "/config.php.old", "/configuration.php.bak"}, "generic_php")
  @@ Served(WithBackup("/settings.py") \cup {"/settings.py.old"}, "settings_py",
            "text/x-python")
  @@ Yaml(WithBackup("/database.yml"), "database_yml")
  @@ JsonFile({"/config.json"}, "config_json")
  @@ JsonFile({"/config.json.bak"}, "generic_json")
  @@ Plain(WithBackup("/.env") \cup {"/.env.local", "/.env.prod", "/.env.example",
                                     "/.env.sample"}, "env_file")
  @@ Plain(WithBackup("/.htaccess") \cup {"/.htaccess.old"}, "htaccess_file")
  @@ Plain(WithBackup("/.htpasswd"), "htpasswd_file")

\* The name of the route of /db.php.bak is that of a later one, of /db.sql.bak.
AppFiles ==
  Php(WithBackup("/xmlrpc.php"), "xmlrpc_php")
  @@ Served(WithBackup("/web.config"), "web_config", "application/xml")
  @@ Php(WithBackup("/conf.php") \cup {"/db.php"}, "generic_php")
  @@ Served({"/db.php.bak"}, "sql_dump", "application/sql")
  @@ Php(WithBackup("/local.php"), "generic_php")
  @@ Served(WithBackup("/app.config"), "app_config", "application/xml")
  @@ Plain({"/application.ini"}, "application_ini")
  @@ Plain({"/application.ini.bak"}, "generic_ini")
  @@ Php(UNION {WithBackup(p) : p \in {"/globals.php", "/initialize.php",
                                       "/constants.php"}}, "generic_php")
  @@ Yaml({"/parameters.yml"}, "parameters_yml")
  @@ Yaml({"/parameters.yml.dist"}, "parameters_yml_dist")
  @@ Yaml({"/service.yml"}, "service_yml") @@ Yaml({"/doctrine.yml"}, "doctrine_yml")
  @@ Yaml({"/routing.yml"}, "routing_yml") @@ Yaml({"/security.yml"}, "security_yml")
  @@ Yaml({"/service.yml.bak", "/doctrine.yml.bak", "/routing.yml.bak",
           "/security.yml.bak"}, "generic_yaml")

BuildFiles ==
  JsonFile(WithBackup("/appsettings.json"), "appsettings_json")
  @@ JsonFile({"/package.json"}, "package_json")
  @@ JsonFile({"/composer.json"}, "composer_json")
  @@ JsonFile({"/package.json.bak", "/composer.json.bak"}, "generic_json")
  @@ Plain({"/gemfile"}, "gemfile") @@ Plain({"/gemfile.lock"}, "gemfile_lock")
  @@ Plain(WithBackup("/pip.conf"), "pip_conf")
  @@ Plain(WithBackup("/requirements.txt"), "requirements_txt")
  @@ Plain(WithBackup("/setup.cfg"), "setup_cfg") @@ Plain(WithBackup("/tox.ini"), "tox_ini")
  @@ Plain(WithBackup("/makefile"), "makefile")
  @@ Plain(WithBackup("/dockerfile"), "dockerfile")
  @@ Yaml(WithBackup("/docker-compose.yml"), "docker_compose_yml")

\* The route of /admin/phpinfo.php and its like has a name without a body.
ServerFiles ==
  Plain(WithBackup("/nginx.conf"), "nginx_conf")
  @@ Plain(WithBackup("/apache.conf"), "apache_conf")
  @@ Plain(WithBackup("/httpd.conf"), "httpd_conf")
  @@ Plain(WithBackup("/my.cnf") \cup {"/mysqld.cnf"}, "my_cnf")
  @@ Plain(WithBackup("/postgresql.conf"), "postgresql_conf")
  @@ Plain(WithBackup("/redis.conf"), "redis_conf")
  @@ Plain(WithBackup("/php.ini"), "php_ini")
  @@ Served(WithBackup("/phpinfo.php") \cup WithBackup("/info.php"), "phpinfo_php", "text/html")
  @@ Plain(WithBackup("/admin/phpinfo.php") \cup {"/admin/info.php"}, "generic_text")

\* The name of the route of /database.sql.bak is that of /database.yml.bak.
DumpFiles ==
  Php(UNION {WithBackup(p) : p \in {"/test.php", "/debug.php", "/console.php", "/cli.php",
                                    "/install.php", "/upgrade.php"}}, "generic_php")
  @@ Served(WithBackup("/backup.sql") \cup WithBackup("/dump.sql") \cup {"/database.sql"}
              \cup WithBackup("/db.sql"), "sql_dump", "application/sql")
  @@ Yaml({"/database.sql.bak"}, "database_yml")
  @@ Served({"/dump.sql.gz", "/backup.tar.gz"}, "generic_text", "application/gzip")
  @@ Served({"/dump.sql.zip", "/backup.zip"}, "generic_text", "application/zip")
  @@ Plain({"/.git/config"}, "git_config") @@ Plain({"/.git/head"}, "git_head")
  @@ Plain({"/.git/index"}, "git_index")
  @@ Plain({"/security.txt", "/.well-known/security.txt"}, "security_txt")

DisclosedFiles == CmsFiles @@ AppFiles @@ BuildFiles @@ ServerFiles @@ DumpFiles

ConfigDisclosureRoutes ==
  RoutesOf("config_disclosure", DOMAIN DisclosedFiles, {"/sql/", "/mysql/", "/postgres/"})

ConfigDisclosurePage(q) ==
  IF Path(q) \in DOMAIN DisclosedFiles THEN DisclosedFiles[Path(q)].body ELSE "db_directory"

\* A POST with a body is recorded a second time, as an exploit.
ConfigDisclosure(q) ==
  LET name == ConfigDisclosurePage(q)
      media == IF name = "db_directory" THEN "text/html" ELSE DisclosedFiles[Path(q)].media
  IN  [Answer("config_disclosure", name, Page(200, media)) EXCEPT
         !.recorded = IF Posts(q) /\ HasBody(q) THEN 2 ELSE 1]

\* What kind of file each body imitates, by the module that builds it.
PhpBodies == [b \in {"wp_config_php", "xmlrpc_php", "config_php", "phpinfo_php"} |-> "php"]
             @@ [php_ini |-> "ini", settings_py |-> "py"]
MoreBodies ==
  [gemfile |-> "text", gemfile_lock |-> "text", postgresql_conf |-> "conf",
   redis_conf |-> "conf", pip_conf |-> "conf", requirements_txt |-> "text",
   setup_cfg |-> "ini", tox_ini |-> "ini", makefile |-> "text", apache_conf |-> "conf",
   httpd_conf |-> "conf", application_ini |-> "ini", app_config |-> "xml",
   appsettings_json |-> "json"]
FrameworkBodies ==
  [b \in {"parameters_yml", "parameters_yml_dist", "service_yml", "doctrine_yml",
          "routing_yml", "security_yml"} |-> "yml"]
GenericBodies ==
  [git_index |-> "text", generic_php |-> "php", generic_ini |-> "ini",
   generic_json |-> "json", generic_yaml |-> "yml", generic_text |-> "text",
   sql_dump |-> "sql"]
SecurityBodies ==
  [env_file |-> "env", db_directory |-> "html", git_config |-> "text", git_head |-> "text",
   security_txt |-> "text"]
ServerBodies ==
  [htaccess_file |-> "conf", htpasswd_file |-> "text", web_config |-> "xml",
   my_cnf |-> "ini", nginx_conf |-> "conf"]
DataBodies ==
  [database_yml |-> "yml", config_json |-> "json", docker_compose_yml |-> "yml",
   dockerfile |-> "text", composer_json |-> "json", package_json |-> "json"]
BodyKind == PhpBodies @@ MoreBodies @@ FrameworkBodies @@ GenericBodies
            @@ SecurityBodies @@ ServerBodies @@ DataBodies

-----------------------------------------------------------------------------
(***************************************************************************)
(* The 404 face: of high-entropy paths, of which a few stand for all, with *)
(* or without one letter more, and of the icon that browsers ask for.      *)
(***************************************************************************)
RandomPaths == {"/3cwja4nt2qs1a4v", "/8kd92mz71qxw"}
IsRandomProbe(q) == q.path \in RandomPaths /\ q.escape \in {"none", "latin", "wide", "invalid"}

\* Without recording the request.
NotFound(q) ==
  [Answer("fingerprint_probe", "not_found", Page(404, "text/html")) EXCEPT !.recorded = 0]

-----------------------------------------------------------------------------
(***************************************************************************)
(* The catch-all.                                                          *)
(***************************************************************************)
ConfigProbes == {"/.env", "/.git", "/.aws", "/config.json", "/wp-config.php"}
CveEndpoints ==
  {"/goform/", "/jnap/", "/gponform/", "/apply_sec.cgi", "/apply.cgi", "/wls-wsat/",
   "/getcfg.php", "/tmui/", "/cobbler_api", "/sdk/weblanguage", "/hnap1"}
NmapProbes == {"trinity.txt.bak", "nice ports"}

GenericPage(q) == <<
  <<In(q, {"wp-login.php"}) /\ ~Posts(q), "wp-login">>,
  <<In(q, {"xmlrpc.php"}) /\ Posts(q), "xmlrpc">>,
  <<In(q, {"xmlrpc.php"}), "xmlrpc_get">>,
  <<Is(q, {"/robots.txt"}), "robots">>,
  <<In(q, ConfigProbes \cup NmapProbes) \/ Starts(q, CveEndpoints), "not_found">>,
  <<In(q, {"..", "/etc/", "php://"}) \/ q.escape = "stray", "traversal">>,
  <<Posts(q) /\ In(q, {"login", "admin", "auth"}) /\ Credentials(q), "redirect">>,
  <<TRUE, "monster">> >>

GenericStatus(name) ==
  CASE name = "xmlrpc_get" -> 405
    [] name = "not_found" -> 404
    [] name = "traversal" -> 403
    [] name = "redirect" -> 302
    [] OTHER -> 200

\* The length of the traversal page, which shows the path, is that of its
\* Latin-1 form.
Generic(q) ==
  LET name == FirstOf(GenericPage(q))
  IN  [Answer("generic", name,
              Page(GenericStatus(name),
                   IF In(q, {"xml"}) THEN "application/xml" ELSE "text/html")) EXCEPT
         !.captured = name = "redirect",
         !.raised = name = "traversal" /\ Unencodable(q)]
=============================================================================
