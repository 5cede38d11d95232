---------------------------- MODULE CmsServices ----------------------------
(***************************************************************************)
(* The faces of content-management systems and web frameworks: for each,   *)
(* its routes, the page it chooses, what its pages are and what its        *)
(* handler makes of a request.                                             *)
(***************************************************************************)
EXTENDS HttpRequests

WordPressRoutes ==
  RoutesOf("wordpress",
    {"/wp-login", "/wp-admin", "/wp-content", "/wp-includes", "/xmlrpc.php",
     "/wordpress", "/blog"},
    {"/wp-login.php", "/wp-admin/", "/wp-content/", "/wp-includes/", "/wordpress/",
     "/blog/"})

WordPressPage(q) == <<
  <<In(q, {"wp-login"}) /\ Credentials(q), "failed">>,
  <<In(q, {"wp-login"}), "login">>,
  <<In(q, {"xmlrpc"}) /\ Posts(q), "xmlrpc">>,
  <<In(q, {"xmlrpc"}), "xmlrpc_get">>,
  <<In(q, {"wp-admin"}), "to_login">>,
  <<In(q, {"wp-content"}), "content">>,
  <<In(q, {"wp-includes"}), "includes">>,
  <<Is(q, {"/", "/index.php"}), "home">>,
  <<TRUE, "login">> >>

\* Every page has a Link header with the first segment of the path, in Latin-1;
\* the answer to a login has that of /wp-login.php.
WordPress(q) ==
  LET name == FirstOf(WordPressPage(q))
      sole == ~Contains(SubSeq(q.path, 2, Len(q.path)), "/")
  IN  [Answer("wordpress", name,
              IF In(q, {"xmlrpc"}) /\ name # "failed" THEN Xml ELSE Html) EXCEPT
         !.captured = name = "failed",
         !.raised = name # "failed" /\ Unencodable(q) /\ sole]

-----------------------------------------------------------------------------
DrupalRoutes ==
  RoutesOf("drupal",
    {"/user", "/user/login", "/user/register", "/admin", "/admin/config", "/node",
     "/sites", "/sites/default", "/drupal", "/files"},
    {"/user/", "/admin/content/", "/admin/structure/", "/admin/config/",
     "/admin/people/", "/admin/modules/", "/admin/themes/", "/admin/reports/",
     "/admin/appearance/", "/admin/help/", "/admin/tasks/", "/node/", "/sites/",
     "/drupal/", "/files/"})

DrupalPage(q) == <<
  <<In(q, {"user/login"}) /\ Credentials(q), "failed">>,
  <<In(q, {"user/login"}), "login">>,
  <<In(q, {"user/register"}), "register">>,
  <<In(q, {"admin"}), "admin">>,
  <<In(q, {"xmlrpc"}), "xmlrpc">>,
  <<In(q, {"sites/default"}), "sites">>,
  <<In(q, {"node"}), "node">>,
  <<Is(q, {"/", "/index.php"}), "home">>,
  <<TRUE, "login">> >>

Drupal(q) ==
  LET name == FirstOf(DrupalPage(q))
  IN  [Answer("drupal", name, Html) EXCEPT !.captured = name = "failed"]

-----------------------------------------------------------------------------
JoomlaRoutes ==
  RoutesOf("joomla", {"/administrator", "/index.php"},
         {"/administrator/", "/index.php", "/templates", "/components", "/api",
          "/language"})

\* The query, where the code also looks for com_users and com_sppagebuilder,
\* never reaches a handler.
JoomlaPage(q) == <<
  <<Credentials(q) /\ (In(q, {"com_login"}) \/ Is(q, {"/administrator",
      "/administrator/", "/administrator/index.php", "/index.php"})), "uploaded">>,
  <<Starts(q, {"/administrator"}), "login">>,
  <<In(q, {"option=com_sppagebuilder"}), "upload">>,
  <<Starts(q, {"/templates"}), "templates">>,
  <<Starts(q, {"/components"}), "components">>,
  <<Starts(q, {"/api"}), "api">>,
  <<Starts(q, {"/language"}), "language">>,
  <<TRUE, "front">> >>

\* In UTF-8, and without the path.
Joomla(q) ==
  LET name == FirstOf(JoomlaPage(q))
  IN  [Answer("joomla", name,
              IF name = "uploaded" THEN Page(302, "text/html") ELSE Html) EXCEPT
         !.captured = name = "uploaded"]

-----------------------------------------------------------------------------
MagentoRoutes ==
  RoutesOf("magento", {"/admin", "/customer/account/login", "/index.php/admin", "/setup"},
         {"/magento/", "/static/"})

\* The field names of a Magento login; without a value in one of them, the
\* standard names.
MagentoFields ==
  {"login[username]", "login[enterprise][username]", "username", "user",
   "login[password]", "login[enterprise][password]", "password", "pass"}
MagentoCredentials(q) == Posts(q) /\ (Has(q, MagentoFields) \/ Credentials(q))

MagentoPage(q) == <<
  <<In(q, {"login", "admin", "account"}) /\ MagentoCredentials(q), "failed">>,
  <<In(q, {".env"}) /\ Starts(q, {"/magento"}), "environment">>,
  <<In(q, {"/admin"}) \/ Is(q, {"/customer/account/login"}), "login">>,
  <<Is(q, {"/setup"}), "setup">>,
  <<TRUE, "storefront">> >>

Magento(q) ==
  LET name == FirstOf(MagentoPage(q))
  IN  [Answer("magento", name, Html) EXCEPT !.captured = name = "failed"]

-----------------------------------------------------------------------------
BitrixRoutes ==
  RoutesOf("bitrix", {"/bitrix/admin", "/bitrix/auth", "/bitrix"},
         {"/bitrix/admin/", "/bitrix/auth/", "/bitrix/setup/", "/bitrix/tools/", "/bitrix/"})

BitrixPage(q) == <<
  <<In(q, {"login", "admin"}) /\ Credentials(q), "failed">>,
  <<In(q, {"/admin/"}) \/ Is(q, {"/admin"}), "login">>,
  <<In(q, {"/auth/"}), "auth">>,
  <<In(q, {"/setup/"}), "setup">>,
  <<TRUE, "portal">> >>

Bitrix(q) ==
  LET name == FirstOf(BitrixPage(q))
  IN  [Answer("bitrix", name, Html) EXCEPT !.captured = name = "failed"]

-----------------------------------------------------------------------------
SharePointRoutes ==
  RoutesOf("sharepoint", {"/login"}, {"/_layouts/", "/_api/", "/_vti_bin/", "/webservices/"})

SharePointPage(q) == <<
  <<In(q, {"cve-2026-45659"}), "vulnerable">>,
  <<In(q, {"login"}) /\ Credentials(q), "logged_in">>,
  <<In(q, {"login"}), "login">>,
  <<Starts(q, {"/_api/"}), "api">>,
  <<Starts(q, {"/_vti_bin/", "/webservices/"}), "webservices">>,
  <<Starts(q, {"/_layouts/"}) /\ In(q, {"start.aspx"}), "start">>,
  <<Starts(q, {"/_layouts/"}), "layouts">>,
  <<TRUE, "home">> >>

\* Layouts and web services show the path, in UTF-8.
SharePoint(q) ==
  LET name == FirstOf(SharePointPage(q))
  IN  [Answer("sharepoint", name,
              CASE name = "api" -> Json [] name = "webservices" -> Xml [] OTHER -> Html)
         EXCEPT !.captured = name = "logged_in"]

-----------------------------------------------------------------------------
PhpMyAdminRoutes ==
  RoutesOf("phpmyadmin",
    {"/phpmyadmin", "/pma", "/index.php", "/mysql", "/mysql/index.php", "/db",
     "/db/index.php", "/database", "/database/index.php"},
    {"/phpmyadmin/", "/pma/", "/mysql/", "/db/", "/database/"})

PhpMyAdminPage(q) == <<
  <<Credentials(q), "failed">>,
  <<Ends(q, {"/.env"}), "environment">>,
  <<In(q, {"sql.php"}), "sql">>,
  <<TRUE, "login">> >>

PhpMyAdmin(q) ==
  LET name == FirstOf(PhpMyAdminPage(q))
  IN  [Answer("phpmyadmin", name, IF name = "environment" THEN Text ELSE Html) EXCEPT
         !.captured = name = "failed"]

-----------------------------------------------------------------------------
LaravelRoutes ==
  RoutesOf("laravel", {"/_ignition/execute-solution", "/_ignition", "/laravel"},
         {"/_ignition/", "/laravel/core/", "/laravel-app/src/", "/laravel/",
          "/storage/logs/", "/vendor/laravel/"})

LaravelPage(q) == <<
  <<In(q, {"login", "auth", "session"}) /\ Credentials(q), "failed">>,
  <<(In(q, {"/_ignition/"}) \/ Is(q, {"/_ignition"})) /\ Posts(q)
      /\ In(q, {"execute-solution"}), "executed">>,
  <<In(q, {"/_ignition/"}) \/ Is(q, {"/_ignition"}), "ignition">>,
  <<In(q, {"info.php"}), "phpinfo">>,
  <<In(q, {"laravel.log"}), "log">>,
  <<In(q, {".env"}), "environment">>,
  <<TRUE, "error">> >>

Laravel(q) ==
  LET name == FirstOf(LaravelPage(q))
  IN  [Answer("laravel", name, Html) EXCEPT !.captured = name = "failed"]

-----------------------------------------------------------------------------
ThinkPHPRoutes ==
  RoutesOf("thinkphp", {"/index.php", "/public/index.php"},
         {"/index.php", "/public/index.php", "/thinkphp"})

ThinkPHPPage(q) == <<
  <<In(q, {"login", "auth"}) /\ Credentials(q), "failed">>,
  <<Says(q, {"invokefunction", "call_user_func_array", "think\\app", "think/app"}), "rce">>,
  <<TRUE, "error">> >>

\* In UTF-8, which its Chinese pages need.
ThinkPHP(q) ==
  LET name == FirstOf(ThinkPHPPage(q))
  IN  [Answer("thinkphp", name, Html) EXCEPT !.captured = name = "failed"]

-----------------------------------------------------------------------------
NextjsRoutes ==
  RoutesOf("nextjs", {"/api/health", "/vercel", "/_next"}, {"/_next/", "/api/", "/nextjs/"})

NextjsPage(q) == <<
  <<In(q, {"login"}) /\ Credentials(q), "failed">>,
  <<Is(q, {"/api/health"}), "health">>,
  <<Starts(q, {"/api"}), "api">>,
  <<Starts(q, {"/_next/image"}), "image">>,
  <<Starts(q, {"/_next"}), "asset">>,
  <<Is(q, {"/vercel"}) \/ Starts(q, {"/vercel/"}), "vercel">>,
  <<Starts(q, {"/nextjs"}) /\ In(q, {".env", "wp-config", "passwd"}), "blocked">>,
  <<TRUE, "main">> >>

NextjsPages ==
  [failed |-> Html, health |-> Json, api |-> Json, image |-> Page(400, "application/json"),
   asset |-> Page(200, "application/javascript"), vercel |-> Json, blocked |-> Html,
   main |-> Html]

\* The api page shows the path, in Latin-1.
Nextjs(q) ==
  LET name == FirstOf(NextjsPage(q))
  IN  [Answer("nextjs", name, NextjsPages[name]) EXCEPT
         !.captured = name = "failed",
         !.raised = name = "api" /\ Unencodable(q)]

-----------------------------------------------------------------------------
ColdFusionRoutes ==
  RoutesOf("coldfusion",
    {"/cfide/administrator/", "/administrator/", "/cfide/", "/ccm/", "/cfusion/"},
    {"/cfide/administrator/", "/administrator/", "/cfide/", "/ccm/", "/cfusion/",
     "/cf_scripts/"})

\* The standard names, or those of the ColdFusion administrator.
ColdFusionCredentials(q) ==
  Credentials(q) \/ (Posts(q) /\ Has(q, {"adminUserId", "cfadminPassword"}))

ColdFusionPage(q) == <<
  <<In(q, {"administrator"}) /\ ColdFusionCredentials(q), "logged_in">>,
  <<In(q, {"administrator"}), "login">>,
  <<In(q, {"cfide"}), "cfide">>,
  <<In(q, {"ccm"}), "ccm">>,
  <<In(q, {"cfusion"}) /\ In(q, {"__export", "graph"}), "graph">>,
  <<In(q, {"cfusion"}), "cfusion">>,
  <<In(q, {"cf_scripts", "ajax"}), "scripts">>,
  <<TRUE, "default">> >>

ColdFusion(q) ==
  LET name == FirstOf(ColdFusionPage(q))
  IN  [Answer("coldfusion", name,
              IF name = "logged_in" THEN Page(302, "text/html") ELSE Html) EXCEPT
         !.captured = name = "logged_in"]
=============================================================================
