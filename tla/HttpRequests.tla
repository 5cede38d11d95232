---------------------------- MODULE HttpRequests ----------------------------
(***************************************************************************)
(* An HTTP request as the handlers look at it, the questions they ask of   *)
(* it, and the answers they give: the vocabulary of the service modules.   *)
(*                                                                         *)
(* A request is a record: "path", in lower case and without its query;     *)
(* "escape", the kind of %-escape at the end of the path; "method";        *)
(* "fields", the names of the form fields its body has a value for;        *)
(* "marks", the telling words in its headers and body; "authorization",    *)
(* the scheme of that header or "none"; "port", where it arrived.          *)
(***************************************************************************)
EXTENDS Naturals, Sequences, FiniteSets

StartsWith(text, word) ==
  Len(word) <= Len(text) /\ SubSeq(text, 1, Len(word)) = word
EndsWith(text, word) ==
  Len(word) <= Len(text) /\ SubSeq(text, Len(text) - Len(word) + 1, Len(text)) = word
Contains(text, word) ==
  \E i \in 0 .. Len(text) - Len(word) : SubSeq(text, i + 1, i + Len(word)) = word

-----------------------------------------------------------------------------
(***************************************************************************)
(* The escape that ends a path: none; of a Latin-1 character; of a valid   *)
(* character beyond Latin-1; a stray byte, which unquote turns to U+FFFD;  *)
(* an overlong "/" and a byte no UTF-8 has, which normalize_overlong_path  *)
(* turns to "/" and removes.                                               *)
(***************************************************************************)
Escapes == {"none", "latin", "wide", "stray", "overlong", "invalid"}

\* What is left of each escape after normalize_overlong_path ...
Normalized ==
  [none |-> "", latin |-> "%c3%a9", wide |-> "%e4%b8%ad", stray |-> "%e4",
   overlong |-> "/", invalid |-> ""]
\* ... and after the percent-decoding of the router.
Decoded == [Normalized EXCEPT !.latin = "<latin>", !.wide = "<wide>", !.stray = "<U+FFFD>"]

HttpRequest ==
  [path: STRING, escape: Escapes, method: STRING, fields: SUBSET STRING,
   marks: SUBSET STRING, authorization: {"none", "basic", "bearer"}, port: Nat]

Path(q) == q.path \o Decoded[q.escape]
\* The decoded path has a character that ISO-8859-1 has not.
Wide(q) == q.escape \in {"wide", "stray"}

UnencodableInAscii(q) == q.escape \in {"latin", "wide", "stray"}
\* A page with the decoded path raises when it is encoded, in ISO-8859-1.
Unencodable(q) == Wide(q)

In(q, words) == \E w \in words : Contains(Path(q), w)
Starts(q, words) == \E w \in words : StartsWith(Path(q), w)
Ends(q, words) == \E w \in words : EndsWith(Path(q), w)
Is(q, paths) == Path(q) \in paths

Posts(q) == q.method = "POST"
\* All marks but that of a Docker client are in the body.
HasBody(q) == q.fields # {} \/ q.marks \ {"docker"} # {}
\* The word is in the raw request: in its headers or body, or its own path.
Says(q, words) == \E w \in words : w \in q.marks \/ Contains(q.path, w)

-----------------------------------------------------------------------------
(***************************************************************************)
(* extract_http_credentials: of a POST only, and by the text "name=", so   *)
(* that a field whose name ends with a known one is read as that one.      *)
(***************************************************************************)
USERNAME_FIELDS == {"log", "user", "username", "login", "user_login", "USER_LOGIN",
                    "j_username", "uid", "email", "pma_username", "server[0][user]"}
PASSWORD_FIELDS == {"pwd", "pass", "password", "login_password", "j_password",
                    "passwort", "user_pass", "USER_PASSWORD", "pma_password",
                    "server[0][password]"}

Has(q, names) == \E f \in q.fields, n \in names : EndsWith(f, n)
Credentials(q) == Posts(q) /\ Has(q, USERNAME_FIELDS \cup PASSWORD_FIELDS)

\* An if-elif chain: the value of the first pair whose condition holds.
FirstOf(chain) ==
  LET holds == {i \in DOMAIN chain : chain[i][1]}
  IN  chain[CHOOSE i \in holds : \A j \in holds : i <= j][2]

-----------------------------------------------------------------------------
(***************************************************************************)
(* What a page is: its status and its media type.                          *)
(***************************************************************************)
Page(status, media) == [status |-> status, media |-> media]
Html == Page(200, "text/html")
Json == Page(200, "application/json")
Xml == Page(200, "text/xml")
Text == Page(200, "text/plain")

(***************************************************************************)
(* What a handler makes of a request: its answer; how often it records the *)
(* request in the profile of the address; whether it captures credentials; *)
(* and whether it raises instead of answering, after it recorded and       *)
(* captured.                                                               *)
(***************************************************************************)
Answer(service, name, page) ==
  [service |-> service, name |-> name, page |-> page,
   recorded |-> 1, captured |-> FALSE, raised |-> FALSE]

(***************************************************************************)
(* The routes of one service: exact paths and prefixes, and the ports they *)
(* are scoped to, if any.                                                  *)
(***************************************************************************)
RoutesOf(service, exact, prefixes) ==
  [service |-> service, exact |-> exact, prefixes |-> prefixes, ports |-> {}]
=============================================================================
