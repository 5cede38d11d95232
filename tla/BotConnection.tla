--------------------------- MODULE BotConnection ---------------------------
(***************************************************************************)
(* The thread that serves one TCP connection or one UDP datagram of a bot: *)
(* client.py's _handle_bot_connection, _handle_non_http_connection and     *)
(* _handle_udp_datagram, from accept to the end of the thread, with what   *)
(* it reads, answers, takes as a login and reports.  Frames are told apart *)
(* by what the code tells apart: what protocol they look like and which    *)
(* halves of a login they carry.                                           *)
(***************************************************************************)
EXTENDS Naturals, Sequences

CONSTANTS
  MaxRounds,   \* the 64 exchanges of a client-first face
  MaxChunks    \* the 16 frames read for the login of a server-first face

ConnectionAssumption == MaxRounds \in Nat /\ MaxChunks \in Nat

Parts == {"user", "password"}

(***************************************************************************)
(* The faces of common/faces.py by the path they take through the code:    *)
(*   http    no face, or a port of the HTTP handler                        *)
(*   ssh     22, driven by client.py itself                                *)
(*   text    FTP, POP3, MySQL, MSSQL: extract_creds returns a string, and  *)
(*           more input never takes a half of it away                      *)
(*   tagged  IMAP: a string too, but LOGIN later in a line undoes the line *)
(*   pair    Telnet, RDP: extract_creds returns a tuple                    *)
(*   banner  SMTP, VNC, AMQP, Oracle: capture_creds is False               *)
(*   redis   client-first, with an extractor                               *)
(*   query   the other client-first faces                                  *)
(*   udp     SIP, SNMP: the faces of UDP_FACE_REGISTRY                     *)
(*   faceless  a UDP port that has none                                    *)
(***************************************************************************)
Extracting == {"text", "tagged", "pair"}
ServerFirst == Extracting \cup {"ssh", "banner"}
ClientFirst == {"redis", "query"}
Datagrams == {"udp", "faceless"}
Kinds == {"http"} \cup ServerFirst \cup ClientFirst \cup Datagrams

\* What a first frame looks like on the port of a face: nothing, the face's
\* own protocol, HTTP, or another protocol _sniff_nonhttp_protocol knows.
FaceFrames == {"none", "own", "http", "foreign"}
\* What it looks like on an HTTP port: HTTP, SSH, or a probe whose answer is
\* (chatty) or is not (mute) one of _INTERACTIVE_PROTOCOL_SIGNATURES.
HttpFrames == {"none", "http", "ssh", "chatty", "mute"}
Frames == FaceFrames \cup HttpFrames \cup {"unread"}

Labels == {"own", "empty", "http", "foreign", "probe"}
ReportRecord == [label: Labels, login: SUBSET Parts]

VARIABLES
  kind,      \* the face of the port
  internal,  \* the peer's address is one of _INTERNAL_IPS
  pc,        \* where the thread is
  first,     \* the first frame
  buf,       \* the halves of a login in the frames read so far
  creds,     \* the halves in the local variable creds
  rounds,    \* frames read after the first
  lost,      \* a sendall raised socket.error
  heard,     \* some frame of the peer was read (no such flag in the code)
  seed,      \* the halves of a login in the first frame (likewise)
  reports    \* what was put on the report queue

vars == <<kind, internal, pc, first, buf, creds, rounds, lost, heard, seed,
          reports>>

TypeOK ==
  /\ kind \in Kinds
  /\ internal \in BOOLEAN
  /\ pc \in {"accepted", "reading", "classify", "loop", "record", "capture",
             "plaintext", "probe", "probeCapture", "closed"}
  /\ first \in Frames
  /\ buf \subseteq Parts
  /\ creds \subseteq Parts
  /\ rounds \in 0 .. MaxRounds + MaxChunks
  /\ lost \in BOOLEAN
  /\ heard \in BOOLEAN
  /\ seed \subseteq Parts
  /\ reports \in Seq(ReportRecord)
  /\ Len(reports) <= 1

Init ==
  /\ kind \in Kinds
  /\ internal \in BOOLEAN
  /\ pc = "accepted"
  /\ first = "unread"
  /\ buf = {}
  /\ creds = {}
  /\ rounds = 0
  /\ lost = FALSE
  /\ heard = FALSE
  /\ seed = {}
  /\ reports = <<>>

-----------------------------------------------------------------------------
\* _build_bear_storage and _enrich_and_send_bear: one put on the queue.
Reported(label, login) ==
  reports' = Append(reports, [label |-> label, login |-> login])

MismatchIfHttp(f) == f = "http"
Mismatch(f) == f \in {"http", "foreign"}

\* detected_id after the two re-sniffs of the first frame; idle is what a
\* connection without a first frame is labelled.
Label(f, idle) == IF Mismatch(f) THEN f ELSE IF f = "none" THEN idle ELSE "own"

Asked == UNCHANGED <<kind, internal>>
Read == UNCHANGED <<first, seed>>

-----------------------------------------------------------------------------
\* Peers of this host are dropped without a trace.
DropInternal ==
  /\ pc = "accepted"
  /\ internal
  /\ pc' = "closed"
  /\ UNCHANGED <<first, buf, creds, rounds, lost, heard, seed, reports>> /\ Asked

\* A server-first face speaks before anything is read.
Greet ==
  /\ pc = "accepted"
  /\ ~internal
  /\ kind \notin Datagrams
  /\ lost' \in IF kind \in ServerFirst THEN BOOLEAN ELSE {FALSE}
  /\ pc' = IF lost' THEN "closed" ELSE "reading"
  /\ UNCHANGED <<first, buf, creds, rounds, heard, seed, reports>> /\ Asked

\* receive_first_frame on the port of a face.
ReadFrame ==
  /\ pc = "reading"
  /\ kind # "http"
  /\ first' \in FaceFrames
  /\ seed' \in IF first' = "none" THEN {{}} ELSE SUBSET Parts
  /\ buf' = seed'
  /\ heard' = (first' # "none")
  /\ pc' = "classify"
  /\ UNCHANGED <<creds, rounds, lost, reports>> /\ Asked

-----------------------------------------------------------------------------
\* SSH: label, capture the login, report.
ServeSsh ==
  /\ pc = "classify"
  /\ kind = "ssh"
  /\ creds' \in SUBSET Parts
  /\ heard' = (heard \/ creds' # {})
  /\ Reported(Label(first, "own"), creds')
  /\ pc' = "closed"
  /\ UNCHANGED <<buf, rounds, lost>> /\ Asked /\ Read

\* The login a client-first face has after a frame with the halves p: the
\* first one offered stays.
Offered(p) == IF kind = "redis" /\ creds = {} THEN p ELSE creds

\* A client-first face answers the first frame, if there is one.
AnswerFirst ==
  /\ pc = "classify"
  /\ kind \in ClientFirst
  /\ lost' \in IF first = "none" THEN {FALSE} ELSE BOOLEAN
  /\ IF lost'
       THEN pc' = "closed" /\ UNCHANGED creds
       ELSE pc' = "loop" /\ creds' = Offered(buf)
  /\ UNCHANGED <<buf, rounds, heard, reports>> /\ Asked /\ Read

RoundAlways == TRUE
RoundLeft == rounds < MaxRounds

NextRoundRestarted == IF rounds = 1 THEN 0 ELSE rounds + 1
NextRound == rounds + 1

\* One more frame, its login, and the answer, whose failure ends the loop.
Round ==
  /\ pc = "loop"
  /\ RoundLeft
  /\ \E p \in SUBSET Parts : creds' = Offered(p)
  /\ heard' = TRUE
  /\ rounds' = NextRound
  /\ lost' \in BOOLEAN
  /\ pc' = IF lost' THEN "record" ELSE "loop"
  /\ UNCHANGED <<buf, reports>> /\ Asked /\ Read

\* The peer idles or the loop is used up.
LeaveLoop ==
  /\ pc = "loop"
  /\ pc' = "record"
  /\ UNCHANGED <<buf, creds, rounds, lost, heard, reports>> /\ Asked /\ Read

RecordExchange ==
  /\ pc = "record"
  /\ Reported(Label(first, "empty"), creds)
  /\ pc' = "closed"
  /\ UNCHANGED <<buf, creds, rounds, lost, heard>> /\ Asked /\ Read

-----------------------------------------------------------------------------
Unseeded == {}
\* What the login of a server-first face starts from.
Seeded == buf

\* A server-first face answers the first frame (an error is swallowed) and
\* reports a frame of another protocol at once, before any login is taken.
AnswerServer ==
  /\ pc = "classify"
  /\ kind \in Extracting \cup {"banner"}
  /\ lost' \in IF first = "none" THEN {FALSE} ELSE BOOLEAN
  /\ IF kind \in Extracting /\ ~Mismatch(first)
       THEN /\ pc' = "capture"
            /\ buf' = Seeded
            /\ creds' = Seeded
            /\ UNCHANGED reports
       ELSE /\ pc' = "closed"
            /\ Reported(Label(first, "empty"), {})
            /\ UNCHANGED <<buf, creds>>
  /\ UNCHANGED <<rounds, heard>> /\ Asked /\ Read

\* _complete: both halves of a string; a tuple never counts as complete.
Complete == kind \in {"text", "tagged"} /\ creds = Parts

\* A tuple that has ":" for an element is split as if it were a string; what
\* that raises is swallowed, and the login with it.
PairSplit ==
  /\ pc = "capture"
  /\ kind = "pair"
  /\ creds # {}
  /\ rounds < MaxChunks
  /\ pc' = "plaintext"
  /\ UNCHANGED <<buf, creds, rounds, lost, heard, reports>> /\ Asked /\ Read

\* The halves extract_creds may return for a buffer that offers those in b. Of
\* a half offered twice it takes the one or the other; the tuple of an RDP
\* buffer loses its password once a user name follows.
Extracted(b) == IF kind = "text" THEN {b} ELSE SUBSET b

\* One more frame joins the buffer the extractor sees, unless that overflows
\* the cap: then the login is what it was and no more is read.
ReadChunk ==
  /\ pc = "capture"
  /\ ~Complete
  /\ rounds < MaxChunks
  /\ heard' = TRUE
  /\ rounds' = NextRound
  /\ \/ /\ \E p \in SUBSET Parts : buf' = buf \cup p
        /\ creds' \in Extracted(buf')
        /\ UNCHANGED <<pc, reports>>
     \/ /\ IF creds = {}
             THEN pc' = "plaintext" /\ UNCHANGED reports
             ELSE pc' = "closed" /\ Reported("own", creds)
        /\ UNCHANGED <<buf, creds>>
  /\ UNCHANGED lost /\ Asked /\ Read

\* The peer idles, the login is complete or the frames are used up.
EndCapture ==
  /\ pc = "capture"
  /\ IF creds = {}
       THEN pc' = "plaintext" /\ UNCHANGED reports
       ELSE pc' = "closed" /\ Reported("own", creds)
  /\ UNCHANGED <<buf, creds, rounds, lost, heard>> /\ Asked /\ Read

\* The plaintext parser on whatever else arrives.
CapturePlaintext ==
  /\ pc = "plaintext"
  /\ creds' \in SUBSET Parts
  /\ heard' \in {TRUE, heard \/ creds' # {}}
  /\ Reported(IF creds' = {} THEN Label(first, "empty") ELSE "own", creds')
  /\ pc' = "closed"
  /\ UNCHANGED <<buf, rounds, lost>> /\ Asked /\ Read

-----------------------------------------------------------------------------
\* An HTTP port: an empty or an HTTP message is reported before the answer
\* is sent, another protocol is left to the caller to report.
ReadMessage ==
  /\ pc = "reading"
  /\ kind = "http"
  /\ first' \in HttpFrames
  /\ seed' = {}
  /\ heard' = (first' # "none")
  /\ CASE first' = "none" ->
            /\ pc' = "closed"
            /\ Reported("empty", {})
            /\ UNCHANGED <<creds, lost>>
       [] first' = "http" ->
            /\ pc' = "closed"
            /\ creds' \in SUBSET Parts
            /\ Reported("own", creds')
            /\ lost' \in BOOLEAN
       [] OTHER -> pc' = "probe" /\ UNCHANGED <<creds, lost, reports>>
  /\ UNCHANGED <<buf, rounds>> /\ Asked

InteractiveIfSsh == first = "ssh"
\* _is_interactive_protocol of the answer sent to a probe.
Interactive == first \in {"ssh", "chatty"}

AnswerProbe ==
  /\ pc = "probe"
  /\ lost' \in BOOLEAN
  /\ pc' = IF ~lost' /\ Interactive THEN "probeCapture" ELSE "closed"
  /\ UNCHANGED <<buf, creds, rounds, heard, reports>> /\ Asked /\ Read

CaptureProbe ==
  /\ pc = "probeCapture"
  /\ creds' \in SUBSET Parts
  /\ Reported("probe", creds')
  /\ pc' = "closed"
  /\ UNCHANGED <<buf, rounds, lost, heard>> /\ Asked /\ Read

-----------------------------------------------------------------------------
\* A datagram: its login is parsed, it is answered (an error is swallowed) and
\* reported in one go.
ServeDatagram ==
  /\ pc = "accepted"
  /\ ~internal
  /\ kind = "udp"
  /\ first' = "own"
  /\ heard' = TRUE
  /\ creds' \in SUBSET Parts
  /\ lost' \in BOOLEAN
  /\ Reported("own", creds')
  /\ pc' = "closed"
  /\ UNCHANGED <<buf, rounds, seed>> /\ Asked

\* Most of DEFAULT_UDP_PORTS have no face: what comes there is dropped silently.
DropDatagram ==
  /\ pc = "accepted"
  /\ ~internal
  /\ kind = "faceless"
  /\ heard' = TRUE
  /\ pc' = "closed"
  /\ UNCHANGED <<first, buf, creds, rounds, lost, seed, reports>> /\ Asked

-----------------------------------------------------------------------------
Step ==
  \/ DropInternal \/ Greet \/ ServeDatagram \/ DropDatagram
  \/ ReadFrame \/ ServeSsh
  \/ AnswerFirst \/ Round \/ LeaveLoop \/ RecordExchange
  \/ AnswerServer \/ PairSplit \/ ReadChunk \/ EndCapture \/ CapturePlaintext
  \/ ReadMessage \/ AnswerProbe \/ CaptureProbe

Closed == pc = "closed" /\ UNCHANGED vars

Next == Step \/ Closed

\* Every read has a timeout and a peer sends finitely many bytes, so each
\* step of the thread returns.
Spec == Init /\ [][Next]_vars /\ WF_vars(Step)

-----------------------------------------------------------------------------
Over == pc = "closed"
Report == reports[1]

(***************************************************************************)
(* A connection ends unreported in four cases only: the peer is this host, *)
(* the TCP connection broke before the exchange was recorded, an HTTP port *)
(* got a probe whose answer is not interactive (contrary to a comment: see *)
(* ProbesReported), or a UDP port has no face.  A datagram whose answer is *)
(* lost is reported all the same.                                          *)
(***************************************************************************)
AccountedFor ==
  Over /\ reports = <<>> =>
    \/ internal
    \/ lost /\ kind \notin Datagrams
    \/ first = "mute"
    \/ kind = "faceless"

(***************************************************************************)
(* "credential capture happens after this returns. The caller must send    *)
(* the report AFTER updating bs.login" (http_handler.py:310-311), of a     *)
(* probe of another protocol on an HTTP port: one whose answer went out is *)
(* reported, as 260-264 needs for telling TLS and SIP probes apart.        *)
(***************************************************************************)
ProbesReported == Over /\ first = "mute" /\ ~lost => reports # <<>>

(***************************************************************************)
(* Issue #627: on a server-first face a frame of another protocol is       *)
(* reported as such and never as a login of the face.  SSH is left out: it *)
(* labels such a frame likewise, and takes the login that follows it.      *)
(***************************************************************************)
MismatchIsNoLogin ==
  /\ Over
  /\ kind \in ServerFirst \ {"ssh"}
  /\ first \in {"http", "foreign"}
  => reports # <<>> /\ Report.label = first /\ Report.login = {}

(***************************************************************************)
(* Issue #627: a user name offered in the first frame to FTP, POP3, MySQL  *)
(* or MSSQL does not leave the login without one, whatever the frames that *)
(* follow and however the capture ends; a later offer may stand in for it. *)
(* IMAP, Telnet and RDP can lose it, see Extracted and PairSplit.          *)
(***************************************************************************)
SeedKept ==
  Over /\ kind = "text" /\ first = "own" =>
    reports # <<>> /\ seed \subseteq Report.login

\* The thread ends, whatever the peer does.
Ends == <>(pc = "closed")

(***************************************************************************)
(* "If the whole exchange captured nothing (no frame at all), stamp it     *)
(* EMPTY_CONNECTION" (client.py:765-766): an exchange with a client-first  *)
(* face is labelled empty only when nothing was heard.                     *)
(***************************************************************************)
EmptyMeansSilent ==
  Over /\ kind \in ClientFirst /\ reports # <<>> =>
    (Report.label = "empty" => ~heard)
=============================================================================
