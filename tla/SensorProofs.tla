---------------------------- MODULE SensorProofs ----------------------------
(***************************************************************************)
(* Proofs about the connection, for any number of exchanges and frames,    *)
(* about the way of any HTTP request through the route table, and about    *)
(* MCSensor: what is proved of each part alone, here, in SharedRouterProofs *)
(* and in CaptureProofs, holds in the whole.                               *)
(***************************************************************************)
EXTENDS MCSensor, SequenceTheorems, FiniteSetTheorems, WellFoundedInduction, TLAPS

RouterP == INSTANCE SharedRouterProofs WITH pc <- routerPc
CaptureP == INSTANCE CaptureProofs WITH Callers <- Conns, Captures <- {first1, other}

-----------------------------------------------------------------------------
(***************************************************************************)
(* The connection.                                                         *)
(***************************************************************************)

(***************************************************************************)
(* What the thread knows at each point: it reports once, at its end; only  *)
(* a face that extracts, and has not seen another protocol, ever captures; *)
(* and while it captures the text of one that keeps what it has, the first *)
(* frame's halves of a login are in the buffer and in the login.           *)
(***************************************************************************)
Unreported == pc # "closed" => reports = <<>>

Whole ==
  pc \notin {"accepted", "closed"} =>
    ~internal /\ (pc \notin {"record", "capture", "plaintext"} => ~lost)

PlaceOfKind ==
  /\ pc \in {"accepted", "reading"} => first = "unread"
  /\ pc = "classify" => kind # "http" /\ first \in FaceFrames /\ buf = seed
  /\ pc \in {"loop", "record"} => kind \in ClientFirst
  /\ pc \in {"capture", "plaintext"} => kind \in Extracting
  /\ pc \notin {"accepted", "closed"} => kind \notin Datagrams
  /\ pc \in {"probe", "probeCapture"} =>
       kind = "http" /\ first \in {"ssh", "chatty", "mute"}

Capturing ==
  /\ pc \in {"capture", "plaintext"} => ~Mismatch(first)
  /\ pc = "capture" /\ kind = "text" => seed \subseteq buf /\ seed \subseteq creds
  /\ pc = "plaintext" /\ kind = "text" => seed = {}

PointInv == Unreported /\ Whole /\ PlaceOfKind /\ Capturing

ConnInv == PointInv /\ AccountedFor /\ MismatchIsNoLogin /\ SeedKept

Kinded == kind \in Kinds

\* The first report of a connection is the one appended.
LEMMA OneReport ==
  ASSUME NEW label, NEW given,
         reports = <<>>, Reported(label, given)
  PROVE  /\ reports' # <<>>
         /\ reports'[1].label = label
         /\ reports'[1].login = given
BY DEF Reported

(***************************************************************************)
(* Before the first frame is classified; a datagram is all there is.       *)
(***************************************************************************)
LEMMA OpeningKeeps ==
  ASSUME Kinded, ConnInv,
         \/ DropInternal \/ Greet \/ ServeDatagram \/ DropDatagram
         \/ ReadFrame \/ ReadMessage
  PROVE  ConnInv'
<1> USE DEF Kinded, Kinds, ServerFirst, ClientFirst, Extracting, Datagrams, ConnInv,
        PointInv, Unreported, Whole, PlaceOfKind, Capturing,
        AccountedFor, MismatchIsNoLogin, SeedKept, Over, Report, Asked
<1>1. CASE DropInternal
  BY <1>1 DEF DropInternal
<1>2. CASE Greet
  BY <1>2 DEF Greet
<1>3. CASE ReadFrame
  BY <1>3 DEF ReadFrame
<1>4. CASE ReadMessage
  <2>1. /\ pc = "reading" /\ kind = "http" /\ kind' = kind /\ internal' = internal
        /\ first' \in HttpFrames
    BY <1>4 DEF ReadMessage
  <2>2. CASE first' = "none" \/ first' = "http"
    <3>1. pc' = "closed" /\ \E label, given : Reported(label, given)
      BY <1>4, <2>2 DEF ReadMessage
    <3> QED BY <2>1, <3>1, OneReport
  <2>3. CASE first' # "none" /\ first' # "http"
    <3>1. pc' = "probe" /\ UNCHANGED <<lost, reports>>
      BY <1>4, <2>3 DEF ReadMessage
    <3> QED BY <2>1, <2>3, <3>1 DEF HttpFrames
  <2> QED BY <2>2, <2>3
<1>5. CASE ServeDatagram
  <2>1. /\ pc = "accepted" /\ pc' = "closed" /\ kind = "udp" /\ kind' = kind
        /\ Reported("own", creds')
    BY <1>5 DEF ServeDatagram
  <2> QED BY <2>1, OneReport
<1>6. CASE DropDatagram
  BY <1>6 DEF DropDatagram
<1> QED BY <1>1, <1>2, <1>3, <1>4, <1>5, <1>6

(***************************************************************************)
(* SSH, the exchanges of a client-first face and the probes of an HTTP     *)
(* port: no step of these takes a login from a frame of another protocol   *)
(* on a server-first face.                                                 *)
(***************************************************************************)
LEMMA ExchangesKeep ==
  ASSUME Kinded, ConnInv,
         \/ ServeSsh \/ AnswerFirst \/ Round \/ LeaveLoop \/ RecordExchange
         \/ AnswerProbe \/ CaptureProbe
  PROVE  ConnInv'
<1> USE DEF Kinded, Kinds, ServerFirst, ClientFirst, Extracting, Datagrams, ConnInv,
        PointInv, Unreported, Whole, PlaceOfKind, Capturing,
        AccountedFor, MismatchIsNoLogin, SeedKept, Over, Report, Asked, Read
<1>1. CASE ServeSsh
  <2>1. /\ pc = "classify" /\ pc' = "closed" /\ kind = "ssh" /\ kind' = kind
        /\ Reported(Label(first, "own"), creds')
    BY <1>1 DEF ServeSsh
  <2> QED BY <2>1, OneReport
<1>2. CASE AnswerFirst
  BY <1>2 DEF AnswerFirst
<1>3. CASE Round
  BY <1>3 DEF Round
<1>4. CASE LeaveLoop
  BY <1>4 DEF LeaveLoop
<1>5. CASE RecordExchange
  <2>1. /\ pc = "record" /\ pc' = "closed" /\ kind' = kind
        /\ Reported(Label(first, "empty"), creds)
    BY <1>5 DEF RecordExchange
  <2> QED BY <2>1, OneReport
<1>6. CASE AnswerProbe
  BY <1>6 DEF AnswerProbe, Interactive
<1>7. CASE CaptureProbe
  <2>1. /\ pc = "probeCapture" /\ pc' = "closed" /\ kind' = kind
        /\ Reported("probe", creds')
    BY <1>7 DEF CaptureProbe
  <2> QED BY <2>1, OneReport
<1> QED BY <1>1, <1>2, <1>3, <1>4, <1>5, <1>6, <1>7

(***************************************************************************)
(* A server-first face with an extractor: a frame of another protocol is   *)
(* reported instead of captured, and each further frame only adds to the   *)
(* buffer; through it to the login, if that is a text.                     *)
(***************************************************************************)
LEMMA CaptureKeeps ==
  ASSUME Kinded, ConnInv,
         AnswerServer \/ PairSplit \/ ReadChunk \/ EndCapture \/ CapturePlaintext
  PROVE  ConnInv'
<1> USE DEF Kinded, Kinds, ServerFirst, ClientFirst, Extracting, Datagrams, ConnInv,
        PointInv, Unreported, Whole, PlaceOfKind, Capturing,
        AccountedFor, MismatchIsNoLogin, SeedKept, Over, Report, Asked, Read
<1>1. CASE AnswerServer
  <2>1. /\ pc = "classify" /\ kind \in Extracting \cup {"banner"}
        /\ UNCHANGED <<kind, internal, first, seed>>
    BY <1>1 DEF AnswerServer
  <2>2. CASE kind \in Extracting /\ ~Mismatch(first)
    BY <1>1, <2>1, <2>2 DEF AnswerServer, Seeded, Mismatch
  <2>3. CASE ~(kind \in Extracting /\ ~Mismatch(first))
    <3>1. pc' = "closed" /\ Reported(Label(first, "empty"), {})
      BY <1>1, <2>3 DEF AnswerServer
    <3>2. first = "own" => kind \notin Extracting
      BY <2>3 DEF Mismatch
    <3>3. first \in {"http", "foreign"} => Label(first, "empty") = first
      BY DEF Label, Mismatch
    <3> QED BY <2>1, <3>1, <3>2, <3>3, OneReport
  <2> QED BY <2>2, <2>3
<1>2. CASE ReadChunk
  <2>1. /\ pc = "capture" /\ UNCHANGED <<kind, internal, first, seed>>
    BY <1>2 DEF ReadChunk
  <2>2. CASE /\ \E p \in SUBSET Parts : buf' = buf \cup p
             /\ creds' \in Extracted(buf')
             /\ UNCHANGED <<pc, reports>>
    <3>1. kind = "text" => seed \subseteq buf' /\ creds' = buf'
      BY <2>1, <2>2 DEF Extracted
    <3> QED BY <1>2, <2>1, <2>2, <3>1 DEF Mismatch, ReadChunk
  <2>3. CASE UNCHANGED <<buf, creds>> /\
             IF creds = {} THEN pc' = "plaintext" /\ UNCHANGED reports
                           ELSE pc' = "closed" /\ Reported("own", creds)
    BY <2>1, <2>3, OneReport DEF Mismatch
  <2> QED BY <1>2, <2>2, <2>3 DEF ReadChunk
<1>3. CASE EndCapture
  <2>1. /\ pc = "capture" /\ UNCHANGED <<kind, internal, first, seed, buf, creds>>
        /\ IF creds = {} THEN pc' = "plaintext" /\ UNCHANGED reports
                         ELSE pc' = "closed" /\ Reported("own", creds)
    BY <1>3 DEF EndCapture
  <2> QED BY <2>1, OneReport DEF Mismatch
<1>4. CASE CapturePlaintext
  <2>1. /\ pc = "plaintext" /\ pc' = "closed"
        /\ UNCHANGED <<kind, internal, first, seed>>
        /\ \E label, given : Reported(label, given)
    BY <1>4 DEF CapturePlaintext
  <2> QED BY <2>1, OneReport DEF Mismatch
<1>5. CASE PairSplit
  BY <1>5 DEF PairSplit, Mismatch
<1> QED BY <1>1, <1>2, <1>3, <1>4, <1>5

(***************************************************************************)
(* The types of the connection's state: a frame after the first one is     *)
(* read only below the limit of its face.                                  *)
(***************************************************************************)
LEMMA ReportTyped ==
  ASSUME reports = <<>>, NEW label \in Labels, NEW given \in SUBSET Parts,
         Reported(label, given)
  PROVE  reports' \in Seq(ReportRecord) /\ Len(reports') <= 1
BY DEF Reported, ReportRecord

\* Whatever the first frame was, there is a label for it.
LEMMA LabelTyped ==
  ASSUME first \in Frames, NEW idle \in {"own", "empty"}
  PROVE  Label(first, idle) \in Labels
BY DEF Label, Labels, Mismatch

\* Every step of the thread keeps the types.
LEMMA StepTyped ==
  ASSUME ConnectionAssumption, TypeOK, ConnInv, Next
  PROVE  TypeOK'
<1> USE DEF TypeOK, ConnectionAssumption, ConnInv, PointInv, Unreported, PlaceOfKind, Asked, Read
<1>1. CASE DropInternal \/ DropDatagram \/ Closed
  BY <1>1 DEF DropInternal, DropDatagram, Closed, vars
<1>2. CASE Greet
  BY <1>2 DEF Greet
<1>3. CASE ServeDatagram
  BY <1>3, ReportTyped DEF ServeDatagram, Frames, FaceFrames, Labels
<1>4. CASE ReadFrame
  BY <1>4 DEF ReadFrame, Frames
<1>5. CASE ServeSsh
  BY <1>5, ReportTyped, LabelTyped DEF ServeSsh
<1>6. CASE AnswerFirst
  BY <1>6 DEF AnswerFirst, Offered
<1>7. CASE Round
  BY <1>7 DEF Round, Offered, RoundLeft, NextRound
<1>8. CASE LeaveLoop
  BY <1>8 DEF LeaveLoop
<1>9. CASE RecordExchange
  BY <1>9, ReportTyped, LabelTyped DEF RecordExchange
<1>10. CASE AnswerServer
  <2>1. /\ pc = "classify" /\ lost' \in BOOLEAN
        /\ UNCHANGED <<kind, internal, first, seed, rounds, heard>>
    BY <1>10 DEF AnswerServer
  <2>2. CASE kind \in Extracting /\ ~Mismatch(first)
    BY <1>10, <2>1, <2>2 DEF AnswerServer, Seeded
  <2>3. CASE ~(kind \in Extracting /\ ~Mismatch(first))
    <3>1. /\ pc' = "closed" /\ Reported(Label(first, "empty"), {})
          /\ UNCHANGED <<buf, creds>>
      BY <1>10, <2>3 DEF AnswerServer
    <3>2. reports' \in Seq(ReportRecord) /\ Len(reports') <= 1
      BY <2>1, <3>1, ReportTyped, LabelTyped
    <3> QED BY <2>1, <3>1, <3>2
  <2> QED BY <2>2, <2>3
<1>11. CASE ReadChunk
  <2>1. /\ pc = "capture" /\ rounds' \in 0 .. MaxRounds + MaxChunks /\ heard' \in BOOLEAN
        /\ UNCHANGED <<kind, internal, first, seed, lost>>
    BY <1>11 DEF ReadChunk, NextRound
  <2>2. CASE /\ \E p \in SUBSET Parts : buf' = buf \cup p
             /\ creds' \in Extracted(buf')
             /\ UNCHANGED <<pc, reports>>
    <3>1. buf' \subseteq Parts /\ creds' \subseteq Parts
      BY <2>2 DEF Extracted
    <3> QED BY <2>1, <2>2, <3>1
  <2>3. CASE /\ IF creds = {} THEN pc' = "plaintext" /\ UNCHANGED reports
                              ELSE pc' = "closed" /\ Reported("own", creds)
             /\ UNCHANGED <<buf, creds>>
    <3>1. reports' \in Seq(ReportRecord) /\ Len(reports') <= 1
      BY <2>1, <2>3, ReportTyped DEF Labels
    <3> QED BY <2>1, <2>3, <3>1
  <2> QED BY <1>11, <2>2, <2>3 DEF ReadChunk
<1>12. CASE EndCapture
  BY <1>12, ReportTyped DEF EndCapture, Labels
<1>13. CASE CapturePlaintext
  BY <1>13, ReportTyped, LabelTyped DEF CapturePlaintext, Labels
<1>14. CASE ReadMessage
  BY <1>14, ReportTyped DEF ReadMessage, Labels, Frames, HttpFrames
<1>15. CASE AnswerProbe \/ CaptureProbe
  BY <1>15, ReportTyped DEF AnswerProbe, CaptureProbe, Labels
<1>16. CASE PairSplit
  BY <1>16 DEF PairSplit
<1> QED
  BY <1>1, <1>2, <1>3, <1>4, <1>5, <1>6, <1>7, <1>8, <1>9, <1>10, <1>11, <1>12,
     <1>13, <1>14, <1>15, <1>16 DEF Next, Step

\* Every step of the thread keeps ConnInv.
LEMMA ConnInvHolds == Init /\ [][Next]_vars => [](Kinded /\ ConnInv)
<1>1. Init => Kinded /\ ConnInv
  BY DEF Init, Kinded, ConnInv, PointInv, Unreported, Whole, PlaceOfKind,
         Capturing, AccountedFor, MismatchIsNoLogin, SeedKept, Over
<1>2. Kinded /\ ConnInv /\ [Next]_vars => (Kinded /\ ConnInv)'
  <2> SUFFICES ASSUME Kinded, ConnInv, [Next]_vars
               PROVE  (Kinded /\ ConnInv)'
    OBVIOUS
  <2>1. CASE UNCHANGED vars
    BY <2>1 DEF vars, Kinded, ConnInv, PointInv, Unreported, Whole, PlaceOfKind,
       Capturing, AccountedFor, MismatchIsNoLogin, SeedKept, Over, Report
  <2>2. CASE Step
    <3>1. kind' = kind
      BY <2>2 DEF Step, DropInternal, Greet, ServeDatagram, DropDatagram, ReadFrame, ServeSsh, AnswerFirst,
         Round, LeaveLoop, RecordExchange, AnswerServer, PairSplit, ReadChunk, EndCapture,
         CapturePlaintext, ReadMessage, AnswerProbe, CaptureProbe, Asked
    <3> QED
      BY <2>2, <3>1, OpeningKeeps, ExchangesKeep, CaptureKeeps DEF Step, Kinded
  <2> QED BY <2>1, <2>2 DEF Next, Closed
<1> QED BY <1>1, <1>2, PTL

(***************************************************************************)
(* The connection's variables keep their types, the frames read after the  *)
(* first their limit, and there is one report at most.                     *)
(***************************************************************************)
THEOREM ConnectionTypeOK == Init /\ [][Next]_vars => []TypeOK
<1>1. ConnectionAssumption
  BY SensorAssumption
<1>2. Init => TypeOK
  <2>1. 0 \in 0 .. MaxRounds + MaxChunks
    BY <1>1, SMT DEF ConnectionAssumption
  <2>2. << >> \in Seq(ReportRecord) /\ Len(<< >>) = 0
    BY EmptySeq
  <2>3. ASSUME Init  PROVE TypeOK
    <3>1. reports \in Seq(ReportRecord) /\ Len(reports) <= 1
      BY <2>2, <2>3 DEF Init
    <3> QED BY <2>1, <2>3, <3>1 DEF Init, TypeOK, Frames
  <2> QED BY <2>3
<1>3. TypeOK /\ Kinded /\ ConnInv /\ [Next]_vars => TypeOK'
  <2>1. CASE UNCHANGED vars
    BY <2>1 DEF vars, TypeOK
  <2>2. CASE Next
    BY <1>1, <2>2, StepTyped
  <2> QED BY <2>1, <2>2
<1> QED BY <1>2, <1>3, ConnInvHolds, PTL

(***************************************************************************)
(* The four ways to end unreported are the only ones.                      *)
(***************************************************************************)
THEOREM AccountedForHolds == Init /\ [][Next]_vars => []AccountedFor
<1>1. ConnInv => AccountedFor
  BY DEF ConnInv
<1> QED BY <1>1, ConnInvHolds, PTL

(***************************************************************************)
(* No frame of another protocol becomes a login of a server-first face.    *)
(***************************************************************************)
THEOREM MismatchIsNoLoginHolds == Init /\ [][Next]_vars => []MismatchIsNoLogin
<1>1. ConnInv => MismatchIsNoLogin
  BY DEF ConnInv
<1> QED BY <1>1, ConnInvHolds, PTL

(***************************************************************************)
(* A half of a login that the first frame offered to a face with a text    *)
(* extractor is not missing from the login that is reported.               *)
(***************************************************************************)
THEOREM SeedKeptHolds == Init /\ [][Next]_vars => []SeedKept
<1>1. ConnInv => SeedKept
  BY DEF ConnInv
<1> QED BY <1>1, ConnInvHolds, PTL

(***************************************************************************)
(* What a connection thread has left to do at most: the points it may      *)
(* still pass, and the rounds and login frames of its loops.               *)
(***************************************************************************)
PointsLeft ==
  CASE pc = "accepted" -> 5
    [] pc = "reading" -> 4
    [] pc = "classify" -> 3
    [] pc \in {"loop", "capture", "probe"} -> 2
    [] pc \in {"record", "plaintext", "probeCapture"} -> 1
    [] pc = "closed" -> 0
Left == PointsLeft + (MaxRounds + MaxChunks - rounds)

\* A loop is never past its limit, and only a loop counts.
LEMMA LeftIsCounted ==
  ASSUME TypeOK
  PROVE  PointsLeft \in 0 .. 5 /\ Left \in Nat
<1>1. MaxRounds \in Nat /\ MaxChunks \in Nat
  BY SensorAssumption DEF ConnectionAssumption
<1>2. PointsLeft \in 0 .. 5
  BY DEF TypeOK, PointsLeft
<1>3. rounds \in 0 .. MaxRounds + MaxChunks
  BY DEF TypeOK
<1> HIDE DEF PointsLeft
<1> QED BY <1>1, <1>2, <1>3 DEF Left

(***************************************************************************)
(* Whatever the peer does, each step of its thread leaves less to do: the  *)
(* thread closes after at most five points, a round for each pass of the   *)
(* exchange loop (_handle_non_http_connection) and one for each login      *)
(* frame (the loop of _capture_credentials), whether the peer idles or     *)
(* never stops.  ThreadEnds rests on this and on the reads' timeouts.      *)
(***************************************************************************)
THEOREM ThreadShrinks ==
  Init /\ [][Next]_vars =>
    [](Left \in 0 .. 5 + MaxRounds + MaxChunks) /\ [][Step => Left' < Left]_vars
<1>1. MaxRounds \in Nat /\ MaxChunks \in Nat
  BY SensorAssumption DEF ConnectionAssumption
<1>2. TypeOK => Left \in 0 .. 5 + MaxRounds + MaxChunks
  <2> SUFFICES ASSUME TypeOK  PROVE Left \in 0 .. 5 + MaxRounds + MaxChunks
    OBVIOUS
  <2>1. PointsLeft \in 0 .. 5 /\ rounds \in 0 .. MaxRounds + MaxChunks
    BY LeftIsCounted DEF TypeOK
  <2> HIDE DEF PointsLeft
  <2> QED BY <1>1, <2>1 DEF Left
<1>3. TypeOK /\ TypeOK' /\ Step => Left' < Left
  <2> SUFFICES ASSUME TypeOK, TypeOK', Step
               PROVE  Left' < Left
    OBVIOUS
  <2>1. /\ rounds \in Nat /\ rounds' \in Nat
        /\ PointsLeft \in Nat /\ PointsLeft' \in Nat
    BY <1>1, LeftIsCounted DEF TypeOK, PointsLeft
  <2>2. \/ rounds' = rounds /\ PointsLeft' < PointsLeft
        \/ rounds' = rounds + 1 /\ PointsLeft' <= PointsLeft
    <3>1. CASE DropInternal
      BY <3>1 DEF DropInternal, PointsLeft
    <3>2. CASE Greet
      BY <3>2 DEF Greet, PointsLeft
    <3>3. CASE ServeDatagram
      BY <3>3 DEF ServeDatagram, PointsLeft
    <3>4. CASE DropDatagram
      BY <3>4 DEF DropDatagram, PointsLeft
    <3>5. CASE ReadFrame
      BY <3>5 DEF ReadFrame, PointsLeft
    <3>6. CASE ServeSsh
      BY <3>6 DEF ServeSsh, PointsLeft
    <3>7. CASE AnswerFirst
      BY <3>7 DEF AnswerFirst, PointsLeft
    <3>8. CASE Round
      BY <3>8 DEF Round, NextRound, PointsLeft
    <3>9. CASE LeaveLoop
      BY <3>9 DEF LeaveLoop, PointsLeft
    <3>10. CASE RecordExchange
      BY <3>10 DEF RecordExchange, PointsLeft
    <3>11. CASE AnswerServer
      BY <3>11 DEF AnswerServer, PointsLeft
    <3>12. CASE ReadChunk
      BY <3>12 DEF ReadChunk, NextRound, PointsLeft
    <3>13. CASE EndCapture
      BY <3>13 DEF EndCapture, PointsLeft
    <3>14. CASE CapturePlaintext
      BY <3>14 DEF CapturePlaintext, PointsLeft
    <3>15. CASE ReadMessage
      BY <3>15 DEF ReadMessage, PointsLeft
    <3>16. CASE AnswerProbe
      BY <3>16 DEF AnswerProbe, PointsLeft
    <3>17. CASE CaptureProbe
      BY <3>17 DEF CaptureProbe, PointsLeft
    <3>18. CASE PairSplit
      BY <3>18 DEF PairSplit, PointsLeft
    <3> QED BY <3>1, <3>2, <3>3, <3>4, <3>5, <3>6, <3>7, <3>8, <3>9, <3>10, <3>11, <3>12,
               <3>13, <3>14, <3>15, <3>16, <3>17, <3>18 DEF Step
  <2>3. /\ Left = PointsLeft + (MaxRounds + MaxChunks - rounds)
        /\ Left' = PointsLeft' + (MaxRounds + MaxChunks - rounds')
    BY Zenon DEF Left
  <2>4. \A p, n, r, s \in Nat :
          \/ s = r /\ n < p
          \/ s = r + 1 /\ n <= p
          => n + (MaxRounds + MaxChunks - s) < p + (MaxRounds + MaxChunks - r)
    BY <1>1
  <2> HIDE DEF PointsLeft, Left
  <2> QED BY <2>1, <2>2, <2>3, <2>4
<1> QED BY <1>2, <1>3, ConnectionTypeOK, PTL

-----------------------------------------------------------------------------
(***************************************************************************)
(* The HTTP request.                                                       *)
(***************************************************************************)

\* A set of numbers that is not empty has a smallest one.
LEMMA SmallestInSet ==
  ASSUME NEW S, S \subseteq Nat, S # {}
  PROVE  \E x \in S : \A y \in S : x <= y
<1>1. PICK x \in S : \A y \in S : ~ (<<y, x>> \in OpToRel(<, Nat))
  BY NatLessThanWellFounded, WFMin, Zenon
<1>2. \A y \in S : ~ (y < x)
  BY <1>1 DEF OpToRel
<1>3. \A y \in S : x <= y
  BY <1>2
<1> QED BY <1>3

(***************************************************************************)
(* A chain of n pairs whose last condition holds, and that gives the word  *)
(* at place k only.                                                        *)
(***************************************************************************)
Chain(chain, n, k, word) ==
  /\ DOMAIN chain = 1 .. n
  /\ chain[n][1]
  /\ \A i \in 1 .. n : chain[i][2] = word => i = k

\* FirstOf gives the word only if the condition at that place holds.
LEMMA FirstHolds ==
  ASSUME NEW chain, NEW n \in Nat \ {0}, NEW k, NEW word, Chain(chain, n, k, word),
         Http!FirstOf(chain) = word
  PROVE  chain[k][1] /\ chain[k][2] = word
<1> DEFINE holds == {i \in DOMAIN chain : chain[i][1]}
           found == CHOOSE i \in holds : \A j \in holds : i <= j
<1>1. holds \subseteq Nat /\ n \in holds
  BY DEF Chain
<1>2. found \in holds
  BY <1>1, SmallestInSet
<1>3. Http!FirstOf(chain) = chain[found][2]
  BY DEF Http!FirstOf
<1>4. found \in 1 .. n /\ chain[found][1]
  BY <1>2 DEF Chain
<1>5. chain[found][2] = word
  BY <1>3
<1> HIDE DEF found, holds
<1> QED BY <1>4, <1>5 DEF Chain

(***************************************************************************)
(* What can be said of the outcome of any face for any request, whatever   *)
(* its path, fields, words and headers are: credentials are captured only  *)
(* from a login that the report sees as well, but for Basic credentials and *)
(* the fields of two products; and nothing but a path beyond Latin-1, a    *)
(* batch of JSON-RPC and a login to Tomcat makes a handler raise.          *)
(***************************************************************************)
Fair(q, outcome) ==
  /\ outcome.captured =>
       \/ Http!Credentials(q)
       \/ q.authorization = "basic"
       \/ outcome.service \in {"magento", "coldfusion"}
  /\ outcome.raised =>
       Http!Wide(q) \/ "json_list" \in q.marks \/ Http!In(q, {"j_security_check"})

\* The faces of content-management systems and web frameworks,
LEMMA ContentFacesAreFair ==
  ASSUME NEW q
  PROVE  /\ Fair(q, Http!Nextjs(q))
         /\ Fair(q, Http!WordPress(q))
         /\ Fair(q, Http!PhpMyAdmin(q))
         /\ Fair(q, Http!Drupal(q))
         /\ Fair(q, Http!Bitrix(q))
         /\ Fair(q, Http!Magento(q))
         /\ Fair(q, Http!Laravel(q))
         /\ Fair(q, Http!ThinkPHP(q))
         /\ Fair(q, Http!Joomla(q))
         /\ Fair(q, Http!ColdFusion(q))
         /\ Fair(q, Http!SharePoint(q))
<1>1. Fair(q, Http!Nextjs(q))
  <2>1. Chain(Http!NextjsPage(q), 8, 1, "failed")
    BY DEF Chain, Http!NextjsPage
  <2>2. Http!FirstOf(Http!NextjsPage(q)) = "failed" => Http!NextjsPage(q)[1][1]
    BY <2>1, FirstHolds
  <2>3. Http!NextjsPage(q)[1][1] => Http!Credentials(q)
    BY DEF Http!NextjsPage
  <2> QED BY <2>2, <2>3 DEF Fair, Http!Nextjs, Http!Answer, Http!Unencodable
<1>2. Fair(q, Http!WordPress(q))
  <2>1. Chain(Http!WordPressPage(q), 9, 1, "failed")
    BY DEF Chain, Http!WordPressPage
  <2>2. Http!FirstOf(Http!WordPressPage(q)) = "failed" => Http!WordPressPage(q)[1][1]
    BY <2>1, FirstHolds
  <2>3. Http!WordPressPage(q)[1][1] => Http!Credentials(q)
    BY DEF Http!WordPressPage
  <2> QED BY <2>2, <2>3 DEF Fair, Http!WordPress, Http!Answer, Http!Unencodable
<1>3. Fair(q, Http!PhpMyAdmin(q))
  <2>1. Chain(Http!PhpMyAdminPage(q), 4, 1, "failed")
    BY DEF Chain, Http!PhpMyAdminPage
  <2>2. Http!FirstOf(Http!PhpMyAdminPage(q)) = "failed" => Http!PhpMyAdminPage(q)[1][1]
    BY <2>1, FirstHolds
  <2>3. Http!PhpMyAdminPage(q)[1][1] => Http!Credentials(q)
    BY DEF Http!PhpMyAdminPage
  <2> QED BY <2>2, <2>3 DEF Fair, Http!PhpMyAdmin, Http!Answer
<1>4. Fair(q, Http!Drupal(q))
  <2>1. Chain(Http!DrupalPage(q), 9, 1, "failed")
    BY DEF Chain, Http!DrupalPage
  <2>2. Http!FirstOf(Http!DrupalPage(q)) = "failed" => Http!DrupalPage(q)[1][1]
    BY <2>1, FirstHolds
  <2>3. Http!DrupalPage(q)[1][1] => Http!Credentials(q)
    BY DEF Http!DrupalPage
  <2> QED BY <2>2, <2>3 DEF Fair, Http!Drupal, Http!Answer
<1>5. Fair(q, Http!Bitrix(q))
  <2>1. Chain(Http!BitrixPage(q), 5, 1, "failed")
    BY DEF Chain, Http!BitrixPage
  <2>2. Http!FirstOf(Http!BitrixPage(q)) = "failed" => Http!BitrixPage(q)[1][1]
    BY <2>1, FirstHolds
  <2>3. Http!BitrixPage(q)[1][1] => Http!Credentials(q)
    BY DEF Http!BitrixPage
  <2> QED BY <2>2, <2>3 DEF Fair, Http!Bitrix, Http!Answer
<1>6. Fair(q, Http!Magento(q))
  <2>1. Chain(Http!MagentoPage(q), 5, 1, "failed")
    BY DEF Chain, Http!MagentoPage
  <2>2. Http!FirstOf(Http!MagentoPage(q)) = "failed" => Http!MagentoPage(q)[1][1]
    BY <2>1, FirstHolds
  <2>3. Http!MagentoPage(q)[1][1] => Http!MagentoCredentials(q)
    BY DEF Http!MagentoPage
  <2> QED BY <2>2, <2>3 DEF Fair, Http!Magento, Http!Answer
<1>7. Fair(q, Http!Laravel(q))
  <2>1. Chain(Http!LaravelPage(q), 7, 1, "failed")
    BY DEF Chain, Http!LaravelPage
  <2>2. Http!FirstOf(Http!LaravelPage(q)) = "failed" => Http!LaravelPage(q)[1][1]
    BY <2>1, FirstHolds
  <2>3. Http!LaravelPage(q)[1][1] => Http!Credentials(q)
    BY DEF Http!LaravelPage
  <2> QED BY <2>2, <2>3 DEF Fair, Http!Laravel, Http!Answer
<1>8. Fair(q, Http!ThinkPHP(q))
  <2>1. Chain(Http!ThinkPHPPage(q), 3, 1, "failed")
    BY DEF Chain, Http!ThinkPHPPage
  <2>2. Http!FirstOf(Http!ThinkPHPPage(q)) = "failed" => Http!ThinkPHPPage(q)[1][1]
    BY <2>1, FirstHolds
  <2>3. Http!ThinkPHPPage(q)[1][1] => Http!Credentials(q)
    BY DEF Http!ThinkPHPPage
  <2> QED BY <2>2, <2>3 DEF Fair, Http!ThinkPHP, Http!Answer
<1>9. Fair(q, Http!Joomla(q))
  <2>1. Chain(Http!JoomlaPage(q), 8, 1, "uploaded")
    BY DEF Chain, Http!JoomlaPage
  <2>2. Http!FirstOf(Http!JoomlaPage(q)) = "uploaded" => Http!JoomlaPage(q)[1][1]
    BY <2>1, FirstHolds
  <2>3. Http!JoomlaPage(q)[1][1] => Http!Credentials(q)
    BY DEF Http!JoomlaPage
  <2> QED BY <2>2, <2>3 DEF Fair, Http!Joomla, Http!Answer
<1>10. Fair(q, Http!ColdFusion(q))
  <2>1. Chain(Http!ColdFusionPage(q), 8, 1, "logged_in")
    BY DEF Chain, Http!ColdFusionPage
  <2>2. Http!FirstOf(Http!ColdFusionPage(q)) = "logged_in" => Http!ColdFusionPage(q)[1][1]
    BY <2>1, FirstHolds
  <2>3. Http!ColdFusionPage(q)[1][1] => Http!ColdFusionCredentials(q)
    BY DEF Http!ColdFusionPage
  <2> QED BY <2>2, <2>3 DEF Fair, Http!ColdFusion, Http!Answer
<1>11. Fair(q, Http!SharePoint(q))
  <2>1. Chain(Http!SharePointPage(q), 8, 2, "logged_in")
    BY DEF Chain, Http!SharePointPage
  <2>2. Http!FirstOf(Http!SharePointPage(q)) = "logged_in" => Http!SharePointPage(q)[2][1]
    BY <2>1, FirstHolds
  <2>3. Http!SharePointPage(q)[2][1] => Http!Credentials(q)
    BY DEF Http!SharePointPage
  <2> QED BY <2>2, <2>3 DEF Fair, Http!SharePoint, Http!Answer
<1> QED BY <1>1, <1>2, <1>3, <1>4, <1>5, <1>6, <1>7, <1>8, <1>9, <1>10, <1>11

\* the administration consoles,
LEMMA ConsolesAreFair ==
  ASSUME NEW q
  PROVE  /\ Fair(q, Http!Grafana(q))
         /\ Fair(q, Http!Langflow(q))
         /\ Fair(q, Http!Jenkins(q))
         /\ Fair(q, Http!Tomcat(q))
         /\ Fair(q, Http!CPanel(q))
         /\ Fair(q, Http!WebDAV(q))
         /\ Fair(q, Http!DBAdmin(q))
         /\ Fair(q, Http!Atlassian(q))
         /\ Fair(q, Http!RedisAdmin(q))
         /\ Fair(q, Http!Solr(q))
         /\ Fair(q, Http!Plex(q))
         /\ Fair(q, Http!Jupyter(q))
         /\ Fair(q, Http!RabbitMQ(q))
         /\ Fair(q, Http!GitLab(q))
         /\ Fair(q, Http!Zabbix(q))
         /\ Fair(q, Http!Splunk(q))
<1>1. Fair(q, Http!Grafana(q))
  <2>1. Chain(Http!GrafanaPage(q), 5, 1, "failed")
    BY DEF Chain, Http!GrafanaPage
  <2>2. Http!FirstOf(Http!GrafanaPage(q)) = "failed" => Http!GrafanaPage(q)[1][1]
    BY <2>1, FirstHolds
  <2>3. Http!GrafanaPage(q)[1][1] => Http!Credentials(q)
    BY DEF Http!GrafanaPage
  <2> QED BY <2>2, <2>3 DEF Fair, Http!Grafana, Http!Answer
<1>2. Fair(q, Http!Langflow(q))
  BY DEF Fair, Http!Langflow, Http!Answer
<1>3. Fair(q, Http!Jenkins(q))
  <2>1. Chain(Http!JenkinsPage(q), 8, 1, "failed")
    BY DEF Chain, Http!JenkinsPage
  <2>2. Http!FirstOf(Http!JenkinsPage(q)) = "failed" => Http!JenkinsPage(q)[1][1]
    BY <2>1, FirstHolds
  <2>3. Http!JenkinsPage(q)[1][1] => Http!Credentials(q)
    BY DEF Http!JenkinsPage
  <2> QED BY <2>2, <2>3 DEF Fair, Http!Jenkins, Http!Answer
<1>4. Fair(q, Http!Tomcat(q))
  <2>1. Chain(Http!TomcatPage(q), 7, 1, "failed")
    BY DEF Chain, Http!TomcatPage
  <2>2. Http!FirstOf(Http!TomcatPage(q)) = "failed" => Http!TomcatPage(q)[1][1]
    BY <2>1, FirstHolds
  <2>3. Http!TomcatPage(q)[1][1] => Http!Credentials(q) /\ Http!In(q, {"j_security_check"})
    BY DEF Http!TomcatPage
  <2> QED BY <2>2, <2>3 DEF Fair, Http!Tomcat, Http!Answer, Http!Unencodable
<1>5. Fair(q, Http!CPanel(q))
  <2>1. Chain(Http!CPanelPage(q), 4, 1, "failed")
    BY DEF Chain, Http!CPanelPage
  <2>2. Http!FirstOf(Http!CPanelPage(q)) = "failed" => Http!CPanelPage(q)[1][1]
    BY <2>1, FirstHolds
  <2>3. Http!CPanelPage(q)[1][1] => Http!Credentials(q)
    BY DEF Http!CPanelPage
  <2> QED BY <2>2, <2>3 DEF Fair, Http!CPanel, Http!Answer
<1>6. Fair(q, Http!WebDAV(q))
  <2>1. Chain(Http!WebDAVPage(q), 13, 6, "failed")
    BY DEF Chain, Http!WebDAVPage
  <2>2. Http!FirstOf(Http!WebDAVPage(q)) = "failed" => Http!WebDAVPage(q)[6][1]
    BY <2>1, FirstHolds
  <2>3. Http!WebDAVPage(q)[6][1] => Http!Credentials(q)
    BY DEF Http!WebDAVPage
  <2> QED BY <2>2, <2>3 DEF Fair, Http!WebDAV, Http!Answer
<1>7. Fair(q, Http!DBAdmin(q))
  <2>1. Chain(Http!DBAdminPage(q), 3, 2, "failed")
    BY DEF Chain, Http!DBAdminPage
  <2>2. Http!FirstOf(Http!DBAdminPage(q)) = "failed" => Http!DBAdminPage(q)[2][1]
    BY <2>1, FirstHolds
  <2>3. Http!DBAdminPage(q)[2][1] => Http!Credentials(q)
    BY DEF Http!DBAdminPage
  <2> QED BY <2>2, <2>3 DEF Fair, Http!DBAdmin, Http!Answer
<1>8. Fair(q, Http!Atlassian(q))
  <2>1. Chain(Http!AtlassianPage(q), 5, 1, "failed")
    BY DEF Chain, Http!AtlassianPage
  <2>2. Http!FirstOf(Http!AtlassianPage(q)) = "failed" => Http!AtlassianPage(q)[1][1]
    BY <2>1, FirstHolds
  <2>3. Http!AtlassianPage(q)[1][1] => Http!Credentials(q)
    BY DEF Http!AtlassianPage
  <2> QED BY <2>2, <2>3 DEF Fair, Http!Atlassian, Http!Answer
<1>9. Fair(q, Http!RedisAdmin(q))
  <2>1. Chain(Http!RedisAdminPage(q), 5, 1, "failed")
    BY DEF Chain, Http!RedisAdminPage
  <2>2. Http!FirstOf(Http!RedisAdminPage(q)) = "failed" => Http!RedisAdminPage(q)[1][1]
    BY <2>1, FirstHolds
  <2>3. Http!RedisAdminPage(q)[1][1] => Http!Credentials(q)
    BY DEF Http!RedisAdminPage
  <2> QED BY <2>2, <2>3 DEF Fair, Http!RedisAdmin, Http!Answer
<1>10. Fair(q, Http!Solr(q))
  <2>1. Chain(Http!SolrPage(q), 6, 1, "failed")
    BY DEF Chain, Http!SolrPage
  <2>2. Http!FirstOf(Http!SolrPage(q)) = "failed" => Http!SolrPage(q)[1][1]
    BY <2>1, FirstHolds
  <2>3. Http!SolrPage(q)[1][1] => Http!Credentials(q)
    BY DEF Http!SolrPage
  <2> QED BY <2>2, <2>3 DEF Fair, Http!Solr, Http!Answer
<1>11. Fair(q, Http!Plex(q))
  <2>1. Chain(Http!PlexPage(q), 9, 1, "failed")
    BY DEF Chain, Http!PlexPage
  <2>2. Http!FirstOf(Http!PlexPage(q)) = "failed" => Http!PlexPage(q)[1][1]
    BY <2>1, FirstHolds
  <2>3. Http!PlexPage(q)[1][1] => Http!Credentials(q)
    BY DEF Http!PlexPage
  <2> QED BY <2>2, <2>3 DEF Fair, Http!Plex, Http!Answer
<1>12. Fair(q, Http!Jupyter(q))
  <2>1. Chain(Http!JupyterPage(q), 5, 1, "failed")
    BY DEF Chain, Http!JupyterPage
  <2>2. Http!FirstOf(Http!JupyterPage(q)) = "failed" => Http!JupyterPage(q)[1][1]
    BY <2>1, FirstHolds
  <2>3. Http!JupyterPage(q)[1][1] => Http!Credentials(q)
    BY DEF Http!JupyterPage
  <2> QED BY <2>2, <2>3 DEF Fair, Http!Jupyter, Http!Answer
<1>13. Fair(q, Http!RabbitMQ(q))
  <2>1. Chain(Http!RabbitMQPage(q), 7, 1, "failed")
    BY DEF Chain, Http!RabbitMQPage
  <2>2. Http!FirstOf(Http!RabbitMQPage(q)) = "failed" => Http!RabbitMQPage(q)[1][1]
    BY <2>1, FirstHolds
  <2>3. Http!RabbitMQPage(q)[1][1] => Http!Credentials(q)
    BY DEF Http!RabbitMQPage
  <2> QED BY <2>2, <2>3 DEF Fair, Http!RabbitMQ, Http!Answer
<1>14. Fair(q, Http!GitLab(q))
  <2>1. Chain(Http!GitLabPage(q), 10, 1, "failed")
    BY DEF Chain, Http!GitLabPage
  <2>2. Http!FirstOf(Http!GitLabPage(q)) = "failed" => Http!GitLabPage(q)[1][1]
    BY <2>1, FirstHolds
  <2>3. Http!GitLabPage(q)[1][1] => Http!Credentials(q)
    BY DEF Http!GitLabPage
  <2> QED BY <2>2, <2>3 DEF Fair, Http!GitLab, Http!Answer
<1>15. Fair(q, Http!Zabbix(q))
  <2>1. Chain(Http!ZabbixPage(q), 5, 1, "failed")
    BY DEF Chain, Http!ZabbixPage
  <2>2. Http!FirstOf(Http!ZabbixPage(q)) = "failed" => Http!ZabbixPage(q)[1][1]
    BY <2>1, FirstHolds
  <2>3. Http!ZabbixPage(q)[1][1] => Http!Credentials(q)
    BY DEF Http!ZabbixPage
  <2> QED BY <2>2, <2>3 DEF Fair, Http!Zabbix, Http!Answer, Http!Unencodable
<1>16. Fair(q, Http!Splunk(q))
  <2>1. Chain(Http!SplunkPage(q), 7, 2, "logged_in")
    BY DEF Chain, Http!SplunkPage
  <2>2. Http!FirstOf(Http!SplunkPage(q)) = "logged_in" => Http!SplunkPage(q)[2][1]
    BY <2>1, FirstHolds
  <2>3. Http!SplunkPage(q)[2][1] => Http!Credentials(q)
    BY DEF Http!SplunkPage
  <2> QED BY <2>2, <2>3 DEF Fair, Http!Splunk, Http!Answer
<1> QED BY <1>1, <1>2, <1>3, <1>4, <1>5, <1>6, <1>7, <1>8, <1>9, <1>10, <1>11, <1>12, <1>13, <1>14, <1>15, <1>16

\* the infrastructure,
LEMMA InfrastructureIsFair ==
  ASSUME NEW q
  PROVE  /\ Fair(q, Http!Kubernetes(q))
         /\ Fair(q, Http!Docker(q))
         /\ Fair(q, Http!Mcp(q))
         /\ Fair(q, Http!Iot(q))
         /\ Fair(q, Http!NginxProbe(q))
         /\ Fair(q, Http!Spring(q))
         /\ Fair(q, Http!Aws(q))
         /\ Fair(q, Http!Hnap(q))
         /\ Fair(q, Http!Squid(q))
         /\ Fair(q, Http!Elastic(q))
         /\ Fair(q, Http!Nginx(q))
         /\ Fair(q, Http!Fortinet(q))
         /\ Fair(q, Http!Citrix(q))
<1>1. Fair(q, Http!Kubernetes(q))
  <2>1. Chain(Http!KubernetesPage(q), 9, 1, "failed")
    BY DEF Chain, Http!KubernetesPage
  <2>2. Http!FirstOf(Http!KubernetesPage(q)) = "failed" => Http!KubernetesPage(q)[1][1]
    BY <2>1, FirstHolds
  <2>3. Http!KubernetesPage(q)[1][1] => Http!Credentials(q)
    BY DEF Http!KubernetesPage
  <2> QED BY <2>2, <2>3 DEF Fair, Http!Kubernetes, Http!Answer
<1>2. Fair(q, Http!Docker(q))
  <2>1. Chain(Http!DockerPage(q), 8, 1, "failed")
    BY DEF Chain, Http!DockerPage
  <2>2. Http!FirstOf(Http!DockerPage(q)) = "failed" => Http!DockerPage(q)[1][1]
    BY <2>1, FirstHolds
  <2>3. Http!DockerPage(q)[1][1] => Http!Credentials(q)
    BY DEF Http!DockerPage
  <2> QED BY <2>2, <2>3 DEF Fair, Http!Docker, Http!Answer
<1>3. Fair(q, Http!Mcp(q))
  BY DEF Fair, Http!Mcp, Http!Answer
<1>4. Fair(q, Http!Iot(q))
  <2>1. Chain(Http!IotPage(q), 5, 1, "failed")
    BY DEF Chain, Http!IotPage
  <2>2. Http!FirstOf(Http!IotPage(q)) = "failed" => Http!IotPage(q)[1][1]
    BY <2>1, FirstHolds
  <2>3. Http!IotPage(q)[1][1] => Http!Credentials(q)
    BY DEF Http!IotPage
  <2> QED BY <2>2, <2>3 DEF Fair, Http!Iot, Http!Answer
<1>5. Fair(q, Http!NginxProbe(q))
  BY DEF Fair, Http!NginxProbe, Http!Answer, Http!OnePage
<1>6. Fair(q, Http!Spring(q))
  BY DEF Fair, Http!Spring, Http!Answer, Http!OnePage
<1>7. Fair(q, Http!Aws(q))
  BY DEF Fair, Http!Aws, Http!Answer, Http!OnePage
<1>8. Fair(q, Http!Hnap(q))
  BY DEF Fair, Http!Hnap, Http!Answer
<1>9. Fair(q, Http!Squid(q))
  <2>1. Chain(Http!SquidPage(q), 3, 1, "failed")
    BY DEF Chain, Http!SquidPage
  <2>2. Http!FirstOf(Http!SquidPage(q)) = "failed" => Http!SquidPage(q)[1][1]
    BY <2>1, FirstHolds
  <2>3. Http!SquidPage(q)[1][1] => Http!Credentials(q)
    BY DEF Http!SquidPage
  <2> QED BY <2>2, <2>3 DEF Fair, Http!Squid, Http!Answer, Http!Unencodable
<1>10. Fair(q, Http!Elastic(q))
  <2>1. Chain(Http!ElasticPage(q), 18, 1, "failed")
    BY DEF Chain, Http!ElasticPage
  <2>2. Http!FirstOf(Http!ElasticPage(q)) = "failed" => Http!ElasticPage(q)[1][1]
    BY <2>1, FirstHolds
  <2>3. Http!ElasticPage(q)[1][1] => Http!Credentials(q)
    BY DEF Http!ElasticPage
  <2> QED BY <2>2, <2>3 DEF Fair, Http!Elastic, Http!Answer
<1>11. Fair(q, Http!Nginx(q))
  <2>1. Chain(Http!NginxPage(q), 6, 1, "failed")
    BY DEF Chain, Http!NginxPage
  <2>2. Http!FirstOf(Http!NginxPage(q)) = "failed" => Http!NginxPage(q)[1][1]
    BY <2>1, FirstHolds
  <2>3. Http!NginxPage(q)[1][1] => Http!Credentials(q)
    BY DEF Http!NginxPage
  <2> QED BY <2>2, <2>3 DEF Fair, Http!Nginx, Http!Answer
<1>12. Fair(q, Http!Fortinet(q))
  <2>1. Chain(Http!FortinetPage(q), 5, 1, "logged_in")
    BY DEF Chain, Http!FortinetPage
  <2>2. Http!FirstOf(Http!FortinetPage(q)) = "logged_in" => Http!FortinetPage(q)[1][1] /\ Http!FortinetPage(q)[1][2] = "logged_in"
    BY <2>1, FirstHolds
  <2>3. Http!FortinetPage(q)[1][1] /\ Http!FortinetPage(q)[1][2] = "logged_in" => Http!Credentials(q)
    BY DEF Http!FortinetPage
  <2> QED BY <2>2, <2>3 DEF Fair, Http!Fortinet, Http!Answer
<1>13. Fair(q, Http!Citrix(q))
  <2>1. Chain(Http!CitrixPage(q), 7, 2, "logged_in")
    BY DEF Chain, Http!CitrixPage
  <2>2. Http!FirstOf(Http!CitrixPage(q)) = "logged_in" => Http!CitrixPage(q)[2][1] /\ Http!CitrixPage(q)[2][2] = "logged_in"
    BY <2>1, FirstHolds
  <2>3. Http!CitrixPage(q)[2][1] /\ Http!CitrixPage(q)[2][2] = "logged_in" => Http!Credentials(q)
    BY DEF Http!CitrixPage
  <2> QED BY <2>2, <2>3 DEF Fair, Http!Citrix, Http!Answer
<1> QED BY <1>1, <1>2, <1>3, <1>4, <1>5, <1>6, <1>7, <1>8, <1>9, <1>10, <1>11, <1>12, <1>13

\* and the faces of probes, with the catch-all.
LEMMA ProbeFacesAreFair ==
  ASSUME NEW q
  PROVE  /\ Fair(q, Http!ExploitCgi(q))
         /\ Fair(q, Http!PhpUnit(q))
         /\ Fair(q, Http!EnvDisc(q))
         /\ Fair(q, Http!ConfigDisclosure(q))
         /\ Fair(q, Http!NotFound(q))
         /\ Fair(q, Http!Generic(q))
<1>1. Fair(q, Http!ExploitCgi(q))
  BY DEF Fair, Http!ExploitCgi, Http!Answer
<1>2. Fair(q, Http!PhpUnit(q))
  BY DEF Fair, Http!PhpUnit, Http!Answer
<1>3. Fair(q, Http!EnvDisc(q))
  BY DEF Fair, Http!EnvDisc, Http!Answer
<1>4. Fair(q, Http!ConfigDisclosure(q))
  BY DEF Fair, Http!ConfigDisclosure, Http!Answer
<1>5. Fair(q, Http!NotFound(q))
  BY DEF Fair, Http!NotFound, Http!Answer
<1>6. Fair(q, Http!Generic(q))
  <2>1. Chain(Http!GenericPage(q), 8, 7, "redirect")
    BY DEF Chain, Http!GenericPage
  <2>2. Http!FirstOf(Http!GenericPage(q)) = "redirect" => Http!GenericPage(q)[7][1]
    BY <2>1, FirstHolds
  <2>3. Http!GenericPage(q)[7][1] => Http!Credentials(q)
    BY DEF Http!GenericPage
  <2> QED BY <2>2, <2>3 DEF Fair, Http!Generic, Http!Answer, Http!Unencodable
<1> QED BY <1>1, <1>2, <1>3, <1>4, <1>5, <1>6

\* So every handler of the table is fair.
LEMMA HandlersAreFair ==
  ASSUME NEW q, NEW service \in Http!Services
  PROVE  Fair(q, Http!Handle(service, q))
BY ContentFacesAreFair, ConsolesAreFair, InfrastructureIsFair, ProbeFacesAreFair
   DEF Http!Services, Http!Handle

(***************************************************************************)
(* What a handler says of itself: the name of its service, and that it     *)
(* records the request at most twice.                                      *)
(***************************************************************************)
StandsFor(service, outcome) ==
  /\ outcome.service = service
  /\ outcome.recorded \in 0 .. 2

\* The faces of content-management systems and web frameworks,
LEMMA ContentFacesStandForThemselves ==
  ASSUME NEW q
  PROVE  /\ StandsFor("nextjs", Http!Nextjs(q))
         /\ StandsFor("wordpress", Http!WordPress(q))
         /\ StandsFor("phpmyadmin", Http!PhpMyAdmin(q))
         /\ StandsFor("drupal", Http!Drupal(q))
         /\ StandsFor("bitrix", Http!Bitrix(q))
         /\ StandsFor("magento", Http!Magento(q))
         /\ StandsFor("laravel", Http!Laravel(q))
         /\ StandsFor("thinkphp", Http!ThinkPHP(q))
         /\ StandsFor("joomla", Http!Joomla(q))
         /\ StandsFor("coldfusion", Http!ColdFusion(q))
         /\ StandsFor("sharepoint", Http!SharePoint(q))
<1>1. StandsFor("nextjs", Http!Nextjs(q))
  BY DEF StandsFor, Http!Nextjs, Http!Answer
<1>2. StandsFor("wordpress", Http!WordPress(q))
  BY DEF StandsFor, Http!WordPress, Http!Answer
<1>3. StandsFor("phpmyadmin", Http!PhpMyAdmin(q))
  BY DEF StandsFor, Http!PhpMyAdmin, Http!Answer
<1>4. StandsFor("drupal", Http!Drupal(q))
  BY DEF StandsFor, Http!Drupal, Http!Answer
<1>5. StandsFor("bitrix", Http!Bitrix(q))
  BY DEF StandsFor, Http!Bitrix, Http!Answer
<1>6. StandsFor("magento", Http!Magento(q))
  BY DEF StandsFor, Http!Magento, Http!Answer
<1>7. StandsFor("laravel", Http!Laravel(q))
  BY DEF StandsFor, Http!Laravel, Http!Answer
<1>8. StandsFor("thinkphp", Http!ThinkPHP(q))
  BY DEF StandsFor, Http!ThinkPHP, Http!Answer
<1>9. StandsFor("joomla", Http!Joomla(q))
  BY DEF StandsFor, Http!Joomla, Http!Answer
<1>10. StandsFor("coldfusion", Http!ColdFusion(q))
  BY DEF StandsFor, Http!ColdFusion, Http!Answer
<1>11. StandsFor("sharepoint", Http!SharePoint(q))
  BY DEF StandsFor, Http!SharePoint, Http!Answer
<1> QED BY <1>1, <1>2, <1>3, <1>4, <1>5, <1>6, <1>7, <1>8, <1>9, <1>10, <1>11

\* the administration consoles,
LEMMA ConsolesStandForThemselves ==
  ASSUME NEW q
  PROVE  /\ StandsFor("grafana", Http!Grafana(q))
         /\ StandsFor("langflow", Http!Langflow(q))
         /\ StandsFor("jenkins", Http!Jenkins(q))
         /\ StandsFor("tomcat", Http!Tomcat(q))
         /\ StandsFor("cpanel", Http!CPanel(q))
         /\ StandsFor("webdav", Http!WebDAV(q))
         /\ StandsFor("dbadmin", Http!DBAdmin(q))
         /\ StandsFor("atlassian", Http!Atlassian(q))
         /\ StandsFor("redis_admin", Http!RedisAdmin(q))
         /\ StandsFor("solr", Http!Solr(q))
         /\ StandsFor("plex", Http!Plex(q))
         /\ StandsFor("jupyter", Http!Jupyter(q))
         /\ StandsFor("rabbitmq", Http!RabbitMQ(q))
         /\ StandsFor("gitlab", Http!GitLab(q))
         /\ StandsFor("zabbix", Http!Zabbix(q))
         /\ StandsFor("splunk", Http!Splunk(q))
<1>1. StandsFor("grafana", Http!Grafana(q))
  BY DEF StandsFor, Http!Grafana, Http!Answer
<1>2. StandsFor("langflow", Http!Langflow(q))
  BY DEF StandsFor, Http!Langflow, Http!Answer
<1>3. StandsFor("jenkins", Http!Jenkins(q))
  BY DEF StandsFor, Http!Jenkins, Http!Answer
<1>4. StandsFor("tomcat", Http!Tomcat(q))
  BY DEF StandsFor, Http!Tomcat, Http!Answer
<1>5. StandsFor("cpanel", Http!CPanel(q))
  BY DEF StandsFor, Http!CPanel, Http!Answer
<1>6. StandsFor("webdav", Http!WebDAV(q))
  BY DEF StandsFor, Http!WebDAV, Http!Answer
<1>7. StandsFor("dbadmin", Http!DBAdmin(q))
  BY DEF StandsFor, Http!DBAdmin, Http!Answer
<1>8. StandsFor("atlassian", Http!Atlassian(q))
  BY DEF StandsFor, Http!Atlassian, Http!Answer
<1>9. StandsFor("redis_admin", Http!RedisAdmin(q))
  BY DEF StandsFor, Http!RedisAdmin, Http!Answer
<1>10. StandsFor("solr", Http!Solr(q))
  BY DEF StandsFor, Http!Solr, Http!Answer
<1>11. StandsFor("plex", Http!Plex(q))
  BY DEF StandsFor, Http!Plex, Http!Answer
<1>12. StandsFor("jupyter", Http!Jupyter(q))
  BY DEF StandsFor, Http!Jupyter, Http!Answer
<1>13. StandsFor("rabbitmq", Http!RabbitMQ(q))
  BY DEF StandsFor, Http!RabbitMQ, Http!Answer
<1>14. StandsFor("gitlab", Http!GitLab(q))
  BY DEF StandsFor, Http!GitLab, Http!Answer
<1>15. StandsFor("zabbix", Http!Zabbix(q))
  BY DEF StandsFor, Http!Zabbix, Http!Answer
<1>16. StandsFor("splunk", Http!Splunk(q))
  BY DEF StandsFor, Http!Splunk, Http!Answer
<1> QED BY <1>1, <1>2, <1>3, <1>4, <1>5, <1>6, <1>7, <1>8, <1>9, <1>10, <1>11,
           <1>12, <1>13, <1>14, <1>15, <1>16

\* the infrastructure,
LEMMA InfrastructureStandsForItself ==
  ASSUME NEW q
  PROVE  /\ StandsFor("kubernetes", Http!Kubernetes(q))
         /\ StandsFor("docker", Http!Docker(q))
         /\ StandsFor("mcp", Http!Mcp(q))
         /\ StandsFor("iot", Http!Iot(q))
         /\ StandsFor("nginx_probe", Http!NginxProbe(q))
         /\ StandsFor("spring", Http!Spring(q))
         /\ StandsFor("aws_creds", Http!Aws(q))
         /\ StandsFor("hnap", Http!Hnap(q))
         /\ StandsFor("squid", Http!Squid(q))
         /\ StandsFor("elastic", Http!Elastic(q))
         /\ StandsFor("nginx", Http!Nginx(q))
         /\ StandsFor("fortinet", Http!Fortinet(q))
         /\ StandsFor("citrix", Http!Citrix(q))
<1>1. StandsFor("kubernetes", Http!Kubernetes(q))
  BY DEF StandsFor, Http!Kubernetes, Http!Answer
<1>2. StandsFor("docker", Http!Docker(q))
  BY DEF StandsFor, Http!Docker, Http!Answer
<1>3. StandsFor("mcp", Http!Mcp(q))
  BY DEF StandsFor, Http!Mcp, Http!Answer
<1>4. StandsFor("iot", Http!Iot(q))
  BY DEF StandsFor, Http!Iot, Http!Answer
<1>5. StandsFor("nginx_probe", Http!NginxProbe(q))
  BY DEF StandsFor, Http!NginxProbe, Http!Answer, Http!OnePage
<1>6. StandsFor("spring", Http!Spring(q))
  BY DEF StandsFor, Http!Spring, Http!Answer, Http!OnePage
<1>7. StandsFor("aws_creds", Http!Aws(q))
  BY DEF StandsFor, Http!Aws, Http!Answer, Http!OnePage
<1>8. StandsFor("hnap", Http!Hnap(q))
  BY DEF StandsFor, Http!Hnap, Http!Answer
<1>9. StandsFor("squid", Http!Squid(q))
  BY DEF StandsFor, Http!Squid, Http!Answer
<1>10. StandsFor("elastic", Http!Elastic(q))
  BY DEF StandsFor, Http!Elastic, Http!Answer
<1>11. StandsFor("nginx", Http!Nginx(q))
  BY DEF StandsFor, Http!Nginx, Http!Answer
<1>12. StandsFor("fortinet", Http!Fortinet(q))
  BY DEF StandsFor, Http!Fortinet, Http!Answer
<1>13. StandsFor("citrix", Http!Citrix(q))
  BY DEF StandsFor, Http!Citrix, Http!Answer
<1> QED BY <1>1, <1>2, <1>3, <1>4, <1>5, <1>6, <1>7, <1>8, <1>9, <1>10, <1>11,
           <1>12, <1>13

\* and the faces of probes, with the catch-all.
LEMMA ProbeFacesStandForThemselves ==
  ASSUME NEW q
  PROVE  /\ StandsFor("exploit_cgi", Http!ExploitCgi(q))
         /\ StandsFor("phpunit", Http!PhpUnit(q))
         /\ StandsFor("env_disc", Http!EnvDisc(q))
         /\ StandsFor("config_disclosure", Http!ConfigDisclosure(q))
         /\ StandsFor("generic", Http!Generic(q))
         /\ StandsFor("fingerprint_probe", Http!NotFound(q))
<1>1. StandsFor("exploit_cgi", Http!ExploitCgi(q))
  BY DEF StandsFor, Http!ExploitCgi, Http!Answer
<1>2. StandsFor("phpunit", Http!PhpUnit(q))
  BY DEF StandsFor, Http!PhpUnit, Http!Answer
<1>3. StandsFor("env_disc", Http!EnvDisc(q))
  BY DEF StandsFor, Http!EnvDisc, Http!Answer
<1>4. StandsFor("config_disclosure", Http!ConfigDisclosure(q))
  BY DEF StandsFor, Http!ConfigDisclosure, Http!Answer
<1>5. StandsFor("generic", Http!Generic(q))
  BY DEF StandsFor, Http!Generic, Http!Answer
<1>6. StandsFor("fingerprint_probe", Http!NotFound(q))
  BY DEF StandsFor, Http!NotFound, Http!Answer
<1> QED BY <1>1, <1>2, <1>3, <1>4, <1>5, <1>6

\* The handler of high-entropy paths is that of the icon.
FaceNamed(service) == IF service = "random_path" THEN "fingerprint_probe" ELSE service

\* So does every handler of the table.
LEMMA HandlersStandForThemselves ==
  ASSUME NEW q, NEW service \in Http!Services
  PROVE  StandsFor(FaceNamed(service), Http!Handle(service, q))
BY ContentFacesStandForThemselves, ConsolesStandForThemselves, InfrastructureStandsForItself,
   ProbeFacesStandForThemselves
   DEF Http!Services, Http!Handle, FaceNamed

(***************************************************************************)
(* A table is well formed if its service has a handler and its prefixes    *)
(* can be counted; Elastic's are scoped to its ports.                      *)
(***************************************************************************)
WellFormed(table) ==
  /\ table.service \in Http!Services
  /\ IsFiniteSet(table.prefixes)
  /\ table.service = "elastic" => table.ports = Http!ElasticPorts

\* A set that lists up to seven elements is finite,
LEMMA FewAreFinite ==
  /\ \A a, b : IsFiniteSet({a, b})
  /\ \A a, b, c : IsFiniteSet({a, b, c})
  /\ \A a, b, c, d : IsFiniteSet({a, b, c, d})
  /\ \A a, b, c, d, e : IsFiniteSet({a, b, c, d, e})
  /\ \A a, b, c, d, e, f : IsFiniteSet({a, b, c, d, e, f})
  /\ \A a, b, c, d, e, f, g : IsFiniteSet({a, b, c, d, e, f, g})
<1>1. \A S, x : IsFiniteSet(S) => IsFiniteSet(S \cup {x})
  BY FS_AddElement
<1>2. \A a : IsFiniteSet({a})
  BY FS_Singleton
<1>3. \A a, b : IsFiniteSet({a, b})
  <2> TAKE a, b
  <2>1. {a, b} = {a} \cup {b}
    OBVIOUS
  <2>2. IsFiniteSet({a})
    BY <1>2
  <2>3. IsFiniteSet({a} \cup {b})
    BY <1>1, <2>2
  <2> QED BY <2>1, <2>3
<1>4. \A a, b, c : IsFiniteSet({a, b, c})
  <2> TAKE a, b, c
  <2>1. {a, b, c} = {a, b} \cup {c}
    OBVIOUS
  <2>2. IsFiniteSet({a, b})
    BY <1>3
  <2>3. IsFiniteSet({a, b} \cup {c})
    BY <1>1, <2>2
  <2> QED BY <2>1, <2>3
<1>5. \A a, b, c, d : IsFiniteSet({a, b, c, d})
  <2> TAKE a, b, c, d
  <2>1. {a, b, c, d} = {a, b, c} \cup {d}
    OBVIOUS
  <2>2. IsFiniteSet({a, b, c})
    BY <1>4
  <2>3. IsFiniteSet({a, b, c} \cup {d})
    BY <1>1, <2>2
  <2> QED BY <2>1, <2>3
<1>6. \A a, b, c, d, e : IsFiniteSet({a, b, c, d, e})
  <2> TAKE a, b, c, d, e
  <2>1. {a, b, c, d, e} = {a, b, c, d} \cup {e}
    OBVIOUS
  <2>2. IsFiniteSet({a, b, c, d})
    BY <1>5
  <2>3. IsFiniteSet({a, b, c, d} \cup {e})
    BY <1>1, <2>2
  <2> QED BY <2>1, <2>3
<1>7. \A a, b, c, d, e, f : IsFiniteSet({a, b, c, d, e, f})
  <2> TAKE a, b, c, d, e, f
  <2>1. {a, b, c, d, e, f} = {a, b, c, d, e} \cup {f}
    OBVIOUS
  <2>2. IsFiniteSet({a, b, c, d, e})
    BY <1>6
  <2>3. IsFiniteSet({a, b, c, d, e} \cup {f})
    BY <1>1, <2>2
  <2> QED BY <2>1, <2>3
<1>8. \A a, b, c, d, e, f, g : IsFiniteSet({a, b, c, d, e, f, g})
  <2> TAKE a, b, c, d, e, f, g
  <2>1. {a, b, c, d, e, f, g} = {a, b, c, d, e, f} \cup {g}
    OBVIOUS
  <2>2. IsFiniteSet({a, b, c, d, e, f})
    BY <1>7
  <2>3. IsFiniteSet({a, b, c, d, e, f} \cup {g})
    BY <1>1, <2>2
  <2> QED BY <2>1, <2>3
<1> QED BY <1>3, <1>4, <1>5, <1>6, <1>7, <1>8

\* and so is one that is made of four of them.
LEMMA FourAreFinite ==
  \A A, B, C, D : IsFiniteSet(A) /\ IsFiniteSet(B) /\ IsFiniteSet(C) /\ IsFiniteSet(D)
                    => IsFiniteSet(A \cup B \cup C \cup D)
BY FS_Union

\* The long tables: that of exploited CGI programs,
LEMMA ExploitCgiIsFormed == WellFormed(Http!ExploitCgiRoutes)
<1>1. IsFiniteSet(Http!CgiNames)
  BY FewAreFinite DEF Http!CgiNames
<1>2. IsFiniteSet(Http!CgiNames \cup {"/index.php", "/cgi-bin/"})
  BY <1>1, FewAreFinite, FS_Union
<1>3. Http!ExploitCgiRoutes.prefixes = Http!CgiNames \cup {"/index.php", "/cgi-bin/"}
  BY DEF Http!ExploitCgiRoutes, Http!RoutesOf
<1> QED BY <1>2, <1>3 DEF WellFormed, Http!Services, Http!RoutesOf, Http!ExploitCgiRoutes

\* PHPUnit's, under each root,
LEMMA PhpUnitIsFormed == WellFormed(Http!PhpUnitRoutes)
<1>1. PICK bare :
        Http!PhpUnitRoots =
               {bare, "/admin", "/www", "/yii", "/laravel", "/app"}
          \cup {"/cms", "/lib", "/panel", "/public", "/ws", "/demo"}
          \cup {"/testing", "/tests", "/apps", "/backup", "/v2", "/blog"}
          \cup {"/api", "/zend", "/workspace", "/crm", "/vercel"}
  BY Zenon DEF Http!PhpUnitRoots
<1>2. IsFiniteSet(Http!PhpUnitRoots)
  BY <1>1, FewAreFinite, FourAreFinite
<1>3. PICK under : under = [r \in Http!PhpUnitRoots |-> r \o "/vendor/phpunit/"]
  OBVIOUS
<1>4. IsFiniteSet({under[r] : r \in Http!PhpUnitRoots})
  <2>1. under \in Surjection(Http!PhpUnitRoots, {under[r] : r \in Http!PhpUnitRoots})
    BY <1>3 DEF Surjection
  <2> QED BY <1>2, <2>1, FS_Surjection
<1>5. Http!PhpUnitRoutes.prefixes =
        {"/phpunit/", "/lib/phpunit/"} \cup {under[r] : r \in Http!PhpUnitRoots}
  BY <1>3 DEF Http!PhpUnitRoutes, Http!RoutesOf
<1>6. IsFiniteSet({"/phpunit/", "/lib/phpunit/"})
  BY FewAreFinite
<1> DEFINE A == {"/phpunit/", "/lib/phpunit/"}
           B == {under[r] : r \in Http!PhpUnitRoots}
<1> HIDE DEF A, B
<1>7. IsFiniteSet(Http!PhpUnitRoutes.prefixes)
  <2>1. Http!PhpUnitRoutes.prefixes = A \cup B
    BY <1>5 DEF A, B
  <2>2. IsFiniteSet(A) /\ IsFiniteSet(B)
    BY <1>4, <1>6 DEF A, B
  <2> QED BY <2>1, <2>2, FS_Union
<1>8. Http!PhpUnitRoutes.service = "phpunit"
  BY DEF Http!PhpUnitRoutes, Http!RoutesOf
<1> QED BY <1>7, <1>8 DEF WellFormed, Http!Services

\* Grafana's,
LEMMA GrafanaIsFormed == WellFormed(Http!GrafanaRoutes)
<1> DEFINE A == {"/api/datasources", "/api/search", "/api/frontend",
                 "/api/users"}
           B == {"/api/alerts", "/api/annotations", "/api/admin", "/api/login"}
           C == {"/api/auth", "/api/dashboards", "/api/teams", "/api/folders"}
           D == {"/api/plugins", "/api/prometheus", "/api/alertmanager",
                 "/grafana/"}
<1>1. Http!GrafanaRoutes.prefixes = A \cup B \cup C \cup D
  BY DEF Http!GrafanaRoutes, Http!RoutesOf
<1>2. IsFiniteSet(A) /\ IsFiniteSet(B) /\ IsFiniteSet(C) /\ IsFiniteSet(D)
  BY FewAreFinite, FS_Singleton
<1> HIDE DEF A, B, C, D
<1>3. IsFiniteSet(Http!GrafanaRoutes.prefixes)
  BY <1>1, <1>2, FourAreFinite
<1> QED BY <1>3 DEF WellFormed, Http!Services, Http!RoutesOf, Http!GrafanaRoutes

\* that of disclosed environments,
LEMMA EnvDiscIsFormed == WellFormed(Http!EnvDiscRoutes)
<1> DEFINE A == {"/env/", "/admin/.env", "/admin/phpinfo", "/admin/database",
                 "/admin/debug", "/api/.env", "/api/.git"}
           B == {"/api/wp-config", "/api/phpinfo", "/api/email", "/api/secrets",
                 "/api/config", "/api/settings", "/api/database"}
           C == {"/api/debug", "/api/admin", "/api/sql", "/api/json",
                 "/api/xmlrpc", "/api/web.config", "/api/.ht"}
           D == {"/api/composer", "/api/package", "/api/redis", "/api/php.ini"}
<1>1. Http!EnvDiscRoutes.prefixes = A \cup B \cup C \cup D
  BY DEF Http!EnvDiscRoutes, Http!RoutesOf
<1>2. IsFiniteSet(A) /\ IsFiniteSet(B) /\ IsFiniteSet(C) /\ IsFiniteSet(D)
  BY FewAreFinite, FS_Singleton
<1> HIDE DEF A, B, C, D
<1>3. IsFiniteSet(Http!EnvDiscRoutes.prefixes)
  BY <1>1, <1>2, FourAreFinite
<1> QED BY <1>3 DEF WellFormed, Http!Services, Http!RoutesOf, Http!EnvDiscRoutes

\* Drupal's,
LEMMA DrupalIsFormed == WellFormed(Http!DrupalRoutes)
<1> DEFINE A == {"/user/", "/admin/content/", "/admin/structure/",
                 "/admin/config/"}
           B == {"/admin/people/", "/admin/modules/", "/admin/themes/",
                 "/admin/reports/"}
           C == {"/admin/appearance/", "/admin/help/", "/admin/tasks/",
                 "/node/"}
           D == {"/sites/", "/drupal/", "/files/"}
<1>1. Http!DrupalRoutes.prefixes = A \cup B \cup C \cup D
  BY DEF Http!DrupalRoutes, Http!RoutesOf
<1>2. IsFiniteSet(A) /\ IsFiniteSet(B) /\ IsFiniteSet(C) /\ IsFiniteSet(D)
  BY FewAreFinite, FS_Singleton
<1> HIDE DEF A, B, C, D
<1>3. IsFiniteSet(Http!DrupalRoutes.prefixes)
  BY <1>1, <1>2, FourAreFinite
<1> QED BY <1>3 DEF WellFormed, Http!Services, Http!RoutesOf, Http!DrupalRoutes

\* and Elastic's, at its root
LEMMA ElasticRootIsFormed == WellFormed(Http!ElasticRootRoutes)
<1> DEFINE A == {"/_cat/", "/_cluster/", "/_nodes/", "/_search/"}
           B == {"/_xpack/", "/_snapshot/", "/_license/", "/_sql/"}
           C == {"/_bulk/", "/_plugin/", "/kibana", "/elasticsearch/"}
           D == {"/elastic/"}
<1>1. Http!ElasticRootRoutes.prefixes = A \cup B \cup C \cup D
  BY DEF Http!ElasticRootRoutes, Http!RoutesOf
<1>2. IsFiniteSet(A) /\ IsFiniteSet(B) /\ IsFiniteSet(C) /\ IsFiniteSet(D)
  BY FewAreFinite, FS_Singleton
<1> HIDE DEF A, B, C, D
<1>3. IsFiniteSet(Http!ElasticRootRoutes.prefixes)
  BY <1>1, <1>2, FourAreFinite
<1> QED BY <1>3 DEF WellFormed, Http!Services, Http!RoutesOf, Http!ElasticRootRoutes

\* and elsewhere.
LEMMA ElasticIsFormed == WellFormed(Http!ElasticRoutes)
<1> DEFINE A == {"/_cat/", "/_cluster/", "/_nodes/", "/_search/", "/_xpack/"}
           B == {"/_snapshot/", "/_license/", "/_sql/", "/_bulk/", "/_aliases/"}
           C == {"/_stats/", "/_status/", "/_mapping/", "/_all/", "/_plugin/"}
           D == {"/kibana", "/elastic"}
<1>1. Http!ElasticRoutes.prefixes = A \cup B \cup C \cup D
  BY DEF Http!ElasticRoutes, Http!RoutesOf
<1>2. IsFiniteSet(A) /\ IsFiniteSet(B) /\ IsFiniteSet(C) /\ IsFiniteSet(D)
  BY FewAreFinite, FS_Singleton
<1> HIDE DEF A, B, C, D
<1>3. IsFiniteSet(Http!ElasticRoutes.prefixes)
  BY <1>1, <1>2, FourAreFinite
<1> QED BY <1>3 DEF WellFormed, Http!Services, Http!RoutesOf, Http!ElasticRoutes

\* The tables of exploits are well formed,
LEMMA ExploitTablesAreFormed ==
  /\ WellFormed(Http!ExploitCgiRoutes)
  /\ WellFormed(Http!PhpUnitRoutes)
  /\ WellFormed(Http!GrafanaRoutes)
  /\ WellFormed(Http!EnvDiscRoutes)
  /\ WellFormed(Http!LangflowRoutes)
  /\ WellFormed(Http!KubernetesRoutes)
  /\ WellFormed(Http!NextjsRoutes)
<1>1. WellFormed(Http!LangflowRoutes)
  BY FewAreFinite, FS_EmptySet, FS_Singleton
     DEF WellFormed, Http!Services, Http!RoutesOf, Http!LangflowRoutes
<1>2. WellFormed(Http!KubernetesRoutes)
  BY FewAreFinite, FS_EmptySet, FS_Singleton
     DEF WellFormed, Http!Services, Http!RoutesOf, Http!KubernetesRoutes
<1>3. WellFormed(Http!NextjsRoutes)
  BY FewAreFinite, FS_EmptySet, FS_Singleton
     DEF WellFormed, Http!Services, Http!RoutesOf, Http!NextjsRoutes
<1> QED BY ExploitCgiIsFormed, PhpUnitIsFormed, GrafanaIsFormed,
          EnvDiscIsFormed, <1>1, <1>2, <1>3

\* those of the frameworks and products,
LEMMA FrameworkTablesAreFormed ==
  /\ WellFormed(Http!WordPressRoutes)
  /\ WellFormed(Http!PhpMyAdminRoutes)
  /\ WellFormed(Http!JenkinsRoutes)
  /\ WellFormed(Http!TomcatRoutes)
  /\ WellFormed(Http!DrupalRoutes)
  /\ WellFormed(Http!CPanelRoutes)
  /\ WellFormed(Http!BitrixRoutes)
  /\ WellFormed(Http!WebDAVRoutes)
  /\ WellFormed(Http!ConfigDisclosureRoutes)
  /\ WellFormed(Http!DBAdminRoutes)
  /\ WellFormed(Http!DockerRoutes)
  /\ WellFormed(Http!McpRoutes)
  /\ WellFormed(Http!IotRoutes)
  /\ WellFormed(Http!NginxProbeRoutes)
  /\ WellFormed(Http!AtlassianRoutes)
  /\ WellFormed(Http!SpringRoutes)
  /\ WellFormed(Http!AwsRoutes)
  /\ WellFormed(Http!HnapRoutes)
  /\ WellFormed(Http!SquidRoutes)
  /\ WellFormed(Http!MagentoRoutes)
  /\ WellFormed(Http!RedisAdminRoutes)
  /\ WellFormed(Http!SolrRoutes)
  /\ WellFormed(Http!PlexRoutes)
  /\ WellFormed(Http!JupyterRoutes)
  /\ WellFormed(Http!RabbitMQRoutes)
  /\ WellFormed(Http!GitLabRoutes)
  /\ WellFormed(Http!ElasticRootRoutes)
  /\ WellFormed(Http!ZabbixRoutes)
  /\ WellFormed(Http!LaravelRoutes)
  /\ WellFormed(Http!ThinkPHPRoutes)
  /\ WellFormed(Http!ElasticRoutes)
  /\ WellFormed(Http!NginxRoutes)
<1>1. WellFormed(Http!WordPressRoutes)
  BY FewAreFinite, FS_EmptySet, FS_Singleton
     DEF WellFormed, Http!Services, Http!RoutesOf, Http!WordPressRoutes
<1>2. WellFormed(Http!PhpMyAdminRoutes)
  BY FewAreFinite, FS_EmptySet, FS_Singleton
     DEF WellFormed, Http!Services, Http!RoutesOf, Http!PhpMyAdminRoutes
<1>3. WellFormed(Http!JenkinsRoutes)
  BY FewAreFinite, FS_EmptySet, FS_Singleton
     DEF WellFormed, Http!Services, Http!RoutesOf, Http!JenkinsRoutes
<1>4. WellFormed(Http!TomcatRoutes)
  BY FewAreFinite, FS_EmptySet, FS_Singleton
     DEF WellFormed, Http!Services, Http!RoutesOf, Http!TomcatRoutes
<1>5. WellFormed(Http!CPanelRoutes)
  BY FewAreFinite, FS_EmptySet, FS_Singleton
     DEF WellFormed, Http!Services, Http!RoutesOf, Http!CPanelRoutes
<1>6. WellFormed(Http!BitrixRoutes)
  BY FewAreFinite, FS_EmptySet, FS_Singleton
     DEF WellFormed, Http!Services, Http!RoutesOf, Http!BitrixRoutes
<1>7. WellFormed(Http!WebDAVRoutes)
  BY FewAreFinite, FS_EmptySet, FS_Singleton
     DEF WellFormed, Http!Services, Http!RoutesOf, Http!WebDAVRoutes
<1>8. WellFormed(Http!ConfigDisclosureRoutes)
  BY FewAreFinite, FS_EmptySet, FS_Singleton
     DEF WellFormed, Http!Services, Http!RoutesOf, Http!ConfigDisclosureRoutes
<1>9. WellFormed(Http!DBAdminRoutes)
  BY FewAreFinite, FS_EmptySet, FS_Singleton
     DEF WellFormed, Http!Services, Http!RoutesOf, Http!DBAdminRoutes
<1>10. WellFormed(Http!DockerRoutes)
  BY FewAreFinite, FS_EmptySet, FS_Singleton
     DEF WellFormed, Http!Services, Http!RoutesOf, Http!DockerRoutes
<1>11. WellFormed(Http!McpRoutes)
  BY FewAreFinite, FS_EmptySet, FS_Singleton
     DEF WellFormed, Http!Services, Http!RoutesOf, Http!McpRoutes
<1>12. WellFormed(Http!IotRoutes)
  BY FewAreFinite, FS_EmptySet, FS_Singleton
     DEF WellFormed, Http!Services, Http!RoutesOf, Http!IotRoutes
<1>13. WellFormed(Http!NginxProbeRoutes)
  BY FewAreFinite, FS_EmptySet, FS_Singleton
     DEF WellFormed, Http!Services, Http!RoutesOf, Http!NginxProbeRoutes
<1>14. WellFormed(Http!AtlassianRoutes)
  BY FewAreFinite, FS_EmptySet, FS_Singleton
     DEF WellFormed, Http!Services, Http!RoutesOf, Http!AtlassianRoutes
<1>15. WellFormed(Http!SpringRoutes)
  BY FewAreFinite, FS_EmptySet, FS_Singleton
     DEF WellFormed, Http!Services, Http!RoutesOf, Http!SpringRoutes
<1>16. WellFormed(Http!AwsRoutes)
  BY FewAreFinite, FS_EmptySet, FS_Singleton
     DEF WellFormed, Http!Services, Http!RoutesOf, Http!AwsRoutes
<1>17. WellFormed(Http!HnapRoutes)
  BY FewAreFinite, FS_EmptySet, FS_Singleton
     DEF WellFormed, Http!Services, Http!RoutesOf, Http!HnapRoutes
<1>18. WellFormed(Http!SquidRoutes)
  BY FewAreFinite, FS_EmptySet, FS_Singleton
     DEF WellFormed, Http!Services, Http!RoutesOf, Http!SquidRoutes
<1>19. WellFormed(Http!MagentoRoutes)
  BY FewAreFinite, FS_EmptySet, FS_Singleton
     DEF WellFormed, Http!Services, Http!RoutesOf, Http!MagentoRoutes
<1>20. WellFormed(Http!RedisAdminRoutes)
  BY FewAreFinite, FS_EmptySet, FS_Singleton
     DEF WellFormed, Http!Services, Http!RoutesOf, Http!RedisAdminRoutes
<1>21. WellFormed(Http!SolrRoutes)
  BY FewAreFinite, FS_EmptySet, FS_Singleton
     DEF WellFormed, Http!Services, Http!RoutesOf, Http!SolrRoutes
<1>22. WellFormed(Http!PlexRoutes)
  BY FewAreFinite, FS_EmptySet, FS_Singleton
     DEF WellFormed, Http!Services, Http!RoutesOf, Http!PlexRoutes
<1>23. WellFormed(Http!JupyterRoutes)
  BY FewAreFinite, FS_EmptySet, FS_Singleton
     DEF WellFormed, Http!Services, Http!RoutesOf, Http!JupyterRoutes
<1>24. WellFormed(Http!RabbitMQRoutes)
  BY FewAreFinite, FS_EmptySet, FS_Singleton
     DEF WellFormed, Http!Services, Http!RoutesOf, Http!RabbitMQRoutes
<1>25. WellFormed(Http!GitLabRoutes)
  BY FewAreFinite, FS_EmptySet, FS_Singleton
     DEF WellFormed, Http!Services, Http!RoutesOf, Http!GitLabRoutes
<1>26. WellFormed(Http!ZabbixRoutes)
  BY FewAreFinite, FS_EmptySet, FS_Singleton
     DEF WellFormed, Http!Services, Http!RoutesOf, Http!ZabbixRoutes
<1>27. WellFormed(Http!LaravelRoutes)
  BY FewAreFinite, FS_EmptySet, FS_Singleton
     DEF WellFormed, Http!Services, Http!RoutesOf, Http!LaravelRoutes
<1>28. WellFormed(Http!ThinkPHPRoutes)
  BY FewAreFinite, FS_EmptySet, FS_Singleton
     DEF WellFormed, Http!Services, Http!RoutesOf, Http!ThinkPHPRoutes
<1>29. WellFormed(Http!NginxRoutes)
  BY FewAreFinite, FS_EmptySet, FS_Singleton
     DEF WellFormed, Http!Services, Http!RoutesOf, Http!NginxRoutes
<1> QED BY <1>1, <1>2, <1>3, <1>4, DrupalIsFormed, <1>5, <1>6, <1>7, <1>8, <1>9,
          <1>10, <1>11, <1>12, <1>13, <1>14, <1>15, <1>16, <1>17, <1>18, <1>19,
          <1>20, <1>21, <1>22, <1>23, <1>24, <1>25, ElasticRootIsFormed, <1>26,
          <1>27, <1>28, ElasticIsFormed, <1>29

\* and those that come late.
LEMMA LateTablesAreFormed ==
  /\ WellFormed(Http!JoomlaRoutes)
  /\ WellFormed(Http!ColdFusionRoutes)
  /\ WellFormed(Http!FortinetRoutes)
  /\ WellFormed(Http!CitrixRoutes)
  /\ WellFormed(Http!SharePointRoutes)
  /\ WellFormed(Http!SplunkRoutes)
<1>1. WellFormed(Http!JoomlaRoutes)
  BY FewAreFinite, FS_EmptySet, FS_Singleton
     DEF WellFormed, Http!Services, Http!RoutesOf, Http!JoomlaRoutes
<1>2. WellFormed(Http!ColdFusionRoutes)
  BY FewAreFinite, FS_EmptySet, FS_Singleton
     DEF WellFormed, Http!Services, Http!RoutesOf, Http!ColdFusionRoutes
<1>3. WellFormed(Http!FortinetRoutes)
  BY FewAreFinite, FS_EmptySet, FS_Singleton
     DEF WellFormed, Http!Services, Http!RoutesOf, Http!FortinetRoutes
<1>4. WellFormed(Http!CitrixRoutes)
  BY FewAreFinite, FS_EmptySet, FS_Singleton
     DEF WellFormed, Http!Services, Http!RoutesOf, Http!CitrixRoutes
<1>5. WellFormed(Http!SharePointRoutes)
  BY FewAreFinite, FS_EmptySet, FS_Singleton
     DEF WellFormed, Http!Services, Http!RoutesOf, Http!SharePointRoutes
<1>6. WellFormed(Http!SplunkRoutes)
  BY FewAreFinite, FS_EmptySet, FS_Singleton
     DEF WellFormed, Http!Services, Http!RoutesOf, Http!SplunkRoutes
<1> QED BY <1>1, <1>2, <1>3, <1>4, <1>5, <1>6

(***************************************************************************)
(* The order of the table is that of four lists, whose tables are all well *)
(* formed.                                                                 *)
(***************************************************************************)
Serving(tables) ==
  /\ tables \in Seq({tables[i] : i \in DOMAIN tables})
  /\ \A i \in DOMAIN tables : WellFormed(tables[i])

\* So are those of a list made of two of them.
LEMMA ServingJoins ==
  ASSUME NEW these, NEW those, Serving(these), Serving(those)
  PROVE  Serving(these \o those)
<1> DEFINE all == {these[i] : i \in DOMAIN these} \cup {those[i] : i \in DOMAIN those}
           both == these \o those
<1>1. these \in Seq(all) /\ those \in Seq(all)
  BY DEF Serving
<1>2. \A t \in all : WellFormed(t)
  BY DEF Serving
<1> HIDE DEF all
<1>3. both \in Seq(all)
  BY <1>1
<1>4. DOMAIN both = 1 .. Len(both) /\ \A i \in DOMAIN both : both[i] \in all
  BY <1>3
<1> HIDE DEF both
<1>5. both \in Seq({both[i] : i \in DOMAIN both})
  <2>1. both = [i \in 1 .. Len(both) |-> both[i]] /\ Len(both) \in Nat
    BY <1>3
  <2> QED BY <1>4, <2>1
<1>6. Serving(both)
  BY <1>2, <1>4, <1>5 DEF Serving
<1> QED BY <1>6 DEF both

\* The tables of exploits,
LEMMA ExploitServe == Serving(Http!ExploitTables)
<1>1. /\ DOMAIN Http!ExploitTables = 1 .. 7
      /\ \A i \in 1 .. 7 : WellFormed(Http!ExploitTables[i])
  BY ExploitTablesAreFormed DEF Http!ExploitTables
<1>2. Http!ExploitTables = [i \in 1 .. 7 |-> Http!ExploitTables[i]]
  BY DEF Http!ExploitTables
<1> QED BY <1>1, <1>2 DEF Serving

\* of the frameworks and products,
LEMMA FrameworkServe == Serving(Http!FrameworkTables)
<1>1. /\ DOMAIN Http!FrameworkTables = 1 .. 32
      /\ \A i \in 1 .. 32 : WellFormed(Http!FrameworkTables[i])
  BY FrameworkTablesAreFormed DEF Http!FrameworkTables
<1>2. Http!FrameworkTables = [i \in 1 .. 32 |-> Http!FrameworkTables[i]]
  BY DEF Http!FrameworkTables
<1> QED BY <1>1, <1>2 DEF Serving

\* of those that come late
LEMMA LateServe == Serving(Http!LateTables)
<1>1. /\ DOMAIN Http!LateTables = 1 .. 6
      /\ \A i \in 1 .. 6 : WellFormed(Http!LateTables[i])
  BY LateTablesAreFormed DEF Http!LateTables
<1>2. Http!LateTables = [i \in 1 .. 6 |-> Http!LateTables[i]]
  BY DEF Http!LateTables
<1> QED BY <1>1, <1>2 DEF Serving

\* and of those that come last.
LEMMA LastServe == Serving(Http!LastTables)
<1>1. \A service, exact, prefixes :
        /\ Http!RoutesOf(service, exact, prefixes).service = service
        /\ Http!RoutesOf(service, exact, prefixes).prefixes = prefixes
  BY DEF Http!RoutesOf
<1>2. /\ DOMAIN Http!LastTables = 1 .. 3
      /\ \A i \in 1 .. 3 : WellFormed(Http!LastTables[i])
  <2>1. PICK b, any :
          Http!LastTables = <<Http!RoutesOf("random_path", {}, {}),
                              Http!RoutesOf("fingerprint_probe", b, {}),
                              Http!RoutesOf("generic", {}, {any})>>
    BY Zenon DEF Http!LastTables
  <2>2. IsFiniteSet({}) /\ IsFiniteSet({any})
    BY FS_EmptySet, FS_Singleton
  <2> QED BY <1>1, <2>1, <2>2 DEF Http!Services, WellFormed
<1>3. Http!LastTables = [i \in 1 .. 3 |-> Http!LastTables[i]]
  BY DEF Http!LastTables
<1> QED BY <1>2, <1>3 DEF Serving

\* The whole table is well formed, and its places are numbers.
LEMMA TableServes ==
  /\ DOMAIN Http!Tables \subseteq Nat
  /\ \A i \in DOMAIN Http!Tables : WellFormed(Http!Tables[i])
<1>1. Serving(Http!Tables)
  BY ExploitServe, FrameworkServe, LateServe, LastServe, ServingJoins DEF Http!Tables
<1> QED BY <1>1 DEF Serving

(***************************************************************************)
(* Why a captured login is in the report though the two are extracted      *)
(* apart, and why a request is answered by the face that met it first: each *)
(* handler that was tried was fair, and what it captured or failed at stays *)
(* with the request.                                                       *)
(***************************************************************************)
CaptureIsKnown ==
  \A service \in captured :
    \/ Http!Credentials(request)
    \/ request.authorization = "basic"
    \/ service \in {"magento", "coldfusion"}

FailureIsKnown ==
  failed # <<>> =>
    Http!Wide(request) \/ "json_list" \in request.marks
      \/ Http!In(request, {"j_security_check"})

HttpInv ==
  /\ matching \subseteq DOMAIN Http!Tables
  /\ CaptureIsKnown
  /\ FailureIsKnown
  /\ stage # "received" => (login <=> Http!Credentials(request))
  /\ stage = "reported" => (made.login <=> Http!Credentials(request))

\* The next table is one of the list, and its handler is fair.
LEMMA LookIsFair ==
  ASSUME matching \subseteq DOMAIN Http!Tables, matching # {},
         NEW i, i = Http!Min(matching)
  PROVE  i \in matching /\ Fair(request, Http!Handle(Http!Tables[i].service, request))
<1>1. matching \subseteq Nat
  BY TableServes
<1>2. i \in matching
  BY <1>1, SmallestInSet DEF Http!Min
<1> QED BY <1>2, TableServes, HandlersAreFair DEF WellFormed

\* Every step of the dispatch keeps HttpInv.
LEMMA NextKeepsHttp ==
  ASSUME HttpInv, [Http!Next]_(Http!vars)
  PROVE  HttpInv'
<1> USE DEF HttpInv
<1>1. CASE Http!Extract
  <2>1. Http!Matching(request) \subseteq DOMAIN Http!Tables
    BY DEF Http!Matching
  <2> QED BY <1>1, <2>1 DEF Http!Extract, Http!Login, CaptureIsKnown, FailureIsKnown
<1>2. CASE Http!HandlerAnswers
  <2>1. PICK i, outcome : i = Http!Min(matching)
                          /\ outcome = Http!Handle(Http!Tables[i].service, request)
    OBVIOUS
  <2>2. /\ stage = "dispatch" /\ stage' = "respond" /\ matching # {}
        /\ matching' = matching \ {i}
        /\ captured' = IF outcome.captured THEN captured \cup {outcome.service} ELSE captured
        /\ UNCHANGED <<request, login, failed, made>>
    BY <1>2, <2>1 DEF Http!HandlerAnswers, Http!Look
  <2>3. Fair(request, outcome)
    BY <2>1, <2>2, LookIsFair
  <2>4. CaptureIsKnown'
    BY <2>2, <2>3 DEF Fair, CaptureIsKnown
  <2>5. FailureIsKnown'
    BY <2>2 DEF FailureIsKnown
  <2> QED BY <2>2, <2>4, <2>5
<1>3. CASE Http!HandlerRaises
  <2>1. PICK i, outcome : i = Http!Min(matching)
                          /\ outcome = Http!Handle(Http!Tables[i].service, request)
    OBVIOUS
  <2>2. /\ stage = "dispatch" /\ matching # {} /\ outcome.raised
        /\ matching' = matching \ {i}
        /\ captured' = IF outcome.captured THEN captured \cup {outcome.service} ELSE captured
        /\ UNCHANGED <<stage, request, login, made>>
    BY <1>3, <2>1 DEF Http!HandlerRaises, Http!Look
  <2>3. Fair(request, outcome)
    BY <2>1, <2>2, LookIsFair
  <2>4. CaptureIsKnown'
    BY <2>2, <2>3 DEF Fair, CaptureIsKnown
  <2>5. FailureIsKnown'
    BY <2>2, <2>3 DEF Fair, FailureIsKnown
  <2> QED BY <2>2, <2>4, <2>5
<1>4. CASE Http!FallBack
  BY <1>4 DEF Http!FallBack, CaptureIsKnown, FailureIsKnown
<1>5. CASE Http!Report
  BY <1>5 DEF Http!Report, CaptureIsKnown, FailureIsKnown
<1>6. CASE Http!Done \/ UNCHANGED Http!vars
  BY <1>6 DEF Http!Done, Http!vars, CaptureIsKnown, FailureIsKnown
<1> QED BY <1>1, <1>2, <1>3, <1>4, <1>5, <1>6 DEF Http!Next

\* So it holds from any request on.
LEMMA HttpInvHolds ==
  (\E q \in Http!HttpRequest : Http!InitWith(q)) /\ [][Http!Next]_(Http!vars) => []HttpInv
<1>1. (\E q \in Http!HttpRequest : Http!InitWith(q)) => HttpInv
  BY DEF Http!InitWith, HttpInv, CaptureIsKnown, FailureIsKnown
<1>2. HttpInv /\ [Http!Next]_(Http!vars) => HttpInv'
  BY NextKeepsHttp
<1> QED BY <1>1, <1>2, PTL

(***************************************************************************)
(* Whatever the request, what a handler captured is in the login of its    *)
(* report, with the exceptions that CaptureIsReported names.               *)
(***************************************************************************)
THEOREM CaptureIsReportedHolds ==
  (\E q \in Http!HttpRequest : Http!InitWith(q)) /\ [][Http!Next]_(Http!vars) => []Http!CaptureIsReported
<1>1. HttpInv => Http!CaptureIsReported
  BY DEF HttpInv, CaptureIsKnown, Http!CaptureIsReported
<1> QED BY <1>1, HttpInvHolds, PTL

(***************************************************************************)
(* Whatever the request, the first face that looks at it answers it, with  *)
(* the exceptions that OwnFaceAnswers names.                               *)
(***************************************************************************)
THEOREM OwnFaceAnswersHolds ==
  (\E q \in Http!HttpRequest : Http!InitWith(q)) /\ [][Http!Next]_(Http!vars) => []Http!OwnFaceAnswers
<1>1. HttpInv => Http!OwnFaceAnswers
  BY DEF HttpInv, FailureIsKnown, Http!OwnFaceAnswers, Http!FirstFace
<1> QED BY <1>1, HttpInvHolds, PTL

\* The handler of the next table is that of the name it gives itself.
LEMMA NamesHandle ==
  ASSUME NEW q, NEW service \in Http!Services
  PROVE  /\ FaceNamed(service) \in Http!Services
         /\ Http!Handle(FaceNamed(service), q) = Http!Handle(service, q)
<1>1. FaceNamed(service) \in Http!Services
  BY DEF FaceNamed, Http!Services
<1>2. CASE service = "random_path"
  <2>1. FaceNamed(service) = "fingerprint_probe"
    BY <1>2 DEF FaceNamed
  <2>2. Http!Handle("fingerprint_probe", q) = Http!NotFound(q)
    BY DEF Http!Handle
  <2>3. Http!Handle("random_path", q) = Http!NotFound(q)
    BY DEF Http!Handle
  <2> QED BY <1>1, <1>2, <2>1, <2>2, <2>3
<1>3. CASE service # "random_path"
  BY <1>1, <1>3 DEF FaceNamed
<1> QED BY <1>2, <1>3

\* A request matches a number of routes of a table with finitely many prefixes.
LEMMA MatchesAreCounted ==
  ASSUME NEW q, NEW table, IsFiniteSet(table.prefixes)
  PROVE  Http!Matches(table, q) \in Nat
<1>1. IsFiniteSet(table.prefixes \cap Http!PrefixesOf(Http!Path(q)))
  BY FS_Intersection
<1>2. IsFiniteSet(table.exact \cap {Http!Path(q)})
  BY FS_Singleton, FS_Intersection
<1>3. PICK begun, whole :
        /\ begun = Cardinality(table.prefixes \cap Http!PrefixesOf(Http!Path(q)))
        /\ whole = Cardinality(table.exact \cap {Http!Path(q)})
        /\ begun \in Nat /\ whole \in Nat
  BY <1>1, <1>2, FS_CardinalityType
<1>4. CASE table.service = "random_path"
  BY <1>4 DEF Http!Matches
<1>5. CASE table.service # "random_path"
  <2>1. \A S : Http!Cardinality(S) = Cardinality(S)
    BY DEF Http!Cardinality, Cardinality
  <2>2. Http!Matches(table, q) = begun + whole
    BY <1>3, <1>5, <2>1 DEF Http!Matches
  <2> QED BY <1>3, <2>2
<1> QED BY <1>4, <1>5

(***************************************************************************)
(* What a look at the next table finds.                                    *)
(***************************************************************************)
LEMMA LookIsKnown ==
  ASSUME matching \subseteq DOMAIN Http!Tables, matching # {},
         NEW i, i = Http!Min(matching),
         NEW outcome, outcome = Http!Handle(Http!Tables[i].service, request)
  PROVE  /\ i \in matching /\ \A j \in matching : i <= j
         /\ outcome.service \in Http!Services
         /\ outcome = Http!Handle(outcome.service, request)
         /\ outcome.recorded \in 0 .. 2
         /\ Http!Matches(Http!Tables[i], request) \in Nat
<1>1. matching \subseteq Nat
  BY TableServes
<1>2. i \in matching /\ \A j \in matching : i <= j
  BY <1>1, SmallestInSet DEF Http!Min
<1>3. PICK service \in Http!Services : service = Http!Tables[i].service
  BY <1>2, TableServes DEF WellFormed
<1>4. outcome.service = FaceNamed(service) /\ outcome.recorded \in 0 .. 2
  BY <1>3, HandlersStandForThemselves DEF StandsFor
<1>5. outcome.service \in Http!Services /\ outcome = Http!Handle(outcome.service, request)
  BY <1>3, <1>4, NamesHandle
<1>6. Http!Matches(Http!Tables[i], request) \in Nat
  BY <1>2, TableServes, MatchesAreCounted DEF WellFormed
<1> QED BY <1>2, <1>4, <1>5, <1>6

\* The state of the request is well formed, and once it is answered there is an
\* answer.
HttpTyped ==
  /\ Http!TypeOK
  /\ Http!Answered => Http!IsAnswer(answer)

\* A look at the next table leaves the records well formed.
LEMMA LookIsTyped ==
  ASSUME Http!TypeOK, matching # {}, NEW i, i = Http!Min(matching),
         NEW outcome, outcome = Http!Handle(Http!Tables[i].service, request),
         NEW times \in Nat, Http!Look(i, outcome, times)
  PROVE  /\ matching' \subseteq DOMAIN Http!Tables
         /\ DOMAIN recorded' \subseteq Http!Services
         /\ \A s \in DOMAIN recorded' : recorded'[s] \in Nat
         /\ captured' \subseteq Http!Services
<1>1. /\ matching \subseteq DOMAIN Http!Tables
      /\ DOMAIN recorded \subseteq Http!Services
      /\ \A s \in DOMAIN recorded : recorded[s] \in Nat
      /\ captured \subseteq Http!Services
  BY DEF Http!TypeOK
<1>2. outcome.service \in Http!Services /\ outcome.recorded \in 0 .. 2
  BY <1>1, LookIsKnown
<1>3. times * outcome.recorded \in Nat
  <2>1. outcome.recorded = 0 \/ outcome.recorded = 1 \/ outcome.recorded = 2
    BY <1>2
  <2>2. times * 0 \in Nat /\ times * 1 \in Nat /\ times * 2 \in Nat
    OBVIOUS
  <2> QED BY <2>1, <2>2
<1>4. PICK counted : counted = times * outcome.recorded
  OBVIOUS
<1>5. recorded' = [s \in DOMAIN recorded \cup {outcome.service} |->
                     IF s = outcome.service THEN counted ELSE recorded[s]]
  BY <1>4 DEF Http!Look
<1>6. /\ DOMAIN recorded' \subseteq Http!Services
      /\ \A s \in DOMAIN recorded' : recorded'[s] \in Nat
  BY <1>1, <1>2, <1>3, <1>4, <1>5
<1> QED BY <1>1, <1>2, <1>6 DEF Http!Look

\* Every step of the dispatch keeps it so.
LEMMA NextKeepsHttpTyped ==
  ASSUME HttpTyped, [Http!Next]_(Http!vars)
  PROVE  HttpTyped'
<1> USE DEF HttpTyped, Http!Answered
<1>1. CASE Http!Extract
  <2>1. Http!Matching(request) \subseteq DOMAIN Http!Tables
    BY DEF Http!Matching
  <2>2. Http!Login(request) \in BOOLEAN
    BY DEF Http!Login, Http!Credentials
  <2>3. stage = "received" /\ stage' = "dispatch" /\ login' \in BOOLEAN
        /\ matching' \subseteq DOMAIN Http!Tables
        /\ UNCHANGED <<request, failed, recorded, captured, answer, made>>
    BY <1>1, <2>1, <2>2 DEF Http!Extract
  <2> QED BY <2>3 DEF Http!TypeOK, Http!IsAnswer
<1>2. CASE Http!HandlerAnswers
  <2>1. PICK i, outcome : i = Http!Min(matching)
                          /\ outcome = Http!Handle(Http!Tables[i].service, request)
    OBVIOUS
  <2>2. /\ matching # {} /\ stage' = "respond" /\ answer' = Http!AnswerOf(outcome)
        /\ Http!Look(i, outcome, 1)
        /\ UNCHANGED <<request, login, failed, made>>
    BY <1>2, <2>1 DEF Http!HandlerAnswers
  <2>3. outcome.service \in Http!Services /\ outcome = Http!Handle(outcome.service, request)
    BY <2>1, <2>2, LookIsKnown DEF Http!TypeOK
  <2>4. Http!AnswerOf(outcome).service = outcome.service
    BY DEF Http!AnswerOf
  <2>5. Http!IsAnswer(answer)'
    BY <2>2, <2>3, <2>4 DEF Http!IsAnswer
  <2>6. /\ matching' \subseteq DOMAIN Http!Tables
        /\ DOMAIN recorded' \subseteq Http!Services
        /\ \A s \in DOMAIN recorded' : recorded'[s] \in Nat
        /\ captured' \subseteq Http!Services
    BY <2>1, <2>2, LookIsTyped
  <2> QED BY <2>2, <2>5, <2>6 DEF Http!TypeOK
<1>3. CASE Http!HandlerRaises
  <2>1. PICK i, outcome : i = Http!Min(matching)
                          /\ outcome = Http!Handle(Http!Tables[i].service, request)
    OBVIOUS
  <2>2. /\ matching # {} /\ stage = "dispatch" /\ failed' = Append(failed, outcome.service)
        /\ Http!Look(i, outcome, Http!Matches(Http!Tables[i], request))
        /\ UNCHANGED <<stage, request, login, answer, made>>
    BY <1>3, <2>1 DEF Http!HandlerRaises
  <2>3. /\ outcome.service \in Http!Services
        /\ Http!Matches(Http!Tables[i], request) \in Nat
    BY <2>1, <2>2, LookIsKnown DEF Http!TypeOK
  <2>4. failed' \in Seq(Http!Services)
    BY <2>2, <2>3 DEF Http!TypeOK
  <2>5. /\ matching' \subseteq DOMAIN Http!Tables
        /\ DOMAIN recorded' \subseteq Http!Services
        /\ \A s \in DOMAIN recorded' : recorded'[s] \in Nat
        /\ captured' \subseteq Http!Services
    BY <2>1, <2>2, <2>3, LookIsTyped
  <2> QED BY <2>2, <2>4, <2>5 DEF Http!TypeOK, Http!IsAnswer
<1>4. CASE Http!FallBack
  <2>1. Http!IsAnswer(answer)'
    BY <1>4 DEF Http!FallBack, Http!IsAnswer
  <2> QED BY <1>4, <2>1 DEF Http!FallBack, Http!TypeOK
<1>5. CASE Http!Report
  <2>1. /\ stage = "respond" /\ stage' = "reported"
        /\ made' = [login |-> login, service |-> answer.service, profiles |-> DOMAIN recorded]
        /\ UNCHANGED <<request, login, matching, failed, recorded, captured, answer>>
    BY <1>5 DEF Http!Report
  <2>2. answer.service \in Http!Services \cup {"none"}
    BY <2>1 DEF Http!IsAnswer, Http!Fallback
  <2>3. made' \in Http!Reported
    BY <2>1, <2>2 DEF Http!TypeOK, Http!Reported
  <2> QED BY <2>1, <2>3 DEF Http!TypeOK, Http!IsAnswer
<1>6. CASE Http!Done \/ UNCHANGED Http!vars
  BY <1>6 DEF Http!Done, Http!vars, Http!TypeOK, Http!IsAnswer
<1> QED BY <1>1, <1>2, <1>3, <1>4, <1>5, <1>6 DEF Http!Next

(***************************************************************************)
(* Type correctness of the dispatch.                                       *)
(***************************************************************************)
LEMMA HttpTypedHolds ==
  (\E q \in Http!HttpRequest : Http!InitWith(q)) /\ [][Http!Next]_(Http!vars) => []HttpTyped
<1>1. (\E q \in Http!HttpRequest : Http!InitWith(q)) => HttpTyped
  <2> SUFFICES ASSUME NEW q \in Http!HttpRequest, Http!InitWith(q)
               PROVE  HttpTyped
    OBVIOUS
  <2>1. <<>> \in Seq(Http!Services) /\ DOMAIN <<>> = {}
    OBVIOUS
  <2> QED BY <2>1 DEF Http!InitWith, HttpTyped, Http!TypeOK, Http!Answered
<1>2. HttpTyped /\ [Http!Next]_(Http!vars) => HttpTyped'
  BY NextKeepsHttpTyped
<1> QED BY <1>1, <1>2, PTL

(***************************************************************************)
(* What the table has for a request: what each handler makes of it, those  *)
(* that match and do not raise, the answer of the first of these, and the  *)
(* face that meets the request first.                                      *)
(***************************************************************************)
Outcome(i, q) == Http!Handle(Http!Tables[i].service, q)
Willing(q) == {i \in Http!Matching(q) : ~Outcome(i, q).raised}
AnswerTo(q) ==
  IF Willing(q) = {} THEN Http!Fallback ELSE Http!AnswerOf(Outcome(Http!Min(Willing(q)), q))
FaceOf(q) ==
  IF Http!Matching(q) = {} THEN "none" ELSE Outcome(Http!Min(Http!Matching(q)), q).service

\* Min gives the smallest number of a set.
LEMMA MinIsSmallest ==
  ASSUME NEW S, S \subseteq Nat, NEW x \in S, \A y \in S : x <= y
  PROVE  Http!Min(S) = x
<1>1. Http!Min(S) \in S /\ \A y \in S : Http!Min(S) <= y
  BY SmallestInSet DEF Http!Min
<1>2. Http!Min(S) <= x /\ x <= Http!Min(S)
  BY <1>1
<1>3. Http!Min(S) \in Nat /\ x \in Nat
  BY <1>1
<1> HIDE DEF Http!Min
<1> QED BY <1>2, <1>3

(***************************************************************************)
(* Why the answer depends on the table only: the tables that were tried    *)
(* come before those that were not, and all of them raised.                *)
(***************************************************************************)
TriedInOrder ==
  stage = "dispatch" =>
    /\ matching \subseteq Http!Matching(request)
    /\ \A i \in Http!Matching(request) \ matching :
         Outcome(i, request).raised /\ \A j \in matching : i < j
    /\ failed = <<>> => matching = Http!Matching(request)

FirstMet ==
  /\ stage = "received" => failed = <<>>
  /\ failed # <<>> => Http!Matching(request) # {} /\ Head(failed) = FaceOf(request)
  /\ Http!Answered /\ failed = <<>> => answer.service = FaceOf(request)

Answering == Http!Answered => answer = AnswerTo(request)

InTurn == TriedInOrder /\ FirstMet /\ Answering

\* Every step of the dispatch keeps to the order,
LEMMA NextKeepsInTurn ==
  ASSUME HttpTyped, InTurn, [Http!Next]_(Http!vars)
  PROVE  InTurn'
<1> USE DEF InTurn, Http!Answered
<1>1. Http!Matching(request) \subseteq Nat /\ matching \subseteq DOMAIN Http!Tables
  BY TableServes DEF Http!Matching, HttpTyped, Http!TypeOK
<1>2. CASE Http!Extract
  <2>1. /\ stage = "received" /\ stage' = "dispatch" /\ matching' = Http!Matching(request)
        /\ UNCHANGED <<request, failed, answer>>
    BY <1>2 DEF Http!Extract
  <2> QED BY <2>1 DEF TriedInOrder, FirstMet, Answering
<1>3. CASE Http!HandlerAnswers
  <2>1. PICK i : i = Http!Min(matching)
    OBVIOUS
  <2>2. /\ stage = "dispatch" /\ stage' = "respond" /\ matching # {}
        /\ ~Outcome(i, request).raised
        /\ answer' = Http!AnswerOf(Outcome(i, request))
        /\ UNCHANGED <<request, failed>>
    BY <1>3, <2>1 DEF Http!HandlerAnswers, Outcome
  <2>3. i \in matching /\ \A j \in matching : i <= j
    BY <1>1, <2>1, <2>2, LookIsKnown
  <2>4. AnswerTo(request) = Http!AnswerOf(Outcome(i, request))
    <3>1. i \in Willing(request) /\ Willing(request) \subseteq Nat
      BY <1>1, <2>2, <2>3 DEF Willing, TriedInOrder
    <3>2. \A j \in Willing(request) : i <= j
      BY <2>2, <2>3 DEF Willing, TriedInOrder
    <3>3. Http!Min(Willing(request)) = i
      BY <3>1, <3>2, MinIsSmallest
    <3> QED BY <3>1, <3>3 DEF AnswerTo
  <2>5. failed = <<>> => answer'.service = FaceOf(request)
    BY <2>1, <2>2 DEF TriedInOrder, FaceOf, Http!AnswerOf
  <2> QED BY <2>2, <2>4, <2>5 DEF TriedInOrder, FirstMet, Answering
<1>4. CASE Http!HandlerRaises
  <2>1. PICK i : i = Http!Min(matching)
    OBVIOUS
  <2>2. /\ stage = "dispatch" /\ matching # {} /\ Outcome(i, request).raised
        /\ matching' = matching \ {i}
        /\ failed' = Append(failed, Outcome(i, request).service)
        /\ UNCHANGED <<stage, request, answer>>
    BY <1>4, <2>1 DEF Http!HandlerRaises, Http!Look, Outcome
  <2>3. i \in matching /\ (\A j \in matching : i <= j) /\ matching \subseteq Nat
    BY <1>1, <2>1, <2>2, LookIsKnown, TableServes
  <2>4. failed \in Seq(Http!Services)
    BY DEF HttpTyped, Http!TypeOK
  <2>5. failed' # <<>> /\ failed'[1] = (IF failed = <<>> THEN Outcome(i, request).service
                                        ELSE failed[1])
    BY <2>2, <2>4
  <2>6. TriedInOrder'
    BY <1>1, <2>2, <2>3, <2>5 DEF TriedInOrder
  <2>7. FirstMet'
    <3>1. Http!Matching(request) # {}
      BY <2>2 DEF TriedInOrder
    <3>2. CASE failed = <<>>
      BY <2>1, <2>2, <2>5, <3>1, <3>2 DEF TriedInOrder, FirstMet, FaceOf
    <3>3. CASE failed # <<>>
      BY <2>2, <2>5, <3>1, <3>3 DEF FirstMet
    <3> QED BY <3>2, <3>3
  <2> QED BY <2>2, <2>6, <2>7 DEF Answering
<1>5. CASE Http!FallBack
  <2>1. /\ stage = "dispatch" /\ stage' = "respond" /\ matching = {}
        /\ answer' = Http!Fallback /\ UNCHANGED <<request, failed>>
    BY <1>5 DEF Http!FallBack
  <2>2. Willing(request) = {}
    BY <2>1 DEF Willing, TriedInOrder
  <2>3. failed = <<>> => answer'.service = FaceOf(request)
    BY <2>1 DEF TriedInOrder, FaceOf, Http!Fallback
  <2> QED BY <2>1, <2>2, <2>3 DEF TriedInOrder, FirstMet, Answering, AnswerTo
<1>6. CASE Http!Report
  BY <1>6 DEF Http!Report, TriedInOrder, FirstMet, Answering
<1>7. CASE Http!Done \/ UNCHANGED Http!vars
  BY <1>7 DEF Http!Done, Http!vars, TriedInOrder, FirstMet, Answering
<1> QED BY <1>2, <1>3, <1>4, <1>5, <1>6, <1>7 DEF Http!Next

\* so it is kept from any request on.
LEMMA InTurnHolds ==
  (\E q \in Http!HttpRequest : Http!InitWith(q)) /\ [][Http!Next]_(Http!vars)
    => [](HttpTyped /\ InTurn)
<1>1. (\E q \in Http!HttpRequest : Http!InitWith(q)) => InTurn
  BY DEF Http!InitWith, InTurn, TriedInOrder, FirstMet, Answering, Http!Answered
<1>2. HttpTyped /\ InTurn /\ [Http!Next]_(Http!vars) => InTurn'
  BY NextKeepsInTurn
<1> QED BY <1>1, <1>2, HttpTypedHolds, PTL

(***************************************************************************)
(* Router.dispatch answers every request with the first matching table     *)
(* whose handler does not raise, in the order of the table, and with the   *)
(* fallback if there is none; and the face that meets the request first is *)
(* that of the first matching table.                                       *)
(***************************************************************************)
THEOREM DispatchIsInTableOrder ==
  (\E q \in Http!HttpRequest : Http!InitWith(q)) /\ [][Http!Next]_(Http!vars)
    => [](Http!Answered => answer = AnswerTo(request) /\ Http!FirstFace = FaceOf(request))
<1>1. InTurn => (Http!Answered => answer = AnswerTo(request) /\ Http!FirstFace = FaceOf(request))
  BY DEF InTurn, FirstMet, Answering, Http!FirstFace
<1> QED BY <1>1, InTurnHolds, PTL

(***************************************************************************)
(* Elastic is met on its own ports only, whatever the request: both of its *)
(* tables are scoped to them.                                              *)
(***************************************************************************)
THEOREM ElasticIsScoped ==
  (\E q \in Http!HttpRequest : Http!InitWith(q)) /\ [][Http!Next]_(Http!vars)
    => []Http!ElasticOnItsPorts
<1>1. ASSUME NEW q, FaceOf(q) = "elastic"
      PROVE  q.port \in {0, 9200, 15672}
  <2>1. Http!Matching(q) # {} /\ Http!Matching(q) \subseteq DOMAIN Http!Tables
    BY <1>1 DEF FaceOf, Http!Matching
  <2>2. PICK i : i = Http!Min(Http!Matching(q))
    OBVIOUS
  <2>3. i \in Http!Matching(q)
    BY <2>1, <2>2, TableServes, SmallestInSet DEF Http!Min
  <2>4. WellFormed(Http!Tables[i]) /\ ~Http!Scoped(Http!Tables[i], q)
    BY <2>1, <2>3, TableServes DEF Http!Matching
  <2>5. FaceNamed(Http!Tables[i].service) = "elastic"
    BY <1>1, <2>1, <2>2, <2>4, HandlersStandForThemselves
       DEF FaceOf, Outcome, StandsFor, WellFormed
  <2>6. Http!Tables[i].ports = {9200, 15672}
    BY <2>4, <2>5 DEF FaceNamed, WellFormed, Http!ElasticPorts
  <2> QED BY <2>4, <2>6 DEF Http!Scoped
<1>2. (Http!Answered => answer = AnswerTo(request) /\ Http!FirstFace = FaceOf(request))
        => Http!ElasticOnItsPorts
  BY <1>1 DEF Http!ElasticOnItsPorts
<1> QED BY <1>2, DispatchIsInTableOrder, PTL

(***************************************************************************)
(* The faces that look at a request: those of the tables that match, up to *)
(* the first whose handler does not raise.                                 *)
(***************************************************************************)
Looking(q) == {i \in Http!Matching(q) : \A j \in Willing(q) : i <= j}
FacesAt(places, q) == {Outcome(i, q).service : i \in places}

(***************************************************************************)
(* Why the report depends on the request only: the profiles are those of   *)
(* the tables that were tried.                                             *)
(***************************************************************************)
ProfilesOfTried ==
  /\ stage = "received" => DOMAIN recorded = {}
  /\ stage = "dispatch" =>
       DOMAIN recorded = FacesAt(Http!Matching(request) \ matching, request)
  /\ Http!Answered => DOMAIN recorded = FacesAt(Looking(request), request)

ReportOfRequest ==
  /\ stage # "received" => login = Http!Login(request)
  /\ stage = "reported" =>
       made = [login |-> Http!Login(request), service |-> AnswerTo(request).service,
               profiles |-> FacesAt(Looking(request), request)]

\* Every step of the dispatch keeps them so,
LEMMA NextKeepsReport ==
  ASSUME HttpTyped, InTurn, ProfilesOfTried, ReportOfRequest, [Http!Next]_(Http!vars)
  PROVE  ProfilesOfTried' /\ ReportOfRequest'
<1> USE DEF Http!Answered
<1>1. Http!Matching(request) \subseteq Nat /\ matching \subseteq DOMAIN Http!Tables
  BY TableServes DEF Http!Matching, HttpTyped, Http!TypeOK
<1>2. CASE Http!Extract
  <2>1. /\ stage = "received" /\ stage' = "dispatch" /\ matching' = Http!Matching(request)
        /\ login' = Http!Login(request)
        /\ UNCHANGED <<request, recorded>>
    BY <1>2 DEF Http!Extract
  <2> QED BY <2>1 DEF ProfilesOfTried, ReportOfRequest, FacesAt
<1>3. CASE Http!HandlerAnswers
  <2>1. PICK i : i = Http!Min(matching)
    OBVIOUS
  <2>2. /\ stage = "dispatch" /\ stage' = "respond" /\ matching # {}
        /\ ~Outcome(i, request).raised
        /\ DOMAIN recorded' = DOMAIN recorded \cup {Outcome(i, request).service}
        /\ UNCHANGED <<request, login>>
    BY <1>3, <2>1 DEF Http!HandlerAnswers, Http!Look, Outcome
  <2>3. i \in matching /\ \A j \in matching : i <= j
    BY <1>1, <2>1, <2>2, LookIsKnown
  <2>4. Looking(request) = (Http!Matching(request) \ matching) \cup {i}
    BY <1>1, <2>2, <2>3 DEF Looking, Willing, InTurn, TriedInOrder
  <2>5. DOMAIN recorded' = FacesAt(Looking(request), request)
    BY <2>2, <2>4 DEF ProfilesOfTried, FacesAt
  <2> QED BY <2>2, <2>5 DEF ProfilesOfTried, ReportOfRequest
<1>4. CASE Http!HandlerRaises
  <2>1. PICK i : i = Http!Min(matching)
    OBVIOUS
  <2>2. /\ stage = "dispatch" /\ stage' = stage /\ matching # {}
        /\ matching' = matching \ {i}
        /\ DOMAIN recorded' = DOMAIN recorded \cup {Outcome(i, request).service}
        /\ UNCHANGED <<request, login>>
    BY <1>4, <2>1 DEF Http!HandlerRaises, Http!Look, Outcome
  <2>3. i \in matching
    BY <1>1, <2>1, <2>2, LookIsKnown
  <2>4. Http!Matching(request) \ matching' = (Http!Matching(request) \ matching) \cup {i}
    BY <2>2, <2>3 DEF InTurn, TriedInOrder
  <2> QED BY <2>2, <2>4 DEF ProfilesOfTried, ReportOfRequest, FacesAt
<1>5. CASE Http!FallBack
  <2>1. /\ stage = "dispatch" /\ stage' = "respond" /\ matching = {}
        /\ UNCHANGED <<request, login, recorded>>
    BY <1>5 DEF Http!FallBack
  <2>2. Looking(request) = Http!Matching(request) \ matching
    BY <2>1 DEF Looking, Willing, InTurn, TriedInOrder
  <2> QED BY <2>1, <2>2 DEF ProfilesOfTried, ReportOfRequest
<1>6. CASE Http!Report
  <2>1. /\ stage = "respond" /\ stage' = "reported"
        /\ made' = [login |-> login, service |-> answer.service, profiles |-> DOMAIN recorded]
        /\ UNCHANGED <<request, login, recorded, answer>>
    BY <1>6 DEF Http!Report
  <2> QED BY <2>1 DEF ProfilesOfTried, ReportOfRequest, InTurn, Answering
<1>7. CASE Http!Done \/ UNCHANGED Http!vars
  BY <1>7 DEF Http!Done, Http!vars, ProfilesOfTried, ReportOfRequest
<1> QED BY <1>2, <1>3, <1>4, <1>5, <1>6, <1>7 DEF Http!Next

(***************************************************************************)
(* The report of a request, whatever it is: the login is that of its form, *)
(* the service the one that answers it by the table, and the profiles are  *)
(* those of that service and of all that raised before it, and of no other *)
(* (process_request and collect_all_profiles).                             *)
(***************************************************************************)
THEOREM ReportIsOfTheRequest ==
  (\E q \in Http!HttpRequest : Http!InitWith(q)) /\ [][Http!Next]_(Http!vars)
    => [](stage = "reported" =>
            made = [login |-> Http!Login(request), service |-> AnswerTo(request).service,
                    profiles |-> FacesAt(Looking(request), request)])
<1>1. (\E q \in Http!HttpRequest : Http!InitWith(q)) => ProfilesOfTried /\ ReportOfRequest
  <2>1. DOMAIN <<>> = {}
    OBVIOUS
  <2> QED BY <2>1 DEF Http!InitWith, ProfilesOfTried, ReportOfRequest, Http!Answered
<1>2. HttpTyped /\ InTurn /\ ProfilesOfTried /\ ReportOfRequest /\ [Http!Next]_(Http!vars)
        => (ProfilesOfTried /\ ReportOfRequest)'
  BY NextKeepsReport
<1>3. ReportOfRequest =>
        (stage = "reported" =>
            made = [login |-> Http!Login(request), service |-> AnswerTo(request).service,
                    profiles |-> FacesAt(Looking(request), request)])
  BY DEF ReportOfRequest
<1> QED BY <1>1, <1>2, <1>3, InTurnHolds, PTL

(***************************************************************************)
(* The policy of the comments of the route table, read off the table for   *)
(* one request: by whom it is met and what it is answered.                 *)
(***************************************************************************)
TableKeepsPolicy(q) ==
  /\ Http!Path(q) \in DOMAIN Http!ExactPolicy => FaceOf(q) = Http!ExactPolicy[Http!Path(q)]
  /\ \A owned \in Http!PrefixPolicy :
       Http!StartsWith(Http!Path(q), owned[1]) /\ Http!Path(q) \notin DOMAIN Http!ExactPolicy
         => FaceOf(q) = owned[2]
  /\ Http!IsRandomProbe(q) => AnswerTo(q).page.status = 404

(***************************************************************************)
(* The dispatch adds nothing to the table: in every behaviour, whether a   *)
(* request is met as the comments of the route table say is decided by the *)
(* table alone.  What the strings of the table make of a path is evaluated *)
(* by TLC.                                                                 *)
(***************************************************************************)
THEOREM PolicyIsOfTheTable ==
  (\E q \in Http!HttpRequest : Http!InitWith(q)) /\ [][Http!Next]_(Http!vars)
    => [](Http!PolicyHolds <=> (Http!Answered => TableKeepsPolicy(request)))
<1>1. /\ Http!Answered => answer = AnswerTo(request) /\ Http!FirstFace = FaceOf(request)
      /\ Http!ElasticOnItsPorts
      => (Http!PolicyHolds <=> (Http!Answered => TableKeepsPolicy(request)))
  BY DEF Http!PolicyHolds, TableKeepsPolicy
<1> QED BY <1>1, DispatchIsInTableOrder, ElasticIsScoped, PTL

-----------------------------------------------------------------------------
(* The whole.                                                              *)

(***************************************************************************)
(* The router that the proofs are about is the one that runs;              *)
(***************************************************************************)
LEMMA RouterAgrees ==
  /\ Router!RouterAssumption => RouterP!RouterAssumption
  /\ Router!Init => RouterP!Init
  /\ [Router!Next]_(Router!vars) => [RouterP!Next]_(RouterP!vars)
  /\ RouterP!TypeOK => Router!TypeOK
  /\ RouterP!NoForeignActivity => Router!NoForeignActivity
  /\ RouterP!CacheIsLRU => Router!CacheIsLRU
  /\ RouterP!AloneReportsItself => Router!AloneReportsItself
<1>1. Router!RouterAssumption => RouterP!RouterAssumption
  BY DEF Router!RouterAssumption, RouterP!RouterAssumption, Router!Max, RouterP!Max
<1>2. Router!Init => RouterP!Init
  BY DEF Router!Init, RouterP!Init, Router!Instances, RouterP!Instances, Router!Profiles,
      RouterP!Profiles, Router!Nothing, RouterP!Nothing, Router!Domains, RouterP!Domains,
      Router!NoData, RouterP!NoData
<1>3. [Router!Next]_(Router!vars) => [RouterP!Next]_(RouterP!vars)
  BY DEF Router!Next, RouterP!Next, Router!Accept, RouterP!Accept, Router!AcceptProbe,
      RouterP!AcceptProbe, Router!Match, RouterP!Match, Router!FallBack, RouterP!FallBack,
      Router!Raise, RouterP!Raise, Router!LookUp, RouterP!LookUp, Router!RecordRequest,
      RouterP!RecordRequest, Router!RecordInteraction, RouterP!RecordInteraction,
      Router!Snapshot, RouterP!Snapshot, Router!Collect, RouterP!Collect, Router!Send,
      RouterP!Send, Router!Close, RouterP!Close, Router!Gone, RouterP!Gone,
      Router!RoomToServe, RouterP!RoomToServe, Router!Goes, RouterP!Goes, Router!Served,
      RouterP!Served, Router!Kept, RouterP!Kept, Router!Dropped, RouterP!Dropped,
      Router!Mine, RouterP!Mine, Router!Touched, RouterP!Touched, Router!Evicted,
      RouterP!Evicted, Router!Profiles, RouterP!Profiles, Router!Cleared, RouterP!Cleared,
      Router!Instances, RouterP!Instances, Router!Referred, RouterP!Referred,
      Router!Nothing, RouterP!Nothing, Router!vars, RouterP!vars, Router!Domains,
      RouterP!Domains, Router!NoData, RouterP!NoData, Router!Min, RouterP!Min,
      Router!RemoveAt, RouterP!RemoveAt, Router!Range, RouterP!Range, Router!Cardinality,
      RouterP!Cardinality
<1>4. RouterP!TypeOK => Router!TypeOK
  BY DEF Router!TypeOK, RouterP!TypeOK, Router!Instances, RouterP!Instances,
      Router!Profiles, RouterP!Profiles, Router!Domains, RouterP!Domains,
      Router!ReportData, RouterP!ReportData
<1>5. RouterP!NoForeignActivity => Router!NoForeignActivity
  BY DEF Router!NoForeignActivity, RouterP!NoForeignActivity, Router!Requests,
      RouterP!Requests, Router!Interactions, RouterP!Interactions, Router!Domains,
      RouterP!Domains
<1>6. RouterP!CacheIsLRU => Router!CacheIsLRU
  BY DEF Router!CacheIsLRU, RouterP!CacheIsLRU, Router!Instances, RouterP!Instances
<1>7. RouterP!AloneReportsItself => Router!AloneReportsItself
  BY DEF Router!AloneReportsItself, RouterP!AloneReportsItself, Router!Reported,
      RouterP!Reported, Router!Requests, RouterP!Requests, Router!Interactions,
      RouterP!Interactions, Router!Domains, RouterP!Domains
<1> QED BY <1>1, <1>2, <1>3, <1>4, <1>5, <1>6, <1>7

(***************************************************************************)
(* so is the profile,                                                      *)
(***************************************************************************)
LEMMA BotAgrees ==
  /\ Bot!ProfileAssumption => CaptureP!Bot!ProfileAssumption
  /\ Bot!Init => CaptureP!Bot!Init
  /\ [Bot!Next]_(Bot!vars) => [CaptureP!Bot!Next]_(CaptureP!Bot!vars)
  /\ CaptureP!Bot!TypeOK => Bot!TypeOK
  /\ CaptureP!Bot!LevelIsWorst => Bot!LevelIsWorst
<1>1. Bot!ProfileAssumption => CaptureP!Bot!ProfileAssumption
  BY DEF Bot!ProfileAssumption, CaptureP!Bot!ProfileAssumption
<1>2. Bot!Init => CaptureP!Bot!Init
  BY DEF Bot!Init, CaptureP!Bot!Init, Bot!IDLE, CaptureP!Bot!IDLE
<1>3. [Bot!Next]_(Bot!vars) => [CaptureP!Bot!Next]_(CaptureP!Bot!vars)
  BY DEF Bot!Next, CaptureP!Bot!Next, Bot!vars, CaptureP!Bot!vars, Bot!RecordRequest,
      CaptureP!Bot!RecordRequest, Bot!RecordInteraction, CaptureP!Bot!RecordInteraction,
      Bot!CaptureCredentials, CaptureP!Bot!CaptureCredentials, Bot!Idle, CaptureP!Bot!Idle,
      Bot!Call, CaptureP!Bot!Call, Bot!LastOf, CaptureP!Bot!LastOf, Bot!Behavior,
      CaptureP!Bot!Behavior, Bot!Higher, CaptureP!Bot!Higher, Bot!Escalation,
      CaptureP!Bot!Escalation, Bot!EXPLOIT_ATTEMPT, CaptureP!Bot!EXPLOIT_ATTEMPT,
      Bot!DEEP_EXPLOIT, CaptureP!Bot!DEEP_EXPLOIT, Bot!PROBE, CaptureP!Bot!PROBE,
      Bot!SCANNING, CaptureP!Bot!SCANNING, Bot!IDLE, CaptureP!Bot!IDLE
<1>4. CaptureP!Bot!TypeOK => Bot!TypeOK
  BY DEF Bot!TypeOK, CaptureP!Bot!TypeOK, Bot!Behaviors, CaptureP!Bot!Behaviors, Bot!IDLE,
      CaptureP!Bot!IDLE, Bot!SCANNING, CaptureP!Bot!SCANNING, Bot!PROBE, CaptureP!Bot!PROBE,
      Bot!EXPLOIT_ATTEMPT, CaptureP!Bot!EXPLOIT_ATTEMPT, Bot!DEEP_EXPLOIT,
      CaptureP!Bot!DEEP_EXPLOIT, Bot!Behavior, CaptureP!Bot!Behavior, Bot!Max,
      CaptureP!Bot!Max
<1>5. CaptureP!Bot!LevelIsWorst => Bot!LevelIsWorst
  BY DEF Bot!LevelIsWorst, CaptureP!Bot!LevelIsWorst, Bot!IDLE, CaptureP!Bot!IDLE,
      Bot!Escalation, CaptureP!Bot!Escalation, Bot!DEEP_EXPLOIT, CaptureP!Bot!DEEP_EXPLOIT,
      Bot!EXPLOIT_ATTEMPT, CaptureP!Bot!EXPLOIT_ATTEMPT, Bot!PROBE, CaptureP!Bot!PROBE,
      Bot!SCANNING, CaptureP!Bot!SCANNING, Bot!Max, CaptureP!Bot!Max
<1> QED BY <1>1, <1>2, <1>3, <1>4, <1>5

(***************************************************************************)
(* the geolocation                                                         *)
(***************************************************************************)
LEMMA GeoAgrees ==
  /\ Geo!GeoAssumption => CaptureP!Geo!GeoAssumption
  /\ Geo!Init => CaptureP!Geo!Init
  /\ [Geo!Next]_(Geo!vars) => [CaptureP!Geo!Next]_(CaptureP!Geo!vars)
  /\ CaptureP!Geo!TypeOK => Geo!TypeOK
  /\ CaptureP!Geo!AttributedUnlessRefused => Geo!AttributedUnlessRefused
<1>1. Geo!GeoAssumption => CaptureP!Geo!GeoAssumption
  BY DEF Geo!GeoAssumption, CaptureP!Geo!GeoAssumption
<1>2. Geo!Init => CaptureP!Geo!Init
  BY DEF Geo!Init, CaptureP!Geo!Init, Geo!Queues, CaptureP!Geo!Queues, Geo!Threads,
      CaptureP!Geo!Threads
<1>3. [Geo!Next]_(Geo!vars) => [CaptureP!Geo!Next]_(CaptureP!Geo!vars)
  BY DEF Geo!Next, CaptureP!Geo!Next, Geo!Capture, CaptureP!Geo!Capture, Geo!Skip,
      CaptureP!Geo!Skip, Geo!Hit, CaptureP!Geo!Hit, Geo!Miss, CaptureP!Geo!Miss,
      Geo!Start, CaptureP!Geo!Start, Geo!Put, CaptureP!Geo!Put, Geo!BackfillSkip,
      CaptureP!Geo!BackfillSkip, Geo!Backfill, CaptureP!Geo!Backfill, Geo!Threads,
      CaptureP!Geo!Threads, Geo!Pace, CaptureP!Geo!Pace, Geo!Answered,
      CaptureP!Geo!Answered, Geo!Failed, CaptureP!Geo!Failed, Geo!Stamp,
      CaptureP!Geo!Stamp, Geo!Queues, CaptureP!Geo!Queues, Geo!Read, CaptureP!Geo!Read,
      Geo!Get, CaptureP!Geo!Get, Geo!GetTimesOut, CaptureP!Geo!GetTimesOut,
      Geo!StopWorker, CaptureP!Geo!StopWorker, Geo!Tick, CaptureP!Geo!Tick, Geo!Goes,
      CaptureP!Geo!Goes, Geo!Fresh, CaptureP!Geo!Fresh, Geo!Without, CaptureP!Geo!Without,
      Geo!Gets, CaptureP!Geo!Gets, Geo!Finished, CaptureP!Geo!Finished, Geo!Store,
      CaptureP!Geo!Store, Geo!Less, CaptureP!Geo!Less, Geo!Stored, CaptureP!Geo!Stored,
      Geo!vars, CaptureP!Geo!vars, Geo!RemoveAt, CaptureP!Geo!RemoveAt, Geo!ToSet,
      CaptureP!Geo!ToSet
<1>4. CaptureP!Geo!TypeOK => Geo!TypeOK
  BY DEF Geo!TypeOK, CaptureP!Geo!TypeOK, Geo!Queues, CaptureP!Geo!Queues, Geo!Threads,
      CaptureP!Geo!Threads
<1>5. CaptureP!Geo!AttributedUnlessRefused => Geo!AttributedUnlessRefused
  BY DEF Geo!AttributedUnlessRefused, CaptureP!Geo!AttributedUnlessRefused
<1> QED BY <1>1, <1>2, <1>3, <1>4, <1>5

(***************************************************************************)
(* and the pool of alerts.                                                 *)
(***************************************************************************)
LEMMA AlertsAgree ==
  /\ Alerts!AlertAssumption => CaptureP!Alerts!AlertAssumption
  /\ Alerts!Init => CaptureP!Alerts!Init
  /\ [Alerts!Next]_(Alerts!vars) => [CaptureP!Alerts!Next]_(CaptureP!Alerts!vars)
  /\ CaptureP!Alerts!TypeOK => Alerts!TypeOK
  /\ CaptureP!Alerts!AlertsKept => Alerts!AlertsKept
<1>1. Alerts!AlertAssumption => CaptureP!Alerts!AlertAssumption
  BY DEF Alerts!AlertAssumption, CaptureP!Alerts!AlertAssumption
<1>2. Alerts!Init => CaptureP!Alerts!Init
  BY DEF Alerts!Init, CaptureP!Alerts!Init, Alerts!Pools, CaptureP!Alerts!Pools
<1>3. [Alerts!Next]_(Alerts!vars) => [CaptureP!Alerts!Next]_(CaptureP!Alerts!vars)
  BY DEF Alerts!Next, CaptureP!Alerts!Next, Alerts!vars, CaptureP!Alerts!vars, Alerts!LookUp,
      CaptureP!Alerts!LookUp, Alerts!Create, CaptureP!Alerts!Create, Alerts!ReRead,
      CaptureP!Alerts!ReRead, Alerts!Submit, CaptureP!Alerts!Submit, Alerts!Inline,
      CaptureP!Alerts!Inline, Alerts!Pools, CaptureP!Alerts!Pools, Alerts!Take,
      CaptureP!Alerts!Take, Alerts!Deliver, CaptureP!Alerts!Deliver, Alerts!Stop,
      CaptureP!Alerts!Stop, Alerts!Clear, CaptureP!Alerts!Clear, Alerts!Close,
      CaptureP!Alerts!Close, Alerts!Join, CaptureP!Alerts!Join, Alerts!ParentStop,
      CaptureP!Alerts!ParentStop, Alerts!Stopped, CaptureP!Alerts!Stopped, Alerts!Refused,
      CaptureP!Alerts!Refused, Alerts!Drained, CaptureP!Alerts!Drained, Alerts!Cardinality,
      CaptureP!Alerts!Cardinality, Alerts!ToSet, CaptureP!Alerts!ToSet
<1>4. CaptureP!Alerts!TypeOK => Alerts!TypeOK
  BY DEF Alerts!TypeOK, CaptureP!Alerts!TypeOK, Alerts!Pools, CaptureP!Alerts!Pools,
      Alerts!Cardinality, CaptureP!Alerts!Cardinality, Alerts!ToSet, CaptureP!Alerts!ToSet
<1>5. CaptureP!Alerts!AlertsKept => Alerts!AlertsKept
  BY DEF Alerts!AlertsKept, CaptureP!Alerts!AlertsKept, Alerts!Pools, CaptureP!Alerts!Pools,
      Alerts!Waiting, CaptureP!Alerts!Waiting, Alerts!Cardinality,
      CaptureP!Alerts!Cardinality, Alerts!ToSet, CaptureP!Alerts!ToSet
<1> QED BY <1>1, <1>2, <1>3, <1>4, <1>5

(***************************************************************************)
(* Each part of the whole behaves as it does alone: a step is one of the   *)
(* part that runs, and the others stutter.  (A connection that no thread   *)
(* serves still satisfies what is proved of its steps.)                    *)
(***************************************************************************)
LEMMA PartsRun ==
  SensorSpec => /\ Init /\ [][Next]_vars
                /\ Router!Init /\ [][Router!Next]_(Router!vars)
                /\ (\E q \in Http!HttpRequest : Http!InitWith(q))
                /\ [][Http!Next]_(Http!vars)
                /\ Bot!Init /\ [][Bot!Next]_(Bot!vars)
                /\ Geo!Init /\ [][Geo!Next]_(Geo!vars)
                /\ Alerts!Init /\ [][Alerts!Next]_(Alerts!vars)
<1> USE DEF SensorNext, sensorVars, InConn, InRouter, InHttp, InProfile, InGeo, InAlert
<1>1. SensorInit => /\ Init /\ Router!Init /\ Bot!Init /\ Geo!Init /\ Alerts!Init
                    /\ \E q \in Http!HttpRequest : Http!InitWith(q)
  BY SensorAssumption DEF SensorInit, Http!Init, Http!DispatchAssumption
<1>2. [SensorNext]_sensorVars => [Next]_vars
  OBVIOUS
<1>3. [SensorNext]_sensorVars => [Router!Next]_(Router!vars)
  BY DEF routerVars, Router!vars
<1>4. [SensorNext]_sensorVars => [Bot!Next]_(Bot!vars)
  BY DEF botVars, Bot!vars
<1>5. [SensorNext]_sensorVars => [Geo!Next]_(Geo!vars)
  BY DEF geoVars, Geo!vars
<1>6. [SensorNext]_sensorVars => [Alerts!Next]_(Alerts!vars)
  BY DEF alertVars, Alerts!vars
<1>7. [SensorNext]_sensorVars => [Http!Next]_(Http!vars)
  BY DEF httpVars, Http!vars
<1> QED BY <1>1, <1>2, <1>3, <1>4, <1>5, <1>6, <1>7, PTL DEF SensorSpec

(***************************************************************************)
(* The parameters are as the proofs of each part assume.                   *)
(***************************************************************************)
LEMMA PartsAssume ==
  /\ RouterP!RouterAssumption /\ CaptureP!Bot!ProfileAssumption
  /\ CaptureP!Geo!GeoAssumption /\ CaptureP!Alerts!AlertAssumption
BY SensorAssumption, RouterAgrees, BotAgrees, GeoAgrees, AlertsAgree

(***************************************************************************)
(* So each part keeps in the whole what is proved of it alone: the router, *)
(***************************************************************************)
LEMMA RouterServes ==
  SensorSpec => [](Router!TypeOK /\ Router!NoForeignActivity /\ Router!CacheIsLRU
                     /\ Router!AloneReportsItself)
<1>1. RouterP!Init /\ [][RouterP!Next]_(RouterP!vars) =>
        [](RouterP!TypeOK /\ RouterP!CacheIsLRU /\ RouterP!AloneReportsItself)
  BY PartsAssume, RouterP!RouterTypeOK, RouterP!CacheIsLRUHolds, RouterP!AloneReportsItselfHolds,
     PTL
<1>2. RouterP!Init /\ [][RouterP!Next]_(RouterP!vars) => []RouterP!NoForeignActivity
  BY PartsAssume, RouterP!NoForeignActivityHolds, PTL DEF RouterP!Spec
<1>3. Router!Init /\ [][Router!Next]_(Router!vars) =>
        RouterP!Init /\ [][RouterP!Next]_(RouterP!vars)
  BY RouterAgrees, PTL
<1>4. RouterP!TypeOK /\ RouterP!NoForeignActivity /\ RouterP!CacheIsLRU
        /\ RouterP!AloneReportsItself =>
      Router!TypeOK /\ Router!NoForeignActivity /\ Router!CacheIsLRU /\ Router!AloneReportsItself
  BY RouterAgrees
<1> QED BY <1>1, <1>2, <1>3, <1>4, PartsRun, PTL

(***************************************************************************)
(* the profile,                                                            *)
(***************************************************************************)
LEMMA BotServes == SensorSpec => [](Bot!TypeOK /\ Bot!LevelIsWorst)
<1>1. CaptureP!Bot!Init /\ [][CaptureP!Bot!Next]_(CaptureP!Bot!vars) =>
        [](CaptureP!Bot!TypeOK /\ CaptureP!Bot!LevelIsWorst)
  BY PartsAssume, CaptureP!ProfileTypeOK, CaptureP!LevelIsWorstHolds, PTL
<1>2. Bot!Init /\ [][Bot!Next]_(Bot!vars) =>
        CaptureP!Bot!Init /\ [][CaptureP!Bot!Next]_(CaptureP!Bot!vars)
  BY BotAgrees, PTL
<1>3. CaptureP!Bot!TypeOK /\ CaptureP!Bot!LevelIsWorst => Bot!TypeOK /\ Bot!LevelIsWorst
  BY BotAgrees
<1> QED BY <1>1, <1>2, <1>3, PartsRun, PTL

(***************************************************************************)
(* the geolocation                                                         *)
(***************************************************************************)
LEMMA GeoServes == SensorSpec => [](Geo!TypeOK /\ Geo!AttributedUnlessRefused)
<1>1. CaptureP!Geo!Init /\ [][CaptureP!Geo!Next]_(CaptureP!Geo!vars) =>
        [](CaptureP!Geo!TypeOK /\ CaptureP!Geo!AttributedUnlessRefused)
  BY PartsAssume, CaptureP!GeoTypeOK, CaptureP!AttributedUnlessRefusedHolds, PTL
<1>2. Geo!Init /\ [][Geo!Next]_(Geo!vars) =>
        CaptureP!Geo!Init /\ [][CaptureP!Geo!Next]_(CaptureP!Geo!vars)
  BY GeoAgrees, PTL
<1>3. CaptureP!Geo!TypeOK /\ CaptureP!Geo!AttributedUnlessRefused =>
        Geo!TypeOK /\ Geo!AttributedUnlessRefused
  BY GeoAgrees
<1> QED BY <1>1, <1>2, <1>3, PartsRun, PTL

(***************************************************************************)
(* and the alerts.                                                         *)
(***************************************************************************)
LEMMA AlertsServe == SensorSpec => [](Alerts!TypeOK /\ Alerts!AlertsKept)
<1>1. CaptureP!Alerts!Init /\ [][CaptureP!Alerts!Next]_(CaptureP!Alerts!vars) =>
        [](CaptureP!Alerts!TypeOK /\ CaptureP!Alerts!AlertsKept)
  BY PartsAssume, CaptureP!AlertTypeOK, CaptureP!AlertsKeptHolds, PTL
<1>2. Alerts!Init /\ [][Alerts!Next]_(Alerts!vars) =>
        CaptureP!Alerts!Init /\ [][CaptureP!Alerts!Next]_(CaptureP!Alerts!vars)
  BY AlertsAgree, PTL
<1>3. CaptureP!Alerts!TypeOK /\ CaptureP!Alerts!AlertsKept =>
        Alerts!TypeOK /\ Alerts!AlertsKept
  BY AlertsAgree
<1> QED BY <1>1, <1>2, <1>3, PartsRun, PTL

(***************************************************************************)
(* Type correctness of the sensor.                                         *)
(***************************************************************************)
THEOREM SensorTypes == SensorSpec => []SensorTypeOK
<1>1. SensorSpec => []TypeOK
  BY ConnectionTypeOK, PartsRun, PTL
<1>2. SensorSpec => []Http!TypeOK
  <2>1. HttpTyped => Http!TypeOK
    BY DEF HttpTyped
  <2> QED BY <2>1, HttpTypedHolds, PartsRun, PTL
<1>3. TypeOK /\ Router!TypeOK /\ Http!TypeOK /\ Bot!TypeOK /\ Geo!TypeOK /\ Alerts!TypeOK
        => SensorTypeOK
  BY DEF SensorTypeOK
<1> QED BY <1>1, <1>2, <1>3, RouterServes, BotServes, GeoServes, AlertsServe, PTL

(***************************************************************************)
(* No report of a connection shows what a visitor from another address did *)
(* (DispatchResult's per-address bot profile).                             *)
(***************************************************************************)
THEOREM SensorNoForeignActivity == SensorSpec => []NoForeignActivity
<1>1. Router!NoForeignActivity => NoForeignActivity
  BY DEF NoForeignActivity
<1> QED BY <1>1, RouterServes, PTL

(***************************************************************************)
(* The OrderedDict of profiles of a handler never exceeds MAX_PROFILES and *)
(* has one profile per address.                                            *)
(***************************************************************************)
THEOREM SensorCacheIsLRU == SensorSpec => []CacheIsLRU
<1>1. Router!CacheIsLRU => CacheIsLRU
  BY DEF CacheIsLRU
<1> QED BY <1>1, RouterServes, PTL

(***************************************************************************)
(* A request that nothing overlapped reports its own dialogue.             *)
(***************************************************************************)
THEOREM SensorAloneReportsItself == SensorSpec => []AloneReportsItself
<1>1. Router!AloneReportsItself => AloneReportsItself
  BY DEF AloneReportsItself
<1> QED BY <1>1, RouterServes, PTL

(***************************************************************************)
(* Credentials that a handler captures are in the login of the report, but *)
(* for those in a header or under the field names of one product.          *)
(***************************************************************************)
THEOREM SensorCaptureIsReported == SensorSpec => []CaptureIsReported
<1>1. Http!CaptureIsReported => CaptureIsReported
  BY DEF CaptureIsReported
<1> QED BY <1>1, CaptureIsReportedHolds, PartsRun, PTL

(***************************************************************************)
(* A request is answered by the face that looked at it first, but for three *)
(* kinds of requests that make a handler raise.                            *)
(***************************************************************************)
THEOREM SensorOwnFaceAnswers == SensorSpec => []OwnFaceAnswers
<1>1. Http!OwnFaceAnswers => OwnFaceAnswers
  BY DEF OwnFaceAnswers
<1> QED BY <1>1, OwnFaceAnswersHolds, PartsRun, PTL

(***************************************************************************)
(* The level of a profile is that of the worst behaviour detected.         *)
(***************************************************************************)
THEOREM SensorLevelIsWorst == SensorSpec => []LevelIsWorst
<1>1. Bot!LevelIsWorst => LevelIsWorst
  BY DEF LevelIsWorst
<1> QED BY <1>1, BotServes, PTL

(***************************************************************************)
(* A report lacks its attribution only if its address was refused.         *)
(***************************************************************************)
THEOREM SensorAttributedUnlessRefused == SensorSpec => []AttributedUnlessRefused
<1>1. Geo!AttributedUnlessRefused => AttributedUnlessRefused
  BY DEF AttributedUnlessRefused
<1> QED BY <1>1, GeoServes, PTL

(***************************************************************************)
(* An alert is with a pool or was tried once, unless the process is        *)
(* terminated; and a shutdown leaves none in the pool that it joined.      *)
(***************************************************************************)
THEOREM SensorAlertsKept == SensorSpec => []AlertsKept
<1>1. Alerts!AlertsKept => AlertsKept
  BY DEF AlertsKept
<1> QED BY <1>1, AlertsServe, PTL
=============================================================================
