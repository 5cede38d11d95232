---------------------------- MODULE CaptureProofs ----------------------------
(***************************************************************************)
(* Proofs about what the capture threads share: the profile of an address, *)
(* the geolocation of addresses and the pool that delivers alerts.  They   *)
(* hold for any number of calls, threads, addresses, lookups, stops and    *)
(* pools.                                                                  *)
(***************************************************************************)
EXTENDS Naturals, Sequences, FiniteSets, SequencesExt,
        SequenceTheorems, FiniteSetTheorems, TLAPS

CONSTANTS
  Signs, MaxHistory, MaxDialogue, MaxCalls,
  Ips, Skipped, Captures, CacheMax, Ttl, Delay, MaxStops, None,
  Callers, PoolSize, MaxPools

VARIABLES
  calls, requests, exchanges, behaviors, level, metadata, captures,
  located, since, current, queue, at, ip, held, nap, known, refused, excused,
  pool, created, shut, items, running, caller, mine, tried, stopping, closing

Bot == INSTANCE BotProfile WITH history <- requests, dialogue <- exchanges
Geo == INSTANCE GeoLookup WITH cache <- located
Alerts == INSTANCE AlertPool WITH current <- pool, pc <- caller

-----------------------------------------------------------------------------
(* The profile of an address.                                              *)

(***************************************************************************)
(* The levels of single behaviours, and of none.                           *)
(***************************************************************************)
Levels(found) == {Bot!IDLE} \cup {Bot!Escalation({b}) : b \in found}

(***************************************************************************)
(* The level of several behaviours is that of one of them, and no lower    *)
(* than that of any other, so that the order of the tests in               *)
(* escalation_level does not matter.                                       *)
(***************************************************************************)
LEMMA EscalationIsWorst ==
  ASSUME NEW found, found \subseteq Bot!Behaviors
  PROVE  /\ Bot!Escalation(found) \in Levels(found)
         /\ Levels(found) \subseteq {0, 1, 2, 3, 5}
         /\ \A n \in Levels(found) : Bot!Escalation(found) >= n
<1>1. Bot!Behaviors = {"sql_injection", "lfi_rfi", "rce", "directory_traversal",
                       "credential_stuffing", "enumeration"}
  BY DEF Bot!Behaviors, Bot!Behavior
<1>2. /\ Bot!Escalation({"rce"}) = 5
      /\ Bot!Escalation({"sql_injection"}) = 3
      /\ Bot!Escalation({"lfi_rfi"}) = 3
      /\ Bot!Escalation({"credential_stuffing"}) = 3
      /\ Bot!Escalation({"directory_traversal"}) = 2
      /\ Bot!Escalation({"enumeration"}) = 1
  BY DEF Bot!Escalation, Bot!IDLE, Bot!SCANNING, Bot!PROBE, Bot!EXPLOIT_ATTEMPT, Bot!DEEP_EXPLOIT
<1>3. \A b \in found :
        \/ b = "rce" /\ Bot!Escalation({b}) = 5
        \/ b \in {"sql_injection", "lfi_rfi", "credential_stuffing"} /\ Bot!Escalation({b}) = 3
        \/ b = "directory_traversal" /\ Bot!Escalation({b}) = 2
        \/ b = "enumeration" /\ Bot!Escalation({b}) = 1
  BY <1>1, <1>2
<1>4. \/ "rce" \in found /\ Bot!Escalation(found) = 5
      \/ /\ "rce" \notin found
         /\ \E b \in {"sql_injection", "lfi_rfi", "credential_stuffing"} : b \in found
         /\ Bot!Escalation(found) = 3
      \/ /\ found \cap {"rce", "sql_injection", "lfi_rfi", "credential_stuffing"} = {}
         /\ "directory_traversal" \in found /\ Bot!Escalation(found) = 2
      \/ /\ found \subseteq {"enumeration"}
         /\ "enumeration" \in found /\ Bot!Escalation(found) = 1
      \/ found = {} /\ Bot!Escalation(found) = 0
  BY <1>1 DEF Bot!Escalation, Bot!IDLE, Bot!SCANNING, Bot!PROBE, Bot!EXPLOIT_ATTEMPT, Bot!DEEP_EXPLOIT
<1>5. Levels(found) \subseteq {0, 1, 2, 3, 5}
  BY <1>3 DEF Levels, Bot!IDLE
<1>6. Bot!Escalation(found) \in Levels(found)
  BY <1>2, <1>4 DEF Levels, Bot!IDLE
<1>7. ASSUME NEW n \in Levels(found)
      PROVE  Bot!Escalation(found) >= n
  <2>1. n = 0 \/ \E b \in found : n = Bot!Escalation({b})
    BY <1>7 DEF Levels, Bot!IDLE
  <2>2. n = 0 => Bot!Escalation(found) >= n
    BY <1>4
  <2>3. ASSUME NEW b \in found
        PROVE  Bot!Escalation(found) >= Bot!Escalation({b})
    <3>1. CASE b = "rce"
      BY <1>3, <1>4, <3>1
    <3>2. CASE b \in {"sql_injection", "lfi_rfi", "credential_stuffing"}
      BY <1>3, <1>4, <3>2
    <3>3. CASE b = "directory_traversal"
      BY <1>3, <1>4, <3>3
    <3>4. CASE b = "enumeration"
      BY <1>3, <1>4, <3>4
    <3> QED BY <1>3, <3>1, <3>2, <3>3, <3>4
  <2> QED BY <2>1, <2>2, <2>3
<1> QED BY <1>5, <1>6, <1>7

(***************************************************************************)
(* A greatest element is the maximum.                                      *)
(***************************************************************************)
LEMMA WorstIsMax ==
  ASSUME NEW S, S \subseteq Nat, NEW m \in S, \A n \in S : m >= n
  PROVE  Bot!Max(S) = m
<1>1. \A x \in S : (\A n \in S : x >= n) => x = m
  <2> SUFFICES ASSUME NEW x \in S, \A n \in S : x >= n
               PROVE  x = m
    OBVIOUS
  <2>1. x >= m /\ m >= x /\ x \in Nat /\ m \in Nat
    OBVIOUS
  <2> QED BY <2>1
<1>2. PICK x : x = CHOOSE y \in S : \A n \in S : y >= n
  OBVIOUS
<1>3. x \in S /\ \A n \in S : x >= n
  BY <1>2
<1> QED BY <1>1, <1>2, <1>3 DEF Bot!Max

(***************************************************************************)
(* A bounded list stays bounded, and holds what was recorded.              *)
(***************************************************************************)
LEMMA LastOfBounded ==
  ASSUME NEW S, NEW s \in Seq(S), NEW n \in Nat
  PROVE  Bot!LastOf(s, n) \in Seq(S) /\ Len(Bot!LastOf(s, n)) <= n
<1>1. Len(s) \in Nat /\ \A k \in 1 .. Len(s) : s[k] \in S
  BY LenProperties, ElementOfSeq
<1>2. CASE Len(s) <= n
  BY <1>2 DEF Bot!LastOf
<1>3. CASE ~(Len(s) <= n)
  <2>1. PICK m : m = Len(s) - n + 1
    OBVIOUS
  <2>2. m \in Int /\ Len(s) \in Int /\ \A k \in m .. Len(s) : s[k] \in S
    BY <1>1, <1>3, <2>1
  <2>3. Bot!LastOf(s, n) = SubSeq(s, m, Len(s))
    BY <1>3, <2>1 DEF Bot!LastOf
  <2>4. /\ SubSeq(s, m, Len(s)) \in Seq(S)
        /\ Len(SubSeq(s, m, Len(s))) = IF m <= Len(s) THEN Len(s) - m + 1 ELSE 0
    BY <2>2, SubSeqProperties
  <2> QED BY <1>1, <1>3, <2>1, <2>3, <2>4
<1> QED BY <1>2, <1>3

(***************************************************************************)
(* The level is one of those of the behaviours detected, and no lower than *)
(* any.                                                                    *)
(***************************************************************************)
BotInv ==
  /\ Bot!TypeOK
  /\ level \in Levels(behaviors)
  /\ \A n \in Levels(behaviors) : level >= n

(***************************************************************************)
(* That makes it the worst.                                                *)
(***************************************************************************)
LEMMA BotInvIsWorst ==
  ASSUME BotInv
  PROVE  Bot!LevelIsWorst
<1>1. behaviors \subseteq Bot!Behaviors
  BY DEF BotInv, Bot!TypeOK
<1>2. Levels(behaviors) \subseteq Nat
  BY <1>1, EscalationIsWorst
<1> QED BY <1>2, WorstIsMax DEF BotInv, Bot!LevelIsWorst, Levels

(***************************************************************************)
(* Every operation keeps it so,                                            *)
(***************************************************************************)
LEMMA BotStep ==
  ASSUME Bot!ProfileAssumption, BotInv, Bot!Next
  PROVE  BotInv'
<1>0. /\ Bot!TypeOK
      /\ level \in Levels(behaviors)
      /\ \A n \in Levels(behaviors) : level >= n
      /\ MaxCalls \in Nat /\ MaxHistory \in Nat /\ MaxDialogue \in Nat
  BY DEF BotInv, Bot!ProfileAssumption
<1>1. CASE Bot!Idle
  BY <1>0, <1>1 DEF Bot!Idle, Bot!vars, Bot!TypeOK, BotInv, Levels
<1>2. ASSUME NEW signs \in Signs, NEW telling \in BOOLEAN, Bot!RecordRequest(signs, telling)
      PROVE  BotInv'
  <2>1. calls' \in 1 .. MaxCalls
    BY <1>0, <1>2 DEF Bot!RecordRequest, Bot!Call, Bot!TypeOK
  <2>2. requests' \in Seq(1 .. MaxCalls) /\ Len(requests') <= MaxHistory
    <3>1. Append(requests, calls') \in Seq(1 .. MaxCalls)
      BY <1>0, <2>1, AppendProperties DEF Bot!TypeOK
    <3> QED BY <1>0, <1>2, <3>1, LastOfBounded DEF Bot!RecordRequest
  <2>3. behaviors' \subseteq Bot!Behaviors /\ behaviors \subseteq behaviors'
    <3>1. \A s \in signs : s \in DOMAIN Bot!Behavior
      BY <1>2 DEF Bot!Behavior, Bot!ProfileAssumption
    <3>2. {Bot!Behavior[s] : s \in signs} \subseteq Bot!Behaviors
      BY <3>1 DEF Bot!Behaviors
    <3> QED BY <1>0, <1>2, <3>2 DEF Bot!RecordRequest, Bot!TypeOK
  <2>4. level' = IF level >= Bot!Escalation(behaviors') THEN level ELSE Bot!Escalation(behaviors')
    BY <1>2 DEF Bot!RecordRequest, Bot!Higher
  <2>5. /\ Bot!Escalation(behaviors') \in Levels(behaviors')
        /\ Levels(behaviors') \subseteq {0, 1, 2, 3, 5}
        /\ \A n \in Levels(behaviors') : Bot!Escalation(behaviors') >= n
        /\ Levels(behaviors) \subseteq Levels(behaviors')
    BY <2>3, EscalationIsWorst DEF Levels
  <2>6. /\ level' \in Levels(behaviors')
        /\ \A n \in Levels(behaviors') : level' >= n
    BY <1>0, <2>4, <2>5
  <2>7. metadata' \in 0 .. MaxCalls /\ UNCHANGED <<exchanges, captures>>
    BY <1>0, <1>2, <2>1 DEF Bot!RecordRequest, Bot!TypeOK
  <2>8. level' \in {0, 1, 2, 3, 5}
    BY <2>5, <2>6
  <2>9. Bot!TypeOK'
    BY <1>0, <2>1, <2>2, <2>3, <2>7, <2>8
       DEF Bot!TypeOK, Bot!IDLE, Bot!SCANNING, Bot!PROBE, Bot!EXPLOIT_ATTEMPT, Bot!DEEP_EXPLOIT
  <2> QED BY <2>6, <2>9 DEF BotInv, Levels
<1>3. CASE Bot!RecordInteraction
  <2>1. calls' \in 1 .. MaxCalls
    BY <1>0, <1>3 DEF Bot!RecordInteraction, Bot!Call, Bot!TypeOK
  <2> DEFINE Entry == [sequence: 1 .. MaxDialogue + 1, request: 1 .. MaxCalls]
             entry == [sequence |-> Len(exchanges) + 1, request |-> calls']
  <2>2. exchanges \in Seq(Entry) /\ Len(exchanges) \in Nat /\ Len(exchanges) <= MaxDialogue
    BY <1>0, LenProperties DEF Bot!TypeOK
  <2>3. entry \in Entry
    BY <1>0, <2>1, <2>2
  <2> HIDE DEF Entry, entry
  <2>4. Append(exchanges, entry) \in Seq(Entry)
    BY <2>2, <2>3, AppendProperties
  <2>5. exchanges' = Bot!LastOf(Append(exchanges, entry), MaxDialogue)
    BY <1>3 DEF Bot!RecordInteraction, entry
  <2>6. exchanges' \in Seq(Entry) /\ Len(exchanges') <= MaxDialogue
    BY <1>0, <2>4, <2>5, LastOfBounded
  <2>7. UNCHANGED <<requests, behaviors, level, metadata, captures>>
    BY <1>3 DEF Bot!RecordInteraction
  <2>8. Bot!TypeOK'
    BY <1>0, <2>1, <2>6, <2>7 DEF Bot!TypeOK, Entry
  <2> QED BY <1>0, <2>7, <2>8 DEF BotInv, Levels
<1>4. CASE Bot!CaptureCredentials
  <2>1. calls' \in 1 .. MaxCalls
    BY <1>0, <1>4 DEF Bot!CaptureCredentials, Bot!Call, Bot!TypeOK
  <2>2. captures' \in Seq(1 .. MaxCalls)
    BY <1>0, <1>4, <2>1, AppendProperties DEF Bot!CaptureCredentials, Bot!TypeOK
  <2>3. /\ behaviors' = behaviors \cup {"credential_stuffing"}
        /\ level' = (IF level >= 3 THEN level ELSE 3)
        /\ UNCHANGED <<requests, exchanges, metadata>>
    BY <1>4 DEF Bot!CaptureCredentials, Bot!Higher, Bot!EXPLOIT_ATTEMPT
  <2>4. behaviors' \subseteq Bot!Behaviors
    BY <1>0, <2>3 DEF Bot!TypeOK, Bot!Behaviors, Bot!Behavior
  <2>5. Bot!Escalation({"credential_stuffing"}) = 3
    BY DEF Bot!Escalation, Bot!EXPLOIT_ATTEMPT
  <2>6. Levels(behaviors') = Levels(behaviors) \cup {3}
    BY <2>3, <2>5 DEF Levels
  <2>7. Levels(behaviors') \subseteq {0, 1, 2, 3, 5}
    BY <2>4, EscalationIsWorst
  <2>8. level' \in Levels(behaviors') /\ \A n \in Levels(behaviors') : level' >= n
    BY <1>0, <2>3, <2>6, <2>7
  <2>9. level' \in {0, 1, 2, 3, 5}
    BY <2>7, <2>8
  <2>10. Bot!TypeOK'
    BY <1>0, <2>1, <2>2, <2>3, <2>4, <2>9
       DEF Bot!TypeOK, Bot!IDLE, Bot!SCANNING, Bot!PROBE, Bot!EXPLOIT_ATTEMPT, Bot!DEEP_EXPLOIT
  <2> QED BY <2>8, <2>10 DEF BotInv, Levels
<1> QED BY <1>1, <1>2, <1>3, <1>4 DEF Bot!Next

(***************************************************************************)
(* and a new profile is IDLE.                                              *)
(***************************************************************************)
LEMMA BotInit ==
  ASSUME Bot!ProfileAssumption, Bot!Init
  PROVE  BotInv
<1>1. behaviors = {} /\ level = 0
  BY DEF Bot!Init, Bot!IDLE
<1>2. Levels(behaviors) = {0}
  BY <1>1 DEF Levels, Bot!IDLE
<1>3. /\ requests = <<>> /\ exchanges = <<>> /\ captures = <<>>
      /\ calls = 0 /\ metadata = 0
  BY DEF Bot!Init
<1>4. MaxCalls \in Nat /\ MaxHistory \in Nat /\ MaxDialogue \in Nat
  BY DEF Bot!ProfileAssumption
<1>5. Bot!TypeOK
  BY <1>1, <1>3, <1>4, EmptySeq DEF Bot!TypeOK, Bot!IDLE
<1> QED BY <1>1, <1>2, <1>5 DEF BotInv

(***************************************************************************)
(* So it always is.                                                        *)
(***************************************************************************)
LEMMA BotInvHolds ==
  ASSUME Bot!ProfileAssumption
  PROVE  Bot!Init /\ [][Bot!Next]_(Bot!vars) => []BotInv
<1>1. BotInv /\ [Bot!Next]_(Bot!vars) => BotInv'
  <2>1. BotInv /\ UNCHANGED Bot!vars => BotInv'
    BY DEF Bot!vars, BotInv, Bot!TypeOK, Levels
  <2> QED BY <2>1, BotStep
<1> QED BY <1>1, BotInit, PTL

(***************************************************************************)
(* The state of a profile is well typed.                                   *)
(***************************************************************************)
THEOREM ProfileTypeOK ==
  ASSUME Bot!ProfileAssumption
  PROVE  Bot!Init /\ [][Bot!Next]_(Bot!vars) => []Bot!TypeOK
<1>1. BotInv => Bot!TypeOK
  BY DEF BotInv
<1> QED BY <1>1, BotInvHolds, PTL

(***************************************************************************)
(* Whatever order the requests and the captured logins of an address come  *)
(* in, the level of its profile is that of the worst behaviour detected.   *)
(***************************************************************************)
THEOREM LevelIsWorstHolds ==
  ASSUME Bot!ProfileAssumption
  PROVE  Bot!Init /\ [][Bot!Next]_(Bot!vars) => []Bot!LevelIsWorst
BY BotInvHolds, BotInvIsWorst, PTL

-----------------------------------------------------------------------------
(* The alerts.                                                             *)

(***************************************************************************)
(* What a sequence holds, and that it holds nothing twice.                 *)
(***************************************************************************)
In(s) == {s[n] : n \in 1 .. Len(s)}
NoneTwice(s) == \A m, n \in 1 .. Len(s) : s[m] = s[n] => m = n

(***************************************************************************)
(* A put adds what is put,                                                 *)
(***************************************************************************)
LEMMA PutQueue ==
  ASSUME NEW S, NEW s \in Seq(S), NEW c \in S
  PROVE  /\ Append(s, c) \in Seq(S)
         /\ In(Append(s, c)) = In(s) \cup {c}
         /\ NoneTwice(s) /\ c \notin In(s) => NoneTwice(Append(s, c))
<1>1. PICK k \in Nat : k = Len(s)
  BY LenProperties
<1>2. PICK t \in Seq(S) : t = Append(s, c)
  BY AppendProperties
<1>3. Len(t) = k + 1 /\ t[k + 1] = c /\ \A n \in 1 .. k : t[n] = s[n]
  BY <1>1, <1>2, AppendProperties
<1>4. In(t) = In(s) \cup {c}
  <2>1. 1 .. k + 1 = (1 .. k) \cup {k + 1}
    BY <1>1
  <2> QED BY <1>1, <1>3, <2>1 DEF In
<1>5. ASSUME NoneTwice(s), c \notin In(s)
      PROVE  NoneTwice(t)
  <2>1. \A n \in 1 .. k : s[n] # c
    BY <1>1, <1>5 DEF In
  <2>2. \A m, n \in 1 .. k : s[m] = s[n] => m = n
    BY <1>1, <1>5 DEF NoneTwice
  <2>3. \A n \in 1 .. k + 1 : n \in 1 .. k \/ n = k + 1
    BY <1>1
  <2> QED BY <1>3, <2>1, <2>2, <2>3 DEF NoneTwice
<1> QED BY <1>2, <1>4, <1>5

(***************************************************************************)
(* and a take removes the head.                                            *)
(***************************************************************************)
LEMMA TakeQueue ==
  ASSUME NEW S, NEW s \in Seq(S), s # <<>>
  PROVE  /\ Head(s) \in S /\ Tail(s) \in Seq(S)
         /\ In(s) = In(Tail(s)) \cup {Head(s)}
         /\ NoneTwice(s) => NoneTwice(Tail(s)) /\ Head(s) \notin In(Tail(s))
<1>1. PICK k \in Nat : k = Len(s)
  BY LenProperties
<1>2. k >= 1
  BY <1>1, EmptySeq
<1>3. PICK t \in Seq(S) : t = Tail(s)
  BY HeadTailProperties
<1>4. Len(t) = k - 1 /\ Head(s) = s[1] /\ s[1] \in S
      /\ \A n \in 1 .. k - 1 : t[n] = s[n + 1]
  BY <1>1, <1>2, <1>3, HeadTailProperties, ElementOfSeq
<1>5. In(s) = In(t) \cup {s[1]}
  <2>1. ASSUME NEW n \in 1 .. k
        PROVE  s[n] \in In(t) \cup {s[1]}
    <3>1. CASE n = 1
      BY <3>1
    <3>2. CASE n # 1
      <4>1. n - 1 \in 1 .. k - 1 /\ (n - 1) + 1 = n
        BY <1>1, <3>2
      <4>2. t[n - 1] = s[n]
        BY <1>4, <4>1
      <4> QED BY <1>4, <4>1, <4>2 DEF In
    <3> QED BY <3>1, <3>2
  <2>2. ASSUME NEW n \in 1 .. k - 1
        PROVE  t[n] \in In(s)
    <3>1. n + 1 \in 1 .. k
      BY <1>1
    <3> QED BY <1>1, <1>4, <3>1 DEF In
  <2>3. s[1] \in In(s)
    BY <1>1, <1>2 DEF In
  <2>4. In(s) = {s[n] : n \in 1 .. k} /\ In(t) = {t[n] : n \in 1 .. k - 1}
    BY <1>1, <1>4 DEF In
  <2> QED BY <2>1, <2>2, <2>3, <2>4
<1>6. ASSUME NoneTwice(s)
      PROVE  NoneTwice(t) /\ s[1] \notin In(t)
  <2>1. \A m, n \in 1 .. k : s[m] = s[n] => m = n
    BY <1>1, <1>6 DEF NoneTwice
  <2>2. \A n \in 1 .. k - 1 : n + 1 \in 1 .. k /\ n + 1 # 1
    BY <1>1
  <2>3. \A m, n \in 1 .. k - 1 : m + 1 = n + 1 => m = n
    BY <1>1
  <2>4. 1 \in 1 .. k
    BY <1>1, <1>2
  <2>5. s[1] \notin {t[n] : n \in 1 .. k - 1}
    BY <1>4, <2>1, <2>2, <2>4
  <2> QED BY <1>4, <2>1, <2>2, <2>3, <2>5 DEF NoneTwice, In
<1> QED BY <1>3, <1>4, <1>5, <1>6

(***************************************************************************)
(* The alerts a pool is answerable for.                                    *)
(***************************************************************************)
With(p) == In(items[p]) \cup running[p]

\* What Waiting counts is the queue of the pool and what its threads deliver.
LEMMA WaitingIsWith ==
  ASSUME Alerts!TypeOK, NEW p \in Alerts!Pools
  PROVE  Alerts!Waiting(p) = With(p)
<1>1. PICK s \in Seq(Callers) : s = items[p]
  BY DEF Alerts!TypeOK
<1>2. DOMAIN s = 1 .. Len(s)
  BY LenProperties
<1>3. Alerts!ToSet(s) = In(s)
  BY <1>2 DEF Alerts!ToSet, In
<1> QED BY <1>1, <1>3 DEF Alerts!Waiting, With

(***************************************************************************)
(* Why no alert is lost or delivered twice: an alert is with its thread    *)
(* until that hands it over; then it is with one pool, in the queue or     *)
(* with a worker, but not in both, or it has been tried once; and a        *)
(* termination leaves no alert and no thread.  The pool a shutdown found   *)
(* takes nothing once it is closed, so that it is empty for good when it   *)
(* has been joined.                                                        *)
(***************************************************************************)
PoolsInv ==
  /\ Alerts!TypeOK
  /\ \A p \in Alerts!Pools :
       IsFiniteSet(running[p]) /\ NoneTwice(items[p]) /\ In(items[p]) \cap running[p] = {}
  /\ pool <= created /\ closing <= created

OneHome(c) ==
  \/ /\ caller[c] \in {"look", "create", "reread", "submit", "inline"}
     /\ tried[c] = 0
     /\ \A p \in Alerts!Pools : c \notin With(p)
  \/ /\ caller[c] = "over" /\ tried[c] = 1
     /\ \A p \in Alerts!Pools : c \notin With(p)
  \/ /\ caller[c] = "over" /\ tried[c] = 0
     /\ \E p \in Alerts!Pools :
          c \in With(p) /\ \A q \in Alerts!Pools : c \in With(q) => q = p

ClosedInv ==
  /\ stopping \in {"closing", "joining"} => closing # 0
  /\ stopping \in {"joining", "returned"} /\ closing # 0 => closing \in shut
  /\ stopping = "returned" /\ closing # 0 => With(closing) = {}

KilledInv ==
  /\ \A p \in Alerts!Pools : items[p] = <<>> /\ running[p] = {}
  /\ \A c \in Callers : caller[c] = "killed"

AlertInv ==
  /\ PoolsInv
  /\ stopping # "killed" => (\A c \in Callers : OneHome(c)) /\ ClosedInv
  /\ stopping = "killed" => KilledInv

(***************************************************************************)
(* It implies what is promised.                                            *)
(***************************************************************************)
LEMMA AlertInvKeeps ==
  ASSUME Alerts!AlertAssumption, AlertInv
  PROVE  Alerts!AlertsKept
<1>1. SUFFICES ASSUME stopping # "killed"
               PROVE  /\ \A c \in Callers :
                           tried[c] + Alerts!Cardinality({p \in Alerts!Pools : c \in Alerts!Waiting(p)})
                             = (IF caller[c] = "over" THEN 1 ELSE 0)
                      /\ stopping = "returned" /\ closing # 0 => Alerts!Waiting(closing) = {}
  BY DEF Alerts!AlertsKept
<1>2. ASSUME NEW c \in Callers
      PROVE  tried[c] + Alerts!Cardinality({p \in Alerts!Pools : c \in Alerts!Waiting(p)})
               = (IF caller[c] = "over" THEN 1 ELSE 0)
  <2>1. PICK S : S = {p \in Alerts!Pools : c \in Alerts!Waiting(p)}
    OBVIOUS
  <2>2. S = {p \in Alerts!Pools : c \in With(p)}
    BY <2>1, WaitingIsWith DEF AlertInv, PoolsInv
  <2>3. Alerts!Cardinality(S) = Cardinality(S)
    BY DEF Alerts!Cardinality, Cardinality
  <2>4. OneHome(c)
    BY <1>1 DEF AlertInv
  <2>5. CASE \A p \in Alerts!Pools : c \notin With(p)
    <3>1. S = {}
      BY <2>2, <2>5
    <3>2. Cardinality(S) = 0
      BY <3>1, FS_EmptySet
    <3> QED BY <2>1, <2>3, <2>4, <2>5, <3>2 DEF OneHome
  <2>6. CASE ~ \A p \in Alerts!Pools : c \notin With(p)
    <3>1. /\ caller[c] = "over" /\ tried[c] = 0
          /\ \E p \in Alerts!Pools :
               c \in With(p) /\ \A q \in Alerts!Pools : c \in With(q) => q = p
      BY <2>4, <2>6 DEF OneHome
    <3>2. PICK p \in Alerts!Pools :
            c \in With(p) /\ \A q \in Alerts!Pools : c \in With(q) => q = p
      BY <3>1
    <3>3. S = {p}
      BY <2>2, <3>2
    <3>4. Cardinality(S) = 1
      BY <3>3, FS_Singleton
    <3> QED BY <2>1, <2>3, <3>1, <3>4
  <2> QED BY <2>5, <2>6
<1>3. stopping = "returned" /\ closing # 0 => Alerts!Waiting(closing) = {}
  <2>1. closing # 0 => closing \in Alerts!Pools
    BY DEF AlertInv, PoolsInv, Alerts!TypeOK, Alerts!Pools, Alerts!AlertAssumption
  <2> QED BY <1>1, <2>1, WaitingIsWith DEF AlertInv, PoolsInv, ClosedInv
<1> QED BY <1>2, <1>3

(***************************************************************************)
(* It holds while there is no pool,                                        *)
(***************************************************************************)
LEMMA AlertInit ==
  ASSUME Alerts!AlertAssumption, Alerts!Init
  PROVE  AlertInv
<1>1. /\ pool = 0 /\ created = 0 /\ shut = {} /\ stopping = "no" /\ closing = 0
      /\ items = [p \in Alerts!Pools |-> <<>>]
      /\ running = [p \in Alerts!Pools |-> {}]
      /\ caller = [c \in Callers |-> "look"]
      /\ mine = [c \in Callers |-> 0]
      /\ tried = [c \in Callers |-> 0]
  BY DEF Alerts!Init
<1>2. MaxPools \in Nat /\ PoolSize \in Nat
  BY DEF Alerts!AlertAssumption
<1>3. IsFiniteSet({}) /\ Alerts!Cardinality({}) = 0
  BY FS_EmptySet DEF Alerts!Cardinality, Cardinality
<1>4. <<>> \in Seq(Callers) /\ Len(<<>>) = 0
  BY EmptySeq
<1>5. Alerts!TypeOK
  BY <1>1, <1>2, <1>3, <1>4 DEF Alerts!TypeOK
<1>6. NoneTwice(<<>>) /\ In(<<>>) = {}
  BY <1>4 DEF NoneTwice, In
<1>7. PoolsInv
  BY <1>1, <1>2, <1>3, <1>5, <1>6 DEF PoolsInv
<1>8. \A p \in Alerts!Pools : With(p) = {}
  BY <1>1, <1>6 DEF With
<1> QED BY <1>1, <1>7, <1>8 DEF AlertInv, OneHome, ClosedInv

(***************************************************************************)
(* A thread that looks for a pool, makes one, or delivers its alert itself *)
(* leaves the queues alone.                                                *)
(***************************************************************************)
LEMMA ThreadKeepsAlerts ==
  ASSUME Alerts!AlertAssumption, AlertInv, NEW c \in Callers,
         \/ Alerts!LookUp(c) \/ Alerts!Create(c) \/ Alerts!ReRead(c) \/ Alerts!Inline(c)
  PROVE  AlertInv'
<1>1. UNCHANGED <<items, running, shut, stopping, closing>>
  BY DEF Alerts!LookUp, Alerts!Create, Alerts!ReRead, Alerts!Inline
<1>2. \A p : With(p)' = With(p)
  BY <1>1 DEF With
<1>3. caller[c] \in {"look", "create", "reread", "inline"} /\ stopping # "killed"
  BY DEF Alerts!LookUp, Alerts!Create, Alerts!ReRead, Alerts!Inline, AlertInv, KilledInv
<1>4. PoolsInv /\ Alerts!TypeOK /\ (\A d \in Callers : OneHome(d)) /\ ClosedInv
  BY <1>3 DEF AlertInv, PoolsInv
<1>5. PICK to : caller' = [caller EXCEPT ![c] = to]
                /\ to \in {"create", "reread", "submit", "over"}
                /\ IF caller[c] = "inline"
                     THEN to = "over" /\ tried' = [tried EXCEPT ![c] = tried[c] + 1]
                     ELSE to # "over" /\ tried' = tried
  BY DEF Alerts!LookUp, Alerts!Create, Alerts!ReRead, Alerts!Inline
<1>6. /\ pool' \in 0 .. MaxPools /\ created' \in 0 .. MaxPools /\ created' >= created
      /\ pool' <= created' /\ mine' \in [Callers -> 0 .. MaxPools]
  <2>1. created \in Nat /\ MaxPools \in Nat
    BY <1>4 DEF Alerts!TypeOK, Alerts!AlertAssumption
  <2> QED BY <1>4, <2>1 DEF Alerts!LookUp, Alerts!Create, Alerts!ReRead, Alerts!Inline,
              PoolsInv, Alerts!TypeOK
<1>7. caller \in [Callers -> {"look", "create", "reread", "submit", "inline", "over", "killed"}]
      /\ tried \in [Callers -> 0 .. 2] /\ tried[c] = 0
  BY <1>3, <1>4 DEF Alerts!TypeOK, OneHome
<1>8. Alerts!TypeOK'
  <2>1. caller' \in [Callers -> {"look", "create", "reread", "submit", "inline", "over", "killed"}]
    BY <1>5, <1>7
  <2>2. tried' \in [Callers -> 0 .. 2]
    BY <1>5, <1>7
  <2>3. shut' \subseteq 1 .. created'
    BY <1>1, <1>4, <1>6 DEF Alerts!TypeOK
  <2> QED BY <1>1, <1>4, <1>6, <2>1, <2>2, <2>3 DEF Alerts!TypeOK
<1>9. PoolsInv'
  <2>1. closing' <= created'
    BY <1>1, <1>4, <1>6 DEF PoolsInv, Alerts!TypeOK
  <2> QED BY <1>1, <1>4, <1>6, <1>8, <2>1 DEF PoolsInv
<1>10. ASSUME NEW d \in Callers
       PROVE  OneHome(d)'
  <2>1. CASE d = c
    <3>1. \A p \in Alerts!Pools : d \notin With(p)
      BY <1>3, <1>4, <2>1 DEF OneHome
    <3>2. caller'[d] = to /\ tried'[d] = IF caller[c] = "inline" THEN 1 ELSE 0
      BY <1>5, <1>7, <2>1
    <3> QED BY <1>2, <1>5, <3>1, <3>2 DEF OneHome
  <2>2. CASE d # c
    <3>1. caller'[d] = caller[d] /\ tried'[d] = tried[d]
      BY <1>5, <1>7, <2>2
    <3> QED BY <1>2, <1>4, <3>1 DEF OneHome
  <2> QED BY <2>1, <2>2
<1>11. ClosedInv'
  BY <1>1, <1>2, <1>4 DEF ClosedInv
<1> QED BY <1>1, <1>3, <1>9, <1>10, <1>11 DEF AlertInv

(***************************************************************************)
(* A thread hands its alert to a pool that is not shut down, or keeps it.  *)
(***************************************************************************)
LEMMA SubmitKeepsAlerts ==
  ASSUME Alerts!AlertAssumption, AlertInv, NEW c \in Callers, Alerts!Submit(c)
  PROVE  AlertInv'
<1>1. /\ caller[c] = "submit" /\ stopping # "killed"
      /\ UNCHANGED <<pool, created, shut, running, mine, tried, stopping, closing>>
  BY DEF Alerts!Submit, AlertInv, KilledInv
<1>2. PoolsInv /\ Alerts!TypeOK /\ (\A d \in Callers : OneHome(d)) /\ ClosedInv
  BY <1>1 DEF AlertInv, PoolsInv
<1>3. caller \in [Callers -> {"look", "create", "reread", "submit", "inline", "over", "killed"}]
      /\ tried[c] = 0 /\ \A p \in Alerts!Pools : c \notin With(p)
  BY <1>1, <1>2 DEF Alerts!TypeOK, OneHome
<1>4. CASE caller' = [caller EXCEPT ![c] = "inline"] /\ items' = items
  <2>1. \A p : With(p)' = With(p)
    BY <1>1, <1>4 DEF With
  <2>2. Alerts!TypeOK'
    BY <1>1, <1>2, <1>3, <1>4 DEF Alerts!TypeOK
  <2>3. PoolsInv'
    BY <1>1, <1>2, <1>4, <2>2 DEF PoolsInv
  <2>4. ASSUME NEW d \in Callers
        PROVE  OneHome(d)'
    <3>1. CASE d = c
      BY <1>1, <1>3, <1>4, <2>1, <3>1 DEF OneHome
    <3>2. CASE d # c
      <4>1. caller'[d] = caller[d] /\ tried'[d] = tried[d]
        BY <1>1, <1>3, <1>4, <3>2
      <4> QED BY <1>2, <2>1, <4>1 DEF OneHome
    <3> QED BY <3>1, <3>2
  <2>5. ClosedInv'
    BY <1>1, <1>2, <2>1 DEF ClosedInv
  <2> QED BY <1>1, <2>3, <2>4, <2>5 DEF AlertInv
<1>5. CASE ~(caller' = [caller EXCEPT ![c] = "inline"] /\ items' = items)
  <2>1. /\ mine[c] # 0 /\ mine[c] \notin shut
        /\ items' = [items EXCEPT ![mine[c]] = Append(items[mine[c]], c)]
        /\ caller' = [caller EXCEPT ![c] = "over"]
    BY <1>5 DEF Alerts!Submit, Alerts!Refused
  <2>2. PICK m \in Alerts!Pools : m = mine[c]
    <3>1. mine[c] \in 0 .. MaxPools /\ MaxPools \in Nat
      BY <1>2 DEF Alerts!TypeOK, Alerts!AlertAssumption
    <3> QED BY <2>1, <3>1 DEF Alerts!Pools
  <2>3. items \in [Alerts!Pools -> Seq(Callers)] /\ items[m] \in Seq(Callers)
    BY <1>2 DEF Alerts!TypeOK
  <2>4. PICK t : t = Append(items[m], c)
    OBVIOUS
  <2>5. t \in Seq(Callers) /\ In(t) = In(items[m]) \cup {c}
        /\ (NoneTwice(items[m]) /\ c \notin In(items[m]) => NoneTwice(t))
    BY <2>3, <2>4, PutQueue
  <2>6. /\ items' \in [Alerts!Pools -> Seq(Callers)]
        /\ items'[m] = t
        /\ \A p \in Alerts!Pools : p # m => items'[p] = items[p]
    BY <2>1, <2>2, <2>3, <2>4, <2>5
  <2>7. /\ With(m)' = With(m) \cup {c}
        /\ \A p \in Alerts!Pools : p # m => With(p)' = With(p)
    BY <1>1, <2>5, <2>6 DEF With
  <2>8. Alerts!TypeOK'
    <3>1. caller' \in [Callers -> {"look", "create", "reread", "submit", "inline", "over", "killed"}]
      BY <1>3, <2>1
    <3> QED BY <1>1, <1>2, <2>6, <3>1 DEF Alerts!TypeOK
  <2>9. PoolsInv'
    <3>1. c \notin In(items[m]) /\ c \notin running[m]
      BY <1>3 DEF With
    <3>2. NoneTwice(t) /\ In(t) \cap running[m] = {}
      BY <1>2, <2>5, <3>1 DEF PoolsInv
    <3>3. \A p \in Alerts!Pools : /\ IsFiniteSet(running'[p])
                                  /\ NoneTwice(items'[p]) /\ In(items'[p]) \cap running'[p] = {}
      BY <1>1, <1>2, <2>6, <3>2 DEF PoolsInv
    <3> QED BY <1>1, <1>2, <2>8, <3>3 DEF PoolsInv
  <2>10. ASSUME NEW d \in Callers
         PROVE  OneHome(d)'
    <3>1. CASE d = c
      <4>1. caller'[d] = "over" /\ tried'[d] = 0
        BY <1>1, <1>3, <2>1, <3>1
      <4>2. d \in With(m)' /\ \A q \in Alerts!Pools : d \in With(q)' => q = m
        BY <1>3, <2>7, <3>1
      <4> QED BY <4>1, <4>2 DEF OneHome
    <3>2. CASE d # c
      <4>1. caller'[d] = caller[d] /\ tried'[d] = tried[d]
        BY <1>1, <1>3, <2>1, <3>2
      <4>2. \A p \in Alerts!Pools : d \in With(p)' <=> d \in With(p)
        BY <2>7, <3>2
      <4> QED BY <1>2, <4>1, <4>2 DEF OneHome
    <3> QED BY <3>1, <3>2
  <2>11. ClosedInv'
    <3>1. stopping = "returned" /\ closing # 0 => closing # m /\ closing \in Alerts!Pools
      BY <1>2, <2>1, <2>2 DEF ClosedInv, Alerts!TypeOK, Alerts!Pools, Alerts!AlertAssumption
    <3> QED BY <1>1, <1>2, <2>7, <3>1 DEF ClosedInv
  <2> QED BY <1>1, <2>9, <2>10, <2>11 DEF AlertInv
<1> QED BY <1>4, <1>5

(***************************************************************************)
(* A worker takes an alert: the pool has what it had.                      *)
(***************************************************************************)
LEMMA TakeKeepsAlerts ==
  ASSUME Alerts!AlertAssumption, AlertInv, NEW m \in Alerts!Pools, Alerts!Take(m)
  PROVE  AlertInv'
<1>1. /\ items[m] # <<>> /\ Alerts!Cardinality(running[m]) < PoolSize
      /\ running' = [running EXCEPT ![m] = running[m] \cup {Head(items[m])}]
      /\ items' = [items EXCEPT ![m] = Tail(items[m])]
      /\ UNCHANGED <<pool, created, shut, caller, mine, tried, stopping, closing>>
  BY DEF Alerts!Take
<1>2. stopping # "killed" /\ PoolsInv /\ Alerts!TypeOK /\ (\A d \in Callers : OneHome(d)) /\ ClosedInv
  BY <1>1 DEF AlertInv, KilledInv, PoolsInv
<1>3. /\ items \in [Alerts!Pools -> Seq(Callers)] /\ items[m] \in Seq(Callers)
      /\ running \in [Alerts!Pools -> SUBSET Callers]
      /\ IsFiniteSet(running[m]) /\ NoneTwice(items[m]) /\ In(items[m]) \cap running[m] = {}
      /\ PoolSize \in Nat
  BY <1>2 DEF PoolsInv, Alerts!TypeOK, Alerts!AlertAssumption
<1>4. PICK h, t : h = Head(items[m]) /\ t = Tail(items[m])
  OBVIOUS
<1>5. /\ h \in Callers /\ t \in Seq(Callers)
      /\ In(items[m]) = In(t) \cup {h} /\ NoneTwice(t) /\ h \notin In(t)
  BY <1>1, <1>3, <1>4, TakeQueue
<1>6. /\ items' \in [Alerts!Pools -> Seq(Callers)] /\ items'[m] = t
      /\ running' \in [Alerts!Pools -> SUBSET Callers] /\ running'[m] = running[m] \cup {h}
      /\ \A p \in Alerts!Pools : p # m => items'[p] = items[p] /\ running'[p] = running[p]
  BY <1>1, <1>3, <1>4, <1>5
<1>7. \A p \in Alerts!Pools : With(p)' = With(p)
  BY <1>5, <1>6 DEF With
<1>8. /\ IsFiniteSet(running'[m]) /\ In(t) \cap running'[m] = {}
      /\ Alerts!Cardinality(running'[m]) <= PoolSize
  <2>1. h \notin running[m]
    BY <1>3, <1>5
  <2>2. /\ IsFiniteSet(running[m] \cup {h})
        /\ Cardinality(running[m] \cup {h}) = Cardinality(running[m]) + 1
    BY <1>3, <2>1, FS_AddElement
  <2>3. Cardinality(running[m]) \in Nat
    BY <1>3, FS_CardinalityType
  <2>4. /\ Alerts!Cardinality(running[m]) = Cardinality(running[m])
        /\ Alerts!Cardinality(running'[m]) = Cardinality(running'[m])
    BY DEF Alerts!Cardinality, Cardinality
  <2>5. running'[m] = running[m] \cup {h}
    BY <1>6
  <2>6. IsFiniteSet(running'[m]) /\ Cardinality(running'[m]) = Cardinality(running[m]) + 1
    BY <2>2, <2>5, Zenon
  <2>7. Cardinality(running[m]) < PoolSize
    BY <1>1, <2>4, Zenon
  <2>8. Cardinality(running'[m]) <= PoolSize
    BY <1>3, <2>3, <2>6, <2>7
  <2>9. Alerts!Cardinality(running'[m]) <= PoolSize
    BY <2>4, <2>8, Zenon
  <2>10. In(t) \cap running'[m] = {}
    BY <1>3, <1>5, <2>5
  <2> QED BY <2>6, <2>9, <2>10
<1>9. PoolsInv'
  <2>1. \A p \in Alerts!Pools : Alerts!Cardinality(running'[p]) <= PoolSize
    BY <1>2, <1>6, <1>8 DEF Alerts!TypeOK
  <2>2. Alerts!TypeOK'
    BY <1>1, <1>2, <1>6, <2>1 DEF Alerts!TypeOK
  <2> QED BY <1>1, <1>2, <1>5, <1>6, <1>8, <2>2 DEF PoolsInv
<1>10. \A d \in Callers : OneHome(d)'
  BY <1>1, <1>2, <1>7 DEF OneHome
<1>11. ClosedInv'
  <2>1. closing # 0 => closing \in Alerts!Pools
    BY <1>2 DEF Alerts!TypeOK, Alerts!Pools, Alerts!AlertAssumption
  <2> QED BY <1>1, <1>2, <1>7, <2>1 DEF ClosedInv
<1> QED BY <1>1, <1>2, <1>9, <1>10, <1>11 DEF AlertInv

(***************************************************************************)
(* A worker has tried one: it was in no other pool.                        *)
(***************************************************************************)
LEMMA DeliverKeepsAlerts ==
  ASSUME Alerts!AlertAssumption, AlertInv, NEW m \in Alerts!Pools, Alerts!Deliver(m)
  PROVE  AlertInv'
<1>1. PICK c \in running[m] :
        /\ tried' = [tried EXCEPT ![c] = tried[c] + 1]
        /\ running' = [running EXCEPT ![m] = running[m] \ {c}]
  BY DEF Alerts!Deliver
<1>2. UNCHANGED <<pool, created, shut, items, caller, mine, stopping, closing>>
  BY DEF Alerts!Deliver
<1>3. stopping # "killed" /\ PoolsInv /\ Alerts!TypeOK /\ (\A d \in Callers : OneHome(d)) /\ ClosedInv
  BY <1>1 DEF AlertInv, KilledInv, PoolsInv
<1>4. /\ running \in [Alerts!Pools -> SUBSET Callers] /\ c \in Callers
      /\ tried \in [Callers -> 0 .. 2]
      /\ IsFiniteSet(running[m]) /\ In(items[m]) \cap running[m] = {}
      /\ PoolSize \in Nat
  BY <1>1, <1>3 DEF PoolsInv, Alerts!TypeOK, Alerts!AlertAssumption
<1>5. /\ running' \in [Alerts!Pools -> SUBSET Callers] /\ running'[m] = running[m] \ {c}
      /\ \A p \in Alerts!Pools : p # m => running'[p] = running[p]
  BY <1>1, <1>4
<1>6. /\ With(m)' = With(m) \ {c}
      /\ \A p \in Alerts!Pools : p # m => With(p)' = With(p)
  BY <1>1, <1>2, <1>4, <1>5 DEF With
<1>7. c \in With(m)
  BY <1>1 DEF With
<1>8. caller[c] = "over" /\ tried[c] = 0 /\ \A q \in Alerts!Pools : c \in With(q) => q = m
  BY <1>3, <1>4, <1>7 DEF OneHome
<1>9. PoolsInv'
  <2>1. /\ IsFiniteSet(running'[m]) /\ Alerts!Cardinality(running'[m]) <= PoolSize
    <3>1. /\ IsFiniteSet(running[m] \ {c})
          /\ Cardinality(running[m] \ {c}) = Cardinality(running[m]) - 1
      BY <1>1, <1>4, FS_RemoveElement
    <3>2. Cardinality(running[m]) \in Nat
      BY <1>4, FS_CardinalityType
    <3>3. /\ Alerts!Cardinality(running[m]) = Cardinality(running[m])
          /\ Alerts!Cardinality(running'[m]) = Cardinality(running'[m])
      BY DEF Alerts!Cardinality, Cardinality
    <3>4. Alerts!Cardinality(running[m]) <= PoolSize
      BY <1>3 DEF Alerts!TypeOK
    <3> QED BY <1>4, <1>5, <3>1, <3>2, <3>3, <3>4
  <2>2. \A p \in Alerts!Pools : Alerts!Cardinality(running'[p]) <= PoolSize
    BY <1>3, <1>5, <2>1 DEF Alerts!TypeOK
  <2>3. tried' \in [Callers -> 0 .. 2]
    BY <1>1, <1>4, <1>8
  <2>4. Alerts!TypeOK'
    BY <1>2, <1>3, <1>5, <2>2, <2>3 DEF Alerts!TypeOK
  <2>5. In(items[m]) \cap running'[m] = {}
    BY <1>4, <1>5
  <2> QED BY <1>2, <1>3, <1>5, <2>1, <2>4, <2>5 DEF PoolsInv
<1>10. ASSUME NEW d \in Callers
       PROVE  OneHome(d)'
  <2>1. CASE d = c
    <3>1. caller'[d] = "over" /\ tried'[d] = 1
      BY <1>1, <1>2, <1>4, <1>8, <2>1
    <3>2. \A q \in Alerts!Pools : d \notin With(q)'
      BY <1>6, <1>8, <2>1
    <3> QED BY <3>1, <3>2 DEF OneHome
  <2>2. CASE d # c
    <3>1. caller'[d] = caller[d] /\ tried'[d] = tried[d]
      BY <1>1, <1>2, <1>4, <2>2
    <3>2. \A p \in Alerts!Pools : d \in With(p)' <=> d \in With(p)
      BY <1>6, <2>2
    <3> QED BY <1>3, <3>1, <3>2 DEF OneHome
  <2> QED BY <2>1, <2>2
<1>11. ClosedInv'
  <2>1. closing # 0 => closing \in Alerts!Pools
    BY <1>3 DEF Alerts!TypeOK, Alerts!Pools, Alerts!AlertAssumption
  <2> QED BY <1>2, <1>3, <1>6, <2>1 DEF ClosedInv
<1> QED BY <1>2, <1>3, <1>9, <1>10, <1>11 DEF AlertInv

(***************************************************************************)
(* The shutdown forgets the pool, closes it and waits for it.              *)
(***************************************************************************)
LEMMA ShutdownKeepsAlerts ==
  ASSUME Alerts!AlertAssumption, AlertInv,
         Alerts!Stop \/ Alerts!Clear \/ Alerts!Close \/ Alerts!Join
  PROVE  AlertInv'
<1>1. UNCHANGED <<created, items, running, caller, mine, tried>>
  BY DEF Alerts!Stop, Alerts!Clear, Alerts!Close, Alerts!Join
<1>2. \A p : With(p)' = With(p)
  BY <1>1 DEF With
<1>3. stopping # "killed" /\ stopping' \in {"clearing", "closing", "joining", "returned"}
  BY DEF Alerts!Stop, Alerts!Clear, Alerts!Close, Alerts!Join
<1>4. PoolsInv /\ Alerts!TypeOK /\ (\A d \in Callers : OneHome(d)) /\ ClosedInv
  BY <1>3 DEF AlertInv, PoolsInv
<1>5. /\ created \in Nat /\ MaxPools \in Nat /\ pool \in 0 .. MaxPools
      /\ closing \in 0 .. MaxPools /\ pool <= created /\ closing <= created
  BY <1>4 DEF PoolsInv, Alerts!TypeOK, Alerts!AlertAssumption
<1>6. /\ pool' \in 0 .. MaxPools /\ closing' \in 0 .. MaxPools
      /\ pool' <= created /\ closing' <= created
      /\ shut' \subseteq 1 .. created
  <2>1. shut \subseteq 1 .. created
    BY <1>4 DEF Alerts!TypeOK
  <2>2. CASE Alerts!Stop
    BY <1>5, <2>1, <2>2 DEF Alerts!Stop
  <2>3. CASE Alerts!Clear
    BY <1>5, <2>1, <2>3 DEF Alerts!Clear
  <2>4. CASE Alerts!Close
    <3>1. closing \in 1 .. created
      BY <1>4, <1>5, <2>4 DEF Alerts!Close, ClosedInv
    <3> QED BY <1>5, <2>1, <2>4, <3>1 DEF Alerts!Close
  <2>5. CASE Alerts!Join
    BY <1>5, <2>1, <2>5 DEF Alerts!Join
  <2> QED BY <2>2, <2>3, <2>4, <2>5
<1>7. PoolsInv'
  <2>1. Alerts!TypeOK'
    BY <1>1, <1>3, <1>4, <1>6 DEF Alerts!TypeOK
  <2> QED BY <1>1, <1>4, <1>6, <2>1 DEF PoolsInv
<1>8. \A d \in Callers : OneHome(d)'
  BY <1>1, <1>2, <1>4 DEF OneHome
<1>9. ClosedInv'
  <2>1. CASE Alerts!Stop
    BY <2>1 DEF Alerts!Stop, ClosedInv
  <2>2. CASE Alerts!Clear
    BY <1>2, <2>2 DEF Alerts!Clear, ClosedInv
  <2>3. CASE Alerts!Close
    BY <1>2, <1>4, <2>3 DEF Alerts!Close, ClosedInv
  <2>4. CASE Alerts!Join
    <3>1. stopping = "joining" /\ stopping' = "returned" /\ closing' = closing /\ shut' = shut
          /\ items[closing] = <<>> /\ running[closing] = {}
      BY <2>4 DEF Alerts!Join, Alerts!Drained
    <3>2. With(closing) = {}
      BY <3>1, EmptySeq DEF With, In
    <3> QED BY <1>2, <1>4, <3>1, <3>2 DEF ClosedInv
  <2> QED BY <2>1, <2>2, <2>3, <2>4
<1> QED BY <1>3, <1>7, <1>8, <1>9 DEF AlertInv

(***************************************************************************)
(* The supervisor's termination leaves nothing of the process.             *)
(***************************************************************************)
LEMMA KillKeepsAlerts ==
  ASSUME Alerts!AlertAssumption, AlertInv, Alerts!ParentStop
  PROVE  AlertInv'
<1>1. /\ stopping' = "killed"
      /\ caller' = [c \in Callers |-> "killed"]
      /\ items' = [p \in Alerts!Pools |-> <<>>]
      /\ running' = [p \in Alerts!Pools |-> {}]
      /\ UNCHANGED <<pool, created, shut, mine, tried, closing>>
  BY DEF Alerts!ParentStop
<1>2. Alerts!TypeOK /\ PoolsInv
  BY DEF AlertInv, PoolsInv
<1>3. IsFiniteSet({}) /\ Alerts!Cardinality({}) = 0
  BY FS_EmptySet DEF Alerts!Cardinality, Cardinality
<1>4. <<>> \in Seq(Callers) /\ NoneTwice(<<>>) /\ In(<<>>) = {}
  BY EmptySeq DEF NoneTwice, In
<1>5. Alerts!TypeOK'
  <2>1. PoolSize \in Nat
    BY DEF Alerts!AlertAssumption
  <2> QED BY <1>1, <1>2, <1>3, <1>4, <2>1 DEF Alerts!TypeOK
<1>6. PoolsInv'
  BY <1>1, <1>2, <1>3, <1>4, <1>5 DEF PoolsInv
<1>7. KilledInv'
  BY <1>1 DEF KilledInv
<1> QED BY <1>1, <1>6, <1>7 DEF AlertInv

(***************************************************************************)
(* So every step keeps it.                                                 *)
(***************************************************************************)
LEMMA AlertInvHolds ==
  ASSUME Alerts!AlertAssumption
  PROVE  Alerts!Init /\ [][Alerts!Next]_(Alerts!vars) => []AlertInv
<1>1. AlertInv /\ [Alerts!Next]_(Alerts!vars) => AlertInv'
  <2>1. ASSUME AlertInv, UNCHANGED Alerts!vars
        PROVE  AlertInv'
    <3>1. /\ Alerts!TypeOK' = Alerts!TypeOK
          /\ \A p : With(p)' = With(p)
      BY <2>1 DEF Alerts!vars, Alerts!TypeOK, With
    <3>2. PoolsInv' = PoolsInv /\ ClosedInv' = ClosedInv /\ KilledInv' = KilledInv
      BY <2>1, <3>1 DEF Alerts!vars, PoolsInv, ClosedInv, KilledInv
    <3>3. \A d \in Callers : OneHome(d)' = OneHome(d)
      BY <2>1, <3>1 DEF Alerts!vars, OneHome
    <3> QED BY <2>1, <3>2, <3>3 DEF AlertInv, Alerts!vars
  <2> QED
    BY <2>1, ThreadKeepsAlerts, SubmitKeepsAlerts, TakeKeepsAlerts, DeliverKeepsAlerts,
       ShutdownKeepsAlerts, KillKeepsAlerts DEF Alerts!Next, Alerts!Stopped
<1> QED BY <1>1, AlertInit, PTL

(***************************************************************************)
(* The state of the alerts is well typed: in particular no pool has more   *)
(* workers than _ALERT_MAX_WORKERS, and no alert is tried three times.     *)
(***************************************************************************)
THEOREM AlertTypeOK ==
  ASSUME Alerts!AlertAssumption
  PROVE  Alerts!Init /\ [][Alerts!Next]_(Alerts!vars) => []Alerts!TypeOK
<1>1. AlertInv => Alerts!TypeOK
  BY DEF AlertInv, PoolsInv
<1> QED BY <1>1, AlertInvHolds, PTL

(***************************************************************************)
(* Unless the process is terminated, an alert whose thread has gone on is  *)
(* with one pool or was tried once, whatever pools were made, lost to a    *)
(* race or shut down in between; and what a shutdown joined is empty.      *)
(***************************************************************************)
THEOREM AlertsKeptHolds ==
  ASSUME Alerts!AlertAssumption
  PROVE  Alerts!Init /\ [][Alerts!Next]_(Alerts!vars) => []Alerts!AlertsKept
BY AlertInvHolds, AlertInvKeeps, PTL

-----------------------------------------------------------------------------
(* The geolocation.                                                        *)

(***************************************************************************)
(* The entries of the cache: no two are of one address, an empty one is    *)
(* no older than the refusal it stands for.                                *)
(***************************************************************************)
Entry == [ip: Ips, known: BOOLEAN, left: 0 .. Ttl]
Unique(s) == \A m, n \in 1 .. Len(s) : s[m].ip = s[n].ip => m = n
Lacks(s, i) == \A n \in 1 .. Len(s) : s[n].ip # i
From(t, s) == \A n \in 1 .. Len(t) : \E m \in 1 .. Len(s) : t[n] = s[m]
Backed(s, left) == \A n \in 1 .. Len(s) : s[n].known \/ left[s[n].ip] >= s[n].left

(***************************************************************************)
(* A part of a sequence has its elements.                                  *)
(***************************************************************************)
LEMMA Slice ==
  ASSUME NEW S, NEW s \in Seq(S), NEW a \in Nat, NEW b \in 0 .. Len(s), a <= b
  PROVE  /\ SubSeq(s, a + 1, b) \in Seq(S) /\ Len(SubSeq(s, a + 1, b)) = b - a
         /\ \A n \in 1 .. b - a : SubSeq(s, a + 1, b)[n] = s[a + n]
<1>1. PICK k \in Nat : k = Len(s)
  BY LenProperties
<1>2. PICK t : t = SubSeq(s, a + 1, b)
  OBVIOUS
<1>3. PICK lo \in Int : lo = a + 1
  OBVIOUS
<1>4. b \in Int /\ b \in Nat
  BY <1>1
<1>5. \A n \in lo .. b : n \in 1 .. Len(s)
  BY <1>1, <1>3, <1>4
<1>6. \A n \in lo .. b : s[n] \in S
  BY <1>5, ElementOfSeq
<1>7. /\ t \in Seq(S)
      /\ Len(t) = IF lo <= b THEN b - lo + 1 ELSE 0
      /\ \A n \in 1 .. b - lo + 1 : t[n] = s[lo + n - 1]
  BY <1>2, <1>3, <1>4, <1>6, SubSeqProperties
<1>8. \A n \in 1 .. b - a : n \in 1 .. b - lo + 1 /\ lo + n - 1 = a + n
  BY <1>3, <1>4
<1>9. Len(t) = b - a
  BY <1>3, <1>4, <1>7
<1> QED BY <1>2, <1>7, <1>8, <1>9

(***************************************************************************)
(* Without the element at h, a sequence has the others in their order.     *)
(***************************************************************************)
LEMMA WithoutOne ==
  ASSUME NEW S, NEW s \in Seq(S), NEW h \in 1 .. Len(s)
  PROVE  \E t \in Seq(S) :
           /\ t = Geo!RemoveAt(s, h)
           /\ Len(t) = Len(s) - 1
           /\ \A n \in 1 .. Len(s) - 1 : n < h => t[n] = s[n]
           /\ \A n \in 1 .. Len(s) - 1 : n >= h => t[n] = s[n + 1]
<1>0. PICK k \in Nat, j \in Nat : k = Len(s) /\ j = h - 1
  BY LenProperties
<1>10. h \in Nat /\ h = j + 1 /\ j < k /\ h <= k /\ 0 \in Nat /\ 0 <= j
       /\ j \in 0 .. Len(s) /\ k \in 0 .. Len(s)
  BY <1>0
<1>1. PICK before \in Seq(S) :
        /\ before = SubSeq(s, 1, j)
        /\ Len(before) = j
        /\ \A n \in 1 .. j : before[n] = s[n]
  <2>1. /\ SubSeq(s, 0 + 1, j) \in Seq(S) /\ Len(SubSeq(s, 0 + 1, j)) = j - 0
        /\ \A n \in 1 .. j - 0 : SubSeq(s, 0 + 1, j)[n] = s[0 + n]
    BY <1>10, Slice
  <2>2. 0 + 1 = 1 /\ j - 0 = j /\ \A n \in 1 .. j : 0 + n = n
    BY <1>0
  <2> QED BY <2>1, <2>2
<1>2. PICK after \in Seq(S) :
        /\ after = SubSeq(s, h + 1, k)
        /\ Len(after) = k - h
        /\ \A n \in 1 .. k - h : after[n] = s[h + n]
  <2>1. /\ SubSeq(s, h + 1, k) \in Seq(S) /\ Len(SubSeq(s, h + 1, k)) = k - h
        /\ \A n \in 1 .. k - h : SubSeq(s, h + 1, k)[n] = s[h + n]
    BY <1>10, Slice
  <2> QED BY <2>1
<1>3. PICK t : t = before \o after
  OBVIOUS
<1>4. /\ t \in Seq(S)
      /\ Len(t) = Len(before) + Len(after)
      /\ \A n \in 1 .. Len(before) + Len(after) :
           t[n] = IF n <= Len(before) THEN before[n] ELSE after[n - Len(before)]
  BY <1>3, ConcatProperties, Zenon
<1>5. Len(before) + Len(after) = k - 1
  <2>1. j + (k - h) = k - 1
    BY <1>0, <1>10
  <2> QED BY <1>1, <1>2, <2>1
<1>6. t = Geo!RemoveAt(s, h)
  <2>1. Geo!RemoveAt(s, h) = SubSeq(s, 1, h - 1) \o SubSeq(s, h + 1, Len(s))
    BY DEF Geo!RemoveAt
  <2> QED BY <1>0, <1>1, <1>2, <1>3, <2>1
<1>7. ASSUME NEW n \in 1 .. k - 1, n < h
      PROVE  t[n] = s[n]
  <2>1. n \in 1 .. j /\ n <= j
    BY <1>0, <1>10, <1>7
  <2>2. t[n] = before[n]
    BY <1>1, <1>4, <1>5, <2>1
  <2> QED BY <1>1, <2>1, <2>2
<1>8. ASSUME NEW n \in 1 .. k - 1, n >= h
      PROVE  t[n] = s[n + 1]
  <2>1. PICK m \in 1 .. k - h : m = n - j
    BY <1>0, <1>10, <1>8
  <2>2. ~(n <= j) /\ h + m = n + 1
    BY <1>0, <1>10, <1>8, <2>1
  <2>3. t[n] = after[m]
    BY <1>1, <1>4, <1>5, <2>1, <2>2
  <2> QED BY <1>2, <2>1, <2>2, <2>3
<1>9. Len(t) = Len(s) - 1
  BY <1>0, <1>4, <1>5
<1> QED BY <1>0, <1>4, <1>6, <1>7, <1>8, <1>9

(***************************************************************************)
(* Taking the entry of an address out leaves none of that address.         *)
(***************************************************************************)
LEMMA WithoutEntry ==
  ASSUME NEW s \in Seq(Entry), Unique(s), located = s, NEW i
  PROVE  \E t \in Seq(Entry) :
           /\ t = Geo!Without(i) /\ Unique(t) /\ From(t, s) /\ Lacks(t, i)
           /\ Len(t) <= Len(s) /\ (Lacks(s, i) \/ Len(t) < Len(s))
<1>1. PICK k \in Nat : k = Len(s)
  BY LenProperties
<1>2. DOMAIN located = 1 .. k
  BY <1>1, LenProperties
<1>3. PICK hits : hits = {n \in 1 .. k : s[n].ip = i}
  OBVIOUS
<1>4. Geo!Without(i) = IF hits = {} THEN s ELSE Geo!RemoveAt(s, CHOOSE n \in hits : TRUE)
  BY <1>2, <1>3 DEF Geo!Without
<1>5. CASE hits = {}
  <2>1. Lacks(s, i) /\ From(s, s)
    BY <1>1, <1>3, <1>5 DEF Lacks, From
  <2>2. Len(s) <= Len(s)
    BY <1>1
  <2> QED BY <1>4, <1>5, <2>1, <2>2
<1>6. CASE hits # {}
  <2>1. PICK h : h = CHOOSE n \in hits : TRUE
    OBVIOUS
  <2>2. h \in 1 .. k /\ s[h].ip = i
    BY <1>3, <1>6, <2>1
  <2>3. PICK t \in Seq(Entry) :
           /\ t = Geo!RemoveAt(s, h)
           /\ Len(t) = k - 1
           /\ \A n \in 1 .. k - 1 : n < h => t[n] = s[n]
           /\ \A n \in 1 .. k - 1 : n >= h => t[n] = s[n + 1]
    <3>1. h \in 1 .. Len(s)
      BY <1>1, <2>2
    <3> QED BY <1>1, <3>1, WithoutOne
  <2>4. \A m, n \in 1 .. k : s[m].ip = s[n].ip => m = n
    BY <1>1 DEF Unique
  <2>5. \A n \in 1 .. k - 1 : \E m \in 1 .. k :
          m # h /\ t[n] = s[m] /\ (n < h => m = n) /\ (n >= h => m = n + 1)
    <3> TAKE n \in 1 .. k - 1
    <3>1. CASE n < h
      BY <1>1, <2>2, <2>3, <3>1
    <3>2. CASE n >= h
      <4>1. n + 1 \in 1 .. k /\ n + 1 # h /\ t[n] = s[n + 1] /\ ~(n < h)
        BY <1>1, <2>2, <2>3, <3>2
      <4> QED BY <4>1
    <3> QED BY <1>1, <2>2, <3>1, <3>2
  <2>6. From(t, s)
    BY <1>1, <2>3, <2>5 DEF From
  <2>7. Lacks(t, i)
    <3>1. ASSUME NEW n \in 1 .. k - 1
          PROVE  t[n].ip # i
      <4>1. PICK m \in 1 .. k : m # h /\ t[n] = s[m]
        BY <2>5
      <4>2. s[m].ip # s[h].ip
        BY <2>2, <2>4, <4>1
      <4> QED BY <2>2, <4>1, <4>2
    <3> QED BY <2>3, <3>1 DEF Lacks
  <2>8. Unique(t)
    <3>1. ASSUME NEW m \in 1 .. k - 1, NEW n \in 1 .. k - 1, t[m].ip = t[n].ip
          PROVE  m = n
      <4>1. PICK p \in 1 .. k : t[m] = s[p] /\ (m < h => p = m) /\ (m >= h => p = m + 1)
        BY <2>5
      <4>2. PICK q \in 1 .. k : t[n] = s[q] /\ (n < h => q = n) /\ (n >= h => q = n + 1)
        BY <2>5
      <4>3. p = q
        BY <2>4, <3>1, <4>1, <4>2
      <4>4. m \in Nat /\ n \in Nat /\ h \in Nat
        BY <2>2
      <4> QED BY <4>1, <4>2, <4>3, <4>4
    <3> QED BY <2>3, <3>1 DEF Unique
  <2>9. Len(t) < Len(s) /\ Len(t) <= Len(s)
    BY <1>1, <2>3
  <2> QED BY <1>4, <1>6, <2>1, <2>3, <2>6, <2>7, <2>8, <2>9
<1> QED BY <1>5, <1>6

(***************************************************************************)
(* A new last entry, of an address there is none of, keeps them unique,    *)
(***************************************************************************)
LEMMA WithEntry ==
  ASSUME NEW s \in Seq(Entry), Unique(s), NEW e \in Entry, Lacks(s, e.ip)
  PROVE  \E t \in Seq(Entry) :
           /\ t = Append(s, e) /\ Len(t) = Len(s) + 1 /\ Unique(t)
           /\ \A n \in 1 .. Len(t) : t[n] = e \/ \E m \in 1 .. Len(s) : t[n] = s[m]
<1>1. PICK k \in Nat : k = Len(s)
  BY LenProperties
<1>2. PICK t \in Seq(Entry) : t = Append(s, e)
  BY AppendProperties
<1>3. Len(t) = k + 1 /\ t[k + 1] = e /\ \A n \in 1 .. k : t[n] = s[n]
  BY <1>1, <1>2, AppendProperties
<1>4. \A n \in 1 .. k + 1 : n \in 1 .. k \/ n = k + 1
  BY <1>1
<1>5. \A m, n \in 1 .. k : s[m].ip = s[n].ip => m = n
  BY <1>1 DEF Unique
<1>6. \A n \in 1 .. k : s[n].ip # e.ip
  BY <1>1 DEF Lacks
<1>7. Unique(t)
  BY <1>3, <1>4, <1>5, <1>6 DEF Unique
<1>8. \A n \in 1 .. Len(t) : t[n] = e \/ \E m \in 1 .. Len(s) : t[n] = s[m]
  BY <1>1, <1>3, <1>4
<1> QED BY <1>1, <1>2, <1>3, <1>7, <1>8

(***************************************************************************)
(* and so does dropping the oldest.                                        *)
(***************************************************************************)
LEMMA WithoutOldest ==
  ASSUME NEW s \in Seq(Entry), Unique(s), NEW o \in 0 .. Len(s)
  PROVE  \E t \in Seq(Entry) :
           /\ t = SubSeq(s, o + 1, Len(s)) /\ Len(t) = Len(s) - o
           /\ Unique(t) /\ From(t, s)
<1>1. PICK k \in Nat : k = Len(s)
  BY LenProperties
<1>3. PICK t : t = SubSeq(s, o + 1, k)
  OBVIOUS
<1>4. /\ t \in Seq(Entry) /\ Len(t) = k - o
      /\ \A n \in 1 .. k - o : t[n] = s[o + n]
  <2>1. k \in 0 .. Len(s) /\ o \in Nat /\ o <= k
    BY <1>1
  <2> QED BY <1>3, <2>1, Slice
<1>5. \A n \in 1 .. k - o : o + n \in 1 .. k
  BY <1>1
<1>6. From(t, s)
  BY <1>1, <1>4, <1>5 DEF From
<1>7. Unique(t)
  <2>1. \A m, n \in 1 .. k : s[m].ip = s[n].ip => m = n
    BY <1>1 DEF Unique
  <2>2. ASSUME NEW m \in 1 .. k - o, NEW n \in 1 .. k - o, t[m].ip = t[n].ip
        PROVE  m = n
    <3>1. s[o + m].ip = s[o + n].ip
      BY <1>4, <2>2
    <3>2. o + m = o + n
      BY <1>5, <2>1, <3>1
    <3> QED BY <1>1, <3>2
  <2> QED BY <1>4, <2>2 DEF Unique
<1> QED BY <1>1, <1>3, <1>4, <1>6, <1>7

GeoCache(s, left) ==
  s \in Seq(Entry) /\ Len(s) <= CacheMax /\ Unique(s) /\ Backed(s, left)

(***************************************************************************)
(* t has the entry e, and otherwise entries of s; a refusal is no older    *)
(* than it was; the entry e is backed.                                     *)
(***************************************************************************)
Renewed(t, s, e) == \A n \in 1 .. Len(t) : t[n] = e \/ \E m \in 1 .. Len(s) : t[n] = s[m]
Refreshed(after, left) == \A i \in Ips : after[i] = left[i] \/ after[i] = Ttl
BackedEntry(e, left) == e.known \/ left[e.ip] >= e.left

(***************************************************************************)
(* Old entries and a new one of i are backed if the new one is, and the    *)
(* refusals of the others are as old as before.                            *)
(***************************************************************************)
LEMMA StillBacked ==
  ASSUME NEW s \in Seq(Entry), NEW t \in Seq(Entry), NEW e \in Entry,
         NEW left \in [Ips -> 0 .. Ttl], NEW after \in [Ips -> 0 .. Ttl],
         Ttl \in Nat, Backed(s, left),
         Refreshed(after, left), BackedEntry(e, after), Renewed(t, s, e)
  PROVE  Backed(t, after)
<1>1. ASSUME NEW n \in 1 .. Len(t)
      PROVE  t[n].known \/ after[t[n].ip] >= t[n].left
  <2>1. CASE t[n] = e
    BY <2>1 DEF BackedEntry
  <2>2. ASSUME NEW m \in 1 .. Len(s), t[n] = s[m]
        PROVE  t[n].known \/ after[t[n].ip] >= t[n].left
    <3>1. s[m].known \/ left[s[m].ip] >= s[m].left
      BY DEF Backed
    <3>2. PICK old : old = s[m] /\ old \in Entry
      BY ElementOfSeq
    <3>3. old.ip \in Ips /\ old.left \in 0 .. Ttl
      BY <3>2 DEF Entry
    <3>4. after[old.ip] = left[old.ip] \/ after[old.ip] = Ttl
      BY <3>3 DEF Refreshed
    <3>5. Ttl >= old.left
      BY <3>3
    <3> QED BY <2>2, <3>1, <3>2, <3>4, <3>5
  <2> QED BY <1>1, <2>1, <2>2 DEF Renewed
<1> QED BY <1>1 DEF Backed

(***************************************************************************)
(* A hit is of an entry of the address, and moves it to the end.           *)
(***************************************************************************)
LEMMA HitIsSound ==
  ASSUME Geo!GeoAssumption, NEW i \in Ips, NEW e \in Geo!Fresh(i),
         NEW left \in [Ips -> 0 .. Ttl], GeoCache(located, left)
  PROVE  /\ e \in Entry /\ e.ip = i /\ (e.known \/ left[i] > 0)
         /\ GeoCache(Append(Geo!Without(i), e), left)
<1>1. PICK s \in Seq(Entry) : s = located
  BY DEF GeoCache
<1>2. PICK k \in Nat : k = Len(s)
  BY LenProperties
<1>3. /\ Ttl \in Nat /\ CacheMax \in Nat /\ k <= CacheMax
      /\ Unique(s) /\ Backed(s, left)
  BY <1>1, <1>2 DEF GeoCache, Geo!GeoAssumption
<1>4. PICK h \in 1 .. k : e = s[h] /\ e.ip = i /\ e.left > 0
  <2>1. DOMAIN s = 1 .. k
    BY <1>2, LenProperties
  <2> QED BY <1>1, <2>1 DEF Geo!Fresh, Geo!ToSet
<1>5. e \in Entry
  BY <1>2, <1>4, ElementOfSeq
<1>6. e.left \in 0 .. Ttl /\ left[i] \in 0 .. Ttl
  BY <1>5 DEF Entry
<1>7. e.known \/ left[e.ip] >= e.left
  BY <1>2, <1>3, <1>4 DEF Backed
<1>8. e.known \/ left[i] > 0
  BY <1>4, <1>6, <1>7
<1>9. PICK r \in Seq(Entry) :
        /\ r = Geo!Without(i) /\ Unique(r) /\ From(r, s) /\ Lacks(r, i)
        /\ Lacks(s, i) \/ Len(r) < Len(s)
  BY <1>1, <1>3, WithoutEntry
<1>10. Len(r) < k /\ Len(r) \in Nat
  BY <1>2, <1>4, <1>9, LenProperties DEF Lacks
<1>11. Lacks(r, e.ip)
  BY <1>4, <1>9
<1>12. PICK t \in Seq(Entry) :
         /\ t = Append(r, e) /\ Len(t) = Len(r) + 1 /\ Unique(t)
         /\ \A n \in 1 .. Len(t) : t[n] = e \/ \E m \in 1 .. Len(r) : t[n] = r[m]
  BY <1>5, <1>9, <1>11, WithEntry
<1>13. \A n \in 1 .. Len(t) : t[n] = e \/ \E m \in 1 .. Len(s) : t[n] = s[m]
  BY <1>9, <1>12 DEF From
<1>14. Backed(t, left)
  <2>1. Ttl \in Nat /\ Backed(s, left)
    BY <1>3
  <2>2. Refreshed(left, left) /\ BackedEntry(e, left) /\ Renewed(t, s, e)
    BY <1>7, <1>13 DEF Refreshed, BackedEntry, Renewed
  <2> QED BY <1>5, <2>1, <2>2, StillBacked
<1>15. Len(t) <= CacheMax
  BY <1>3, <1>10, <1>12
<1> QED BY <1>4, <1>5, <1>8, <1>9, <1>12, <1>14, <1>15 DEF GeoCache

(***************************************************************************)
(* What a lookup comes to is stored within the bound, and a refusal backs  *)
(* its empty entry.                                                        *)
(***************************************************************************)
LEMMA StoreIsSound ==
  ASSUME Geo!GeoAssumption, NEW i \in Ips, NEW answer \in BOOLEAN,
         NEW left \in [Ips -> 0 .. Ttl], NEW after \in [Ips -> 0 .. Ttl],
         after = IF answer THEN left ELSE [left EXCEPT ![i] = Ttl],
         GeoCache(located, left)
  PROVE  GeoCache(Geo!Stored(i, answer), after)
<1>1. PICK s \in Seq(Entry) : s = located
  BY DEF GeoCache
<1>2. Ttl \in Nat /\ CacheMax \in Nat \ {0} /\ Unique(s) /\ Backed(s, left) /\ Len(s) <= CacheMax
  BY <1>1 DEF GeoCache, Geo!GeoAssumption
<1>3. PICK r \in Seq(Entry) :
        r = Geo!Without(i) /\ Unique(r) /\ From(r, s) /\ Lacks(r, i)
  BY <1>1, <1>2, WithoutEntry
<1>4. PICK k \in Nat : k = Len(r)
  BY LenProperties
<1>5. PICK o : o = IF k >= CacheMax THEN k - CacheMax + 1 ELSE 0
  OBVIOUS
<1>6. o \in 0 .. k /\ k - o + 1 <= CacheMax
  BY <1>2, <1>4, <1>5
<1>7. PICK kept \in Seq(Entry) :
        kept = SubSeq(r, o + 1, k) /\ Len(kept) = k - o /\ Unique(kept) /\ From(kept, r)
  <2>1. o \in 0 .. Len(r)
    BY <1>4, <1>6
  <2> QED BY <1>3, <1>4, <2>1, WithoutOldest
<1>8. PICK e : e = [ip |-> i, known |-> answer, left |-> Ttl]
  OBVIOUS
<1>9. e \in Entry /\ e.ip = i /\ e.left = Ttl /\ e.known = answer
  BY <1>2, <1>8 DEF Entry
<1>10. Lacks(kept, e.ip)
  <2>1. ASSUME NEW n \in 1 .. Len(kept)
        PROVE  kept[n].ip # i
    <3>1. PICK m \in 1 .. Len(r) : kept[n] = r[m]
      BY <1>7 DEF From
    <3> QED BY <1>3, <3>1 DEF Lacks
  <2> QED BY <1>9, <2>1 DEF Lacks
<1>11. PICK t \in Seq(Entry) :
         /\ t = Append(kept, e) /\ Len(t) = Len(kept) + 1 /\ Unique(t)
         /\ \A n \in 1 .. Len(t) : t[n] = e \/ \E m \in 1 .. Len(kept) : t[n] = kept[m]
  BY <1>7, <1>9, <1>10, WithEntry
<1>12. \A n \in 1 .. Len(t) : t[n] = e \/ \E m \in 1 .. Len(s) : t[n] = s[m]
  BY <1>3, <1>7, <1>11 DEF From
<1>13. \A j \in Ips : after[j] = left[j] \/ after[j] = Ttl
  OBVIOUS
<1>14. e.known \/ after[e.ip] >= e.left
  BY <1>2, <1>9
<1>15. Backed(t, after)
  <2>1. Ttl \in Nat /\ Backed(s, left)
    BY <1>2
  <2>2. Refreshed(after, left) /\ BackedEntry(e, after) /\ Renewed(t, s, e)
    BY <1>12, <1>13, <1>14 DEF Refreshed, BackedEntry, Renewed
  <2> QED BY <1>9, <2>1, <2>2, StillBacked
<1>16. Len(t) <= CacheMax
  BY <1>4, <1>6, <1>7, <1>11
<1>17. Geo!Stored(i, answer) = t
  BY <1>3, <1>4, <1>5, <1>7, <1>8, <1>11 DEF Geo!Stored
<1> QED BY <1>11, <1>15, <1>16, <1>17 DEF GeoCache

(***************************************************************************)
(* Entries and refusals age alike.                                         *)
(***************************************************************************)
LEMMA AgeIsSound ==
  ASSUME Geo!GeoAssumption, NEW left \in [Ips -> 0 .. Ttl], GeoCache(located, left)
  PROVE  GeoCache([n \in DOMAIN located |->
                     [located[n] EXCEPT !.left = Geo!Less(located[n].left)]],
                  [i \in Ips |-> Geo!Less(left[i])])
<1>1. PICK s \in Seq(Entry) : s = located
  BY DEF GeoCache
<1>2. PICK k \in Nat : k = Len(s)
  BY LenProperties
<1>3. Ttl \in Nat /\ k <= CacheMax /\ Unique(s) /\ Backed(s, left) /\ DOMAIN located = 1 .. k
  BY <1>1, <1>2, LenProperties DEF GeoCache, Geo!GeoAssumption
<1>4. PICK t : t = [n \in 1 .. k |-> [s[n] EXCEPT !.left = Geo!Less(s[n].left)]]
  OBVIOUS
<1>5. ASSUME NEW n \in 1 .. k
      PROVE  /\ t[n] \in Entry /\ t[n].ip = s[n].ip /\ t[n].known = s[n].known
             /\ t[n].left = Geo!Less(s[n].left) /\ s[n].left \in 0 .. Ttl /\ s[n].ip \in Ips
  <2>1. PICK e \in Entry : e = s[n]
    BY <1>2, ElementOfSeq
  <2>2. t[n] = [e EXCEPT !.left = Geo!Less(e.left)]
    BY <1>4, <2>1
  <2>3. e.left \in 0 .. Ttl /\ e.ip \in Ips /\ Geo!Less(e.left) \in 0 .. Ttl
    BY <1>3, <2>1 DEF Entry, Geo!Less
  <2> QED BY <2>1, <2>2, <2>3 DEF Entry
<1>6. t \in Seq(Entry) /\ Len(t) = k
  <2>1. t \in [1 .. k -> Entry]
    BY <1>4, <1>5
  <2>2. t \in Seq(Entry)
    BY <1>2, <2>1
  <2>3. DOMAIN t = 1 .. k /\ DOMAIN t = 1 .. Len(t) /\ Len(t) \in Nat
    BY <1>4, <2>2, LenProperties
  <2> QED BY <1>2, <2>2, <2>3
<1>7. Unique(t)
  BY <1>2, <1>3, <1>5, <1>6 DEF Unique
<1>8. PICK after : after = [i \in Ips |-> Geo!Less(left[i])]
  OBVIOUS
<1>9. ASSUME NEW n \in 1 .. k
      PROVE  t[n].known \/ after[t[n].ip] >= t[n].left
  <2>1. PICK a, b : a = left[s[n].ip] /\ b = s[n].left
    OBVIOUS
  <2>2. a \in Nat /\ b \in Nat /\ after[t[n].ip] = Geo!Less(a) /\ t[n].left = Geo!Less(b)
    BY <1>3, <1>5, <1>8, <2>1
  <2>3. s[n].known \/ a >= b
    BY <1>2, <1>3, <2>1 DEF Backed
  <2>4. a >= b => Geo!Less(a) >= Geo!Less(b)
    BY <2>2 DEF Geo!Less
  <2> QED BY <1>5, <2>2, <2>3, <2>4
<1>10. Backed(t, after)
  BY <1>6, <1>9 DEF Backed
<1>11. t = [n \in DOMAIN located |-> [located[n] EXCEPT !.left = Geo!Less(located[n].left)]]
  BY <1>1, <1>3, <1>4
<1> QED BY <1>3, <1>6, <1>7, <1>8, <1>10, <1>11 DEF GeoCache

(***************************************************************************)
(* Why a report goes out without attribution only if its address was       *)
(* refused or is skipped: a thread that is about an address has it; an empty entry is    *)
(* backed by a refusal that is no older; and a capture that has its result *)
(* has it attributed or excused.                                           *)
(***************************************************************************)
Excuses == {"no", "refused", "skipped"}
Stages == {"new", "looking", "starting", "queuing", "backfill", "reading", "getting",
           "pacing", "asking", "stamping", "over"}
Addressed == {"looking", "starting", "queuing", "backfill", "pacing", "asking", "stamping"}

ThreadsTyped ==
  /\ at \in [Geo!Threads -> Stages]
  /\ ip \in [Geo!Threads -> Ips \cup {None}]
  /\ held \in [Geo!Threads -> Geo!Queues \cup {None}]
  /\ nap \in [Geo!Threads -> 0 .. Delay]
  /\ known \in [Captures -> BOOLEAN]
  /\ excused \in [Captures -> Excuses]
SharedTyped ==
  /\ since \in 0 .. Delay
  /\ current \in Geo!Queues \cup {None}
  /\ queue \in [Geo!Queues -> Seq(Ips \cup {None})]
  /\ refused \in [Ips -> 0 .. Ttl]

Engaged ==
  \A t \in Geo!Threads :
    /\ at[t] \in Addressed => ip[t] \in Ips
    /\ at[t] \in {"queuing", "getting"} => held[t] \in Geo!Queues

Settled == \A c \in Captures : at[c] \in {"stamping", "over"} => known[c] \/ excused[c] # "no"

GeoInv == ThreadsTyped /\ SharedTyped /\ GeoCache(located, refused) /\ Engaged /\ Settled

(***************************************************************************)
(* The invariant includes the types,                                       *)
(***************************************************************************)
LEMMA GeoInvTypes ==
  ASSUME GeoInv
  PROVE  Geo!TypeOK
<1>1. PICK s \in Seq(Entry) : s = located
  BY DEF GeoInv, GeoCache
<1>2. DOMAIN s = 1 .. Len(s)
  BY LenProperties
<1>3. /\ located \in Seq([ip: Ips, known: BOOLEAN, left: 0 .. Ttl])
      /\ Len(located) <= CacheMax
  BY <1>1 DEF GeoInv, GeoCache, Entry
<1>4. \A m, n \in DOMAIN located : located[m].ip = located[n].ip => m = n
  BY <1>1, <1>2 DEF GeoInv, GeoCache, Unique
<1> QED BY <1>3, <1>4 DEF Geo!TypeOK, GeoInv, ThreadsTyped, SharedTyped, Stages, Excuses

(***************************************************************************)
(* and holds at first.                                                     *)
(***************************************************************************)
LEMMA GeoInit ==
  ASSUME Geo!GeoAssumption, Geo!Init
  PROVE  GeoInv
<1>1. /\ located = <<>> /\ since = Delay /\ current = None
      /\ queue = [q \in Geo!Queues |-> <<>>]
      /\ at = [t \in Geo!Threads |-> "new"]
      /\ ip = [t \in Geo!Threads |-> None]
      /\ held = [t \in Geo!Threads |-> None]
      /\ nap = [t \in Geo!Threads |-> 0]
      /\ known = [c \in Captures |-> FALSE]
      /\ refused = [i \in Ips |-> 0]
      /\ excused = [c \in Captures |-> "no"]
  BY DEF Geo!Init
<1>2. Ttl \in Nat /\ Delay \in Nat /\ CacheMax \in Nat
  BY DEF Geo!GeoAssumption
<1>3. <<>> \in Seq(Entry) /\ <<>> \in Seq(Ips \cup {None}) /\ Len(<<>>) = 0
  BY EmptySeq
<1>4. GeoCache(located, refused)
  BY <1>1, <1>2, <1>3 DEF GeoCache, Unique, Backed
<1>5. ThreadsTyped
  BY <1>1, <1>2 DEF ThreadsTyped, Stages, Excuses
<1>6. SharedTyped
  BY <1>1, <1>2, <1>3 DEF SharedTyped
<1>7. Engaged /\ Settled
  BY <1>1, <1>5 DEF Engaged, Settled, Addressed, Geo!Threads
<1> QED BY <1>4, <1>5, <1>6, <1>7 DEF GeoInv

(***************************************************************************)
(* A capture begins, skips its address or misses, gets a worker started    *)
(* and queues its address.                                                 *)
(***************************************************************************)
LEMMA AskingKeepsGeo ==
  ASSUME Geo!GeoAssumption, GeoInv, NEW c \in Captures,
         \/ \E i \in Ips : Geo!Capture(c, i)
         \/ Geo!Skip(c) \/ Geo!Miss(c) \/ Geo!Start(c) \/ Geo!Put(c)
  PROVE  GeoInv'
<1>1. UNCHANGED <<located, since, nap, known, refused, excused>>
  BY DEF Geo!Capture, Geo!Skip, Geo!Miss, Geo!Start, Geo!Put
<1>2. GeoCache(located, refused)'
  BY <1>1 DEF GeoInv, GeoCache, Unique, Backed
<1>3. /\ c \in Geo!Threads /\ \A q \in Geo!Queues : q \in Geo!Threads /\ q \notin Captures
  BY DEF Geo!Threads, Geo!Queues, Geo!GeoAssumption
<1>4. ThreadsTyped /\ SharedTyped /\ Engaged /\ Settled
  BY DEF GeoInv
<1>5. CASE \E i \in Ips : Geo!Capture(c, i)
  <2>1. PICK i \in Ips : Geo!Capture(c, i)
    BY <1>5
  <2>2. /\ at' = [at EXCEPT ![c] = "looking"] /\ ip' = [ip EXCEPT ![c] = i]
        /\ UNCHANGED <<current, queue, held>>
    BY <2>1 DEF Geo!Capture, Geo!Goes
  <2>3. ThreadsTyped' /\ SharedTyped'
    BY <1>1, <1>3, <1>4, <2>2 DEF ThreadsTyped, SharedTyped, Stages
  <2>4. Engaged' /\ Settled'
    BY <1>1, <1>3, <1>4, <2>2 DEF Engaged, Settled, ThreadsTyped, Geo!Threads
  <2> QED BY <1>2, <2>3, <2>4 DEF GeoInv
<1>6. CASE Geo!Skip(c) \/ Geo!Miss(c)
  <2>1. /\ at[c] = "looking" /\ UNCHANGED <<current, queue, held, ip>>
        /\ \/ at' = [at EXCEPT ![c] = "starting"]
           \/ at' = [at EXCEPT ![c] = "backfill"]
    BY <1>6 DEF Geo!Skip, Geo!Miss, Geo!Goes
  <2>2. ThreadsTyped' /\ SharedTyped'
    BY <1>1, <1>3, <1>4, <2>1 DEF ThreadsTyped, SharedTyped, Stages
  <2>3. Engaged' /\ Settled'
    BY <1>1, <1>3, <1>4, <2>1 DEF Engaged, Settled, ThreadsTyped, Geo!Threads, Addressed
  <2> QED BY <1>2, <2>2, <2>3 DEF GeoInv
<1>7. CASE Geo!Start(c)
  <2>1. at[c] = "starting" /\ UNCHANGED <<queue, ip>>
    BY <1>7 DEF Geo!Start
  <2>2. PICK q \in Geo!Queues :
          /\ current' = q /\ held' = [held EXCEPT ![c] = q]
          /\ \/ at' = [at EXCEPT ![c] = "queuing"]
             \/ at' = [at EXCEPT ![c] = "queuing", ![q] = "reading"]
    <3>1. CASE current # None /\ at[current] # "over"
      BY <1>4, <1>7, <3>1 DEF Geo!Start, Geo!Goes, SharedTyped
    <3>2. CASE ~(current # None /\ at[current] # "over")
      BY <1>7, <3>2 DEF Geo!Start
    <3> QED BY <3>1, <3>2
  <2>3. ThreadsTyped' /\ SharedTyped'
    <3>1. at' \in [Geo!Threads -> Stages] /\ held' \in [Geo!Threads -> Geo!Queues \cup {None}]
      BY <1>3, <1>4, <2>2 DEF ThreadsTyped, Stages
    <3> QED BY <1>1, <1>4, <2>1, <2>2, <3>1 DEF ThreadsTyped, SharedTyped
  <2>4. /\ at'[c] = "queuing" /\ held'[c] = q
        /\ \A t \in Geo!Threads : t # c => /\ held'[t] = held[t]
                                           /\ at'[t] = at[t] \/ (t = q /\ at'[t] = "reading")
    BY <1>3, <1>4, <2>2 DEF ThreadsTyped
  <2>5. Engaged'
    BY <1>4, <2>1, <2>4 DEF Engaged, Addressed
  <2>6. Settled'
    BY <1>1, <1>3, <1>4, <2>4 DEF Settled, Geo!Threads
  <2> QED BY <1>2, <2>3, <2>5, <2>6 DEF GeoInv
<1>8. CASE Geo!Put(c)
  <2>1. /\ at[c] = "queuing" /\ at' = [at EXCEPT ![c] = "backfill"]
        /\ queue' = [queue EXCEPT ![held[c]] = Append(queue[held[c]], ip[c])]
        /\ held' = [held EXCEPT ![c] = None] /\ UNCHANGED <<current, ip>>
    BY <1>8 DEF Geo!Put, Geo!Goes
  <2>2. held[c] \in Geo!Queues /\ ip[c] \in Ips
    BY <1>3, <1>4, <2>1 DEF Engaged, Addressed
  <2>3. Append(queue[held[c]], ip[c]) \in Seq(Ips \cup {None})
    <3>1. queue[held[c]] \in Seq(Ips \cup {None}) /\ ip[c] \in Ips \cup {None}
      BY <1>4, <2>2 DEF SharedTyped
    <3> QED BY <3>1, AppendProperties
  <2>4. SharedTyped'
    BY <1>1, <1>4, <2>1, <2>3 DEF SharedTyped
  <2>5. ThreadsTyped'
    BY <1>1, <1>3, <1>4, <2>1 DEF ThreadsTyped, Stages
  <2>6. Engaged' /\ Settled'
    BY <1>1, <1>3, <1>4, <2>1, <2>2 DEF Engaged, Settled, ThreadsTyped, Geo!Threads, Addressed
  <2> QED BY <1>2, <2>4, <2>5, <2>6 DEF GeoInv
<1> QED BY <1>5, <1>6, <1>7, <1>8

(***************************************************************************)
(* A thread that is through with its address is about none.                *)
(***************************************************************************)
LEMMA FinishedIsThrough ==
  ASSUME ThreadsTyped, NEW t \in Geo!Threads, Geo!Finished(t)
  PROVE  /\ at' \in [Geo!Threads -> Stages] /\ ip' \in [Geo!Threads -> Ips \cup {None}]
         /\ at'[t] = IF t \in Captures THEN "over" ELSE "reading"
         /\ \A u \in Geo!Threads : u # t => at'[u] = at[u] /\ ip'[u] = ip[u]
BY DEF ThreadsTyped, Geo!Finished, Geo!Goes, Stages

(***************************************************************************)
(* A capture takes what the cache has: an entry that is empty is backed,   *)
(* so that the capture is excused; as it is if its address is skipped.     *)
(***************************************************************************)
LEMMA CachedKeepsGeo ==
  ASSUME Geo!GeoAssumption, GeoInv, NEW c \in Captures,
         Geo!Hit(c) \/ Geo!BackfillSkip(c) \/ Geo!Backfill(c)
  PROVE  GeoInv'
<1>1. /\ at[c] \in {"looking", "backfill"}
      /\ UNCHANGED <<since, current, queue, held, nap, refused>>
  BY DEF Geo!Hit, Geo!BackfillSkip, Geo!Backfill
<1>2. /\ c \in Geo!Threads /\ ThreadsTyped /\ SharedTyped /\ Engaged /\ Settled
      /\ GeoCache(located, refused) /\ Ttl \in Nat /\ refused \in [Ips -> 0 .. Ttl]
  BY DEF GeoInv, Geo!Threads, Geo!GeoAssumption, SharedTyped
<1>3. ip[c] \in Ips
  BY <1>1, <1>2 DEF Engaged, Addressed
<1>4. SharedTyped'
  BY <1>1, <1>2 DEF SharedTyped
<1>5. CASE Geo!Finished(c) /\ \E e \in Geo!Fresh(ip[c]) :
             Geo!Gets(c, e.known) /\ (located' = located \/ located' = Append(Geo!Without(ip[c]), e))
  <2>1. PICK e \in Geo!Fresh(ip[c]) :
          Geo!Gets(c, e.known) /\ (located' = located \/ located' = Append(Geo!Without(ip[c]), e))
    BY <1>5
  <2>2. /\ e \in Entry /\ (e.known \/ refused[ip[c]] > 0)
        /\ GeoCache(Append(Geo!Without(ip[c]), e), refused)
    BY <1>2, <1>3, HitIsSound
  <2>3. GeoCache(located, refused)'
    <3>1. GeoCache(located', refused')
      BY <1>1, <1>2, <2>1, <2>2
    <3> QED BY <3>1 DEF GeoCache, Unique, Backed
  <2>4. /\ known' = [known EXCEPT ![c] = e.known]
        /\ excused' = [excused EXCEPT ![c] = IF refused[ip[c]] > 0 THEN "refused" ELSE "no"]
    BY <1>1, <2>1 DEF Geo!Gets
  <2>5. e.known \in BOOLEAN
    BY <2>2 DEF Entry
  <2>6. /\ known' \in [Captures -> BOOLEAN] /\ excused' \in [Captures -> Excuses]
        /\ known'[c] = e.known /\ (excused'[c] = "no" => ~(refused[ip[c]] > 0))
        /\ \A d \in Captures : d # c => known'[d] = known[d] /\ excused'[d] = excused[d]
    BY <1>2, <2>4, <2>5 DEF ThreadsTyped, Excuses
  <2>7. /\ at' \in [Geo!Threads -> Stages] /\ ip' \in [Geo!Threads -> Ips \cup {None}]
        /\ at'[c] = "over"
        /\ \A u \in Geo!Threads : u # c => at'[u] = at[u] /\ ip'[u] = ip[u]
    BY <1>2, <1>5, FinishedIsThrough
  <2>8. ThreadsTyped'
    BY <1>1, <1>2, <2>6, <2>7 DEF ThreadsTyped
  <2>9. Engaged'
    BY <1>1, <1>2, <2>7 DEF Engaged, Addressed
  <2>10. Settled'
    <3>1. ASSUME NEW d \in Captures, at'[d] \in {"stamping", "over"}
          PROVE  known'[d] \/ excused'[d] # "no"
      <4>1. CASE d = c
        BY <2>2, <2>6, <4>1
      <4>2. CASE d # c
        BY <1>2, <2>6, <2>7, <3>1, <4>2 DEF Settled, Geo!Threads
      <4> QED BY <4>1, <4>2
    <3> QED BY <3>1 DEF Settled
  <2> QED BY <1>4, <2>3, <2>8, <2>9, <2>10 DEF GeoInv
<1>6. ASSUME UNCHANGED <<ip, known, excused>>, NEW to \in {"backfill", "pacing"},
             Geo!Goes(c, to), GeoCache(located', refused')
      PROVE  GeoInv'
  <2>1. at' = [at EXCEPT ![c] = to]
    BY <1>6 DEF Geo!Goes
  <2>2. ThreadsTyped'
    BY <1>1, <1>2, <1>6, <2>1 DEF ThreadsTyped, Stages
  <2>3. Engaged' /\ Settled'
    BY <1>1, <1>2, <1>3, <1>6, <2>1 DEF Engaged, Settled, ThreadsTyped, Geo!Threads, Addressed
  <2>4. GeoCache(located, refused)'
    BY <1>6 DEF GeoCache, Unique, Backed
  <2> QED BY <1>4, <2>2, <2>3, <2>4 DEF GeoInv
<1>7. CASE Geo!Hit(c)
  <2>1. PICK e \in Geo!Fresh(ip[c]) :
          /\ located' = Append(Geo!Without(ip[c]), e)
          /\ IF e.known THEN Geo!Gets(c, TRUE) /\ Geo!Finished(c)
                        ELSE Geo!Goes(c, "backfill") /\ UNCHANGED <<ip, known, excused>>
    BY <1>7 DEF Geo!Hit
  <2>2. e \in Entry /\ GeoCache(Append(Geo!Without(ip[c]), e), refused)
    BY <1>2, <1>3, HitIsSound
  <2>3. e.known \in BOOLEAN
    BY <2>2 DEF Entry
  <2>4. CASE e.known
    <3>1. e.known = TRUE
      BY <2>3, <2>4
    <3>2. Geo!Gets(c, e.known) /\ Geo!Finished(c)
      BY <2>1, <2>4, <3>1
    <3> QED BY <1>5, <2>1, <3>2
  <2>5. CASE ~e.known
    <3>1. Geo!Goes(c, "backfill") /\ UNCHANGED <<ip, known, excused>> /\ GeoCache(located', refused')
      BY <1>1, <2>1, <2>2, <2>5
    <3> QED BY <1>6, <3>1
  <2> QED BY <2>4, <2>5
<1>8. CASE Geo!Backfill(c)
  <2>1. located' = located
    BY <1>8 DEF Geo!Backfill
  <2>2. CASE Geo!Fresh(ip[c]) = {}
    <3>1. Geo!Goes(c, "pacing") /\ UNCHANGED <<ip, known, excused>> /\ GeoCache(located', refused')
      BY <1>1, <1>2, <1>8, <2>1, <2>2 DEF Geo!Backfill
    <3> QED BY <1>6, <3>1
  <2>3. CASE Geo!Fresh(ip[c]) # {}
    <3>1. Geo!Finished(c) /\ \E e \in Geo!Fresh(ip[c]) : Geo!Gets(c, e.known)
      BY <1>8, <2>3 DEF Geo!Backfill
    <3> QED BY <1>5, <2>1, <3>1
  <2> QED BY <2>2, <2>3
<1>9. CASE Geo!BackfillSkip(c)
  <2>1. /\ excused' = [excused EXCEPT ![c] = "skipped"] /\ UNCHANGED <<located, known>>
        /\ Geo!Finished(c)
    BY <1>9 DEF Geo!BackfillSkip
  <2>2. /\ at' \in [Geo!Threads -> Stages] /\ ip' \in [Geo!Threads -> Ips \cup {None}]
        /\ at'[c] = "over"
        /\ \A u \in Geo!Threads : u # c => at'[u] = at[u] /\ ip'[u] = ip[u]
    BY <1>2, <2>1, FinishedIsThrough
  <2>3. ThreadsTyped'
    BY <1>1, <1>2, <2>1, <2>2 DEF ThreadsTyped, Excuses
  <2>4. Engaged'
    BY <1>1, <1>2, <2>2 DEF Engaged, Addressed
  <2>5. Settled'
    BY <1>2, <2>1, <2>2 DEF Settled, ThreadsTyped, Geo!Threads
  <2>6. GeoCache(located, refused)'
    BY <1>1, <1>2, <2>1 DEF GeoCache, Unique, Backed
  <2> QED BY <1>4, <2>3, <2>4, <2>5, <2>6 DEF GeoInv
<1> QED BY <1>7, <1>8, <1>9

(***************************************************************************)
(* A lookup's result is stored, and backed if it is empty; a capture that  *)
(* gets it is through or about to stamp the time.                          *)
(***************************************************************************)
LEMMA LookupKeepsGeo ==
  ASSUME Geo!GeoAssumption, GeoInv, NEW t \in Geo!Threads,
         Geo!Answered(t) \/ Geo!Failed(t)
  PROVE  GeoInv'
<1>1. PICK answer \in BOOLEAN :
        /\ Geo!Store(t, answer)
        /\ (Geo!Goes(t, "stamping") /\ UNCHANGED ip) \/ Geo!Finished(t)
  BY DEF Geo!Answered, Geo!Failed
<1>2. /\ at[t] = "asking" /\ located' = Geo!Stored(ip[t], answer)
      /\ refused' = IF answer THEN refused ELSE [refused EXCEPT ![ip[t]] = Ttl]
      /\ IF t \in Captures THEN Geo!Gets(t, answer) ELSE UNCHANGED <<known, excused>>
      /\ UNCHANGED <<since, current, queue, held, nap>>
  BY <1>1 DEF Geo!Store
<1>3. /\ ThreadsTyped /\ SharedTyped /\ Engaged /\ Settled
      /\ GeoCache(located, refused) /\ Ttl \in Nat \ {0} /\ refused \in [Ips -> 0 .. Ttl]
  BY DEF GeoInv, Geo!GeoAssumption, SharedTyped
<1>4. ip[t] \in Ips
  BY <1>2, <1>3 DEF Engaged, Addressed
<1>5. refused' \in [Ips -> 0 .. Ttl]
  BY <1>2, <1>3, <1>4
<1>6. GeoCache(located, refused)'
  <2>1. GeoCache(located', refused')
    BY <1>2, <1>3, <1>4, <1>5, StoreIsSound
  <2> QED BY <2>1 DEF GeoCache, Unique, Backed
<1>7. SharedTyped'
  BY <1>2, <1>3, <1>5 DEF SharedTyped
<1>8. /\ at' \in [Geo!Threads -> Stages] /\ ip' \in [Geo!Threads -> Ips \cup {None}]
      /\ \/ at'[t] = "stamping" /\ ip'[t] \in Ips
         \/ at'[t] \in {"over", "reading"}
      /\ \A u \in Geo!Threads : u # t => at'[u] = at[u] /\ ip'[u] = ip[u]
  <2>1. CASE Geo!Goes(t, "stamping") /\ UNCHANGED ip
    BY <1>3, <1>4, <2>1 DEF Geo!Goes, ThreadsTyped, Stages
  <2>2. CASE Geo!Finished(t)
    BY <1>3, <2>2, FinishedIsThrough
  <2> QED BY <1>1, <2>1, <2>2
<1>9. /\ known' \in [Captures -> BOOLEAN] /\ excused' \in [Captures -> Excuses]
      /\ \A d \in Captures : d # t => known'[d] = known[d] /\ excused'[d] = excused[d]
      /\ t \in Captures => known'[t] \/ excused'[t] # "no"
  <2>1. CASE t \in Captures
    <3>1. /\ known' = [known EXCEPT ![t] = answer]
          /\ excused' = [excused EXCEPT ![t] = IF refused'[ip[t]] > 0 THEN "refused" ELSE "no"]
      BY <1>2, <2>1 DEF Geo!Gets
    <3>2. answer \/ refused'[ip[t]] > 0
      BY <1>2, <1>3, <1>4
    <3>3. PICK why \in Excuses : why = IF refused'[ip[t]] > 0 THEN "refused" ELSE "no"
      BY DEF Excuses
    <3>4. /\ known' \in [Captures -> BOOLEAN] /\ excused' \in [Captures -> Excuses]
          /\ known'[t] = answer /\ excused'[t] = why
          /\ \A d \in Captures : d # t => known'[d] = known[d] /\ excused'[d] = excused[d]
      BY <1>3, <2>1, <3>1, <3>3 DEF ThreadsTyped
    <3> QED BY <3>2, <3>3, <3>4
  <2>2. CASE t \notin Captures
    BY <1>2, <1>3, <2>2 DEF ThreadsTyped
  <2> QED BY <2>1, <2>2
<1>10. ThreadsTyped'
  BY <1>2, <1>3, <1>8, <1>9 DEF ThreadsTyped
<1>11. Engaged'
  BY <1>2, <1>3, <1>8 DEF Engaged, Addressed
<1>12. Settled'
  BY <1>3, <1>8, <1>9 DEF Settled, Geo!Threads
<1> QED BY <1>6, <1>7, <1>10, <1>11, <1>12 DEF GeoInv

(***************************************************************************)
(* The pace and the queue disturb no address and no result.                *)
(***************************************************************************)
LEMMA PaceKeepsGeo ==
  ASSUME Geo!GeoAssumption, GeoInv, NEW t \in Geo!Threads, Geo!Pace(t) \/ Geo!Stamp(t)
  PROVE  GeoInv'
<1>1. UNCHANGED <<located, current, queue, held, known, refused, excused>>
  BY DEF Geo!Pace, Geo!Stamp
<1>2. GeoCache(located, refused)'
  BY <1>1 DEF GeoInv, GeoCache, Unique, Backed
<1>3. ThreadsTyped /\ SharedTyped /\ Engaged /\ Settled /\ Delay \in Nat
  BY DEF GeoInv, Geo!GeoAssumption
<1>4. CASE Geo!Pace(t)
  <2>1. /\ at[t] = "pacing" /\ at' = [at EXCEPT ![t] = "asking"]
        /\ nap' = [nap EXCEPT ![t] = Delay - since] /\ UNCHANGED <<ip, since>>
    BY <1>4 DEF Geo!Pace, Geo!Goes
  <2>2. Delay - since \in 0 .. Delay
    BY <1>3 DEF SharedTyped
  <2>3. ThreadsTyped' /\ SharedTyped'
    BY <1>1, <1>3, <2>1, <2>2 DEF ThreadsTyped, SharedTyped, Stages
  <2>4. Engaged' /\ Settled'
    BY <1>1, <1>3, <2>1 DEF Engaged, Settled, ThreadsTyped, Geo!Threads, Addressed
  <2> QED BY <1>2, <2>3, <2>4 DEF GeoInv
<1>5. CASE Geo!Stamp(t)
  <2>1. at[t] = "stamping" /\ since' = 0 /\ nap' = nap /\ Geo!Finished(t)
    BY <1>5 DEF Geo!Stamp
  <2>2. /\ at' \in [Geo!Threads -> Stages] /\ ip' \in [Geo!Threads -> Ips \cup {None}]
        /\ at'[t] = IF t \in Captures THEN "over" ELSE "reading"
        /\ \A u \in Geo!Threads : u # t => at'[u] = at[u] /\ ip'[u] = ip[u]
    BY <1>3, <2>1, FinishedIsThrough
  <2>3. ThreadsTyped' /\ SharedTyped'
    BY <1>1, <1>3, <2>1, <2>2 DEF ThreadsTyped, SharedTyped
  <2>4. Engaged'
    BY <1>1, <1>3, <2>2 DEF Engaged, Addressed
  <2>5. Settled'
    BY <1>1, <1>3, <2>1, <2>2 DEF Settled, Geo!Threads
  <2> QED BY <1>2, <2>3, <2>4, <2>5 DEF GeoInv
<1> QED BY <1>4, <1>5

(***************************************************************************)
(* A worker reads which queue is current, and takes an address or the      *)
(* signal to stop from the queue it has read.                              *)
(***************************************************************************)
LEMMA WorkerKeepsGeo ==
  ASSUME Geo!GeoAssumption, GeoInv, NEW w \in Geo!Queues,
         Geo!Read(w) \/ Geo!Get(w) \/ Geo!GetTimesOut(w)
  PROVE  GeoInv'
<1>1. UNCHANGED <<located, since, current, nap, known, refused, excused>>
  BY DEF Geo!Read, Geo!Get, Geo!GetTimesOut
<1>2. GeoCache(located, refused)'
  BY <1>1 DEF GeoInv, GeoCache, Unique, Backed
<1>3. ThreadsTyped /\ SharedTyped /\ Engaged /\ Settled
  BY DEF GeoInv
<1>4. w \in Geo!Threads /\ w \notin Captures
  BY DEF Geo!Threads, Geo!Queues, Geo!GeoAssumption
<1>5. CASE Geo!Read(w)
  <2>1. PICK to : /\ at' = [at EXCEPT ![w] = to]
                  /\ to = IF current = None THEN "over" ELSE "getting"
    BY <1>5 DEF Geo!Read, Geo!Goes
  <2>2. held' = [held EXCEPT ![w] = current] /\ UNCHANGED <<queue, ip>>
    BY <1>5 DEF Geo!Read
  <2>3. to = "getting" => current \in Geo!Queues
    BY <1>3, <2>1 DEF SharedTyped
  <2>4. ThreadsTyped' /\ SharedTyped'
    BY <1>1, <1>3, <2>1, <2>2 DEF ThreadsTyped, SharedTyped, Stages
  <2>5. Engaged' /\ Settled'
    BY <1>1, <1>3, <1>4, <2>1, <2>2, <2>3 DEF Engaged, Settled, ThreadsTyped, Geo!Threads, Addressed
  <2> QED BY <1>2, <2>4, <2>5 DEF GeoInv
<1>6. CASE Geo!Get(w)
  <2>1. PICK q \in Geo!Queues : q = held[w]
    BY <1>3, <1>4, <1>6 DEF Geo!Get, Engaged
  <2>2. PICK s \in Seq(Ips \cup {None}) : s = queue[q]
    BY <1>3 DEF SharedTyped
  <2>3. PICK item, to :
          /\ item = Head(s) /\ to = (IF item = None THEN "over" ELSE "pacing")
          /\ ip' = [ip EXCEPT ![w] = item] /\ at' = [at EXCEPT ![w] = to]
          /\ queue' = [queue EXCEPT ![q] = Tail(s)]
          /\ held' = [held EXCEPT ![w] = None] /\ s # <<>>
    BY <1>6, <2>1, <2>2 DEF Geo!Get, Geo!Goes
  <2>4. item \in Ips \cup {None} /\ Tail(s) \in Seq(Ips \cup {None})
    BY <2>2, <2>3, HeadTailProperties
  <2>5. to = "pacing" => item \in Ips
    BY <2>3, <2>4
  <2>6. ThreadsTyped'
    BY <1>1, <1>3, <2>3, <2>4 DEF ThreadsTyped, Stages
  <2>7. SharedTyped'
    BY <1>1, <1>3, <2>3, <2>4 DEF SharedTyped
  <2>8. Engaged' /\ Settled'
    BY <1>1, <1>3, <1>4, <2>3, <2>5 DEF Engaged, Settled, ThreadsTyped, Geo!Threads, Addressed
  <2> QED BY <1>2, <2>6, <2>7, <2>8 DEF GeoInv
<1>7. CASE Geo!GetTimesOut(w)
  <2>1. /\ at' = [at EXCEPT ![w] = "reading"] /\ held' = [held EXCEPT ![w] = None]
        /\ UNCHANGED <<queue, ip>>
    BY <1>7 DEF Geo!GetTimesOut, Geo!Goes
  <2>2. ThreadsTyped' /\ SharedTyped'
    BY <1>1, <1>3, <2>1 DEF ThreadsTyped, SharedTyped, Stages
  <2>3. Engaged' /\ Settled'
    BY <1>1, <1>3, <1>4, <2>1 DEF Engaged, Settled, ThreadsTyped, Geo!Threads, Addressed
  <2> QED BY <1>2, <2>2, <2>3 DEF GeoInv
<1> QED BY <1>5, <1>6, <1>7

(***************************************************************************)
(* A stop queues its signal and forgets the queue.                         *)
(***************************************************************************)
LEMMA StopKeepsGeo ==
  ASSUME Geo!GeoAssumption, GeoInv, Geo!StopWorker
  PROVE  GeoInv'
<1>1. /\ UNCHANGED <<located, since, at, ip, held, nap, known, refused, excused>>
      /\ current \in 1 .. MaxStops /\ current' = None
      /\ queue' = [queue EXCEPT ![current] = Append(queue[current], None)]
  BY DEF Geo!StopWorker
<1>2. GeoCache(located, refused)'
  BY <1>1 DEF GeoInv, GeoCache, Unique, Backed
<1>3. ThreadsTyped /\ SharedTyped /\ Engaged /\ Settled
  BY DEF GeoInv
<1>4. current \in Geo!Queues
  BY <1>1 DEF Geo!Queues, Geo!GeoAssumption
<1>5. Append(queue[current], None) \in Seq(Ips \cup {None})
  <2>1. queue[current] \in Seq(Ips \cup {None}) /\ None \in Ips \cup {None}
    BY <1>3, <1>4 DEF SharedTyped
  <2> QED BY <2>1, AppendProperties
<1>6. SharedTyped'
  BY <1>1, <1>3, <1>5 DEF SharedTyped
<1>7. ThreadsTyped' /\ Engaged' /\ Settled'
  BY <1>1, <1>3 DEF ThreadsTyped, Engaged, Settled
<1> QED BY <1>2, <1>6, <1>7 DEF GeoInv

(***************************************************************************)
(* Time passes for all.                                                    *)
(***************************************************************************)
LEMMA TickKeepsGeo ==
  ASSUME Geo!GeoAssumption, GeoInv, Geo!Tick
  PROVE  GeoInv'
<1>1. /\ located' = [n \in DOMAIN located |->
                      [located[n] EXCEPT !.left = Geo!Less(located[n].left)]]
      /\ since' = IF since < Delay THEN since + 1 ELSE since
      /\ nap' = [t \in Geo!Threads |-> Geo!Less(nap[t])]
      /\ refused' = [i \in Ips |-> Geo!Less(refused[i])]
      /\ UNCHANGED <<current, queue, at, ip, held, known, excused>>
  BY DEF Geo!Tick
<1>2. /\ ThreadsTyped /\ SharedTyped /\ Engaged /\ Settled /\ GeoCache(located, refused)
      /\ Delay \in Nat /\ Ttl \in Nat /\ refused \in [Ips -> 0 .. Ttl]
  BY DEF GeoInv, SharedTyped, Geo!GeoAssumption
<1>3. GeoCache(located, refused)'
  <2>1. GeoCache(located', refused')
    BY <1>1, <1>2, AgeIsSound
  <2> QED BY <2>1 DEF GeoCache, Unique, Backed
<1>4. refused' \in [Ips -> 0 .. Ttl]
  <2>1. \A n \in 0 .. Ttl : Geo!Less(n) \in 0 .. Ttl
    BY <1>2 DEF Geo!Less
  <2> QED BY <1>1, <1>2, <2>1
<1>5. nap' \in [Geo!Threads -> 0 .. Delay]
  <2>1. \A n \in 0 .. Delay : Geo!Less(n) \in 0 .. Delay
    BY <1>2 DEF Geo!Less
  <2> QED BY <1>1, <1>2, <2>1 DEF ThreadsTyped
<1>6. SharedTyped'
  BY <1>1, <1>2, <1>4 DEF SharedTyped
<1>7. ThreadsTyped'
  BY <1>1, <1>2, <1>5 DEF ThreadsTyped
<1>8. Engaged' /\ Settled'
  BY <1>1, <1>2 DEF Engaged, Settled
<1> QED BY <1>3, <1>6, <1>7, <1>8 DEF GeoInv

(***************************************************************************)
(* So every step keeps the invariant.                                      *)
(***************************************************************************)
LEMMA GeoInvHolds ==
  ASSUME Geo!GeoAssumption
  PROVE  Geo!Init /\ [][Geo!Next]_(Geo!vars) => []GeoInv
<1>1. GeoInv /\ [Geo!Next]_(Geo!vars) => GeoInv'
  <2>1. ASSUME GeoInv, UNCHANGED Geo!vars
        PROVE  GeoInv'
    <3>1. /\ ThreadsTyped' = ThreadsTyped /\ SharedTyped' = SharedTyped
          /\ Engaged' = Engaged /\ Settled' = Settled
      BY <2>1 DEF Geo!vars, ThreadsTyped, SharedTyped, Engaged, Settled
    <3>2. GeoCache(located, refused)'
      BY <2>1 DEF Geo!vars, GeoInv, GeoCache, Unique, Backed
    <3> QED BY <2>1, <3>1, <3>2 DEF GeoInv
  <2> QED
    BY <2>1, AskingKeepsGeo, CachedKeepsGeo, LookupKeepsGeo, PaceKeepsGeo, WorkerKeepsGeo,
       StopKeepsGeo, TickKeepsGeo DEF Geo!Next
<1> QED BY <1>1, GeoInit, PTL

(***************************************************************************)
(* The state of the geolocation is well typed: the cache holds at most     *)
(* _GEO_CACHE_MAX_SIZE entries, and one of an address.                     *)
(***************************************************************************)
THEOREM GeoTypeOK ==
  ASSUME Geo!GeoAssumption
  PROVE  Geo!Init /\ [][Geo!Next]_(Geo!vars) => []Geo!TypeOK
BY GeoInvHolds, GeoInvTypes, PTL

(***************************************************************************)
(* A report goes out without its attribution only if a lookup of that very *)
(* address came to nothing within the _GEO_CACHE_TTL before, or if it is   *)
(* one the code does not look up, whatever threads share the cache and     *)
(* whenever the worker is stopped.                                         *)
(***************************************************************************)
THEOREM AttributedUnlessRefusedHolds ==
  ASSUME Geo!GeoAssumption
  PROVE  Geo!Init /\ [][Geo!Next]_(Geo!vars) => []Geo!AttributedUnlessRefused
<1>1. GeoInv => Geo!AttributedUnlessRefused
  BY DEF GeoInv, Settled, Geo!AttributedUnlessRefused
<1> QED BY <1>1, GeoInvHolds, PTL
=============================================================================
