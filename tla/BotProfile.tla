----------------------------- MODULE BotProfile -----------------------------
(***************************************************************************)
(* The profile a handler keeps of one address (handlers/bot_profile.py):   *)
(* the requests it recorded and the dialogue, both bounded, what it makes  *)
(* of the requests, and the level it escalates to.  Its operations hold    *)
(* its lock from beginning to end and are called by the threads of all     *)
(* connections of the address, in any order.                               *)
(***************************************************************************)
EXTENDS Naturals, Sequences, FiniteSetsExt, SequencesExt

CONSTANTS
  Signs,       \* the sets of telling signs a request may have
  MaxHistory,  \* MAX_HISTORY
  MaxDialogue, \* MAX_DIALOGUE
  MaxCalls     \* bound: calls of the operations

ProfileAssumption ==
  /\ MaxHistory \in Nat \ {0}
  /\ MaxDialogue \in Nat \ {0}
  /\ MaxCalls \in Nat
  /\ \A s \in Signs : s \subseteq {"sql", "inclusion", "command", "dots", "login", "listed"}

VARIABLES
  calls,       \* calls so far; the number of a call names its request
  history,     \* request_history
  dialogue,    \* dialogue: the number and the request of each entry
  behaviors,   \* detected_behaviors
  level,       \* escalation_level
  metadata,    \* the request the metadata was taken from, or 0 for {}
  captures     \* captured_credentials, by number of call

vars == <<calls, history, dialogue, behaviors, level, metadata, captures>>

-----------------------------------------------------------------------------
(***************************************************************************)
(* What a request is recognised by: a word of SQLI_PATTERNS ("sql"), of    *)
(* LFI_PATTERNS ("inclusion") or, in the raw text only, of RCE_PATTERNS    *)
(* ("command"); ".." twice in its path ("dots"); a POST to a path of a     *)
(* login ("login"); a path of ENUM_PATHS ("listed").                       *)
(***************************************************************************)
Behavior ==
  [sql |-> "sql_injection", inclusion |-> "lfi_rfi", command |-> "rce",
   dots |-> "directory_traversal", login |-> "credential_stuffing", listed |-> "enumeration"]
Behaviors == {Behavior[s] : s \in DOMAIN Behavior}

IDLE == 0
SCANNING == 1
PROBE == 2
EXPLOIT_ATTEMPT == 3
DEEP_EXPLOIT == 5

\* The level of the first behaviour found, in the order of the code.
Escalation(found) ==
  IF "rce" \in found THEN DEEP_EXPLOIT
  ELSE IF found \cap {"sql_injection", "lfi_rfi", "credential_stuffing"} # {}
  THEN EXPLOIT_ATTEMPT
  ELSE IF "directory_traversal" \in found THEN PROBE
  ELSE IF "enumeration" \in found THEN SCANNING ELSE IDLE

Latest(a, b) == b
Higher(a, b) == IF a >= b THEN a ELSE b
LastOf(s, n) == IF Len(s) <= n THEN s ELSE SubSeq(s, Len(s) - n + 1, Len(s))

TypeOK ==
  /\ calls \in 0 .. MaxCalls
  /\ history \in Seq(1 .. MaxCalls) /\ Len(history) <= MaxHistory
  /\ dialogue \in Seq([sequence: 1 .. MaxDialogue + 1, request: 1 .. MaxCalls])
  /\ Len(dialogue) <= MaxDialogue
  /\ behaviors \subseteq Behaviors
  /\ level \in {IDLE, SCANNING, PROBE, EXPLOIT_ATTEMPT, DEEP_EXPLOIT}
  /\ metadata \in 0 .. MaxCalls
  /\ captures \in Seq(1 .. MaxCalls)

Init ==
  /\ calls = 0
  /\ history = <<>>
  /\ dialogue = <<>>
  /\ behaviors = {}
  /\ level = IDLE
  /\ metadata = 0
  /\ captures = <<>>

Call == calls < MaxCalls /\ calls' = calls + 1

\* record_request: the metadata is that of the first request whose raw text has
\* any; a profile may be made by a request without a raw text.
RecordRequest(signs, telling) ==
  /\ Call
  /\ history' = LastOf(Append(history, calls'), MaxHistory)
  /\ behaviors' = behaviors \cup {Behavior[s] : s \in signs}
  /\ level' = Higher(level, Escalation(behaviors'))
  /\ metadata' = IF metadata = 0 /\ telling THEN calls' ELSE metadata
  /\ UNCHANGED <<dialogue, captures>>

\* record_interaction: the number is taken before the oldest entry goes.
RecordInteraction ==
  /\ Call
  /\ dialogue' = LastOf(Append(dialogue, [sequence |-> Len(dialogue) + 1, request |-> calls']),
                        MaxDialogue)
  /\ UNCHANGED <<history, behaviors, level, metadata, captures>>

CaptureCredentials ==
  /\ Call
  /\ captures' = Append(captures, calls')
  /\ behaviors' = behaviors \cup {"credential_stuffing"}
  /\ level' = Higher(level, EXPLOIT_ATTEMPT)
  /\ UNCHANGED <<history, dialogue, metadata>>

Idle == calls = MaxCalls /\ UNCHANGED vars

Next ==
  \/ \E signs \in Signs, telling \in BOOLEAN : RecordRequest(signs, telling)
  \/ RecordInteraction
  \/ CaptureCredentials
  \/ Idle

Spec == Init /\ [][Next]_vars

-----------------------------------------------------------------------------
(***************************************************************************)
(* The level is that of the worst behaviour detected: whatever order the   *)
(* requests and the captured logins come in, no earlier, milder behaviour  *)
(* keeps it down and none raises it without a trace.                       *)
(***************************************************************************)
LevelIsWorst ==
  level = Max({IDLE} \cup {Escalation({b}) : b \in behaviors})
=============================================================================
