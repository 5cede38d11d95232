----------------------------- MODULE Supervisor -----------------------------
(***************************************************************************)
(* The supervision loop of mfh.run: once a second the parent looks at each *)
(* child in turn.  A child seen alive has its bookkeeping reset; a dead    *)
(* one is restarted, with an exponential backoff between restarts, and     *)
(* after MaxRestarts restarts since it was last seen alive the parent      *)
(* ends the whole service.  Time is counted in passes of the loop.         *)
(***************************************************************************)
EXTENDS Naturals, Sequences

CONSTANTS
  Order,         \* the children that run, in the order the loop looks at them
  MaxRestarts,   \* _MAX_RESTARTS_PER_WINDOW
  BackoffBase,   \* _BACKOFF_BASE, in passes
  BackoffMax,    \* _BACKOFF_MAX, in passes
  Never          \* st['last'] = 0.0: not restarted since it was seen alive

Children == {Order[i] : i \in 1 .. Len(Order)}

SupervisorAssumption ==
  /\ Order \in Seq(Children)
  /\ \A i, j \in 1 .. Len(Order) : Order[i] = Order[j] => i = j
  /\ MaxRestarts \in Nat \ {0}
  /\ BackoffBase \in Nat \ {0}
  /\ BackoffMax \in Nat \ {0}
  /\ Never \notin 0 .. BackoffMax

VARIABLES
  stage,         \* the loop runs, its finally block runs, or run() returned
  at,            \* whom the loop looks at next
  alive,         \* the children whose process runs
  started,       \* the child that start() has started and procs does not hold
  attempts,      \* st['attempts']
  since,         \* passes since st['last'], counted up to BackoffMax
  silent         \* passes since the child was last seen alive, counted up to
                 \* SilentCap (no such counter in the code: it times the outage)

vars == <<stage, at, alive, started, attempts, since, silent>>

OutageMax == 1 + MaxRestarts * BackoffMax
SilentCap == OutageMax + 1

TypeOK ==
  /\ stage \in {"loop", "finally", "over"}
  /\ at \in 1 .. Len(Order) + 1
  /\ alive \subseteq Children
  /\ started \subseteq Children
  /\ \A c, d \in started : c = d
  /\ attempts \in [Children -> 0 .. MaxRestarts]
  /\ since \in [Children -> (0 .. BackoffMax) \cup {Never}]
  /\ silent \in [Children -> 0 .. SilentCap]

Init ==
  /\ stage = "loop"
  /\ at = 1
  /\ alive = Children
  /\ started = {}
  /\ attempts = [c \in Children |-> 0]
  /\ since = [c \in Children |-> Never]
  /\ silent = [c \in Children |-> 0]

-----------------------------------------------------------------------------
\* The loop looks at child c.
LooksAt(c) ==
  /\ stage = "loop"
  /\ started = {}
  /\ at <= Len(Order)
  /\ c = Order[at]

\* The cooldown after restart n, twice as long as the one before up to BackoffMax.
TwoTo[n \in Nat] == IF n = 0 THEN 1 ELSE 2 * TwoTo[n - 1]
Backoff(n) ==
  IF BackoffBase * TwoTo[n] < BackoffMax THEN BackoffBase * TwoTo[n] ELSE BackoffMax

\* A cooldown that ends only when the child is seen alive never ends.
CoolingUntilSeen(c) == since[c] # Never
\* The backoff since the last restart is not over.
Cooling(c) == since[c] # Never /\ since[c] < Backoff(attempts[c])

\* Restarts are counted since the child was last seen alive.  A count of those
\* in a short window never reaches the cap once the backoff is at its maximum.
ExhaustedInWindow(c) == attempts[c] >= MaxRestarts /\ silent[c] <= BackoffMax
ExhaustedEarly(c) == attempts[c] + 1 >= MaxRestarts
Exhausted(c) == attempts[c] >= MaxRestarts

SeenAlive(c) ==
  /\ LooksAt(c)
  /\ c \in alive
  /\ attempts' = [attempts EXCEPT ![c] = 0]
  /\ since' = [since EXCEPT ![c] = Never]
  /\ silent' = [silent EXCEPT ![c] = 0]
  /\ at' = at + 1
  /\ UNCHANGED <<stage, alive, started>>

CoolDown(c) ==
  /\ LooksAt(c)
  /\ c \notin alive
  /\ Cooling(c)
  /\ at' = at + 1
  /\ UNCHANGED <<stage, alive, started, attempts, since, silent>>

\* new_proc.start().
Respawn(c) ==
  /\ LooksAt(c)
  /\ c \notin alive
  /\ ~Cooling(c)
  /\ ~Exhausted(c)
  /\ alive' = alive \cup {c}
  /\ started' = {c}
  /\ UNCHANGED <<stage, at, attempts, since, silent>>

\* procs[key] = new_proc and its bookkeeping; a Ctrl-C may come before it.
Keep(c) ==
  /\ stage = "loop"
  /\ c \in started
  /\ started' = {}
  /\ attempts' = [attempts EXCEPT ![c] = @ + 1]
  /\ since' = [since EXCEPT ![c] = 0]
  /\ at' = at + 1
  /\ UNCHANGED <<stage, alive, silent>>

\* sys.exit(1) inside the try block: the finally block runs.
GiveUp(c) ==
  /\ LooksAt(c)
  /\ c \notin alive
  /\ ~Cooling(c)
  /\ Exhausted(c)
  /\ stage' = "finally"
  /\ at' = 1
  /\ UNCHANGED <<alive, started, attempts, since, silent>>

\* time.sleep(1) and the next pass.
Later(n) == IF n = Never THEN Never ELSE IF n < BackoffMax THEN n + 1 ELSE n

Sleep ==
  /\ stage = "loop"
  /\ at = Len(Order) + 1
  /\ at' = 1
  /\ since' = [c \in Children |-> Later(since[c])]
  /\ silent' = [c \in Children |->
                  IF silent[c] < SilentCap THEN silent[c] + 1 ELSE silent[c]]
  /\ UNCHANGED <<stage, alive, started, attempts>>

\* Ctrl-C, or update_event set: the finally block runs.
Interrupt ==
  /\ stage = "loop"
  /\ stage' = "finally"
  /\ at' = 1
  /\ UNCHANGED <<alive, started, attempts, since, silent>>

Die(c) ==
  /\ c \in alive
  /\ alive' = alive \ {c}
  /\ UNCHANGED <<stage, at, started, attempts, since, silent>>

\* _terminate: the process that procs holds is signalled and joined if it is
\* alive.  That of a child which was only started is its dead predecessor.
TerminatedAtStart(c) == IF attempts[c] = 0 THEN alive \ {c} ELSE alive
Terminated(c) == alive \ ({c} \ started)

Terminate ==
  /\ stage = "finally"
  /\ at <= Len(Order)
  /\ alive' = Terminated(Order[at])
  /\ at' = at + 1
  /\ UNCHANGED <<stage, started, attempts, since, silent>>

Return ==
  /\ stage = "finally"
  /\ at = Len(Order) + 1
  /\ stage' = "over"
  /\ UNCHANGED <<at, alive, started, attempts, since, silent>>

Over ==
  /\ stage = "over"
  /\ UNCHANGED vars

LookAt(c) == SeenAlive(c) \/ CoolDown(c) \/ Respawn(c) \/ Keep(c) \/ GiveUp(c)

Step ==
  \/ \E c \in Children : LookAt(c)
  \/ Sleep
  \/ Terminate
  \/ Return

Next ==
  \/ Step
  \/ Interrupt
  \/ \E c \in Children : Die(c)
  \/ Over

Spec == Init /\ [][Next]_vars

\* The parent's loop goes on; children need not die and nobody need press
\* Ctrl-C.
Fairness == WF_vars(Step)
FairSpec == Spec /\ Fairness

-----------------------------------------------------------------------------
(***************************************************************************)
(* While the service runs, no child goes unseen for longer than all its    *)
(* backoffs together: either it is back by then or the parent has given up *)
(* and systemd takes over.  Restarts of the other children, and where in   *)
(* the pass the child died, make no difference.                            *)
(***************************************************************************)
OutageBounded ==
  stage = "loop" =>
    \A c \in Children : silent[c] <= OutageMax

(***************************************************************************)
(* run() returns with no child left, restarted or not: a client that       *)
(* outlives its parent would go on capturing with nobody to restart the    *)
(* server.  The one exception is a child whose restart Ctrl-C cut short    *)
(* between its start (mfh.py:242) and its place in procs (243).            *)
(***************************************************************************)
NoChildLeft == stage = "over" => alive \subseteq started

(***************************************************************************)
(* A dead child is started again, or the service ends ("Either way we must *)
(* recover without a full service restart", mfh.py:252).                   *)
(***************************************************************************)
DeadIsRestarted ==
  \A c \in Children : c \notin alive ~> c \in alive \/ stage # "loop"

=============================================================================
