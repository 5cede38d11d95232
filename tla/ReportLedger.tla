---------------------------- MODULE ReportLedger ----------------------------
(***************************************************************************)
(* What the honeypot promises about a captured interaction, with no queue, *)
(* worker, socket or database in sight: a report is opened when a bot's    *)
(* bytes have been captured, it may be made durable (a row of the database *)
(* or a line of a dump file), and the sensor settles it exactly once.      *)
(* ReportDelivery shows that the threads, retries and transactions of the  *)
(* program implement this ledger.                                          *)
(***************************************************************************)
CONSTANT Reports      \* the interactions that may be captured

VARIABLES
  fate,               \* what the sensor believes about each report
  durable             \* the reports that survive a restart of every process

vars == <<fate, durable>>

(***************************************************************************)
(* "acked": the server answered 200.  "unacked": the server was reached    *)
(* but never said 200.  "dumped": every attempt failed and the sensor      *)
(* wrote the report to its dump file.  "lost": the sensor stopped, or its  *)
(* own dump failed, while the report was pending.                          *)
(***************************************************************************)
Settled == {"acked", "unacked", "dumped", "lost"}
Fates   == {"idle", "pending"} \cup Settled

TypeOK ==
  /\ fate \in [Reports -> Fates]
  /\ durable \subseteq Reports

Init ==
  /\ fate = [r \in Reports |-> "idle"]
  /\ durable = {}

Open(r) ==
  /\ fate[r] = "idle"
  /\ fate' = [fate EXCEPT ![r] = "pending"]
  /\ UNCHANGED durable

\* A delivered copy becomes durable, possibly after the sensor gave up on it.
Persist(r) ==
  /\ fate[r] # "idle"
  /\ durable' = durable \cup {r}
  /\ UNCHANGED fate

\* An acknowledgement is a promise that the report is already durable.
Settle(r, how) ==
  /\ fate[r] = "pending"
  /\ how = "acked" => r \in durable
  /\ fate' = [fate EXCEPT ![r] = how]
  /\ durable' = IF how = "dumped" THEN durable \cup {r} ELSE durable

\* The sensor process goes down with everything it has not settled.
Abandon ==
  /\ fate' = [r \in Reports |-> IF fate[r] = "pending" THEN "lost" ELSE fate[r]]
  /\ UNCHANGED durable

Next ==
  \/ \E r \in Reports : Open(r) \/ Persist(r)
  \/ \E r \in Reports, how \in Settled : Settle(r, how)
  \/ Abandon

Spec == Init /\ [][Next]_vars

=============================================================================
