----------------------------- MODULE MCService -----------------------------
(***************************************************************************)
(* Small instances of six parts of the service's life: the lockfile and    *)
(* the supervision loop of mfh.run, the listening threads and the report   *)
(* queue of the client, the retention of the server's SQLite storage, and  *)
(* the caches of the dashboard.  They share no variable, so a behaviour    *)
(* exercises one of them, chosen at the start, while the others keep their *)
(* initial states.  The supervision loop is extended, the other parts are  *)
(* instances.                                                              *)
(***************************************************************************)
EXTENDS Supervisor

CONSTANTS
  Starts, NoFile,
  client, server,
  Producers, PoolSize, QueueMax, MaxPools,
  TcpPorts, UdpPorts,
  Rows, Processes,
  Ranges, Default, Scopes, Searches, Filters, Viewers, StaleServe,
  MaxCaptured, MaxFailures, Miss

VARIABLES
  part,
  pc, path, fd, locked, children, written,
  current, aliveFlag, created, items, threadPc, q, task, sent, listed,
  stopping, waiting, atStop,
  single, main, event, port,
  old, stored, table, archive, doomed, open, step, chosen, dropped,
  captured, polled, pages, refresher, shared, built, draft, primed,
  listening, failures, viewer, asked, count, answer

\* The children that run by default, in the order of mfh.run.
ClientThenServer == <<client, server>>

Lock == INSTANCE InstanceLock
Queue == INSTANCE ReportQueue WITH pc <- threadPc
Listen == INSTANCE Listeners
Archive == INSTANCE Retention WITH pc <- step
Board == INSTANCE Dashboard WITH stage <- refresher, open <- listening, pc <- viewer

\* The parameters of the parts are as their theorems and comments assume.
ASSUME ServiceAssumption ==
  /\ Lock!LockAssumption
  /\ Queue!QueueAssumption
  /\ SupervisorAssumption
  /\ Listen!ListenersAssumption
  /\ Board!DashboardAssumption

lockVars == <<pc, path, fd, locked, children, written>>
queueVars == <<current, aliveFlag, created, items, threadPc, q, task, sent,
               listed, stopping, waiting, atStop>>
listenVars == <<single, main, event, port>>
archiveVars == <<old, stored, table, archive, doomed, open, step, chosen, dropped>>
boardVars == <<captured, polled, pages, refresher, shared, built, draft, primed,
               listening, failures, viewer, asked, count, answer>>
serviceVars == <<part, lockVars, vars, queueVars, listenVars, archiveVars, boardVars>>

ServiceInit ==
  /\ part \in {"lock", "loop", "queue", "listen", "archive", "board"}
  /\ Lock!Init
  /\ Init
  /\ Queue!Init
  /\ Listen!Init
  /\ Archive!Init
  /\ Board!Init
  /\ part = "listen" \/ ~single

InLock(A) == part = "lock" /\ A
  /\ UNCHANGED <<part, vars, queueVars, listenVars, archiveVars, boardVars>>
InLoop(A) == part = "loop" /\ A
  /\ UNCHANGED <<part, lockVars, queueVars, listenVars, archiveVars, boardVars>>
InQueue(A) == part = "queue" /\ A
  /\ UNCHANGED <<part, lockVars, vars, listenVars, archiveVars, boardVars>>
InListen(A) == part = "listen" /\ A
  /\ UNCHANGED <<part, lockVars, vars, queueVars, archiveVars, boardVars>>
InArchive(A) == part = "archive" /\ A
  /\ UNCHANGED <<part, lockVars, vars, queueVars, listenVars, boardVars>>
\* Bound: all viewers ask for the default range.
InBoard(A) ==
  /\ part = "board" /\ A
  /\ \A v \in Viewers : asked'[v] # Miss => asked'[v].range = Default
  /\ UNCHANGED <<part, lockVars, vars, queueVars, listenVars, archiveVars>>

ServiceNext ==
  \/ InLock(Lock!Next)
  \/ InLoop(Next)
  \/ InQueue(Queue!Next)
  \/ InListen(Listen!Next)
  \/ InArchive(Archive!Next)
  \/ InBoard(Board!Next)

\* The fairness of the loop, of Queue, Listen and Board, each while its part runs.
ServiceFairness ==
  /\ WF_vars(InLoop(Step))
  /\ WF_queueVars(InQueue(\E t \in Queue!Threads : Queue!StartPool(t)))
  /\ WF_queueVars(InQueue(Queue!Joining))
  /\ WF_listenVars(InListen(Listen!Main))
  /\ WF_boardVars(InBoard(Board!Refresh))

ServiceSpec == ServiceInit /\ [][ServiceNext]_serviceVars /\ ServiceFairness

-----------------------------------------------------------------------------
ServiceTypeOK ==
  /\ Lock!TypeOK
  /\ TypeOK
  /\ Queue!TypeOK
  /\ Listen!TypeOK
  /\ Archive!TypeOK
  /\ Board!TypeOK

OneActive == Lock!OneActive
OwnFile == Lock!OwnFile
OnePool == Queue!OnePool
DrainedByExit == Queue!DrainedByExit
ShutdownReturns == Queue!ShutdownReturns

MainReturns == part = "listen" => Listen!MainReturns

RowsSurvive == Archive!RowsSurvive

FragmentAsAsked == Board!FragmentAsAsked
WarmAtOpen == Board!WarmAtOpen
PageCatchesUp == part = "board" => Board!PageCatchesUp

\* Every cooldown in turn.
CooldownsUpTo[n \in Nat] == IF n = 0 THEN 0 ELSE CooldownsUpTo[n - 1] + Backoff(n)
Cooldowns == CooldownsUpTo[MaxRestarts]

(***************************************************************************)
(* The guard trips at one moment only: when every cooldown has passed in   *)
(* silence since the pass that found the child dead (the one after it was  *)
(* last seen alive, or the very first).  The service never ends because of *)
(* a child that came back in between, nor one cooldown early or late.      *)
(***************************************************************************)
GivesUpAfterFullOutage ==
  [][\A c \in Children :
       GiveUp(c) => silent[c] \in {Cooldowns, Cooldowns + 1}]_serviceVars

=============================================================================
