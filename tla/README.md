# A verification development of manyfaced-honeypot

This directory models the parts of manyfaced-honeypot in which something can go
wrong that a unit test would hardly reach: threads, processes, caches, retries
and crashes.  It holds TLA+ modules (`*.tla`), the configurations TLC checks
them with (`*.cfg`), proofs checked by TLAPS (`*Proofs.tla`), and
`PROJECT.json`, which maps every definition to the source lines it stands for
and lists the runs, the theorems, the hazards and the findings.

Paths below are relative to `src/manyfaced/`, line numbers are of the commit the
models were written from.

1. [The system](#1-the-system): its parts, their state and how they interact
2. [The modules](#2-the-modules): how each one corresponds to the code
3. [The runs](#3-the-runs): what TLC checks, the bounds, the fairness
4. [Findings](#4-findings): where the code and its own comments disagree
5. [The proofs](#5-the-proofs)
6. [Not modelled, and why](#6-not-modelled-and-why)
7. [The plan](#7-the-plan)

To reproduce a result: `tlc -config Service.cfg MCService`,
`tlapm ServiceProofs.tla`; each run is one row of the table in section 3.

## 1. The system

The honeypot pretends to be many services ("faces") at once, records what bots
do to them and shows it on a dashboard.  `mfh.py` is the parent process.  It
forks up to three children, which talk over one TCP port and one database:

    bots ──TCP/UDP──> client process                    server process
                      listener threads (per port)        accept loop
                        └ a thread per connection          └ a thread per report
                            │ faces, router, handlers          │ insert
                            ▼                                  ▼
                      report queue ──> report workers ──TCP──> database, dump file
                            │                                  ▲
                            └ dump file                        │ reads
                                                         dashboard process
                                                         refresher, request threads

### Inventory

| Component | State it keeps | Operations | What makes it hard | What makes it correct |
|---|---|---|---|---|
| **Instance lock** `mfh.py` 35-83 | the lockfile, `_lock_fd`, the flock (shared by fork) | acquire, release | starts racing a release; kills that leave orphaned children; unlinking by name | one instance at a time; a running instance's file bears its pid |
| **Supervisor** `mfh.py` 86-289 | `procs`, per-child attempts and time of the last restart | start, look at a child, restart, give up, terminate | a child dying at any point of a pass; backoff and cap interacting; Ctrl-C between any two steps | a dead child is back, or the service has ended, within a bound; no child that `procs` holds outlives `run()` |
| **Listeners** `client/client.py` 876-1046, 1060-1238 | `update_event`, one thread per port | start, bind, accept/recvfrom, stop | a thread blocked in `accept` sees the event late; joins that time out; order of TCP and UDP start | shutdown ends; UDP faces are served |
| **Bot connection** `client/client.py` 177-367, 484-873, 1085-1153; `common/utils.py` 39-108 | the thread's locals: first frame, buffer, creds, detected face | greet, read, re-sniff, exchange loop, capture of a login, report; answer and report a datagram | late, split, missing or foreign frames; broken sends; caps on rounds; ports without a face | exactly one truthful report per connection or datagram, or none for a named reason |
| **HTTP dispatch** `handlers/routes/`, `handlers/router.py` 29-138, 166-242, `handlers/http_handler.py` 351-418 | the table of routes | match, scope by port, try handlers in order, fall back, report | over forty tables that overlap; handlers that raise after they recorded | the face a probe is meant for looks at it first and answers it |
| **HTTP services** `handlers/*_handler.py` | the profile of an address, see below | one answer per request | chains of conditions on path, method and fields; text encoded in Latin-1 | an answer for every request; what is captured is reported |
| **Router, handler instances** `handlers/router.py` 166-331, `base_handler.py` 171-267, `http_handler.py` | `_handler_instances`, an LRU of `BotProfile`s in each, shared by every connection thread | dispatch, find or create a profile, record, collect into a report, clear | threads overlap in shared instances; clearing at the end of any connection; eviction | nobody's activity in another's report; bounded caches; an own answer is reported |
| **Report queue and workers** `handlers/report_queue.py` 33-117 | `_report_queue`, its threads, the alive flag | create on first use, put, take, drain, re-create | creation race; a full queue; shutdown against puts and stuck sends | one pool; drained by workers that end; shutdown returns |
| **Report delivery** `client/report_sender.py` 17-126, `server/server.py` 131-263, `common/utils.py` 23-36 | reports in queue, worker, socket, server thread, dump files | send with retries, handle, insert, dump | a timeout racing a late answer; resends; server and sensor dying anywhere; contention | never two rows; an acknowledgement is durable; nothing is lost while nobody dies |
| **SQLite storage** `db/storage.py` 785-1144 | connection, write lock, `honeypot_bears` with `UNIQUE(bot_ip, timestamp)` | insert with retries, reads, retention, archive, integrity check | lock contention; several processes on one file | as above; retention never deletes what was not archived |
| **PostgreSQL storage** `db/storage.py` 1590-1868, 2286-2455 | one shared connection with its transaction, a lock that does not cover reconnects | insert, reset, reconnect, dump; retention, archive | aborted transactions; dead backends; threads replacing the connection under each other, or using one that is not initialised yet | an insert that returned stored its row; recording recovers after an outage; inserts end |
| **Dashboard server** `web/dashboard.py` 66-94, 456-956, 980-1161 | payload cache, page cache, `_PRIMED` | refresh in the background, serve cached, build on demand | refresher and requests fill the same caches; a build that raises; scope of what is cached | an answer is about what was asked; warm at start; pages catch up |
| **Dashboard data, rendering** `web/` | none | SQL aggregation, HTML | none: pure functions of the database | their text |
| **Geolocation** `common/geolocate.py` 93-311, `http_handler.py` 605-630 | cache with expiry, queue, worker thread, time of the last request | look up, queue, fill in the background or in the capture, expire, evict, stop | the worker racing synchronous lookups of the same address; a pace nobody locks; failures cached over answers; addresses taken for private | a report lacks its attribution only if a lookup of its address came to nothing or is never made |
| **Alerting** `common/alerting.py` 36-83, 314-422 | a lazily created pool | submit, deliver, shut down | creation race; shutdown against a late alert | an alert is tried once, unless the process is killed |
| **Metrics** `common/metrics.py` | counters under a lock | count, log a snapshot | none: every operation is atomic | the counts |
| **Bot profiles** `handlers/bot_profile.py` | history and dialogue with caps, behaviours, level, captures | record a request, an interaction, a login | calls of many connections in any order; caps | the level is that of the worst behaviour seen |
| **Other protocols** `handlers/{telnet,redis,rdp,vnc,mongodb}_handler.py`, `common/faces.py` | none | an answer per frame | byte formats | their answers |
| **Classification** `common/classification.py` | none | an allowlist of names | none | the table |
| **Configuration** `common/config.py`, `common/config_resolver.py` | module constants | environment over file over defaults | precedence, malformed numbers | the precedence |
| **Deployment** | | scripts, units, CI | not part of the running program | |

How they interact: a connection thread *calls* the router and its handlers,
*puts* one report on the queue and then clears the handler instances of
everybody; a worker *calls* `send_report`, which *talks TCP* with a thread of the
server process; that thread *calls* `insert` on the storage object all of them
share; the dashboard *reads* the database and never talks to the others; the
parent *signals* its children through `update_event` and `terminate()` and
learns of them through `is_alive()`.  The lockfile's descriptor is *inherited*
by every child.

## 2. The modules

Each component has a module of its own, with its state as variables and one
action per step that other threads or processes can see.  A step ends where the
code gives up a lock, blocks, talks to another thread or process, or writes
something they read.  Local computation in between is part of the step.

| Module | Models | Its counterpart |
|---|---|---|
| `ReportLedger` | the abstract promise about a captured report | |
| `ReportDelivery` | the path of a report from the connection thread to the row | instantiates `ReportLedger` |
| `InstanceLock` | the lockfile | |
| `Supervisor` | the loop and the `finally` block of `mfh.run` | |
| `Listeners` | the client's main thread and port threads | |
| `ReportQueue` | the life of the queue and its pool | |
| `BotConnection` | the thread of one TCP connection, or one datagram | |
| `SharedRouter` | the router and handlers shared by HTTP connections | |
| `HttpRequests` | requests, credentials and pages: the vocabulary of the handlers | |
| `CmsServices`, `AdminServices`, `InfraServices`, `ProbeServices` | the routes and the handler of every HTTP service | |
| `HttpDispatch` | the route table, the dispatch of one request, its report | composes the four above |
| `BotProfile` | the profile of one address | |
| `GeoLookup` | cache, worker and capture threads of the geolocation | |
| `AlertPool` | the pool that delivers alerts | |
| `PostgresWriter` | `PostgreSQLStorage.insert` with the making of its connections | |
| `Retention` | `delete_old_records`, `archive_old_records` and the inserts beside them, on SQLite | |
| `Dashboard` | refresher, request threads, caches | |
| `MCReportDelivery`, `MCStorage`, `MCService`, `MCSensor` | small instances for TLC | |
| `ReportQueueProofs`, `PostgresWriterProofs`, `SharedRouterProofs`, `DashboardProofs` | proofs about the module of that name | |
| `ReportDeliveryProofs` | proofs about `ReportDelivery`, and of `MCStorage` as a whole | instantiates the proofs about the writer |
| `CaptureProofs` | proofs about `BotProfile`, `GeoLookup` and `AlertPool` | instantiates the three |
| `ServiceProofs` | proofs about `InstanceLock`, `Supervisor`, `Retention`, and of `MCService` as a whole | instantiates the proofs about queue and dashboard |
| `SensorProofs` | proofs about `BotConnection`, `HttpDispatch`, and of `MCSensor` as a whole | instantiates the proofs about the router and `CaptureProofs` |

`MCService` puts six parts side by side that share no variable (lock, loop,
queue, listeners, archive, dashboard), `MCSensor` six (connection, router, one
HTTP request, profile, geolocation, alerts), and `MCStorage` two, the delivery to
SQLite and the inserts into PostgreSQL that stand in for it.  A behaviour picks one part at its
start and runs only that, so the state space is the sum and not the product of
theirs.

### ReportLedger and ReportDelivery

The ledger knows each report's `fate` as the sensor sees it and the set of
`durable` reports.  It says that a report is settled at most once and that
"acked" may be said only of a durable report.

`ReportDelivery` has the code.  `place` is where a report is on the sensor's
side; `queue` is `_report_queue`; `wpc`, `wrep` and `watt` are the step, the
report and the attempt number of each `_report_worker` inside `send_report`.
A TCP connection is named by the report and the attempt that opened it; `phase`
is how far the server's thread is with it, `tries` its failed inserts, `reply`
what the sensor's socket can read.  `rows` counts rows per report, so that a
second one would be seen.

| Code | Action |
|---|---|
| a capture reaches `_enrich_and_send_bear`; `queue.put` | `Capture`, `Put` |
| `_report_worker`: `q.get` | `Get` |
| `send_report`: connect and sendall, or `socket.error` | `Connect`, `ConnectFails` |
| `recv`: timeout after 10 s, reset, data or end of file | `RecvTimesOut`, `RecvReset`, `RecvReturns` |
| backoff sleep; dump after the last attempt | `NextAttempt`, `SensorDump` |
| `server.main`, `_handle_client`, `process_request` | `Accept`, `Receive`, `RejectMessage`, `Reply` |
| `SQLiteStorage.insert`, `save_data`, `dump_file` | `Insert`, `InsertLocked`, `InsertRaises`, `InsertSkipped` |
| the processes die, the server is restarted | `ServerCrash`, `ServerRestart`, `SensorStop` |

`StoreFaults`, `BadMessages`, `DumpFaults`, `MaxCrashes` and `MaxStops` say which
faults a run allows.  What a dying server's kernel leaves its peers is modelled
by TCP's rule: with unread data a reset, otherwise an orderly end of file.

### InstanceLock

A lockfile *inode* is named by the start that created it, `path` is the inode
`LOCKFILE` names now, and `locked` are the starts whose open file description
holds the flock.  Forked children share the description, so a killed parent's
lock outlives it (`Kept`).  `_acquire_lockfile` is `Open`, `Flock` or `Refuse`,
`WritePid`; `_release_lockfile` is `Unlock`, `Close`, `Unlink`, each a step on
its own because another start can come in between.

### Supervisor

Time is counted in passes of the loop, which sleeps a second per pass.  `at` is
whom the loop looks at next; `SeenAlive`, `CoolDown`, `Respawn` and `GiveUp` are
the four ways through `_maybe_restart` and its caller; `Sleep` ends a pass.  A
restart is two steps, `Respawn` (`new_proc.start()`, 242) and `Keep` (243-246), because
Ctrl-C may come between them: `started` is the child that runs while `procs`
holds its dead predecessor, which is what the `finally` block then terminates.
`Interrupt` (Ctrl-C) leads to the `finally` block from anywhere in the loop.
`silent`, the passes since a child was last seen alive, is not in the code: it
times the outage the properties are about.  `Backoff` is the cooldown of a restart,
`BASE * 2**attempts` up to its cap; its power of two is the recursive function `TwoTo`.

### Listeners

`main` is the program counter of the client's main thread.  A port thread looks
at `update_event` only between two accepts (`Check`), and can be `receiving` when
it is set.  TCP accepts have no timeout, UDP reads have one (`TimeOut`).

### ReportQueue

Workers belong to numbered pools, each with its own queue, because a queue that
was forgotten goes on living in the local variable `q` of a thread.
`_get_report_queue` is `LookUp` without the lock, `LookUpLocked` with it, `Enable`,
then `StartWorker` and `List` for each worker, and `Return`, which reads the global
once more (80).  `shutdown_report_executor` is `Stop`, `Snapshot`, a `Join` per worker
that may time out, `Forget` and `Clear`; it takes no lock before `Clear`, so any of its
steps may fall between any two of a lookup.  A thread may therefore be left with
None, on which its caller raises (`failed`), or with the queue of a pool that has
ended; a shutdown may find the queue there and its flag not yet set, and do
nothing, or find workers that are not yet listed.  `ParentStop` is what the parent really does: it terminates the process
that owns the queue and then shuts down its own, which was never created.

### PostgresWriter

Every line of `insert`, `_ensure_connected`, `_init_db` and `_reset_conn` that reads
or writes `self._conn`, and every call made on a connection, is a step: `Reads` binds
the connection the storage has at that moment (`held`), the next step makes the call
on it.  `_init_db` publishes a connection (`Open`) before it creates the schema on it
(`Tables`, `Create`, `Index`, `Indexing`) and commits whatever connection the storage
has by then (`ReadToPublish`, `Publish`), so threads insert on half-initialised
connections, commit for each other, and may have several connections in use.

A connection has a link (open, dead, closed) and a transaction (none, begun, begun
with the table locked for an index, aborted) with its `pending` rows; a commit makes
the rows pending *on the connection in hand* durable, which is how a row can be
lost.  Of psycopg2 there is the mutex of a connection (`Free`: one statement at a
time) and its closing when nothing refers to it (`Unused`); of PostgreSQL, that
CREATE INDEX waits for the uncommitted rows of other connections and an INSERT for
their uncommitted index (`WaitsFor`), and that of two statements waiting for each other
one is failed (`Deadlocked`; that takes more than the two calls of run `delivery_kept`,
so only the proofs cover it).  A wait of a statement for a transaction whose *thread*
waits for the statement's mutex is a cycle the database does not see.  A backend
may be dropped at any moment (`DropBackend`), a connect refused, and a record may be
one the database rejects (`bad`).  `alone` and `calm` are not in the code: they say
what overlapped a call.

### BotConnection

Bytes are abstracted to what the code tells apart: what protocol a frame looks
like and which halves of a login (user, password) it carries.  Faces are
abstracted to the ways through `_handle_bot_connection` (see the module).  The
kinds `udp` and `faceless` are datagrams (`ServeDatagram`, `DropDatagram`): of
the fifteen UDP ports that are opened by default (`ports.py` 69-85) two have a face
(`faces.py` 1241), and what comes to the others is dropped.  `first` is the first frame, `buf` and `creds` the locals of
`_capture_credentials`, `rounds` the frames read so far, `lost` whether a
`sendall` failed.  `heard` and `seed` remember what the peer sent, to compare
the report with.

The faces that extract a login are three kinds, because their extractors are not
alike (`Extracted`).  Those of FTP, POP3, MySQL and MSSQL (`text`) return a string that
has a half once the buffer offers it: a later `USER` replaces the name of an earlier
one, but does not blank it.  IMAP's (`tagged`) lets a `LOGIN` later in a line undo that
line; Telnet and RDP (`pair`) return a tuple, which never counts as complete, loses its
password when a user name follows it (RDP), and raises in `_complete` when an element
is just `:`, which the caller swallows together with the login (`PairSplit`).

### SharedRouter

A handler instance is named by the route and the connection that created it, a
profile by its instance and its creator, so that an instance that has been
cleared and made again is a different one.  `cache` is the LRU order of an
instance's `bot_profiles`.  `Match`, `LookUp`, `RecordRequest` and
`RecordInteraction` are one dispatch; `Snapshot`, `Collect` and `Send` build the
report; `Close` clears the instances of *every* connection, as the `finally`
block of `_handle_bot_connection` does.  `Raise` is a handler that fails, after
which the next matching route is tried.  A report has one entry per domain
(`DomainOf`), and of two instances of a domain, which the tables of many services
have, the later in the dictionary overwrites the earlier (`Collect` goes through the
snapshot in the order of `older`).  An instance that is no longer in the
dictionary lives while a thread refers to it (`Referred`).

### HttpRequests, the four service modules and HttpDispatch

A request is a record of what the handlers ask about: its path, the kind of
`%`-escape at its end, its method, the names of its form fields, the telling words
in its headers and body, the authorization, the port.  Every handler is one
operator from the request to an answer: which of its pages it gives (the first of
a chain of conditions in the order of the code, `...Page` and `FirstOf`), with which
status and media type, how often it records the request, whether it captures a login, and whether
it raises.  The text of a page is abstracted to its name, except where it decides
something: a page with a character that ISO-8859-1 has not raises when it is
encoded.  Each `...Routes` is the list of routes of one service, as in
`handlers/routes/`.

`HttpDispatch` has the table in the order of `routes/__init__.py`, the matching of
`PathExact`, `PathPrefix`, `HighEntropyPath` and `Any`, the scoping to ports, and
one request on its way: `Extract` (the login, before the dispatch), `HandlerAnswers`
or `HandlerRaises` for the next matching table, `FallBack`, `Report`.  `AnswerOf` is
what a handler's outcome shows to the bot, `Fallback` the page of
`protocol_responses.py`.

### BotProfile

One action per operation, each under the profile's lock from beginning to end.  A
request is the set of signs it is recognised by (a word of a pattern list, `..`
twice, a POST to a login, a path of a list).  A call's number names its request.

### GeoLookup

A capture thread whose address starts like a private one (`Skipped`) makes no lookup
at all (`Skip`, `BackfillSkip`).  Any other asks the cache (`Hit`, `Miss`), starts the worker if there is
none (`Start`), queues its address (`Put`) and then looks it up itself
(`Backfill`).  Worker and captures share `_do_geo_lookup`: `Pace`, then `Answered` or
`Failed`, then `Stamp`, with the steps of others in between.  Time is kept as what
is left: `left` of an entry, `since` the last lookup, the `nap` of a thread.
`stop_geo_worker` (`StopWorker`), which only tests call, leaves a worker that reads
the queue of its successor, as in the code.

### AlertPool

Pools are numbered; `current` is `_alert_executor`.  `_get_alert_executor` is three
steps (`LookUp`, `Create`, `ReRead`), because it holds no lock.  A pool that was
overwritten or forgotten goes on delivering (`Take`, `Deliver`).
`shutdown_alert_executor` is `Stop`, `Clear`, `Close`, `Join`.  `ParentStop` is what
the supervisor does: it terminates the process with the pool and then drains its
own, which was never created.

### Retention

`table` and `archive` are what is committed, `doomed` what the open transaction of
each process has deleted, `open` who holds the lock of the database.  A call of
`archive_old_records` is `StartArchive`, `ReadOld`, `Copy` or `CopyFails`, `Delete`,
`Commit`; every one of its later steps may fail (`Fails`) and leaves the
transaction open, which the next `Insert` of that process commits.  A crash rolls
it back.  Archives of different days are one: which file a row is in is not
distinguished.

### Dashboard

`polled` and `pages` are the payload and page caches by range; an entry has the
filter it was built for, its age up to the bound past which it is not served,
and, for a page, how many captures it counts.  `BuildShared` to `EndPass` are the
refresher's pass; `Request`, `Build` and `Store` a request thread.  What a request may
restrict the log by is of two sorts: the `Scopes` (ip, host), and the `Searches`
(search, method), which the fallback of `_scoped_payload` on a cold cache does not
pass on (`BuiltFor`).

## 3. The runs

| Run | Module, configuration | States | What it shows |
|---|---|---|---|
| `delivery_faults` | `MCReportDelivery`, `DeliveryFaults` | 3.48 M | with every fault, a death of the server and one of the sensor among them, a report is in one place (`OnePlace`) and has at most one row (`AtMostOneRow`) |
| `delivery_kept` | `MCStorage`, `DeliveryKept` | 927 k | on SQLite, with contention, timeouts and a server death: an acknowledged report is durable (`AckIsDurable`), nothing is lost while nobody dies (`NothingLost`), the code implements the ledger (`LedgerSpec`), backpressure ends (`ReportsSettle`); on PostgreSQL: an insert nobody overlapped stores or dumps (`AloneIsKept`), no earlier failure spoils a later insert (`RecordingRecovers`), and an insert ends unless it waits behind a statement for the transaction of another connection (`EveryInsertEnds`) |
| `delivery_restart` | `MCReportDelivery`, `DeliveryRestart` | | violated: `RestartLosesNothing` |
| `service` | `MCService`, `Service` | 372 k | lock, loop, queue, listeners, archive and dashboard, see below |
| `lock_orderly` | `InstanceLock`, `LockOrderly` | | violated: `OneInstance` |
| `store_lost` | `PostgresWriter`, `StoreLost` | | violated: `ReturnedIsStored` |
| `udp_late` | `Listeners`, `ListenersUdp` | | violated: `UdpRidesAlong` |
| `sensor` | `MCSensor`, `Sensor` | 1.92 M | connection, router, HTTP dispatch, profile, geolocation and alerts, see below |
| `late_frame` | `BotConnection`, `SensorLateFrame` | | violated: `EmptyMeansSilent` |
| `answer_cleared` | `MCSensor`, `SensorCleared` | | violated: `AnswerIsReported` |
| `probes_reported` | `BotConnection`, `ProbesReported` | | violated: `ProbesReported` |
| `scope_served` | `Dashboard`, `ScopeServed` | | violated: `ScopeServed` |

`service` checks, of the lock, that until an orderly end only one instance has
processes at work (`OneActive`) and that pids and owners agree (`OwnFile`); of
the loop, that an outage is bounded (`OutageBounded`), the guard trips at one
moment only (`GivesUpAfterFullOutage`), a dead child is restarted
(`DeadIsRestarted`) and none is left but one whose restart Ctrl-C cut short
(`NoChildLeft`); of the queue, that concurrent first uses make one pool (`OnePool`),
that workers which end by themselves have sent what was pending at the stop
(`DrainedByExit`) and that the shutdown returns (`ShutdownReturns`); of the listeners,
that the main thread returns (`MainReturns`); of the archive, that no row is lost
that was not to be dropped (`RowsSurvive`); of the dashboard, that a fragment is
about the ip and host that were asked for (`FragmentAsAsked`), that the first visitor
meets a warm page (`WarmAtOpen`) and that the page catches up (`PageCatchesUp`).

`sensor` checks, of a connection, that it is reported or has a named reason not
to be (`AccountedFor`; one of the reasons is a disagreement, see `ProbesReported`),
that a foreign first frame is never a login (`MismatchIsNoLogin`), that what the
first frame offered of a login is in the report, on the faces whose extractor never
gives a half up (`SeedKept`),
and that its thread ends (`ThreadEnds`); of the router, `NoForeignActivity`,
`CacheIsLRU` and `AloneReportsItself` (a connection that overlaps no other reports
exactly what it did, with nothing left over from those before it); of the HTTP
dispatch, that a probe is looked at by the face the comments of the route table
give it to (`PolicyHolds`), that this face also answers it, but for three named
kinds of request that make handlers raise (`OwnFaceAnswers`), and that a login a
handler captured is in the report, but for two products with field names of their
own and logins in a header (`CaptureIsReported`); of a profile, `LevelIsWorst`; of
the geolocation, that a report goes without attribution only if a lookup of that
address came to nothing within the TTL before, or none is ever made for it
(`AttributedUnlessRefused`); of the
alerts, that each is in the hands of one pool or was tried once, and that a
shutdown empties the pool it saw (`AlertsKept`).

### Bounds, and why they are enough

- *Delivery*: two reports and two workers are the least with which a report can
  be duplicated, swapped or starved; a queue of one slot is full after one put
  (100 in the code); two attempts (5) give one retry, so two copies of a report
  can meet in the server; two insert attempts give one retry under contention.
  One process death may fall between any two steps, and after it the rest of
  the behaviour is unrestricted.  `SYMMETRY` over reports and workers is used in
  the safety run only.  More than one of each is covered by the proofs.
- *Lock*: three starts, because the hazard needs one that ends, one that slips in
  and one that comes after.
- *Loop*: two children, three restarts (10), cooldowns of 2, 4, 4 passes
  (2 to 30 s): the backoff both grows and saturates before the guard trips.
- *Queue*: two producers on one slot and two workers: the producers can race for
  the creation, or one be blocked while the other looks the queue up; two pools,
  because a lookup can find the queue forgotten once, the shutdown coming once.
- *PostgreSQL*: two writers, two faults; four connection names, and one that nothing
  refers to is used again.  The two calls differ in nothing, so if one has a record that
  the database rejects it is the first.
- *Listeners*: two ports of each kind.
- *Archive*: two rows, so that one can be copied and the other not; two
  processes, so that one can hold the lock, or crash, under the other.
- *Connection*: three rounds (64) and two login frames (16), so that a cap can be
  reached in the middle of an exchange; the first frame, halves of a login and
  broken sends are enumerated.
- *Router*: three connections of two addresses, two at a time, two routes and a
  cache of one profile (1000): eviction needs two addresses, sharing needs two
  connections at once, and leftovers need one that comes later.  Of the two connections
  of one address, which differ in nothing but their name, `first1` is served first.
- *HTTP dispatch*: every path and prefix of the route table, and others for what the
  table matches by pattern, times some two dozen kinds of sender: plain, with each kind of
  escape, on a port in and out of scope, with a form of the common field names and
  of the odd ones, a list or a call in JSON, and so on.  All 12 k requests are initial
  states, so this part is exhaustive for them.
- *Profile*: five calls against caps of two (500), so that entries are evicted and
  behaviours come in every order.
- *Geolocation*: two captures of three addresses, one of them skipped, a cache of one entry (10,000) so that
  every lookup evicts, a TTL and a pace of one tick (24 h, 1.33 s), one stop, so
  that two workers can serve one queue.
- *Alerts*: three threads, three pools, one worker each (8): two threads can create
  a pool each while the third finds the pool shut down.
- *Dashboard*: two ranges; no filter, or one with a scope and a search; one request
  thread, which asks for the default range, beside the refresher; one capture, one
  failing build; an entry is stale after a tick.  The other range is there for the
  order of the refresher's pass; a request for it would meet nothing new, since the
  caches of the ranges are independent, and `DashboardProofs` has any number of each.

### Fairness

- Threads that are not blocked are scheduled: weak fairness of each worker,
  producer, server thread, writer and of the refresher.
- What the code bounds by a timeout ends: reads of a connection (`BotConnection`),
  the joins of a shutdown (`Joining`), the sensor's `recv`.
- A dead server is restarted in `DeliveryKept` (`WF_vars(ServerRestart)`): that is
  what `Supervisor` shows, and what systemd does if the supervisor gives up.
- Nothing obliges a bot to connect or to speak, a process to die, a fault to
  happen, Ctrl-C to come, an accept to return or, in `ReportQueue`, a send to end.
- Writers waiting for `self._lock` need only weak fairness of `Step`: each writer
  takes the lock a bounded number of times.

- `EveryInsertEnds` allows for a wait that the database does not end (section 4): no
  fairness gets an insert past it.

`Quiet`, `Done`, `Stopped`, `Over`, `Closed`, `Gone`, `Finished` and `Rest` are the
stuttering steps of a system that has come to rest; deadlock is checked in
every run.

## 4. Findings

Each one is a line of the repository that the code beside it does not keep,
with a counterexample from TLC.

| Run | What is said | What happens |
|---|---|---|
| `delivery_restart` | `report_sender.py:84`: retries "to handle server restarts" | a server that dies after reading closes in order; `recv` returns `b''`, which takes the path of success: neither retried nor dumped |
| `lock_orderly` | `mfh.py:36`: "prevent multiple instances" | the file is unlinked by name after it was unlocked (77-79): a start in between owns an inode no later start can see |
| `late_frame` | `client.py:765-766`: stamped EMPTY_CONNECTION when "the whole exchange captured nothing" | line 769 tests the first frame only: a late speaker is served, logged in and stamped empty |
| `answer_cleared` | `router.py:150-152`: state "survives within a single connection" | any connection's end clears the instances of all (`client.py:584`), and a report collected after it lacks its own dialogue |
| `store_lost` | `storage.py:1819-1822`: a failed insert is dumped, never lost | `self._conn` is replaced outside the lock, so `commit` (1834) can go to another connection than `execute` (1833): the insert returns and its row is nowhere |
| `probes_reported` | `http_handler.py:310-311`: "The caller must send the report" of a probe of another protocol on an HTTP port | `client.py:558-570` sends it only if the answer is interactive: a TLS or SIP probe is answered, its capture built and thrown away |
| `scope_served` | `dashboard.py:864-866`: a scope's payload is "never served to a different filter" | the page cache is keyed by the range alone (1058, 1071) |
| `udp_late` | `client.py:1042`: UDP faces "ride along" | the TCP call returns at shutdown only, so no UDP port is opened while the client serves |

Shown by the models, and the reason why a property is weaker than one would wish:

- *A child can outlive the service.*  Ctrl-C between `new_proc.start()` (`mfh.py:242`) and
  `procs[key] = new_proc` (243) leaves a child that the `finally` block (277-278) does
  not know; `NoChildLeft` excepts it.  (Python joins children that are not daemons at
  exit, so the parent then waits for it.)
- *A late or early lookup of the report queue.*  A shutdown between the check (66) and
  the `return` (80) hands a thread None, and its report is lost with the exception; one
  that comes before any worker has looked up the queue returns with the queue
  abandoned, and a report that is queued after the flag was cleared may find no worker
  left.  `DrainedByExit` speaks of the rest.  In the service the shutdown is called in
  another process than the one with the queue.
- *An insert that never ends.*  After an outage two threads connect.  One inserts on
  the connection of the first and holds `self._lock`; the other's CREATE INDEX
  (`storage.py:1688`) waits for that uncommitted row; but `self._conn` is by now the
  connection the CREATE INDEX runs on, so the first thread's `commit` (1834) waits for
  its mutex, and every later insert for the lock.  Or the other way round: an INSERT waits
  for the lock of an uncommitted CREATE INDEX, whose thread's `commit` (1691) goes to the
  connection that the INSERT keeps busy.  PostgreSQL sees one wait and no cycle.  TLC
  finds counterexamples to `InsertsEnd` (put it in `StoreLost.cfg` as a PROPERTY), against `storage.py:1700-1702`
  (an outage "should not permanently break recording"); `EveryInsertEnds` shows that
  this wait is the only way not to end.
- *Lost halves of a login.*  IMAP, Telnet and RDP can lose what an earlier frame offered
  (see `BotConnection`); `SeedKept` is about the faces that cannot.
- *Public addresses taken for private.*  "Private/reserved IPs have no meaningful geo data"
  (`geolocate.py:295`), but the test (120, 296) is `startswith('172.')`: 172.0.0.0 to
  172.15.255.255 and 172.32.0.0 on are public, and their captures go out without
  attribution; `AttributedUnlessRefused` excepts what is skipped.
- *A filter dropped.*  `_scoped_payload` on a cold cache builds without `search` and
  `method` (`dashboard.py:954-956`), though it says it returns the payload for them (925):
  the log comes unfiltered.  `FragmentAsAsked` is about ip and host, and says that
  nothing else than what was asked restricts a fragment.  The cache it needs is
  usually cold, see *Dashboard* below.
- *One report entry per domain.*  Hundreds of routes share a domain, and
  `get_all_profiles_for_ip` (`router.py:329-330`) keeps the last one's profile only: what a
  connection asked of another service of that domain is not in the report.
  `AloneReportsItself` is about the interaction that was answered, which comes last.

Observed while reading, and below the abstraction of the models or promised
nowhere:

- *Storage.* The Telnet and RDP extractors return a login as a tuple
  (`client.py:854`), which SQLite cannot bind, so the whole INSERT fails and is only
  logged (`storage.py:953-957`; `InsertSkipped`).  A `delete_old_records` whose commit
  fails returns 0 but leaves its transaction open, and the next insert commits
  it (1026).  The PostgreSQL archive (2370) passes the parameters of its query as the
  buffer size of `copy_expert`: every call raises a TypeError after the file of
  the day was truncated.  Neither has a caller in the service.
- *Processes.* One healthy poll resets the restart count, so a child that takes over
  a second to crash is restarted forever (`mfh.py:258-259`).  The parent drains its
  own, empty report queue and alert pool after it has terminated the client that
  owns the real ones (279-287), although a comment says that alerts "aren't killed
  mid-send on restart".
- *HTTP services.* Tomcat's page for a refused login has a dash that its encoding
  lacks (`tomcat_handler.py:323-347`), so a captured login is answered by
  another product; Zabbix raises on a JSON-RPC batch, and WordPress, Next.js, Squid and
  the generic traversal page on a path outside Latin-1 (`OwnFaceAnswers` names these
  and shows that there are no others among the requests enumerated).  `/` is
  RabbitMQ's on every port.  Over fifty routes can never answer, because an earlier
  table has their paths.  Several handlers record a request twice.  Five of them
  send `\r\n` as four characters.
- *Geolocation.* A failed lookup does not count for the pace, and threads that look
  up at once do not see each other, so "Rate limiting is respected"
  (`geolocate.py:285`) does not hold.  The worker looks up again what the capture has
  just looked up.  `bearstorage.py:78` sets the socket timeout of the whole process
  around a call that ignores it.
- *Profiles.* Past the cap every dialogue entry has the same number
  (`bot_profile.py:153`); captured logins are not capped.
- *Dashboard.* The live poll's payload key is never refreshed in the background
  (`dashboard.py:836` against 937, 948), so only requests keep it fresh.

## 5. The proofs

The theorems hold for every value of the constants that the named assumption
allows.  Each follows the same argument: an inductive invariant holds initially
and is kept by every step (a lemma per group of actions, a step per action), and
implies the property.

| Module | Theorem | Assumes | Inductive invariant, and why the property alone is not enough |
|---|---|---|---|
| `ReportDeliveryProofs` | `TypeCorrect` | `DeliveryAssumption` | `TypeInv` adds `WorkerInv`: a worker away from `q.get` holds a report, and one that sleeps has attempts left; without it `watt + 1` may leave its range |
| | `OnePlaceHolds` | same | `OnePlace` is inductive relative to `TypeInv` |
| | `AtMostOneRowHolds` | same | inductive relative to `TypeInv`; rests on INSERT OR IGNORE |
| | `AckIsDurableHolds` | INSERT fails by contention or by what `save_data` dumps; dumps can be written | `AckInv`: a server thread that is about to say 200, and a socket that holds one, mean that the report is kept already |
| | `NothingLostHolds` | same, and no message is rejected | `LossInv`: while no process has died a socket never holds anything but a 200, so that a worker settles its report as acknowledged or, after its last attempt, as dumped |
| | `ImplementsLedger` | that of `AckIsDurableHolds` | `RefInv` = `TypeInv`, `OnePlace`, `AckInv` and `ConnInv` (a report with a connection has been captured): each step maps to one of the ledger's or to a stutter |
| | `StorageAloneIsKept`, `StorageRecordingRecovers` | `StorageAssumption` | what the writer keeps alone, below |
| `ReportQueueProofs` | `OnePoolHolds` | `QueueAssumption` | `PoolInv`: until a shutdown has forgotten it, the current pool is the only one that was ever created, and after that one more is created at most and stays; `ThreadInv`: the queue a thread holds is that of a pool that exists |
| | `DrainedByExitHolds` | same | `DrainInv`: what was pending at the stop is sent, being sent by a worker that took the first queue (`Crew`), or in that queue, and not in the queue any more once such a worker has found it empty; `ItemInv`: what is queued later comes from other threads; `FlagInv`: no worker ends before the stop, though the flag is set after the queue is published |
| `PostgresWriterProofs` | `AloneIsKeptHolds` | `WriterAssumption` | `SoleInv`: nobody takes the connection away between the steps of an insert that runs alone, those of `_init_db` included, so that it commits the transaction its row is in; `WaitsInv`: its row waits for a commit nowhere else |
| | `RecordingRecoversHolds` | same | `CalmInv`: the retry is made on a connection that was opened for it and that no fault ends, whatever the first attempt found |
| `DashboardProofs` | `FragmentAsAskedHolds` | `DashboardAssumption` | `PlainInv`: the payload cache holds payloads without a filter only, and everything but a plain fragment is built for its own ip and host |
| | `WarmAtOpenHolds` | same | `WarmInv`: the refresher is done with the default range only when its page is stored or its build has raised; a page is replaced, never dropped |
| `ServiceProofs` | `OwnFileHolds`, `OneActiveHolds` | `LockAssumption` | `LockInv`: who is at work owns the lock (`OwnerInv`), and until the first unlink every open descriptor is of the file that `LOCKFILE` names (`OpenInv`), so that there is one file to own |
| | `OutageBoundedHolds`, `NoChildLeftHolds` | `SupervisorAssumption` | `LoopInv`: `OutageInv` relates the passes unseen to the restarts made and to the passes since the last one, with one pass of slack until the loop has looked at the child; `KeepInv` carries what called for a restart over to the step that books it; `EndInv` says that the `finally` block undoes none of its own work |
| | `ServiceGivesUpAfterFullOutage` | `ServiceAssumption` | `ExactInv`: the passes a child has been silent are, to the pass, the sum of the cooldowns of its restarts (`CooldownsUpTo`) and the time since the last one, as long as the loop has not seen it alive; `OutageInv` bounds them from above only |
| | `RowsSurviveHolds` | none | `RowsInv`: a call that is about to delete has chosen archived rows only (`ChosenInv`), what an open transaction has deleted is archived or was to be dropped, and only who holds the lock has deleted anything (`DoomedInv`), so that a commit concerns its own rows |
| | `ServiceOneActive` and the other `Service...` | `ServiceAssumption` | what each part keeps alone, below |
| `SharedRouterProofs` | `NoForeignActivityHolds` | `RouterAssumption` | `AddressInv`: what a profile holds, and what a thread holds of one, came from the address the profile was created for, evicted or not |
| | `CacheIsLRUHolds` | same | `CacheInv`, with lemmas on what `Touched`, an eviction and an insertion make of a sequence without an address twice |
| | `AloneReportsItselfHolds` | same | `SoloInv`: a connection that was never accepted has left no trace (`Unrun`), nobody served means no instances (`Quiet`), and a connection alone owns every instance it meets (`Solo`), of which the one that answered was created last (`Latest`), so that its profile is the last to be collected and no other overwrites it (`LookedAtLast`, `Told`) |
| `CaptureProofs` | `LevelIsWorstHolds` | `ProfileAssumption` | `BotInv`: the level is that of a behaviour detected, and no lower than that of any |
| | `AttributedUnlessRefusedHolds` | `GeoAssumption` | `GeoInv`: an empty cache entry is backed by a refusal of its address that is no older (`Backed`), through expiry, eviction and overtaking lookups; a capture that has its result has it attributed or excused, by such a refusal or by an address that is skipped (`Settled`) |
| | `AlertsKeptHolds` | `AlertAssumption` | `AlertInv`: an alert is with its thread, or with one pool (in the queue or with a worker, not in both), or tried once (`OneHome`); the pool a shutdown found takes nothing once it is closed (`ClosedInv`) |
| `SensorProofs` | `AccountedForHolds`, `MismatchIsNoLoginHolds`, `SeedKeptHolds` | none | `ConnInv`: what the thread knows at each point: nothing is reported before the end (a datagram is reported in one step), only a face that extracts and has seen no other protocol ever captures, and while it does the first frame's login is in the buffer, and in the login too where the extractor gives no half up |
| | `ThreadShrinks` | `SensorAssumption` | each step of a connection thread makes the measure `Left` smaller: the points the thread may still pass, and the rounds and login frames left to its two bounded loops (from `ConnectionTypeOK`, by one case per action) |
| | `OwnFaceAnswersHolds`, `CaptureIsReportedHolds` | none: for every request, not only those enumerated | `HttpInv`, on the lemma that every handler is `Fair`, below |
| | `DispatchIsInTableOrder`, `ElasticIsScoped`, `PolicyIsOfTheTable` | none: for every request | `InTurn`: what was tried stands before what was not and has raised (`TriedInOrder`), the first to raise is the first that matched (`FirstMet`), and an answer given is that of the first willing table (`Answering`) |
| | `ReportIsOfTheRequest` | none: for every request | `ProfilesOfTried`: the profiles are those of the matching tables that were tried, in every stage; on top of `InTurn` |
| | `SensorTypes` | `SensorAssumption` | `HttpTyped`: once answered, a request has an answer of a service that the table names; rests on the lemmas about handlers and tables, below |
| | `SensorCacheIsLRU` and the other `Sensor...` | `SensorAssumption` | what each part keeps alone, below |

Every module also proves the types of its state (`QueueTypeOK`, `WriterTypeOK`,
`DashboardTypeOK`, `RowsTypeOK`, `RouterTypeOK`, `ProfileTypeOK`, `GeoTypeOK`,
`AlertTypeOK`, `ConnectionTypeOK`); `ServiceTypes` and `SensorTypes` those of the whole
service and the whole sensor.

*The HTTP services.*  A handler is `Fair` to a request if it captures a login only
where the connection's own extraction finds one (or the login is in a header, or in
the fields of two named products), and raises only on the three kinds of request
that `OwnFaceAnswers` names.  The handlers choose their page by a chain of
conditions; `FirstHolds` says that the page chosen had its condition hold, provided
no other link of the chain has that page (`Chain`).  With it every handler of the table
is shown to be fair (`ContentFacesAreFair`, `ConsolesAreFair`,
`InfrastructureIsFair`, `ProbeFacesAreFair`), for any request whatsoever; that the
route table names only services with a handler (`Serving`) carries this to the
dispatch.

*The dispatch as a function.*  `Router.dispatch` is a loop with an `except` in it;
`DispatchIsInTableOrder` says what it computes: the answer is `AnswerTo(request)`, that of
the first matching table whose handler does not raise, or the fallback, and the first
face is `FaceOf(request)`, that of the first matching table.  `ReportIsOfTheRequest` does
the same for the report: the profiles in it are those of the tables up to the one that
answered, and of no other.  Two lemmas carry the table's data: every handler gives
itself the name under which the table has it and records a request at most twice
(`HandlersStandForThemselves`), and every table is `WellFormed`: its service has a
handler, its prefixes are finitely many (so that the routes that match can be counted),
and it is scoped to the ports of Elasticsearch if it is Elastic's.  `ElasticIsScoped`
follows for every request there is, where `sensor` asks its 12 k.

*The outage, to the pass.*  `GivesUpAfterFullOutage` compares the silence of a child with a
sum that is defined by recursion.  The library's induction and recursion theorems take
an operator as a parameter, so `ServiceProofs` proves its own from well-foundedness
(`WFMin`): `Induction` over the *set* of numbers for which something holds, and `Recursion`,
that a function defined by a step from its predecessor exists and satisfies its equation.
`TwoToRecursive` and `CooldownsAddUp` are instances.  This is why `TwoTo` and `CooldownsUpTo` are
functions rather than `^` and a fold, of which the provers have no definition.

*The parts together.*  `PartsRun` shows that in `MCService`, `MCSensor` and `MCStorage` a step
is one of the part that runs while the others stutter, so that each part behaves in
the whole as it does alone; `PartsAssume` that the assumptions of all parts follow
from that of the whole.  The theorems of the parts, through INSTANCE, then give the
properties that `service`, `sensor` and `delivery_kept` check.  The lemmas `QueueAgrees`,
`BoardAgrees`, `StoreAgrees`, `RouterAgrees`, `BotAgrees`, `GeoAgrees` and `AlertsAgree` say that the
instance in a proof module and the one that TLC runs are one.

`MCService`, `MCSensor` and `MCStorage` state the assumptions of the parts they contain
as `ASSUME`, and `ReportDelivery` its own, so that TLC evaluates every one of them.

Every safety invariant and every action property that a passing run checks is thus
also proved, but for one, of which all but the strings is:

- `PolicyHolds` says by whom each probe is met, that Elastic is met on its own ports only,
  and that random paths get a 404.  The second is `ElasticIsScoped`.  For the others
  `PolicyIsOfTheTable` shows that the dispatch, with its raising handlers and its scoping, adds
  nothing: the policy holds in a behaviour if and only if it can be read off the table for the
  request (`TableKeepsPolicy`).  That it can is a comparison of hundreds of strings, character by
  character, and to the provers a string is an atom; TLC makes it for all 12 k requests.

Only model-checked are the liveness properties (`ReportsSettle`, `DeadIsRestarted`,
`ShutdownReturns`, `EveryInsertEnds`, `MainReturns`, `ThreadEnds`, `PageCatchesUp`), which need
fairness and ENABLED, out of the prover's reach.  For `ThreadEnds` the bound behind it is proved
(`ThreadShrinks`): a thread that is scheduled cannot go on for ever.  The properties of the
violation runs do not hold.

Three limits of the provers show in the text.  They do not know that a string literal is
in `STRING`, so an answer is typed by `IsAnswer` (it is what the handler of its service made of the
request, or the fallback) rather than by a set of records of strings; `@@` and `:>` have
no definition there, so `recorded'` is written as a function; and a set given by its
elements is finite only by a lemma for its size (`FewAreFinite`), which the long tables are cut
into pieces for.

## 6. Not modelled, and why

- *Text*: the wording of pages, HTML, log lines and alerts is left out.  What a
  handler's page depends on, and where its text makes it raise, is modelled.
- *Dialogues of the other protocols*: each answer of the Telnet, Redis, RDP, VNC,
  MongoDB and smaller faces is computed from one frame, without state between
  frames: what is hard about them, when a frame is read and what becomes of a
  login, is in `BotConnection`; the rest is byte formats.
- *Classification*: a match of names against a data file, two fields of a report.
- *Metrics*: counters under one lock that nothing reads to decide anything.
- *Configuration*: read once at the start; its values are the constants here.
- *Dashboard data and rendering*: SQL aggregation and HTML, pure functions of the
  database; their freshness and scope are in `Dashboard`.
- *PostgreSQL retention and archive*: see section 4; not called, and an archive
  fails on its first statement in the same way every time.
- *Opening a storage*: schema creation and migrations are SQL of the start.  What a
  storage that could not be opened does to reports is `InsertSkipped`.
- *Libraries*: sqlite3, psycopg2, sockets and files appear as what the code sees
  of them (marked external in the map).
- *Time*: a timeout is a step that may always be taken where the code has one.
  Clocks that jump are not modelled.
- *Deployment*: shell, systemd units and CI are the environment; a restart by
  systemd is another start in `InstanceLock`.

## 7. The plan

Done, in this order: `ReportLedger` and `ReportDelivery` (the system's main
promise), the processes around it (`InstanceLock`, `Supervisor`, `Listeners`,
`ReportQueue`), the writers (`PostgresWriter`), the sensor (`BotConnection`,
`SharedRouter`), the readers (`Dashboard`); then the HTTP services and their
dispatch, datagrams, `BotProfile`, `GeoLookup`, `AlertPool` and `Retention`; proofs of
the safety invariants of all of them, alone and as parts of the service and of
the sensor.

The proofs cover every safety property of the passing runs, as section 5 says, with
`PolicyHolds` down to the strings of the table.  What could still be added:

- the liveness properties, with a prover that has ENABLED and the rules for fairness; the
  measures are those that bound the runs (attempts left, routes untried, restarts left);
- the dialogues of the binary protocols, frame by frame, if one of them comes to keep state
  between frames;
- the start of a storage (schema, migrations, what happens when it fails), of which
  only the outcome is in `ReportDelivery`;
- retention and archive of PostgreSQL, once something calls them.
