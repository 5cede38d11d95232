----------------------------- MODULE Listeners -----------------------------
(***************************************************************************)
(* The client process of client.py: main starts one daemon thread per TCP  *)
(* port, waits for update_event, and then starts one per UDP port; in      *)
(* single-port mode it serves the port itself.  A port thread looks at     *)
(* update_event between two accepts only, so it can be blocked in one when *)
(* the event is set; joins of threads have a timeout.                      *)
(***************************************************************************)
EXTENDS Naturals

CONSTANTS
  TcpPorts,
  UdpPorts

ListenersAssumption == TcpPorts \cap UdpPorts = {} /\ TcpPorts # {}

Ports == TcpPorts \cup UdpPorts

VARIABLES
  single,  \* port_mode is 'single'
  main,    \* where the main thread is
  event,   \* update_event is set
  port     \* where the thread of each port is

vars == <<single, main, event, port>>

TypeOK ==
  /\ single \in BOOLEAN
  /\ main \in {"starting", "waiting", "joining", "startingUdp", "serving",
               "over"}
  /\ event \in BOOLEAN
  /\ port \in [Ports -> {"new", "binding", "checking", "receiving", "ended"}]

Init ==
  /\ single \in BOOLEAN
  /\ main = IF single THEN "serving" ELSE "starting"
  /\ event = FALSE
  /\ \E p \in TcpPorts :
       port = [q \in Ports |-> IF single /\ q = p THEN "binding" ELSE "new"]

-----------------------------------------------------------------------------
\* The process ends with its main thread: the port threads are daemons.
Exit == main' = "over" /\ port' = [p \in Ports |-> "ended"]

Starting(p) ==
  \/ main = "starting" /\ p \in TcpPorts
  \/ main = "startingUdp" /\ p \in UdpPorts

Start(p) ==
  /\ Starting(p)
  /\ port[p] = "new"
  /\ port' = [port EXCEPT ![p] = "binding"]
  /\ UNCHANGED <<single, main, event>>

\* All TCP threads are started and joined for 5 seconds each, whether or not
\* they have bound their port by then.
AllStarted ==
  /\ main = "starting"
  /\ \A p \in TcpPorts : port[p] # "new"
  /\ main' = "waiting"
  /\ UNCHANGED <<single, event, port>>

\* The event, or a SIGINT to this process.
StopWaiting ==
  /\ main = "waiting"
  /\ main' = "joining"
  /\ UNCHANGED <<single, event, port>>

JoinsForever == \A p \in TcpPorts : port[p] = "ended"
\* Whether the last joins of the port threads return: they time out.
Joins == TRUE

StopJoining ==
  /\ main = "joining"
  /\ Joins
  /\ main' = "startingUdp"
  /\ UNCHANGED <<single, event, port>>

\* The UDP threads are started and joined for 5 seconds each: main returns.
Return ==
  /\ main = "startingUdp"
  /\ \A p \in UdpPorts : port[p] # "new"
  /\ Exit
  /\ UNCHANGED <<single, event>>

-----------------------------------------------------------------------------
\* A port that cannot be bound ends its thread only; in single-port mode, main.
Goes(p, to) ==
  IF single /\ to = "ended"
    THEN Exit
    ELSE port' = [port EXCEPT ![p] = to] /\ UNCHANGED main

Bind(p) ==
  /\ port[p] = "binding"
  /\ Goes(p, "checking") \/ Goes(p, "ended")
  /\ UNCHANGED <<single, event>>

Check(p) ==
  /\ port[p] = "checking"
  /\ Goes(p, IF event THEN "ended" ELSE "receiving")
  /\ UNCHANGED <<single, event>>

\* accept or recvfrom returns: the connection or datagram gets its own thread.
Receive(p) ==
  /\ port[p] = "receiving"
  /\ Goes(p, "checking")
  /\ UNCHANGED <<single, event>>

\* recvfrom has a timeout of a second; accept has none.
TimeOut(p) ==
  /\ p \in UdpPorts
  /\ port[p] = "receiving"
  /\ Goes(p, "checking")
  /\ UNCHANGED <<single, event>>

\* accept or recvfrom fails (too many open files, say): the thread ends.
Fail(p) ==
  /\ port[p] = "receiving"
  /\ Goes(p, "ended")
  /\ UNCHANGED <<single, event>>

-----------------------------------------------------------------------------
\* The parent's finally block sets the event, and then terminates the process;
\* Ctrl-C ends the one that serves a single port.
SetEvent ==
  /\ ~event
  /\ event' = TRUE
  /\ UNCHANGED <<single, main, port>>

Terminated ==
  /\ main # "over"
  /\ Exit
  /\ UNCHANGED <<single, event>>

Main ==
  \/ \E p \in Ports : Start(p)
  \/ AllStarted
  \/ event /\ StopWaiting
  \/ StopJoining
  \/ Return

Port(p) == Bind(p) \/ Check(p) \/ Receive(p) \/ TimeOut(p) \/ Fail(p)

Over == main = "over" /\ UNCHANGED vars

Next ==
  \/ Main
  \/ StopWaiting
  \/ \E p \in Ports : Port(p)
  \/ SetEvent
  \/ Terminated
  \/ Over

\* Only the main thread need go on: a bot need never connect, and an accept
\* without one never returns.
Spec == Init /\ [][Next]_vars /\ WF_vars(Main)

-----------------------------------------------------------------------------
(***************************************************************************)
(* Threads caught in an accept that no connection ends do not keep the     *)
(* main thread from returning once the event is set.                       *)
(***************************************************************************)
MainReturns == event /\ ~single ~> main = "over"

(***************************************************************************)
(* "UDP faces (SIP/SNMP/...) ride along in 'top' mode" (client.py:1042):   *)
(* they are up when main has started everything and waits.                 *)
(***************************************************************************)
UdpRidesAlong == main = "waiting" => \A p \in UdpPorts : port[p] # "new"
=============================================================================
