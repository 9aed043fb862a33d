------------------------------ MODULE Bootstrap ------------------------------
(***************************************************************************)
(* How a job comes up, and what a process that restarts meets.  Processes  *)
(* register with the scheduler (ADD_NODE); it answers when all have, and   *)
(* everybody connects to its partner in the container.  Servers report     *)
(* their network interfaces (REPORT_ETH) and, once all have, get those of  *)
(* their neighbours (REPORT_REPLY), with which they make their send queues.*)
(* Then the scheduler starts Route_Manager.                                *)
(*                                                                         *)
(* Messages to a process keep their order; the scheduler takes them in any *)
(* order.  An id stands for the container and role it belongs to, so a     *)
(* process that is not restarted has itself as id.  Heartbeats are taken   *)
(* by what they tell: a process that crashed is found silent, sooner or    *)
(* later.  PS_HEARTBEAT_TIMEOUT is set (without it nothing is found).  A   *)
(* process that restarts has another port (GetAvailablePort): what is sent *)
(* to the address it had before is lost.                                   *)
(***************************************************************************)
EXTENDS Integers, Sequences, FiniteSets, Bags

CONSTANTS
    Server, Worker,
    Own,              \* the server in the container of a worker
    Mortal,           \* processes that may crash
    MaxCrashes        \* bound: crashes altogether

Proc == Server \union Worker
None == "none"                                           \* Meta::kEmpty
Scheduler == "scheduler"
Peers(p) == IF p \in Server THEN Server ELSE Worker      \* of the same role

ASSUME BootstrapAssumption ==
    /\ IsFiniteSet(Server) /\ IsFiniteSet(Worker)
    /\ Server \cap Worker = {} /\ None \notin Proc /\ Scheduler \notin Proc
    /\ Own \in [Worker -> Server]
    /\ \A s \in Server : Cardinality({w \in Worker : Own[w] = s}) = 1
    /\ Mortal \subseteq Proc /\ MaxCrashes \in Nat

VARIABLES
    state,            \* of a process: "off", "asking", "ready" or "crashed"
    id,               \* my_node_.id
    partner,          \* the process in the same container is connected
    queues,           \* a server has its send queues: REPORT_REPLY came
    inbox,            \* messages to a process
    reports,          \* messages to the scheduler: a bag of [cmd, from]
    nodes,            \* the processes the scheduler knows
    ready,            \* of the scheduler
    recovery_nodes,
    num_report_eth,
    route_thread,     \* Route_Manager runs
    gone,             \* ids for which nobody beats: their process died
    silent,           \* ids without a recent heartbeat
    crashes,          \* crashes so far
    failed            \* a CHECK of the scheduler failed

vars == <<state, id, partner, queues, inbox, reports, nodes, ready, recovery_nodes,
          num_report_eth, route_thread, gone, silent, crashes, failed>>
processes == <<state, id, partner, queues>>
scheduler == <<nodes, ready, recovery_nodes, num_report_eth, route_thread, silent, failed>>
faults == <<gone, crashes>>

Init ==
    /\ state = [p \in Proc |-> "off"]
    /\ id = [p \in Proc |-> None]
    /\ partner = [p \in Proc |-> FALSE]
    /\ queues = [s \in Server |-> FALSE]
    /\ inbox = [p \in Proc |-> <<>>]
    /\ reports = EmptyBag
    /\ nodes = {} /\ ready = FALSE
    /\ recovery_nodes = <<>>
    /\ num_report_eth = 0 /\ route_thread = FALSE
    /\ gone = {} /\ silent = {} /\ crashes = 0
    /\ failed = FALSE

\* The scheduler has a connection to the process, and not to one before it.
Connected(p) == state[p] = "ready" \/ (state[p] = "asking" /\ inbox[p] # <<>>)
Tell(to, msg) == inbox' = [p \in Proc |-> IF p \in to THEN Append(inbox[p], msg) ELSE inbox[p]]
Receive(m) == reports' = reports (-) SetToBag({m})

-----------------------------------------------------------------------------
(* Processes. *)

\* Van::Start, for the first time or again.
Start(p) ==
    /\ state[p] = "off"
    /\ state' = [state EXCEPT ![p] = "asking"]
    /\ reports' = reports (+) SetToBag({[cmd |-> "ADD_NODE", from |-> p]})
    /\ UNCHANGED <<id, partner, queues, inbox, scheduler, faults>>

\* The process ends, by a crash or a CHECK, and what was under way to it is lost.
Die(p) ==
    /\ state' = [state EXCEPT ![p] = "crashed"]
    /\ inbox' = [inbox EXCEPT ![p] = <<>>]
    /\ gone' = gone \union ({id[p]} \ {None})
    /\ UNCHANGED <<id, partner, queues, reports, scheduler>>

\* ADD_NODE at a process: the nodes with their ids, in pairs.
ProcessAddNode(p) ==
    /\ state[p] \in {"asking", "ready"}
    /\ inbox[p] # <<>> /\ Head(inbox[p]).cmd = "ADD_NODE" /\ Head(inbox[p]).sender_ # None
    /\ LET known == Head(inbox[p]).nodes
           mine == IF id[p] = None /\ \E n \in known : n.proc = p
                   THEN (CHOOSE n \in known : n.proc = p).id ELSE id[p]
           near(i) == IF mine \in Worker THEN i = Own[mine] ELSE i \in Worker /\ Own[i] = mine
       IN  /\ id' = [id EXCEPT ![p] = mine]
           /\ partner' = [partner EXCEPT ![p] = @ \/ \E n \in known : near(n.id)]
           /\ reports' = IF p \in Server
                         THEN reports (+) SetToBag({[cmd |-> "REPORT_ETH", from |-> p]})
                         ELSE reports
    /\ state' = [state EXCEPT ![p] = "ready"]
    /\ inbox' = [inbox EXCEPT ![p] = Tail(@)]
    /\ UNCHANGED <<queues, scheduler, faults>>

\* UpdateLocalID takes an ADD_NODE without sender_ for a registration, and
\* CHECK(is_scheduler_) ends every other process.
RefuseAddNode(p) ==
    /\ state[p] \in {"asking", "ready"}
    /\ inbox[p] # <<>> /\ Head(inbox[p]).cmd = "ADD_NODE" /\ Head(inbox[p]).sender_ = None
    /\ Die(p)
    /\ UNCHANGED crashes

ProcessReportReply(p) ==
    /\ state[p] = "ready"
    /\ inbox[p] # <<>> /\ Head(inbox[p]).cmd = "REPORT_REPLY"
    /\ queues' = [queues EXCEPT ![p] = TRUE]
    /\ inbox' = [inbox EXCEPT ![p] = Tail(@)]
    /\ UNCHANGED <<state, id, partner, reports, scheduler, faults>>

Crash(p) ==
    /\ p \in Mortal /\ state[p] = "ready" /\ crashes < MaxCrashes
    /\ Die(p)
    /\ crashes' = crashes + 1

\* The process comes up again in its container, without its state.
Restart(p) ==
    /\ state[p] = "crashed"
    /\ state' = [state EXCEPT ![p] = "off"]
    /\ id' = [id EXCEPT ![p] = None]
    /\ partner' = [partner EXCEPT ![p] = FALSE]
    /\ queues' = [s \in Server |-> queues[s] /\ s # p]
    /\ UNCHANGED <<inbox, reports, scheduler, gone, crashes>>

-----------------------------------------------------------------------------
(* The scheduler. *)

\* The last heartbeat is old enough for GetDeadNodes.
FindSilent(i) ==
    /\ i \in gone \ silent
    /\ silent' = silent \union {i}
    /\ UNCHANGED <<processes, inbox, reports, nodes, ready, recovery_nodes, num_report_eth,
                   route_thread, faults, failed>>

\* UpdateLocalID and ProcessAddNodeCommandAtScheduler, while nodes are missing.
Register(p) ==
    /\ ~failed /\ BagIn([cmd |-> "ADD_NODE", from |-> p], reports)
    /\ Cardinality(nodes) < Cardinality(Proc)
    /\ Receive([cmd |-> "ADD_NODE", from |-> p])
    /\ nodes' = nodes \union {[proc |-> p, id |-> p]}
    /\ IF Cardinality(nodes') = Cardinality(Proc)
       THEN /\ ready' = TRUE
            /\ Tell(Proc, [cmd |-> "ADD_NODE", sender_ |-> Scheduler, nodes |-> nodes'])
       ELSE UNCHANGED <<ready, inbox>>
    /\ UNCHANGED <<processes, recovery_nodes, num_report_eth, route_thread, silent, faults, failed>>

\* Mutant: the dead node stays in the table.
ReplacedNot(n, back) == nodes \union {back}
\* The restarted node takes the place of the dead one.
Replaced(n, back) == (nodes \ {n}) \union {back}

\* All nodes to the recovery node, the recovery node to the others; unlike the
\* answer to a registration it has no sender_.
Table(q, all, first) ==
    [cmd |-> "ADD_NODE", sender_ |-> None, nodes |-> IF q = first.proc THEN all ELSE {first}]

\* The same when all have been there: some node died and restarts.  It takes
\* the place of a silent node of its role, if there is one.  The first recovery
\* is answered, again with every later request, at the address it came from.
Recover(p) ==
    /\ ~failed /\ BagIn([cmd |-> "ADD_NODE", from |-> p], reports)
    /\ Cardinality(nodes) = Cardinality(Proc)
    /\ Receive([cmd |-> "ADD_NODE", from |-> p])
    /\ LET dead == {n \in nodes : n.id \in silent \cap Peers(p)}
       IN  IF dead = {} THEN UNCHANGED <<nodes, recovery_nodes>>
           ELSE \E n \in dead : LET back == [proc |-> p, id |-> n.id]
                               IN  /\ nodes' = Replaced(n, back)
                                   /\ recovery_nodes' = Append(recovery_nodes, back)
    /\ failed' = (Len(recovery_nodes') > 1)                  \* CHECK_EQ(..., 1)
    /\ IF recovery_nodes' = <<>> \/ failed'
       THEN UNCHANGED <<inbox, silent>>
       ELSE LET first == Head(recovery_nodes')
            IN  /\ inbox' = [q \in Proc |->
                     IF \/ q = p /\ recovery_nodes = <<>>
                        \/ Connected(q) /\ id[q] \notin silent
                     THEN Append(inbox[q], Table(q, nodes', first)) ELSE inbox[q]]
                /\ silent' = silent \ {first.id}               \* UpdateHeartbeat
    /\ UNCHANGED <<processes, ready, num_report_eth, route_thread, faults>>


\* The last server that reports is answered for all.
ProcessReportEth(p) ==
    /\ ~failed /\ BagIn([cmd |-> "REPORT_ETH", from |-> p], reports)
    /\ Receive([cmd |-> "REPORT_ETH", from |-> p])
    /\ num_report_eth' = num_report_eth + 1
    /\ IF num_report_eth' = Cardinality(Server)
       THEN Tell({s \in Server : Connected(s)}, [cmd |-> "REPORT_REPLY"])
       ELSE UNCHANGED inbox
    /\ UNCHANGED <<processes, nodes, ready, recovery_nodes, route_thread, silent, faults, failed>>

\* The end of Van::Start at the scheduler.
StartRouteManager ==
    /\ ~failed /\ ready /\ ~route_thread
    /\ num_report_eth = Cardinality(Server)
    /\ route_thread' = TRUE
    /\ UNCHANGED <<processes, inbox, reports, nodes, ready, recovery_nodes, num_report_eth,
                   silent, faults, failed>>

Next == \/ StartRouteManager
        \/ \E p \in Proc :
             \/ Start(p) \/ ProcessAddNode(p) \/ RefuseAddNode(p) \/ ProcessReportReply(p)
             \/ Crash(p) \/ Restart(p)
             \/ FindSilent(p) \/ Register(p) \/ Recover(p) \/ ProcessReportEth(p)

\* Every process is started, and again after a crash; threads run.
Fair == /\ WF_vars(StartRouteManager)
        /\ \A p \in Proc :
             /\ WF_vars(Start(p)) /\ WF_vars(ProcessAddNode(p)) /\ WF_vars(RefuseAddNode(p))
             /\ WF_vars(ProcessReportReply(p)) /\ WF_vars(Restart(p)) /\ WF_vars(FindSilent(p)) /\ WF_vars(Register(p))
             /\ WF_vars(Recover(p)) /\ WF_vars(ProcessReportEth(p))
Spec == Init /\ [][Next]_vars /\ Fair

-----------------------------------------------------------------------------
\* The tables of the bootstrap are of their types; a process is ready only with
\* an id of its role (van.cc: UpdateLocalID).
TypeOK ==
    /\ state \in [Proc -> {"off", "asking", "ready", "crashed"}]
    /\ \A p \in Proc : /\ id[p] \in Peers(p) \union {None}
                       /\ state[p] = "ready" => id[p] # None
    /\ \A n \in nodes : n.proc \in Proc /\ n.id \in Peers(n.proc)
    /\ silent \subseteq gone /\ gone \subseteq Proc
    /\ num_report_eth \in Nat

\* The scheduler has each id once and every process that runs under the id it
\* runs with: a restarted process takes the place of none that still runs, and no
\* two that run have one id (ProcessAddNodeCommandAtScheduler, UpdateLocalID).
UniqueIds ==
    /\ \A p \in Proc : state[p] = "ready" => [proc |-> p, id |-> id[p]] \in nodes
    /\ \A m, n \in nodes : m # n => m.id # n.id

Joined(p) == state[p] = "ready" /\ partner[p]

=============================================================================
