----------------------------- MODULE RouteManager -----------------------------
(***************************************************************************)
(* The scheduler's Route_Manager thread, which recomputes the routes when  *)
(* throughputs change and releases them, against the thread that receives  *)
(* speed reports and the workers' requests for the topology of the next    *)
(* iteration.  The receiving thread and check_change hold send_mu;         *)
(* route_update does not.                                                  *)
(*                                                                         *)
(* A step of route_update is one access to the shared tables: one entry of *)
(* the route table, one of perf.  A policy is read by the servers in the   *)
(* step that sends it: TreeSync is about the time in between.              *)
(* UPDATE_RATE is 0, as in the scripts: every change counts.               *)
(***************************************************************************)
EXTENDS Routes

CONSTANTS
    Speeds,           \* the throughputs of a link
    InitTps,          \* the matrices of throughputs at the start; 0 is no link
    MaxReports        \* bound: speed reports altogether

ASSUME RouteManagerAssumption ==
    /\ Speeds \subseteq {t \in 1..Unit : Unit % t = 0}
    /\ InitTps \subseteq [Node -> [Node -> Speeds \union {0}]]
    /\ MaxReports \in Nat

VARIABLES
    tps,              \* tps[i][j]: throughput from i to j as last reported
    reports,          \* how many reports there were
    temp,             \* the copy of tps that check_change compares with
    route,            \* route[i][j]: the paths from i to j, the best first
    perf,             \* as delays
    perf_update_flag,
    pc, at,           \* where Route_Manager is, and the next entry of its loop
    notify_count,     \* workers that wait for the next topology
    handler,          \* the receiving thread, when all have asked
    released,         \* the last message with paths to each server
    relation,         \* parents_temp and sons_temp of each server, as parsed
    crashed,          \* the scheduler read a path that is not there
    overlap           \* history: what was handled while Route_Manager was at work

vars == <<tps, reports, temp, route, perf, perf_update_flag, pc, at, notify_count, handler,
          released, relation, crashed, overlap>>
manager == <<temp, route, perf, pc, at, released>>
receiver == <<tps, reports, notify_count, handler, relation, crashed, overlap>>

NoRoutes == [i \in Node |-> [j \in Node |-> <<>>]]
NoRelation == [parents |-> [i \in Node |-> -1], sons |-> [i \in Node |-> {}]]

Init ==
    /\ tps \in InitTps /\ reports = 0 /\ temp = tps
    /\ route = NoRoutes
    /\ perf = [i \in Node |-> 0]
    /\ perf_update_flag = TRUE
    /\ pc = "clear" /\ at = 1
    /\ notify_count = 0 /\ handler = "idle"
    /\ released = [i \in Node |-> <<>>]
    /\ relation = [i \in Node |-> NoRelation]
    /\ crashed = FALSE
    /\ overlap = {}

Goto(place) == pc' = place /\ at' = 1
Advance(last, place) == IF at = last THEN Goto(place) ELSE at' = at + 1 /\ pc' = pc

-----------------------------------------------------------------------------
(* The Route_Manager thread. *)

\* route.swap with an empty table.
ClearRoute ==
    /\ pc = "clear"
    /\ route' = NoRoutes
    /\ Goto("fill")
    /\ UNCHANGED <<receiver, temp, perf, perf_update_flag, released>>

FillRoute ==
    /\ pc = "fill"
    /\ LET i == Pairs[at][1]  j == Pairs[at][2]
       IN  \E paths \in AddRoute(tps, i, j) : route' = [route EXCEPT ![i][j] = paths]
    /\ Advance(Len(Pairs), "perf")
    /\ UNCHANGED <<receiver, temp, perf, perf_update_flag, released>>

ComputePerformance ==
    /\ pc = "perf"
    /\ perf' = [perf EXCEPT ![at - 1] = Delay(tps, route, at - 1)]
    /\ Advance(num_nodes, "choose")
    /\ UNCHANGED <<receiver, temp, route, perf_update_flag, released>>

ChooseFormerMax ==
    /\ pc = "choose"
    /\ perf' = ChooseRoots(perf)
    /\ Goto("flag")
    /\ UNCHANGED <<receiver, temp, route, perf_update_flag, released>>

\* Mutant: the flag is not set.
NoFlag ==
    /\ pc = "flag"
    /\ Goto("release")
    /\ UNCHANGED <<receiver, temp, route, perf, perf_update_flag, released>>

SetFlag ==
    /\ pc = "flag"
    /\ perf_update_flag' = TRUE
    /\ Goto("release")
    /\ UNCHANGED <<receiver, temp, route, perf, released>>

\* The paths to the servers, one after the other.
ReleaseRoute ==
    /\ pc = "release"
    /\ released' = [released EXCEPT ![at - 1] = EncodeRoutes(route, at - 1)]
    /\ Advance(num_nodes, "copy")
    /\ UNCHANGED <<receiver, temp, route, perf, perf_update_flag>>

CopyTps ==
    /\ pc = "copy"
    /\ temp' = tps
    /\ Goto("sleep")
    /\ UNCHANGED <<receiver, route, perf, perf_update_flag, released>>

\* check_change waits for send_mu.  When nothing changed it is 0/0, which is
\* not above the rate.
CheckChange ==
    /\ pc = "sleep" /\ handler = "idle"
    /\ tps # temp
    /\ Goto("clear")
    /\ UNCHANGED <<receiver, temp, route, perf, perf_update_flag, released>>

-----------------------------------------------------------------------------
(* The receiving thread. *)

Receives == handler = "idle" /\ ~crashed
Note(what) == overlap' = IF pc = "sleep" THEN overlap ELSE overlap \union {what}

\* Server j measured v on the link from i.
ProcessSpeedReport(i, j, v) ==
    /\ Receives /\ Note("report")
    /\ tps[i][j] \notin {0, v}
    /\ reports < MaxReports
    /\ tps' = [tps EXCEPT ![i][j] = v]
    /\ reports' = reports + 1
    /\ UNCHANGED <<manager, perf_update_flag, notify_count, handler, relation, crashed>>

\* A worker asks for the next topology, and waits; the last is answered for all.
ProcessRouteRelease ==
    /\ Receives
    /\ IF notify_count + 1 = num_nodes
       THEN /\ notify_count' = 0 /\ Note("request")
            /\ handler' = IF perf_update_flag THEN "decide" ELSE "clear"
       ELSE notify_count' = notify_count + 1 /\ UNCHANGED <<handler, overlap>>
    /\ UNCHANGED <<manager, tps, reports, perf_update_flag, relation, crashed>>

Filled == \A i, j \in Node : i # j => route[i][j] # <<>>

\* PolicyDecision and the messages to the servers.
RouteUpdate2 ==
    /\ handler = "decide"
    /\ IF Filled
       THEN /\ relation' = [n \in Node |-> ParsePolicy(n, PolicyDecision(perf, route, n))]
            /\ handler' = "clear" /\ UNCHANGED crashed
       ELSE crashed' = TRUE /\ handler' = "idle" /\ UNCHANGED relation
    /\ UNCHANGED <<manager, tps, reports, perf_update_flag, notify_count, overlap>>

\* Also after the reply without a policy, when the flag was not set.
ClearFlag ==
    /\ handler = "clear"
    /\ perf_update_flag' = FALSE
    /\ handler' = "idle"
    /\ UNCHANGED <<manager, tps, reports, notify_count, relation, crashed, overlap>>

Manager == /\ ~crashed
           /\ \/ ClearRoute \/ FillRoute \/ ComputePerformance \/ ChooseFormerMax
              \/ SetFlag \/ ReleaseRoute \/ CopyTps \/ CheckChange
Handler == RouteUpdate2 \/ ClearFlag

Next == \/ Manager
        \/ Handler
        \/ \E i, j \in Node, v \in Speeds : ProcessSpeedReport(i, j, v)
        \/ ProcessRouteRelease

\* Threads run, whoever waits for send_mu gets it, and training goes on.
Spec == /\ Init /\ [][Next]_vars
        /\ WF_vars(Manager) /\ SF_vars(CheckChange) /\ WF_vars(Handler)
        /\ WF_vars(ProcessRouteRelease)

-----------------------------------------------------------------------------
(* Properties. *)

\* The routes, perf and what servers read of them are of their types; perf is
\* a delay or 0 (van.h: route, perf, parents_temp).
TypeOK ==
    /\ tps \in [Node -> [Node -> Speeds \union {0}]]
    /\ temp \in [Node -> [Node -> Speeds \union {0}]]
    /\ \A i, j \in Node : \A k \in DOMAIN route[i][j] :
         route[i][j][k] \in Seq(Node) /\ Len(route[i][j][k]) # 1
    /\ perf \in [Node -> Nat]
    /\ perf_update_flag \in BOOLEAN /\ crashed \in BOOLEAN
    /\ pc \in {"clear", "fill", "perf", "choose", "flag", "release", "copy", "sleep"}
    /\ at \in 1..Len(Pairs)
    /\ notify_count \in 0..(num_nodes - 1)
    /\ handler \in {"idle", "decide", "clear"}
    /\ \A n \in Node : relation[n].parents \in [Node -> {-1} \union {ServerId(m) : m \in Node}]

PathCost(path) == MapThenSumSet(LAMBDA k : Cost(tps[path[k]][path[k + 1]]), 1..(Len(path) - 1))

\* The reference: the least cost of a walk from i to j, link by link.
Unreachable == num_nodes * Unit + 1
Distance(i, j) ==
    LET Step(m, n) == IF m = n THEN 0 ELSE IF tps[m][n] = 0 THEN Unreachable ELSE Cost(tps[m][n])
        Walk[k \in 0..num_nodes - 1] ==
            IF k = 0 THEN [n \in Node |-> IF n = i THEN 0 ELSE Unreachable]
            ELSE [n \in Node |-> Min({Walk[k - 1][m] + Step(m, n) : m \in Node})]
    IN  Walk[num_nodes - 1][j]

Updated == pc \in {"perf", "choose", "flag", "release", "copy"}

\* When a table is complete, the first path of each pair is a cheapest way
\* between the two servers (add_route with find_trace and min), unless a report
\* came while the table was computed.
BestPathFirst ==
    Updated /\ "report" \notin overlap =>
        \A i, j \in Node : i # j => PathCost(route[i][j][1]) = Distance(i, j)

\* Auxiliary paths run along links, from the server to the destination, and no
\* two paths of a pair share a server in between (mid_nodes in add_route), so
\* that they carry traffic in parallel.
PathsAreDisjoint ==
    \A i, j \in Node :
      LET paths == {k \in DOMAIN route[i][j] : route[i][j][k] # <<>>}
      IN  /\ \A k \in paths : LET p == route[i][j][k]
                             IN  /\ Head(p) = i /\ Last(p) = j /\ IsInjective(p)
                                 /\ \A h \in 1..(Len(p) - 1) : tps[p[h]][p[h + 1]] # 0
          /\ \A k, l \in paths : k # l => Inner(route[i][j][k]) \cap Inner(route[i][j][l]) = {}
                                       /\ route[i][j][k] # route[i][j][l]

\* A server gets back the paths that the scheduler computed for it, in their
\* order and as server ids, from the flat list of ROUTE_RELEASE.
ServersReadTheirRoutes ==
    pc = "copy" => \A r, j \in Node : r # j =>
        DecodeRoutes(released[r])[j + 1] = [k \in DOMAIN SelectSeq(route[r][j], LAMBDA p : p # <<>>) |->
            LET p == SelectSeq(route[r][j], LAMBDA q : q # <<>>)[k]
            IN  [h \in DOMAIN p |-> ServerId(p[h])]]

Roots == {i \in Node : relation[i].parents[i] # -1}
Up(i, n) == (relation[n].parents[i] - 8) \div 2

\* For every root the parents that servers read lead to the root from every
\* server, and a server's sons are the servers whose parent it is and its own
\* worker: what TreeSync assumes of a policy.  Rows of the table that were
\* computed before and after a report (van.cc:893) need not fit together.
ParentsFormTree ==
    "report" \notin overlap => \A i \in Roots :
      /\ \A n \in Node : relation[n].parents[i] # -1
      /\ LET Climb[k \in 0..num_nodes] == IF k = 0 THEN Node ELSE {Up(i, n) : n \in Climb[k - 1]}
         IN  Climb[num_nodes] = {i}
      /\ \A n \in Node : relation[n].sons[i] =
            {WorkerId(n)} \union {WorkerId(m) : m \in {l \in Node \ {i} : Up(i, l) = n}}

\* In the end the trees in use are shortest-path trees for the throughputs
\* that were last reported: reports are not lost between two recomputations,
\* and neither is the flag that a new policy is there.  Reports and requests
\* that are handled while Route_Manager is at work may be: the copy of the
\* throughputs is made afterwards (van.cc:1415), and the flag cleared (van.cc:1535).
Adapted ==
    /\ Roots # {}
    /\ \A i \in Roots, n \in Node :
         n # i => Distance(n, i) = Cost(tps[n][Up(i, n)]) + Distance(Up(i, n), i)
Adapts == <>[](overlap # {} \/ Adapted)
=============================================================================
