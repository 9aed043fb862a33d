-------------------------------- MODULE Routes --------------------------------
(***************************************************************************)
(* What the scheduler computes from the measured throughputs: the paths    *)
(* between servers (find_trace, add_route), how good a server is as a root *)
(* (compute_performance), the tree of every root (PolicyDecision), the two *)
(* messages that carry the results and how servers read them.              *)
(*                                                                         *)
(* A throughput t is a divisor of Unit, so that the cost 1/t of a link is  *)
(* Unit \div t, exactly.  perf is 1/delay in the code; the model keeps the *)
(* delay, and 0 is a server that is not a root.                            *)
(***************************************************************************)
EXTENDS Integers, Sequences, FiniteSets, SequencesExt, FiniteSetsExt

CONSTANTS
    num_nodes, num_enable_server,
    enable_muti_trace,     \* look for auxiliary paths
    enable_random,         \* take any path instead of the best
    Unit                   \* the cost of a link of throughput 1

Node == 0..(num_nodes - 1)
ByIndex == [k \in 1..num_nodes |-> k - 1]
\* The order in which add_route fills the table.
Pairs == SelectSeq([k \in 1..(num_nodes * num_nodes) |->
                      <<(k - 1) \div num_nodes, (k - 1) % num_nodes>>], LAMBDA p : p[1] # p[2])

ASSUME RoutesAssumption ==
    /\ {num_nodes, num_enable_server, Unit} \subseteq Nat \ {0}
    /\ {enable_muti_trace, enable_random} \subseteq BOOLEAN

Cost(t) == Unit \div t
Used == 1000000            \* marks a path that was looked at; no path costs that much

-----------------------------------------------------------------------------
\* All simple paths from one server to another with their costs, in the order
\* of the depth-first search.
FindTrace(tps, start, end) ==
    LET From[i \in Node, cost \in Nat, trace \in Seq(Node)] ==
          FlattenSeq([k \in 1..num_nodes |->
            LET n == k - 1
                c == cost + Cost(tps[i][n])
            IN  IF n = i \/ tps[i][n] = 0 \/ n \in ToSet(trace) THEN <<>>
                ELSE IF n = end THEN << [cost |-> c, trace |-> Append(trace, n)] >>
                ELSE From[n, c, Append(trace, n)]])
    IN  From[start, 0, <<start>>]

\* Mutant: the largest.
FirstLargest(costs) == CHOOSE i \in DOMAIN costs :
                    \A j \in DOMAIN costs : costs[i] > costs[j] \/ (costs[i] = costs[j] /\ i <= j)

\* min: the first of the smallest.
First(costs) == CHOOSE i \in DOMAIN costs :
                    \A j \in DOMAIN costs : costs[i] < costs[j] \/ (costs[i] = costs[j] /\ i <= j)

Inner(trace) == {trace[h] : h \in 2..(Len(trace) - 1)}

\* Mutant: servers in between are not remembered.
KeepAll(found, s, c) ==
    [s EXCEPT !.costs[c] = Used, !.paths = Append(@, IF s.costs[c] = Used THEN <<>> ELSE found[c].trace)]

\* A turn of add_route with the path at index c: it is kept unless it shares
\* an inner server with a path kept before.
Keep(found, s, c) ==
    LET t == found[c].trace
    IN  CASE s.costs[c] = Used -> [s EXCEPT !.paths = Append(@, <<>>)]
          [] s.costs[c] # Used /\ Inner(t) \cap s.mid # {} ->
               [s EXCEPT !.costs[c] = Used, !.paths = Append(@, <<>>)]
          [] OTHER -> [costs |-> [s.costs EXCEPT ![c] = Used], mid |-> s.mid \union Inner(t),
                       paths |-> Append(s.paths, t)]

\* What add_route may keep of the paths it found, in its order.
Kept(found) ==
    LET Choice(s) == IF enable_random THEN DOMAIN found ELSE {First(s.costs)}
        Turn(S, k) == UNION {{Keep(found, s, c) : c \in Choice(s)} : s \in S}
        start == [costs |-> [k \in DOMAIN found |-> found[k].cost], mid |-> {}, paths |-> <<>>]
        turns == IF enable_muti_trace THEN Len(found) ELSE 1
    IN  {s.paths : s \in FoldLeft(Turn, {start}, [k \in 1..turns |-> k])}

\* Every value that add_route may give to route[i][j].
AddRoute(tps, i, j) == UNION {Kept(found) : found \in {FindTrace(tps, i, j)}}

-----------------------------------------------------------------------------
Link(path, k) == <<path[k], path[k + 1]>>

\* The links at distance k from the root i; a link counts where it is met first.
LinksAt(route, i, k) ==
    {Link(route[i][j][1], k) : j \in {n \in Node \ {i} :
        /\ Len(route[i][n][1]) > k
        /\ \A m \in Node \ {i} : m < n =>
             \A h \in 1..(Len(route[i][m][1]) - 1) : Link(route[i][m][1], h) # Link(route[i][n][1], k)}}

\* 1/perf[i]: the slowest link at each distance, one after the other.
Delay(tps, route, i) ==
    LET Slowest(k) == Max({0} \union {Cost(tps[l[1]][l[2]]) : l \in LinksAt(route, i, k)})
    IN  MapThenSumSet(Slowest, 1..num_nodes)

\* Only the best num_enable_server servers are roots; of equals, the earlier goes.
ChooseRoots(delay) ==
    LET worse(i) == {m \in Node : delay[m] > delay[i] \/ (delay[m] = delay[i] /\ m < i)}
    IN  [i \in Node |-> IF Cardinality(worse(i)) < num_nodes - num_enable_server
                        THEN 0 ELSE delay[i]]

-----------------------------------------------------------------------------
ServerId(n) == n * 2 + 8
WorkerId(n) == n * 2 + 9

\* Mutant: paths that were not kept are sent too.
EncodeEmpty(route, r) ==
    FlattenSeq([k \in 1..num_nodes |->
        <<-2>> \o FlattenSeq([p \in DOMAIN route[r][k - 1] |-> route[r][k - 1][p] \o <<-1>>])])

\* ROUTE_RELEASE with iters 0: the paths of server r; -2 begins a destination
\* and -1 ends a path.
EncodeRoutes(route, r) ==
    FlattenSeq([k \in 1..num_nodes |->
        <<-2>> \o FlattenSeq([p \in DOMAIN route[r][k - 1] |->
            IF route[r][k - 1][p] = <<>> THEN <<>> ELSE route[r][k - 1][p] \o <<-1>>])])

\* The pieces of a list of which each ends with mark.
EndedBy(s, mark) ==
    LET ends == SelectSeq([k \in DOMAIN s |-> k], LAMBDA k : s[k] = mark)
    IN  [b \in DOMAIN ends |-> SubSeq(s, IF b = 1 THEN 1 ELSE ends[b - 1] + 1, ends[b] - 1)]

\* How a server reads it; the rows go as far as the last destination with a path.
DecodeRoutes(msg) ==
    LET rows == EndedBy(Append(Tail(msg), -2), -2)
        last == Max({0} \union {j \in DOMAIN rows : rows[j] # <<>>})
    IN  [j \in 1..last |-> LET paths == EndedBy(rows[j], -1)
                           IN  [k \in DOMAIN paths |-> [h \in DOMAIN paths[k] |-> ServerId(paths[k][h])]]]

-----------------------------------------------------------------------------
\* Mutant: the last hop before the destination.
HopBefore(route, i, j) == IF i = j THEN -2 ELSE route[i][j][1][Len(route[i][j][1]) - 1]

\* The next hop from i on the way to j; -2 for itself.
NextHop(route, i, j) == IF i = j THEN -2 ELSE route[i][j][1][2]

\* ROUTE_RELEASE with iters 1, for server j: for every root the parent of j,
\* its children and -1.
PolicyDecision(delay, route, j) ==
    [perf |-> delay,
     hops |-> FlattenSeq([r \in 1..num_nodes |->
        LET i == r - 1
            children == SelectSeq(ByIndex, LAMBDA k : NextHop(route, k, i) = j)
        IN  IF delay[i] = 0 THEN <<>> ELSE <<NextHop(route, j, i)>> \o children \o <<-1>>])]

\* How server me reads it: parents_temp and sons_temp, by root.
ParsePolicy(me, msg) ==
    LET roots == SelectSeq(ByIndex, LAMBDA i : msg.perf[i] # 0)
        blocks == EndedBy(msg.hops, -1)
        block(i) == blocks[CHOOSE b \in DOMAIN roots : roots[b] = i]
        parent(i) == Head(block(i))
    IN  [parents |-> [i \in Node |->
                        CASE i \notin ToSet(roots) -> -1
                          [] i \in ToSet(roots) /\ parent(i) = -2 -> ServerId(me)
                          [] OTHER -> ServerId(parent(i))],
         sons |-> [i \in Node |-> {WorkerId(me)} \union
                     IF i \in ToSet(roots) THEN {WorkerId(k) : k \in ToSet(Tail(block(i)))} ELSE {}]]
=============================================================================
