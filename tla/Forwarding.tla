----------------------------- MODULE Forwarding -----------------------------
(***************************************************************************)
(* How servers carry messages for each other: the first server writes the  *)
(* whole route into the message (Add_trace), taking an auxiliary path when *)
(* the queue of the first hop is long; every hop puts it into the queue of *)
(* the next; a thread for each neighbour empties its queue.  Servers count *)
(* the bytes they have handed on and that were not yet acknowledged.       *)
(*                                                                         *)
(* A step is a critical section of send_mu or the handling of a message by *)
(* a receiving thread.  The notices that a neighbour may or may not send   *)
(* (receive_flag, RECV_REPLY with key -2) are left out: nobody acts on     *)
(* them.  The speeds measured from large messages are left out too.        *)
(* The size of what was received travels as a float, in meta.route, and    *)
(* makes the subtraction from the count one of floats.                     *)
(***************************************************************************)
EXTENDS Integers, Sequences, FiniteSets, FiniteSetsExt, SequencesExt, Float32

CONSTANTS
    Server,
    RouteTables,          \* the routes the scheduler may release: a table gives
                          \* table[n][d], the paths from n to d, the best first
    FirstTable,           \* the routes at the start
    Traffic,              \* bound: the messages sent, one after the other, each
                          \* [src, dst, worker, size] where worker says that it
                          \* goes to the worker of dst
    MaxReleases,          \* bound: routes released to a server
    second_queue_limit, size_msg_report, size_cache

Msg == DOMAIN Traffic

IsPath(p, n, d) == Len(p) > 1 /\ Head(p) = n /\ Last(p) = d /\ IsInjective(p)

ASSUME ForwardingAssumption ==
    /\ \A table \in RouteTables \cup {FirstTable}, n, d \in Server :
         /\ table[n][d] \in Seq(Seq(Server))
         /\ n # d => /\ table[n][d] # <<>>
                     /\ \A i \in DOMAIN table[n][d] : IsPath(table[n][d][i], n, d)
    /\ Traffic \in Seq([src : Server, dst : Server, worker : BOOLEAN, size : Nat])
    /\ \A m \in Msg : Traffic[m].src # Traffic[m].dst
    /\ MaxReleases \in [Server -> Nat]
    /\ {second_queue_limit, size_msg_report, size_cache} \subseteq Nat

VARIABLES
    sent,          \* the messages 1 .. sent have been sent
    route,         \* route[0] of a server
    releases,      \* routes released to a server so far
    pushing,       \* in Van::Push, with a path and before send_mu: [msg, at, hops]
    queue,         \* queue[n][k]: what waits at n for k; for k = n, for the worker
    net,           \* on the wire between servers: [msg, from, hops, key]
    replies,       \* RECV_REPLY: [msg, from, to, size]
    cache_count, enable_send,
    over,          \* the servers whose cache_count was once above Precision
    arrived        \* the destinations a message has reached

vars == <<sent, route, releases, pushing, queue, net, replies, cache_count,
          enable_send, over, arrived>>
accounts == <<cache_count, enable_send, over>>

\* The rest of a path: the hops that are still to be made.
Item(m, hops) == [msg |-> m, hops |-> hops]

Init ==
    /\ sent = 0
    /\ route = [n \in Server |-> FirstTable]
    /\ releases = [n \in Server |-> 0]
    /\ pushing = {}
    /\ queue = [n \in Server |-> [k \in Server |-> <<>>]]
    /\ net = {} /\ replies = {}
    /\ cache_count = [n \in Server |-> 0]
    /\ enable_send = [n \in Server |-> 1]
    /\ over = {}
    /\ arrived = [m \in Msg |-> {}]

----------------------------------------------------------------------------
(* Van::Push.                                                               *)

QueueSize(n, k) == Len(queue[n][k])

\* The path for a message that starts at n: the first auxiliary path whose queue
\* is short when that of the best path is long, or the best path.
PathFor(n, d) ==
    LET paths == route[n][n][d]
        long == QueueSize(n, paths[1][2]) > 2 * second_queue_limit
        good == {i \in 2..Len(paths) : QueueSize(n, paths[i][2]) < second_queue_limit}
    IN  Tail(paths[IF long /\ good # {} THEN Min(good) ELSE 1])

Worker(d) == <<d, "worker">>
Here(d) == <<d, "server">>
Dest == {Worker(n) : n \in Server} \cup {Here(n) : n \in Server}
DestOf(t) == IF t.worker THEN Worker(t.dst) ELSE Here(t.dst)

\* A server, or its worker, sends a message to another place: Add_trace and
\* ProcessReply1Command find the route, Push chooses among its paths.
Send(m) ==
    LET t == Traffic[m]
    IN  /\ m = sent + 1
        /\ sent' = m
        /\ pushing' = pushing \cup {[msg |-> m, at |-> t.src,
                                     hops |-> PathFor(t.src, t.dst)]}
        /\ UNCHANGED <<route, releases, queue, net, replies, accounts, arrived>>

\* Mutant: the servers send again only when everything is acknowledged.
EnableAtZero(c, e) ==
    IF c > size_cache THEN 0 ELSE IF e # 1 /\ c < 0 THEN 1 ELSE e

EnableSendCheck(c, e) ==
    IF c > size_cache THEN 0 ELSE IF e # 1 /\ c < size_cache \div 5 THEN 1 ELSE e

Count(n, c) ==
    /\ cache_count' = [cache_count EXCEPT ![n] = c]
    /\ enable_send' = [enable_send EXCEPT ![n] = EnableSendCheck(c, @)]
    /\ over' = IF c > Precision THEN over \cup {n} ELSE over

\* cache_count -= route[0]: an int less a float, computed in floats.
Less(c, size) == Fl(Fl(c) - Fl(size))

\* Mutant: what goes to the own worker is counted as well.
CountedAlways(n, k) == TRUE

\* Only what goes to another server is counted.
Counted(n, k) == k # n

\* msg.meta.recver, the last entry of msg.meta.route.
NextHop(hops) == Head(hops)

\* The rest of Push, under send_mu.  The next hop of a message for the worker
\* of this server is that worker, whose queue is queue[n][n].
QueuePush(p) ==
    LET n == p.at
        k == NextHop(p.hops)
        size == Traffic[p.msg].size
    IN  /\ p \in pushing
        /\ pushing' = pushing \ {p}
        /\ queue' = [queue EXCEPT ![n][k] = Append(@, Item(p.msg, p.hops))]
        /\ IF Counted(n, k) /\ size > 0 THEN Count(n, cache_count[n] + size)
                                        ELSE UNCHANGED accounts
        /\ UNCHANGED <<sent, route, releases, net, replies, arrived>>

\* Mutant: the thread reads the top of the queue and leaves it there.
PopLeaves(q, i) == q

Pop(q, i) == RemoveAt(q, i)

\* Sending, the thread of n for k.  The queue is a heap ordered by priorities,
\* which are all equal, with a comparison that is not strict: any entry may be
\* its top.
Sending(n, k, i) ==
    LET x == queue[n][k][i]
    IN  /\ queue' = [queue EXCEPT ![n][k] = Pop(@, i)]
        /\ IF k = n
           THEN /\ arrived' = [arrived EXCEPT ![x.msg] = @ \cup {Worker(n)}]
                /\ UNCHANGED net
           ELSE /\ net' = net \cup {[msg |-> x.msg, from |-> n, hops |-> x.hops,
                                     key |-> Traffic[x.msg].size >= size_msg_report]}
                /\ UNCHANGED arrived
        /\ UNCHANGED <<sent, route, releases, pushing, replies, accounts>>

----------------------------------------------------------------------------
(* Receiving.                                                               *)

\* RecvReply: a server acknowledges what another server has sent.  A message
\* that is large enough to measure the link by is settled on the spot, in the
\* receiver's own account.
RecvReply(n, x) ==
    LET size == Traffic[x.msg].size
    IN  IF x.key /\ size > 0
        THEN Count(n, Less(cache_count[n], size)) /\ UNCHANGED replies
        ELSE /\ replies' = replies \cup {[msg |-> x.msg, from |-> n, to |-> x.from, size |-> size]}
             /\ UNCHANGED accounts

\* Mutant: a hop that passes a message on forgets to drop itself.
AfterHopSame(hops) == hops

\* ProcessReply1Command on the way: the next hop.
AfterHop(hops) == Tail(hops)

\* A message arrives at n = Head(x.hops): for n itself, for its worker or to be
\* handed on (ProcessReply1Command).
Receive(x) ==
    LET n == Head(x.hops)
        t == Traffic[x.msg]
    IN  /\ x \in net
        /\ net' = net \ {x}
        /\ RecvReply(n, x)
        /\ IF t.dst = n /\ ~ t.worker
           THEN /\ arrived' = [arrived EXCEPT ![x.msg] = @ \cup {Here(n)}]
                /\ UNCHANGED pushing
           ELSE /\ pushing' = pushing \cup
                     {[msg |-> x.msg, at |-> n,
                       hops |-> IF t.dst = n THEN x.hops ELSE AfterHop(x.hops)]}
                /\ UNCHANGED arrived
        /\ UNCHANGED <<sent, route, releases, queue>>

\* ProcessRecvReplyCommand.
ProcessRecvReplyCommand(r) ==
    /\ r \in replies
    /\ replies' = replies \ {r}
    /\ Count(r.to, Less(cache_count[r.to], r.size))
    /\ UNCHANGED <<sent, route, releases, pushing, queue, net, arrived>>

\* ProcessRouteReleaseCommand with iters = 0: new routes, for new messages.
ProcessRouteRelease(n, table) ==
    /\ releases[n] < MaxReleases[n]
    /\ releases' = [releases EXCEPT ![n] = @ + 1]
    /\ route' = [route EXCEPT ![n] = table]
    /\ UNCHANGED <<sent, pushing, queue, net, replies, accounts, arrived>>

----------------------------------------------------------------------------
Forward ==
    \/ \E p \in pushing : QueuePush(p)
    \/ \E n, k \in Server : \E i \in DOMAIN queue[n][k] : Sending(n, k, i)
    \/ \E x \in net : Receive(x)
    \/ \E r \in replies : ProcessRecvReplyCommand(r)

Next ==
    \/ Forward
    \/ \E m \in Msg : Send(m)
    \/ \E n \in Server, table \in RouteTables : ProcessRouteRelease(n, table)

Spec == Init /\ [][Next]_vars

\* The threads of a Van run and the wires deliver; every step carries something
\* on, so the traffic cannot keep one message waiting for ever.
FairSpec == Spec /\ WF_vars(Forward)

----------------------------------------------------------------------------
(* Properties.                                                              *)

\* The variables have the types of the declarations in van.h.
TypeOK ==
    /\ sent \in 0..Len(Traffic)
    /\ route \in [Server -> RouteTables \cup {FirstTable}] /\ releases \in [Server -> Nat]
    /\ pushing \subseteq [msg : Msg, at : Server, hops : Seq(Server)]
    /\ queue \in [Server -> [Server -> Seq([msg : Msg, hops : Seq(Server)])]]
    /\ net \subseteq [msg : Msg, from : Server, hops : Seq(Server), key : BOOLEAN]
    /\ replies \subseteq [msg : Msg, from : Server, to : Server, size : Nat]
    /\ cache_count \in [Server -> Int] /\ enable_send \in [Server -> {0, 1}]
    /\ over \subseteq Server
    /\ arrived \in [Msg -> SUBSET Dest]

\* Where message m is, given what is being pushed, queued and carried and where
\* messages have arrived: each place of a queue counts.
PlacesIn(m, P, Q, W, A) ==
    {<<"pushing", p>> : p \in {q \in P : q.msg = m}}
      \cup {<<"net", x>> : x \in {y \in W : y.msg = m}}
      \cup {<<"arrived", d>> : d \in A[m]}
      \cup UNION {{<<"queue", n, k, i>> : i \in {j \in DOMAIN Q[n][k] : Q[n][k][j].msg = m}} :
                     n, k \in Server}

Places(m) == PlacesIn(m, pushing, queue, net, arrived)

\* A message is in one place only, and the last of its hops is its destination:
\* nothing is lost, copied or misled by forwarding, by auxiliary paths or by
\* routes that change while it is under way.
OneCopy ==
    /\ \A m \in 1..sent :
         Cardinality(Places(m)) = 1 /\ arrived[m] \subseteq {DestOf(Traffic[m])}
    /\ \A x \in pushing \cup net \cup UNION {ToSet(queue[n][k]) : n, k \in Server} :
         Last(x.hops) = Traffic[x.msg].dst

\* What waits at n for other servers, what they have not yet received from n, and
\* the acknowledgements that n has not yet received.
Queued(n) == UNION {ToSet(queue[n][k]) : k \in Server \ {n}}
Carried(n) == {x \in net : x.from = n}
Due(n) == {r \in replies : r.to = n}

SizeOf(x) == Traffic[x.msg].size
Bytes(S) == MapThenSumSet(SizeOf, S)
Acknowledged(R) == MapThenSumSet(LAMBDA r : r.size, R)

Unacknowledged(n) == Bytes(Queued(n)) + Bytes(Carried(n)) + Acknowledged(Due(n))

\* cache_count is what the server has queued for or sent to other servers and
\* has no acknowledgement for, as long as no message reaches size_msg_report and
\* until the count is first above Precision: from then on what it subtracts from
\* and what it subtracts are rounded.
CacheIsUnacknowledged ==
    (\A m \in 1..sent : Traffic[m].size < size_msg_report) =>
        \A n \in Server \ over : cache_count[n] = Unacknowledged(n)

\* A server that has declared its cache full declares it open again, all of them
\* together when the traffic ends at the latest, since what they have handed on is
\* acknowledged in the end; unless by then roundings have left a fifth of
\* size_cache in the count that nobody will acknowledge.
SendEnabledAgain ==
    []<>(\A n \in Server :
            \/ enable_send[n] = 1
            \/ n \in over /\ Unacknowledged(n) = 0 /\ cache_count[n] >= size_cache \div 5)

\* Forwarding is a network that delivers every message once, to its destination.
Net == INSTANCE Network WITH
         MaxMsgs <- Len(Traffic),
         dest <- [m \in Msg |-> IF m <= sent THEN {DestOf(Traffic[m])} ELSE {}]

\* Whatever paths and orders the queues choose, the servers together are the
\* network TreeSync relies on, which also delivers in the end.
ImplementsNetwork == Net!Spec
=============================================================================
