------------------------------ MODULE TreeSync ------------------------------
(***************************************************************************)
(* Synchronous gradient aggregation over per-root trees, with the tree     *)
(* released anew before an iteration.  A container hosts one server and    *)
(* one worker and is a member of Node; the scheduler is implicit.          *)
(*                                                                         *)
(*   worker:    KVStoreDist::Push_, KVWorker::TopoUpdate, ::Send, ::Process*)
(*   scheduler: Van::ProcessRouteReleaseCommand, route_update2             *)
(*   server:    Van receiving threads (ProcessRouteReleaseCommand,         *)
(*              ProcessReply1Command, ProcessReply2Command) and the        *)
(*              customer thread (KVServer::Process -> DataHandleDefault).  *)
(*                                                                         *)
(* A gradient is abstracted to the set of contributions it sums: the pairs *)
(* <<worker, iteration>>.  Union stands for += ; NoDoubleCount says that   *)
(* no sum ever has the same contribution twice, so that union is exact.    *)
(***************************************************************************)
EXTENDS Naturals, FiniteSets

CONSTANTS
    Node,           \* the containers: server n and its own worker n
    Key,            \* the keys pushed in every iteration
    RootOf,         \* RootOf[k]: the server whose key range holds k
    Policies,       \* the policies PolicyDecision may compute
    NextHop,        \* NextHop[p][r][n]: next hop of n towards root r in p
    NoPolicy,       \* parents/sons vectors that were never filled
    MaxIter,        \* bound: iterations a worker trains for
    TimelyRelease   \* network assumption, see ProcessDataMsg

ASSUME NodeAssumption == IsFiniteSet(Node) /\ Node # {}
ASSUME KeyAssumption  == RootOf \in [Key -> Node] /\ Key # {}
ASSUME BoundAssumption == MaxIter \in Nat /\ TimelyRelease \in BOOLEAN

-----------------------------------------------------------------------------
\* The contents of a ROUTE_RELEASE: a policy, or the empty route that keeps
\* the one in force; None when there is no such message.
Empty == "empty"
None  == "none"

(* Relations of a server in a policy *)

\* parents[r] and sons[r] at server n.  A server's own worker is the last
\* of its sons for every root: it is written n, like the server of n.
parents(p, r, n) == IF n = r THEN n ELSE NextHop[p][r][n]
OtherSons(p, r, n) == {m \in Node \ {r} : NextHop[p][r][m] = n}    \* mutant
sons(p, r, n)    == {m \in Node \ {r} : NextHop[p][r][m] = n} \cup {n}

\* The next hops towards r form a tree: whatever contains r and every child
\* of its members contains every server.
IsTree(p, r) ==
    /\ NextHop[p][r] \in [Node -> Node]
    /\ \A n \in Node \ {r} : NextHop[p][r][n] # n
    /\ \A S \in SUBSET Node :
          (r \in S /\ \A n \in Node \ {r} : NextHop[p][r][n] \in S => n \in S)
              => S = Node

ASSUME PolicyAssumption ==
    /\ Policies # {}
    /\ {NoPolicy, Empty, None} \cap Policies = {}
    /\ \A p \in Policies : \A r \in Node : IsTree(p, r)

-----------------------------------------------------------------------------
Contrib == Node \X (1..MaxIter)
Round(t) == Node \X {t}          \* every worker's contribution to iteration t

\* A pushed gradient: from worker src to its own server (worker = TRUE), or
\* from server src to its parent.
UpMsg == [key : Key, iters : 1..MaxIter, src : Node, worker : BOOLEAN,
          to : Node, vals : SUBSET Contrib]
\* The result on its way down: to server to, which multicasts it, or from
\* there to its worker.
DownMsg == [key : Key, root : Node, to : Node, worker : BOOLEAN,
            vals : SUBSET Contrib]
Buf == [request : Nat, merged : SUBSET Contrib]

VARIABLES
    \* workers
    iter_count,       \* iteration the worker is in
    asking,           \* workers spinning in TopoUpdate
    unsent,           \* keys whose push the engine has still to run
    pending,          \* keys whose push has not completed
    recved,           \* the value last received for a key
    \* scheduler
    asks,             \* ROUTE_RELEASE requests on their way to the scheduler
    notify_count,
    perf_update_flag,
    policy,           \* what PolicyDecision would compute now
    \* servers
    release,          \* ROUTE_RELEASE on its way to the server
    grant,            \* the same, forwarded to its worker
    temp,             \* parents_temp, sons_temp
    vanRel,           \* parents, sons of the Van
    kvRel,            \* parents, sons of the KVServer
    init_flag,
    vanIters,
    kvIters,
    queue,            \* recv_queue_ of the servers' customers
    update_buf,
    store,            \* store_[k] at the root of k
    fault,            \* servers that died indexing an empty vector
    \* network
    up, down,
    \* history: number of releases, and the policy last released
    round, cur

workerVars == <<iter_count, asking, unsent, pending, recved>>
schedVars  == <<asks, notify_count, perf_update_flag, policy, round, cur>>
relVars    == <<temp, vanRel, kvRel, init_flag, vanIters, kvIters>>
aggVars    == <<queue, update_buf, store, fault>>
vars == <<workerVars, schedVars, release, grant, relVars, aggVars, up, down>>

NoBuf == [request |-> 0, merged |-> {}]

Init ==
    /\ iter_count = [w \in Node |-> 0]
    /\ asking = {}
    /\ unsent = [w \in Node |-> {}]
    /\ pending = [w \in Node |-> {}]
    /\ recved = [w \in Node |-> [k \in Key |-> {}]]
    /\ asks = {}
    /\ notify_count = 0
    /\ perf_update_flag = TRUE
    /\ policy \in Policies
    /\ release = [n \in Node |-> None]
    /\ grant = [n \in Node |-> None]
    /\ temp = [n \in Node |-> NoPolicy]
    /\ vanRel = [n \in Node |-> NoPolicy]
    /\ kvRel = [n \in Node |-> NoPolicy]
    /\ init_flag = [n \in Node |-> TRUE]
    /\ vanIters = [n \in Node |-> 0]
    /\ kvIters = [n \in Node |-> 0]
    /\ queue = {}
    /\ update_buf = [n \in Node |-> [k \in Key |-> NoBuf]]
    /\ store = [k \in Key |-> {}]
    /\ fault = {}
    /\ up = {}
    /\ down = {}
    /\ round = 0
    /\ cur = NoPolicy

-----------------------------------------------------------------------------
(* Workers *)

\* The training loop waits (nd.waitall) until every push has completed.
NotWaiting(w) == w \in Node                                      \* mutant
Drained(w) == pending[w] = {}

\* Push_ of key 0: the previous iteration is complete; ask the scheduler and
\* spin.
TopoUpdate(w) ==
    /\ w \notin asking
    /\ Drained(w)
    /\ iter_count[w] < MaxIter
    /\ asking' = asking \cup {w}
    /\ asks' = asks \cup {w}
    /\ UNCHANGED <<iter_count, unsent, pending, recved, notify_count,
                   perf_update_flag, policy, round, cur, release, grant,
                   relVars, aggVars, up, down>>

\* The forwarded release ends the spin; the pushes of the new iteration are
\* handed to the engine.
TopoUpdated(w) ==
    /\ grant[w] # None
    /\ grant' = [grant EXCEPT ![w] = None]
    /\ asking' = asking \ {w}
    /\ iter_count' = [iter_count EXCEPT ![w] = @ + 1]
    /\ unsent' = [unsent EXCEPT ![w] = Key]
    /\ pending' = [pending EXCEPT ![w] = Key]
    /\ UNCHANGED <<recved, schedVars, release, relVars, aggVars, up, down>>

\* PushDefault -> ZPush -> KVWorker::Send -> Add_trace: to the own server.
ZPush(w, k) ==
    /\ k \in unsent[w]
    /\ unsent' = [unsent EXCEPT ![w] = @ \ {k}]
    /\ up' = up \cup {[key |-> k, iters |-> iter_count[w], src |-> w,
                       worker |-> TRUE, to |-> w,
                       vals |-> {<<w, iter_count[w]>>}]}
    /\ UNCHANGED <<iter_count, asking, pending, recved, schedVars, release,
                   grant, relVars, aggVars, down>>

\* KVWorker::Process.  The first response to a push under way completes it;
\* any other counts for an older timestamp of the key and changes nothing.
WorkerProcess(d) ==
    /\ d \in down /\ d.worker
    /\ down' = down \ {d}
    /\ IF d.key \in pending[d.to] \ unsent[d.to]
       THEN /\ pending' = [pending EXCEPT ![d.to] = @ \ {d.key}]
            /\ recved' = [recved EXCEPT ![d.to][d.key] = d.vals]
       ELSE UNCHANGED <<pending, recved>>
    /\ UNCHANGED <<iter_count, asking, unsent, schedVars, release, grant,
                   relVars, aggVars, up>>

-----------------------------------------------------------------------------
(* Scheduler *)

\* Route_Manager -> route_update: new routes and performance figures.  One
\* that overwrites an unreleased one is never seen and is left out.
route_update ==
    /\ ~perf_update_flag
    /\ policy' \in Policies \ {policy}
    /\ perf_update_flag' = TRUE
    /\ UNCHANGED <<workerVars, asks, notify_count, round, cur, release, grant,
                   relVars, aggVars, up, down>>

\* The request counted next is the last one of the round.
AllButOneNotified == notify_count + 2 = Cardinality(Node)         \* mutant
AllNotified == notify_count + 1 = Cardinality(Node)

\* The contents of the release: a policy computed since the last one.
StaleRelease == IF perf_update_flag THEN Empty ELSE policy        \* mutant
Released == IF perf_update_flag THEN policy ELSE Empty

\* ProcessRouteReleaseCommand at the scheduler: count the requests, and with
\* the last of them release to every server.
SchedulerRelease(w) ==
    /\ w \in asks
    /\ asks' = asks \ {w}
    /\ IF AllNotified
       THEN /\ notify_count' = 0
            /\ release' = [n \in Node |-> Released]
            /\ cur' = IF Released = Empty THEN cur ELSE Released
            /\ round' = round + 1
            /\ perf_update_flag' = FALSE
       ELSE /\ notify_count' = notify_count + 1
            /\ UNCHANGED <<release, cur, round, perf_update_flag>>
    /\ UNCHANGED <<workerVars, policy, grant, relVars, aggVars, up, down>>

-----------------------------------------------------------------------------
(* Servers: receiving threads *)

Alive(n) == n \notin fault

\* An empty route leaves the relations alone.
HasRoute(rel) == rel # Empty

\* ProcessRouteReleaseCommand at a server: forward to the own worker, then
\* parse a policy into the _temp vectors.
ServerRelease(n) ==
    /\ Alive(n)
    /\ release[n] # None
    /\ release' = [release EXCEPT ![n] = None]
    /\ grant' = [grant EXCEPT ![n] = release[n]]
    /\ IF HasRoute(release[n])
       THEN /\ temp' = [temp EXCEPT ![n] = release[n]]
            /\ init_flag' = [init_flag EXCEPT ![n] = FALSE]
       ELSE UNCHANGED <<temp, init_flag>>
    /\ UNCHANGED <<workerVars, schedVars, vanRel, kvRel, vanIters, kvIters,
                   aggVars, up, down>>

\* Hand a message to the customer's queue.
AcceptTwice(m) == up' = up /\ queue' = queue \cup {m}             \* mutant
Accept(m) == up' = up \ {m} /\ queue' = queue \cup {m}

\* A push of the own worker.  With another server for its root it goes
\* through ProcessReply1Command, which may update the Van's relations.
ProcessReply1Command(m) ==
    /\ m \in up /\ m.worker /\ Alive(m.to)
    /\ LET n == m.to
           upd == /\ RootOf[m.key] # n
                  /\ m.iters # vanIters[n]
                  /\ ~init_flag[n]
       IN  /\ vanIters' = IF upd THEN [vanIters EXCEPT ![n] = m.iters] ELSE vanIters
           /\ vanRel' = IF upd THEN [vanRel EXCEPT ![n] = temp[n]] ELSE vanRel
    /\ Accept(m)
    /\ UNCHANGED <<workerVars, schedVars, release, grant, temp, kvRel,
                   init_flag, kvIters, update_buf, store, fault, down>>

\* A push of another server, on the receiving thread of another interface
\* than the scheduler's: nothing orders it after the release its receiver
\* has been sent.  TimelyRelease assumes that the network does.
ProcessDataMsg(m) ==
    /\ m \in up /\ ~m.worker /\ Alive(m.to)
    /\ TimelyRelease => release[m.to] = None
    /\ Accept(m)
    /\ UNCHANGED <<workerVars, schedVars, release, grant, relVars, update_buf,
                   store, fault, down>>

\* The result reached server d.to: multicast it to the sons of d.root in the
\* Van's relations, the own worker among them.
ProcessReply2Command(d) ==
    /\ d \in down /\ ~d.worker /\ Alive(d.to)
    /\ IF vanRel[d.to] = NoPolicy
       THEN fault' = fault \cup {d.to} /\ down' = down \ {d}
       ELSE /\ fault' = fault
            /\ down' = (down \ {d}) \cup
                  {[d EXCEPT !.to = s, !.worker = (s = d.to)] :
                        s \in sons(vanRel[d.to], d.root, d.to)}
    /\ UNCHANGED <<workerVars, schedVars, release, grant, relVars, queue,
                   update_buf, store, up>>

-----------------------------------------------------------------------------
(* Servers: customer thread *)

\* Mutant: the response is built before the update is applied.
ResponseStale(n, rel, k, v) ==
    {[key |-> k, root |-> n, to |-> s, worker |-> (s = n), vals |-> store[k]] :
        s \in sons(rel, n, n)}

\* KVServer::ResponseAll of server n, root of the tree the sons belong to.
ResponseAll(n, rel, k, v) ==
    {[key |-> k, root |-> n, to |-> s, worker |-> (s = n), vals |-> v] :
        s \in sons(rel, n, n)}

\* KVServer::Push to the parent.
PushToParent(n, rel, m, v) ==
    [key |-> m.key, iters |-> m.iters, src |-> n, worker |-> FALSE,
     to |-> parents(rel, RootOf[m.key], n), vals |-> v]

\* The buffer with the values of m merged into it.
MergeOverwrites(b, m) ==                                          \* mutant
    [request |-> b.request + 1, merged |-> m.vals]
Merge(b, m) ==
    [request |-> b.request + 1,
     merged  |-> IF b.request = 0 THEN m.vals ELSE b.merged \cup m.vals]

\* DataHandleDefault and ApplyUpdates, in synchronous mode.  The first value
\* of an iteration replaces the stored array by a fresh one, written {}.
DataHandleDefault(n, m, rel) ==
    LET k    == m.key
        r    == RootOf[k]
        b    == Merge(update_buf[n][k], m)
        full == b.request = Cardinality(sons(rel, r, n))
    IN  \/ /\ n # r /\ full
           /\ up' = up \cup {PushToParent(n, rel, m, b.merged)}
           /\ update_buf' = [update_buf EXCEPT ![n][k] = NoBuf]
           /\ UNCHANGED <<store, down>>
        \/ /\ IF n = r THEN full \/ b.request = Cardinality(Node)
                       ELSE ~full /\ b.request = Cardinality(Node)
           /\ store' = IF n = r THEN [store EXCEPT ![k] = b.merged] ELSE store
           /\ down' = down \cup ResponseAll(n, rel, k, b.merged)
           /\ update_buf' = [update_buf EXCEPT ![n][k] = NoBuf]
           /\ UNCHANGED up
        \/ /\ ~full /\ b.request # Cardinality(Node)
           /\ update_buf' = [update_buf EXCEPT ![n][k] = b]
           /\ store' = IF n = r /\ b.request = 1 THEN [store EXCEPT ![k] = {}] ELSE store
           /\ UNCHANGED <<up, down>>

\* KVServer::Process: RelationUpdate when the iteration changes and a policy
\* is waiting, then the request handle.
ServerProcess(m) ==
    /\ m \in queue /\ Alive(m.to)
    /\ queue' = queue \ {m}
    /\ LET n   == m.to
           upd == m.iters # kvIters[n] /\ ~init_flag[n]
           rel == IF upd THEN temp[n] ELSE kvRel[n]
       IN  /\ kvRel' = [kvRel EXCEPT ![n] = rel]
           /\ vanRel' = IF upd THEN [vanRel EXCEPT ![n] = rel] ELSE vanRel
           /\ kvIters' = IF upd THEN [kvIters EXCEPT ![n] = m.iters] ELSE kvIters
           /\ init_flag' = IF upd THEN [init_flag EXCEPT ![n] = TRUE] ELSE init_flag
           /\ IF rel = NoPolicy
              THEN fault' = fault \cup {n} /\ UNCHANGED <<update_buf, store, up, down>>
              ELSE fault' = fault /\ DataHandleDefault(n, m, rel)
    /\ UNCHANGED <<workerVars, schedVars, release, grant, temp, vanIters>>

-----------------------------------------------------------------------------
Next ==
    \/ \E w \in Node : TopoUpdate(w)
    \/ \E w \in Node : TopoUpdated(w)
    \/ \E w \in Node : \E k \in Key : ZPush(w, k)
    \/ \E d \in down : WorkerProcess(d)
    \/ route_update
    \/ \E w \in Node : SchedulerRelease(w)
    \/ \E n \in Node : ServerRelease(n)
    \/ \E m \in up : ProcessReply1Command(m)
    \/ \E m \in up : ProcessDataMsg(m)
    \/ \E d \in down : ProcessReply2Command(d)
    \/ \E m \in queue : ServerProcess(m)

Spec == Init /\ [][Next]_vars

\* Every thread involved keeps running and the network delivers: the
\* scheduler's and the servers' receiving threads, the customer threads, the
\* workers' engine and training loop.  Nothing is assumed of Route_Manager.
Fairness ==
    /\ \A w \in Node :
          /\ WF_vars(TopoUpdate(w))
          /\ WF_vars(TopoUpdated(w))
          /\ WF_vars(\E k \in Key : ZPush(w, k))
          /\ WF_vars(\E d \in down : d.to = w /\ WorkerProcess(d))
          /\ WF_vars(SchedulerRelease(w))
    /\ \A n \in Node :
          /\ WF_vars(ServerRelease(n))
          /\ WF_vars(\E m \in up : m.to = n /\ ProcessReply1Command(m))
          /\ WF_vars(\E m \in up : m.to = n /\ ProcessDataMsg(m))
          /\ WF_vars(\E d \in down : d.to = n /\ ProcessReply2Command(d))
          /\ WF_vars(\E m \in queue : m.to = n /\ ServerProcess(m))

FairSpec == Spec /\ Fairness

-----------------------------------------------------------------------------
(* Properties *)

Releases == Policies \cup {Empty, None}
Rels == Policies \cup {NoPolicy}

\* Every variable of workers, scheduler, servers and network has its type.
TypeOK ==
    /\ iter_count \in [Node -> 0..MaxIter]
    /\ asking \subseteq Node
    /\ unsent \in [Node -> SUBSET Key]
    /\ pending \in [Node -> SUBSET Key]
    /\ recved \in [Node -> [Key -> SUBSET Contrib]]
    /\ asks \subseteq Node
    /\ notify_count \in Nat
    /\ perf_update_flag \in BOOLEAN
    /\ policy \in Policies
    /\ release \in [Node -> Releases]
    /\ grant \in [Node -> Releases]
    /\ temp \in [Node -> Rels]
    /\ vanRel \in [Node -> Rels]
    /\ kvRel \in [Node -> Rels]
    /\ init_flag \in [Node -> BOOLEAN]
    /\ vanIters \in [Node -> 0..MaxIter]
    /\ kvIters \in [Node -> 0..MaxIter]
    /\ queue \subseteq UpMsg
    /\ update_buf \in [Node -> [Key -> Buf]]
    /\ store \in [Key -> SUBSET Contrib]
    /\ fault \subseteq Node
    /\ up \subseteq UpMsg
    /\ down \subseteq DownMsg
    /\ round \in 0..MaxIter
    /\ cur \in Rels

\* The stored value is updated only to the sum of one push of every worker,
\* all of the same iteration (update_buf_ in kvstore_dist_server.h: "The
\* store will be updated to this value when values from all workers are
\* pushed into this buffer").
SumComplete ==
    \A k \in Key : store[k] # {} => \E t \in 1..MaxIter : store[k] = Round(t)

\* A worker whose push of k has completed holds the sum of its own
\* iteration, the value the next trainer.step is computed from.
ResultOfIteration ==
    \A w \in Node : \A k \in Key \ pending[w] :
        iter_count[w] > 0 => recved[w][k] = Round(iter_count[w])

\* A contribution is at one place at a time: in one message or queue entry
\* or in one server's buffer, never in two, so no sum counts it twice.
NoDoubleCount ==
    /\ up \cap queue = {}
    /\ \A m1, m2 \in up \cup queue :
          m1.key = m2.key /\ m1 # m2 => m1.vals \cap m2.vals = {}
    /\ \A m \in up \cup queue : \A n \in Node :
          m.vals \cap update_buf[n][m.key].merged = {}
    /\ \A n1, n2 \in Node : \A k \in Key :
          n1 # n2 => update_buf[n1][k].merged \cap update_buf[n2][k].merged = {}

\* No server uses the relations of a tree before it has been given any.
NoFault == fault = {}

\* RelationUpdate never changes the tree of a server that has merged only
\* some of its sons' values.
TreeStable ==
    [][\A n \in Node : kvRel'[n] # kvRel[n] =>
          \A k \in Key : update_buf[n][k] = NoBuf]_vars

\* ProcessReply2Command walks through the Van's sons without a lock, on a
\* receiving thread, while RelationUpdate clears and refills them on others:
\* as long as a result is on its way to a server, no thread of the server has,
\* or can be given, relations to switch to.
MulticastUndisturbed ==
    \A d \in down : ~d.worker => init_flag[d.to] /\ release[d.to] = None

\* A worker that asks for the topology gets through its iteration.
IterationCompletes ==
    \A w \in Node : w \in asking ~> (w \notin asking /\ pending[w] = {})

\* The trees, releases and multicasts implement the synchronous store.
Sync == INSTANCE SyncStore
ImplementsSyncStore == Sync!Spec
=============================================================================
