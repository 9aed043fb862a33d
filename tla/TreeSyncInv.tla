---------------------------- MODULE TreeSyncInv ----------------------------
(***************************************************************************)
(* The inductive invariants of TreeSync, as conjunctions of named parts.   *)
(* ConserveInv holds on every network; AggInv also needs TimelyRelease.    *)
(***************************************************************************)
EXTENDS TreeSync

-----------------------------------------------------------------------------
(* The release protocol *)

\* A worker whose release is on its way.
Granting(w) == release[w] # None \/ grant[w] # None

\* Workers the scheduler has counted since the last release.
Notified == {w \in asking \ asks : ~Granting(w)}

\* Workers and scheduler agree on the round: the release waits for everyone,
\* and a worker is behind by the release it has not received yet.
ReleaseInv ==
    /\ asks \subseteq asking
    /\ notify_count = Cardinality(Notified)
    /\ \A w \in Node :
          /\ Granting(w) => w \in asking \ asks
          /\ release[w] # None => grant[w] = None
          /\ w \in asking => iter_count[w] < MaxIter /\ pending[w] = {}
          /\ unsent[w] \subseteq pending[w]
          /\ IF Granting(w) THEN round = iter_count[w] + 1 ELSE round = iter_count[w]
          /\ iter_count[w] = 0 => pending[w] = {}

-----------------------------------------------------------------------------
(* Conservation *)

\* Contribution c to k has been pushed.
Pushed(c, k) ==
    /\ c[2] <= iter_count[c[1]]
    /\ c[2] = iter_count[c[1]] => k \notin unsent[c[1]]

FreshInv ==
    /\ \A m \in up \cup queue : \A c \in m.vals : Pushed(c, m.key)
    /\ \A n \in Node : \A k \in Key : \A c \in update_buf[n][k].merged : Pushed(c, k)

EmptyBufInv ==
    /\ \A n \in Node : \A k \in Key :
          update_buf[n][k].request = 0 => update_buf[n][k].merged = {}
    /\ \A m \in up \cup queue : m.vals # {}

ConserveInv == TypeOK /\ ReleaseInv /\ FreshInv /\ EmptyBufInv /\ NoDoubleCount

-----------------------------------------------------------------------------
(* Aggregation, given TimelyRelease *)

\* Which policy a server will use: the one in force, unless its release is
\* still to be handled; and the iteration check cannot miss the change.
RelationInv ==
    /\ round = 0 => perf_update_flag /\ cur = NoPolicy
    /\ round > 0 => cur \in Policies
    /\ \A n \in Node :
          /\ init_flag[n] => kvRel[n] = temp[n] /\ vanRel[n] = temp[n]
          /\ IF release[n] \in {None, Empty} THEN temp[n] = cur ELSE release[n] = cur
          /\ kvIters[n] <= round
          /\ (release[n] # None \/ ~init_flag[n]) => kvIters[n] < round

\* S has the contribution of x to the current round.
Has(S, x) == <<x, round>> \in S

\* Contributions S to the tree of root r contain, with every server but
\* the exempt ones, all its children.
ChildClosed(S, r, exempt) ==
    \A x \in Node \ {r} :
        Has(S, NextHop[cur][r][x]) /\ NextHop[cur][r][x] \notin exempt => Has(S, x)

\* Apart from the exempt servers, S has with a server its parent.
ParentClosed(S, r, exempt) ==
    \A x \in Node \ exempt :
        Has(S, x) => x # r /\ Has(S, NextHop[cur][r][x])

\* Every server with a contribution in S uses the relations of the round.
Settled(S) == \A x \in Node : Has(S, x) => init_flag[x]

\* A message carries exactly the contributions of its sender's subtree.
MessageOK(m) ==
    LET r == RootOf[m.key] IN
    /\ m.iters = round
    /\ m.vals \subseteq Round(round)
    /\ Has(m.vals, m.src)
    /\ m.worker => m.to = m.src /\ m.vals = {<<m.src, round>>}
    /\ ~m.worker =>
          /\ m.src # r
          /\ m.to = NextHop[cur][r][m.src]
          /\ ChildClosed(m.vals, r, {})
          /\ ParentClosed(m.vals, r, {m.src})
          /\ Settled(m.vals)

MessageInv ==
    /\ \A m \in up \cup queue : MessageOK(m)
    /\ \A m \in up : m.worker => release[m.to] = None
    /\ \A m \in queue : release[m.to] = None

\* Sons of n whose value has been merged into S.
Tops(S, n, r) == {x \in sons(cur, r, n) : Has(S, x)}

\* A buffer is made of the subtrees of the sons merged so far, and counts
\* one request for each.
BufferOK(b, n, r) ==
    /\ b.merged \subseteq Round(round)
    /\ b.request = Cardinality(Tops(b.merged, n, r))
    /\ ChildClosed(b.merged, r, {n})
    /\ ParentClosed(b.merged, r, sons(cur, r, n))
    /\ n # r => ~Has(b.merged, r)
    /\ Settled(b.merged)

BufferInv ==
    \A n \in Node : \A k \in Key :
        IF round = 0 THEN update_buf[n][k] = NoBuf
                     ELSE BufferOK(update_buf[n][k], n, RootOf[k])

\* The key has been reduced in the current round.
Reduced(k) == round > 0 /\ store[k] = Round(round)

StoreInv ==
    \A k \in Key :
        /\ store[k] = {} \/ \E t \in 1..round : store[k] = Round(t)
        /\ Reduced(k) =>
              /\ \A m \in up \cup queue : m.key # k
              /\ \A n \in Node : /\ update_buf[n][k] = NoBuf
                                 /\ init_flag[n]
                                 /\ ~Granting(n)
                                 /\ k \notin unsent[n]

\* Server n has multicast the result, or its worker has received it.
Got(n, k) == iter_count[n] = round /\ k \notin pending[n]
Passed(n, k) == Got(n, k) \/ \E d \in down : d.key = k /\ d.to = n /\ d.worker
Reached(n, k) == Passed(n, k) \/ \E d \in down : d.key = k /\ d.to = n

MulticastInv ==
    /\ \A d \in down :
          /\ Reduced(d.key)
          /\ d.vals = store[d.key]
          /\ d.root = RootOf[d.key]
          /\ d.key \in pending[d.to]
          /\ ~d.worker => d.to # d.root /\ ~Passed(d.to, d.key)
    /\ \A d1, d2 \in down : d1.key = d2.key /\ d1.to = d2.to => d1 = d2
    /\ round > 0 => \A k \in Key : \A n \in Node \ {RootOf[k]} :
          Reached(n, k) => Passed(NextHop[cur][RootOf[k]][n], k)
    /\ round > 0 => \A k \in Key : \A n \in Node :
          Got(n, k) => Reduced(k)

TreeInv ==
    /\ RelationInv
    /\ MessageInv
    /\ BufferInv
    /\ StoreInv
    /\ MulticastInv
    /\ ResultOfIteration
    /\ NoFault

AggInv == ConserveInv /\ TreeInv

\* A server that has merged something has taken its relations over, and its
\* next release waits for the sum (for TreeStable).
StableInv ==
    \A n \in Node : \A k \in Key :
        update_buf[n][k] # NoBuf => init_flag[n] /\ release[n] = None
=============================================================================
