--------------------------- MODULE TreeSyncProofs ---------------------------
(***************************************************************************)
(* Conservation of contributions in TreeSync, proved for every set of      *)
(* nodes, keys and policies and for every network; then correctness of the *)
(* sums on a network that delivers releases in time, where TreeSync        *)
(* implements SyncStore and keeps the tree of a sum under way.             *)
(***************************************************************************)
EXTENDS TreeSyncInv, FiniteSetTheorems, TLAPS

\* The two special contents of a ROUTE_RELEASE differ.
LEMMA ReleaseTypes == None \in Releases /\ Empty \in Releases /\ Empty # None
BY DEF Releases, None, Empty

\* A policy is no special value.
LEMMA PolicyTypes ==
    /\ Policies \subseteq Releases /\ Policies \subseteq Rels
    /\ NoPolicy \in Rels
    /\ \A p \in Policies : p # None /\ p # Empty /\ p # NoPolicy
BY PolicyAssumption DEF Releases, Rels

-----------------------------------------------------------------------------
(* Init *)

\* The state the processes start in satisfies the invariant.
THEOREM ConserveInit == Init => ConserveInv
<1> SUFFICES ASSUME Init PROVE ConserveInv
  OBVIOUS
<1> USE DEF Init
<1>1. TypeOK
  BY ReleaseTypes, PolicyTypes, BoundAssumption DEF TypeOK, NoBuf, Buf, Contrib
<1>2. ReleaseInv
  <2>1. Notified = {}
    BY DEF Notified
  <2>2. notify_count = Cardinality(Notified)
    BY <2>1, FS_EmptySet
  <2> QED
    BY <2>2 DEF ReleaseInv, Granting
<1>3. FreshInv /\ EmptyBufInv /\ NoDoubleCount
  BY DEF FreshInv, EmptyBufInv, NoDoubleCount, NoBuf
<1> QED
  BY <1>1, <1>2, <1>3 DEF ConserveInv

-----------------------------------------------------------------------------
(* The release protocol *)

\* Nothing but the counters of the release protocol has changed.
LEMMA AfloatStutters ==
    ASSUME FreshInv, EmptyBufInv, NoDoubleCount,
           UNCHANGED <<iter_count, unsent, up, queue, update_buf>>
    PROVE  FreshInv' /\ EmptyBufInv' /\ NoDoubleCount'
BY DEF FreshInv, Pushed, EmptyBufInv, NoDoubleCount

\* A worker's request for the topology.
LEMMA TopoUpdateConserves ==
    ASSUME ConserveInv, NEW w \in Node, TopoUpdate(w)
    PROVE  ConserveInv'
<1> USE DEF ConserveInv, TopoUpdate, Drained
<1>1. TypeOK'
  BY DEF TypeOK, relVars, aggVars
<1>2. ReleaseInv'
  <2>1. Notified' = Notified
    BY DEF Notified, Granting, ReleaseInv
  <2> QED
    BY <2>1 DEF ReleaseInv, Granting
<1>3. FreshInv' /\ EmptyBufInv' /\ NoDoubleCount'
  BY AfloatStutters DEF aggVars
<1> QED
  BY <1>1, <1>2, <1>3

\* The end of the spin: the worker's iteration advances, so what is afloat is
\* older than what it will push.
LEMMA TopoUpdatedConserves ==
    ASSUME ConserveInv, NEW w \in Node, TopoUpdated(w)
    PROVE  ConserveInv'
<1> USE DEF ConserveInv, TopoUpdated
<1>1. TypeOK'
  BY ReleaseTypes, BoundAssumption
  DEF TypeOK, relVars, aggVars, schedVars, ReleaseInv, Granting
<1>2. ReleaseInv'
  <2>1. Notified' = Notified
    BY DEF Notified, Granting, ReleaseInv, schedVars, TypeOK
  <2> QED
    BY <2>1, BoundAssumption DEF ReleaseInv, Granting, schedVars, TypeOK
<1>3. FreshInv'
  <2>1. \A v \in Node : iter_count'[v] = iter_count[v] \/ (v = w /\ iter_count'[v] = iter_count[v] + 1)
    BY DEF TypeOK
  <2>2. \A v \in Node \ {w} : unsent'[v] = unsent[v]
    BY DEF TypeOK
  <2>3. \A c \in Contrib : \A k \in Key : Pushed(c, k) => Pushed(c, k)'
    BY <2>1, <2>2, BoundAssumption DEF Contrib, TypeOK, Pushed
  <2> QED
    BY <2>3 DEF FreshInv, TypeOK, UpMsg, Buf, aggVars
<1>4. EmptyBufInv' /\ NoDoubleCount'
  BY DEF aggVars, EmptyBufInv, NoDoubleCount
<1> QED
  BY <1>1, <1>2, <1>3, <1>4

\* The scheduler counts a request; with the last one every worker is waiting.
LEMMA SchedulerReleaseConserves ==
    ASSUME ConserveInv, NEW w \in Node, SchedulerRelease(w)
    PROVE  ConserveInv'
<1> USE DEF ConserveInv, SchedulerRelease, AllNotified, Released
<1>1. /\ IsFiniteSet(Notified) /\ Notified \subseteq Node /\ w \notin Notified
      /\ Notified \cup {w} \subseteq asking
  BY NodeAssumption, FS_Subset DEF Notified, ReleaseInv, TypeOK
<1>2. Cardinality(Notified \cup {w}) = notify_count + 1
  BY <1>1, FS_AddElement DEF ReleaseInv
<1>3. ~Granting(w)
  BY DEF ReleaseInv
<1>4. ASSUME notify_count + 1 # Cardinality(Node)
      PROVE  TypeOK' /\ ReleaseInv'
  <2>1. TypeOK'
    BY <1>4 DEF TypeOK, relVars, aggVars, workerVars
  <2>2. Notified' = Notified \cup {w}
    BY <1>4, <1>3 DEF Notified, Granting, ReleaseInv, workerVars
  <2> QED
    BY <2>1, <2>2, <1>2, <1>4 DEF ReleaseInv, Granting, workerVars
<1>5. ASSUME notify_count + 1 = Cardinality(Node)
      PROVE  TypeOK' /\ ReleaseInv'
  <2>1. Notified \cup {w} = Node
    BY <1>1, <1>2, <1>5, NodeAssumption, FS_Subset
  <2>2. \A v \in Node : v \in asking /\ v \notin asks' /\ ~Granting(v)
    BY <2>1, <1>1, <1>3 DEF Notified
  <2>3. round \in Nat /\ round + 1 \in 0..MaxIter
    BY <2>2, NodeAssumption, BoundAssumption DEF ReleaseInv, TypeOK
  <2>4. release' \in [Node -> Releases] /\ \A v \in Node : release'[v] # None
    BY <1>5, PolicyTypes, ReleaseTypes DEF TypeOK
  <2>5. TypeOK'
    <3>1. round' \in 0..MaxIter /\ cur' \in Rels
      BY <1>5, <2>3, PolicyTypes DEF TypeOK
    <3>2. asks' \subseteq Node /\ notify_count' \in Nat
      BY <1>5 DEF TypeOK
    <3>3. perf_update_flag' \in BOOLEAN
      BY <1>5, Zenon
    <3> QED
      BY <2>4, <3>1, <3>2, <3>3 DEF TypeOK, relVars, aggVars, workerVars
  <2>6. Notified' = {}
    BY <2>4, <2>5 DEF Notified, Granting, TypeOK
  <2>7. notify_count' = Cardinality(Notified')
    BY <1>5, <2>6, FS_EmptySet
  <2>8. asks' \subseteq asking' /\ \A v \in Node : grant'[v] = None
    BY <2>2 DEF Granting, ReleaseInv, workerVars
  <2> QED
    BY <1>5, <2>2, <2>4, <2>5, <2>7, <2>8 DEF ReleaseInv, Granting, workerVars, TypeOK
<1>6. FreshInv' /\ EmptyBufInv' /\ NoDoubleCount'
  BY AfloatStutters DEF aggVars, workerVars
<1> QED
  BY <1>4, <1>5, <1>6

\* A server forwards its release: its worker is still being granted.
LEMMA ServerReleaseConserves ==
    ASSUME ConserveInv, NEW n \in Node, ServerRelease(n)
    PROVE  ConserveInv'
<1> USE DEF ConserveInv, ServerRelease, HasRoute
<1>1. TypeOK'
  BY ReleaseTypes, PolicyTypes
  DEF TypeOK, workerVars, schedVars, aggVars, Releases
<1>2. ReleaseInv'
  <2>1. \A w \in Node : Granting(w)' <=> Granting(w)
    BY DEF Granting, TypeOK
  <2>2. Notified' = Notified
    BY <2>1 DEF Notified, schedVars, workerVars, TypeOK
  <2>3. \A w \in Node : release'[w] # None => grant'[w] = None
    BY DEF ReleaseInv, TypeOK
  <2> QED
    BY <2>1, <2>2, <2>3 DEF ReleaseInv, schedVars, workerVars, TypeOK
<1>3. FreshInv' /\ EmptyBufInv' /\ NoDoubleCount'
  BY AfloatStutters DEF aggVars, workerVars
<1> QED
  BY <1>1, <1>2, <1>3

\* New routes at the scheduler.
LEMMA RouteUpdateConserves ==
    ASSUME ConserveInv, route_update
    PROVE  ConserveInv'
<1> USE DEF ConserveInv, route_update
<1>1. TypeOK'
  <2>1. policy' \in Policies
    OBVIOUS
  <2>2. perf_update_flag' \in BOOLEAN
    BY Zenon
  <2> QED
    BY <2>1, <2>2 DEF TypeOK, workerVars, relVars, aggVars
<1>2. ReleaseInv'
  BY DEF ReleaseInv, Notified, Granting, workerVars
<1>3. FreshInv' /\ EmptyBufInv' /\ NoDoubleCount'
  BY AfloatStutters DEF aggVars, workerVars
<1> QED
  BY <1>1, <1>2, <1>3

-----------------------------------------------------------------------------
(* Messages *)

\* The release protocol does not look at values.
LEMMA ReleaseStutters ==
    ASSUME ReleaseInv,
           UNCHANGED <<iter_count, asking, unsent, pending, asks, notify_count,
                       release, grant, round>>
    PROVE  ReleaseInv'
BY DEF ReleaseInv, Notified, Granting

\* A worker's push is the first appearance of its contribution.
LEMMA ZPushConserves ==
    ASSUME ConserveInv, NEW w \in Node, NEW k \in Key, ZPush(w, k)
    PROVE  ConserveInv'
<1> DEFINE p == [key |-> k, iters |-> iter_count[w], src |-> w,
                 worker |-> TRUE, to |-> w, vals |-> {<<w, iter_count[w]>>}]
<1> USE DEF ConserveInv
<1>0. /\ k \in unsent[w] /\ up' = up \cup {p}
      /\ unsent' = [unsent EXCEPT ![w] = @ \ {k}]
      /\ UNCHANGED <<iter_count, asking, pending, recved, schedVars, release,
                     grant, relVars, aggVars, down>>
  BY DEF ZPush
<1>1. iter_count[w] \in 1..MaxIter
  BY <1>0, BoundAssumption DEF TypeOK, ReleaseInv
<1>2. p \in UpMsg
  BY <1>1 DEF UpMsg, Contrib
<1>3. TypeOK'
  BY <1>0, <1>2 DEF TypeOK, schedVars, relVars, aggVars
<1>4. ReleaseInv'
  BY <1>0 DEF ReleaseInv, Notified, Granting, schedVars, TypeOK
<1>5. \A v \in Node : unsent'[v] \subseteq unsent[v] /\ (k \notin unsent'[w])
  BY <1>0 DEF TypeOK
<1>5a. p.key = k /\ p.vals # {}
  <2>1. <<w, iter_count[w]>> \in p.vals
    OBVIOUS
  <2> QED
    BY <2>1
<1>6. FreshInv'
  <2>1. \A c \in p.vals : Pushed(c, k)'
    BY <1>0, <1>1, <1>5 DEF Pushed
  <2>2. \A c \in Contrib : \A y \in Key : Pushed(c, y) => Pushed(c, y)'
    BY <1>0, <1>5 DEF Pushed, Contrib
  <2>3. \A m \in up \cup queue : m.vals \subseteq Contrib /\ m.key \in Key
    BY DEF TypeOK, UpMsg
  <2>4. \A n \in Node : \A y \in Key : update_buf[n][y].merged \subseteq Contrib
    BY DEF TypeOK, Buf
  <2> HIDE DEF p
  <2> QED
    BY <1>0, <1>5a, <2>1, <2>2, <2>3, <2>4 DEF FreshInv, aggVars
<1>7. EmptyBufInv'
  BY <1>0, <1>5a DEF EmptyBufInv, aggVars
<1>8. NoDoubleCount'
  <2>1. \A m \in up \cup queue : m.key = k => m.vals \cap p.vals = {}
    BY <1>0 DEF FreshInv, Pushed
  <2>2. \A n \in Node : update_buf[n][k].merged \cap p.vals = {}
    BY <1>0 DEF FreshInv, Pushed
  <2> HIDE DEF p
  <2>3. p \notin queue
    BY <2>1, <1>5a
  <2> QED
    BY <1>0, <2>1, <2>2, <2>3, <1>5a DEF NoDoubleCount, aggVars
<1> QED
  BY <1>3, <1>4, <1>6, <1>7, <1>8

\* A response completes a push, never one the engine has still to run.
LEMMA WorkerProcessConserves ==
    ASSUME ConserveInv, NEW d \in down, WorkerProcess(d)
    PROVE  ConserveInv'
<1>0. d.to \in Node /\ d.key \in Key /\ d.vals \subseteq Contrib
  BY DEF ConserveInv, TypeOK, DownMsg
<1>1. /\ pending \in [Node -> SUBSET Key]
      /\ recved \in [Node -> [Key -> SUBSET Contrib]]
      /\ \A w \in Node : unsent[w] \subseteq pending[w]
  BY DEF ConserveInv, TypeOK, ReleaseInv
<1>2. \/ UNCHANGED <<pending, recved>>
      \/ /\ d.key \in pending[d.to] \ unsent[d.to]
         /\ pending' = [pending EXCEPT ![d.to] = @ \ {d.key}]
         /\ recved' = [recved EXCEPT ![d.to][d.key] = d.vals]
  BY DEF WorkerProcess
<1>3. UNCHANGED <<iter_count, asking, unsent, schedVars, release, grant,
                  relVars, aggVars, up>> /\ down' = down \ {d}
  BY DEF WorkerProcess
<1>4. pending' \in [Node -> SUBSET Key]
  BY <1>0, <1>1, <1>2
<1>5. recved' \in [Node -> [Key -> SUBSET Contrib]]
  <2>1. [recved[d.to] EXCEPT ![d.key] = d.vals] \in [Key -> SUBSET Contrib]
    BY <1>0, <1>1
  <2> QED
    BY <1>0, <1>1, <1>2, <2>1
<1>6. TypeOK'
  BY <1>3, <1>4, <1>5 DEF ConserveInv, TypeOK, schedVars, relVars, aggVars
<1>7. \A w \in Node : /\ unsent[w] \subseteq pending'[w]
                      /\ pending'[w] \subseteq pending[w]
  BY <1>0, <1>1, <1>2
<1>8. ReleaseInv'
  BY <1>3, <1>7 DEF ConserveInv, ReleaseInv, Notified, Granting, schedVars
<1>9. FreshInv' /\ EmptyBufInv' /\ NoDoubleCount'
  BY <1>3, AfloatStutters DEF ConserveInv, aggVars
<1> QED
  BY <1>6, <1>8, <1>9 DEF ConserveInv

\* The multicast of a result touches no sum.
LEMMA ProcessReply2CommandConserves ==
    ASSUME ConserveInv, NEW d \in down, ProcessReply2Command(d)
    PROVE  ConserveInv'
<1> DEFINE copy(s) == [d EXCEPT !.to = s, !.worker = (s = d.to)]
           S == sons(vanRel[d.to], d.root, d.to)
<1>0. d \in DownMsg /\ d.to \in Node
  BY DEF ConserveInv, TypeOK, DownMsg
<1>1. \/ fault' = fault \cup {d.to} /\ down' = down \ {d}
      \/ fault' = fault /\ down' = (down \ {d}) \cup {copy(s) : s \in S}
  BY DEF ProcessReply2Command
<1>2. UNCHANGED <<workerVars, schedVars, release, grant, relVars, queue,
                  update_buf, store, up>>
  BY DEF ProcessReply2Command
<1>3. \A s \in Node : copy(s) \in DownMsg
  BY <1>0 DEF DownMsg
<1>4. S \subseteq Node
  BY <1>0 DEF sons
<1> HIDE DEF copy, S
<1>5. fault' \subseteq Node
  BY <1>0, <1>1 DEF ConserveInv, TypeOK
<1>6. down' \subseteq DownMsg
  BY <1>1, <1>3, <1>4 DEF ConserveInv, TypeOK
<1>7. TypeOK'
  BY <1>2, <1>5, <1>6 DEF ConserveInv, TypeOK, workerVars, schedVars, relVars
<1>8. ReleaseInv'
  BY <1>2, ReleaseStutters DEF ConserveInv, workerVars, schedVars
<1>9. FreshInv' /\ EmptyBufInv' /\ NoDoubleCount'
  BY <1>2, AfloatStutters DEF ConserveInv, workerVars
<1> QED
  BY <1>7, <1>8, <1>9 DEF ConserveInv

\* A message that is handed to the customer's queue stays where it counts.
LEMMA AcceptConserves ==
    ASSUME ConserveInv, NEW m \in up, Accept(m),
           UNCHANGED <<iter_count, unsent, update_buf>>
    PROVE  /\ up' \subseteq UpMsg /\ queue' \subseteq UpMsg
           /\ FreshInv' /\ EmptyBufInv' /\ NoDoubleCount'
<1>1. up' \cup queue' = up \cup queue /\ up' \cap queue' = {}
  BY DEF Accept, ConserveInv, NoDoubleCount
<1> QED
  BY <1>1 DEF Accept, ConserveInv, FreshInv, Pushed, EmptyBufInv, NoDoubleCount, TypeOK

\* A push of the own worker is queued.
LEMMA ProcessReply1CommandConserves ==
    ASSUME ConserveInv, NEW m \in up, ProcessReply1Command(m)
    PROVE  ConserveInv'
<1> USE DEF ConserveInv, ProcessReply1Command
<1>0. m.to \in Node /\ m.iters \in 0..MaxIter
  BY BoundAssumption DEF TypeOK, UpMsg
<1>1. vanIters' \in [Node -> 0..MaxIter] /\ vanRel' \in [Node -> Rels]
  BY <1>0 DEF TypeOK
<1>2. /\ up' \subseteq UpMsg /\ queue' \subseteq UpMsg
      /\ FreshInv' /\ EmptyBufInv' /\ NoDoubleCount'
  BY AcceptConserves DEF workerVars
<1>3. TypeOK'
  BY <1>1, <1>2 DEF TypeOK, workerVars, schedVars
<1>4. ReleaseInv'
  BY ReleaseStutters DEF workerVars, schedVars
<1> QED
  BY <1>2, <1>3, <1>4

\* A push of another server is queued.
LEMMA ProcessDataMsgConserves ==
    ASSUME ConserveInv, NEW m \in up, ProcessDataMsg(m)
    PROVE  ConserveInv'
<1> USE DEF ConserveInv, ProcessDataMsg
<1>1. /\ up' \subseteq UpMsg /\ queue' \subseteq UpMsg
      /\ FreshInv' /\ EmptyBufInv' /\ NoDoubleCount'
  BY AcceptConserves DEF workerVars
<1>2. TypeOK'
  BY <1>1 DEF TypeOK, workerVars, schedVars, relVars
<1>3. ReleaseInv'
  BY ReleaseStutters DEF workerVars, schedVars
<1> QED
  BY <1>1, <1>2, <1>3

-----------------------------------------------------------------------------
(* The request handle *)

\* Merging adds the message's values, also into a cleared buffer.
LEMMA MergeAdds ==
    ASSUME ConserveInv, NEW m \in queue
    PROVE  LET n == m.to
               k == m.key
               b == Merge(update_buf[n][k], m)
           IN  /\ n \in Node /\ k \in Key /\ b \in Buf
               /\ b.merged = update_buf[n][k].merged \cup m.vals
               /\ b.request = update_buf[n][k].request + 1
               /\ b.merged # {}
<1>1. m.to \in Node /\ m.key \in Key /\ m.vals \subseteq Contrib /\ m.vals # {}
  BY DEF ConserveInv, TypeOK, UpMsg, EmptyBufInv
<1>2. update_buf[m.to][m.key] \in Buf
  BY <1>1 DEF ConserveInv, TypeOK
<1>3. update_buf[m.to][m.key].request = 0 => update_buf[m.to][m.key].merged = {}
  BY <1>1 DEF ConserveInv, EmptyBufInv
<1> QED
  BY <1>1, <1>2, <1>3 DEF Merge, Buf

\* Whatever becomes of the merged values, they are afloat at most once: in
\* the buffer, in a push to the parent, or no more.
LEMMA HandledConserves ==
    ASSUME ConserveInv, NEW m \in queue, NEW nb, NEW sent, NEW q,
           q \in UpMsg, q.key = m.key,
           q.vals = update_buf[m.to][m.key].merged \cup m.vals,
           sent \in {{}, {q}},
           \/ nb = NoBuf
           \/ nb = update_buf[m.to][m.key] /\ sent = {}
           \/ /\ nb \in Buf /\ nb.request # 0 /\ sent = {}
              /\ nb.merged = update_buf[m.to][m.key].merged \cup m.vals,
           UNCHANGED <<iter_count, unsent>>,
           queue' = queue \ {m}, up' = up \cup sent,
           update_buf' = [update_buf EXCEPT ![m.to][m.key] = nb]
    PROVE  FreshInv' /\ EmptyBufInv' /\ NoDoubleCount'
<1> DEFINE n == m.to
           k == m.key
           B == update_buf[n][k].merged
<1>1. n \in Node /\ k \in Key /\ m.vals # {}
  BY DEF ConserveInv, TypeOK, UpMsg, EmptyBufInv
<1>2. \A x \in Node : \A y \in Key :
         update_buf'[x][y] = IF x = n /\ y = k THEN nb ELSE update_buf[x][y]
  BY <1>1 DEF ConserveInv, TypeOK
<1>3. \A x \in Node : \A y \in Key : ~(x = n /\ y = k) =>
         update_buf'[x][y] = update_buf[x][y]
  BY <1>2
<1>4. update_buf'[n][k] = nb
  BY <1>1, <1>2
<1>5. nb.merged \subseteq B \cup m.vals
  BY DEF NoBuf
<1>6. m \in queue /\ q.vals = B \cup m.vals /\ q.key = k /\ m \notin up
  BY DEF ConserveInv, NoDoubleCount
<1>7. FreshInv'
  <2>1. \A c \in B \cup m.vals : Pushed(c, k)
    BY <1>1 DEF ConserveInv, FreshInv
  <2>2. \A x \in up' \cup queue' : x \in up \cup queue \/ x = q
    OBVIOUS
  <2>3. \A x \in up' \cup queue' : \A c \in x.vals : Pushed(c, x.key)
    BY <1>6, <2>1, <2>2 DEF ConserveInv, FreshInv
  <2>4. \A x \in Node : \A y \in Key : \A c \in update_buf'[x][y].merged : Pushed(c, y)
    BY <1>3, <1>4, <1>5, <2>1 DEF ConserveInv, FreshInv
  <2>5. \A c, y : Pushed(c, y)' <=> Pushed(c, y)
    BY DEF Pushed
  <2> QED
    BY <2>3, <2>4, <2>5 DEF FreshInv
<1>8. EmptyBufInv'
  <2>1. nb.request = 0 => nb.merged = {}
    BY <1>1 DEF ConserveInv, EmptyBufInv, NoBuf
  <2>2. \A x \in up' \cup queue' : x.vals # {}
    BY <1>1 DEF ConserveInv, EmptyBufInv
  <2> QED
    BY <1>3, <1>4, <2>1, <2>2 DEF ConserveInv, EmptyBufInv
<1>9. NoDoubleCount'
  <2> USE DEF ConserveInv, NoDoubleCount
  <2>1. \A x \in (up \cup queue) \ {m} : x.key = k => x.vals \cap (B \cup m.vals) = {}
    BY <1>1
  <2>2. \A x \in Node : x # n => update_buf[x][k].merged \cap (B \cup m.vals) = {}
    BY <1>1
  <2>3. up' \cap queue' = {}
    BY <1>1, <1>6, <2>1
  <2>4. \A x \in up' \cup queue' : x \in (up \cup queue) \ {m} \/ (x = q /\ sent = {q})
    BY <1>6
  <2>5. \A x, y \in up' \cup queue' : x.key = y.key /\ x # y => x.vals \cap y.vals = {}
    BY <1>6, <2>1, <2>4
  <2>6. sent = {q} => nb.merged = {}
    BY DEF NoBuf
  <2>7. \A x \in up' \cup queue' : \A y \in Node : x.vals \cap update_buf'[y][x.key].merged = {}
    <3> SUFFICES ASSUME NEW x \in up' \cup queue', NEW y \in Node
                 PROVE  x.vals \cap update_buf'[y][x.key].merged = {}
      OBVIOUS
    <3>1. x.key \in Key
      BY <2>4, <1>6, <1>1 DEF TypeOK, UpMsg
    <3>2. CASE x = q /\ sent = {q}
      BY <3>1, <3>2, <1>3, <1>4, <1>6, <2>2, <2>6
    <3>3. CASE x \in (up \cup queue) \ {m}
      <4>1. CASE y = n /\ x.key = k
        BY <4>1, <3>3, <1>4, <1>5, <2>1
      <4>2. CASE ~(y = n /\ x.key = k)
        BY <4>2, <3>1, <3>3, <1>3
      <4> QED
        BY <4>1, <4>2
    <3> QED
      BY <2>4, <3>2, <3>3
  <2>8. \A x, y \in Node : \A z \in Key :
           x # y => update_buf'[x][z].merged \cap update_buf'[y][z].merged = {}
    <3> SUFFICES ASSUME NEW x \in Node, NEW y \in Node, NEW z \in Key, x # y
                 PROVE  update_buf'[x][z].merged \cap update_buf'[y][z].merged = {}
      OBVIOUS
    <3>1. CASE z = k /\ x = n
      BY <3>1, <1>3, <1>4, <1>5, <2>2
    <3>2. CASE z = k /\ y = n
      BY <3>2, <1>3, <1>4, <1>5, <2>2
    <3>3. CASE ~(z = k /\ x = n) /\ ~(z = k /\ y = n)
      BY <3>3, <1>3
    <3> QED
      BY <3>1, <3>2, <3>3
  <2> QED
    BY <2>3, <2>5, <2>7, <2>8
<1> QED
  BY <1>7, <1>8, <1>9

\* What ServerProcess does to the buffer and the network, by case.
LEMMA ServerProcessCases ==
    ASSUME ConserveInv, NEW m \in queue, ServerProcess(m)
    PROVE  LET n   == m.to
               upd == m.iters # kvIters[n] /\ ~init_flag[n]
               rel == IF upd THEN temp[n] ELSE kvRel[n]
           IN  /\ rel \in Rels
               /\ \/ UNCHANGED <<update_buf, store, up, down>>
                  \/ /\ rel \in Policies
                     /\ fault' = fault
                     /\ DataHandleDefault(n, m, rel)
<1>1. m.to \in Node
  BY DEF ConserveInv, TypeOK, UpMsg
<1> QED
  BY <1>1 DEF ServerProcess, ConserveInv, TypeOK, Rels

\* RelationUpdate on the customer thread keeps types.
LEMMA ServerProcessRelTypes ==
    ASSUME ConserveInv, NEW m \in queue, ServerProcess(m)
    PROVE  /\ kvRel' \in [Node -> Rels] /\ vanRel' \in [Node -> Rels]
           /\ kvIters' \in [Node -> 0..MaxIter]
           /\ init_flag' \in [Node -> BOOLEAN]
           /\ fault' \subseteq Node
<1>1. m.to \in Node /\ m.iters \in 0..MaxIter
  BY BoundAssumption DEF ConserveInv, TypeOK, UpMsg
<1>2. kvRel' \in [Node -> Rels] /\ vanRel' \in [Node -> Rels]
  BY <1>1 DEF ServerProcess, ConserveInv, TypeOK
<1>3. kvIters' \in [Node -> 0..MaxIter]
  BY <1>1 DEF ServerProcess, ConserveInv, TypeOK
<1>4. init_flag' \in [Node -> BOOLEAN]
  BY <1>1 DEF ServerProcess, ConserveInv, TypeOK
<1>5. fault' \subseteq Node
  BY <1>1 DEF ServerProcess, ConserveInv, TypeOK
<1> QED
  BY <1>2, <1>3, <1>4, <1>5

\* The push to the parent is a well-formed message.
LEMMA PushToParentType ==
    ASSUME NEW n \in Node, NEW rel \in Policies, NEW m \in UpMsg,
           NEW v \in SUBSET Contrib
    PROVE  PushToParent(n, rel, m, v) \in UpMsg
<1>1. RootOf[m.key] \in Node
  BY KeyAssumption DEF UpMsg
<1>2. parents(rel, RootOf[m.key], n) \in Node
  BY <1>1, PolicyAssumption DEF parents, IsTree
<1> QED
  BY <1>2 DEF PushToParent, UpMsg

\* The root's responses are well-formed messages.
LEMMA ResponseAllType ==
    ASSUME NEW n \in Node, NEW rel, NEW k \in Key, NEW v \in SUBSET Contrib
    PROVE  ResponseAll(n, rel, k, v) \subseteq DownMsg
<1>1. \A s \in Node : [key |-> k, root |-> n, to |-> s, worker |-> (s = n), vals |-> v]
                        \in DownMsg
  BY DEF DownMsg
<1>2. sons(rel, n, n) \subseteq Node
  BY DEF sons
<1> QED
  BY <1>1, <1>2 DEF ResponseAll

\* KVServer::Process conserves contributions.
LEMMA ServerProcessConserves ==
    ASSUME ConserveInv, NEW m \in queue, ServerProcess(m)
    PROVE  ConserveInv'
<1> DEFINE n == m.to
           k == m.key
           b == Merge(update_buf[n][k], m)
           rel == IF m.iters # kvIters[n] /\ ~init_flag[n] THEN temp[n] ELSE kvRel[n]
<1>1. /\ n \in Node /\ k \in Key /\ b \in Buf
      /\ b.merged = update_buf[n][k].merged \cup m.vals
      /\ b.request = update_buf[n][k].request + 1
  BY MergeAdds
<1>2. b.merged \in SUBSET Contrib /\ b.request # 0 /\ m \in UpMsg
  BY <1>1 DEF ConserveInv, TypeOK, Buf
<1>3. /\ queue' = queue \ {m}
      /\ UNCHANGED <<workerVars, schedVars, release, grant, temp, vanIters>>
  BY DEF ServerProcess
<1>4. update_buf \in [Node -> [Key -> Buf]] /\ NoBuf \in Buf
  BY DEF ConserveInv, TypeOK, NoBuf, Buf
<1>5. \A p \in Policies :
         /\ PushToParent(n, p, m, b.merged) \in UpMsg
         /\ PushToParent(n, p, m, b.merged).key = k
         /\ PushToParent(n, p, m, b.merged).vals = b.merged
  BY <1>1, <1>2, PushToParentType DEF PushToParent
<1> HIDE DEF b, rel
<1> DEFINE Goal ==
      /\ update_buf' \in [Node -> [Key -> Buf]] /\ store' \in [Key -> SUBSET Contrib]
      /\ up' \subseteq UpMsg /\ down' \subseteq DownMsg
      /\ FreshInv' /\ EmptyBufInv' /\ NoDoubleCount'
<1>6. Goal
  <2>0. /\ store \in [Key -> SUBSET Contrib] /\ up \subseteq UpMsg /\ down \subseteq DownMsg
        /\ RootOf[k] \in Node
    BY <1>1, KeyAssumption DEF ConserveInv, TypeOK
  <2>1. CASE UNCHANGED <<update_buf, store, up, down>>
    <3>1. update_buf' = [update_buf EXCEPT ![m.to][m.key] = update_buf[n][k]]
      BY <2>1, <1>1, <1>4
    <3>2. PICK q \in UpMsg : q.key = k /\ q.vals = b.merged
      BY <1>5, PolicyAssumption
    <3>3. up' = up \cup {} /\ UNCHANGED <<iter_count, unsent>>
      BY <1>3, <2>1 DEF workerVars
    <3>4. FreshInv' /\ EmptyBufInv' /\ NoDoubleCount'
      BY <1>1, <1>3, <3>1, <3>2, <3>3, HandledConserves
    <3> QED
      BY <2>0, <2>1, <1>4, <3>4
  <2>2. ASSUME rel \in Policies, DataHandleDefault(n, m, rel)
        PROVE  Goal
    <3> DEFINE q == PushToParent(n, rel, m, b.merged)
    <3>1. q \in UpMsg /\ q.key = k /\ q.vals = b.merged
      BY <1>5, <2>2
    <3>2. UNCHANGED <<iter_count, unsent>>
      BY <1>3 DEF workerVars
    <3>3. \/ /\ update_buf' = [update_buf EXCEPT ![n][k] = NoBuf]
             /\ up' = up \cup {q} /\ UNCHANGED <<store, down>>
          \/ /\ update_buf' = [update_buf EXCEPT ![n][k] = NoBuf]
             /\ store' = (IF n = RootOf[k] THEN [store EXCEPT ![k] = b.merged] ELSE store)
             /\ down' = down \cup ResponseAll(n, rel, k, b.merged) /\ up' = up
          \/ /\ update_buf' = [update_buf EXCEPT ![n][k] = b]
             /\ store' \in {store, [store EXCEPT ![k] = {}]}
             /\ UNCHANGED <<up, down>>
      BY <2>2 DEF DataHandleDefault, b
    <3>4. ResponseAll(n, rel, k, b.merged) \subseteq DownMsg
      BY <1>1, <1>2, ResponseAllType
    <3> HIDE DEF q
    <3>5. update_buf' \in [Node -> [Key -> Buf]]
      <4>1. PICK nb \in Buf : update_buf' = [update_buf EXCEPT ![n][k] = nb]
        BY <3>3, <1>1, <1>4
      <4>2. [update_buf[n] EXCEPT ![k] = nb] \in [Key -> Buf]
        BY <1>1, <1>4
      <4> QED
        BY <1>1, <1>4, <4>1, <4>2
    <3>6. store' \in [Key -> SUBSET Contrib]
      BY <1>1, <1>2, <2>0, <3>3
    <3>7. up' \subseteq UpMsg /\ down' \subseteq DownMsg
      BY <2>0, <3>1, <3>3, <3>4
    <3>8. PICK sent \in {{}, {q}}, nb \in Buf :
             /\ up' = up \cup sent /\ update_buf' = [update_buf EXCEPT ![n][k] = nb]
             /\ nb = NoBuf \/ (nb = b /\ sent = {})
      BY <3>3, <1>1, <1>4
    <3>9. \/ nb = NoBuf
          \/ /\ nb \in Buf /\ nb.request # 0 /\ sent = {}
             /\ nb.merged = update_buf[n][k].merged \cup m.vals
      BY <1>1, <1>2, <3>8
    <3>10. FreshInv' /\ EmptyBufInv' /\ NoDoubleCount'
      BY <1>1, <1>3, <3>1, <3>2, <3>8, <3>9, HandledConserves
    <3> QED
      BY <3>5, <3>6, <3>7, <3>10
  <2> QED
    BY <2>1, <2>2, ServerProcessCases DEF rel
<1>7. TypeOK'
  BY <1>3, <1>6, ServerProcessRelTypes DEF ConserveInv, TypeOK, workerVars, schedVars
<1>8. ReleaseInv'
  BY <1>3, ReleaseStutters DEF ConserveInv, workerVars, schedVars
<1> QED
  BY <1>6, <1>7, <1>8 DEF ConserveInv

-----------------------------------------------------------------------------
(* Theorems *)

\* Every step of every thread preserves the invariant.
THEOREM ConserveStep == ConserveInv /\ [Next]_vars => ConserveInv'
<1> SUFFICES ASSUME ConserveInv, [Next]_vars PROVE ConserveInv'
  OBVIOUS
<1>1. ASSUME NEW w \in Node, TopoUpdate(w) PROVE ConserveInv'
  BY <1>1, TopoUpdateConserves
<1>2. ASSUME NEW w \in Node, TopoUpdated(w) PROVE ConserveInv'
  BY <1>2, TopoUpdatedConserves
<1>3. ASSUME NEW w \in Node, NEW k \in Key, ZPush(w, k) PROVE ConserveInv'
  BY <1>3, ZPushConserves
<1>4. ASSUME NEW d \in down, WorkerProcess(d) PROVE ConserveInv'
  BY <1>4, WorkerProcessConserves
<1>5. CASE route_update
  BY <1>5, RouteUpdateConserves
<1>6. ASSUME NEW w \in Node, SchedulerRelease(w) PROVE ConserveInv'
  BY <1>6, SchedulerReleaseConserves
<1>7. ASSUME NEW n \in Node, ServerRelease(n) PROVE ConserveInv'
  BY <1>7, ServerReleaseConserves
<1>8. ASSUME NEW m \in up, ProcessReply1Command(m) PROVE ConserveInv'
  BY <1>8, ProcessReply1CommandConserves
<1>9. ASSUME NEW m \in up, ProcessDataMsg(m) PROVE ConserveInv'
  BY <1>9, ProcessDataMsgConserves
<1>10. ASSUME NEW d \in down, ProcessReply2Command(d) PROVE ConserveInv'
  BY <1>10, ProcessReply2CommandConserves
<1>11. ASSUME NEW m \in queue, ServerProcess(m) PROVE ConserveInv'
  BY <1>11, ServerProcessConserves
<1>12. CASE UNCHANGED vars
  <2>1. UNCHANGED <<workerVars, schedVars, release, grant, relVars, aggVars, up, down>>
    BY <1>12 DEF vars
  <2>2. TypeOK'
    BY <2>1 DEF ConserveInv, TypeOK, workerVars, schedVars, relVars, aggVars
  <2>3. ReleaseInv'
    BY <2>1, ReleaseStutters DEF ConserveInv, workerVars, schedVars
  <2>4. FreshInv' /\ EmptyBufInv' /\ NoDoubleCount'
    BY <2>1, AfloatStutters DEF ConserveInv, workerVars, aggVars
  <2> QED
    BY <2>2, <2>3, <2>4 DEF ConserveInv
<1> QED
  BY <1>1, <1>2, <1>3, <1>4, <1>5, <1>6, <1>7, <1>8, <1>9, <1>10, <1>11, <1>12 DEF Next

\* Contributions are conserved and the scheduler's count is right, always.
THEOREM Conservation == Spec => []ConserveInv
BY ConserveInit, ConserveStep, PTL DEF Spec

\* Every variable keeps its type; in particular neither the scheduler's rounds
\* (ProcessRouteReleaseCommand) nor a worker's iterations pass MaxIter.
THEOREM TypeCorrect == Spec => []TypeOK
<1>1. ConserveInv => TypeOK
  BY DEF ConserveInv
<1> QED
  BY <1>1, Conservation, PTL

\* Whatever the network does, DataHandleDefault never adds a contribution that
\* is already in a sum: it is in at most one message, queue entry or buffer.
THEOREM NeverCountedTwice == Spec => []NoDoubleCount
<1>1. ConserveInv => NoDoubleCount
  BY DEF ConserveInv
<1> QED
  BY <1>1, Conservation, PTL

-----------------------------------------------------------------------------
(* Facts about a tree *)

\* What PolicyDecision's next hops are assumed to satisfy.
LEMMA TreeFacts ==
    ASSUME NEW p \in Policies, NEW r \in Node
    PROVE  /\ \A n \in Node : NextHop[p][r][n] \in Node
           /\ \A n \in Node \ {r} : NextHop[p][r][n] # n
           /\ \A S \in SUBSET Node :
                 /\ r \in S
                 /\ \A n \in Node \ {r} : NextHop[p][r][n] \in S => n \in S
                 => S = Node
BY PolicyAssumption DEF IsTree

\* A subtree does not have its parent: otherwise what is outside of it would
\* be closed under children.
LEMMA ParentOutside ==
    ASSUME cur \in Policies, NEW r \in Node, NEW x \in Node \ {r}, NEW S,
           Has(S, x), ParentClosed(S, r, {x})
    PROVE  ~Has(S, r) /\ ~Has(S, NextHop[cur][r][x])
<1>1. ~Has(S, r)
  BY DEF ParentClosed
<1>2. SUFFICES ASSUME Has(S, NextHop[cur][r][x]) PROVE FALSE
  BY <1>1
<1> DEFINE C == {y \in Node : ~Has(S, y)}
<1>3. \A y \in Node \ {r} : NextHop[cur][r][y] \in C => y \in C
  BY <1>2, TreeFacts DEF ParentClosed
<1>4. r \in C
  BY <1>1
<1>5. C = Node
  BY <1>3, <1>4, TreeFacts
<1> QED
  BY <1>5

\* What has the root and is closed under children is everything.
LEMMA ClosedIsComplete ==
    ASSUME cur \in Policies, NEW r \in Node, NEW S, S \subseteq Round(round),
           Has(S, r), ChildClosed(S, r, {})
    PROVE  S = Round(round)
<1> DEFINE C == {y \in Node : Has(S, y)}
<1>1. \A y \in Node \ {r} : NextHop[cur][r][y] \in C => y \in C
  BY DEF ChildClosed
<1>4. r \in C /\ C \in SUBSET Node
  OBVIOUS
<1>5. \A T \in SUBSET Node :
         (r \in T /\ \A n \in Node \ {r} : NextHop[cur][r][n] \in T => n \in T) => T = Node
  BY TreeFacts
<1>2. C = Node
  <2> HIDE DEF C
  <2> QED
    BY <1>1, <1>4, <1>5
<1>3. \A y \in Node : <<y, round>> \in S
  BY <1>2 DEF Has
<1> QED
  BY <1>3 DEF Round

-----------------------------------------------------------------------------
(* Parts of the invariant that a step leaves alone *)

\* No release or policy is involved.
LEMMA RelationStutters ==
    ASSUME RelationInv, UNCHANGED <<round, cur, release, temp, kvRel, vanRel,
                                    init_flag, kvIters, perf_update_flag>>
    PROVE  RelationInv'
BY DEF RelationInv

\* A push stays right in its round and tree, as long as the servers whose
\* values it sums do not get another release (Van::init_flag).
LEMMA MessageOKKept ==
    ASSUME NEW m, MessageOK(m), UNCHANGED <<round, cur>>,
           \A x \in Node : Has(m.vals, x) /\ init_flag[x] => init_flag'[x]
    PROVE  MessageOK(m)'
BY DEF MessageOK, ChildClosed, ParentClosed, Settled, Has

\* So does a buffer of DataHandleDefault.
LEMMA BufferOKKept ==
    ASSUME NEW b, NEW n, NEW r, BufferOK(b, n, r), UNCHANGED <<round, cur>>,
           \A x \in Node : Has(b.merged, x) /\ init_flag[x] => init_flag'[x]
    PROVE  BufferOK(b, n, r)'
BY DEF BufferOK, Tops, ChildClosed, ParentClosed, Settled, Has

\* No push is sent, received or queued, and no release.
LEMMA MessageStutters ==
    ASSUME MessageInv, UNCHANGED <<round, cur, init_flag, release, up, queue>>
    PROVE  MessageInv'
BY MessageOKKept DEF MessageInv

\* No push is merged.
LEMMA BufferStutters ==
    ASSUME BufferInv, UNCHANGED <<round, cur, init_flag, update_buf>>
    PROVE  BufferInv'
<1>1. ASSUME NEW n \in Node, NEW k \in Key
      PROVE  IF round' = 0 THEN update_buf'[n][k] = NoBuf
                           ELSE BufferOK(update_buf[n][k], n, RootOf[k])'
  BY BufferOKKept DEF BufferInv
<1> QED
  BY <1>1 DEF BufferInv

\* Nothing is stored, and no key is pushed.
LEMMA StoreStutters ==
    ASSUME StoreInv, UNCHANGED <<round, store, up, queue, update_buf, init_flag,
                                 release, grant, unsent>>
    PROVE  StoreInv'
BY DEF StoreInv, Reduced, Granting

\* No result is multicast or received.
LEMMA MulticastStutters ==
    ASSUME MulticastInv, UNCHANGED <<round, cur, store, down, pending, iter_count>>
    PROVE  MulticastInv'
BY DEF MulticastInv, Reduced, Got, Passed, Reached

-----------------------------------------------------------------------------
(* Init *)

\* No message, no buffer, no policy, no result.
LEMMA TreeInit == Init => TreeInv
<1> SUFFICES ASSUME Init PROVE TreeInv
  OBVIOUS
<1> USE DEF Init
<1>1. RelationInv
  BY ReleaseTypes DEF RelationInv
<1>2. MessageInv /\ BufferInv
  BY DEF MessageInv, BufferInv
<1>3. StoreInv /\ MulticastInv
  BY DEF StoreInv, Reduced, MulticastInv
<1>4. ResultOfIteration /\ NoFault
  BY DEF ResultOfIteration, NoFault
<1> QED
  BY <1>1, <1>2, <1>3, <1>4 DEF TreeInv

-----------------------------------------------------------------------------
(* Steps of the release protocol *)

\* A request changes no value, no relation and no result.
LEMMA TopoUpdateTree ==
    ASSUME AggInv, NEW w \in Node, TopoUpdate(w)
    PROVE  TreeInv'
<1> USE DEF AggInv, TreeInv, TopoUpdate
<1>1. RelationInv'
  BY RelationStutters DEF relVars
<1>2. MessageInv' /\ BufferInv'
  BY MessageStutters, BufferStutters DEF relVars, aggVars
<1>3. StoreInv' /\ MulticastInv'
  BY StoreStutters, MulticastStutters DEF relVars, aggVars
<1>4. ResultOfIteration' /\ NoFault'
  BY DEF ResultOfIteration, NoFault, aggVars
<1> QED
  BY <1>1, <1>2, <1>3, <1>4

\* New routes change nothing before they are released.
LEMMA RouteUpdateTree ==
    ASSUME AggInv, route_update
    PROVE  TreeInv'
<1> USE DEF AggInv, TreeInv, route_update
<1>1. RelationInv'
  BY DEF RelationInv, relVars
<1>2. MessageInv' /\ BufferInv'
  BY MessageStutters, BufferStutters DEF relVars, aggVars
<1>3. StoreInv' /\ MulticastInv'
  BY StoreStutters, MulticastStutters DEF relVars, aggVars, workerVars
<1>4. ResultOfIteration' /\ NoFault'
  BY DEF ResultOfIteration, NoFault, aggVars, workerVars
<1> QED
  BY <1>1, <1>2, <1>3, <1>4

\* While a worker's release is on its way, nothing of the round is reduced,
\* multicast or received.
LEMMA GrantingIsEarly ==
    ASSUME AggInv, NEW w \in Node, Granting(w)
    PROVE  /\ round > 0 /\ round = iter_count[w] + 1 /\ cur \in Policies
           /\ \A k \in Key : ~Reduced(k)
           /\ down = {}
           /\ \A n \in Node : \A k \in Key : ~Got(n, k)
<1>1. round = iter_count[w] + 1 /\ round > 0
  BY DEF AggInv, ConserveInv, ReleaseInv, TypeOK
<1>2. cur \in Policies
  BY <1>1 DEF AggInv, TreeInv, RelationInv
<1>3. \A k \in Key : ~Reduced(k)
  BY DEF AggInv, TreeInv, StoreInv
<1>4. down = {}
  BY <1>3 DEF AggInv, TreeInv, MulticastInv, ConserveInv, TypeOK, DownMsg
<1>5. \A n \in Node : \A k \in Key : ~Got(n, k)
  BY <1>1, <1>3 DEF AggInv, TreeInv, MulticastInv
<1> QED
  BY <1>1, <1>2, <1>3, <1>4, <1>5

\* The worker enters the round: all its keys are pending.
LEMMA TopoUpdatedTree ==
    ASSUME AggInv, NEW w \in Node, TopoUpdated(w)
    PROVE  TreeInv'
<1>0. Granting(w)
  BY DEF TopoUpdated, Granting
<1>1. /\ UNCHANGED <<round, cur, release, temp, kvRel, vanRel, init_flag, kvIters,
                     perf_update_flag, up, queue, update_buf, store, down, recved, fault>>
      /\ iter_count' = [iter_count EXCEPT ![w] = @ + 1]
      /\ pending' = [pending EXCEPT ![w] = Key]
  BY DEF TopoUpdated, schedVars, relVars, aggVars
<1>2. RelationInv' /\ MessageInv' /\ BufferInv'
  BY <1>1, RelationStutters, MessageStutters, BufferStutters DEF AggInv, TreeInv
<1>3. \A k \in Key : ~Reduced(k)'
  BY <1>0, <1>1, GrantingIsEarly DEF Reduced
<1>4. StoreInv'
  BY <1>1, <1>3 DEF AggInv, TreeInv, StoreInv
<1>5. \A n \in Node : \A k \in Key : ~Got(n, k)'
  <2> SUFFICES ASSUME NEW n \in Node, NEW k \in Key PROVE ~Got(n, k)'
    OBVIOUS
  <2>1. CASE n = w
    BY <2>1, <1>1 DEF Got, AggInv, ConserveInv, TypeOK
  <2>2. CASE n # w
    <3>1. ~Got(n, k)
      BY <1>0, GrantingIsEarly
    <3>2. iter_count'[n] = iter_count[n] /\ pending'[n] = pending[n]
      BY <2>2, <1>1 DEF AggInv, ConserveInv, TypeOK
    <3> QED
      BY <3>1, <3>2, <1>1 DEF Got
  <2> QED
    BY <2>1, <2>2
<1>6. down' = {}
  BY <1>0, <1>1, GrantingIsEarly
<1>7. MulticastInv'
  BY <1>5, <1>6 DEF MulticastInv, Passed, Reached
<1>8. ResultOfIteration'
  <2> SUFFICES ASSUME NEW v \in Node, NEW k \in Key \ pending'[v], iter_count'[v] > 0
               PROVE  recved'[v][k] = Round(iter_count'[v])
    BY DEF ResultOfIteration
  <2>1. v # w
    BY <1>1 DEF AggInv, ConserveInv, TypeOK
  <2>2. iter_count'[v] = iter_count[v] /\ pending'[v] = pending[v]
    BY <2>1, <1>1 DEF AggInv, ConserveInv, TypeOK
  <2> QED
    BY <2>2, <1>1 DEF AggInv, TreeInv, ResultOfIteration
<1>9. NoFault'
  BY <1>1 DEF AggInv, TreeInv, NoFault
<1> QED
  BY <1>2, <1>4, <1>7, <1>8, <1>9 DEF TreeInv

\* With the last request every worker has finished the round: nothing of it
\* is left anywhere.
LEMMA ReleaseFindsQuiet ==
    ASSUME AggInv, NEW w \in Node, SchedulerRelease(w), AllNotified
    PROVE  /\ \A n \in Node : ~Granting(n) /\ iter_count[n] = round /\ pending[n] = {}
           /\ up \cup queue = {} /\ down = {}
           /\ \A n \in Node : \A k \in Key : update_buf[n][k] = NoBuf
<1> USE DEF AggInv, ConserveInv
<1>1. /\ IsFiniteSet(Notified) /\ Notified \subseteq Node /\ w \notin Notified
      /\ Notified \cup {w} \subseteq asking
  BY NodeAssumption, FS_Subset DEF SchedulerRelease, Notified, ReleaseInv, TypeOK
<1>2. Cardinality(Notified \cup {w}) = notify_count + 1
  BY <1>1, FS_AddElement DEF ReleaseInv
<1>3. Notified \cup {w} = Node
  BY <1>1, <1>2, NodeAssumption, FS_Subset DEF AllNotified
<1>4. ~Granting(w)
  BY DEF SchedulerRelease, ReleaseInv
<1>5. \A n \in Node : ~Granting(n) /\ n \in asking
  BY <1>1, <1>3, <1>4 DEF Notified
<1>6. \A n \in Node : iter_count[n] = round /\ pending[n] = {}
  BY <1>5 DEF ReleaseInv
<1>7. down = {}
  BY <1>6 DEF TreeInv, MulticastInv, TypeOK, DownMsg
<1>8. round > 0 => \A k \in Key : Reduced(k)
  BY <1>6, NodeAssumption DEF TreeInv, MulticastInv, Got
<1>9. \A m \in up \cup queue : m.key \in Key /\ round > 0
  <2> SUFFICES ASSUME NEW m \in up \cup queue PROVE m.key \in Key /\ round > 0
    OBVIOUS
  <2>1. m.key \in Key /\ m.iters \in 1..MaxIter
    BY DEF TypeOK, UpMsg
  <2>2. m.iters = round
    BY DEF TreeInv, MessageInv, MessageOK
  <2> QED
    BY <2>1, <2>2, BoundAssumption
<1>10. up \cup queue = {}
  BY <1>8, <1>9 DEF TreeInv, StoreInv
<1>11. round \in Nat
  BY BoundAssumption DEF TypeOK
<1>12. \A n \in Node : \A k \in Key : update_buf[n][k] = NoBuf
  BY <1>8, <1>11 DEF TreeInv, StoreInv, BufferInv
<1> QED
  BY <1>5, <1>6, <1>7, <1>10, <1>12

\* An empty buffer is right in any round.
LEMMA NoBufOK ==
    ASSUME NEW n, NEW r
    PROVE  BufferOK(NoBuf, n, r)
<1>1. \A x : ~Has({}, x)
  BY DEF Has
<1>2. Tops({}, n, r) = {}
  BY <1>1 DEF Tops
<1>3. Cardinality(Tops({}, n, r)) = 0
  BY <1>2, FS_EmptySet
<1> QED
  BY <1>1, <1>3 DEF BufferOK, NoBuf, ChildClosed, ParentClosed, Settled

\* The same of the state a step leads to.
LEMMA NoBufOKNext ==
    ASSUME NEW n, NEW r
    PROVE  BufferOK(NoBuf, n, r)'
<1>1. \A x : ~Has({}, x)'
  BY DEF Has
<1>2. Tops({}, n, r)' = {}
  BY <1>1 DEF Tops
<1>3. Cardinality(Tops({}, n, r)') = 0
  BY <1>2, FS_EmptySet
<1> QED
  BY <1>1, <1>3 DEF BufferOK, NoBuf, ChildClosed, ParentClosed, Settled

\* The scheduler starts a new round.
LEMMA SchedulerReleaseTree ==
    ASSUME AggInv, NEW w \in Node, SchedulerRelease(w)
    PROVE  TreeInv'
<1>0. UNCHANGED <<iter_count, unsent, pending, recved, grant, temp, vanRel, kvRel,
                  init_flag, kvIters, queue, update_buf, store, fault, up, down>>
  BY DEF SchedulerRelease, workerVars, relVars, aggVars
<1>1. CASE ~AllNotified
  <2>1. UNCHANGED <<release, cur, round, perf_update_flag>>
    BY <1>1 DEF SchedulerRelease
  <2>2. RelationInv' /\ MessageInv' /\ BufferInv'
    BY <1>0, <2>1, RelationStutters, MessageStutters, BufferStutters DEF AggInv, TreeInv
  <2>3. StoreInv' /\ MulticastInv'
    BY <1>0, <2>1, StoreStutters, MulticastStutters DEF AggInv, TreeInv
  <2>4. ResultOfIteration' /\ NoFault'
    BY <1>0 DEF AggInv, TreeInv, ResultOfIteration, NoFault
  <2> QED
    BY <2>2, <2>3, <2>4 DEF TreeInv
<1>2. CASE AllNotified
  <2>1. /\ release' = [n \in Node |-> Released]
        /\ cur' = IF Released = Empty THEN cur ELSE Released
        /\ round' = round + 1
    BY <1>2 DEF SchedulerRelease
  <2>2. /\ \A n \in Node : ~Granting(n) /\ iter_count[n] = round /\ pending[n] = {}
        /\ up \cup queue = {} /\ down = {}
        /\ \A n \in Node : \A k \in Key : update_buf[n][k] = NoBuf
    BY <1>2, ReleaseFindsQuiet
  <2>3. round \in Nat /\ \A n \in Node : kvIters[n] \in Nat
    BY BoundAssumption DEF AggInv, ConserveInv, TypeOK
  <2>4. cur' \in Policies /\ (Released = Empty \/ Released = cur') /\ Released # None
        /\ (Released = Empty => cur' = cur)
    BY <2>1, <2>3, PolicyTypes, ReleaseTypes
    DEF Released, AggInv, TreeInv, RelationInv, ConserveInv, TypeOK
  <2>5. RelationInv'
    <3>1. \A n \in Node : release[n] = None /\ temp[n] = cur
      BY <2>2 DEF Granting, AggInv, TreeInv, RelationInv
    <3>2. \A n \in Node : release'[n] = Released
      BY <2>1
    <3>3. \A n \in Node : IF release'[n] \in {None, Empty} THEN temp'[n] = cur'
                                                         ELSE release'[n] = cur'
      BY <1>0, <2>4, <3>1, <3>2
    <3>4. \A n \in Node : kvIters'[n] <= round' /\ kvIters'[n] < round'
      BY <1>0, <2>1, <2>3 DEF AggInv, TreeInv, RelationInv
    <3>5. \A n \in Node : init_flag'[n] => kvRel'[n] = temp'[n] /\ vanRel'[n] = temp'[n]
      BY <1>0 DEF AggInv, TreeInv, RelationInv
    <3>6. round' > 0
      BY <2>1, <2>3
    <3> QED
      BY <2>4, <3>3, <3>4, <3>5, <3>6 DEF RelationInv
  <2>6. MessageInv'
    BY <1>0, <2>2 DEF MessageInv
  <2>7. BufferInv'
    <3>1. ASSUME NEW n \in Node, NEW k \in Key PROVE BufferOK(NoBuf, n, RootOf[k])'
      BY NoBufOKNext
    <3>2. ASSUME NEW n \in Node, NEW k \in Key PROVE update_buf'[n][k] = NoBuf
      BY <1>0, <2>2
    <3>3. round' # 0
      BY <2>1, <2>3
    <3> QED
      BY <3>1, <3>2, <3>3 DEF BufferInv
  <2>8. \A k \in Key : ~Reduced(k)'
    <3> SUFFICES ASSUME NEW k \in Key, store[k] = Round(round + 1) PROVE FALSE
      BY <1>0, <2>1 DEF Reduced
    <3>1. PICK n \in Node : TRUE
      BY NodeAssumption
    <3>2. <<n, round + 1>> \in store[k]
      BY DEF Round
    <3>3. \A t \in 1..round : <<n, round + 1>> \notin Round(t)
      BY <2>3 DEF Round
    <3> QED
      BY <3>2, <3>3 DEF AggInv, TreeInv, StoreInv
  <2>9. StoreInv'
    <3>1. \A t \in 1..round : t \in 1..round'
      BY <2>1, <2>3
    <3> QED
      BY <1>0, <2>8, <3>1 DEF AggInv, TreeInv, StoreInv
  <2>10. \A n \in Node : \A k \in Key : ~Got(n, k)'
    BY <1>0, <2>1, <2>2, <2>3 DEF Got
  <2>11. MulticastInv'
    BY <1>0, <2>2, <2>10 DEF MulticastInv, Passed, Reached
  <2>12. ResultOfIteration' /\ NoFault'
    BY <1>0 DEF AggInv, TreeInv, ResultOfIteration, NoFault
  <2> QED
    BY <2>5, <2>6, <2>7, <2>9, <2>11, <2>12 DEF TreeInv
<1> QED
  BY <1>1, <1>2

\* A server forwards its release and parses the policy: no value of its own
\* worker is afloat in the round yet.
LEMMA ServerReleaseTree ==
    ASSUME AggInv, NEW n \in Node, ServerRelease(n)
    PROVE  TreeInv'
<1>0. Granting(n) /\ release[n] # None
  BY DEF ServerRelease, Granting
<1>1. /\ UNCHANGED <<iter_count, unsent, pending, recved, round, cur, perf_update_flag,
                     vanRel, kvRel, kvIters, queue, update_buf, store, fault, up, down>>
      /\ release' = [release EXCEPT ![n] = None]
      /\ \/ /\ release[n] # Empty
            /\ temp' = [temp EXCEPT ![n] = release[n]]
            /\ init_flag' = [init_flag EXCEPT ![n] = FALSE]
         \/ release[n] = Empty /\ UNCHANGED <<temp, init_flag>>
  BY DEF ServerRelease, HasRoute, workerVars, schedVars, aggVars
<1>2. /\ release \in [Node -> Releases] /\ temp \in [Node -> Rels]
      /\ init_flag \in [Node -> BOOLEAN]
  BY DEF AggInv, ConserveInv, TypeOK
<1>3. RelationInv'
  <2>1. temp'[n] = cur /\ release'[n] = None
    BY <1>0, <1>1, <1>2 DEF AggInv, TreeInv, RelationInv
  <2>2. \A x \in Node \ {n} : /\ temp'[x] = temp[x] /\ release'[x] = release[x]
                              /\ init_flag'[x] = init_flag[x]
    BY <1>1, <1>2
  <2>3. \/ ~init_flag'[n]
        \/ init_flag'[n] = init_flag[n] /\ temp'[n] = temp[n]
    BY <1>1, <1>2
  <2>4. kvIters[n] < round
    BY <1>0 DEF AggInv, TreeInv, RelationInv
  <2>5. ASSUME NEW x \in Node
        PROVE  /\ init_flag'[x] => kvRel'[x] = temp'[x] /\ vanRel'[x] = temp'[x]
               /\ IF release'[x] \in {None, Empty} THEN temp'[x] = cur' ELSE release'[x] = cur'
               /\ kvIters'[x] <= round'
               /\ (release'[x] # None \/ ~init_flag'[x]) => kvIters'[x] < round'
    <3>1. CASE x = n
      BY <3>1, <1>1, <2>1, <2>3, <2>4 DEF AggInv, TreeInv, RelationInv
    <3>2. CASE x # n
      BY <3>2, <1>1, <2>2 DEF AggInv, TreeInv, RelationInv
    <3> QED
      BY <3>1, <3>2
  <2> QED
    BY <1>1, <2>5 DEF AggInv, TreeInv, RelationInv
<1>4. round = iter_count[n] + 1 /\ iter_count[n] \in Nat
  BY <1>0, GrantingIsEarly, BoundAssumption DEF AggInv, ConserveInv, TypeOK
<1>5. \A k : ~Pushed(<<n, round>>, k)
  BY <1>4 DEF Pushed
<1>6. \A x \in Node \ {n} : init_flag'[x] = init_flag[x]
  BY <1>1, <1>2
<1>7. MessageInv'
  <2>1. ASSUME NEW m \in up \cup queue PROVE MessageOK(m)'
    <3>1. ~Has(m.vals, n)
      BY <1>5 DEF Has, AggInv, ConserveInv, FreshInv
    <3>2. MessageOK(m)
      BY DEF AggInv, TreeInv, MessageInv
    <3> QED
      BY <1>1, <1>6, <3>1, <3>2, MessageOKKept
  <2>2. \A x \in Node : release[x] = None => release'[x] = None
    BY <1>1, <1>2
  <2>3. \A m \in up \cup queue : m.to \in Node
    BY DEF AggInv, ConserveInv, TypeOK, UpMsg
  <2> QED
    BY <1>1, <2>1, <2>2, <2>3 DEF AggInv, TreeInv, MessageInv
<1>8. BufferInv'
  <2>1. ASSUME NEW x \in Node, NEW k \in Key PROVE BufferOK(update_buf[x][k], x, RootOf[k])'
    <3>1. ~Has(update_buf[x][k].merged, n)
      BY <1>5 DEF Has, AggInv, ConserveInv, FreshInv
    <3>2. BufferOK(update_buf[x][k], x, RootOf[k])
      BY <1>4 DEF AggInv, TreeInv, BufferInv
    <3> QED
      BY <1>1, <1>6, <3>1, <3>2, BufferOKKept
  <2> QED
    BY <1>1, <1>4, <2>1 DEF BufferInv
<1>9. StoreInv'
  <2>1. \A k \in Key : ~Reduced(k)'
    BY <1>0, <1>1, GrantingIsEarly DEF Reduced
  <2> QED
    BY <1>1, <2>1 DEF AggInv, TreeInv, StoreInv
<1>10. MulticastInv'
  BY <1>1, MulticastStutters DEF AggInv, TreeInv
<1>11. ResultOfIteration' /\ NoFault'
  BY <1>1 DEF AggInv, TreeInv, ResultOfIteration, NoFault
<1> QED
  BY <1>3, <1>7, <1>8, <1>9, <1>10, <1>11 DEF TreeInv

-----------------------------------------------------------------------------
(* Steps of pushes *)

\* A worker's push: it has its release, and the key is not reduced without it.
LEMMA ZPushTree ==
    ASSUME AggInv, NEW w \in Node, NEW k \in Key, ZPush(w, k)
    PROVE  TreeInv'
<1> DEFINE p == [key |-> k, iters |-> iter_count[w], src |-> w,
                 worker |-> TRUE, to |-> w, vals |-> {<<w, iter_count[w]>>}]
<1>1. /\ k \in unsent[w] /\ up' = up \cup {p}
      /\ unsent' = [unsent EXCEPT ![w] = @ \ {k}]
      /\ UNCHANGED <<iter_count, pending, recved, round, cur, perf_update_flag, release,
                     grant, temp, vanRel, kvRel, init_flag, kvIters, queue, update_buf,
                     store, fault, down>>
  BY DEF ZPush, schedVars, relVars, aggVars
<1>2. ~Granting(w)
  BY <1>1 DEF AggInv, ConserveInv, ReleaseInv
<1>3. iter_count[w] = round /\ release[w] = None
  BY <1>2 DEF AggInv, ConserveInv, ReleaseInv, Granting
<1>4. ~Reduced(k)
  BY <1>1 DEF AggInv, TreeInv, StoreInv
<1>5. p.to = w /\ p.key = k /\ \A q : q = p => MessageOK(q)'
  BY <1>1, <1>3 DEF MessageOK, Round, Has
<1> HIDE DEF p
<1>6. MessageInv'
  <2>1. ASSUME NEW m \in up \cup queue PROVE MessageOK(m)'
    BY <1>1, MessageOKKept DEF AggInv, TreeInv, MessageInv
  <2> QED
    BY <1>1, <1>3, <1>5, <2>1 DEF AggInv, TreeInv, MessageInv
<1>7. StoreInv'
  <2>1. \A n \in Node : unsent'[n] \subseteq unsent[n]
    BY <1>1 DEF AggInv, ConserveInv, TypeOK
  <2> QED
    BY <1>1, <1>4, <1>5, <2>1 DEF AggInv, TreeInv, StoreInv, Reduced, Granting
<1>8. RelationInv' /\ BufferInv' /\ MulticastInv'
  BY <1>1, RelationStutters, BufferStutters, MulticastStutters DEF AggInv, TreeInv
<1>9. ResultOfIteration' /\ NoFault'
  BY <1>1 DEF AggInv, TreeInv, ResultOfIteration, NoFault
<1> QED
  BY <1>6, <1>7, <1>8, <1>9 DEF TreeInv

\* A message that its server may handle by the relations of the round is
\* handed to the customer's queue.
LEMMA AcceptTree ==
    ASSUME AggInv, NEW m \in up, Accept(m), release[m.to] = None,
           UNCHANGED <<iter_count, unsent, pending, recved, round, cur, release, grant,
                       init_flag, update_buf, store, fault, down>>
    PROVE  /\ MessageInv' /\ BufferInv' /\ StoreInv' /\ MulticastInv'
           /\ ResultOfIteration' /\ NoFault'
<1>1. /\ up' \cup queue' = up \cup queue /\ up' \subseteq up
      /\ queue' = queue \cup {m}
  BY DEF Accept
<1>2. MessageInv'
  <2>1. ASSUME NEW q \in up \cup queue PROVE MessageOK(q)'
    BY MessageOKKept DEF AggInv, TreeInv, MessageInv
  <2> QED
    BY <1>1, <2>1 DEF AggInv, TreeInv, MessageInv
<1>3. StoreInv'
  BY <1>1 DEF AggInv, TreeInv, StoreInv, Reduced, Granting
<1>4. BufferInv' /\ MulticastInv'
  BY BufferStutters, MulticastStutters DEF AggInv, TreeInv
<1>5. ResultOfIteration' /\ NoFault'
  BY DEF AggInv, TreeInv, ResultOfIteration, NoFault
<1> QED
  BY <1>2, <1>3, <1>4, <1>5

\* The own worker's push comes after the release; an update of the Van's
\* relations before the customer's (init_flag unset) harms nobody.
LEMMA ProcessReply1CommandTree ==
    ASSUME AggInv, NEW m \in up, ProcessReply1Command(m)
    PROVE  TreeInv'
<1>1. m.worker /\ release[m.to] = None /\ m.to \in Node
  BY DEF ProcessReply1Command, AggInv, TreeInv, MessageInv, ConserveInv, TypeOK, UpMsg
<1>2. /\ Accept(m)
      /\ UNCHANGED <<iter_count, unsent, pending, recved, round, cur, perf_update_flag,
                     release, grant, temp, kvRel, init_flag, kvIters, update_buf, store,
                     fault, down>>
      /\ \/ vanRel' = vanRel
         \/ ~init_flag[m.to] /\ vanRel' = [vanRel EXCEPT ![m.to] = temp[m.to]]
  BY DEF ProcessReply1Command, workerVars, schedVars
<1>3. \A x \in Node : init_flag[x] => vanRel'[x] = vanRel[x]
  BY <1>2 DEF AggInv, ConserveInv, TypeOK
<1>4. RelationInv'
  BY <1>2, <1>3 DEF AggInv, TreeInv, RelationInv
<1> QED
  BY <1>1, <1>2, <1>4, AcceptTree DEF TreeInv

\* A push of another server is accepted after the release its receiver was
\* sent: this is where TimelyRelease is needed.
LEMMA ProcessDataMsgTree ==
    ASSUME TimelyRelease, AggInv, NEW m \in up, ProcessDataMsg(m)
    PROVE  TreeInv'
<1>1. /\ Accept(m) /\ release[m.to] = None
      /\ UNCHANGED <<iter_count, unsent, pending, recved, round, cur, perf_update_flag,
                     release, grant, temp, vanRel, kvRel, init_flag, kvIters, update_buf,
                     store, fault, down>>
  BY DEF ProcessDataMsg, workerVars, schedVars, relVars
<1>2. RelationInv'
  BY <1>1, RelationStutters DEF AggInv, TreeInv
<1> QED
  BY <1>1, <1>2, AcceptTree DEF TreeInv

-----------------------------------------------------------------------------
(* Steps of results *)

\* Once a key is reduced every worker is in the round and has pushed it, and
\* the Van's relations of every server are those of the round.
LEMMA ReducedIsSettled ==
    ASSUME AggInv, NEW k \in Key, Reduced(k)
    PROVE  /\ cur \in Policies
           /\ \A n \in Node : /\ iter_count[n] = round /\ k \notin unsent[n]
                              /\ vanRel[n] = cur /\ ~Granting(n)
<1>1. cur \in Policies
  BY DEF AggInv, TreeInv, RelationInv, Reduced
<1>2. \A n \in Node : init_flag[n] /\ ~Granting(n) /\ k \notin unsent[n]
  BY DEF AggInv, TreeInv, StoreInv
<1>3. \A n \in Node : iter_count[n] = round
  BY <1>2 DEF AggInv, ConserveInv, ReleaseInv
<1>4. \A n \in Node : vanRel[n] = cur
  BY <1>2 DEF Granting, AggInv, TreeInv, RelationInv
<1> QED
  BY <1>1, <1>2, <1>3, <1>4

\* A worker receives the sum of its own iteration; no other result of the key
\* is on its way to it.
LEMMA WorkerProcessTree ==
    ASSUME AggInv, NEW d \in down, WorkerProcess(d)
    PROVE  TreeInv'
<1> DEFINE w == d.to
           k == d.key
<1>1. w \in Node /\ k \in Key
  BY DEF AggInv, ConserveInv, TypeOK, DownMsg
<1>2. Reduced(k) /\ d.vals = store[k] /\ k \in pending[w]
  BY DEF AggInv, TreeInv, MulticastInv
<1>3. iter_count[w] = round /\ k \notin unsent[w]
  BY <1>1, <1>2, ReducedIsSettled
<1>4. /\ d.worker /\ down' = down \ {d}
      /\ pending' = [pending EXCEPT ![w] = @ \ {k}]
      /\ recved' = [recved EXCEPT ![w][k] = d.vals]
      /\ UNCHANGED <<iter_count, unsent, round, cur, perf_update_flag, release, grant,
                     temp, vanRel, kvRel, init_flag, kvIters, queue, update_buf, store,
                     fault, up>>
  BY <1>2, <1>3 DEF WorkerProcess, schedVars, relVars, aggVars
<1>5. RelationInv' /\ MessageInv' /\ BufferInv' /\ StoreInv' /\ NoFault'
  BY <1>4, RelationStutters, MessageStutters, BufferStutters, StoreStutters
  DEF AggInv, TreeInv, NoFault
<1>6. \A x \in Node : pending'[x] = IF x = w THEN pending[w] \ {k} ELSE pending[x]
  BY <1>1, <1>4 DEF AggInv, ConserveInv, TypeOK
<1> HIDE DEF w, k
<1>7. \A x \in Node : \A y \in Key : Got(x, y)' <=> Got(x, y) \/ (x = w /\ y = k)
  BY <1>3, <1>4, <1>6 DEF Got
<1>8. \A x \in Node : \A y \in Key : Passed(x, y)' <=> Passed(x, y)
  BY <1>1, <1>4, <1>7 DEF Passed, w, k
<1>9. \A x \in Node : \A y \in Key : Reached(x, y)' => Reached(x, y)
  BY <1>4, <1>8 DEF Reached
<1>10. \A y \in Key : Reduced(y)' <=> Reduced(y)
  BY <1>4 DEF Reduced
<1>11. MulticastInv'
  <2>1. \A e \in down' : e \in down /\ e.to \in Node /\ e.key \in Key /\ ~(e.to = w /\ e.key = k)
    BY <1>4 DEF AggInv, ConserveInv, TypeOK, DownMsg, TreeInv, MulticastInv, w, k
  <2>2. ASSUME NEW e \in down'
        PROVE  /\ Reduced(e.key)' /\ e.vals = store'[e.key] /\ e.root = RootOf[e.key]
               /\ e.key \in pending'[e.to]
               /\ ~e.worker => e.to # e.root /\ ~Passed(e.to, e.key)'
    <3>1. e \in down /\ e.to \in Node /\ e.key \in Key /\ ~(e.to = w /\ e.key = k)
      BY <2>1
    <3>2. /\ Reduced(e.key) /\ e.vals = store[e.key] /\ e.root = RootOf[e.key]
          /\ e.key \in pending[e.to]
          /\ ~e.worker => e.to # e.root /\ ~Passed(e.to, e.key)
      BY <3>1 DEF AggInv, TreeInv, MulticastInv
    <3> QED
      BY <1>4, <1>6, <1>8, <1>10, <3>1, <3>2
  <2>3. \A e1, e2 \in down' : e1.key = e2.key /\ e1.to = e2.to => e1 = e2
    BY <2>1 DEF AggInv, TreeInv, MulticastInv
  <2>4. ASSUME round' > 0, NEW y \in Key, NEW x \in Node \ {RootOf[y]}, Reached(x, y)'
        PROVE  Passed(NextHop[cur][RootOf[y]][x], y)'
    <3>1. Passed(NextHop[cur][RootOf[y]][x], y)
      BY <1>4, <1>9, <2>4 DEF AggInv, TreeInv, MulticastInv
    <3>2. NextHop[cur][RootOf[y]][x] \in Node
      BY <1>1, <1>2, TreeFacts, KeyAssumption, ReducedIsSettled
    <3> QED
      BY <1>4, <1>8, <3>1, <3>2
  <2>5. \A y \in Key : \A x \in Node : Got(x, y)' => Reduced(y)'
    BY <1>2, <1>4, <1>7, <1>10 DEF AggInv, TreeInv, MulticastInv, Reduced
  <2> QED
    BY <1>4, <2>2, <2>3, <2>4, <2>5 DEF MulticastInv
<1>12. ResultOfIteration'
  <2> SUFFICES ASSUME NEW x \in Node, NEW y \in Key \ pending'[x], iter_count'[x] > 0
               PROVE  recved'[x][y] = Round(iter_count'[x])
    BY DEF ResultOfIteration
  <2>1. recved'[x][y] = IF x = w /\ y = k THEN d.vals ELSE recved[x][y]
    BY <1>1, <1>4 DEF AggInv, ConserveInv, TypeOK
  <2>2. CASE x = w /\ y = k
    BY <2>1, <2>2, <1>2, <1>3, <1>4 DEF Reduced
  <2>3. CASE ~(x = w /\ y = k)
    BY <2>1, <2>3, <1>4, <1>6 DEF AggInv, TreeInv, ResultOfIteration
  <2> QED
    BY <2>2, <2>3
<1> QED
  BY <1>5, <1>11, <1>12 DEF TreeInv

\* Server n multicasts the result of k to its sons: they have not got it, for
\* they would have got it from n.
LEMMA MulticastSends ==
    ASSUME AggInv, NEW n \in Node, NEW k \in Key,
           UNCHANGED <<round, cur, pending, iter_count>>,
           cur \in Policies, Reduced(k)',
           \A x \in Node : iter_count[x] = round,
           \A y \in Key \ {k} : store'[y] = store[y],
           ~Passed(n, k), n = RootOf[k] \/ Reached(n, k),
           \A e \in down : e.key = k => e.vals = store'[k],
           down' = {e \in down : ~(e.key = k /\ e.to = n)} \cup
                   {[key |-> k, root |-> RootOf[k], to |-> s, worker |-> (s = n),
                     vals |-> store'[k]] : s \in sons(cur, RootOf[k], n)}
    PROVE  MulticastInv'
<1> DEFINE r == RootOf[k]
           copy(s) == [key |-> k, root |-> r, to |-> s, worker |-> (s = n), vals |-> store'[k]]
           T == sons(cur, r, n)
<1>0. r \in Node /\ round > 0
  BY KeyAssumption DEF Reduced
<1>1. \A s \in T : s \in Node /\ (s # n => s # r /\ NextHop[cur][r][s] = n)
  BY DEF sons
<1>2. n \in T
  BY DEF sons
<1>3. \A s \in T : s # n => ~Reached(s, k)
  BY <1>0, <1>1 DEF AggInv, TreeInv, MulticastInv
<1>4. \A s \in T : k \in pending[s]
  BY <1>1, <1>3 DEF Reached, Passed, Got
<1>5. \A s : /\ copy(s).key = k /\ copy(s).root = r /\ copy(s).to = s
             /\ (copy(s).worker <=> s = n) /\ copy(s).vals = store'[k]
  OBVIOUS
<1>6. down' = {e \in down : ~(e.key = k /\ e.to = n)} \cup {copy(s) : s \in T}
  OBVIOUS
<1> HIDE DEF copy, T, r
<1>7. \A x \in Node : \A y \in Key : Got(x, y)' <=> Got(x, y)
  BY DEF Got
<1>8. \A x \in Node : \A y \in Key : Passed(x, y)' <=> Passed(x, y) \/ (x = n /\ y = k)
  <2> SUFFICES ASSUME NEW x \in Node, NEW y \in Key
               PROVE  Passed(x, y)' <=> Passed(x, y) \/ (x = n /\ y = k)
    OBVIOUS
  <2>1. CASE x = n /\ y = k
    <3>1. copy(n) \in down' /\ copy(n).key = k /\ copy(n).to = n /\ copy(n).worker
      BY <1>2, <1>5, <1>6
    <3> QED
      BY <2>1, <3>1 DEF Passed
  <2>2. CASE ~(x = n /\ y = k)
    <3>1. \A e : e \in down' /\ e.key = y /\ e.to = x /\ e.worker
                 <=> e \in down /\ e.key = y /\ e.to = x /\ e.worker
      BY <2>2, <1>5, <1>6
    <3> QED
      BY <2>2, <3>1, <1>7 DEF Passed
  <2> QED
    BY <2>1, <2>2
<1>9. \A x \in Node : \A y \in Key : Reached(x, y)' => Reached(x, y) \/ (x \in T /\ y = k)
  <2> SUFFICES ASSUME NEW x \in Node, NEW y \in Key, Reached(x, y)', ~(x \in T /\ y = k)
               PROVE  Reached(x, y)
    OBVIOUS
  <2>1. CASE Passed(x, y)'
    BY <2>1, <1>2, <1>8 DEF Reached
  <2>2. CASE \E e \in down' : e.key = y /\ e.to = x
    <3>1. PICK e \in down' : e.key = y /\ e.to = x
      BY <2>2
    <3>2. e \in down
      BY <3>1, <1>5, <1>6
    <3> QED
      BY <3>1, <3>2 DEF Reached
  <2> QED
    BY <2>1, <2>2 DEF Reached
<1>10. \A y \in Key : Reduced(y) => Reduced(y)'
  BY DEF Reduced
<1>11. ASSUME NEW e \in down'
       PROVE  /\ Reduced(e.key)' /\ e.vals = store'[e.key] /\ e.root = RootOf[e.key]
              /\ e.key \in pending'[e.to]
              /\ ~e.worker => e.to # e.root /\ ~Passed(e.to, e.key)'
  <2>1. CASE \E s \in T : e = copy(s)
    <3>1. PICK s \in T : e = copy(s)
      BY <2>1
    <3>2. e.key = k /\ e.root = r /\ e.to = s /\ (e.worker <=> s = n) /\ e.vals = store'[k]
      BY <3>1, <1>5
    <3>3. s # n => s # r /\ ~Passed(s, k)'
      BY <1>1, <1>3, <1>8 DEF Reached
    <3> QED
      BY <3>2, <3>3, <1>4 DEF r
  <2>2. CASE e \in down /\ ~(e.key = k /\ e.to = n)
    <3>1. /\ Reduced(e.key) /\ e.vals = store[e.key] /\ e.root = RootOf[e.key]
          /\ e.key \in pending[e.to]
          /\ ~e.worker => e.to # e.root /\ ~Passed(e.to, e.key)
      BY <2>2 DEF AggInv, TreeInv, MulticastInv
    <3>2. e.to \in Node /\ e.key \in Key
      BY <2>2 DEF AggInv, ConserveInv, TypeOK, DownMsg
    <3>3. e.vals = store'[e.key]
      BY <2>2, <3>1, <3>2
    <3> QED
      BY <2>2, <3>1, <3>2, <3>3, <1>8, <1>10
  <2> QED
    BY <2>1, <2>2, <1>6
<1>12. ASSUME NEW e1 \in down', NEW e2 \in down', e1.key = e2.key, e1.to = e2.to
       PROVE  e1 = e2
  <2>1. \A e \in down : \A s \in T : ~(e.key = k /\ e.to = n) => ~(e.key = k /\ e.to = s)
    BY <1>3 DEF Reached
  <2>2. \A f1, f2 \in down : f1.key = f2.key /\ f1.to = f2.to => f1 = f2
    BY DEF AggInv, TreeInv, MulticastInv
  <2> QED
    BY <2>1, <2>2, <1>5, <1>6, <1>12
<1>13. ASSUME NEW y \in Key, NEW x \in Node \ {RootOf[y]}, Reached(x, y)'
       PROVE  Passed(NextHop[cur][RootOf[y]][x], y)'
  <2>0. NextHop[cur][RootOf[y]][x] \in Node
    BY TreeFacts, KeyAssumption
  <2>1. CASE Reached(x, y)
    <3>1. Passed(NextHop[cur][RootOf[y]][x], y)
      BY <2>1, <1>0 DEF AggInv, TreeInv, MulticastInv
    <3> QED
      BY <2>0, <3>1, <1>8
  <2>2. CASE x \in T /\ y = k /\ ~Reached(x, y)
    <3>1. x # n
      BY <2>2 DEF r
    <3> QED
      BY <2>0, <2>2, <3>1, <1>1, <1>8 DEF r
  <2> QED
    BY <2>1, <2>2, <1>9, <1>13
<1>14. \A y \in Key : \A x \in Node : Got(x, y)' => Reduced(y)'
  BY <1>0, <1>7, <1>10 DEF AggInv, TreeInv, MulticastInv
<1> QED
  BY <1>11, <1>12, <1>13, <1>14 DEF MulticastInv

\* A server multicasts the result by the relations of the round: it has some,
\* and they are those the value went up by.
LEMMA ProcessReply2CommandTree ==
    ASSUME AggInv, NEW d \in down, ProcessReply2Command(d)
    PROVE  TreeInv'
<1> DEFINE n == d.to
           k == d.key
<1>1. n \in Node /\ k \in Key /\ d \in DownMsg
  BY DEF AggInv, ConserveInv, TypeOK, DownMsg
<1>2. ~d.worker
  BY DEF ProcessReply2Command
<1>3. Reduced(k) /\ d.vals = store[k] /\ d.root = RootOf[k] /\ ~Passed(n, k)
  BY <1>2 DEF AggInv, TreeInv, MulticastInv
<1>4. cur \in Policies /\ vanRel[n] = cur /\ \A x \in Node : iter_count[x] = round
  BY <1>1, <1>3, ReducedIsSettled
<1>5. vanRel[n] # NoPolicy
  BY <1>4, PolicyTypes
<1>6. /\ fault' = fault
      /\ down' = (down \ {d}) \cup {[d EXCEPT !.to = s, !.worker = (s = n)] :
                                        s \in sons(cur, RootOf[k], n)}
      /\ UNCHANGED <<iter_count, unsent, pending, recved, round, cur, perf_update_flag,
                     release, grant, temp, vanRel, kvRel, init_flag, kvIters, queue,
                     update_buf, store, up>>
  BY <1>3, <1>4, <1>5 DEF ProcessReply2Command, workerVars, schedVars, relVars
<1>7. down \ {d} = {e \in down : ~(e.key = k /\ e.to = n)}
  BY DEF AggInv, TreeInv, MulticastInv
<1> DEFINE f(s) == [d EXCEPT !.to = s, !.worker = (s = n)]
           g(s) == [key |-> k, root |-> RootOf[k], to |-> s, worker |-> (s = n),
                    vals |-> store'[k]]
<1>8. \A s \in Node : f(s) = g(s)
  <2> SUFFICES ASSUME NEW s \in Node PROVE f(s) = g(s)
    OBVIOUS
  <2>1. /\ f(s) \in DownMsg /\ f(s).key = k /\ f(s).root = RootOf[k] /\ f(s).to = s
        /\ (f(s).worker <=> s = n) /\ f(s).vals = store'[k]
    BY <1>1, <1>3, <1>6 DEF DownMsg
  <2>2. /\ g(s) \in DownMsg /\ g(s).key = k /\ g(s).root = RootOf[k] /\ g(s).to = s
        /\ (g(s).worker <=> s = n) /\ g(s).vals = store'[k]
    BY <1>1, <1>3, <1>6 DEF DownMsg
  <2> HIDE DEF f, g
  <2> QED
    BY <2>1, <2>2 DEF DownMsg
<1>9. Reached(n, k)
  BY DEF Reached
<1>10. \A e \in down : e.key = k => e.vals = store'[k]
  BY <1>6 DEF AggInv, TreeInv, MulticastInv
<1>11. MulticastInv'
  <2>1. Reduced(k)'
    BY <1>3, <1>6 DEF Reduced
  <2>2. down' = {e \in down : ~(e.key = k /\ e.to = n)} \cup
                {[key |-> k, root |-> RootOf[k], to |-> s, worker |-> (s = n),
                  vals |-> store'[k]] : s \in sons(cur, RootOf[k], n)}
    <3> DEFINE T == sons(cur, RootOf[k], n)
    <3>1. down' = (down \ {d}) \cup {f(s) : s \in T} /\ T \subseteq Node
      BY <1>1, <1>6 DEF sons
    <3> HIDE DEF f, g, T
    <3>2. {f(s) : s \in T} = {g(s) : s \in T}
      BY <1>8, <3>1
    <3>3. down' = {e \in down : ~(e.key = k /\ e.to = n)} \cup {g(s) : s \in T}
      BY <1>7, <3>1, <3>2
    <3> QED
      BY <3>3 DEF g, T
  <2> HIDE DEF n, k
  <2> QED
    BY <1>1, <1>3, <1>4, <1>6, <1>9, <1>10, <2>1, <2>2, MulticastSends
<1>12. RelationInv' /\ MessageInv' /\ BufferInv' /\ StoreInv'
  BY <1>6, RelationStutters, MessageStutters, BufferStutters, StoreStutters
  DEF AggInv, TreeInv
<1>13. ResultOfIteration' /\ NoFault'
  BY <1>6 DEF AggInv, TreeInv, ResultOfIteration, NoFault
<1> QED
  BY <1>11, <1>12, <1>13 DEF TreeInv

-----------------------------------------------------------------------------
(* The request handle *)

\* KVServer::Process handles a push by the relations of its round: either the
\* server has them, or RelationUpdate takes them over now.
LEMMA HandledByCur ==
    ASSUME AggInv, NEW m \in queue, ServerProcess(m)
    PROVE  /\ cur \in Policies /\ round \in Nat /\ round > 0
           /\ m.to \in Node /\ m.key \in Key /\ MessageOK(m)
           /\ DataHandleDefault(m.to, m, cur)
           /\ init_flag' = [init_flag EXCEPT ![m.to] = TRUE]
           /\ RelationInv' /\ NoFault'
<1> DEFINE n == m.to
           upd == m.iters # kvIters[n] /\ ~init_flag[n]
           rel == IF upd THEN temp[n] ELSE kvRel[n]
<1>1. /\ n \in Node /\ m.key \in Key /\ m.iters \in 1..MaxIter
      /\ MessageOK(m) /\ release[n] = None
  BY DEF AggInv, ConserveInv, TypeOK, UpMsg, TreeInv, MessageInv
<1>2. m.iters = round
  BY <1>1 DEF MessageOK
<1>3. round \in Nat /\ round > 0 /\ kvIters[n] \in Nat
  BY <1>1, <1>2, BoundAssumption DEF AggInv, ConserveInv, TypeOK
<1>4. cur \in Policies /\ temp[n] = cur /\ kvIters[n] <= round
  BY <1>1, <1>3 DEF AggInv, TreeInv, RelationInv
<1>5. upd <=> ~init_flag[n]
  BY <1>1, <1>2, <1>3 DEF AggInv, TreeInv, RelationInv
<1>6. rel = cur /\ (init_flag[n] => vanRel[n] = cur)
  BY <1>1, <1>4, <1>5 DEF AggInv, TreeInv, RelationInv
<1>7. /\ kvRel' = [kvRel EXCEPT ![n] = rel]
      /\ vanRel' = IF upd THEN [vanRel EXCEPT ![n] = rel] ELSE vanRel
      /\ kvIters' = IF upd THEN [kvIters EXCEPT ![n] = m.iters] ELSE kvIters
      /\ init_flag' = IF upd THEN [init_flag EXCEPT ![n] = TRUE] ELSE init_flag
      /\ rel # NoPolicy => fault' = fault /\ DataHandleDefault(n, m, rel)
      /\ UNCHANGED <<round, cur, perf_update_flag, release, temp>>
  BY DEF ServerProcess, schedVars
<1> HIDE DEF upd, rel
<1>8. fault' = fault /\ DataHandleDefault(n, m, cur)
  BY <1>4, <1>6, <1>7, PolicyTypes
<1>9. /\ kvRel \in [Node -> Rels] /\ vanRel \in [Node -> Rels]
      /\ kvIters \in [Node -> 0..MaxIter] /\ init_flag \in [Node -> BOOLEAN]
  BY DEF AggInv, ConserveInv, TypeOK
<1>10. init_flag' = [init_flag EXCEPT ![n] = TRUE]
  BY <1>5, <1>7, <1>9
<1>11. RelationInv'
  <2>1. kvRel'[n] = cur /\ vanRel'[n] = cur /\ kvIters'[n] <= round /\ init_flag'[n]
    BY <1>1, <1>2, <1>3, <1>4, <1>5, <1>6, <1>7, <1>9
  <2>2. \A x \in Node \ {n} : /\ kvRel'[x] = kvRel[x] /\ vanRel'[x] = vanRel[x]
                              /\ kvIters'[x] = kvIters[x] /\ init_flag'[x] = init_flag[x]
    BY <1>7, <1>9
  <2>3. ASSUME NEW x \in Node
        PROVE  /\ init_flag'[x] => kvRel'[x] = temp'[x] /\ vanRel'[x] = temp'[x]
               /\ IF release'[x] \in {None, Empty} THEN temp'[x] = cur' ELSE release'[x] = cur'
               /\ kvIters'[x] <= round'
               /\ (release'[x] # None \/ ~init_flag'[x]) => kvIters'[x] < round'
    <3>1. CASE x = n
      BY <3>1, <1>1, <1>4, <1>7, <2>1
    <3>2. CASE x # n
      BY <3>2, <1>7, <2>2 DEF AggInv, TreeInv, RelationInv
    <3> QED
      BY <3>1, <3>2
  <2> QED
    BY <1>7, <2>3 DEF AggInv, TreeInv, RelationInv
<1>12. NoFault'
  BY <1>8 DEF AggInv, TreeInv, NoFault
<1> QED
  BY <1>1, <1>3, <1>4, <1>8, <1>10, <1>11, <1>12

\* Of the sons of its receiver a push has exactly its sender's value.
LEMMA MessageTop ==
    ASSUME AggInv, cur \in Policies, NEW m \in queue, MessageOK(m)
    PROVE  Tops(m.vals, m.to, RootOf[m.key]) = {m.src}
<1> DEFINE n == m.to
           r == RootOf[m.key]
<1>1. n \in Node /\ r \in Node /\ m.src \in Node
  BY KeyAssumption DEF AggInv, ConserveInv, TypeOK, UpMsg
<1>2. CASE m.worker
  BY <1>1, <1>2 DEF MessageOK, Tops, sons, Has
<1>3. CASE ~m.worker
  <2>1. /\ m.src # r /\ n = NextHop[cur][r][m.src] /\ Has(m.vals, m.src)
        /\ ParentClosed(m.vals, r, {m.src})
    BY <1>3 DEF MessageOK
  <2>2. ~Has(m.vals, r) /\ ~Has(m.vals, n)
    BY <1>1, <2>1, ParentOutside
  <2>3. m.src \in sons(cur, r, n)
    BY <1>1, <2>1 DEF sons
  <2>4. ASSUME NEW x \in sons(cur, r, n), x # m.src PROVE ~Has(m.vals, x)
    <3>1. x = n \/ (x \in Node \ {r} /\ NextHop[cur][r][x] = n)
      BY DEF sons
    <3> QED
      BY <1>1, <2>2, <2>4, <2>1, <3>1 DEF ParentClosed
  <2> QED
    BY <2>1, <2>3, <2>4 DEF Tops
<1> QED
  BY <1>2, <1>3

\* The buffer with the push merged into it is made of one more subtree.
LEMMA MergedOK ==
    ASSUME AggInv, cur \in Policies, round > 0, NEW m \in queue, MessageOK(m),
           UNCHANGED <<round, cur>>, init_flag' = [init_flag EXCEPT ![m.to] = TRUE],
           NEW b, b = Merge(update_buf[m.to][m.key], m)
    PROVE  BufferOK(b, m.to, RootOf[m.key])'
<1> DEFINE n == m.to
           k == m.key
           r == RootOf[k]
           a == update_buf[n][k]
<1>1. /\ n \in Node /\ k \in Key /\ r \in Node /\ m.src \in Node
      /\ b.merged = a.merged \cup m.vals /\ b.request = a.request + 1
  BY MergeAdds, KeyAssumption DEF AggInv, ConserveInv, TypeOK, UpMsg
<1>2. BufferOK(a, n, r)
  BY <1>1 DEF AggInv, TreeInv, BufferInv
<1>3. a.merged \cap m.vals = {}
  BY <1>1 DEF AggInv, ConserveInv, NoDoubleCount
<1> HIDE DEF a, r
<1>4. \A x : Has(b.merged, x) <=> Has(a.merged, x) \/ Has(m.vals, x)
  BY <1>1 DEF Has
<1>5. b.merged \subseteq Round(round)
  BY <1>1, <1>2 DEF BufferOK, MessageOK
<1>6. b.request = Cardinality(Tops(b.merged, n, r))
  <2>1. Tops(m.vals, n, r) = {m.src}
    BY MessageTop DEF r
  <2>2. Tops(b.merged, n, r) = Tops(a.merged, n, r) \cup {m.src}
    BY <1>4, <2>1 DEF Tops
  <2>3. m.src \notin Tops(a.merged, n, r)
    BY <1>3, <2>1 DEF Tops, Has
  <2>4. Tops(a.merged, n, r) \subseteq Node
    BY <1>1 DEF Tops, sons
  <2>5. IsFiniteSet(Tops(a.merged, n, r))
    BY <2>4, NodeAssumption, FS_Subset
  <2>6. Cardinality(Tops(b.merged, n, r)) = Cardinality(Tops(a.merged, n, r)) + 1
    BY <2>2, <2>3, <2>5, FS_AddElement
  <2> QED
    BY <1>1, <1>2, <2>6 DEF BufferOK
<1>7. m.src \in sons(cur, r, n)
  BY <1>1, MessageTop DEF Tops, r
<1>8. ChildClosed(b.merged, r, {n})
  <2> SUFFICES ASSUME NEW x \in Node \ {r}, Has(b.merged, NextHop[cur][r][x]),
                      NextHop[cur][r][x] # n
               PROVE  Has(b.merged, x)
    BY DEF ChildClosed
  <2>1. CASE Has(a.merged, NextHop[cur][r][x])
    BY <1>2, <1>4, <2>1 DEF BufferOK, ChildClosed
  <2>2. CASE Has(m.vals, NextHop[cur][r][x])
    <3>1. ~m.worker
      BY <2>2 DEF MessageOK, Has
    <3> QED
      BY <1>4, <2>2, <3>1 DEF MessageOK, ChildClosed, r
  <2> QED
    BY <1>4, <2>1, <2>2
<1>9. ParentClosed(b.merged, r, sons(cur, r, n))
  <2> SUFFICES ASSUME NEW x \in Node \ sons(cur, r, n), Has(b.merged, x)
               PROVE  x # r /\ Has(b.merged, NextHop[cur][r][x])
    BY DEF ParentClosed
  <2>1. CASE Has(a.merged, x)
    BY <1>2, <1>4, <2>1 DEF BufferOK, ParentClosed
  <2>2. CASE Has(m.vals, x)
    <3>1. x # m.src
      BY <1>7
    <3>2. ~m.worker
      BY <2>2, <3>1 DEF MessageOK, Has
    <3> QED
      BY <1>4, <2>2, <3>1, <3>2 DEF MessageOK, ParentClosed, r
  <2> QED
    BY <1>4, <2>1, <2>2
<1>10. n # r => ~Has(b.merged, r)
  <2> SUFFICES ASSUME n # r PROVE ~Has(m.vals, r)
    BY <1>2, <1>4 DEF BufferOK
  <2>1. CASE m.worker
    BY <2>1 DEF MessageOK, Has
  <2>2. CASE ~m.worker
    BY <1>1, <2>2 DEF MessageOK, ParentClosed, r
  <2> QED
    BY <2>1, <2>2
<1>11. \A x \in Node : Has(b.merged, x) => init_flag'[x]
  <2>0. init_flag \in [Node -> BOOLEAN]
    BY DEF AggInv, ConserveInv, TypeOK
  <2> SUFFICES ASSUME NEW x \in Node, Has(b.merged, x), x # n PROVE init_flag[x]
    BY <1>1, <2>0
  <2>1. CASE Has(a.merged, x)
    BY <1>2, <2>1 DEF BufferOK, Settled
  <2>2. CASE Has(m.vals, x)
    BY <2>2 DEF MessageOK, Settled, Has
  <2> QED
    BY <1>4, <2>1, <2>2
<1> HIDE DEF n
<1> QED
  BY <1>5, <1>6, <1>8, <1>9, <1>10, <1>11
  DEF BufferOK, Tops, ChildClosed, ParentClosed, Settled, Has, r, n

\* The count of merged requests tells whether every son's value is there, and
\* reaches the number of workers only then.
LEMMA FullMeansAllSons ==
    ASSUME NEW n \in Node, NEW r \in Node, NEW S, NEW c,
           c = Cardinality(Tops(S, n, r))
    PROVE  /\ c = Cardinality(sons(cur, r, n)) => \A x \in sons(cur, r, n) : Has(S, x)
           /\ c = Cardinality(Node) => c = Cardinality(sons(cur, r, n))
<1> DEFINE T == Tops(S, n, r)
           U == sons(cur, r, n)
<1>1. T \subseteq U /\ U \subseteq Node /\ \A x \in T : Has(S, x)
  BY DEF Tops, sons
<1> HIDE DEF T, U
<1>2. IsFiniteSet(U) /\ IsFiniteSet(T)
  BY <1>1, NodeAssumption, FS_Subset
<1>3. c = Cardinality(U) => T = U
  BY <1>1, <1>2, FS_Subset DEF T
<1>4. c = Cardinality(Node) => T = Node
  BY <1>1, NodeAssumption, FS_Subset DEF T
<1>5. c = Cardinality(Node) => U = Node
  BY <1>1, <1>4
<1> QED
  BY <1>1, <1>3, <1>5 DEF U

\* A full buffer is the subtree of its server.
LEMMA FullIsSubtree ==
    ASSUME NEW n \in Node, NEW r \in Node, NEW S, cur \in Policies,
           \A x \in sons(cur, r, n) : Has(S, x),
           ChildClosed(S, r, {n}), ParentClosed(S, r, sons(cur, r, n))
    PROVE  Has(S, n) /\ ChildClosed(S, r, {}) /\ (n # r => ParentClosed(S, r, {n}))
<1>1. Has(S, n) /\ \A x \in Node \ {r} : NextHop[cur][r][x] = n => Has(S, x)
  BY DEF sons
<1>2. ChildClosed(S, r, {})
  BY <1>1 DEF ChildClosed
<1>3. n # r => ParentClosed(S, r, {n})
  BY <1>1 DEF ParentClosed, sons
<1> QED
  BY <1>1, <1>2, <1>3

\* What the handling of m does not touch stays right.
LEMMA OthersKept ==
    ASSUME AggInv, round > 0, NEW m \in queue, m.to \in Node,
           UNCHANGED <<round, cur>>, init_flag' = [init_flag EXCEPT ![m.to] = TRUE]
    PROVE  /\ \A x \in Node : init_flag[x] => init_flag'[x]
           /\ \A q \in up \cup queue : MessageOK(q)'
           /\ \A b : \A x \in Node : \A y \in Key :
                 b = update_buf[x][y] => BufferOK(b, x, RootOf[y])'
<1>1. \A x \in Node : init_flag[x] => init_flag'[x]
  BY DEF AggInv, ConserveInv, TypeOK
<1>2. ASSUME NEW q \in up \cup queue PROVE MessageOK(q)'
  BY <1>1, MessageOKKept DEF AggInv, TreeInv, MessageInv
<1>3. ASSUME NEW b, NEW x \in Node, NEW y \in Key, b = update_buf[x][y]
      PROVE  BufferOK(b, x, RootOf[y])'
  <2>1. BufferOK(b, x, RootOf[y])
    BY <1>3 DEF AggInv, TreeInv, BufferInv
  <2> QED
    BY <1>1, <2>1, BufferOKKept
<1> QED
  BY <1>1, <1>2, <1>3

\* After the handling of m: the buffers, given the new one.
LEMMA BufferHandled ==
    ASSUME AggInv, round > 0, NEW m \in queue, m.to \in Node, m.key \in Key,
           UNCHANGED <<round, cur>>, init_flag' = [init_flag EXCEPT ![m.to] = TRUE],
           NEW b, BufferOK(b, m.to, RootOf[m.key])',
           update_buf' = [update_buf EXCEPT ![m.to][m.key] = b]
    PROVE  BufferInv'
<1>1. ASSUME NEW x \in Node, NEW y \in Key
      PROVE  BufferOK(update_buf[x][y], x, RootOf[y])'
  <2>1. update_buf'[x][y] = IF x = m.to /\ y = m.key THEN b ELSE update_buf[x][y]
    BY DEF AggInv, ConserveInv, TypeOK
  <2>2. PICK c : c = update_buf'[x][y]
    OBVIOUS
  <2>3. BufferOK(c, x, RootOf[y])'
    <3>1. CASE x = m.to /\ y = m.key
      BY <2>1, <2>2, <3>1
    <3>2. CASE ~(x = m.to /\ y = m.key)
      <4>1. c = update_buf[x][y]
        BY <2>1, <2>2, <3>2
      <4> QED
        BY <4>1, OthersKept
    <3> QED
      BY <3>1, <3>2
  <2> QED
    BY <2>2, <2>3 DEF BufferOK
<1> QED
  BY <1>1 DEF BufferInv

\* Handling m stores no other key, and leaves m's key unreduced: nothing
\* changes for results.
LEMMA UnreducedHandled ==
    ASSUME AggInv, NEW m \in queue, m.to \in Node, m.key \in Key,
           UNCHANGED <<round, cur, pending, iter_count, unsent, release, grant, down>>,
           init_flag' = [init_flag EXCEPT ![m.to] = TRUE],
           NEW b, update_buf' = [update_buf EXCEPT ![m.to][m.key] = b],
           store' = store \/ store' = [store EXCEPT ![m.key] = {}],
           \A q \in (up \cup queue)' : q \in up \cup queue \/ q.key = m.key
    PROVE  StoreInv' /\ MulticastInv'
<1> DEFINE k == m.key
<1>1. ~Reduced(k)
  BY DEF AggInv, TreeInv, StoreInv
<1>2. \A y \in Key \ {k} : store'[y] = store[y]
  BY DEF AggInv, ConserveInv, TypeOK
<1>3. store'[k] = store[k] \/ store'[k] = {}
  BY DEF AggInv, ConserveInv, TypeOK
<1>4. Round(round) # {}
  <2>1. PICK x \in Node : TRUE
    BY NodeAssumption
  <2>2. <<x, round>> \in Round(round)
    BY DEF Round
  <2> QED
    BY <2>2
<1> HIDE DEF k
<1>5. ~Reduced(k)' /\ \A y \in Key : Reduced(y)' <=> Reduced(y)
  BY <1>1, <1>2, <1>3, <1>4 DEF Reduced
<1>6. StoreInv'
  <2> SUFFICES ASSUME NEW y \in Key
               PROVE  /\ store'[y] = {} \/ \E t \in 1..round : store'[y] = Round(t)
                      /\ Reduced(y)' =>
                           /\ \A q \in (up \cup queue)' : q.key # y
                           /\ \A x \in Node : /\ update_buf'[x][y] = NoBuf /\ init_flag'[x]
                                              /\ ~Granting(x)' /\ y \notin unsent'[x]
    BY DEF StoreInv
  <2>1. store'[y] = {} \/ \E t \in 1..round : store'[y] = Round(t)
    BY <1>2, <1>3 DEF AggInv, TreeInv, StoreInv
  <2>2. ASSUME Reduced(y)' PROVE y # k /\ Reduced(y)
    BY <1>5, <2>2
  <2>3. ASSUME NEW x \in Node, y # k PROVE update_buf'[x][y] = update_buf[x][y]
    BY <2>3 DEF AggInv, ConserveInv, TypeOK, k
  <2>4. \A x \in Node : init_flag[x] => init_flag'[x]
    BY DEF AggInv, ConserveInv, TypeOK
  <2> QED
    BY <2>1, <2>2, <2>3, <2>4 DEF AggInv, TreeInv, StoreInv, Granting, k
<1>7. \A e \in down : e.key \in Key /\ e.key # k
  BY <1>1 DEF AggInv, TreeInv, MulticastInv, ConserveInv, TypeOK, DownMsg
<1>8. MulticastInv'
  BY <1>2, <1>5, <1>7 DEF AggInv, TreeInv, MulticastInv, Got, Passed, Reached
<1> QED
  BY <1>6, <1>8

\* The root of k has every son's value: it is the complete sum of the round,
\* nothing of k is left elsewhere, and the result goes out to the sons.
LEMMA ReduceHandled ==
    ASSUME AggInv, cur \in Policies, round \in Nat, round > 0, NEW m \in queue,
           m.to \in Node, m.key \in Key, m.to = RootOf[m.key],
           UNCHANGED <<round, cur, pending, iter_count, unsent, release, grant, up>>,
           queue' = queue \ {m},
           init_flag' = [init_flag EXCEPT ![m.to] = TRUE],
           NEW b, b = Merge(update_buf[m.to][m.key], m),
           b.merged = Round(round),
           \A x \in Node : Has(b.merged, x) => init_flag'[x],
           update_buf' = [update_buf EXCEPT ![m.to][m.key] = NoBuf],
           store' = [store EXCEPT ![m.key] = b.merged],
           down' = down \cup ResponseAll(m.to, cur, m.key, b.merged)
    PROVE  StoreInv' /\ MulticastInv'
<1> DEFINE k == m.key
           r == m.to
           a == update_buf[r][k]
<1>1. b.merged = a.merged \cup m.vals
  BY MergeAdds DEF AggInv
<1>2. ~Reduced(k)
  BY DEF AggInv, TreeInv, StoreInv
<1>3. store'[k] = Round(round) /\ \A y \in Key \ {k} : store'[y] = store[y]
  BY DEF AggInv, ConserveInv, TypeOK
<1>4. Reduced(k)' /\ \A y \in Key \ {k} : Reduced(y)' <=> Reduced(y)
  BY <1>3 DEF Reduced
<1>5. \A q \in up \cup (queue \ {m}) : q.key # k
  <2> SUFFICES ASSUME NEW q \in up \cup (queue \ {m}), q.key = k PROVE FALSE
    OBVIOUS
  <2>1. q \in up \cup queue /\ q # m
    BY DEF AggInv, ConserveInv, NoDoubleCount
  <2>2. q.vals \cap m.vals = {} /\ q.vals \cap a.merged = {} /\ q.vals # {}
    BY <2>1 DEF AggInv, ConserveInv, NoDoubleCount, EmptyBufInv
  <2>3. q.vals \subseteq Round(round)
    BY <2>1 DEF AggInv, TreeInv, MessageInv, MessageOK
  <2> QED
    BY <1>1, <2>2, <2>3
<1>6. \A x \in Node : update_buf'[x][k] = NoBuf
  <2> SUFFICES ASSUME NEW x \in Node, x # r PROVE update_buf[x][k] = NoBuf
    BY DEF AggInv, ConserveInv, TypeOK
  <2>1. /\ update_buf[x][k].merged \cap a.merged = {}
        /\ update_buf[x][k].merged \cap m.vals = {}
    BY DEF AggInv, ConserveInv, NoDoubleCount
  <2>2. BufferOK(update_buf[x][k], x, RootOf[k])
    BY DEF AggInv, TreeInv, BufferInv
  <2>3. update_buf[x][k].merged = {}
    BY <1>1, <2>1, <2>2 DEF BufferOK
  <2>4. Tops({}, x, RootOf[k]) = {}
    BY DEF Tops, Has
  <2>5. update_buf[x][k].request = 0
    BY <2>2, <2>3, <2>4, FS_EmptySet DEF BufferOK
  <2>6. update_buf[x][k] \in Buf
    BY DEF AggInv, ConserveInv, TypeOK
  <2> QED
    BY <2>3, <2>5, <2>6 DEF Buf, NoBuf
<1>7. \A x \in Node : <<x, round>> \in b.merged
  BY DEF Round
<1>8. \A x \in Node : init_flag'[x]
  BY <1>7 DEF Has
<1>9. \A x \in Node : Pushed(<<x, round>>, k)
  BY <1>1, <1>7 DEF AggInv, ConserveInv, FreshInv
<1>10. \A x \in Node : ~Granting(x) /\ iter_count[x] = round /\ k \notin unsent[x]
  <2> SUFFICES ASSUME NEW x \in Node
               PROVE  ~Granting(x) /\ iter_count[x] = round /\ k \notin unsent[x]
    OBVIOUS
  <2>1. round <= iter_count[x] /\ (round = iter_count[x] => k \notin unsent[x])
    BY <1>9 DEF Pushed
  <2>2. iter_count[x] \in Nat
    BY BoundAssumption DEF AggInv, ConserveInv, TypeOK
  <2> QED
    BY <2>1, <2>2 DEF AggInv, ConserveInv, ReleaseInv
<1> HIDE DEF a
<1>11. StoreInv'
  <2> SUFFICES ASSUME NEW y \in Key
               PROVE  /\ store'[y] = {} \/ \E t \in 1..round : store'[y] = Round(t)
                      /\ Reduced(y)' =>
                           /\ \A q \in (up \cup queue)' : q.key # y
                           /\ \A x \in Node : /\ update_buf'[x][y] = NoBuf /\ init_flag'[x]
                                              /\ ~Granting(x)' /\ y \notin unsent'[x]
    BY DEF StoreInv
  <2>1. CASE y = k
    <3>1. store'[y] = Round(round) /\ round \in 1..round
      BY <1>3, <2>1
    <3> QED
      BY <2>1, <3>1, <1>5, <1>6, <1>8, <1>10 DEF Granting
  <2>2. CASE y # k
    <3>1. \A x \in Node : update_buf'[x][y] = update_buf[x][y]
      BY <2>2 DEF AggInv, ConserveInv, TypeOK
    <3>2. (up \cup queue)' \subseteq up \cup queue
      OBVIOUS
    <3> HIDE DEF k
    <3> QED
      BY <2>2, <3>1, <3>2, <1>3, <1>4, <1>8 DEF AggInv, TreeInv, StoreInv, Granting
  <2> QED
    BY <2>1, <2>2
<1>12. \A e \in down : e.key # k
  BY <1>2 DEF AggInv, TreeInv, MulticastInv
<1>13. ~Passed(r, k)
  BY <1>2, <1>12 DEF AggInv, TreeInv, MulticastInv, Passed
<1>14. down' = {e \in down : ~(e.key = k /\ e.to = r)} \cup
               {[key |-> k, root |-> RootOf[k], to |-> s, worker |-> (s = r),
                 vals |-> store'[k]] : s \in sons(cur, RootOf[k], r)}
  <2>1. down = {e \in down : ~(e.key = k /\ e.to = r)}
    BY <1>12
  <2>2. ResponseAll(r, cur, k, b.merged) =
          {[key |-> k, root |-> RootOf[k], to |-> s, worker |-> (s = r),
            vals |-> store'[k]] : s \in sons(cur, RootOf[k], r)}
    <3>1. b.merged = store'[k] /\ r = RootOf[k]
      BY <1>3
    <3> DEFINE f(s) == [key |-> k, root |-> r, to |-> s, worker |-> (s = r), vals |-> b.merged]
               g(s) == [key |-> k, root |-> RootOf[k], to |-> s, worker |-> (s = r),
                        vals |-> store'[k]]
               T == sons(cur, RootOf[k], r)
    <3>2. ResponseAll(r, cur, k, b.merged) = {f(s) : s \in T}
      BY DEF ResponseAll
    <3> HIDE DEF k, r
    <3>3. \A s : f(s) = g(s)
      BY <3>1
    <3> HIDE DEF f, g, T
    <3>4. {f(s) : s \in T} = {g(s) : s \in T}
      BY <3>3
    <3> QED
      BY <3>2, <3>4 DEF g, T
  <2> QED
    BY <2>1, <2>2
<1>15. MulticastInv'
  <2>1. r \in Node /\ k \in Key /\ r = RootOf[k]
    OBVIOUS
  <2> HIDE DEF k, r
  <2> QED
    BY <2>1, <1>3, <1>4, <1>10, <1>12, <1>13, <1>14, MulticastSends
<1> QED
  BY <1>11, <1>15

\* KVServer::Process: a value is merged, passed on to the parent when all sons
\* have delivered, or stored and multicast by the root.
LEMMA ServerProcessTree ==
    ASSUME AggInv, NEW m \in queue, ServerProcess(m)
    PROVE  TreeInv'
<1> DEFINE n == m.to
           k == m.key
           r == RootOf[k]
           full(c) == c.request = Cardinality(sons(cur, r, n))
<1>1. /\ cur \in Policies /\ round \in Nat /\ round > 0
      /\ n \in Node /\ k \in Key /\ MessageOK(m)
      /\ DataHandleDefault(n, m, cur)
      /\ init_flag' = [init_flag EXCEPT ![n] = TRUE]
      /\ RelationInv' /\ NoFault'
  BY HandledByCur
<1>2. /\ queue' = queue \ {m}
      /\ UNCHANGED <<iter_count, unsent, pending, recved, round, cur, release, grant>>
  BY DEF ServerProcess, workerVars, schedVars
<1>3. PICK b : b = Merge(update_buf[n][k], m)
  OBVIOUS
<1>4. \/ /\ n # r /\ full(b)
         /\ up' = up \cup {PushToParent(n, cur, m, b.merged)}
         /\ update_buf' = [update_buf EXCEPT ![n][k] = NoBuf]
         /\ UNCHANGED <<store, down>>
      \/ /\ full(b) \/ b.request = Cardinality(Node)
         /\ n # r => ~full(b)
         /\ store' = (IF n = r THEN [store EXCEPT ![k] = b.merged] ELSE store)
         /\ down' = down \cup ResponseAll(n, cur, k, b.merged)
         /\ update_buf' = [update_buf EXCEPT ![n][k] = NoBuf]
         /\ UNCHANGED up
      \/ /\ update_buf' = [update_buf EXCEPT ![n][k] = b]
         /\ store' = store \/ store' = [store EXCEPT ![k] = {}]
         /\ UNCHANGED <<up, down>>
  BY <1>1, <1>3 DEF DataHandleDefault
<1>5. r \in Node
  BY <1>1, KeyAssumption
<1>6. BufferOK(b, n, r)'
  BY <1>1, <1>2, <1>3, MergedOK
<1>7. /\ b.merged \subseteq Round(round)
      /\ b.request = Cardinality(Tops(b.merged, n, r))
      /\ ChildClosed(b.merged, r, {n}) /\ ParentClosed(b.merged, r, sons(cur, r, n))
      /\ \A x \in Node : Has(b.merged, x) => init_flag'[x]
  BY <1>2, <1>6 DEF BufferOK, Tops, ChildClosed, ParentClosed, Settled, Has
<1>8. full(b) => /\ Has(b.merged, n) /\ ChildClosed(b.merged, r, {})
                 /\ n # r => ParentClosed(b.merged, r, {n})
  BY <1>1, <1>5, <1>7, FullMeansAllSons, FullIsSubtree
<1>9. b.request = Cardinality(Node) => full(b)
  BY <1>1, <1>5, <1>7, FullMeansAllSons
<1>10. ASSUME NEW q \in up \cup queue PROVE MessageOK(q)'
  BY <1>1, <1>2, OthersKept
<1>11. BufferOK(NoBuf, n, r)'
  BY NoBufOKNext
<1>12. ResultOfIteration'
  BY <1>2 DEF AggInv, TreeInv, ResultOfIteration
<1> DEFINE Goal == MessageInv' /\ BufferInv' /\ StoreInv' /\ MulticastInv'
<1> HIDE DEF full
<1>13. ASSUME n # r, full(b), up' = up \cup {PushToParent(n, cur, m, b.merged)},
              update_buf' = [update_buf EXCEPT ![n][k] = NoBuf], UNCHANGED <<store, down>>
       PROVE  Goal
  <2>1. PICK q : q = PushToParent(n, cur, m, b.merged)
    OBVIOUS
  <2>2. /\ q.key = k /\ q.iters = m.iters /\ q.src = n /\ q.worker = FALSE
        /\ q.to = NextHop[cur][r][n] /\ q.vals = b.merged
    BY <1>13, <2>1 DEF PushToParent, parents
  <2>3. MessageOK(q)'
    BY <1>1, <1>2, <1>7, <1>8, <1>13, <2>2
    DEF MessageOK, ChildClosed, ParentClosed, Settled, Has
  <2>4. MessageInv'
    BY <1>2, <1>10, <1>13, <2>1, <2>2, <2>3 DEF AggInv, TreeInv, MessageInv
  <2>5. BufferInv'
    BY <1>1, <1>2, <1>11, <1>13, BufferHandled
  <2>6. \A p \in (up \cup queue)' : p \in up \cup queue \/ p.key = m.key
    BY <1>2, <1>13, <2>1, <2>2
  <2>7. StoreInv' /\ MulticastInv'
    BY <1>1, <1>2, <1>13, <2>6, UnreducedHandled
  <2> QED
    BY <2>4, <2>5, <2>7
<1>14. ASSUME n = r, full(b), store' = [store EXCEPT ![k] = b.merged],
              down' = down \cup ResponseAll(n, cur, k, b.merged),
              update_buf' = [update_buf EXCEPT ![n][k] = NoBuf], UNCHANGED up
       PROVE  Goal
  <2>1. b.merged = Round(round)
    BY <1>1, <1>5, <1>7, <1>8, <1>14, ClosedIsComplete
  <2>2. MessageInv'
    BY <1>2, <1>10, <1>14 DEF AggInv, TreeInv, MessageInv
  <2>3. BufferInv'
    BY <1>1, <1>2, <1>11, <1>14, BufferHandled
  <2>4. StoreInv' /\ MulticastInv'
    BY <1>1, <1>2, <1>3, <1>7, <1>14, <2>1, ReduceHandled
  <2> QED
    BY <2>2, <2>3, <2>4
<1>15. ASSUME update_buf' = [update_buf EXCEPT ![n][k] = b],
              store' = store \/ store' = [store EXCEPT ![k] = {}],
              UNCHANGED <<up, down>>
       PROVE  Goal
  <2>1. MessageInv'
    BY <1>2, <1>10, <1>15 DEF AggInv, TreeInv, MessageInv
  <2>2. BufferInv'
    BY <1>1, <1>2, <1>6, <1>15, BufferHandled
  <2>3. \A p \in (up \cup queue)' : p \in up \cup queue \/ p.key = m.key
    BY <1>2, <1>15
  <2>4. StoreInv' /\ MulticastInv'
    BY <1>1, <1>2, <1>15, <2>3, UnreducedHandled
  <2> QED
    BY <2>1, <2>2, <2>4
<1>16. Goal
  <2> HIDE DEF Goal
  <2> QED
    BY <1>4, <1>9, <1>13, <1>14, <1>15
<1> QED
  BY <1>1, <1>12, <1>16 DEF TreeInv

-----------------------------------------------------------------------------
(* Theorems *)

\* On a network that delivers releases in time every step of every thread
\* preserves the invariant.
THEOREM AggStep == TimelyRelease /\ AggInv /\ [Next]_vars => AggInv'
<1> SUFFICES ASSUME TimelyRelease, AggInv, [Next]_vars PROVE AggInv'
  OBVIOUS
<1>0. ConserveInv'
  BY ConserveStep DEF AggInv
<1>1. ASSUME NEW w \in Node, TopoUpdate(w) PROVE TreeInv'
  BY <1>1, TopoUpdateTree
<1>2. ASSUME NEW w \in Node, TopoUpdated(w) PROVE TreeInv'
  BY <1>2, TopoUpdatedTree
<1>3. ASSUME NEW w \in Node, NEW k \in Key, ZPush(w, k) PROVE TreeInv'
  BY <1>3, ZPushTree
<1>4. ASSUME NEW d \in down, WorkerProcess(d) PROVE TreeInv'
  BY <1>4, WorkerProcessTree
<1>5. ASSUME route_update PROVE TreeInv'
  BY <1>5, RouteUpdateTree
<1>6. ASSUME NEW w \in Node, SchedulerRelease(w) PROVE TreeInv'
  BY <1>6, SchedulerReleaseTree
<1>7. ASSUME NEW n \in Node, ServerRelease(n) PROVE TreeInv'
  BY <1>7, ServerReleaseTree
<1>8. ASSUME NEW m \in up, ProcessReply1Command(m) PROVE TreeInv'
  BY <1>8, ProcessReply1CommandTree
<1>9. ASSUME NEW m \in up, ProcessDataMsg(m) PROVE TreeInv'
  BY <1>9, ProcessDataMsgTree
<1>10. ASSUME NEW d \in down, ProcessReply2Command(d) PROVE TreeInv'
  BY <1>10, ProcessReply2CommandTree
<1>11. ASSUME NEW m \in queue, ServerProcess(m) PROVE TreeInv'
  BY <1>11, ServerProcessTree
<1>12. ASSUME UNCHANGED vars PROVE TreeInv'
  <2>1. UNCHANGED <<workerVars, schedVars, release, grant, relVars, aggVars, up, down>>
    BY <1>12 DEF vars
  <2>2. UNCHANGED <<iter_count, unsent, pending, recved, round, cur, perf_update_flag,
                    release, grant, temp, vanRel, kvRel, init_flag, kvIters, queue,
                    update_buf, store, fault, up, down>>
    BY <2>1 DEF workerVars, schedVars, relVars, aggVars
  <2>3. RelationInv' /\ MessageInv' /\ BufferInv'
    BY <2>2, RelationStutters, MessageStutters, BufferStutters DEF AggInv, TreeInv
  <2>4. StoreInv' /\ MulticastInv'
    BY <2>2, StoreStutters, MulticastStutters DEF AggInv, TreeInv
  <2>5. ResultOfIteration' /\ NoFault'
    BY <2>2 DEF AggInv, TreeInv, ResultOfIteration, NoFault
  <2> QED
    BY <2>3, <2>4, <2>5 DEF TreeInv
<1>13. TreeInv'
  BY <1>1, <1>2, <1>3, <1>4, <1>5, <1>6, <1>7, <1>8, <1>9, <1>10, <1>11, <1>12 DEF Next
<1> QED
  BY <1>0, <1>13 DEF AggInv

\* Given timely releases the invariant always holds.
THEOREM Aggregation == TimelyRelease => (Spec => []AggInv)
<1>1. Init => AggInv
  BY ConserveInit, TreeInit DEF AggInv
<1>2. ASSUME TimelyRelease PROVE Spec => []AggInv
  <2>1. AggInv /\ [Next]_vars => AggInv'
    BY <1>2, AggStep
  <2> QED
    BY <1>1, <2>1, PTL DEF Spec
<1> QED
  BY <1>2

\* Whatever trees PolicyDecision chooses and however often they change,
\* DataHandleDefault stores only the sum of one push of every worker, all of
\* the same iteration.
THEOREM SumsAreComplete == TimelyRelease => (Spec => []SumComplete)
<1>1. AggInv => SumComplete
  <2> SUFFICES ASSUME AggInv, NEW k \in Key, store[k] # {}
               PROVE  \E t \in 1..MaxIter : store[k] = Round(t)
    BY DEF SumComplete
  <2>1. PICK t \in 1..round : store[k] = Round(t)
    BY DEF AggInv, TreeInv, StoreInv
  <2>2. t \in 1..MaxIter
    BY BoundAssumption DEF AggInv, ConserveInv, TypeOK
  <2> QED
    BY <2>1, <2>2
<1>2. ASSUME TimelyRelease PROVE Spec => []SumComplete
  <2>1. Spec => []AggInv
    BY <1>2, Aggregation
  <2> QED
    BY <1>1, <2>1, PTL
<1> QED
  BY <1>2

\* What KVWorker::Process hands to a worker for a completed push is the sum of
\* the worker's own iteration.
THEOREM ResultsAreCurrent == TimelyRelease => (Spec => []ResultOfIteration)
<1>1. AggInv => ResultOfIteration
  BY DEF AggInv, TreeInv
<1>2. ASSUME TimelyRelease PROVE Spec => []ResultOfIteration
  <2>1. Spec => []AggInv
    BY <1>2, Aggregation
  <2> QED
    BY <1>1, <2>1, PTL
<1> QED
  BY <1>2

\* No server indexes an empty vector of parents or sons (ProcessReply2Command,
\* DataHandleDefault).
THEOREM RelationsAreFilled == TimelyRelease => (Spec => []NoFault)
<1>1. AggInv => NoFault
  BY DEF AggInv, TreeInv
<1>2. ASSUME TimelyRelease PROVE Spec => []NoFault
  <2>1. Spec => []AggInv
    BY <1>2, Aggregation
  <2> QED
    BY <1>1, <2>1, PTL
<1> QED
  BY <1>2

\* While a result is on its way to a server, neither its receiving threads nor
\* its customer thread can run RelationUpdate: the multicast reads its sons
\* undisturbed.
THEOREM MulticastsAreUndisturbed == TimelyRelease => (Spec => []MulticastUndisturbed)
<1>1. AggInv => MulticastUndisturbed
  <2> SUFFICES ASSUME AggInv, NEW d \in down
               PROVE  init_flag[d.to] /\ release[d.to] = None
    BY DEF MulticastUndisturbed
  <2>1. d.key \in Key /\ d.to \in Node
    BY DEF AggInv, ConserveInv, TypeOK, DownMsg
  <2>2. Reduced(d.key)
    BY DEF AggInv, TreeInv, MulticastInv
  <2> QED
    BY <2>1, <2>2 DEF AggInv, TreeInv, StoreInv, Granting
<1>2. ASSUME TimelyRelease PROVE Spec => []MulticastUndisturbed
  <2>1. Spec => []AggInv
    BY <1>2, Aggregation
  <2> QED
    BY <1>1, <2>1, PTL
<1> QED
  BY <1>2

-----------------------------------------------------------------------------
(* Refinement *)

\* The processes start with nothing pushed and nothing stored.
LEMMA RefinesInit == Init => Sync!Init
BY DEF Init, Sync!Init

\* Steps of the release protocol and of messages between servers.
LEMMA RefinesQuietly ==
    ASSUME NEW m, NEW n, NEW w,
           \/ TopoUpdate(w) \/ route_update \/ SchedulerRelease(w) \/ ServerRelease(n)
           \/ ProcessReply1Command(m) \/ ProcessDataMsg(m) \/ ProcessReply2Command(m)
    PROVE  UNCHANGED Sync!vars
BY DEF Sync!vars, TopoUpdate, route_update, SchedulerRelease, ServerRelease,
       ProcessReply1Command, ProcessDataMsg, ProcessReply2Command, workerVars, aggVars

\* A granted release starts an iteration.
LEMMA TopoUpdatedStarts ==
    ASSUME AggInv, NEW w \in Node, TopoUpdated(w)
    PROVE  Sync!Start(w)
<1>1. pending[w] = {} /\ iter_count[w] < MaxIter
  BY DEF TopoUpdated, AggInv, ConserveInv, ReleaseInv, Granting
<1> QED
  BY <1>1 DEF TopoUpdated, Sync!Start, aggVars

\* A worker completes a push only with the sum of its iteration.
LEMMA WorkerProcessDelivers ==
    ASSUME AggInv, NEW d \in down, WorkerProcess(d)
    PROVE  d.to \in Node /\ d.key \in Key /\ Sync!Deliver(d.to, d.key)
<1>1. d.to \in Node /\ d.key \in Key
  BY DEF AggInv, ConserveInv, TypeOK, DownMsg
<1>2. Reduced(d.key) /\ d.vals = store[d.key] /\ d.key \in pending[d.to]
  BY DEF AggInv, TreeInv, MulticastInv
<1>3. iter_count[d.to] = round /\ d.key \notin unsent[d.to]
  BY <1>1, <1>2, ReducedIsSettled
<1>4. store[d.key] = Sync!Sum(iter_count[d.to])
  BY <1>2, <1>3 DEF Reduced, Round, Sync!Sum
<1>5. /\ pending' = [pending EXCEPT ![d.to] = @ \ {d.key}]
      /\ recved' = [recved EXCEPT ![d.to][d.key] = store[d.key]]
      /\ UNCHANGED <<iter_count, unsent, store>>
  BY <1>2, <1>3 DEF WorkerProcess, aggVars
<1> QED
  BY <1>1, <1>2, <1>4, <1>5 DEF Sync!Deliver

\* The sum is stored when the pushes of all workers are in it; it is dropped
\* when the first of a new iteration is merged at the root.
LEMMA ServerProcessReduces ==
    ASSUME AggInv, NEW m \in queue, ServerProcess(m)
    PROVE  \/ UNCHANGED Sync!vars
           \/ m.key \in Key /\ Sync!Drop(m.key)
           \/ m.key \in Key /\ round \in 1..MaxIter /\ Sync!Reduce(m.key, round)
<1> DEFINE n == m.to
           k == m.key
           r == RootOf[k]
           b == Merge(update_buf[n][k], m)
<1>1. /\ cur \in Policies /\ round \in Nat /\ round > 0
      /\ n \in Node /\ k \in Key /\ MessageOK(m) /\ r \in Node
      /\ DataHandleDefault(n, m, cur)
      /\ init_flag' = [init_flag EXCEPT ![n] = TRUE]
  BY HandledByCur, KeyAssumption
<1>2. UNCHANGED <<iter_count, unsent, pending, recved, round, cur>>
  BY DEF ServerProcess, workerVars, schedVars
<1>3. \/ store' = store
      \/ store' = [store EXCEPT ![k] = {}]
      \/ /\ n = r
         /\ b.request = Cardinality(sons(cur, r, n)) \/ b.request = Cardinality(Node)
         /\ store' = [store EXCEPT ![k] = b.merged]
  BY <1>1 DEF DataHandleDefault
<1>4. store[k] # Sync!Sum(round)
  BY <1>1 DEF AggInv, TreeInv, StoreInv, Reduced, Round, Sync!Sum
<1>5. round \in 1..MaxIter
  BY <1>1, BoundAssumption DEF AggInv, ConserveInv, TypeOK
<1>6. \A x \in Node : iter_count[x] \in Nat /\ iter_count[x] <= round
  <2>1. \A x \in Node : iter_count[x] \in Nat
    BY BoundAssumption DEF AggInv, ConserveInv, TypeOK
  <2>2. \A x \in Node : round = iter_count[x] + 1 \/ round = iter_count[x]
    BY DEF AggInv, ConserveInv, ReleaseInv
  <2> QED
    BY <2>1, <2>2
<1>7. CASE store' = store
  BY <1>2, <1>7 DEF Sync!vars
<1>8. CASE store' = [store EXCEPT ![k] = {}]
  <2>1. m.src \in Node /\ <<m.src, round>> \in m.vals
    BY <1>1 DEF AggInv, ConserveInv, TypeOK, UpMsg, MessageOK, Has
  <2>2. Pushed(<<m.src, round>>, k)
    BY <2>1 DEF AggInv, ConserveInv, FreshInv
  <2>3. iter_count[m.src] = round /\ k \notin unsent[m.src]
    BY <1>1, <1>6, <2>1, <2>2 DEF Pushed
  <2>4. k \in pending[m.src]
    BY <1>1, <1>4, <2>1, <2>3
    DEF AggInv, TreeInv, MulticastInv, Got, Reduced, Round, Sync!Sum
  <2> QED
    BY <1>1, <1>2, <1>4, <1>8, <2>1, <2>3, <2>4 DEF Sync!Drop
<1>9. ASSUME n = r, b.request = Cardinality(sons(cur, r, n)) \/ b.request = Cardinality(Node),
             store' = [store EXCEPT ![k] = b.merged]
      PROVE  Sync!Reduce(k, round)
  <2>1. PICK c : c = b
    OBVIOUS
  <2>2. BufferOK(c, n, r)'
    BY <1>1, <1>2, <2>1, MergedOK
  <2>3. /\ c.merged \subseteq Round(round)
        /\ c.request = Cardinality(Tops(c.merged, n, r))
        /\ ChildClosed(c.merged, r, {n}) /\ ParentClosed(c.merged, r, sons(cur, r, n))
    BY <1>2, <2>2 DEF BufferOK, Tops, ChildClosed, ParentClosed, Has
  <2>4. c.request = Cardinality(sons(cur, r, n)) \/ c.request = Cardinality(Node)
    BY <1>9, <2>1
  <2>5. Has(c.merged, n) /\ ChildClosed(c.merged, r, {})
    BY <1>1, <2>3, <2>4, FullMeansAllSons, FullIsSubtree
  <2>6. c.merged = Round(round)
    BY <1>1, <1>9, <2>3, <2>5, ClosedIsComplete
  <2>7. b.merged = update_buf[n][k].merged \cup m.vals /\ b.merged = Round(round)
    BY <2>1, <2>6, MergeAdds DEF AggInv
  <2>8. ASSUME NEW x \in Node PROVE iter_count[x] = round /\ k \notin unsent[x]
    <3>1. <<x, round>> \in update_buf[n][k].merged \cup m.vals
      BY <2>7 DEF Round
    <3>2. Pushed(<<x, round>>, k)
      BY <1>1, <3>1 DEF AggInv, ConserveInv, FreshInv
    <3> QED
      BY <1>1, <1>6, <3>2 DEF Pushed
  <2>9. store' = [store EXCEPT ![k] = Sync!Sum(round)]
    BY <1>9, <2>7 DEF Round, Sync!Sum
  <2> QED
    BY <1>2, <1>4, <2>8, <2>9 DEF Sync!Reduce
<1> QED
  BY <1>1, <1>3, <1>5, <1>7, <1>8, <1>9

\* Every step of a thread is a step of the store, or none.
LEMMA RefinesStep ==
    ASSUME AggInv, [Next]_vars
    PROVE  [Sync!Next]_(Sync!vars)
<1>1. ASSUME NEW w \in Node, TopoUpdated(w) PROVE Sync!Next
  BY <1>1, TopoUpdatedStarts DEF Sync!Next
<1>2. ASSUME NEW w \in Node, NEW k \in Key, ZPush(w, k) PROVE Sync!Next
  BY <1>2 DEF ZPush, aggVars, Sync!Push, Sync!Next
<1>3. ASSUME NEW d \in down, WorkerProcess(d) PROVE Sync!Next
  BY <1>3, WorkerProcessDelivers DEF Sync!Next
<1>4. ASSUME NEW m \in queue, ServerProcess(m) PROVE Sync!Next \/ UNCHANGED Sync!vars
  BY <1>4, ServerProcessReduces DEF Sync!Next
<1>5. CASE UNCHANGED vars
  BY <1>5 DEF vars, workerVars, aggVars, Sync!vars
<1> QED
  BY <1>1, <1>2, <1>3, <1>4, <1>5, RefinesQuietly DEF Next

\* The servers, trees and releases (TopoUpdate to ResponseAll) together behave
\* as one synchronous store.
THEOREM StoreRefined == TimelyRelease => (Spec => ImplementsSyncStore)
<1>1. ASSUME TimelyRelease PROVE Spec => Sync!Spec
  <2>1. Spec => []AggInv
    BY <1>1, Aggregation
  <2>2. AggInv /\ [Next]_vars => [Sync!Next]_(Sync!vars)
    BY RefinesStep
  <2> QED
    BY <2>1, <2>2, RefinesInit, PTL DEF Spec, Sync!Spec
<1> QED
  BY <1>1 DEF ImplementsSyncStore

-----------------------------------------------------------------------------
(* The tree of a sum under way *)

\* Nothing is merged, and what init_flag and release guard stays guarded.
LEMMA StableStutters ==
    ASSUME StableInv, UNCHANGED <<update_buf, init_flag, release>>
    PROVE  StableInv'
BY DEF StableInv

\* The scheduler's next release finds every buffer empty, a server's comes to
\* an empty buffer, and whoever merges has taken its relations over.
LEMMA StableStep ==
    ASSUME AggInv, StableInv, [Next]_vars
    PROVE  StableInv'
<1>0. /\ update_buf \in [Node -> [Key -> Buf]] /\ init_flag \in [Node -> BOOLEAN]
      /\ release \in [Node -> Releases]
  BY DEF AggInv, ConserveInv, TypeOK
<1>1. ASSUME NEW w, NEW m, NEW k,
             \/ TopoUpdate(w) \/ TopoUpdated(w) \/ ZPush(w, k) \/ WorkerProcess(m)
             \/ route_update \/ ProcessReply1Command(m) \/ ProcessDataMsg(m)
             \/ ProcessReply2Command(m) \/ UNCHANGED vars
      PROVE  UNCHANGED <<update_buf, init_flag, release>>
  BY <1>1 DEF TopoUpdate, TopoUpdated, ZPush, WorkerProcess, route_update,
              ProcessReply1Command, ProcessDataMsg, ProcessReply2Command, vars,
              relVars, aggVars
<1>2. ASSUME NEW w \in Node, SchedulerRelease(w) PROVE StableInv'
  <2>1. UNCHANGED <<update_buf, init_flag>>
    BY <1>2 DEF SchedulerRelease, relVars, aggVars
  <2>2. CASE AllNotified
    BY <1>2, <2>1, <2>2, ReleaseFindsQuiet DEF StableInv
  <2>3. CASE ~AllNotified
    BY <1>2, <2>1, <2>3 DEF SchedulerRelease, StableInv
  <2> QED
    BY <2>2, <2>3
<1>3. ASSUME NEW n \in Node, ServerRelease(n) PROVE StableInv'
  <2>1. /\ update_buf' = update_buf /\ \A k \in Key : update_buf[n][k] = NoBuf
        /\ \A x \in Node \ {n} : init_flag'[x] = init_flag[x] /\ release'[x] = release[x]
    BY <1>0, <1>3 DEF ServerRelease, aggVars, StableInv
  <2> QED
    BY <2>1 DEF StableInv
<1>4. ASSUME NEW m \in queue, ServerProcess(m) PROVE StableInv'
  <2>1. m.to \in Node /\ m.key \in Key /\ release[m.to] = None
    BY DEF AggInv, ConserveInv, TypeOK, UpMsg, TreeInv, MessageInv
  <2>2. init_flag' = [init_flag EXCEPT ![m.to] = TRUE] /\ release' = release
    BY <1>4, HandledByCur DEF ServerProcess
  <2>3. \A x \in Node \ {m.to} : \A y \in Key : update_buf'[x][y] = update_buf[x][y]
    <3>1. DataHandleDefault(m.to, m, cur)
      BY <1>4, HandledByCur
    <3>2. PICK b : update_buf' = [update_buf EXCEPT ![m.to][m.key] = b]
      BY <3>1 DEF DataHandleDefault
    <3> QED
      BY <1>0, <2>1, <3>2
  <2> QED
    BY <1>0, <2>1, <2>2, <2>3 DEF StableInv
<1> QED
  BY <1>1, <1>2, <1>3, <1>4, StableStutters DEF Next

\* KVServer::RelationUpdate never changes the tree of a server that has merged
\* the values of only some of its sons.
THEOREM TreeIsStable == TimelyRelease => (Spec => TreeStable)
<1> DEFINE Keeps == \A n \in Node : kvRel'[n] # kvRel[n] =>
                       \A k \in Key : update_buf[n][k] = NoBuf
<1>1. ASSUME AggInv, StableInv, [Next]_vars PROVE Keeps
  <2>1. CASE kvRel' = kvRel
    BY <2>1
  <2>2. ASSUME NEW m \in queue, ServerProcess(m) PROVE Keeps
    <3>1. m.to \in Node
      BY <1>1 DEF AggInv, ConserveInv, TypeOK, UpMsg
    <3>2. /\ \A x \in Node \ {m.to} : kvRel'[x] = kvRel[x]
          /\ init_flag[m.to] => kvRel'[m.to] = kvRel[m.to]
      <4>1. kvRel' = [kvRel EXCEPT ![m.to] = IF m.iters # kvIters[m.to] /\ ~init_flag[m.to]
                                            THEN temp[m.to] ELSE kvRel[m.to]]
        BY <2>2 DEF ServerProcess
      <4>2. kvRel \in [Node -> Rels]
        BY <1>1 DEF AggInv, ConserveInv, TypeOK
      <4> QED
        BY <3>1, <4>1, <4>2
    <3> QED
      BY <1>1, <3>1, <3>2 DEF StableInv
  <2>3. kvRel' = kvRel \/ \E m \in queue : ServerProcess(m)
    BY <1>1 DEF Next, TopoUpdate, TopoUpdated, ZPush, WorkerProcess, route_update,
                SchedulerRelease, ServerRelease, ProcessReply1Command, ProcessDataMsg,
                ProcessReply2Command, vars, relVars
  <2> QED
    BY <2>1, <2>2, <2>3
<1>2. Init => StableInv
  BY DEF Init, StableInv
<1>3. ASSUME TimelyRelease PROVE Spec => TreeStable
  <2>1. Spec => []AggInv
    BY <1>3, Aggregation
  <2>2. AggInv /\ StableInv /\ [Next]_vars => StableInv'
    BY StableStep
  <2>3. AggInv /\ StableInv /\ [Next]_vars => [Keeps]_vars
    BY <1>1
  <2> HIDE DEF Keeps
  <2>4. Spec => [][Keeps]_vars
    BY <1>2, <2>1, <2>2, <2>3, PTL DEF Spec
  <2> QED
    BY <2>4 DEF TreeStable, Keeps
<1> QED
  BY <1>3
=============================================================================
