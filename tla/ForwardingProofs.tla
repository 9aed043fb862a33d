-------------------------- MODULE ForwardingProofs --------------------------
(***************************************************************************)
(* Forwarding over paths of any length keeps one copy of every message and *)
(* leads it to its destination, for any servers, routes and traffic; so    *)
(* the servers together are the network that TreeSync relies on, and the   *)
(* account of a server is what it has handed on and no answer for.         *)
(***************************************************************************)
EXTENDS Forwarding, FiniteSetTheorems, SequenceTheorems, WellFoundedInduction, TLAPS

----------------------------------------------------------------------------
(* The inductive invariant.                                                 *)

\* The hops are the end of a path to the destination of m, which visits nobody
\* twice.
OnPath(h, m) == h # <<>> /\ IsInjective(h) /\ Last(h) = Traffic[m].dst

\* The same, for one of the first s messages.
UnderWay(x, s) == x.msg <= s /\ OnPath(x.hops, x.msg)

\* m is for the worker of n.
ToWorker(n, m) == Traffic[m].dst = n /\ Traffic[m].worker

\* A message that comes back to the queue a server has for itself is for the
\* worker of that server.
HopsInv ==
    /\ \A p \in pushing : UnderWay(p, sent) /\ (p.at \in ToSet(p.hops) => ToWorker(p.at, p.msg))
    /\ \A x \in net : UnderWay(x, sent)
    /\ \A n, k \in Server : \A i \in DOMAIN queue[n][k] :
         /\ UnderWay(queue[n][k][i], sent) /\ Head(queue[n][k][i].hops) = k
         /\ n = k => ToWorker(n, queue[n][k][i].msg)

\* What has been sent is in one place; what has not is nowhere.
PlaceInv ==
    /\ \A m \in 1..sent : (\E x : Places(m) = {x}) /\ arrived[m] \subseteq {DestOf(Traffic[m])}
    /\ \A m \in Msg : m > sent => arrived[m] = {}

ForwardInv == TypeOK /\ HopsInv /\ PlaceInv

----------------------------------------------------------------------------
(* Sequences and numbers.                                                   *)

\* A set of numbers has a least one.
LEMMA LeastNumber ==
    ASSUME NEW T, T \subseteq Nat, T # {}
    PROVE  Min(T) \in T
<1> DEFINE R == OpToRel(<, Nat)
<1>1. IsWellFoundedOn(R, Nat)
  BY NatLessThanWellFounded
<1>2. \A i, j \in Nat : i < j => <<i, j>> \in R
  BY DEF OpToRel
<1> HIDE DEF R
<1>3. PICK x \in T : \A y \in T : ~ (<<y, x>> \in R)
  BY <1>1, WFMin
<1>4. \A y \in T : x \in Nat /\ y \in Nat /\ ~ (y < x)
  BY <1>2, <1>3
<1>5. \A y \in T : x <= y
  BY <1>4
<1> QED
  BY <1>5 DEF Min

\* What is left when one entry is taken out of a queue.
LEMMA RemoveEntries ==
    ASSUME NEW S, NEW s \in Seq(S), NEW i \in 1..Len(s)
    PROVE  /\ RemoveAt(s, i) \in Seq(S) /\ Len(RemoveAt(s, i)) = Len(s) - 1
           /\ \A j \in 1..(Len(s) - 1) : RemoveAt(s, i)[j] = s[IF j < i THEN j ELSE j + 1]
<1> DEFINE f == SubSeq(s, 1, i - 1)
           b == SubSeq(s, i + 1, Len(s))
<1>1. Len(s) \in Nat /\ i \in Int /\ i - 1 \in Int /\ i + 1 \in Int /\ Len(s) \in Int
  BY LenProperties
<1>2. \A j \in 1..Len(s) : s[j] \in S
  BY ElementOfSeq
<1>3. /\ f \in Seq(S) /\ Len(f) = i - 1
      /\ \A j \in 1..(i - 1) : f[j] = s[j]
  <2>1. \A j \in 1..(i - 1) : s[j] \in S
    BY <1>1, <1>2
  <2>2. /\ f \in Seq(S) /\ Len(f) = IF 1 <= i - 1 THEN (i - 1) - 1 + 1 ELSE 0
        /\ \A j \in 1..((i - 1) - 1 + 1) : f[j] = s[1 + j - 1]
    BY <1>1, <2>1, SubSeqProperties
  <2> HIDE DEF f
  <2> QED
    BY <1>1, <2>2
<1>4. /\ b \in Seq(S) /\ Len(b) = Len(s) - i
      /\ \A j \in 1..(Len(s) - i) : b[j] = s[i + j]
  <2>1. \A j \in (i + 1)..Len(s) : s[j] \in S
    BY <1>1, <1>2
  <2>2. /\ b \in Seq(S) /\ Len(b) = IF i + 1 <= Len(s) THEN Len(s) - (i + 1) + 1 ELSE 0
        /\ \A j \in 1..(Len(s) - (i + 1) + 1) : b[j] = s[(i + 1) + j - 1]
    BY <1>1, <2>1, SubSeqProperties
  <2> HIDE DEF b
  <2> QED
    BY <1>1, <2>2
<1> HIDE DEF f, b
<1>5. /\ f \o b \in Seq(S) /\ Len(f \o b) = Len(f) + Len(b)
      /\ \A j \in 1..(Len(f) + Len(b)) : (f \o b)[j] = IF j <= Len(f) THEN f[j] ELSE b[j - Len(f)]
  BY <1>3, <1>4, ConcatProperties
<1>6. RemoveAt(s, i) = f \o b
  BY DEF RemoveAt, f, b
<1>7. ASSUME NEW j \in 1..(Len(s) - 1)
      PROVE  (f \o b)[j] = s[IF j < i THEN j ELSE j + 1]
  <2>1. CASE j < i
    BY <1>1, <1>3, <1>4, <1>5, <2>1
  <2>2. CASE ~(j < i)
    <3>1. (f \o b)[j] = b[j - (i - 1)] /\ j - (i - 1) \in 1..(Len(s) - i)
      BY <1>1, <1>3, <1>4, <1>5, <2>2
    <3>2. b[j - (i - 1)] = s[i + (j - (i - 1))] /\ i + (j - (i - 1)) = j + 1
      BY <1>1, <1>4, <3>1
    <3> QED
      BY <2>2, <3>1, <3>2
  <2> QED
    BY <2>1, <2>2
<1>8. f \o b \in Seq(S) /\ Len(f \o b) = Len(s) - 1
  BY <1>1, <1>3, <1>4, <1>5
<1> QED
  BY <1>6, <1>7, <1>8

\* A hop further on a path.
LEMMA HopOn ==
    ASSUME NEW h \in Seq(Server), NEW m, OnPath(h, m)
    PROVE  /\ Head(h) \in Server /\ h[1] = Head(h)
           /\ Len(h) > 1 => /\ Tail(h) \in Seq(Server) /\ OnPath(Tail(h), m)
                            /\ Head(h) \notin ToSet(Tail(h))
           /\ Head(h) # Traffic[m].dst => Len(h) > 1
<1>1. h # <<>> /\ IsInjective(h) /\ Last(h) = Traffic[m].dst
  BY DEF OnPath
<1>2. Len(h) \in Nat /\ Len(h) > 0 /\ DOMAIN h = 1..Len(h)
  BY <1>1, LenProperties, EmptySeq
<1>3. /\ Head(h) \in Server /\ Tail(h) \in Seq(Server) /\ Len(Tail(h)) = Len(h) - 1
      /\ \A i \in 1..Len(Tail(h)) : Tail(h)[i] = h[i + 1]
  BY <1>1, HeadTailProperties
<1>4. Head(h) = h[1]
  BY <1>1
<1>5. DOMAIN Tail(h) = 1..(Len(h) - 1)
  BY <1>3, LenProperties
<1>6. ASSUME Len(h) > 1
      PROVE  OnPath(Tail(h), m) /\ Head(h) \notin ToSet(Tail(h))
  <2>1. Tail(h) # <<>>
    BY <1>2, <1>3, <1>6, EmptySeq
  <2>2. IsInjective(Tail(h))
    <3> SUFFICES ASSUME NEW i \in 1..(Len(h) - 1), NEW j \in 1..(Len(h) - 1), Tail(h)[i] = Tail(h)[j]
                 PROVE  i = j
      BY <1>5 DEF IsInjective
    <3>1. h[i + 1] = h[j + 1] /\ i + 1 \in 1..Len(h) /\ j + 1 \in 1..Len(h)
      BY <1>2, <1>3
    <3>2. i + 1 = j + 1
      BY <3>1, <1>1, <1>2 DEF IsInjective
    <3> QED
      BY <3>2
  <2>3. Last(Tail(h)) = Last(h)
    <3>1. Tail(h)[Len(h) - 1] = h[Len(h)]
      BY <1>2, <1>3, <1>6
    <3> QED
      BY <3>1, <1>3 DEF Last
  <2>4. \A i \in 1..(Len(h) - 1) : Tail(h)[i] # h[1]
    <3> SUFFICES ASSUME NEW i \in 1..(Len(h) - 1), Tail(h)[i] = h[1] PROVE FALSE
      OBVIOUS
    <3>1. h[i + 1] = h[1] /\ i + 1 \in 1..Len(h) /\ 1 \in 1..Len(h) /\ i + 1 # 1
      BY <1>2, <1>3
    <3> QED
      BY <3>1, <1>1, <1>2 DEF IsInjective
  <2> QED
    BY <1>1, <1>4, <1>5, <2>1, <2>2, <2>3, <2>4 DEF OnPath, ToSet
<1>7. Head(h) # Traffic[m].dst => Len(h) > 1
  BY <1>1, <1>2, <1>4 DEF Last
<1> QED
  BY <1>3, <1>4, <1>6, <1>7

LEMMA TrafficFacts ==
    /\ Len(Traffic) \in Nat /\ Msg = 1..Len(Traffic)
    /\ \A m \in Msg : /\ Traffic[m].src \in Server /\ Traffic[m].dst \in Server
                       /\ Traffic[m].worker \in BOOLEAN /\ Traffic[m].size \in Nat
                       /\ Traffic[m].src # Traffic[m].dst
<1> DEFINE T == [src : Server, dst : Server, worker : BOOLEAN, size : Nat]
<1>1. Traffic \in Seq(T)
  BY ForwardingAssumption
<1>2. Len(Traffic) \in Nat /\ Msg = 1..Len(Traffic)
  BY <1>1, LenProperties DEF Msg
<1>3. \A m \in Msg : Traffic[m] \in T
  BY <1>1, <1>2, ElementOfSeq
<1> QED
  BY <1>2, <1>3, ForwardingAssumption

\* The path Van::Push chooses is one of the paths, without its first server.
LEMMA PathFacts ==
    ASSUME TypeOK, NEW m \in Msg
    PROVE  LET h == PathFor(Traffic[m].src, Traffic[m].dst)
           IN  h \in Seq(Server) /\ OnPath(h, m) /\ Traffic[m].src \notin ToSet(h)
<1> USE ForwardingAssumption
<1> DEFINE n == Traffic[m].src
           d == Traffic[m].dst
           paths == route[n][n][d]
           long == QueueSize(n, paths[1][2]) > 2 * second_queue_limit
           good == {i \in 2..Len(paths) : QueueSize(n, paths[i][2]) < second_queue_limit}
           c == IF long /\ good # {} THEN Min(good) ELSE 1
<1>1. n \in Server /\ d \in Server /\ n # d
  BY TrafficFacts
<1>2. route[n] \in RouteTables \cup {FirstTable}
  BY <1>1 DEF TypeOK
<1>3. paths \in Seq(Seq(Server)) /\ paths # <<>> /\ \A i \in DOMAIN paths : IsPath(paths[i], n, d)
  BY <1>1, <1>2
<1> HIDE DEF paths
<1>4. Len(paths) \in Nat /\ Len(paths) > 0 /\ DOMAIN paths = 1..Len(paths)
  BY <1>3, LenProperties, EmptySeq
<1>5. c \in 1..Len(paths)
  <2>1. good \subseteq Nat /\ good \subseteq 1..Len(paths)
    BY <1>4
  <2> HIDE DEF good, long
  <2>2. good # {} => Min(good) \in good
    BY <2>1, LeastNumber
  <2> QED
    BY <1>4, <2>1, <2>2
<1>6. PathFor(n, d) = Tail(paths[c])
  BY DEF PathFor, paths
<1> HIDE DEF c
<1> DEFINE p == paths[c]
<1>7. p \in Seq(Server) /\ IsPath(p, n, d)
  <2>1. c \in DOMAIN paths /\ paths[c] \in Seq(Server)
    BY <1>3, <1>4, <1>5, ElementOfSeq
  <2>2. IsPath(paths[c], n, d)
    BY <1>3, <2>1
  <2> QED
    BY <2>1, <2>2
<1> HIDE DEF p
<1>8. p # <<>> /\ Len(p) > 1 /\ Head(p) = n
  BY <1>7, EmptySeq DEF IsPath
<1>9. OnPath(p, m)
  BY <1>7, <1>8 DEF IsPath, OnPath
<1> QED
  BY <1>6, <1>7, <1>8, <1>9, HopOn DEF p

----------------------------------------------------------------------------
(* Places.                                                                  *)

\* The places of a message, one kind after the other.
LEMMA PlaceFacts ==
    ASSUME NEW m, NEW P, NEW Q, NEW W, NEW A
    PROVE  /\ \A p : <<"pushing", p>> \in PlacesIn(m, P, Q, W, A) <=> p \in P /\ p.msg = m
           /\ \A x : <<"net", x>> \in PlacesIn(m, P, Q, W, A) <=> x \in W /\ x.msg = m
           /\ \A d : <<"arrived", d>> \in PlacesIn(m, P, Q, W, A) <=> d \in A[m]
           /\ \A n, k \in Server : \A i :
                <<"queue", n, k, i>> \in PlacesIn(m, P, Q, W, A)
                  <=> i \in DOMAIN Q[n][k] /\ Q[n][k][i].msg = m
           /\ \A y \in PlacesIn(m, P, Q, W, A) :
                \/ \E p \in P : y = <<"pushing", p>>
                \/ \E x \in W : y = <<"net", x>>
                \/ \E d \in A[m] : y = <<"arrived", d>>
                \/ \E n, k \in Server : \E i \in DOMAIN Q[n][k] : y = <<"queue", n, k, i>>
<1> DEFINE S1 == {<<"pushing", p>> : p \in {q \in P : q.msg = m}}
           S2 == {<<"net", x>> : x \in {y \in W : y.msg = m}}
           S3 == {<<"arrived", d>> : d \in A[m]}
           T(n, k) == {<<"queue", n, k, i>> : i \in {j \in DOMAIN Q[n][k] : Q[n][k][j].msg = m}}
           S4 == UNION {T(n, k) : n, k \in Server}
<1>1. PlacesIn(m, P, Q, W, A) = S1 \cup S2 \cup S3 \cup S4
  BY DEF PlacesIn
<1>2. \A y \in S1 : \E p \in P : p.msg = m /\ y = <<"pushing", p>>
  OBVIOUS
<1>3. \A y \in S2 : \E x \in W : x.msg = m /\ y = <<"net", x>>
  OBVIOUS
<1>4. \A y \in S3 : \E d \in A[m] : y = <<"arrived", d>>
  OBVIOUS
<1>5. \A n, k : \A y \in T(n, k) :
        \E i \in DOMAIN Q[n][k] : Q[n][k][i].msg = m /\ y = <<"queue", n, k, i>>
  OBVIOUS
<1>6. \A p \in P : p.msg = m => <<"pushing", p>> \in S1
  OBVIOUS
<1>7. \A x \in W : x.msg = m => <<"net", x>> \in S2
  OBVIOUS
<1>8. \A d \in A[m] : <<"arrived", d>> \in S3
  OBVIOUS
<1>9. \A n, k \in Server : \A i \in DOMAIN Q[n][k] :
        Q[n][k][i].msg = m => <<"queue", n, k, i>> \in T(n, k)
  OBVIOUS
<1> HIDE DEF T
<1>10. \A y \in S4 : \E n, k \in Server : y \in T(n, k)
  OBVIOUS
<1>11. \A n, k \in Server : T(n, k) \subseteq S4
  OBVIOUS
<1> HIDE DEF S1, S2, S3, S4
<1>12. /\ \A y \in S1 : y[1] = "pushing" /\ y[2] \in P /\ y[2].msg = m
       /\ \A y \in S2 : y[1] = "net" /\ y[2] \in W /\ y[2].msg = m
       /\ \A y \in S3 : y[1] = "arrived" /\ y[2] \in A[m]
       /\ \A y \in S4 : y[1] = "queue" /\ y[4] \in DOMAIN Q[y[2]][y[3]]
                         /\ Q[y[2]][y[3]][y[4]].msg = m
  <2>1. \A y \in S1 : y[1] = "pushing" /\ y[2] \in P /\ y[2].msg = m
    BY <1>2
  <2>2. \A y \in S2 : y[1] = "net" /\ y[2] \in W /\ y[2].msg = m
    BY <1>3
  <2>3. \A y \in S3 : y[1] = "arrived" /\ y[2] \in A[m]
    BY <1>4
  <2>4. \A n, k : \A y \in T(n, k) :
          y[1] = "queue" /\ y[4] \in DOMAIN Q[y[2]][y[3]] /\ Q[y[2]][y[3]][y[4]].msg = m
    BY <1>5
  <2> QED
    BY <2>1, <2>2, <2>3, <2>4, <1>10
<1>13. ASSUME NEW p PROVE <<"pushing", p>> \in PlacesIn(m, P, Q, W, A) <=> p \in P /\ p.msg = m
  <2>1. <<"pushing", p>>[1] = "pushing" /\ <<"pushing", p>>[2] = p
    OBVIOUS
  <2> QED
    BY <2>1, <1>1, <1>6, <1>12
<1>14. ASSUME NEW x PROVE <<"net", x>> \in PlacesIn(m, P, Q, W, A) <=> x \in W /\ x.msg = m
  <2>1. <<"net", x>>[1] = "net" /\ <<"net", x>>[2] = x
    OBVIOUS
  <2> QED
    BY <2>1, <1>1, <1>7, <1>12
<1>15. ASSUME NEW d PROVE <<"arrived", d>> \in PlacesIn(m, P, Q, W, A) <=> d \in A[m]
  <2>1. <<"arrived", d>>[1] = "arrived" /\ <<"arrived", d>>[2] = d
    OBVIOUS
  <2> QED
    BY <2>1, <1>1, <1>8, <1>12
<1>16. ASSUME NEW n \in Server, NEW k \in Server, NEW i
       PROVE  <<"queue", n, k, i>> \in PlacesIn(m, P, Q, W, A)
                 <=> i \in DOMAIN Q[n][k] /\ Q[n][k][i].msg = m
  <2> DEFINE y == <<"queue", n, k, i>>
  <2>1. y[1] = "queue" /\ y[2] = n /\ y[3] = k /\ y[4] = i
    OBVIOUS
  <2>2. i \in DOMAIN Q[n][k] /\ Q[n][k][i].msg = m => y \in S4
    BY <1>9, <1>11
  <2> HIDE DEF y
  <2>3. y \in PlacesIn(m, P, Q, W, A) <=> i \in DOMAIN Q[n][k] /\ Q[n][k][i].msg = m
    BY <2>1, <2>2, <1>1, <1>12
  <2> QED
    BY <2>3 DEF y
<1>17. \A y \in PlacesIn(m, P, Q, W, A) :
                \/ \E p \in P : y = <<"pushing", p>>
                \/ \E x \in W : y = <<"net", x>>
                \/ \E d \in A[m] : y = <<"arrived", d>>
                \/ \E n, k \in Server : \E i \in DOMAIN Q[n][k] : y = <<"queue", n, k, i>>
  BY <1>1, <1>2, <1>3, <1>4, <1>5, <1>10
<1> QED
  BY <1>13, <1>14, <1>15, <1>16, <1>17

\* Names for the places.
AtPush(p) == <<"pushing", p>>
AtNet(x) == <<"net", x>>
AtDest(d) == <<"arrived", d>>
AtQueue(n, k, i) == <<"queue", n, k, i>>

LEMMA TagFacts ==
    /\ \A p, q : AtPush(p) = AtPush(q) => p = q
    /\ \A x, y : AtNet(x) = AtNet(y) => x = y
    /\ \A d, e : AtDest(d) = AtDest(e) => d = e
    /\ \A n, k, i, u, v, j : AtQueue(n, k, i) = AtQueue(u, v, j) => n = u /\ k = v /\ i = j
    /\ \A p, x : AtPush(p) # AtNet(x)
    /\ \A p, d : AtPush(p) # AtDest(d)
    /\ \A x, d : AtNet(x) # AtDest(d)
    /\ \A n, k, i, p : AtQueue(n, k, i) # AtPush(p)
    /\ \A n, k, i, x : AtQueue(n, k, i) # AtNet(x)
    /\ \A n, k, i, d : AtQueue(n, k, i) # AtDest(d)
<1>1. /\ \A p : AtPush(p)[1] = "pushing" /\ AtPush(p)[2] = p
      /\ \A x : AtNet(x)[1] = "net" /\ AtNet(x)[2] = x
      /\ \A d : AtDest(d)[1] = "arrived" /\ AtDest(d)[2] = d
      /\ \A n, k, i : LET y == AtQueue(n, k, i)
                      IN  y[1] = "queue" /\ y[2] = n /\ y[3] = k /\ y[4] = i
  BY DEF AtPush, AtNet, AtDest, AtQueue
<1>2. \A p, q : AtPush(p) = AtPush(q) => p = q
  BY <1>1
<1>3. \A x, y : AtNet(x) = AtNet(y) => x = y
  BY <1>1
<1>4. \A d, e : AtDest(d) = AtDest(e) => d = e
  BY <1>1
<1>5. ASSUME NEW n, NEW k, NEW i, NEW u, NEW v, NEW j, AtQueue(n, k, i) = AtQueue(u, v, j)
      PROVE  n = u /\ k = v /\ i = j
  <2>1. /\ AtQueue(n, k, i)[2] = n /\ AtQueue(n, k, i)[3] = k /\ AtQueue(n, k, i)[4] = i
        /\ AtQueue(u, v, j)[2] = u /\ AtQueue(u, v, j)[3] = v /\ AtQueue(u, v, j)[4] = j
    BY <1>1
  <2> QED
    BY <1>5, <2>1
<1>6. ASSUME NEW n, NEW k, NEW i, NEW p, NEW x, NEW d
      PROVE  /\ AtPush(p) # AtNet(x) /\ AtPush(p) # AtDest(d) /\ AtNet(x) # AtDest(d)
             /\ AtQueue(n, k, i) # AtPush(p) /\ AtQueue(n, k, i) # AtNet(x)
             /\ AtQueue(n, k, i) # AtDest(d)
  <2>1. AtPush(p)[1] = "pushing" /\ AtNet(x)[1] = "net" /\ AtDest(d)[1] = "arrived"
        /\ AtQueue(n, k, i)[1] = "queue"
    BY <1>1
  <2> QED
    BY <2>1
<1> QED
  BY <1>2, <1>3, <1>4, <1>5, <1>6

\* PlaceFacts with these names.
LEMMA AtFacts ==
    ASSUME NEW m, NEW P, NEW Q, NEW W, NEW A
    PROVE  /\ \A p : AtPush(p) \in PlacesIn(m, P, Q, W, A) <=> p \in P /\ p.msg = m
           /\ \A x : AtNet(x) \in PlacesIn(m, P, Q, W, A) <=> x \in W /\ x.msg = m
           /\ \A d : AtDest(d) \in PlacesIn(m, P, Q, W, A) <=> d \in A[m]
           /\ \A n, k \in Server : \A i : AtQueue(n, k, i) \in PlacesIn(m, P, Q, W, A)
                                        <=> i \in DOMAIN Q[n][k] /\ Q[n][k][i].msg = m
           /\ \A y \in PlacesIn(m, P, Q, W, A) :
                \/ \E p \in P : y = AtPush(p)
                \/ \E x \in W : y = AtNet(x)
                \/ \E d \in A[m] : y = AtDest(d)
                \/ \E n, k \in Server : \E i \in DOMAIN Q[n][k] : y = AtQueue(n, k, i)
BY PlaceFacts DEF AtPush, AtNet, AtDest, AtQueue

\* A step that does not touch m leaves it where it is.
LEMMA SamePlaces ==
    ASSUME NEW m, NEW P, NEW Q, NEW W, NEW A, NEW P2, NEW Q2, NEW W2, NEW A2,
           \A p : p.msg = m => (p \in P2 <=> p \in P),
           \A x : x.msg = m => (x \in W2 <=> x \in W),
           A2[m] = A[m],
           \A n, k \in Server : \A i : (i \in DOMAIN Q2[n][k] /\ Q2[n][k][i].msg = m)
                                     <=> (i \in DOMAIN Q[n][k] /\ Q[n][k][i].msg = m)
    PROVE  PlacesIn(m, P2, Q2, W2, A2) = PlacesIn(m, P, Q, W, A)
<1> DEFINE S == PlacesIn(m, P, Q, W, A)
           S2 == PlacesIn(m, P2, Q2, W2, A2)
<1>1. /\ \A p : AtPush(p) \in S2 <=> AtPush(p) \in S
      /\ \A x : AtNet(x) \in S2 <=> AtNet(x) \in S
      /\ \A d : AtDest(d) \in S2 <=> AtDest(d) \in S
      /\ \A n, k \in Server : \A i : AtQueue(n, k, i) \in S2 <=> AtQueue(n, k, i) \in S
  BY AtFacts
<1>2. \A y \in S : \/ \E p : y = AtPush(p) \/ \E x : y = AtNet(x) \/ \E d : y = AtDest(d)
                   \/ \E n, k \in Server : \E i : y = AtQueue(n, k, i)
  BY AtFacts
<1>3. \A y \in S2 : \/ \E p : y = AtPush(p) \/ \E x : y = AtNet(x) \/ \E d : y = AtDest(d)
                    \/ \E n, k \in Server : \E i : y = AtQueue(n, k, i)
  BY AtFacts
<1> HIDE DEF S, S2
<1>4. S2 = S
  BY <1>1, <1>2, <1>3
<1> QED
  BY <1>4 DEF S, S2

\* What a queue holds.
QueueItem == [msg : Msg, hops : Seq(Server)]

\* What changes in the queues when entry e of a queue, which is not m, is taken.
Taken(m, Q, Q2, u, v, e) ==
    /\ Q[u][v] \in Seq(QueueItem) /\ e \in 1..Len(Q[u][v]) /\ Q[u][v][e].msg # m
    /\ Q2[u][v] = RemoveAt(Q[u][v], e)
    /\ \A n, k \in Server : ~(n = u /\ k = v) => Q2[n][k] = Q[n][k]

\* W and W2 differ in other messages only.
SameFor(m, W, W2) == \A x : x.msg = m => (x \in W2 <=> x \in W)

\* m is in one place.
Alone(m, P, Q, W, A) == \E y : PlacesIn(m, P, Q, W, A) = {y}

\* An entry for another message is taken out of a queue: m stays where it is,
\* or moves up by one.
LEMMA ShiftPlaces ==
    ASSUME NEW m, NEW P, NEW Q, NEW W, NEW A, NEW Q2, NEW W2, NEW A2,
           NEW u \in Server, NEW v \in Server, NEW e, Taken(m, Q, Q2, u, v, e),
           SameFor(m, W, W2), A2[m] = A[m], Alone(m, P, Q, W, A)
    PROVE  Alone(m, P, Q2, W2, A2)
<1>0. /\ Q[u][v] \in Seq(QueueItem) /\ e \in 1..Len(Q[u][v]) /\ Q[u][v][e].msg # m
      /\ Q2[u][v] = RemoveAt(Q[u][v], e)
      /\ \A n, k \in Server : ~(n = u /\ k = v) => Q2[n][k] = Q[n][k]
      /\ \A x : x.msg = m => (x \in W2 <=> x \in W)
      /\ \E y : PlacesIn(m, P, Q, W, A) = {y}
  BY DEF Taken, SameFor, Alone
<1> SUFFICES \E y : PlacesIn(m, P, Q2, W2, A2) = {y}
  BY DEF Alone
<1> DEFINE S == PlacesIn(m, P, Q, W, A)
           S2 == PlacesIn(m, P, Q2, W2, A2)
           old(j) == IF j < e THEN j ELSE j + 1
<1>1. PICK y : S = {y}
  BY <1>0
<1>2. Len(Q[u][v]) \in Nat /\ DOMAIN Q[u][v] = 1..Len(Q[u][v])
  BY <1>0, LenProperties
<1>3. /\ DOMAIN Q2[u][v] = 1..(Len(Q[u][v]) - 1)
      /\ \A j \in 1..(Len(Q[u][v]) - 1) : Q2[u][v][j] = Q[u][v][old(j)]
  <2>1. /\ RemoveAt(Q[u][v], e) \in Seq(QueueItem)
        /\ Len(RemoveAt(Q[u][v], e)) = Len(Q[u][v]) - 1
        /\ \A j \in 1..(Len(Q[u][v]) - 1) : RemoveAt(Q[u][v], e)[j] = Q[u][v][old(j)]
    BY <1>0, RemoveEntries
  <2> QED
    BY <1>0, <2>1, LenProperties
<1>4. /\ \A p : AtPush(p) \in S2 <=> AtPush(p) \in S
      /\ \A x : AtNet(x) \in S2 <=> AtNet(x) \in S
      /\ \A d : AtDest(d) \in S2 <=> AtDest(d) \in S
      /\ \A n, k \in Server : \A i : ~(n = u /\ k = v) =>
            (AtQueue(n, k, i) \in S2 <=> AtQueue(n, k, i) \in S)
      /\ \A i : AtQueue(u, v, i) \in S <=> i \in DOMAIN Q[u][v] /\ Q[u][v][i].msg = m
      /\ \A i : AtQueue(u, v, i) \in S2 <=> i \in DOMAIN Q2[u][v] /\ Q2[u][v][i].msg = m
  <2>1. /\ \A p : AtPush(p) \in S <=> p \in P /\ p.msg = m
        /\ \A x : AtNet(x) \in S <=> x \in W /\ x.msg = m
        /\ \A d : AtDest(d) \in S <=> d \in A[m]
        /\ \A n, k \in Server : \A i : AtQueue(n, k, i) \in S
                                     <=> i \in DOMAIN Q[n][k] /\ Q[n][k][i].msg = m
    BY AtFacts
  <2>2. /\ \A p : AtPush(p) \in S2 <=> p \in P /\ p.msg = m
        /\ \A x : AtNet(x) \in S2 <=> x \in W2 /\ x.msg = m
        /\ \A d : AtDest(d) \in S2 <=> d \in A2[m]
        /\ \A n, k \in Server : \A i : AtQueue(n, k, i) \in S2
                                     <=> i \in DOMAIN Q2[n][k] /\ Q2[n][k][i].msg = m
    BY AtFacts
  <2> HIDE DEF S, S2
  <2> QED
    BY <1>0, <2>1, <2>2
<1>5. \A z \in S : \/ \E p : z = AtPush(p) \/ \E x : z = AtNet(x) \/ \E d : z = AtDest(d)
                   \/ \E n, k \in Server : \E i : z = AtQueue(n, k, i)
  BY AtFacts
<1>6. \A z \in S2 : \/ \E p : z = AtPush(p) \/ \E x : z = AtNet(x) \/ \E d : z = AtDest(d)
                    \/ \E n, k \in Server : \E i : z = AtQueue(n, k, i)
  BY AtFacts
<1> HIDE DEF S, S2
<1>7. \A j : AtQueue(u, v, j) \in S2 => j \in Nat /\ AtQueue(u, v, old(j)) \in S
  <2> SUFFICES ASSUME NEW j, AtQueue(u, v, j) \in S2
               PROVE  j \in Nat /\ AtQueue(u, v, old(j)) \in S
    OBVIOUS
  <2>1. j \in 1..(Len(Q[u][v]) - 1) /\ Q[u][v][old(j)].msg = m
    BY <1>3, <1>4
  <2>2. old(j) \in 1..Len(Q[u][v])
    BY <2>1, <1>0, <1>2
  <2> QED
    BY <2>1, <2>2, <1>2, <1>4
<1>8. \A i : AtQueue(u, v, i) \in S =>
        \E j \in Nat : old(j) = i /\ AtQueue(u, v, j) \in S2
  <2> SUFFICES ASSUME NEW i, AtQueue(u, v, i) \in S
               PROVE  \E j \in Nat : old(j) = i /\ AtQueue(u, v, j) \in S2
    OBVIOUS
  <2>1. i \in 1..Len(Q[u][v]) /\ Q[u][v][i].msg = m /\ i # e
    BY <1>0, <1>2, <1>4
  <2> DEFINE j == IF i < e THEN i ELSE i - 1
  <2>2. old(j) = i /\ j \in 1..(Len(Q[u][v]) - 1) /\ j \in Nat
    BY <2>1, <1>0, <1>2
  <2> HIDE DEF j, old
  <2>3. AtQueue(u, v, j) \in S2
    BY <2>1, <2>2, <1>3, <1>4
  <2> QED
    BY <2>2, <2>3
<1>9. CASE \E i : y = AtQueue(u, v, i)
  <2>1. PICK i : y = AtQueue(u, v, i)
    BY <1>9
  <2>2. PICK j \in Nat : old(j) = i /\ AtQueue(u, v, j) \in S2
    BY <1>1, <1>8, <2>1
  <2>3. ASSUME NEW z \in S2 PROVE z = AtQueue(u, v, j)
    <3>1. z \notin S => \E l : z = AtQueue(u, v, l)
      BY <1>4, <1>6
    <3>2. PICK l : z = AtQueue(u, v, l)
      BY <3>1, <2>1, <1>1
    <3>3. l \in Nat /\ AtQueue(u, v, old(l)) = AtQueue(u, v, i)
      BY <3>2, <2>1, <1>1, <1>7
    <3>4. old(l) = i
      BY <3>3, TagFacts
    <3>5. l = j
      BY <2>2, <3>3, <3>4, <1>0
    <3> QED
      BY <3>2, <3>5
  <2>4. S2 = {AtQueue(u, v, j)}
    BY <2>2, <2>3
  <2> QED
    BY <2>4 DEF S2
<1>10. CASE ~ \E i : y = AtQueue(u, v, i)
  <2>1. \A j : AtQueue(u, v, j) \notin S2
    BY <1>1, <1>7, <1>10
  <2>2. S2 \subseteq S
    BY <2>1, <1>4, <1>6
  <2>3. y \in S2
    BY <1>1, <1>4, <1>5, <1>10
  <2>4. S2 = {y}
    BY <2>2, <2>3, <1>1
  <2> QED
    BY <2>4 DEF S2
<1> QED
  BY <1>9, <1>10

----------------------------------------------------------------------------
(* Every step keeps the invariant.                                          *)

LEMMA QueueFacts ==
    ASSUME TypeOK, NEW n \in Server, NEW k \in Server
    PROVE  /\ queue[n][k] \in Seq(QueueItem) /\ Len(queue[n][k]) \in Nat
           /\ DOMAIN queue[n][k] = 1..Len(queue[n][k])
           /\ \A i \in DOMAIN queue[n][k] :
                /\ queue[n][k][i] \in QueueItem
                /\ queue[n][k][i].msg \in Msg /\ queue[n][k][i].hops \in Seq(Server)
<1>1. queue[n][k] \in Seq(QueueItem)
  BY DEF TypeOK, QueueItem
<1>2. Len(queue[n][k]) \in Nat /\ DOMAIN queue[n][k] = 1..Len(queue[n][k])
  BY <1>1, LenProperties
<1>3. \A i \in DOMAIN queue[n][k] : queue[n][k][i] \in QueueItem
  BY <1>1, <1>2, ElementOfSeq
<1> QED
  BY <1>1, <1>2, <1>3 DEF QueueItem

\* The account of a server.
LEMMA CountFacts ==
    ASSUME TypeOK, NEW n \in Server, NEW c \in Int, Count(n, c)
    PROVE  /\ cache_count' \in [Server -> Int] /\ enable_send' \in [Server -> {0, 1}]
           /\ over' \subseteq Server
<1>1. \A e \in {0, 1} : EnableSendCheck(c, e) \in {0, 1}
  BY DEF EnableSendCheck
<1> QED
  BY <1>1 DEF Count, TypeOK

\* A float that holds an integer is one.
LEMMA FlInt == ASSUME NEW i \in Int PROVE Fl(i) \in Int
<1>1. ASSUME NEW j \in Int PROVE Rounded(j) \in Int
  <2> DEFINE A == {1, 2, 4, 8, 16, 32, 64, 128}
             S == {u \in A : u = 1 \/ j > Precision * (u \div 2)}
  <2>1. Precision \in Nat /\ Precision > 0
    BY PrecisionAssumption
  <2>2. 1 \in S /\ S \subseteq A
    OBVIOUS
  <2>3. \E u \in S : \A v \in S : u >= v
    <3>1. \A u \in A : u \in Int
      OBVIOUS
    <3> HIDE DEF S
    <3>2. CASE 128 \in S
      BY <3>2, <2>2
    <3>3. CASE 128 \notin S /\ 64 \in S
      BY <3>3, <2>2
    <3>4. CASE 128 \notin S /\ 64 \notin S /\ 32 \in S
      BY <3>4, <2>2
    <3>5. CASE 128 \notin S /\ 64 \notin S /\ 32 \notin S /\ 16 \in S
      BY <3>5, <2>2
    <3>6. CASE 128 \notin S /\ 64 \notin S /\ 32 \notin S /\ 16 \notin S /\ 8 \in S
      BY <3>6, <2>2
    <3>7. CASE 128 \notin S /\ 64 \notin S /\ 32 \notin S /\ 16 \notin S /\ 8 \notin S
      BY <3>7, <2>2
    <3> QED
      BY <3>2, <3>3, <3>4, <3>5, <3>6, <3>7
  <2> DEFINE u == Ulp(j)
  <2>4. u \in S
    <3>1. u = CHOOSE x \in S : \A y \in S : x >= y
      BY DEF Ulp, Max
    <3> HIDE DEF S, u
    <3> QED
      BY <3>1, <2>3
  <2>5. u \in Int /\ u > 0
    BY <2>2, <2>4
  <2> HIDE DEF u
  <2>6. j \div u \in Int
    BY <2>5
  <2>7. Units(j, u) \in Int
    BY <2>6 DEF Units
  <2>8. \A a, b \in Int : a * b \in Int
    OBVIOUS
  <2> QED
    BY <2>5, <2>7, <2>8 DEF Rounded, u
<1>2. -i \in Int
  OBVIOUS
<1> QED
  BY <1>1, <1>2 DEF Fl

\* What ProcessRecvReplyCommand leaves in the count: exact as long as floats are.
LEMMA LessFacts ==
    ASSUME NEW c \in Int, NEW d \in Int
    PROVE  /\ Less(c, d) \in Int
           /\ 0 <= d /\ d <= c /\ c <= Precision => Less(c, d) = c - d
<1>1. Fl(c) \in Int /\ Fl(d) \in Int
  BY FlInt
<1>2. Fl(c) - Fl(d) \in Int
  BY <1>1
<1>3. Less(c, d) \in Int
  BY <1>2, FlInt DEF Less
<1>4. \A i \in 0..Precision : Fl(i) = i
  BY PrecisionAssumption DEF Fl
<1>5. ASSUME 0 <= d, d <= c, c <= Precision PROVE Less(c, d) = c - d
  <2>1. c \in 0..Precision /\ d \in 0..Precision /\ c - d \in 0..Precision
    BY <1>5, PrecisionAssumption
  <2> QED
    BY <2>1, <1>4 DEF Less
<1> QED
  BY <1>3, <1>5

\* A message is sent on the path that Push has found.
LEMMA SendStep ==
    ASSUME ForwardInv, NEW m \in Msg, Send(m)
    PROVE  ForwardInv'
<1> USE DEF ForwardInv
<1> DEFINE h == PathFor(Traffic[m].src, Traffic[m].dst)
           p == [msg |-> m, at |-> Traffic[m].src, hops |-> h]
<1>1. m = sent + 1 /\ sent' = m /\ pushing' = pushing \cup {p}
      /\ UNCHANGED <<route, releases, queue, net, replies, accounts, arrived>>
  BY DEF Send
<1>2. h \in Seq(Server) /\ OnPath(h, m) /\ Traffic[m].src \notin ToSet(h)
  BY PathFacts
<1>3. sent \in Nat /\ sent <= sent' /\ sent' \in 0..Len(Traffic) /\ Traffic[m].src \in Server
  BY <1>1, TrafficFacts DEF TypeOK
<1> HIDE DEF h
<1>4. p.msg = m /\ p.at = Traffic[m].src /\ p.hops = h
  OBVIOUS
<1>5. p \in [msg : Msg, at : Server, hops : Seq(Server)]
  BY <1>2, <1>3
<1> HIDE DEF p
<1>6. TypeOK'
  BY <1>1, <1>3, <1>5 DEF TypeOK, accounts
<1>7. HopsInv'
  <2>1. \A x : x.msg \in Nat /\ UnderWay(x, sent) => UnderWay(x, sent')
    BY <1>3 DEF UnderWay
  <2>2. \A q \in pushing : UnderWay(q, sent') /\ (q.at \in ToSet(q.hops) => ToWorker(q.at, q.msg))
    BY <2>1, TrafficFacts DEF TypeOK, HopsInv
  <2>3. \A x \in net : UnderWay(x, sent')
    BY <2>1, TrafficFacts DEF TypeOK, HopsInv
  <2>4. \A n, k \in Server : \A i \in DOMAIN queue[n][k] :
          /\ UnderWay(queue[n][k][i], sent') /\ Head(queue[n][k][i].hops) = k
          /\ n = k => ToWorker(n, queue[n][k][i].msg)
    BY <2>1, QueueFacts, TrafficFacts DEF HopsInv
  <2>5. UnderWay(p, sent') /\ (p.at \in ToSet(p.hops) => ToWorker(p.at, p.msg))
    BY <1>1, <1>2, <1>3, <1>4 DEF UnderWay
  <2>6. \A q \in pushing' : UnderWay(q, sent') /\ (q.at \in ToSet(q.hops) => ToWorker(q.at, q.msg))
    BY <1>1, <2>2, <2>5
  <2>7. queue' = queue /\ net' = net
    BY <1>1
  <2> QED
    BY <2>3, <2>4, <2>6, <2>7 DEF HopsInv
<1>8. PlaceInv'
  <2>1. ASSUME NEW k \in 1..sent PROVE Places(k)' = Places(k)
    <3>1. k # m
      BY <1>1, <1>3
    <3>2. \A q : q.msg = k => (q \in pushing' <=> q \in pushing)
      BY <1>1, <1>4, <3>1
    <3>3. UNCHANGED <<queue, net, arrived>>
      BY <1>1
    <3> QED
      BY <3>2, <3>3, SamePlaces DEF Places
  <2>2. Places(m)' = {AtPush(p)}
    <3> DEFINE S == PlacesIn(m, pushing', queue', net', arrived')
    <3>1. AtPush(p) \in S
      BY <1>1, <1>4, AtFacts
    <3>2. ASSUME NEW y \in S PROVE y = AtPush(p)
      <4>1. \A q \in pushing : q.msg # m
        BY <1>1, <1>3, TrafficFacts DEF HopsInv, UnderWay, TypeOK
      <4>2. \A x \in net : x.msg # m
        BY <1>1, <1>3, TrafficFacts DEF HopsInv, UnderWay, TypeOK
      <4>3. \A n, k \in Server : \A i \in DOMAIN queue[n][k] : queue[n][k][i].msg # m
        BY <1>1, <1>3, QueueFacts, TrafficFacts DEF HopsInv, UnderWay
      <4>4. arrived[m] = {}
        BY <1>1, <1>3 DEF PlaceInv
      <4>5. /\ \A q : AtPush(q) \in S => q = p
            /\ \A x : AtNet(x) \notin S
            /\ \A d : AtDest(d) \notin S
            /\ \A n, k \in Server : \A i : AtQueue(n, k, i) \notin S
        BY <1>1, <4>1, <4>2, <4>3, <4>4, AtFacts
      <4>6. \/ \E q : y = AtPush(q) \/ \E x : y = AtNet(x) \/ \E d : y = AtDest(d)
            \/ \E n, k \in Server : \E i : y = AtQueue(n, k, i)
        BY AtFacts
      <4> HIDE DEF S
      <4> QED
        BY <3>2, <4>5, <4>6
    <3> HIDE DEF S
    <3>3. S = {AtPush(p)}
      BY <3>1, <3>2
    <3> QED
      BY <3>3 DEF S, Places
  <2>3. arrived'[m] \subseteq {DestOf(Traffic[m])}
    BY <1>1, <1>3 DEF PlaceInv
  <2>4. \A k \in 1..sent' : k = m \/ k \in 1..sent
    BY <1>1, <1>3
  <2>5. \A k \in 1..sent' : (\E x : Places(k)' = {x}) /\ arrived'[k] \subseteq {DestOf(Traffic[k])}
    BY <1>1, <2>1, <2>2, <2>3, <2>4 DEF PlaceInv
  <2>6. \A k \in Msg : k > sent' => arrived'[k] = {}
    BY <1>1, <1>3, TrafficFacts DEF PlaceInv
  <2> QED
    BY <2>5, <2>6 DEF PlaceInv
<1> QED
  BY <1>6, <1>7, <1>8

\* Under send_mu the message moves to the end of the queue of its next hop.
LEMMA QueuePushStep ==
    ASSUME ForwardInv, NEW p \in pushing, QueuePush(p)
    PROVE  ForwardInv'
<1> USE DEF ForwardInv
<1> DEFINE n == p.at
           k == Head(p.hops)
           x == [msg |-> p.msg, hops |-> p.hops]
           q == queue[n][k]
<1>1. p.msg \in Msg /\ n \in Server /\ p.hops \in Seq(Server) /\ UnderWay(p, sent)
      /\ (p.at \in ToSet(p.hops) => ToWorker(p.at, p.msg))
  BY DEF TypeOK, HopsInv
<1>2. k \in Server /\ p.hops[1] = k
  BY <1>1, HopOn DEF UnderWay
<1>3. n = k => ToWorker(n, p.msg)
  <2>1. k \in ToSet(p.hops)
    BY <1>1, <1>2, LenProperties, EmptySeq DEF ToSet, UnderWay, OnPath
  <2> QED
    BY <1>1, <2>1
<1>4. pushing' = pushing \ {p} /\ queue' = [queue EXCEPT ![n][k] = Append(@, x)]
      /\ UNCHANGED <<sent, route, releases, net, replies, arrived>>
  BY DEF QueuePush, NextHop, Item
<1>5. x.msg = p.msg /\ x.hops = p.hops /\ x \in QueueItem
  BY <1>1 DEF QueueItem
<1>6. q \in Seq(QueueItem) /\ Len(q) \in Nat /\ DOMAIN q = 1..Len(q)
  BY <1>1, <1>2, QueueFacts
<1> HIDE DEF n, k, x
<1>7. /\ queue'[n][k] = Append(q, x)
      /\ \A u, v \in Server : ~(u = n /\ v = k) => queue'[u][v] = queue[u][v]
  BY <1>1, <1>2, <1>4 DEF TypeOK
<1> HIDE DEF q
<1>8. Append(q, x) \in Seq(QueueItem) /\ DOMAIN Append(q, x) = 1..(Len(q) + 1)
      /\ (\A i \in 1..Len(q) : Append(q, x)[i] = q[i]) /\ Append(q, x)[Len(q) + 1] = x
  BY <1>5, <1>6, AppendProperties, LenProperties
<1>9. cache_count' \in [Server -> Int] /\ enable_send' \in [Server -> {0, 1}]
      /\ over' \subseteq Server
  <2>1. cache_count[p.at] + Traffic[p.msg].size \in Int /\ p.at \in Server
    BY <1>1, TrafficFacts DEF TypeOK, n
  <2> QED
    BY <2>1, CountFacts DEF QueuePush, TypeOK, accounts
<1>10. TypeOK'
  <2>1. queue' \in [Server -> [Server -> Seq(QueueItem)]]
    <3>1. queue \in [Server -> [Server -> Seq(QueueItem)]]
      BY DEF TypeOK, QueueItem
    <3>2. queue' = [queue EXCEPT ![n] = [queue[n] EXCEPT ![k] = Append(q, x)]]
      BY <1>1, <1>2, <1>4, <3>1 DEF q
    <3>3. [queue[n] EXCEPT ![k] = Append(q, x)] \in [Server -> Seq(QueueItem)]
      BY <1>1, <1>8, <3>1
    <3> QED
      BY <3>1, <3>2, <3>3
  <2> QED
    BY <1>4, <1>9, <2>1 DEF TypeOK, QueueItem
<1>11. HopsInv'
  <2>1. sent' = sent /\ net' = net /\ pushing' \subseteq pushing
    BY <1>4
  <2>2. UnderWay(x, sent)
    BY <1>1, <1>5 DEF UnderWay
  <2>3. ASSUME NEW u \in Server, NEW v \in Server, NEW i \in DOMAIN queue'[u][v]
        PROVE  /\ UnderWay(queue'[u][v][i], sent) /\ Head(queue'[u][v][i].hops) = v
               /\ u = v => ToWorker(u, queue'[u][v][i].msg)
    <3>1. CASE u = n /\ v = k /\ i = Len(q) + 1
      BY <3>1, <2>2, <1>3, <1>5, <1>7, <1>8 DEF n, k
    <3>2. CASE ~(u = n /\ v = k /\ i = Len(q) + 1)
      <4>1. i \in DOMAIN queue[u][v] /\ queue'[u][v][i] = queue[u][v][i]
        <5>1. CASE u = n /\ v = k
          <6>1. i \in 1..(Len(q) + 1) /\ i # Len(q) + 1
            BY <3>2, <5>1, <2>3, <1>7, <1>8
          <6>2. i \in 1..Len(q)
            BY <6>1, <1>6
          <6> QED
            BY <5>1, <6>2, <1>6, <1>7, <1>8 DEF q
        <5>2. CASE ~(u = n /\ v = k)
          BY <5>2, <2>3, <1>7
        <5> QED
          BY <5>1, <5>2
      <4> QED
        BY <4>1 DEF HopsInv
    <3> QED
      BY <3>1, <3>2
  <2> QED
    BY <2>1, <2>3 DEF HopsInv
<1>12. PlaceInv'
  <2>1. ASSUME NEW m \in 1..sent PROVE \E y : Places(m)' = {y}
    <3>1. PICK y : Places(m) = {y}
      BY DEF PlaceInv
    <3>2. CASE m # p.msg
      <4>1. \A u, v \in Server : \A i : (i \in DOMAIN queue'[u][v] /\ queue'[u][v][i].msg = m)
                                     <=> (i \in DOMAIN queue[u][v] /\ queue[u][v][i].msg = m)
        <5> SUFFICES ASSUME NEW i
                     PROVE (i \in DOMAIN queue'[n][k] /\ queue'[n][k][i].msg = m)
                             <=> (i \in DOMAIN q /\ q[i].msg = m)
          BY <1>7 DEF q
        <5>1. i \in 1..(Len(q) + 1) <=> i \in 1..Len(q) \/ i = Len(q) + 1
          BY <1>6
        <5>2. Len(q) + 1 \notin 1..Len(q)
          BY <1>6
        <5> QED
          BY <3>2, <5>1, <5>2, <1>5, <1>6, <1>7, <1>8
      <4>2. \A z : z.msg = m => (z \in pushing' <=> z \in pushing)
        BY <3>2, <1>4
      <4>3. net' = net /\ arrived' = arrived
        BY <1>4
      <4>4. PlacesIn(m, pushing', queue', net', arrived') = PlacesIn(m, pushing, queue, net, arrived)
        BY <4>1, <4>2, <4>3, SamePlaces
      <4> QED
        BY <4>4, <3>1 DEF Places
    <3>3. CASE m = p.msg
      <4> DEFINE S == PlacesIn(m, pushing, queue, net, arrived)
                 S2 == PlacesIn(m, pushing', queue', net', arrived')
                 new == AtQueue(n, k, Len(q) + 1)
      <4>1. S = {AtPush(p)}
        <5>1. AtPush(p) \in S
          BY <3>3, AtFacts
        <5> QED
          BY <5>1, <3>1 DEF Places
      <4>2. /\ \A z : AtPush(z) \in S2 => AtPush(z) \in S /\ z # p
            /\ \A z : AtNet(z) \in S2 => AtNet(z) \in S
            /\ \A d : AtDest(d) \in S2 => AtDest(d) \in S
        BY <1>4, AtFacts
      <4>3. \A u, v \in Server : \A i : AtQueue(u, v, i) \in S2 =>
               AtQueue(u, v, i) \in S \/ (u = n /\ v = k /\ i = Len(q) + 1)
        <5> SUFFICES ASSUME NEW u \in Server, NEW v \in Server, NEW i, AtQueue(u, v, i) \in S2,
                            ~(u = n /\ v = k /\ i = Len(q) + 1)
                     PROVE  AtQueue(u, v, i) \in S
          OBVIOUS
        <5>1. i \in DOMAIN queue'[u][v] /\ queue'[u][v][i].msg = m
          BY AtFacts
        <5>2. i \in DOMAIN queue[u][v] /\ queue'[u][v][i] = queue[u][v][i]
          <6>1. CASE u = n /\ v = k
            <7>1. i \in 1..(Len(q) + 1) /\ i # Len(q) + 1
              BY <5>1, <6>1, <1>7, <1>8
            <7>2. i \in 1..Len(q)
              BY <7>1, <1>6
            <7> QED
              BY <6>1, <7>2, <1>6, <1>7, <1>8 DEF q
          <6>2. CASE ~(u = n /\ v = k)
            BY <5>1, <6>2, <1>7
          <6> QED
            BY <6>1, <6>2
        <5> QED
          BY <5>1, <5>2, AtFacts
      <4>4. new \in S2
        <5>1. Len(q) + 1 \in DOMAIN queue'[n][k] /\ queue'[n][k][Len(q) + 1].msg = m
          BY <3>3, <1>5, <1>6, <1>7, <1>8
        <5> QED
          BY <5>1, <1>1, <1>2, AtFacts
      <4>5. \A z \in S2 : \/ (\E a : z = AtPush(a)) \/ (\E a : z = AtNet(a)) \/ (\E a : z = AtDest(a))
                          \/ \E u, v \in Server : \E i : z = AtQueue(u, v, i)
        BY AtFacts
      <4> HIDE DEF S, S2
      <4>6. \A z \in S2 : z = new
        BY <4>1, <4>2, <4>3, <4>5, TagFacts
      <4>7. S2 = {new}
        BY <4>4, <4>6
      <4> QED
        BY <4>7 DEF S2, Places
    <3> QED
      BY <3>2, <3>3
  <2> QED
    BY <1>4, <2>1 DEF PlaceInv
<1> QED
  BY <1>10, <1>11, <1>12


\* The thread for the next hop takes a message out of its queue.
LEMMA SendingStep ==
    ASSUME ForwardInv, NEW n \in Server, NEW k \in Server, NEW e \in DOMAIN queue[n][k],
           Sending(n, k, e)
    PROVE  ForwardInv'
<1> USE DEF ForwardInv
<1> DEFINE q == queue[n][k]
           x == queue[n][k][e]
           y == [msg |-> x.msg, from |-> n, hops |-> x.hops,
                 key |-> Traffic[x.msg].size >= size_msg_report]
           old(j) == IF j < e THEN j ELSE j + 1
<1>1. /\ q \in Seq(QueueItem) /\ Len(q) \in Nat /\ DOMAIN q = 1..Len(q)
      /\ x.msg \in Msg /\ x.hops \in Seq(Server)
  BY QueueFacts
<1>2. /\ UnderWay(x, sent) /\ Head(x.hops) = k
      /\ n = k => ToWorker(n, x.msg)
  BY DEF HopsInv
<1>3. /\ queue' = [queue EXCEPT ![n][k] = RemoveAt(q, e)]
      /\ k = n => /\ arrived' = [arrived EXCEPT ![x.msg] = @ \cup {Worker(n)}]
                  /\ net' = net
      /\ k # n => net' = net \cup {y} /\ arrived' = arrived
      /\ UNCHANGED <<sent, route, releases, pushing, replies, accounts>>
  BY DEF Sending, Pop
<1>4. /\ y \in [msg : Msg, from : Server, hops : Seq(Server), key : BOOLEAN]
      /\ y.msg = x.msg /\ y.hops = x.hops
  BY <1>1
<1>5. /\ queue'[n][k] = RemoveAt(q, e)
      /\ \A u, v \in Server : ~(u = n /\ v = k) => queue'[u][v] = queue[u][v]
  BY <1>3 DEF TypeOK
<1>6. /\ x.msg \in Nat /\ sent \in Nat /\ x.msg \in 1..sent
      /\ Msg = 1..Len(Traffic) /\ sent \in 0..Len(Traffic) /\ Len(Traffic) \in Nat
  <2>1. /\ Msg = 1..Len(Traffic) /\ sent \in 0..Len(Traffic) /\ Len(Traffic) \in Nat
    BY TrafficFacts DEF TypeOK
  <2> QED
    BY <1>1, <1>2, <2>1 DEF UnderWay
<1>7. k = n => DestOf(Traffic[x.msg]) = Worker(n)
  BY <1>2 DEF ToWorker, DestOf
<1>8. e \in 1..Len(q) /\ q[e] = x
  BY <1>1
<1> HIDE DEF q, x, y
<1>9. /\ RemoveAt(q, e) \in Seq(QueueItem) /\ Len(RemoveAt(q, e)) = Len(q) - 1
      /\ DOMAIN RemoveAt(q, e) = 1..(Len(q) - 1)
      /\ \A j \in 1..(Len(q) - 1) : RemoveAt(q, e)[j] = q[old(j)]
      /\ \A j \in 1..(Len(q) - 1) : old(j) \in 1..Len(q) /\ old(j) # e
  <2>1. /\ RemoveAt(q, e) \in Seq(QueueItem) /\ Len(RemoveAt(q, e)) = Len(q) - 1
        /\ \A j \in 1..(Len(q) - 1) : RemoveAt(q, e)[j] = q[old(j)]
    BY <1>1, <1>8, RemoveEntries
  <2>2. DOMAIN RemoveAt(q, e) = 1..(Len(q) - 1)
    BY <2>1, LenProperties
  <2>3. \A j \in 1..(Len(q) - 1) : old(j) \in 1..Len(q) /\ old(j) # e
    BY <1>1, <1>8
  <2> QED
    BY <2>1, <2>2, <2>3
<1> HIDE DEF old
<1>10. /\ \A m \in Msg : m # x.msg => arrived'[m] = arrived[m]
       /\ arrived'[x.msg] = arrived[x.msg] \cup (IF k = n THEN {Worker(n)} ELSE {})
       /\ arrived' \in [Msg -> SUBSET Dest]
  <2>1. arrived \in [Msg -> SUBSET Dest] /\ Worker(n) \in Dest
    BY DEF TypeOK, Dest
  <2> QED
    BY <2>1, <1>1, <1>3
<1>11. TypeOK'
  <2>1. queue' \in [Server -> [Server -> Seq(QueueItem)]]
    <3>1. queue \in [Server -> [Server -> Seq(QueueItem)]]
      BY DEF TypeOK, QueueItem
    <3>2. queue' = [queue EXCEPT ![n] = [queue[n] EXCEPT ![k] = RemoveAt(q, e)]]
      BY <1>3, <3>1
    <3>3. [queue[n] EXCEPT ![k] = RemoveAt(q, e)] \in [Server -> Seq(QueueItem)]
      BY <1>9, <3>1
    <3> QED
      BY <3>1, <3>2, <3>3
  <2>2. net' \subseteq [msg : Msg, from : Server, hops : Seq(Server), key : BOOLEAN]
    BY <1>3, <1>4 DEF TypeOK
  <2>3. UNCHANGED <<sent, route, releases, pushing, replies, cache_count, enable_send, over>>
    BY <1>3 DEF accounts
  <2> QED
    BY <2>1, <2>2, <2>3, <1>10 DEF TypeOK, QueueItem
<1>12. HopsInv'
  <2>1. ASSUME NEW u \in Server, NEW v \in Server, NEW i \in DOMAIN queue'[u][v]
        PROVE  /\ UnderWay(queue'[u][v][i], sent) /\ Head(queue'[u][v][i].hops) = v
               /\ u = v => ToWorker(u, queue'[u][v][i].msg)
    <3>1. \E j \in DOMAIN queue[u][v] : queue'[u][v][i] = queue[u][v][j]
      <4>1. CASE u = n /\ v = k
        <5>1. i \in 1..(Len(q) - 1)
          BY <2>1, <4>1, <1>5, <1>9
        <5>2. old(i) \in 1..Len(q) /\ queue'[u][v][i] = q[old(i)]
          BY <4>1, <5>1, <1>5, <1>9
        <5> QED
          BY <4>1, <5>2, <1>1 DEF q
      <4>2. CASE ~(u = n /\ v = k)
        BY <2>1, <4>2, <1>5
      <4> QED
        BY <4>1, <4>2
    <3> QED
      BY <3>1 DEF HopsInv
  <2>2. UnderWay(y, sent)
    BY <1>2, <1>4 DEF UnderWay
  <2>3. \A z \in net' : UnderWay(z, sent)
    BY <2>2, <1>3 DEF HopsInv
  <2>4. sent' = sent /\ pushing' = pushing
    BY <1>3
  <2> QED
    BY <2>1, <2>3, <2>4 DEF HopsInv
<1>13. PlaceInv'
  <2>1. ASSUME NEW m \in 1..sent PROVE \E z : Places(m)' = {z}
    <3>1. PICK w : Places(m) = {w}
      BY DEF PlaceInv
    <3>2. m \in Msg
      BY <1>6
    <3>3. CASE m # x.msg
      <4>1. SameFor(m, net, net')
        BY <3>3, <1>3, <1>4 DEF SameFor
      <4>2. arrived'[m] = arrived[m]
        BY <3>2, <3>3, <1>10
      <4>3. Alone(m, pushing, queue, net, arrived)
        BY <3>1 DEF Places, Alone
      <4>4. Taken(m, queue, queue', n, k, e)
        BY <3>3, <1>1, <1>5, <1>8 DEF q, Taken
      <4>5. Alone(m, pushing, queue', net', arrived')
        BY <4>1, <4>2, <4>3, <4>4, ShiftPlaces
      <4>6. pushing' = pushing
        BY <1>3
      <4> QED
        BY <4>5, <4>6 DEF Places, Alone
    <3>4. CASE m = x.msg
      <4> DEFINE S == PlacesIn(m, pushing, queue, net, arrived)
                 S2 == PlacesIn(m, pushing', queue', net', arrived')
                 new == IF k = n THEN AtDest(Worker(n)) ELSE AtNet(y)
      <4>1. S = {AtQueue(n, k, e)}
        <5>1. AtQueue(n, k, e) \in S
          BY <3>4, AtFacts DEF x
        <5> QED
          BY <5>1, <3>1 DEF Places
      <4>2. /\ \A z : AtPush(z) \in S <=> z \in pushing /\ z.msg = m
            /\ \A z : AtNet(z) \in S <=> z \in net /\ z.msg = m
            /\ \A d : AtDest(d) \in S <=> d \in arrived[m]
            /\ \A u, v \in Server : \A i : AtQueue(u, v, i) \in S
                                         <=> i \in DOMAIN queue[u][v] /\ queue[u][v][i].msg = m
        BY AtFacts
      <4>3. /\ \A z : AtPush(z) \in S2 <=> z \in pushing' /\ z.msg = m
            /\ \A z : AtNet(z) \in S2 <=> z \in net' /\ z.msg = m
            /\ \A d : AtDest(d) \in S2 <=> d \in arrived'[m]
            /\ \A u, v \in Server : \A i : AtQueue(u, v, i) \in S2
                                         <=> i \in DOMAIN queue'[u][v] /\ queue'[u][v][i].msg = m
        BY AtFacts
      <4>4. \A z \in S2 : \/ (\E a : z = AtPush(a)) \/ (\E a : z = AtNet(a)) \/ (\E a : z = AtDest(a))
                          \/ \E u, v \in Server : \E i : z = AtQueue(u, v, i)
        BY AtFacts
      <4> HIDE DEF S, S2
      <4>5. pushing' = pushing
        BY <1>3
      <4>6. \A z : AtPush(z) \notin S2
        BY <4>1, <4>2, <4>3, <4>5, TagFacts
      <4>7. ASSUME NEW u \in Server, NEW v \in Server, NEW i, AtQueue(u, v, i) \in S2
            PROVE  FALSE
        <5>1. i \in DOMAIN queue'[u][v] /\ queue'[u][v][i].msg = m
          BY <4>3, <4>7
        <5>2. CASE u = n /\ v = k
          <6>1. i \in 1..(Len(q) - 1) /\ RemoveAt(q, e)[i].msg = m
            BY <5>1, <5>2, <1>5, <1>9
          <6>2. old(i) \in DOMAIN q /\ q[old(i)].msg = m /\ old(i) # e
            BY <6>1, <1>1, <1>9
          <6>3. AtQueue(n, k, old(i)) \in S
            BY <6>2, <4>2 DEF q
          <6> QED
            BY <6>2, <6>3, <4>1, TagFacts
        <5>3. CASE ~(u = n /\ v = k)
          <6>1. AtQueue(u, v, i) \in S
            BY <5>1, <5>3, <1>5, <4>2
          <6> QED
            BY <6>1, <5>3, <4>1, TagFacts
        <5> QED
          BY <5>2, <5>3
      <4>8. \A z : z \notin net \/ z.msg # m
        BY <4>1, <4>2, TagFacts
      <4>9. \A d : d \notin arrived[m]
        BY <4>1, <4>2, TagFacts
      <4>10. S2 = {new}
        <5>1. CASE k = n
          <6>1. net' = net /\ arrived'[m] = arrived[m] \cup {Worker(n)}
            BY <5>1, <3>4, <1>3, <1>10
          <6>2. \A z : AtNet(z) \notin S2
            BY <6>1, <4>3, <4>8
          <6>3. \A d : AtDest(d) \in S2 <=> d = Worker(n)
            BY <6>1, <4>3, <4>9
          <6> QED
            BY <5>1, <6>2, <6>3, <4>4, <4>6, <4>7
        <5>2. CASE k # n
          <6>1. net' = net \cup {y} /\ arrived' = arrived /\ y.msg = m
            BY <5>2, <3>4, <1>3, <1>4
          <6>2. \A z : AtNet(z) \in S2 <=> z = y
            BY <6>1, <4>3, <4>8
          <6>3. \A d : AtDest(d) \notin S2
            BY <6>1, <4>3, <4>9
          <6> QED
            BY <5>2, <6>2, <6>3, <4>4, <4>6, <4>7
        <5> QED
          BY <5>1, <5>2
      <4> QED
        BY <4>10 DEF S2, Places
    <3> QED
      BY <3>3, <3>4
  <2>2. ASSUME NEW m \in 1..sent PROVE arrived'[m] \subseteq {DestOf(Traffic[m])}
    <3>1. arrived[m] \subseteq {DestOf(Traffic[m])} /\ m \in Msg
      BY <1>6 DEF PlaceInv
    <3> QED
      BY <3>1, <1>7, <1>10
  <2>3. ASSUME NEW m \in Msg, m > sent PROVE arrived'[m] = {}
    <3>1. m # x.msg
      BY <2>3, <1>6
    <3> QED
      BY <2>3, <3>1, <1>10 DEF PlaceInv
  <2>4. sent' = sent
    BY <1>3
  <2> QED
    BY <2>1, <2>2, <2>3, <2>4 DEF PlaceInv
<1> QED
  BY <1>11, <1>12, <1>13


\* A server takes a message from the wire, for itself or to hand it on.
LEMMA ReceiveStep ==
    ASSUME ForwardInv, NEW x \in net, Receive(x)
    PROVE  ForwardInv'
<1> USE DEF ForwardInv
<1> DEFINE n == Head(x.hops)
           t == Traffic[x.msg]
           h == IF t.dst = n THEN x.hops ELSE Tail(x.hops)
           p == [msg |-> x.msg, at |-> n, hops |-> h]
           last == t.dst = n /\ ~ t.worker
<1>1. /\ x.msg \in Msg /\ x.from \in Server /\ x.hops \in Seq(Server) /\ x.key \in BOOLEAN
      /\ UnderWay(x, sent)
  BY DEF TypeOK, HopsInv
<1>2. OnPath(x.hops, x.msg)
  BY <1>1 DEF UnderWay
<1>3. /\ n \in Server /\ (t.dst # n => Len(x.hops) > 1)
      /\ Len(x.hops) > 1 => /\ Tail(x.hops) \in Seq(Server) /\ OnPath(Tail(x.hops), x.msg)
                            /\ n \notin ToSet(Tail(x.hops))
  BY <1>1, <1>2, HopOn
<1>4. /\ net' = net \ {x}
      /\ last => arrived' = [arrived EXCEPT ![x.msg] = @ \cup {Here(n)}] /\ pushing' = pushing
      /\ ~ last => pushing' = pushing \cup {p} /\ arrived' = arrived
      /\ UNCHANGED <<sent, route, releases, queue>>
  BY DEF Receive, AfterHop
<1>5. /\ x.msg \in 1..sent /\ sent \in Nat /\ x.msg \in Nat
      /\ Msg = 1..Len(Traffic) /\ sent \in 0..Len(Traffic) /\ Len(Traffic) \in Nat
  <2>1. /\ Msg = 1..Len(Traffic) /\ sent \in 0..Len(Traffic) /\ Len(Traffic) \in Nat
    BY TrafficFacts DEF TypeOK
  <2> QED
    BY <1>1, <2>1 DEF UnderWay
<1>6. t.size \in Nat /\ t.worker \in BOOLEAN
  BY <1>1, TrafficFacts
<1>7. RecvReply(n, x)
  BY DEF Receive
<1>8. h \in Seq(Server) /\ OnPath(h, x.msg)
  BY <1>1, <1>2, <1>3
<1>9. ~ last => (n \in ToSet(h) => ToWorker(n, x.msg))
  BY <1>3, <1>6 DEF ToWorker
<1>10. last => DestOf(Traffic[x.msg]) = Here(n)
  BY DEF DestOf
<1> HIDE DEF n, h, last
<1>11. /\ p.msg = x.msg /\ p.at = n /\ p.hops = h
       /\ p \in [msg : Msg, at : Server, hops : Seq(Server)]
  BY <1>1, <1>3, <1>8
<1> HIDE DEF p
<1>12. /\ \A m \in Msg : m # x.msg => arrived'[m] = arrived[m]
       /\ arrived'[x.msg] = arrived[x.msg] \cup (IF last THEN {Here(n)} ELSE {})
       /\ arrived' \in [Msg -> SUBSET Dest]
  <2>1. arrived \in [Msg -> SUBSET Dest] /\ Here(n) \in Dest
    BY <1>3 DEF TypeOK, Dest
  <2> QED
    BY <2>1, <1>1, <1>4
<1>13. TypeOK'
  <2>1. /\ cache_count' \in [Server -> Int] /\ enable_send' \in [Server -> {0, 1}]
        /\ over' \subseteq Server
        /\ replies' \subseteq [msg : Msg, from : Server, to : Server, size : Nat]
    <3>1. CASE x.key /\ t.size > 0
      <4>1. Count(n, Less(cache_count[n], t.size)) /\ replies' = replies
        BY <3>1, <1>7 DEF RecvReply
      <4>2. Less(cache_count[n], t.size) \in Int
        <5>1. cache_count[n] \in Int /\ t.size \in Int
          BY <1>3, <1>6 DEF TypeOK
        <5> QED
          BY <5>1, LessFacts
      <4> QED
        BY <4>1, <4>2, <1>3, CountFacts DEF TypeOK
    <3>2. CASE ~(x.key /\ t.size > 0)
      <4> DEFINE r == [msg |-> x.msg, from |-> n, to |-> x.from, size |-> t.size]
      <4>1. replies' = replies \cup {r} /\ cache_count' = cache_count /\ enable_send' = enable_send
            /\ over' = over
        BY <3>2, <1>7 DEF RecvReply, accounts
      <4>2. r \in [msg : Msg, from : Server, to : Server, size : Nat]
        BY <1>1, <1>3, <1>6
      <4> QED
        BY <4>1, <4>2 DEF TypeOK
    <3> QED
      BY <3>1, <3>2
  <2>2. pushing' \subseteq [msg : Msg, at : Server, hops : Seq(Server)]
    BY <1>4, <1>11 DEF TypeOK
  <2>3. net' \subseteq net /\ UNCHANGED <<sent, route, releases, queue>>
    BY <1>4
  <2> QED
    BY <2>1, <2>2, <2>3, <1>12 DEF TypeOK
<1>14. HopsInv'
  <2>1. UnderWay(p, sent)
    BY <1>1, <1>8, <1>11 DEF UnderWay
  <2>2. \A z \in pushing' : UnderWay(z, sent) /\ (z.at \in ToSet(z.hops) => ToWorker(z.at, z.msg))
    BY <2>1, <1>4, <1>9, <1>11 DEF HopsInv
  <2>3. net' \subseteq net /\ sent' = sent /\ queue' = queue
    BY <1>4
  <2> QED
    BY <2>2, <2>3 DEF HopsInv
<1>15. PlaceInv'
  <2>1. ASSUME NEW m \in 1..sent PROVE \E z : Places(m)' = {z}
    <3>1. PICK w : Places(m) = {w}
      BY DEF PlaceInv
    <3>2. m \in Msg
      BY <1>5
    <3>3. queue' = queue
      BY <1>4
    <3>4. CASE m # x.msg
      <4>1. \A z : z.msg = m => (z \in net' <=> z \in net)
        BY <3>4, <1>4
      <4>2. \A z : z.msg = m => (z \in pushing' <=> z \in pushing)
        BY <3>4, <1>4, <1>11
      <4>3. arrived'[m] = arrived[m]
        BY <3>2, <3>4, <1>12
      <4>4. PlacesIn(m, pushing', queue', net', arrived') = PlacesIn(m, pushing, queue, net, arrived)
        BY <3>3, <4>1, <4>2, <4>3, SamePlaces
      <4> QED
        BY <4>4, <3>1 DEF Places
    <3>5. CASE m = x.msg
      <4> DEFINE S == PlacesIn(m, pushing, queue, net, arrived)
                 S2 == PlacesIn(m, pushing', queue', net', arrived')
                 new == IF last THEN AtDest(Here(n)) ELSE AtPush(p)
      <4>1. S = {AtNet(x)}
        <5>1. AtNet(x) \in S
          BY <3>5, AtFacts
        <5> QED
          BY <5>1, <3>1 DEF Places
      <4>2. /\ \A z : AtPush(z) \in S <=> z \in pushing /\ z.msg = m
            /\ \A z : AtNet(z) \in S <=> z \in net /\ z.msg = m
            /\ \A d : AtDest(d) \in S <=> d \in arrived[m]
            /\ \A u, v \in Server : \A i : AtQueue(u, v, i) \in S
                                         <=> i \in DOMAIN queue[u][v] /\ queue[u][v][i].msg = m
        BY AtFacts
      <4>3. /\ \A z : AtPush(z) \in S2 <=> z \in pushing' /\ z.msg = m
            /\ \A z : AtNet(z) \in S2 <=> z \in net' /\ z.msg = m
            /\ \A d : AtDest(d) \in S2 <=> d \in arrived'[m]
            /\ \A u, v \in Server : \A i : AtQueue(u, v, i) \in S2
                                         <=> i \in DOMAIN queue'[u][v] /\ queue'[u][v][i].msg = m
        BY AtFacts
      <4>4. \A z \in S2 : \/ (\E a : z = AtPush(a)) \/ (\E a : z = AtNet(a)) \/ (\E a : z = AtDest(a))
                          \/ \E u, v \in Server : \E i : z = AtQueue(u, v, i)
        BY AtFacts
      <4> HIDE DEF S, S2
      <4>5. \A z : AtNet(z) \notin S2
        BY <4>1, <4>2, <4>3, <1>4, TagFacts
      <4>6. \A u, v \in Server : \A i : AtQueue(u, v, i) \notin S2
        <5>1. \A u, v \in Server : \A i : AtQueue(u, v, i) \in S2 => AtQueue(u, v, i) \in S
          BY <3>3, <4>2, <4>3
        <5> QED
          BY <5>1, <4>1, TagFacts
      <4>7. \A z : z \notin pushing \/ z.msg # m
        BY <4>1, <4>2, TagFacts
      <4>8. \A d : d \notin arrived[m]
        BY <4>1, <4>2, TagFacts
      <4>9. S2 = {new}
        <5>1. CASE last
          <6>1. pushing' = pushing /\ arrived'[m] = arrived[m] \cup {Here(n)}
            BY <5>1, <3>5, <1>4, <1>12
          <6>2. \A z : AtPush(z) \notin S2
            BY <6>1, <4>3, <4>7
          <6>3. \A d : AtDest(d) \in S2 <=> d = Here(n)
            BY <6>1, <4>3, <4>8
          <6> QED
            BY <5>1, <6>2, <6>3, <4>4, <4>5, <4>6
        <5>2. CASE ~ last
          <6>1. pushing' = pushing \cup {p} /\ arrived' = arrived /\ p.msg = m
            BY <5>2, <3>5, <1>4, <1>11
          <6>2. \A z : AtPush(z) \in S2 <=> z = p
            BY <6>1, <4>3, <4>7
          <6>3. \A d : AtDest(d) \notin S2
            BY <6>1, <4>3, <4>8
          <6> QED
            BY <5>2, <6>2, <6>3, <4>4, <4>5, <4>6
        <5> QED
          BY <5>1, <5>2
      <4> QED
        BY <4>9 DEF S2, Places
    <3> QED
      BY <3>4, <3>5
  <2>2. ASSUME NEW m \in 1..sent PROVE arrived'[m] \subseteq {DestOf(Traffic[m])}
    <3>1. arrived[m] \subseteq {DestOf(Traffic[m])} /\ m \in Msg
      BY <1>5 DEF PlaceInv
    <3> QED
      BY <3>1, <1>10, <1>12
  <2>3. ASSUME NEW m \in Msg, m > sent PROVE arrived'[m] = {}
    <3>1. m # x.msg
      BY <2>3, <1>5
    <3> QED
      BY <2>3, <3>1, <1>12 DEF PlaceInv
  <2>4. sent' = sent
    BY <1>4
  <2> QED
    BY <2>1, <2>2, <2>3, <2>4 DEF PlaceInv
<1> QED
  BY <1>13, <1>14, <1>15

\* Steps that carry nothing keep what is said about messages.
LEMMA NothingCarried ==
    ASSUME ForwardInv, TypeOK', UNCHANGED <<sent, pushing, queue, net, arrived>>
    PROVE  ForwardInv'
<1>1. HopsInv'
  BY DEF ForwardInv, HopsInv
<1>2. \A m : Places(m)' = Places(m)
  BY DEF Places
<1>3. PlaceInv'
  BY <1>2 DEF ForwardInv, PlaceInv
<1> QED
  BY <1>1, <1>3 DEF ForwardInv

\* An acknowledgement arrives.
LEMMA ReplyStep ==
    ASSUME ForwardInv, NEW r \in replies, ProcessRecvReplyCommand(r)
    PROVE  ForwardInv'
<1>1. r.to \in Server /\ r.size \in Nat
  BY DEF ForwardInv, TypeOK
<1>2. Less(cache_count[r.to], r.size) \in Int
  BY <1>1, LessFacts DEF ForwardInv, TypeOK
<1>3. cache_count' \in [Server -> Int] /\ enable_send' \in [Server -> {0, 1}]
      /\ over' \subseteq Server
  BY <1>1, <1>2, CountFacts DEF ProcessRecvReplyCommand, ForwardInv
<1>4. /\ replies' \subseteq replies
      /\ UNCHANGED <<sent, route, releases, pushing, queue, net, arrived>>
  BY DEF ProcessRecvReplyCommand
<1>5. TypeOK'
  BY <1>3, <1>4 DEF ForwardInv, TypeOK
<1> QED
  BY <1>4, <1>5, NothingCarried

\* New routes are released: they are for messages that start later.
LEMMA ReleaseStep ==
    ASSUME ForwardInv, NEW n \in Server, NEW table \in RouteTables, ProcessRouteRelease(n, table)
    PROVE  ForwardInv'
<1>1. TypeOK'
  <2>1. releases' \in [Server -> Nat] /\ route' \in [Server -> RouteTables \cup {FirstTable}]
    BY DEF ForwardInv, TypeOK, ProcessRouteRelease
  <2>2. UNCHANGED <<sent, pushing, queue, net, replies, cache_count, enable_send, over, arrived>>
    BY DEF ProcessRouteRelease, accounts
  <2> QED
    BY <2>1, <2>2 DEF ForwardInv, TypeOK
<1> QED
  BY <1>1, NothingCarried DEF ProcessRouteRelease


LEMMA InitialForward == Init => ForwardInv
<1> SUFFICES ASSUME Init PROVE ForwardInv
  OBVIOUS
<1>1. Len(Traffic) \in Nat
  BY TrafficFacts
<1>2. <<>> \in Seq([msg : Msg, hops : Seq(Server)]) /\ DOMAIN <<>> = {}
  BY EmptySeq
<1>3. TypeOK
  BY <1>1, <1>2 DEF Init, TypeOK
<1>4. HopsInv
  BY <1>2 DEF Init, HopsInv
<1>5. PlaceInv
  BY DEF Init, PlaceInv
<1> QED
  BY <1>3, <1>4, <1>5 DEF ForwardInv

LEMMA NextForward == ForwardInv /\ [Next]_vars => ForwardInv'
<1> SUFFICES ASSUME ForwardInv, [Next]_vars PROVE ForwardInv'
  OBVIOUS
<1>1. CASE \E p \in pushing : QueuePush(p)
  BY <1>1, QueuePushStep
<1>2. CASE \E n, k \in Server : \E i \in DOMAIN queue[n][k] : Sending(n, k, i)
  BY <1>2, SendingStep
<1>3. CASE \E x \in net : Receive(x)
  BY <1>3, ReceiveStep
<1>4. CASE \E r \in replies : ProcessRecvReplyCommand(r)
  BY <1>4, ReplyStep
<1>5. CASE \E m \in Msg : Send(m)
  BY <1>5, SendStep
<1>6. CASE \E n \in Server, table \in RouteTables : ProcessRouteRelease(n, table)
  BY <1>6, ReleaseStep
<1>7. CASE UNCHANGED vars
  <2>1. TypeOK' /\ UNCHANGED <<sent, pushing, queue, net, arrived>>
    BY <1>7 DEF ForwardInv, TypeOK, vars
  <2> QED
    BY <2>1, NothingCarried
<1> QED
  BY <1>1, <1>2, <1>3, <1>4, <1>5, <1>6, <1>7 DEF Next, Forward

----------------------------------------------------------------------------
(* The results.                                                             *)

\* For any servers, routes and traffic, every message under way is on the rest
\* of a path to its destination and in one place.
THEOREM ForwardInductive == Spec => []ForwardInv
  BY InitialForward, NextForward, PTL DEF Spec

\* The type invariant holds in every state of Forwarding.
THEOREM ForwardingTypes == Spec => []TypeOK
<1>1. ForwardInv => TypeOK
  BY DEF ForwardInv
<1> QED
  BY <1>1, ForwardInductive, PTL

\* Forwarding loses, copies and misleads no message, whatever auxiliary paths
\* Van::Push takes and whenever routes are released.
THEOREM OneCopyHolds == Spec => []OneCopy
<1>1. ForwardInv => OneCopy
  <2> SUFFICES ASSUME ForwardInv PROVE OneCopy
    OBVIOUS
  <2> USE DEF ForwardInv
  <2>1. ASSUME NEW m \in 1..sent
        PROVE  Cardinality(Places(m)) = 1 /\ arrived[m] \subseteq {DestOf(Traffic[m])}
    <3>1. PICK y : Places(m) = {y}
      BY DEF PlaceInv
    <3>2. Cardinality({y}) = 1
      BY FS_Singleton
    <3> QED
      BY <3>1, <3>2 DEF PlaceInv
  <2>2. \A x \in pushing \cup net : Last(x.hops) = Traffic[x.msg].dst
    BY DEF HopsInv, UnderWay, OnPath
  <2>3. ASSUME NEW n \in Server, NEW k \in Server, NEW x \in ToSet(queue[n][k])
        PROVE  Last(x.hops) = Traffic[x.msg].dst
    <3>1. PICK i \in DOMAIN queue[n][k] : x = queue[n][k][i]
      BY <2>3 DEF ToSet
    <3> QED
      BY <3>1 DEF HopsInv, UnderWay, OnPath
  <2>4. \A x \in UNION {ToSet(queue[n][k]) : n, k \in Server} :
          \E n, k \in Server : x \in ToSet(queue[n][k])
    OBVIOUS
  <2>5. \A x \in UNION {ToSet(queue[n][k]) : n, k \in Server} : Last(x.hops) = Traffic[x.msg].dst
    BY <2>3, <2>4
  <2> QED
    BY <2>1, <2>2, <2>5 DEF OneCopy
<1> QED
  BY <1>1, ForwardInductive, PTL


\* A message that is queued or on the wire has not arrived.
LEMMA NotArrived ==
    ASSUME ForwardInv, NEW m \in 1..sent, NEW y \in Places(m), \A d : y # AtDest(d)
    PROVE  arrived[m] = {}
<1>1. PICK z : Places(m) = {z}
  BY DEF ForwardInv, PlaceInv
<1>2. \A d : AtDest(d) \in Places(m) <=> d \in arrived[m]
  BY AtFacts DEF Places
<1> QED
  BY <1>1, <1>2

\* Forwarding over any routes implements the network that TreeSync relies on:
\* each message reaches its own destination, and only once.
THEOREM ForwardingRefines == Spec => Net!Safety
<1> DEFINE dest == [m \in Msg |-> IF m <= sent THEN {DestOf(Traffic[m])} ELSE {}]
<1>0. Net!Msg = Msg /\ Msg = 1..Len(Traffic) /\ Len(Traffic) \in Nat
  BY TrafficFacts DEF Net!Msg
<1>1. Init => Net!Init
  <2>1. Init => sent = 0 /\ arrived = [m \in Msg |-> {}] /\ dest = [m \in Msg |-> {}]
    BY <1>0 DEF Init
  <2> QED
    BY <1>0, <2>1 DEF Net!Init
<1>2. ASSUME ForwardInv, NEW m \in 1..sent, arrived[m] = {}, sent' = sent,
             arrived' = [arrived EXCEPT ![m] = {DestOf(Traffic[m])}]
      PROVE  Net!Next
  <2>1. m \in Msg /\ sent \in Nat /\ sent <= Len(Traffic)
    BY <1>0, <1>2 DEF ForwardInv, TypeOK
  <2>2. dest' = dest /\ dest[m] = {DestOf(Traffic[m])}
    BY <1>2, <2>1
  <2>3. arrived' = [arrived EXCEPT ![m] = dest[m]] /\ arrived[m] # dest[m]
    BY <1>2, <2>2
  <2>4. Net!Deliver(m)
    BY <1>2, <2>2, <2>3 DEF Net!Deliver
  <2> QED
    BY <1>0, <2>1, <2>4 DEF Net!Next
<1>3. ASSUME ForwardInv, [Next]_vars PROVE [Net!Next]_(Net!vars)
  <2>1. ASSUME NEW m \in Msg, Send(m) PROVE Net!Next
    <3>1. m = sent + 1 /\ sent' = m /\ arrived' = arrived /\ sent \in Nat
      BY <1>0, <1>3, <2>1 DEF Send, ForwardInv, TypeOK
    <3>2. dest' = [dest EXCEPT ![sent + 1] = {DestOf(Traffic[m])}]
      <4>1. \A i \in Msg : (i <= sent + 1) <=> (i = sent + 1 \/ i <= sent)
        BY <1>0, <3>1
      <4> QED
        BY <3>1, <4>1
    <3>3. DestOf(Traffic[m]) \in Dest
      BY TrafficFacts DEF DestOf, Dest
    <3>4. sent < Len(Traffic)
      BY <1>0, <3>1
    <3>5. Net!Send(DestOf(Traffic[m]))
      BY <3>1, <3>2, <3>4 DEF Net!Send
    <3> QED
      BY <3>3, <3>5 DEF Net!Next
  <2>2. ASSUME NEW n \in Server, NEW k \in Server, NEW e \in DOMAIN queue[n][k], Sending(n, k, e)
        PROVE  [Net!Next]_(Net!vars)
    <3> DEFINE x == queue[n][k][e]
    <3>1. CASE k # n
      BY <2>2, <3>1 DEF Sending, Net!vars
    <3>2. CASE k = n
      <4>1. /\ x.msg \in Msg /\ UnderWay(x, sent) /\ ToWorker(n, x.msg)
        BY <1>3, <3>2, QueueFacts DEF ForwardInv, HopsInv
      <4>2. x.msg \in 1..sent
        BY <1>0, <1>3, <4>1 DEF UnderWay, ForwardInv, TypeOK
      <4>3. AtQueue(n, k, e) \in Places(x.msg)
        BY AtFacts DEF Places
      <4>4. arrived[x.msg] = {}
        BY <1>3, <4>2, <4>3, NotArrived, TagFacts
      <4>5. sent' = sent /\ arrived' = [arrived EXCEPT ![x.msg] = @ \cup {Worker(n)}]
        BY <2>2, <3>2 DEF Sending
      <4>6. Worker(n) = DestOf(Traffic[x.msg])
        BY <4>1 DEF ToWorker, DestOf
      <4> HIDE DEF x
      <4>7. arrived' = [arrived EXCEPT ![x.msg] = {DestOf(Traffic[x.msg])}]
        BY <4>4, <4>5, <4>6
      <4> QED
        BY <1>2, <1>3, <4>2, <4>4, <4>5, <4>7
    <3> QED
      BY <3>1, <3>2
  <2>3. ASSUME NEW x \in net, Receive(x) PROVE [Net!Next]_(Net!vars)
    <3> DEFINE n == Head(x.hops)
               last == Traffic[x.msg].dst = n /\ ~ Traffic[x.msg].worker
    <3>1. CASE ~ last
      BY <2>3, <3>1 DEF Receive, Net!vars
    <3>2. CASE last
      <4>1. x.msg \in Msg /\ UnderWay(x, sent)
        BY <1>3 DEF ForwardInv, TypeOK, HopsInv
      <4>2. x.msg \in 1..sent
        BY <1>0, <1>3, <4>1 DEF UnderWay, ForwardInv, TypeOK
      <4>3. AtNet(x) \in Places(x.msg)
        BY AtFacts DEF Places
      <4>4. arrived[x.msg] = {}
        BY <1>3, <4>2, <4>3, NotArrived, TagFacts
      <4>5. sent' = sent /\ arrived' = [arrived EXCEPT ![x.msg] = @ \cup {Here(n)}]
        BY <2>3, <3>2 DEF Receive
      <4>6. Here(n) = DestOf(Traffic[x.msg])
        BY <3>2 DEF DestOf
      <4>7. arrived' = [arrived EXCEPT ![x.msg] = {DestOf(Traffic[x.msg])}]
        BY <4>4, <4>5, <4>6
      <4> QED
        BY <1>2, <1>3, <4>2, <4>4, <4>5, <4>7
    <3> QED
      BY <3>1, <3>2
  <2>4. CASE UNCHANGED <<sent, arrived>>
    BY <2>4 DEF Net!vars
  <2> QED
    BY <1>3, <2>1, <2>2, <2>3, <2>4 DEF Next, Forward, QueuePush, ProcessRecvReplyCommand,
       ProcessRouteRelease, vars
<1> QED
  BY <1>1, <1>3, ForwardInductive, PTL DEF Spec, Net!Safety


----------------------------------------------------------------------------
(* Sums over finite sets.                                                   *)

\* Induction, for a set of numbers.
LEMMA NumberInduction ==
    ASSUME NEW T, 0 \in T, \A n \in Nat : n \in T => n + 1 \in T
    PROVE  \A n \in Nat : n \in T
<1> SUFFICES ASSUME NEW n \in Nat, n \notin T PROVE FALSE
  OBVIOUS
<1> DEFINE R == OpToRel(<, Nat)
           U == {m \in Nat : m \notin T}
<1>1. IsWellFoundedOn(R, Nat)
  BY NatLessThanWellFounded
<1>2. \A i, j \in Nat : i < j => <<i, j>> \in R
  BY DEF OpToRel
<1> HIDE DEF R
<1>3. PICK m \in U : \A k \in U : ~ (<<k, m>> \in R)
  <2>1. U \subseteq Nat /\ U # {}
    OBVIOUS
  <2> HIDE DEF U
  <2> QED
    BY <1>1, <2>1, WFMin
<1>4. m \in Nat /\ m \notin T /\ m # 0
  OBVIOUS
<1>5. m - 1 \in Nat /\ <<m - 1, m>> \in R
  BY <1>2, <1>4
<1>6. m - 1 \in T
  BY <1>3, <1>5
<1>7. (m - 1) + 1 = m
  BY <1>4
<1> QED
  BY <1>4, <1>5, <1>6, <1>7


AnyOf(s) == CHOOSE x \in s : TRUE

\* g gives the sums of f over the sets of D.
SumsOn(f, D, g) == g = [s \in D |-> IF s = {} THEN 0 ELSE f[AnyOf(s)] + g[s \ {AnyOf(s)}]]

\* ... over all subsets of S.
Sums(f, S, g) == SumsOn(f, SUBSET S, g)

LEMMA AnyElement ==
    ASSUME NEW s, s # {}
    PROVE  AnyOf(s) \in s
BY DEF AnyOf

\* Sums are there for all subsets of a finite set: from those of some size
\* follow those of the next.
LEMMA SumsExist ==
    ASSUME NEW f, NEW S, IsFiniteSet(S)
    PROVE  \E g : Sums(f, S, g)
<1> DEFINE D(n) == {s \in SUBSET S : Cardinality(s) <= n}
           T == {n \in Nat : \E g : SumsOn(f, D(n), g)}
<1>1. \A s \in SUBSET S : /\ IsFiniteSet(s) /\ Cardinality(s) \in Nat
                          /\ Cardinality(s) <= Cardinality(S)
                          /\ s # {} => Cardinality(s \ {AnyOf(s)}) = Cardinality(s) - 1
  <2> TAKE s \in SUBSET S
  <2>1. IsFiniteSet(s) /\ Cardinality(s) <= Cardinality(S)
    BY FS_Subset
  <2>2. Cardinality(s) \in Nat
    BY <2>1, FS_CardinalityType
  <2>3. s # {} => Cardinality(s \ {AnyOf(s)}) = Cardinality(s) - 1
    BY <2>1, AnyElement, FS_RemoveElement
  <2> QED
    BY <2>1, <2>2, <2>3
<1>2. 0 \in T
  <2> DEFINE g == [s \in D(0) |-> 0]
  <2>1. \A s \in D(0) : s = {}
    <3> TAKE s \in D(0)
    <3>1. s \in SUBSET S /\ Cardinality(s) <= 0
      OBVIOUS
    <3>2. IsFiniteSet(s) /\ Cardinality(s) \in Nat
      BY <1>1, <3>1
    <3>3. Cardinality(s) = 0
      BY <3>1, <3>2
    <3> QED
      BY <3>2, <3>3, FS_EmptySet
  <2>2. SumsOn(f, D(0), g)
    <3> HIDE DEF D
    <3> QED
      BY <2>1 DEF SumsOn
  <2> HIDE DEF D, g
  <2> QED
    BY <2>2
<1>3. ASSUME NEW n \in Nat, n \in T PROVE n + 1 \in T
  <2>1. PICK g : SumsOn(f, D(n), g)
    BY <1>3
  <2> DEFINE h == [s \in D(n + 1) |-> IF s = {} THEN 0 ELSE f[AnyOf(s)] + g[s \ {AnyOf(s)}]]
  <2>2. \A s \in D(n) : h[s] = g[s]
    <3>1. \A s \in D(n) : s \in D(n + 1)
      <4> TAKE s \in D(n)
      <4>1. s \in SUBSET S /\ Cardinality(s) <= n /\ Cardinality(s) \in Nat
        BY <1>1
      <4>2. Cardinality(s) <= n + 1
        BY <4>1
      <4> QED
        BY <4>1, <4>2
    <3> HIDE DEF D
    <3> QED
      BY <2>1, <3>1 DEF SumsOn
  <2>3. \A s \in D(n + 1) : s # {} => s \ {AnyOf(s)} \in D(n)
    BY <1>1
  <2>4. SumsOn(f, D(n + 1), h)
    <3> HIDE DEF D
    <3>1. \A s \in D(n + 1) : h[s] = IF s = {} THEN 0 ELSE f[AnyOf(s)] + h[s \ {AnyOf(s)}]
      BY <2>2, <2>3
    <3>2. h = [s \in D(n + 1) |-> h[s]]
      OBVIOUS
    <3> HIDE DEF h
    <3> QED
      BY <3>1, <3>2 DEF SumsOn
  <2> HIDE DEF D, h
  <2> QED
    BY <2>4
<1>4. Cardinality(S) \in Nat /\ D(Cardinality(S)) = SUBSET S
  BY <1>1
<1> HIDE DEF D
<1>5. \A n \in Nat : n \in T
  <2> HIDE DEF T
  <2> QED
    BY <1>2, <1>3, NumberInduction
<1> QED
  BY <1>4, <1>5 DEF Sums

\* Sums are numbers.
LEMMA SumsType ==
    ASSUME NEW N, N = Nat \/ N = Int, NEW f, NEW S, IsFiniteSet(S),
           \A x \in S : f[x] \in N, NEW g, Sums(f, S, g)
    PROVE  \A s \in SUBSET S : g[s] \in N
<1> DEFINE T == {n \in Nat : \A s \in SUBSET S : Cardinality(s) = n => g[s] \in N}
<1>1. \A s \in SUBSET S : IsFiniteSet(s) /\ Cardinality(s) \in Nat
  BY FS_Subset, FS_CardinalityType
<1>2. \A s \in SUBSET S : g[s] = IF s = {} THEN 0 ELSE f[AnyOf(s)] + g[s \ {AnyOf(s)}]
  BY DEF Sums, SumsOn
<1>3. 0 \in T
  <2>1. \A s \in SUBSET S : Cardinality(s) = 0 => s = {}
    BY <1>1, FS_EmptySet
  <2>2. 0 \in N
    OBVIOUS
  <2> QED
    BY <2>1, <2>2, <1>2
<1>4. ASSUME NEW n \in Nat, n \in T PROVE n + 1 \in T
  <2> SUFFICES ASSUME NEW s \in SUBSET S, Cardinality(s) = n + 1 PROVE g[s] \in N
    OBVIOUS
  <2>0. n + 1 # 0
    OBVIOUS
  <2>1. s # {}
    BY <2>0, FS_EmptySet
  <2> DEFINE x == AnyOf(s)
  <2>2. x \in s
    BY <2>1, AnyElement
  <2> HIDE DEF x
  <2>3. Cardinality(s \ {x}) = (n + 1) - 1
    BY <2>2, <1>1, FS_RemoveElement
  <2>4. Cardinality(s \ {x}) = n
    BY <2>3
  <2>5. g[s \ {x}] \in N
    BY <2>4, <1>4
  <2>6. g[s] = f[x] + g[s \ {x}]
    BY <2>1, <1>2 DEF x
  <2>7. f[x] \in N
    BY <2>2
  <2> QED
    BY <2>5, <2>6, <2>7
<1>5. \A n \in Nat : n \in T
  <2> HIDE DEF T
  <2> QED
    BY <1>3, <1>4, NumberInduction
<1> QED
  BY <1>1, <1>5

\* It does not matter which element is taken first.
LEMMA SumsStep ==
    ASSUME NEW f, NEW S, IsFiniteSet(S), \A x \in S : f[x] \in Int,
           NEW g, Sums(f, S, g)
    PROVE  \A x \in S : g[S] = f[x] + g[S \ {x}]
<1> DEFINE T == {n \in Nat : \A s \in SUBSET S : Cardinality(s) = n =>
                                \A x \in s : g[s] = f[x] + g[s \ {x}]}
<1>1. \A s \in SUBSET S : IsFiniteSet(s) /\ Cardinality(s) \in Nat
  BY FS_Subset, FS_CardinalityType
<1>2. \A s \in SUBSET S : g[s] = IF s = {} THEN 0 ELSE f[AnyOf(s)] + g[s \ {AnyOf(s)}]
  BY DEF Sums, SumsOn
<1>3. \A s \in SUBSET S : g[s] \in Int
  BY SumsType
<1>4. 0 \in T
  BY <1>1, FS_EmptySet
<1>5. ASSUME NEW n \in Nat, n \in T PROVE n + 1 \in T
  <2> SUFFICES ASSUME NEW s \in SUBSET S, Cardinality(s) = n + 1, NEW x \in s
               PROVE  g[s] = f[x] + g[s \ {x}]
    OBVIOUS
  <2> DEFINE y == AnyOf(s)
  <2>1. y \in s
    BY AnyElement
  <2>2. g[s] = f[y] + g[s \ {y}]
    BY <1>2
  <2> HIDE DEF y
  <2>3. CASE x = y
    BY <2>2, <2>3
  <2>4. CASE x # y
    <3>1. Cardinality(s \ {y}) = (n + 1) - 1 /\ Cardinality(s \ {x}) = (n + 1) - 1
      BY <2>1, <1>1, FS_RemoveElement
    <3>2. Cardinality(s \ {y}) = n /\ Cardinality(s \ {x}) = n
      BY <3>1
    <3> DEFINE r == (s \ {y}) \ {x}
    <3>3. g[s \ {y}] = f[x] + g[r]
      BY <2>4, <3>2, <1>5
    <3>4. r = (s \ {x}) \ {y} /\ r \in SUBSET S
      OBVIOUS
    <3>5. g[s \ {x}] = f[y] + g[(s \ {x}) \ {y}]
      BY <2>1, <2>4, <3>2, <1>5
    <3>6. g[s \ {x}] = f[y] + g[r]
      BY <3>4, <3>5
    <3> HIDE DEF r
    <3>7. g[r] \in Int /\ f[x] \in Int /\ f[y] \in Int
      BY <1>3, <2>1, <3>4
    <3>8. \A a, b, c \in Int : a + (b + c) = b + (a + c)
      OBVIOUS
    <3>9. f[y] + (f[x] + g[r]) = f[x] + (f[y] + g[r])
      BY <3>7, <3>8
    <3> QED
      BY <2>2, <3>3, <3>6, <3>9
  <2> QED
    BY <2>3, <2>4
<1>6. \A n \in Nat : n \in T
  <2> HIDE DEF T
  <2> QED
    BY <1>4, <1>5, NumberInduction
<1>7. Cardinality(S) \in T
  BY <1>1, <1>6
<1> QED
  BY <1>7

\* Only the values that are added matter.
LEMMA SumsAgree ==
    ASSUME NEW f, NEW S, IsFiniteSet(S), NEW g, Sums(f, S, g),
           NEW e, NEW R, R \subseteq S, NEW h, Sums(e, R, h),
           \A x \in R : f[x] = e[x]
    PROVE  \A s \in SUBSET R : g[s] = h[s]
<1> DEFINE T == {n \in Nat : \A s \in SUBSET R : Cardinality(s) = n => g[s] = h[s]}
<1>1. \A s \in SUBSET R : IsFiniteSet(s) /\ Cardinality(s) \in Nat
  BY FS_Subset, FS_CardinalityType
<1>2. \A s \in SUBSET S : g[s] = IF s = {} THEN 0 ELSE f[AnyOf(s)] + g[s \ {AnyOf(s)}]
  BY DEF Sums, SumsOn
<1>3. \A s \in SUBSET R : h[s] = IF s = {} THEN 0 ELSE e[AnyOf(s)] + h[s \ {AnyOf(s)}]
  BY DEF Sums, SumsOn
<1>4. 0 \in T
  BY <1>1, <1>2, <1>3, FS_EmptySet
<1>5. ASSUME NEW n \in Nat, n \in T PROVE n + 1 \in T
  <2> SUFFICES ASSUME NEW s \in SUBSET R, Cardinality(s) = n + 1 PROVE g[s] = h[s]
    OBVIOUS
  <2>1. s # {}
    BY FS_EmptySet
  <2> DEFINE x == AnyOf(s)
  <2>2. x \in s
    BY <2>1, AnyElement
  <2>3. g[s] = f[x] + g[s \ {x}] /\ h[s] = e[x] + h[s \ {x}]
    BY <2>1, <1>2, <1>3
  <2> HIDE DEF x
  <2>4. Cardinality(s \ {x}) = (n + 1) - 1
    BY <2>2, <1>1, FS_RemoveElement
  <2>5. Cardinality(s \ {x}) = n
    BY <2>4
  <2>6. g[s \ {x}] = h[s \ {x}]
    BY <2>5, <1>5
  <2> QED
    BY <2>2, <2>3, <2>6
<1>6. \A n \in Nat : n \in T
  <2> HIDE DEF T
  <2> QED
    BY <1>4, <1>5, NumberInduction
<1> QED
  BY <1>1, <1>6

\* The bytes of messages are a sum.
LEMMA BytesAreSums ==
    ASSUME NEW S, IsFiniteSet(S)
    PROVE  \E g : Sums([x \in S |-> SizeOf(x)], S, g) /\ Bytes(S) = g[S]
<1> DEFINE f == [x \in S |-> SizeOf(x)]
           P(g) == g = [s \in SUBSET S |->
                         IF s = {} THEN 0 ELSE SizeOf(AnyOf(s)) + g[s \ {AnyOf(s)}]]
           c == CHOOSE g : P(g)
<1>1. \A s \in SUBSET S : s # {} => f[AnyOf(s)] = SizeOf(AnyOf(s))
  BY AnyElement
<1>2. \A g : P(g) <=> Sums(f, S, g)
  <2> HIDE DEF f
  <2> QED
    BY <1>1 DEF Sums, SumsOn
<1>3. \E g : P(g)
  BY <1>2, SumsExist
<1>4. Bytes(S) = c[S]
  BY DEF Bytes, MapThenSumSet, MapThenFoldSet, AnyOf, SizeOf
<1> HIDE DEF P, f
<1>5. P(c)
  BY <1>3
<1> QED
  BY <1>2, <1>4, <1>5 DEF f

\* The bytes that replies acknowledge are a sum.
LEMMA AcknowledgedAreSums ==
    ASSUME NEW S, IsFiniteSet(S)
    PROVE  \E g : Sums([x \in S |-> x.size], S, g) /\ Acknowledged(S) = g[S]
<1> DEFINE f == [x \in S |-> x.size]
           P(g) == g = [s \in SUBSET S |->
                         IF s = {} THEN 0 ELSE AnyOf(s).size + g[s \ {AnyOf(s)}]]
           c == CHOOSE g : P(g)
<1>1. \A s \in SUBSET S : s # {} => f[AnyOf(s)] = AnyOf(s).size
  BY AnyElement
<1>2. \A g : P(g) <=> Sums(f, S, g)
  <2> HIDE DEF f
  <2> QED
    BY <1>1 DEF Sums, SumsOn
<1>3. \E g : P(g)
  BY <1>2, SumsExist
<1>4. Acknowledged(S) = c[S]
  BY DEF Acknowledged, MapThenSumSet, MapThenFoldSet, AnyOf
<1> HIDE DEF P, f
<1>5. P(c)
  BY <1>3
<1> QED
  BY <1>2, <1>4, <1>5 DEF f

\* Bytes are a number, and the sum of those of one message and of the others.
LEMMA BytesStep ==
    ASSUME NEW S, IsFiniteSet(S), \A y \in S : SizeOf(y) \in Int
    PROVE  /\ Bytes(S) \in Int
           /\ \A x \in S : Bytes(S) = SizeOf(x) + Bytes(S \ {x})
<1> DEFINE f == [y \in S |-> SizeOf(y)]
<1>1. PICK g : Sums(f, S, g) /\ Bytes(S) = g[S]
  BY BytesAreSums
<1>2. \A y \in S : f[y] \in Int /\ f[y] = SizeOf(y)
  OBVIOUS
<1> HIDE DEF f
<1>3. \A s \in SUBSET S : g[s] \in Int
  <2>1. \A N : N = Int => N = Nat \/ N = Int
    OBVIOUS
  <2> QED
    BY <2>1, <1>1, <1>2, SumsType
<1>4. ASSUME NEW x \in S PROVE Bytes(S) = SizeOf(x) + Bytes(S \ {x})
  <2> DEFINE R == S \ {x}
             e == [y \in R |-> SizeOf(y)]
  <2>1. IsFiniteSet(R) /\ R \subseteq S
    BY FS_Subset
  <2>2. PICK h : Sums(e, R, h) /\ Bytes(R) = h[R]
    BY <2>1, BytesAreSums
  <2>3. \A y \in R : f[y] = e[y]
    BY <1>2
  <2>4. \A y \in S : g[S] = f[y] + g[S \ {y}]
    BY <1>1, <1>2, SumsStep
  <2> HIDE DEF e
  <2>5. \A s \in SUBSET R : g[s] = h[s]
    <3> HIDE DEF R
    <3>1. IsFiniteSet(S) /\ Sums(f, S, g) /\ Sums(e, R, h) /\ R \subseteq S
      BY <1>1, <2>1, <2>2
    <3> QED
      BY <2>3, <3>1, SumsAgree
  <2>6. g[R] = h[R]
    BY <2>5
  <2> QED
    BY <1>1, <1>2, <2>2, <2>4, <2>6
<1> QED
  BY <1>1, <1>3, <1>4

\* The same for acknowledgements.
LEMMA AcknowledgedStep ==
    ASSUME NEW S, IsFiniteSet(S), \A y \in S : y.size \in Int
    PROVE  /\ Acknowledged(S) \in Int
           /\ \A x \in S : Acknowledged(S) = x.size + Acknowledged(S \ {x})
<1> DEFINE f == [y \in S |-> y.size]
<1>1. PICK g : Sums(f, S, g) /\ Acknowledged(S) = g[S]
  BY AcknowledgedAreSums
<1>2. \A y \in S : f[y] \in Int /\ f[y] = y.size
  OBVIOUS
<1> HIDE DEF f
<1>3. \A s \in SUBSET S : g[s] \in Int
  <2>1. \A N : N = Int => N = Nat \/ N = Int
    OBVIOUS
  <2> QED
    BY <2>1, <1>1, <1>2, SumsType
<1>4. ASSUME NEW x \in S PROVE Acknowledged(S) = x.size + Acknowledged(S \ {x})
  <2> DEFINE R == S \ {x}
             e == [y \in R |-> y.size]
  <2>1. IsFiniteSet(R) /\ R \subseteq S
    BY FS_Subset
  <2>2. PICK h : Sums(e, R, h) /\ Acknowledged(R) = h[R]
    BY <2>1, AcknowledgedAreSums
  <2>3. \A y \in R : f[y] = e[y]
    BY <1>2
  <2>4. \A y \in S : g[S] = f[y] + g[S \ {y}]
    BY <1>1, <1>2, SumsStep
  <2> HIDE DEF e
  <2>5. \A s \in SUBSET R : g[s] = h[s]
    <3> HIDE DEF R
    <3>1. IsFiniteSet(S) /\ Sums(f, S, g) /\ Sums(e, R, h) /\ R \subseteq S
      BY <1>1, <2>1, <2>2
    <3> QED
      BY <2>3, <3>1, SumsAgree
  <2>6. g[R] = h[R]
    BY <2>5
  <2> QED
    BY <1>1, <1>2, <2>2, <2>4, <2>6
<1> QED
  BY <1>1, <1>3, <1>4

\* Sizes are not negative, and neither is a sum of them.
LEMMA BytesNat ==
    ASSUME NEW S, IsFiniteSet(S), \A y \in S : SizeOf(y) \in Nat
    PROVE  Bytes(S) >= 0
<1> DEFINE f == [y \in S |-> SizeOf(y)]
<1>1. PICK g : Sums(f, S, g) /\ Bytes(S) = g[S]
  BY BytesAreSums
<1>2. \A y \in S : f[y] \in Nat
  OBVIOUS
<1> HIDE DEF f
<1>3. \A N : N = Nat => N = Nat \/ N = Int
  OBVIOUS
<1>4. \A s \in SUBSET S : g[s] \in Nat
  BY <1>1, <1>2, <1>3, SumsType
<1> QED
  BY <1>1, <1>4

LEMMA AcknowledgedNat ==
    ASSUME NEW S, IsFiniteSet(S), \A y \in S : y.size \in Nat
    PROVE  Acknowledged(S) >= 0
<1> DEFINE f == [y \in S |-> y.size]
<1>1. PICK g : Sums(f, S, g) /\ Acknowledged(S) = g[S]
  BY AcknowledgedAreSums
<1>2. \A y \in S : f[y] \in Nat
  OBVIOUS
<1> HIDE DEF f
<1>3. \A N : N = Nat => N = Nat \/ N = Int
  OBVIOUS
<1>4. \A s \in SUBSET S : g[s] \in Nat
  BY <1>1, <1>2, <1>3, SumsType
<1> QED
  BY <1>1, <1>4

\* Nothing.
LEMMA SumsOfNothing == Bytes({}) = 0 /\ Acknowledged({}) = 0
<1>0. IsFiniteSet({})
  BY FS_EmptySet
<1>1. PICK g : Sums([x \in {} |-> SizeOf(x)], {}, g) /\ Bytes({}) = g[{}]
  BY <1>0, BytesAreSums
<1>2. PICK h : Sums([x \in {} |-> x.size], {}, h) /\ Acknowledged({}) = h[{}]
  BY <1>0, AcknowledgedAreSums
<1>3. g[{}] = 0
  BY <1>1 DEF Sums, SumsOn
<1>4. h[{}] = 0
  BY <1>2 DEF Sums, SumsOn
<1> QED
  BY <1>1, <1>2, <1>3, <1>4


----------------------------------------------------------------------------
(* The account of a server.                                                 *)

\* No server that has acknowledged m is among these hops.
GoneBy(m, hops) == \A r \in replies : r.msg = m => r.from \notin ToSet(hops)

\* Nobody acknowledges a message twice: what is still to come on the path of a
\* message has not acknowledged it, as long as it is between servers.
RepliesInv ==
    /\ \A r \in replies : r.msg <= sent
    /\ \A x \in net : GoneBy(x.msg, x.hops) /\ (x.key => SizeOf(x) >= size_msg_report)
    /\ \A n \in Server : \A x \in Queued(n) : GoneBy(x.msg, x.hops)
    /\ \A p \in pushing : Head(p.hops) # p.at => GoneBy(p.msg, p.hops)

\* The sums are of finitely many messages.
FiniteInv ==
    /\ IsFiniteSet(net) /\ IsFiniteSet(replies)
    /\ \A n \in Server : IsFiniteSet(Queued(n))

\* A count that was never above Precision is not now.
OverInv == \A n \in Server \ over : cache_count[n] <= Precision

CacheInv == ForwardInv /\ RepliesInv /\ FiniteInv /\ OverInv /\ CacheIsUnacknowledged

\* The count of a server changes by Count or not at all.
LEMMA OverStep ==
    ASSUME CacheInv, [Next]_vars
    PROVE  OverInv' /\ over \subseteq over'
<1> USE DEF CacheInv, ForwardInv
<1>1. CASE UNCHANGED accounts
  BY <1>1 DEF accounts, OverInv
<1>2. ASSUME NEW n \in Server, NEW c \in Int, Count(n, c)
      PROVE  OverInv' /\ over \subseteq over'
  <2>1. /\ cache_count \in [Server -> Int] /\ cache_count' = [cache_count EXCEPT ![n] = c]
        /\ over' = IF c > Precision THEN over \cup {n} ELSE over
    BY <1>2 DEF Count, TypeOK
  <2> QED
    BY <2>1, PrecisionAssumption DEF OverInv
<1>3. ASSUME NEW p \in pushing, QueuePush(p) PROVE OverInv' /\ over \subseteq over'
  <2>1. p.at \in Server /\ cache_count[p.at] \in Int /\ Traffic[p.msg].size \in Int
    BY TrafficFacts DEF TypeOK
  <2>2. cache_count[p.at] + Traffic[p.msg].size \in Int
    BY <2>1
  <2> QED
    BY <2>1, <2>2, <1>1, <1>2, <1>3 DEF QueuePush
<1>4. ASSUME NEW x \in net, Receive(x) PROVE OverInv' /\ over \subseteq over'
  <2>1. Head(x.hops) \in Server /\ Traffic[x.msg].size \in Int
    <3>1. x.msg \in Msg /\ x.hops \in Seq(Server) /\ OnPath(x.hops, x.msg)
      BY DEF TypeOK, HopsInv, UnderWay
    <3> QED
      BY <3>1, HopOn, TrafficFacts
  <2>2. Less(cache_count[Head(x.hops)], Traffic[x.msg].size) \in Int
    BY <2>1, LessFacts DEF TypeOK
  <2> QED
    BY <2>1, <2>2, <1>1, <1>2, <1>4 DEF Receive, RecvReply
<1>5. ASSUME NEW r \in replies, ProcessRecvReplyCommand(r) PROVE OverInv' /\ over \subseteq over'
  <2>1. r.to \in Server /\ r.size \in Int /\ cache_count[r.to] \in Int
    BY DEF TypeOK
  <2>2. Less(cache_count[r.to], r.size) \in Int
    BY <2>1, LessFacts
  <2> QED
    BY <2>1, <2>2, <1>2, <1>5 DEF ProcessRecvReplyCommand
<1> QED
  BY <1>1, <1>3, <1>4, <1>5 DEF Next, Forward, Send, Sending, ProcessRouteRelease, vars, accounts

\* Queued, for given queues.
QueuedIn(Q, n) == UNION {ToSet(Q[n][k]) : k \in Server \ {n}}

LEMMA QueuedFacts ==
    ASSUME NEW Q, NEW n
    PROVE  \A x : x \in QueuedIn(Q, n)
                    <=> \E k \in Server \ {n} : \E i \in DOMAIN Q[n][k] : x = Q[n][k][i]
BY DEF QueuedIn, ToSet

\* A message that is about to be queued is nowhere else.
LEMMA OnlyPushed ==
    ASSUME ForwardInv, NEW p \in pushing
    PROVE  \A u, v \in Server : \A i \in DOMAIN queue[u][v] : queue[u][v][i].msg # p.msg
<1>1. p.msg \in 1..sent
  BY TrafficFacts DEF ForwardInv, TypeOK, HopsInv, UnderWay
<1>2. PICK y : Places(p.msg) = {y}
  BY <1>1 DEF ForwardInv, PlaceInv
<1> DEFINE S == PlacesIn(p.msg, pushing, queue, net, arrived)
<1>3. S = {y}
  BY <1>2 DEF Places
<1>4. AtPush(p) \in S
  BY AtFacts
<1>5. \A u, v \in Server : \A i : AtQueue(u, v, i) \in S
        <=> i \in DOMAIN queue[u][v] /\ queue[u][v][i].msg = p.msg
  BY AtFacts
<1> HIDE DEF S
<1>6. \A u, v, i : AtQueue(u, v, i) # AtPush(p)
  BY TagFacts
<1> QED
  BY <1>3, <1>4, <1>5, <1>6

\* A message that waits in a queue is nowhere else.
LEMMA OnlyQueued ==
    ASSUME ForwardInv, NEW n \in Server, NEW k \in Server, NEW e \in DOMAIN queue[n][k]
    PROVE  LET m == queue[n][k][e].msg
           IN  /\ \A z \in net : z.msg # m
               /\ \A u, v \in Server : \A i \in DOMAIN queue[u][v] :
                    queue[u][v][i].msg = m => u = n /\ v = k /\ i = e
<1> DEFINE m == queue[n][k][e].msg
           S == PlacesIn(m, pushing, queue, net, arrived)
<1>1. m \in 1..sent
  <2>1. m \in Msg
    BY QueueFacts DEF ForwardInv
  <2>2. m <= sent
    BY DEF ForwardInv, HopsInv, UnderWay
  <2> QED
    BY <2>1, <2>2, TrafficFacts DEF ForwardInv, TypeOK
<1>2. PICK y : S = {y}
  BY <1>1 DEF ForwardInv, PlaceInv, Places
<1>3. \A u, v \in Server : \A i : AtQueue(u, v, i) \in S
        <=> i \in DOMAIN queue[u][v] /\ queue[u][v][i].msg = m
  BY AtFacts
<1>4. \A z : AtNet(z) \in S <=> z \in net /\ z.msg = m
  BY AtFacts
<1>5. AtQueue(n, k, e) \in S
  BY <1>3
<1> HIDE DEF S
<1>6. /\ \A z : AtNet(z) # AtQueue(n, k, e)
      /\ \A u, v, i : AtQueue(u, v, i) = AtQueue(n, k, e) => u = n /\ v = k /\ i = e
  BY TagFacts
<1> HIDE DEF m
<1>7. /\ \A z \in net : z.msg # m
      /\ \A u, v \in Server : \A i \in DOMAIN queue[u][v] :
           queue[u][v][i].msg = m => u = n /\ v = k /\ i = e
  BY <1>2, <1>3, <1>4, <1>5, <1>6
<1> QED
  BY <1>7 DEF m

\* A message that is on the wire is nowhere else.
LEMMA OnlyCarried ==
    ASSUME ForwardInv, NEW x \in net
    PROVE  /\ \A z \in net : z.msg = x.msg => z = x
           /\ \A p \in pushing : p.msg # x.msg
           /\ \A u, v \in Server : \A i \in DOMAIN queue[u][v] : queue[u][v][i].msg # x.msg
<1> DEFINE S == PlacesIn(x.msg, pushing, queue, net, arrived)
<1>1. x.msg \in 1..sent
  BY TrafficFacts DEF ForwardInv, TypeOK, HopsInv, UnderWay
<1>2. PICK y : S = {y}
  BY <1>1 DEF ForwardInv, PlaceInv, Places
<1>3. \A u, v \in Server : \A i : AtQueue(u, v, i) \in S
        <=> i \in DOMAIN queue[u][v] /\ queue[u][v][i].msg = x.msg
  BY AtFacts
<1>4. \A z : AtNet(z) \in S <=> z \in net /\ z.msg = x.msg
  BY AtFacts
<1>5. \A p : AtPush(p) \in S <=> p \in pushing /\ p.msg = x.msg
  BY AtFacts
<1>6. AtNet(x) \in S
  BY <1>4
<1> HIDE DEF S
<1>7. /\ \A z : AtNet(z) = AtNet(x) => z = x
      /\ \A p : AtPush(p) # AtNet(x)
      /\ \A u, v, i : AtQueue(u, v, i) # AtNet(x)
  BY TagFacts
<1> QED
  BY <1>2, <1>3, <1>4, <1>5, <1>6, <1>7

\* What QueuePush does to what is queued.
LEMMA PushedQueues ==
    ASSUME ForwardInv, NEW p \in pushing, QueuePush(p)
    PROVE  LET n == p.at
               x == Item(p.msg, p.hops)
           IN  /\ Head(p.hops) # n => Queued(n)' = Queued(n) \cup {x} /\ x \notin Queued(n)
               /\ Head(p.hops) = n => Queued(n)' = Queued(n)
               /\ \A u \in Server \ {n} : Queued(u)' = Queued(u)
<1> DEFINE n == p.at
           k == Head(p.hops)
           x == Item(p.msg, p.hops)
           q == queue[n][k]
<1>1. n \in Server /\ p.msg \in Msg /\ p.hops \in Seq(Server) /\ OnPath(p.hops, p.msg)
  BY DEF ForwardInv, TypeOK, HopsInv, UnderWay
<1>2. k \in Server
  BY <1>1, HopOn
<1>3. queue' = [queue EXCEPT ![n][k] = Append(@, x)]
  BY DEF QueuePush, NextHop
<1>4. q \in Seq(QueueItem) /\ Len(q) \in Nat /\ DOMAIN q = 1..Len(q)
  BY <1>1, <1>2, QueueFacts DEF ForwardInv
<1>5. x \in QueueItem /\ x.msg = p.msg
  BY <1>1 DEF QueueItem, Item
<1>6. \A u, v \in Server : \A i \in DOMAIN queue[u][v] : queue[u][v][i].msg # p.msg
  BY OnlyPushed
<1> HIDE DEF n, k, x
<1>7. /\ queue'[n][k] = Append(q, x)
      /\ \A u, v \in Server : ~(u = n /\ v = k) => queue'[u][v] = queue[u][v]
  BY <1>1, <1>2, <1>3 DEF TypeOK, ForwardInv
<1> HIDE DEF q
<1>8. /\ DOMAIN Append(q, x) = 1..(Len(q) + 1)
      /\ \A i \in 1..Len(q) : Append(q, x)[i] = q[i]
      /\ Append(q, x)[Len(q) + 1] = x
  BY <1>4, <1>5, AppendProperties, LenProperties
<1>9. ToSet(Append(q, x)) = ToSet(q) \cup {x}
  <2>1. \A i : i \in 1..(Len(q) + 1) <=> i \in 1..Len(q) \/ i = Len(q) + 1
    BY <1>4
  <2> QED
    BY <2>1, <1>4, <1>8 DEF ToSet
<1>10. \A u, v \in Server : ~(u = n /\ v = k) => ToSet(queue'[u][v]) = ToSet(queue[u][v])
  BY <1>7
<1>11. \A u \in Server : Queued(u)' = QueuedIn(queue', u) /\ Queued(u) = QueuedIn(queue, u)
  BY DEF Queued, QueuedIn
<1>12. \A u \in Server \ {n} : QueuedIn(queue', u) = QueuedIn(queue, u)
  BY <1>10 DEF QueuedIn
<1>13. k = n => QueuedIn(queue', n) = QueuedIn(queue, n)
  BY <1>1, <1>10 DEF QueuedIn
<1>14. ASSUME k # n
       PROVE  QueuedIn(queue', n) = QueuedIn(queue, n) \cup {x} /\ x \notin QueuedIn(queue, n)
  <2>1. ToSet(queue'[n][k]) = ToSet(queue[n][k]) \cup {x} /\ k \in Server \ {n}
    BY <1>2, <1>7, <1>9, <1>14 DEF q
  <2>2. \A v \in Server \ {n} : v # k => ToSet(queue'[n][v]) = ToSet(queue[n][v])
    BY <1>1, <1>10
  <2>3. QueuedIn(queue', n) = QueuedIn(queue, n) \cup {x}
    BY <2>1, <2>2 DEF QueuedIn
  <2>4. x \notin QueuedIn(queue, n)
    BY <1>1, <1>5, <1>6, QueuedFacts
  <2> QED
    BY <2>3, <2>4
<1> QED
  BY <1>1, <1>11, <1>12, <1>13, <1>14 DEF n, k, x


\* What Sending does to what is queued and on the wire.
LEMMA SentQueues ==
    ASSUME ForwardInv, NEW n \in Server, NEW k \in Server, NEW e \in DOMAIN queue[n][k],
           Sending(n, k, e)
    PROVE  LET x == queue[n][k][e]
           IN  /\ k # n => Queued(n)' = Queued(n) \ {x} /\ x \in Queued(n)
               /\ k = n => Queued(n)' = Queued(n)
               /\ \A u \in Server \ {n} : Queued(u)' = Queued(u)
<1> DEFINE q == queue[n][k]
           x == queue[n][k][e]
           old(j) == IF j < e THEN j ELSE j + 1
<1>1. q \in Seq(QueueItem) /\ Len(q) \in Nat /\ DOMAIN q = 1..Len(q)
  BY QueueFacts DEF ForwardInv
<1>2. queue' = [queue EXCEPT ![n][k] = RemoveAt(q, e)]
  BY DEF Sending, Pop
<1>3. \A u, v \in Server : \A i \in DOMAIN queue[u][v] :
        queue[u][v][i].msg = x.msg => u = n /\ v = k /\ i = e
  BY OnlyQueued
<1>4. e \in 1..Len(q) /\ q[e] = x
  BY <1>1
<1> HIDE DEF x
<1>5. /\ queue'[n][k] = RemoveAt(q, e)
      /\ \A u, v \in Server : ~(u = n /\ v = k) => queue'[u][v] = queue[u][v]
  BY <1>2 DEF TypeOK, ForwardInv
<1>6. \A i \in 1..Len(q) : i # e => q[i] # x
  BY <1>1, <1>3
<1> HIDE DEF q
<1>7. /\ RemoveAt(q, e) \in Seq(QueueItem) /\ Len(RemoveAt(q, e)) = Len(q) - 1
      /\ \A j \in 1..(Len(q) - 1) : RemoveAt(q, e)[j] = q[old(j)]
  BY <1>1, <1>4, RemoveEntries
<1>8. DOMAIN RemoveAt(q, e) = 1..(Len(q) - 1)
  BY <1>7, LenProperties
<1>9. ToSet(RemoveAt(q, e)) = ToSet(q) \ {x}
  <2>1. \A j \in 1..(Len(q) - 1) : old(j) \in 1..Len(q) /\ old(j) # e
    BY <1>1, <1>4
  <2>2. \A i \in 1..Len(q) : i # e => \E j \in 1..(Len(q) - 1) : old(j) = i
    <3> SUFFICES ASSUME NEW i \in 1..Len(q), i # e
                 PROVE  \E j \in 1..(Len(q) - 1) : old(j) = i
      OBVIOUS
    <3> DEFINE j == IF i < e THEN i ELSE i - 1
    <3>1. j \in 1..(Len(q) - 1) /\ old(j) = i
      BY <1>1, <1>4
    <3> QED
      BY <3>1
  <2> HIDE DEF old
  <2>3. ASSUME NEW y \in ToSet(RemoveAt(q, e)) PROVE y \in ToSet(q) \ {x}
    <3>1. PICK j \in 1..(Len(q) - 1) : y = q[old(j)]
      BY <1>7, <1>8, <2>3 DEF ToSet
    <3> QED
      BY <3>1, <2>1, <1>1, <1>6 DEF ToSet
  <2>4. ASSUME NEW y \in ToSet(q), y # x PROVE y \in ToSet(RemoveAt(q, e))
    <3>1. PICK i \in 1..Len(q) : y = q[i]
      BY <1>1 DEF ToSet
    <3>2. PICK j \in 1..(Len(q) - 1) : old(j) = i
      BY <3>1, <2>2, <2>4, <1>4
    <3> QED
      BY <3>1, <3>2, <1>7, <1>8 DEF ToSet
  <2> QED
    BY <2>3, <2>4
<1>10. \A u, v \in Server : ~(u = n /\ v = k) => ToSet(queue'[u][v]) = ToSet(queue[u][v])
  BY <1>5
<1>11. \A u \in Server : Queued(u)' = QueuedIn(queue', u) /\ Queued(u) = QueuedIn(queue, u)
  BY DEF Queued, QueuedIn
<1>12. \A u \in Server \ {n} : QueuedIn(queue', u) = QueuedIn(queue, u)
  BY <1>10 DEF QueuedIn
<1>13. k = n => QueuedIn(queue', n) = QueuedIn(queue, n)
  BY <1>10 DEF QueuedIn
<1>14. ASSUME k # n
       PROVE  QueuedIn(queue', n) = QueuedIn(queue, n) \ {x} /\ x \in QueuedIn(queue, n)
  <2>0. x \in ToSet(q)
    BY <1>1, <1>4 DEF ToSet
  <2>1. /\ ToSet(queue'[n][k]) = ToSet(queue[n][k]) \ {x} /\ k \in Server \ {n}
        /\ x \in ToSet(queue[n][k])
    BY <2>0, <1>5, <1>9, <1>14 DEF q
  <2>2. \A v \in Server \ {n} : v # k => ToSet(queue'[n][v]) = ToSet(queue[n][v])
    BY <1>10
  <2>3. \A v \in Server \ {n} : v # k => x \notin ToSet(queue[n][v])
    BY <1>3 DEF ToSet
  <2> QED
    BY <2>1, <2>2, <2>3 DEF QueuedIn
<1> QED
  BY <1>11, <1>12, <1>13, <1>14 DEF x

\* The three sums of a server are numbers.
LEMMA Totals ==
    ASSUME ForwardInv, FiniteInv, NEW n \in Server
    PROVE  /\ IsFiniteSet(Queued(n)) /\ IsFiniteSet(Carried(n)) /\ IsFiniteSet(Due(n))
           /\ \A x \in Queued(n) : SizeOf(x) \in Int
           /\ \A x \in Carried(n) : SizeOf(x) \in Int
           /\ \A r \in Due(n) : r.size \in Int
           /\ Bytes(Queued(n)) \in Int /\ Bytes(Carried(n)) \in Int
           /\ Acknowledged(Due(n)) \in Int
           /\ cache_count \in [Server -> Int]
<1>1. IsFiniteSet(Queued(n)) /\ IsFiniteSet(Carried(n)) /\ IsFiniteSet(Due(n))
  <2>1. Carried(n) \subseteq net /\ Due(n) \subseteq replies
    BY DEF Carried, Due
  <2> QED
    BY <2>1, FS_Subset DEF FiniteInv
<1>2. \A m \in Msg : Traffic[m].size \in Int
  BY TrafficFacts
<1>3. \A x \in Queued(n) : SizeOf(x) \in Int
  <2> TAKE x \in Queued(n)
  <2>1. x \in QueuedIn(queue, n)
    BY DEF Queued, QueuedIn
  <2>2. PICK k \in Server \ {n} : \E i \in DOMAIN queue[n][k] : x = queue[n][k][i]
    BY <2>1, QueuedFacts
  <2>3. x.msg \in Msg
    BY <2>2, QueueFacts DEF ForwardInv
  <2> QED
    BY <2>3, <1>2 DEF SizeOf
<1>4. \A x \in Carried(n) : SizeOf(x) \in Int
  <2> TAKE x \in Carried(n)
  <2>1. x.msg \in Msg
    BY DEF ForwardInv, TypeOK, Carried
  <2> QED
    BY <2>1, <1>2 DEF SizeOf
<1>5. \A r \in Due(n) : r.size \in Int
  BY DEF ForwardInv, TypeOK, Due
<1>6. Bytes(Queued(n)) \in Int
  BY <1>1, <1>3, BytesStep
<1>7. Bytes(Carried(n)) \in Int
  BY <1>1, <1>4, BytesStep
<1>8. Acknowledged(Due(n)) \in Int
  BY <1>1, <1>5, AcknowledgedStep
<1>9. cache_count \in [Server -> Int]
  BY DEF ForwardInv, TypeOK
<1> QED
  BY <1>1, <1>3, <1>4, <1>5, <1>6, <1>7, <1>8, <1>9

\* And none of them is negative.
LEMMA TotalsNat ==
    ASSUME ForwardInv, FiniteInv, NEW n \in Server
    PROVE  Bytes(Queued(n)) >= 0 /\ Bytes(Carried(n)) >= 0
<1>1. IsFiniteSet(Queued(n)) /\ IsFiniteSet(Carried(n))
  BY Totals
<1>2. \A m \in Msg : Traffic[m].size \in Nat
  BY TrafficFacts
<1>3. \A x \in Queued(n) : SizeOf(x) \in Nat
  <2> TAKE x \in Queued(n)
  <2>1. x \in QueuedIn(queue, n)
    BY DEF Queued, QueuedIn
  <2>2. PICK k \in Server \ {n} : \E i \in DOMAIN queue[n][k] : x = queue[n][k][i]
    BY <2>1, QueuedFacts
  <2>3. x.msg \in Msg
    BY <2>2, QueueFacts DEF ForwardInv
  <2> QED
    BY <2>3, <1>2 DEF SizeOf
<1>4. \A x \in Carried(n) : SizeOf(x) \in Nat
  <2> TAKE x \in Carried(n)
  <2>1. x.msg \in Msg
    BY DEF ForwardInv, TypeOK, Carried
  <2> QED
    BY <2>1, <1>2 DEF SizeOf
<1> QED
  BY <1>1, <1>3, <1>4, BytesNat

\* The account of a server is right.
Balanced(n) == cache_count[n] = Bytes(Queued(n)) + Bytes(Carried(n)) + Acknowledged(Due(n))

\* No message reaches size_msg_report.
AllSmall == \A m \in 1..sent : Traffic[m].size < size_msg_report

LEMMA BalancedFacts ==
    /\ CacheIsUnacknowledged <=> (AllSmall => \A n \in Server \ over : Balanced(n))
    /\ CacheIsUnacknowledged' <=> (AllSmall' => \A n \in Server \ over' : Balanced(n)')
BY DEF CacheIsUnacknowledged, Unacknowledged, AllSmall, Balanced


\* A message more.
LEMMA BytesMore ==
    ASSUME NEW S, IsFiniteSet(S), \A y \in S : SizeOf(y) \in Int,
           NEW x, x \notin S, SizeOf(x) \in Int
    PROVE  IsFiniteSet(S \cup {x}) /\ Bytes(S \cup {x}) = SizeOf(x) + Bytes(S)
<1> DEFINE R == S \cup {x}
<1>1. /\ IsFiniteSet(R) /\ R \ {x} = S /\ x \in R
      /\ \A y \in R : SizeOf(y) \in Int
  BY FS_AddElement
<1> HIDE DEF R
<1>2. Bytes(R) = SizeOf(x) + Bytes(R \ {x})
  BY <1>1, BytesStep
<1> QED
  BY <1>1, <1>2 DEF R

\* An acknowledgement more.
LEMMA AcknowledgedMore ==
    ASSUME NEW S, IsFiniteSet(S), \A y \in S : y.size \in Int,
           NEW x, x \notin S, x.size \in Int
    PROVE  IsFiniteSet(S \cup {x}) /\ Acknowledged(S \cup {x}) = x.size + Acknowledged(S)
<1> DEFINE R == S \cup {x}
<1>1. /\ IsFiniteSet(R) /\ R \ {x} = S /\ x \in R
      /\ \A y \in R : y.size \in Int
  BY FS_AddElement
<1> HIDE DEF R
<1>2. Acknowledged(R) = x.size + Acknowledged(R \ {x})
  BY <1>1, AcknowledgedStep
<1> QED
  BY <1>1, <1>2 DEF R

\* A server that a step leaves alone stays balanced.
LEMMA StaysBalanced ==
    ASSUME NEW u \in Server, Balanced(u), cache_count'[u] = cache_count[u],
           Queued(u)' = Queued(u), Carried(u)' = Carried(u), Due(u)' = Due(u)
    PROVE  Balanced(u)'
BY DEF Balanced

\* What is queued for another server is counted.
LEMMA PushCache ==
    ASSUME CacheInv, NEW p \in pushing, QueuePush(p)
    PROVE  RepliesInv' /\ FiniteInv' /\ CacheIsUnacknowledged'
<1> DEFINE n == p.at
           k == Head(p.hops)
           x == Item(p.msg, p.hops)
<1>0. ForwardInv /\ RepliesInv /\ FiniteInv /\ OverInv /\ CacheIsUnacknowledged
  BY DEF CacheInv
<1>1. n \in Server /\ p.msg \in Msg
  BY <1>0 DEF ForwardInv, TypeOK
<1>2. /\ pushing' \subseteq pushing /\ net' = net /\ replies' = replies /\ sent' = sent
      /\ IF k # n /\ Traffic[p.msg].size > 0 THEN Count(n, cache_count[n] + Traffic[p.msg].size)
                                              ELSE UNCHANGED accounts
  BY DEF QueuePush, NextHop, Counted
<1>3. /\ k # n => Queued(n)' = Queued(n) \cup {x} /\ x \notin Queued(n)
      /\ k = n => Queued(n)' = Queued(n)
      /\ \A u \in Server \ {n} : Queued(u)' = Queued(u)
  BY <1>0, PushedQueues
<1>4. x.msg = p.msg /\ x.hops = p.hops /\ SizeOf(x) = Traffic[p.msg].size
  BY DEF Item, SizeOf
<1>5. Traffic[p.msg].size \in Nat
  BY <1>1, TrafficFacts
<1>6. k # n => GoneBy(p.msg, p.hops)
  BY <1>0 DEF RepliesInv
<1> HIDE DEF n, k, x
<1>7. RepliesInv'
  <2>1. \A m, h : GoneBy(m, h)' <=> GoneBy(m, h)
    BY <1>2 DEF GoneBy
  <2>2. \A r \in replies' : r.msg <= sent'
    BY <1>0, <1>2 DEF RepliesInv
  <2>3. \A y \in net' : GoneBy(y.msg, y.hops)' /\ (y.key => SizeOf(y) >= size_msg_report)
    BY <1>0, <1>2, <2>1 DEF RepliesInv
  <2>4. ASSUME NEW u \in Server, NEW y \in Queued(u)' PROVE GoneBy(y.msg, y.hops)'
    <3>1. y \in Queued(u) \/ (k # n /\ y = x)
      BY <2>4, <1>3
    <3>2. y \in Queued(u) => GoneBy(y.msg, y.hops)
      BY <1>0 DEF RepliesInv
    <3> QED
      BY <2>1, <3>1, <3>2, <1>4, <1>6
  <2>5. \A z \in pushing' : Head(z.hops) # z.at => GoneBy(z.msg, z.hops)'
    BY <1>0, <1>2, <2>1 DEF RepliesInv
  <2> QED
    BY <2>2, <2>3, <2>4, <2>5 DEF RepliesInv, SizeOf
<1>8. FiniteInv'
  <2>1. \A u \in Server : IsFiniteSet(Queued(u)')
    BY <1>0, <1>3, FS_AddElement DEF FiniteInv
  <2> QED
    BY <1>0, <1>2, <2>1 DEF FiniteInv
<1>9. CacheIsUnacknowledged'
  <2> SUFFICES ASSUME AllSmall', NEW u \in Server \ over' PROVE Balanced(u)'
    BY BalancedFacts
  <2>0. u \in Server \ over
    BY OverStep DEF Next, Forward
  <2>1. Balanced(u)
    BY <2>0, <1>0, <1>2, BalancedFacts DEF AllSmall
  <2>2. Carried(u)' = Carried(u) /\ Due(u)' = Due(u)
    BY <1>2 DEF Carried, Due
  <2>3. CASE u # n
    <3>1. cache_count'[u] = cache_count[u]
      BY <2>3, <1>0, <1>2 DEF Count, accounts, ForwardInv, TypeOK
    <3> QED
      BY <3>1, <2>1, <2>2, <2>3, <1>3, StaysBalanced
  <2>4. CASE u = n /\ k = n
    <3>1. cache_count'[u] = cache_count[u]
      BY <2>4, <1>2 DEF accounts
    <3> QED
      BY <3>1, <2>1, <2>2, <2>4, <1>3, StaysBalanced
  <2>5. CASE u = n /\ k # n
    <3>1. /\ IsFiniteSet(Queued(u)) /\ \A y \in Queued(u) : SizeOf(y) \in Int
          /\ Bytes(Queued(u)) \in Int /\ Bytes(Carried(u)) \in Int
          /\ Acknowledged(Due(u)) \in Int /\ cache_count \in [Server -> Int]
      BY <1>0, Totals
    <3>2. Queued(u)' = Queued(u) \cup {x} /\ x \notin Queued(u) /\ SizeOf(x) \in Int
      BY <2>5, <1>3, <1>4, <1>5
    <3>3. Bytes(Queued(u) \cup {x}) = SizeOf(x) + Bytes(Queued(u))
      BY <3>1, <3>2, BytesMore
    <3>4. cache_count'[u] = cache_count[u] + SizeOf(x)
      <4>1. CASE Traffic[p.msg].size > 0
        BY <4>1, <2>5, <3>1, <1>1, <1>2, <1>4 DEF Count
      <4>2. CASE ~(Traffic[p.msg].size > 0)
        BY <4>2, <2>5, <3>1, <1>1, <1>2, <1>4, <1>5 DEF accounts
      <4> QED
        BY <4>1, <4>2
    <3>5. Bytes(Queued(u))' = Bytes(Queued(u) \cup {x})
      BY <3>2
    <3>6. Bytes(Carried(u))' = Bytes(Carried(u)) /\ Acknowledged(Due(u))' = Acknowledged(Due(u))
      BY <2>2
    <3>7. cache_count[u] = Bytes(Queued(u)) + Bytes(Carried(u)) + Acknowledged(Due(u))
      BY <2>1 DEF Balanced
    <3>8. cache_count[u] + SizeOf(x)
            = (SizeOf(x) + Bytes(Queued(u))) + Bytes(Carried(u)) + Acknowledged(Due(u))
      BY <3>1, <3>2, <3>7
    <3> QED
      BY <3>3, <3>4, <3>5, <3>6, <3>8 DEF Balanced
  <2> QED
    BY <2>3, <2>4, <2>5
<1> QED
  BY <1>7, <1>8, <1>9


\* What leaves the queue for another server is on the wire.
LEMMA SentCache ==
    ASSUME CacheInv, NEW n \in Server, NEW k \in Server, NEW e \in DOMAIN queue[n][k],
           Sending(n, k, e)
    PROVE  RepliesInv' /\ FiniteInv' /\ CacheIsUnacknowledged'
<1> DEFINE x == queue[n][k][e]
           y == [msg |-> x.msg, from |-> n, hops |-> x.hops,
                 key |-> Traffic[x.msg].size >= size_msg_report]
<1>0. ForwardInv /\ RepliesInv /\ FiniteInv /\ OverInv /\ CacheIsUnacknowledged
  BY DEF CacheInv
<1>1. x.msg \in Msg
  BY <1>0, QueueFacts DEF ForwardInv
<1>2. /\ pushing' = pushing /\ replies' = replies /\ sent' = sent /\ cache_count' = cache_count
      /\ k = n => net' = net
      /\ k # n => net' = net \cup {y}
  BY DEF Sending, accounts
<1>3. /\ k # n => Queued(n)' = Queued(n) \ {x} /\ x \in Queued(n)
      /\ k = n => Queued(n)' = Queued(n)
      /\ \A u \in Server \ {n} : Queued(u)' = Queued(u)
  BY <1>0, SentQueues
<1>4. \A z \in net : z.msg # x.msg
  BY <1>0, OnlyQueued
<1>5. /\ y.msg = x.msg /\ y.hops = x.hops /\ y.from = n
      /\ y.key => Traffic[x.msg].size >= size_msg_report
  OBVIOUS
<1>6. SizeOf(y) = SizeOf(x) /\ SizeOf(y) = Traffic[x.msg].size
  BY <1>5 DEF SizeOf
<1>7. Traffic[x.msg].size \in Int
  BY <1>1, TrafficFacts
<1> HIDE DEF x, y
<1>8. RepliesInv'
  <2>1. \A m, h : GoneBy(m, h)' <=> GoneBy(m, h)
    BY <1>2 DEF GoneBy
  <2>2. \A r \in replies' : r.msg <= sent'
    BY <1>0, <1>2 DEF RepliesInv
  <2>3. ASSUME NEW z \in net' PROVE GoneBy(z.msg, z.hops)' /\ (z.key => SizeOf(z) >= size_msg_report)
    <3>1. CASE z \in net
      BY <3>1, <1>0, <2>1 DEF RepliesInv
    <3>2. CASE k # n /\ z = y
      <4>1. GoneBy(x.msg, x.hops)
        BY <3>2, <1>0, <1>3 DEF RepliesInv
      <4>2. GoneBy(z.msg, z.hops)'
        BY <3>2, <4>1, <2>1, <1>5
      <4>3. z.key => SizeOf(z) >= size_msg_report
        BY <3>2, <1>5, <1>6
      <4> QED
        BY <4>2, <4>3
    <3> QED
      BY <3>1, <3>2, <2>3, <1>2
  <2>4. \A u \in Server : \A z \in Queued(u)' : GoneBy(z.msg, z.hops)'
    <3>1. \A u \in Server : Queued(u)' \subseteq Queued(u)
      BY <1>3
    <3> QED
      BY <3>1, <2>1, <1>0 DEF RepliesInv
  <2>5. \A z \in pushing' : Head(z.hops) # z.at => GoneBy(z.msg, z.hops)'
    BY <1>0, <1>2, <2>1 DEF RepliesInv
  <2> QED
    BY <2>2, <2>3, <2>4, <2>5 DEF RepliesInv, SizeOf
<1>9. FiniteInv'
  <2>1. \A u \in Server : IsFiniteSet(Queued(u)')
    <3>1. \A u \in Server : Queued(u)' \subseteq Queued(u)
      BY <1>3
    <3> QED
      BY <3>1, <1>0, FS_Subset DEF FiniteInv
  <2>2. IsFiniteSet(net')
    BY <1>0, <1>2, FS_AddElement DEF FiniteInv
  <2> QED
    BY <1>0, <1>2, <2>1, <2>2 DEF FiniteInv
<1>10. CacheIsUnacknowledged'
  <2> SUFFICES ASSUME AllSmall', NEW u \in Server \ over' PROVE Balanced(u)'
    BY BalancedFacts
  <2>0. u \in Server \ over
    BY OverStep DEF Next, Forward
  <2>1. Balanced(u)
    BY <2>0, <1>0, <1>2, BalancedFacts DEF AllSmall
  <2>2. Due(u)' = Due(u)
    BY <1>2 DEF Due
  <2>3. CASE u # n \/ k = n
    <3>1. Carried(u)' = Carried(u)
      BY <2>3, <1>2, <1>5 DEF Carried
    <3> QED
      BY <3>1, <2>1, <2>2, <2>3, <1>2, <1>3, StaysBalanced
  <2>4. CASE u = n /\ k # n
    <3>1. /\ IsFiniteSet(Queued(u)) /\ \A z \in Queued(u) : SizeOf(z) \in Int
          /\ IsFiniteSet(Carried(u)) /\ \A z \in Carried(u) : SizeOf(z) \in Int
          /\ Bytes(Carried(u)) \in Int /\ Acknowledged(Due(u)) \in Int
      BY <1>0, Totals
    <3>2. /\ Carried(u)' = Carried(u) \cup {y} /\ y \notin Carried(u)
      BY <2>4, <1>2, <1>4, <1>5 DEF Carried
    <3>3. Bytes(Carried(u))' = SizeOf(x) + Bytes(Carried(u))
      <4>1. Bytes(Carried(u) \cup {y}) = SizeOf(y) + Bytes(Carried(u))
        BY <3>1, <3>2, <1>6, <1>7, BytesMore
      <4> QED
        BY <4>1, <3>2, <1>6
    <3>4. Bytes(Queued(u)) = SizeOf(x) + Bytes(Queued(u))'
      <4>1. Bytes(Queued(u)) = SizeOf(x) + Bytes(Queued(u) \ {x})
        BY <2>4, <3>1, <1>3, BytesStep
      <4> QED
        BY <4>1, <2>4, <1>3
    <3>5. Bytes(Queued(u))' \in Int
      <4>1. IsFiniteSet(Queued(u) \ {x}) /\ \A z \in Queued(u) \ {x} : SizeOf(z) \in Int
        BY <3>1, FS_Subset
      <4>2. Bytes(Queued(u) \ {x}) \in Int
        BY <4>1, BytesStep
      <4> QED
        BY <4>2, <2>4, <1>3
    <3>6. Acknowledged(Due(u))' = Acknowledged(Due(u))
      BY <2>2
    <3>7. cache_count[u] = Bytes(Queued(u)) + Bytes(Carried(u)) + Acknowledged(Due(u))
      BY <2>1 DEF Balanced
    <3>8. SizeOf(x) \in Int
      BY <1>6, <1>7
    <3> DEFINE a == SizeOf(x)
               b == Bytes(Queued(u))'
               c == Bytes(Carried(u))
               d == Acknowledged(Due(u))
    <3>9. \A i, j, l, m \in Int : (i + j) + l + m = j + (i + l) + m
      OBVIOUS
    <3>10. (a + b) + c + d = b + (a + c) + d
      <4>1. a \in Int /\ b \in Int /\ c \in Int /\ d \in Int
        BY <3>1, <3>5, <3>8
      <4> HIDE DEF a, b, c, d
      <4> QED
        BY <4>1, <3>9
    <3>11. cache_count'[u] = Bytes(Queued(u))' + Bytes(Carried(u))' + Acknowledged(Due(u))'
      BY <3>3, <3>4, <3>6, <3>7, <3>10, <1>2
    <3> QED
      BY <3>11 DEF Balanced
  <2> QED
    BY <2>3, <2>4
<1> QED
  BY <1>8, <1>9, <1>10

\* An acknowledgement settles what it is for.
LEMMA ReplyCache ==
    ASSUME CacheInv, NEW r \in replies, ProcessRecvReplyCommand(r)
    PROVE  RepliesInv' /\ FiniteInv' /\ CacheIsUnacknowledged'
<1> DEFINE n == r.to
<1>0. ForwardInv /\ RepliesInv /\ FiniteInv /\ OverInv /\ CacheIsUnacknowledged
  BY DEF CacheInv
<1>1. n \in Server /\ r.size \in Int
  BY <1>0 DEF ForwardInv, TypeOK
<1>2. /\ replies' = replies \ {r} /\ Count(n, Less(cache_count[n], r.size))
      /\ UNCHANGED <<sent, pushing, queue, net>>
  BY DEF ProcessRecvReplyCommand
<1>3. \A u : Queued(u)' = Queued(u) /\ Carried(u)' = Carried(u)
  BY <1>2 DEF Queued, Carried
<1>4. RepliesInv'
  <2>1. \A m, h : GoneBy(m, h) => GoneBy(m, h)'
    BY <1>2 DEF GoneBy
  <2>2. \A z \in replies' : z.msg <= sent'
    BY <1>0, <1>2 DEF RepliesInv
  <2>3. \A z \in net' : GoneBy(z.msg, z.hops)' /\ (z.key => SizeOf(z) >= size_msg_report)
    BY <1>0, <1>2, <2>1 DEF RepliesInv
  <2>4. \A u \in Server : \A z \in Queued(u)' : GoneBy(z.msg, z.hops)'
    BY <1>0, <1>3, <2>1 DEF RepliesInv
  <2>5. \A z \in pushing' : Head(z.hops) # z.at => GoneBy(z.msg, z.hops)'
    BY <1>0, <1>2, <2>1 DEF RepliesInv
  <2> QED
    BY <2>2, <2>3, <2>4, <2>5 DEF RepliesInv, SizeOf
<1>5. FiniteInv'
  <2>1. IsFiniteSet(replies')
    BY <1>0, <1>2, FS_Subset DEF FiniteInv
  <2> QED
    BY <1>0, <1>2, <1>3, <2>1 DEF FiniteInv
<1>6. CacheIsUnacknowledged'
  <2> SUFFICES ASSUME AllSmall', NEW u \in Server \ over' PROVE Balanced(u)'
    BY BalancedFacts
  <2>0. u \in Server \ over
    BY OverStep DEF Next, Forward
  <2>1. Balanced(u)
    BY <2>0, <1>0, <1>2, BalancedFacts DEF AllSmall
  <2>2. /\ IsFiniteSet(Due(u)) /\ \A z \in Due(u) : z.size \in Int
        /\ Bytes(Queued(u)) \in Int /\ Bytes(Carried(u)) \in Int /\ cache_count \in [Server -> Int]
    BY <1>0, Totals
  <2>3. CASE u # n
    <3>1. cache_count'[u] = cache_count[u] /\ Due(u)' = Due(u)
      BY <2>2, <2>3, <1>2 DEF Count, Due
    <3> QED
      BY <3>1, <2>1, <1>3, StaysBalanced
  <2>4. CASE u = n
    <3>2. Due(u)' = Due(u) \ {r} /\ r \in Due(u)
      BY <2>4, <1>2 DEF Due
    <3>3. Acknowledged(Due(u)) = r.size + Acknowledged(Due(u) \ {r})
      BY <2>2, <3>2, AcknowledgedStep
    <3>4. Acknowledged(Due(u) \ {r}) \in Int
      <4>1. IsFiniteSet(Due(u) \ {r}) /\ \A z \in Due(u) \ {r} : z.size \in Int
        BY <2>2, FS_Subset
      <4> QED
        BY <4>1, AcknowledgedStep
    <3>5. cache_count[u] = Bytes(Queued(u)) + Bytes(Carried(u)) + Acknowledged(Due(u))
      BY <2>1 DEF Balanced
    <3>6. cache_count[u] - r.size
            = Bytes(Queued(u)) + Bytes(Carried(u)) + Acknowledged(Due(u) \ {r})
      BY <2>2, <3>3, <3>4, <3>5, <1>1
    <3>7. /\ Bytes(Queued(u))' = Bytes(Queued(u)) /\ Bytes(Carried(u))' = Bytes(Carried(u))
          /\ Acknowledged(Due(u))' = Acknowledged(Due(u) \ {r})
      BY <3>2, <1>3
    <3>8. 0 <= r.size /\ r.size <= cache_count[u]
      <4>1. \A z \in replies : z.size \in Nat
        BY <1>0 DEF ForwardInv, TypeOK
      <4>2. Acknowledged(Due(u) \ {r}) >= 0
        <5>1. IsFiniteSet(Due(u) \ {r}) /\ \A z \in Due(u) \ {r} : z.size \in Nat
          BY <2>2, <4>1, FS_Subset DEF Due
        <5> QED
          BY <5>1, AcknowledgedNat
      <4>3. Bytes(Queued(u)) >= 0 /\ Bytes(Carried(u)) >= 0
        BY <1>0, TotalsNat
      <4>4. r.size \in Nat
        BY <4>1
      <4> QED
        BY <4>2, <4>3, <4>4, <2>2, <3>4, <3>6, <1>1
    <3>9. cache_count[u] <= Precision /\ cache_count[u] \in Int
      BY <1>0, <2>0, <2>2 DEF OverInv
    <3>10. cache_count'[u] = Less(cache_count[u], r.size)
      BY <2>2, <2>4, <1>1, <1>2 DEF Count
    <3>1. cache_count'[u] = cache_count[u] - r.size
      BY <3>8, <3>9, <3>10, <1>1, LessFacts
    <3> QED
      BY <3>1, <3>6, <3>7 DEF Balanced
  <2> QED
    BY <2>3, <2>4
<1> QED
  BY <1>4, <1>5, <1>6


\* The hops after the first are hops.
LEMMA TailHops ==
    ASSUME NEW h \in Seq(Server), h # <<>>
    PROVE  Head(h) \in ToSet(h) /\ ToSet(Tail(h)) \subseteq ToSet(h)
<1>1. Len(h) \in Nat /\ Len(h) > 0 /\ DOMAIN h = 1..Len(h)
  BY LenProperties, EmptySeq
<1>2. /\ Tail(h) \in Seq(Server) /\ Len(Tail(h)) = Len(h) - 1
      /\ \A i \in 1..Len(Tail(h)) : Tail(h)[i] = h[i + 1]
  BY HeadTailProperties
<1>3. DOMAIN Tail(h) = 1..(Len(h) - 1)
  BY <1>2, LenProperties
<1>4. \A i \in 1..(Len(h) - 1) : Tail(h)[i] = h[i + 1] /\ i + 1 \in 1..Len(h)
  BY <1>1, <1>2
<1>5. 1 \in 1..Len(h) /\ Head(h) = h[1]
  BY <1>1
<1> QED
  BY <1>1, <1>3, <1>4, <1>5 DEF ToSet

\* What has come off the wire is acknowledged.
LEMMA ReceiveCache ==
    ASSUME CacheInv, NEW x \in net, Receive(x)
    PROVE  RepliesInv' /\ FiniteInv' /\ CacheIsUnacknowledged'
<1> DEFINE n == Head(x.hops)
           t == Traffic[x.msg]
           h == IF t.dst = n THEN x.hops ELSE Tail(x.hops)
           p == [msg |-> x.msg, at |-> n, hops |-> h]
           r == [msg |-> x.msg, from |-> n, to |-> x.from, size |-> t.size]
<1>0. ForwardInv /\ RepliesInv /\ FiniteInv /\ OverInv /\ CacheIsUnacknowledged
  BY DEF CacheInv
<1>1. /\ x.msg \in Msg /\ x.from \in Server /\ x.hops \in Seq(Server) /\ UnderWay(x, sent)
  BY <1>0 DEF ForwardInv, TypeOK, HopsInv
<1>2. OnPath(x.hops, x.msg) /\ x.hops # <<>> /\ x.msg <= sent
  BY <1>1 DEF UnderWay, OnPath
<1>3. /\ n \in Server /\ (t.dst # n => n \notin ToSet(Tail(x.hops)))
      /\ n \in ToSet(x.hops) /\ ToSet(Tail(x.hops)) \subseteq ToSet(x.hops)
  BY <1>1, <1>2, HopOn, TailHops
<1>4. /\ net' = net \ {x} /\ UNCHANGED <<sent, queue>>
      /\ pushing' = pushing \/ pushing' = pushing \cup {p}
      /\ RecvReply(n, x)
  BY DEF Receive, AfterHop
<1>5. /\ replies' = replies \/ replies' = replies \cup {r}
      /\ ~ x.key => replies' = replies \cup {r} /\ cache_count' = cache_count
  BY <1>4 DEF RecvReply, accounts
<1>6. /\ r.msg = x.msg /\ r.from = n /\ r.to = x.from /\ r.size = SizeOf(x)
      /\ p.msg = x.msg /\ p.at = n /\ p.hops = h
  BY DEF SizeOf
<1>7. GoneBy(x.msg, x.hops)
  BY <1>0 DEF RepliesInv
<1>8. /\ \A z \in net : z.msg = x.msg => z = x
      /\ \A z \in pushing : z.msg # x.msg
      /\ \A u, v \in Server : \A i \in DOMAIN queue[u][v] : queue[u][v][i].msg # x.msg
  BY <1>0, OnlyCarried
<1>9. \A u \in Server : \A z \in Queued(u) : z.msg # x.msg
  <2>1. \A u : Queued(u) = QueuedIn(queue, u)
    BY DEF Queued, QueuedIn
  <2> QED
    BY <2>1, <1>8, QueuedFacts
<1>10. \A u : Queued(u)' = Queued(u)
  BY <1>4 DEF Queued
<1>11. t.size \in Int /\ SizeOf(x) = t.size
  BY <1>1, TrafficFacts DEF SizeOf
<1>12. (Head(h) # n) => GoneBy(x.msg, h) /\ n \notin ToSet(h)
  BY <1>3, <1>7 DEF GoneBy
<1> HIDE DEF n, t, h, p, r
<1>13. RepliesInv'
  <2>1. \A m, g : m # x.msg /\ GoneBy(m, g) => GoneBy(m, g)'
    BY <1>5, <1>6 DEF GoneBy
  <2>2. \A z \in replies' : z.msg <= sent'
    BY <1>0, <1>2, <1>4, <1>5, <1>6 DEF RepliesInv
  <2>3. \A z \in net' : GoneBy(z.msg, z.hops)' /\ (z.key => SizeOf(z) >= size_msg_report)
    <3> TAKE z \in net'
    <3>1. z \in net /\ z.msg # x.msg
      BY <1>4, <1>8
    <3> QED
      BY <3>1, <2>1, <1>0 DEF RepliesInv
  <2>4. \A u \in Server : \A z \in Queued(u)' : GoneBy(z.msg, z.hops)'
    BY <1>0, <1>9, <1>10, <2>1 DEF RepliesInv
  <2>5. ASSUME NEW z \in pushing', Head(z.hops) # z.at PROVE GoneBy(z.msg, z.hops)'
    <3>1. CASE z \in pushing
      BY <3>1, <2>1, <2>5, <1>0, <1>8 DEF RepliesInv
    <3>2. CASE z = p
      <4>1. GoneBy(x.msg, h) /\ n \notin ToSet(h)
        BY <3>2, <2>5, <1>6, <1>12
      <4>2. GoneBy(x.msg, h)'
        BY <4>1, <1>5, <1>6 DEF GoneBy
      <4> QED
        BY <4>2, <3>2, <1>6
    <3> QED
      BY <3>1, <3>2, <2>5, <1>4
  <2> QED
    BY <2>2, <2>3, <2>4, <2>5 DEF RepliesInv, SizeOf
<1>14. FiniteInv'
  <2>1. IsFiniteSet(net')
    BY <1>0, <1>4, FS_Subset DEF FiniteInv
  <2>2. IsFiniteSet(replies')
    BY <1>0, <1>5, FS_AddElement DEF FiniteInv
  <2> QED
    BY <1>0, <1>10, <2>1, <2>2 DEF FiniteInv
<1>15. CacheIsUnacknowledged'
  <2> SUFFICES ASSUME AllSmall', NEW u \in Server \ over' PROVE Balanced(u)'
    BY BalancedFacts
  <2>0. u \in Server \ over
    BY OverStep DEF Next, Forward
  <2>1. Balanced(u) /\ AllSmall
    BY <2>0, <1>0, <1>4, BalancedFacts DEF AllSmall
  <2>2. /\ IsFiniteSet(Carried(u)) /\ \A z \in Carried(u) : SizeOf(z) \in Int
        /\ IsFiniteSet(Due(u)) /\ \A z \in Due(u) : z.size \in Int
        /\ Bytes(Queued(u)) \in Int /\ Acknowledged(Due(u)) \in Int
    BY <1>0, Totals
  <2>3. replies' = replies \cup {r} /\ cache_count' = cache_count
    <3>1. x.msg \in 1..sent
      BY <1>0, <1>1, <1>2, TrafficFacts DEF ForwardInv, TypeOK
    <3>2. SizeOf(x) < size_msg_report
      BY <3>1, <2>1 DEF AllSmall, SizeOf
    <3>3. size_msg_report \in Int
      BY ForwardingAssumption
    <3>4. x.key => SizeOf(x) >= size_msg_report
      BY <1>0 DEF RepliesInv
    <3>5. ~ (SizeOf(x) >= size_msg_report)
      BY <3>2, <3>3, <1>11
    <3> QED
      BY <3>4, <3>5, <1>5
  <2>4. r \notin replies
    BY <1>3, <1>6, <1>7 DEF GoneBy
  <2>5. CASE u # x.from
    <3>1. Carried(u)' = Carried(u) /\ Due(u)' = Due(u)
      BY <2>3, <2>5, <1>4, <1>6 DEF Carried, Due
    <3> QED
      BY <3>1, <2>1, <2>3, <1>10, StaysBalanced
  <2>6. CASE u = x.from
    <3>1. Carried(u)' = Carried(u) \ {x} /\ x \in Carried(u)
      BY <2>6, <1>4 DEF Carried
    <3>2. Due(u)' = Due(u) \cup {r} /\ r \notin Due(u)
      BY <2>3, <2>4, <2>6, <1>6 DEF Due
    <3>3. Bytes(Carried(u)) = SizeOf(x) + Bytes(Carried(u) \ {x})
      BY <2>2, <3>1, BytesStep
    <3>4. Bytes(Carried(u) \ {x}) \in Int
      <4>1. IsFiniteSet(Carried(u) \ {x}) /\ \A z \in Carried(u) \ {x} : SizeOf(z) \in Int
        BY <2>2, FS_Subset
      <4> QED
        BY <4>1, BytesStep
    <3>5. Acknowledged(Due(u) \cup {r}) = SizeOf(x) + Acknowledged(Due(u))
      <4>1. r.size \in Int /\ r.size = SizeOf(x)
        BY <1>6, <1>11
      <4>2. Acknowledged(Due(u) \cup {r}) = r.size + Acknowledged(Due(u))
        BY <2>2, <3>2, <4>1, AcknowledgedMore
      <4> QED
        BY <4>1, <4>2
    <3>6. cache_count[u] = Bytes(Queued(u)) + Bytes(Carried(u)) + Acknowledged(Due(u))
      BY <2>1 DEF Balanced
    <3> DEFINE a == SizeOf(x)
               b == Bytes(Queued(u))
               c == Bytes(Carried(u) \ {x})
               d == Acknowledged(Due(u))
    <3>7. \A i, j, l, m \in Int : j + (i + l) + m = j + l + (i + m)
      OBVIOUS
    <3>8. b + (a + c) + d = b + c + (a + d)
      <4>1. a \in Int /\ b \in Int /\ c \in Int /\ d \in Int
        BY <2>2, <3>4, <1>11
      <4> HIDE DEF a, b, c, d
      <4> QED
        BY <4>1, <3>7
    <3>9. /\ Bytes(Queued(u))' = b /\ Bytes(Carried(u))' = c
          /\ Acknowledged(Due(u))' = a + d
      BY <3>1, <3>2, <3>5, <1>10
    <3>10. cache_count[u] = b + (a + c) + d
      BY <3>3, <3>6
    <3>11. cache_count'[u] = Bytes(Queued(u))' + Bytes(Carried(u))' + Acknowledged(Due(u))'
      BY <3>8, <3>9, <3>10, <2>3
    <3> QED
      BY <3>11 DEF Balanced
  <2> QED
    BY <2>5, <2>6
<1> QED
  BY <1>13, <1>14, <1>15

\* Steps that neither queue, carry nor acknowledge anything.
LEMMA QuietCache ==
    ASSUME CacheInv, sent \in Nat, sent' \in Nat, sent <= sent',
           UNCHANGED <<queue, net, replies, cache_count, over>>,
           \A p \in pushing' : p \in pushing \/ p.msg > sent
    PROVE  RepliesInv' /\ FiniteInv' /\ CacheIsUnacknowledged'
<1>0. ForwardInv /\ RepliesInv /\ FiniteInv /\ OverInv /\ CacheIsUnacknowledged
  BY DEF CacheInv
<1>1. \A u : Queued(u)' = Queued(u) /\ Carried(u)' = Carried(u) /\ Due(u)' = Due(u)
  BY DEF Queued, Carried, Due
<1>2. \A r \in replies : r.msg \in Nat /\ r.msg <= sent
  BY <1>0, TrafficFacts DEF RepliesInv, ForwardInv, TypeOK
<1>3. RepliesInv'
  <2>1. \A m, h : GoneBy(m, h)' <=> GoneBy(m, h)
    BY DEF GoneBy
  <2>2. \A r \in replies' : r.msg <= sent'
    BY <1>2
  <2>3. \A z \in net' : GoneBy(z.msg, z.hops)' /\ (z.key => SizeOf(z) >= size_msg_report)
    BY <1>0, <2>1 DEF RepliesInv
  <2>4. \A u \in Server : \A z \in Queued(u)' : GoneBy(z.msg, z.hops)'
    BY <1>0, <1>1, <2>1 DEF RepliesInv
  <2>5. ASSUME NEW p \in pushing', Head(p.hops) # p.at PROVE GoneBy(p.msg, p.hops)'
    <3>1. CASE p \in pushing
      BY <3>1, <2>1, <2>5, <1>0 DEF RepliesInv
    <3>2. CASE p.msg > sent
      <4>1. \A r \in replies : r.msg # p.msg
        BY <3>2, <1>2
      <4> QED
        BY <4>1, <2>1 DEF GoneBy
    <3> QED
      BY <3>1, <3>2, <2>5
  <2> QED
    BY <2>2, <2>3, <2>4, <2>5 DEF RepliesInv, SizeOf
<1>4. FiniteInv'
  BY <1>0, <1>1 DEF FiniteInv
<1>5. CacheIsUnacknowledged'
  <2> SUFFICES ASSUME AllSmall', NEW u \in Server \ over' PROVE Balanced(u)'
    BY BalancedFacts
  <2>0. u \in Server \ over
    OBVIOUS
  <2>1. \A m \in 1..sent : m \in 1..sent'
    OBVIOUS
  <2>2. AllSmall
    BY <2>1 DEF AllSmall
  <2>3. Balanced(u)
    BY <1>0, <2>0, <2>2, BalancedFacts
  <2> QED
    BY <2>3, <1>1, StaysBalanced
<1> QED
  BY <1>3, <1>4, <1>5

LEMMA InitialCache == Init => CacheInv
<1> SUFFICES ASSUME Init PROVE CacheInv
  OBVIOUS
<1>1. ForwardInv
  BY InitialForward
<1>2. net = {} /\ replies = {} /\ pushing = {} /\ cache_count = [n \in Server |-> 0]
  BY DEF Init
<1>3. \A n \in Server : Queued(n) = {} /\ Carried(n) = {} /\ Due(n) = {}
  <2>1. \A n \in Server : Queued(n) = {}
    <3>1. \A n \in Server : Queued(n) = QueuedIn(queue, n)
      BY DEF Queued, QueuedIn
    <3>2. \A n, k \in Server : DOMAIN queue[n][k] = {}
      BY DEF Init
    <3> QED
      BY <3>1, <3>2, QueuedFacts
  <2> QED
    BY <2>1, <1>2 DEF Carried, Due
<1>4. RepliesInv
  BY <1>2, <1>3 DEF RepliesInv
<1>5. FiniteInv
  BY <1>2, <1>3, FS_EmptySet DEF FiniteInv
<1>6. CacheIsUnacknowledged
  <2>1. \A n \in Server \ over : Balanced(n)
    BY <1>2, <1>3, SumsOfNothing DEF Balanced
  <2> QED
    BY <2>1, BalancedFacts
<1>7. OverInv
  BY <1>2, PrecisionAssumption DEF OverInv
<1> QED
  BY <1>1, <1>4, <1>5, <1>6, <1>7 DEF CacheInv

LEMMA NextCache == CacheInv /\ [Next]_vars => CacheInv'
<1> SUFFICES ASSUME CacheInv, [Next]_vars PROVE CacheInv'
  OBVIOUS
<1>0. ForwardInv /\ ForwardInv' /\ sent \in Nat /\ sent' \in Nat
  <2>1. ForwardInv /\ ForwardInv'
    BY NextForward DEF CacheInv
  <2>2. sent \in 0..Len(Traffic) /\ sent' \in 0..Len(Traffic) /\ Len(Traffic) \in Nat
    BY <2>1, TrafficFacts DEF ForwardInv, TypeOK
  <2> QED
    BY <2>1, <2>2
<1> SUFFICES RepliesInv' /\ FiniteInv' /\ CacheIsUnacknowledged'
  BY <1>0, OverStep DEF CacheInv
<1>1. CASE \E p \in pushing : QueuePush(p)
  BY <1>1, PushCache
<1>2. CASE \E n, k \in Server : \E i \in DOMAIN queue[n][k] : Sending(n, k, i)
  BY <1>2, SentCache
<1>3. CASE \E x \in net : Receive(x)
  BY <1>3, ReceiveCache
<1>4. CASE \E r \in replies : ProcessRecvReplyCommand(r)
  BY <1>4, ReplyCache
<1>5. ASSUME NEW m \in Msg, Send(m) PROVE RepliesInv' /\ FiniteInv' /\ CacheIsUnacknowledged'
  <2> DEFINE p == [msg |-> m, at |-> Traffic[m].src, hops |-> PathFor(Traffic[m].src, Traffic[m].dst)]
  <2>1. /\ sent' = sent + 1 /\ m = sent + 1 /\ pushing' = pushing \cup {p}
        /\ UNCHANGED <<queue, net, replies, cache_count, over>>
    BY <1>5 DEF Send, accounts
  <2>2. p.msg = m
    OBVIOUS
  <2> HIDE DEF p
  <2>3. sent <= sent' /\ \A z \in pushing' : z \in pushing \/ z.msg > sent
    BY <2>1, <2>2, <1>0
  <2> QED
    BY <2>1, <2>3, <1>0, QuietCache
<1>6. ASSUME NEW n \in Server, NEW table \in RouteTables, ProcessRouteRelease(n, table)
      PROVE  RepliesInv' /\ FiniteInv' /\ CacheIsUnacknowledged'
  <2>1. UNCHANGED <<sent, pushing, queue, net, replies, cache_count, over>>
    BY <1>6 DEF ProcessRouteRelease, accounts
  <2>2. sent <= sent'
    BY <2>1, <1>0
  <2> QED
    BY <2>1, <2>2, <1>0, QuietCache
<1>7. CASE UNCHANGED vars
  <2>1. UNCHANGED <<sent, pushing, queue, net, replies, cache_count, over>>
    BY <1>7 DEF vars
  <2>2. sent <= sent'
    BY <2>1, <1>0
  <2> QED
    BY <2>1, <2>2, <1>0, QuietCache
<1> QED
  BY <1>1, <1>2, <1>3, <1>4, <1>5, <1>6, <1>7 DEF Next, Forward

\* For any servers, routes and traffic, cache_count of Van::Push, RecvReply and
\* ProcessRecvReplyCommand is what is queued, carried and not yet acknowledged, as
\* long as no message is large enough to be settled by its receiver and until the
\* count is first above what a float holds exactly.
THEOREM CacheIsUnacknowledgedHolds == Spec => []CacheIsUnacknowledged
<1>1. CacheInv => CacheIsUnacknowledged
  BY DEF CacheInv
<1> QED
  BY <1>1, InitialCache, NextCache, PTL DEF Spec
============================================================================
