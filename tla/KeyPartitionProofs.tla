-------------------------- MODULE KeyPartitionProofs --------------------------
(***************************************************************************)
(* How workers divide their arrays, for every number of workers, servers   *)
(* and arrays, all sizes and every sequence of policies: they agree, keys  *)
(* are not shared and the load follows the policy.                         *)
(***************************************************************************)
EXTENDS KeyPartition, FiniteSetTheorems, WellFoundedInduction, TLAPS

-----------------------------------------------------------------------------
(* Induction. *)

\* Induction, for a set of numbers.
LEMMA NumberInduction ==
    ASSUME NEW T, 0 \in T, \A n \in Nat : n \in T => n + 1 \in T
    PROVE  \A n \in Nat : n \in T
<1> SUFFICES ASSUME NEW n \in Nat, n \notin T PROVE FALSE
  OBVIOUS
<1> DEFINE R == OpToRel(<, Nat)
           U == {m \in Nat : m \notin T}
<1>1. IsWellFoundedOn(R, Nat)
  BY NatLessThanWellFounded
<1>2. \A i, j \in Nat : i < j => <<i, j>> \in R
  BY DEF OpToRel
<1> HIDE DEF R
<1>3. PICK m \in U : \A k \in U : ~ (<<k, m>> \in R)
  <2>1. U \subseteq Nat /\ U # {}
    OBVIOUS
  <2> HIDE DEF U
  <2> QED
    BY <1>1, <2>1, WFMin
<1>4. m \in Nat /\ m \notin T /\ m # 0
  OBVIOUS
<1>5. m - 1 \in Nat /\ <<m - 1, m>> \in R
  BY <1>2, <1>4
<1>6. m - 1 \in T
  BY <1>3, <1>5
<1>7. (m - 1) + 1 = m
  BY <1>4
<1> QED
  BY <1>4, <1>5, <1>6, <1>7

-----------------------------------------------------------------------------
(* Sums. *)

Any(s) == CHOOSE x \in s : TRUE

\* g gives the sums of f over the sets of D.
SumsOn(f, D, g) == g = [s \in D |-> IF s = {} THEN 0 ELSE f[Any(s)] + g[s \ {Any(s)}]]

\* ... over all subsets of S.
Sums(f, S, g) == SumsOn(f, SUBSET S, g)

LEMMA AnyElement ==
    ASSUME NEW s, s # {}
    PROVE  Any(s) \in s
BY DEF Any

\* Sums are there for all subsets of a finite set: from those of some size
\* follow those of the next.
LEMMA SumsExist ==
    ASSUME NEW f, NEW S, IsFiniteSet(S)
    PROVE  \E g : Sums(f, S, g)
<1> DEFINE D(n) == {s \in SUBSET S : Cardinality(s) <= n}
           T == {n \in Nat : \E g : SumsOn(f, D(n), g)}
<1>1. \A s \in SUBSET S : /\ IsFiniteSet(s) /\ Cardinality(s) \in Nat
                          /\ Cardinality(s) <= Cardinality(S)
                          /\ s # {} => Cardinality(s \ {Any(s)}) = Cardinality(s) - 1
  <2> TAKE s \in SUBSET S
  <2>1. IsFiniteSet(s) /\ Cardinality(s) <= Cardinality(S)
    BY FS_Subset
  <2>2. Cardinality(s) \in Nat
    BY <2>1, FS_CardinalityType
  <2>3. s # {} => Cardinality(s \ {Any(s)}) = Cardinality(s) - 1
    BY <2>1, AnyElement, FS_RemoveElement
  <2> QED
    BY <2>1, <2>2, <2>3
<1>2. 0 \in T
  <2> DEFINE g == [s \in D(0) |-> 0]
  <2>1. \A s \in D(0) : s = {}
    <3> TAKE s \in D(0)
    <3>1. s \in SUBSET S /\ Cardinality(s) <= 0
      OBVIOUS
    <3>2. IsFiniteSet(s) /\ Cardinality(s) \in Nat
      BY <1>1, <3>1
    <3>3. Cardinality(s) = 0
      BY <3>1, <3>2
    <3> QED
      BY <3>2, <3>3, FS_EmptySet
  <2>2. SumsOn(f, D(0), g)
    <3> HIDE DEF D
    <3> QED
      BY <2>1 DEF SumsOn
  <2> HIDE DEF D, g
  <2> QED
    BY <2>2
<1>3. ASSUME NEW n \in Nat, n \in T PROVE n + 1 \in T
  <2>1. PICK g : SumsOn(f, D(n), g)
    BY <1>3
  <2> DEFINE h == [s \in D(n + 1) |-> IF s = {} THEN 0 ELSE f[Any(s)] + g[s \ {Any(s)}]]
  <2>2. \A s \in D(n) : h[s] = g[s]
    <3>1. \A s \in D(n) : s \in D(n + 1)
      <4> TAKE s \in D(n)
      <4>1. s \in SUBSET S /\ Cardinality(s) <= n /\ Cardinality(s) \in Nat
        BY <1>1
      <4>2. Cardinality(s) <= n + 1
        BY <4>1
      <4> QED
        BY <4>1, <4>2
    <3> HIDE DEF D
    <3> QED
      BY <2>1, <3>1 DEF SumsOn
  <2>3. \A s \in D(n + 1) : s # {} => s \ {Any(s)} \in D(n)
    BY <1>1
  <2>4. SumsOn(f, D(n + 1), h)
    <3> HIDE DEF D
    <3>1. \A s \in D(n + 1) : h[s] = IF s = {} THEN 0 ELSE f[Any(s)] + h[s \ {Any(s)}]
      BY <2>2, <2>3
    <3>2. h = [s \in D(n + 1) |-> h[s]]
      OBVIOUS
    <3> HIDE DEF h
    <3> QED
      BY <3>1, <3>2 DEF SumsOn
  <2> HIDE DEF D, h
  <2> QED
    BY <2>4
<1>4. Cardinality(S) \in Nat /\ D(Cardinality(S)) = SUBSET S
  BY <1>1
<1> HIDE DEF D
<1>5. \A n \in Nat : n \in T
  <2> HIDE DEF T
  <2> QED
    BY <1>2, <1>3, NumberInduction
<1> QED
  BY <1>4, <1>5 DEF Sums

\* The sum over a set is that of its sums.
LEMMA SumIsASum ==
    ASSUME NEW f, NEW S, IsFiniteSet(S)
    PROVE  \E g : Sums(f, S, g) /\ SumFunctionOnSet(f, S) = g[S]
<1> DEFINE g == CHOOSE g : Sums(f, S, g)
<1>1. Sums(f, S, g)
  BY SumsExist
<1>2. SumFunctionOnSet(f, S) = g[S]
  BY DEF SumFunctionOnSet, FoldFunctionOnSet, MapThenFoldSet, Sums, SumsOn, Any
<1> QED
  BY <1>1, <1>2

\* Induction over the subsets of a finite set.
LEMMA SubsetInduction ==
    ASSUME NEW S, IsFiniteSet(S), NEW P, {} \in P,
           \A s \in SUBSET S, x \in S : s \in P /\ x \notin s => s \union {x} \in P
    PROVE  \A s \in SUBSET S : s \in P
<1> DEFINE T == {n \in Nat : \A s \in SUBSET S : Cardinality(s) = n => s \in P}
<1>1. \A s \in SUBSET S : IsFiniteSet(s) /\ Cardinality(s) \in Nat
  BY FS_Subset, FS_CardinalityType
<1>2. 0 \in T
  BY <1>1, FS_EmptySet
<1>3. ASSUME NEW n \in Nat, n \in T PROVE n + 1 \in T
  <2> SUFFICES ASSUME NEW s \in SUBSET S, Cardinality(s) = n + 1 PROVE s \in P
    OBVIOUS
  <2>1. s # {}
    BY FS_EmptySet
  <2>2. PICK x \in s : TRUE
    BY <2>1
  <2>3. Cardinality(s \ {x}) = Cardinality(s) - 1
    BY <1>1, <2>2, FS_RemoveElement
  <2>4. Cardinality(s \ {x}) = n
    BY <2>3
  <2>5. s \ {x} \in P /\ s \ {x} \in SUBSET S
    BY <2>4, <1>3
  <2>6. (s \ {x}) \union {x} = s
    OBVIOUS
  <2>7. (s \ {x}) \union {x} \in P
    BY <2>5
  <2> QED
    BY <2>6, <2>7
<1>4. \A n \in Nat : n \in T
  <2> HIDE DEF T
  <2> QED
    BY <1>2, <1>3, NumberInduction
<1> QED
  BY <1>1, <1>4

\* Sums are numbers.
LEMMA SumsType ==
    ASSUME NEW N, N = Nat \/ N = Int, NEW f, NEW S, IsFiniteSet(S),
           \A x \in S : f[x] \in N, NEW g, Sums(f, S, g)
    PROVE  \A s \in SUBSET S : g[s] \in N
<1> DEFINE T == {n \in Nat : \A s \in SUBSET S : Cardinality(s) = n => g[s] \in N}
<1>1. \A s \in SUBSET S : IsFiniteSet(s) /\ Cardinality(s) \in Nat
  BY FS_Subset, FS_CardinalityType
<1>2. \A s \in SUBSET S : g[s] = IF s = {} THEN 0 ELSE f[Any(s)] + g[s \ {Any(s)}]
  BY DEF Sums, SumsOn
<1>3. 0 \in T
  <2>1. \A s \in SUBSET S : Cardinality(s) = 0 => s = {}
    BY <1>1, FS_EmptySet
  <2>2. 0 \in N
    OBVIOUS
  <2> QED
    BY <2>1, <2>2, <1>2
<1>4. ASSUME NEW n \in Nat, n \in T PROVE n + 1 \in T
  <2> SUFFICES ASSUME NEW s \in SUBSET S, Cardinality(s) = n + 1 PROVE g[s] \in N
    OBVIOUS
  <2>0. n + 1 # 0
    OBVIOUS
  <2>1. s # {}
    BY <2>0, FS_EmptySet
  <2> DEFINE x == Any(s)
  <2>2. x \in s
    BY <2>1, AnyElement
  <2> HIDE DEF x
  <2>3. Cardinality(s \ {x}) = (n + 1) - 1
    BY <2>2, <1>1, FS_RemoveElement
  <2>4. Cardinality(s \ {x}) = n
    BY <2>3
  <2>5. g[s \ {x}] \in N
    BY <2>4, <1>4
  <2>6. g[s] = f[x] + g[s \ {x}]
    BY <2>1, <1>2 DEF x
  <2>7. f[x] \in N
    BY <2>2
  <2> QED
    BY <2>5, <2>6, <2>7
<1>5. \A n \in Nat : n \in T
  <2> HIDE DEF T
  <2> QED
    BY <1>3, <1>4, NumberInduction
<1> QED
  BY <1>1, <1>5

\* It does not matter which element is taken first.
LEMMA SumsStep ==
    ASSUME NEW f, NEW S, IsFiniteSet(S), \A x \in S : f[x] \in Int,
           NEW g, Sums(f, S, g)
    PROVE  \A x \in S : g[S] = f[x] + g[S \ {x}]
<1> DEFINE T == {n \in Nat : \A s \in SUBSET S : Cardinality(s) = n =>
                                \A x \in s : g[s] = f[x] + g[s \ {x}]}
<1>1. \A s \in SUBSET S : IsFiniteSet(s) /\ Cardinality(s) \in Nat
  BY FS_Subset, FS_CardinalityType
<1>2. \A s \in SUBSET S : g[s] = IF s = {} THEN 0 ELSE f[Any(s)] + g[s \ {Any(s)}]
  BY DEF Sums, SumsOn
<1>3. \A s \in SUBSET S : g[s] \in Int
  BY SumsType
<1>4. 0 \in T
  BY <1>1, FS_EmptySet
<1>5. ASSUME NEW n \in Nat, n \in T PROVE n + 1 \in T
  <2> SUFFICES ASSUME NEW s \in SUBSET S, Cardinality(s) = n + 1, NEW x \in s
               PROVE  g[s] = f[x] + g[s \ {x}]
    OBVIOUS
  <2> DEFINE y == Any(s)
  <2>1. y \in s
    BY AnyElement
  <2>2. g[s] = f[y] + g[s \ {y}]
    BY <1>2
  <2> HIDE DEF y
  <2>3. CASE x = y
    BY <2>2, <2>3
  <2>4. CASE x # y
    <3>1. Cardinality(s \ {y}) = (n + 1) - 1 /\ Cardinality(s \ {x}) = (n + 1) - 1
      BY <2>1, <1>1, FS_RemoveElement
    <3>2. Cardinality(s \ {y}) = n /\ Cardinality(s \ {x}) = n
      BY <3>1
    <3> DEFINE r == (s \ {y}) \ {x}
    <3>3. g[s \ {y}] = f[x] + g[r]
      BY <2>4, <3>2, <1>5
    <3>4. r = (s \ {x}) \ {y} /\ r \in SUBSET S
      OBVIOUS
    <3>5. g[s \ {x}] = f[y] + g[(s \ {x}) \ {y}]
      BY <2>1, <2>4, <3>2, <1>5
    <3>6. g[s \ {x}] = f[y] + g[r]
      BY <3>4, <3>5
    <3> HIDE DEF r
    <3>7. g[r] \in Int /\ f[x] \in Int /\ f[y] \in Int
      BY <1>3, <2>1, <3>4
    <3>8. \A a, b, c \in Int : a + (b + c) = b + (a + c)
      OBVIOUS
    <3>9. f[y] + (f[x] + g[r]) = f[x] + (f[y] + g[r])
      BY <3>7, <3>8
    <3> QED
      BY <2>2, <3>3, <3>6, <3>9
  <2> QED
    BY <2>3, <2>4
<1>6. \A n \in Nat : n \in T
  <2> HIDE DEF T
  <2> QED
    BY <1>4, <1>5, NumberInduction
<1>7. Cardinality(S) \in T
  BY <1>1, <1>6
<1> QED
  BY <1>7

\* Only the values that are added matter.
LEMMA SumsAgree ==
    ASSUME NEW f, NEW S, IsFiniteSet(S), NEW g, Sums(f, S, g),
           NEW e, NEW R, R \subseteq S, NEW h, Sums(e, R, h),
           \A x \in R : f[x] = e[x]
    PROVE  \A s \in SUBSET R : g[s] = h[s]
<1> DEFINE T == {n \in Nat : \A s \in SUBSET R : Cardinality(s) = n => g[s] = h[s]}
<1>1. \A s \in SUBSET R : IsFiniteSet(s) /\ Cardinality(s) \in Nat
  BY FS_Subset, FS_CardinalityType
<1>2. \A s \in SUBSET S : g[s] = IF s = {} THEN 0 ELSE f[Any(s)] + g[s \ {Any(s)}]
  BY DEF Sums, SumsOn
<1>3. \A s \in SUBSET R : h[s] = IF s = {} THEN 0 ELSE e[Any(s)] + h[s \ {Any(s)}]
  BY DEF Sums, SumsOn
<1>4. 0 \in T
  BY <1>1, <1>2, <1>3, FS_EmptySet
<1>5. ASSUME NEW n \in Nat, n \in T PROVE n + 1 \in T
  <2> SUFFICES ASSUME NEW s \in SUBSET R, Cardinality(s) = n + 1 PROVE g[s] = h[s]
    OBVIOUS
  <2>1. s # {}
    BY FS_EmptySet
  <2> DEFINE x == Any(s)
  <2>2. x \in s
    BY <2>1, AnyElement
  <2>3. g[s] = f[x] + g[s \ {x}] /\ h[s] = e[x] + h[s \ {x}]
    BY <2>1, <1>2, <1>3
  <2> HIDE DEF x
  <2>4. Cardinality(s \ {x}) = (n + 1) - 1
    BY <2>2, <1>1, FS_RemoveElement
  <2>5. Cardinality(s \ {x}) = n
    BY <2>4
  <2>6. g[s \ {x}] = h[s \ {x}]
    BY <2>5, <1>5
  <2> QED
    BY <2>2, <2>3, <2>6
<1>6. \A n \in Nat : n \in T
  <2> HIDE DEF T
  <2> QED
    BY <1>4, <1>5, NumberInduction
<1> QED
  BY <1>1, <1>6

\* A sum over nothing.
LEMMA SumEmpty ==
    ASSUME NEW f
    PROVE  SumFunctionOnSet(f, {}) = 0
<1>1. PICK g : Sums(f, {}, g) /\ SumFunctionOnSet(f, {}) = g[{}]
  BY FS_EmptySet, SumIsASum
<1> QED
  BY <1>1 DEF Sums, SumsOn

\* A sum is a number.
LEMMA SumType ==
    ASSUME NEW N, N = Nat \/ N = Int, NEW f, NEW S, IsFiniteSet(S), \A x \in S : f[x] \in N
    PROVE  SumFunctionOnSet(f, S) \in N
BY SumIsASum, SumsType

\* Equal functions have equal sums.
LEMMA SumSame ==
    ASSUME NEW f, NEW e, NEW S, IsFiniteSet(S), \A x \in S : f[x] = e[x]
    PROVE  SumFunctionOnSet(f, S) = SumFunctionOnSet(e, S)
<1>1. PICK g : Sums(f, S, g) /\ SumFunctionOnSet(f, S) = g[S]
  BY SumIsASum
<1>2. PICK h : Sums(e, S, h) /\ SumFunctionOnSet(e, S) = h[S]
  BY SumIsASum
<1>3. \A s \in SUBSET S : g[s] = h[s]
  <2>1. S \subseteq S
    OBVIOUS
  <2>2. Sums(f, S, g) /\ Sums(e, S, h)
    BY <1>1, <1>2
  <2> QED
    BY <2>1, <2>2, SumsAgree
<1> QED
  BY <1>1, <1>2, <1>3

\* One element more.
LEMMA SumAdd ==
    ASSUME NEW f, NEW S, IsFiniteSet(S), NEW x, x \notin S,
           \A y \in S \union {x} : f[y] \in Int
    PROVE  SumFunctionOnSet(f, S \union {x}) = f[x] + SumFunctionOnSet(f, S)
<1> DEFINE R == S \union {x}
<1>1. IsFiniteSet(R)
  BY FS_AddElement
<1>2. PICK g : Sums(f, R, g) /\ SumFunctionOnSet(f, R) = g[R]
  BY <1>1, SumIsASum
<1>3. PICK h : Sums(f, S, h) /\ SumFunctionOnSet(f, S) = h[S]
  BY SumIsASum
<1>4. x \in R /\ R \ {x} = S /\ S \subseteq R /\ \A y \in R : f[y] \in Int
  OBVIOUS
<1>0. SUFFICES SumFunctionOnSet(f, R) = f[x] + SumFunctionOnSet(f, S)
  OBVIOUS
<1> HIDE DEF R
<1>5. \A y \in R : g[R] = f[y] + g[R \ {y}]
  BY <1>1, <1>2, <1>4, SumsStep
<1>6. \A s \in SUBSET S : g[s] = h[s]
  BY <1>1, <1>2, <1>3, <1>4, SumsAgree
<1> QED
  BY <1>2, <1>3, <1>4, <1>5, <1>6

-----------------------------------------------------------------------------
(* Encoding an array, piece by piece. *)

\* The constants are numbers, an array has pieces.
LEMMA Numbers ==
    /\ NumServers \in Nat /\ NumServers > 0 /\ NumKeys \in Nat /\ NumKeys > 0
    /\ bigarray_bound \in Nat /\ bigarray_bound > 0
    /\ \A k \in Key : Size[k] \in Nat /\ Size[k] > 0
    /\ IsFiniteSet(Server) /\ IsFiniteSet(Key) /\ 0 \in Key
<1>1. /\ NumServers \in Nat /\ NumServers > 0 /\ NumKeys \in Nat /\ NumKeys > 0
      /\ bigarray_bound \in Nat /\ bigarray_bound > 0
      /\ \A k \in Key : Size[k] \in Nat /\ Size[k] > 0
  BY PartitionAssumption
<1>2. NumServers - 1 \in Int /\ NumKeys - 1 \in Int /\ 0 \in Int
  BY <1>1
<1>3. IsFiniteSet(0..NumServers - 1) /\ IsFiniteSet(0..NumKeys - 1)
  BY <1>2, FS_Interval
<1> QED
  BY <1>1, <1>3 DEF Server, Key

\* g follows an array from its first to its n-th piece.
Chain(first, key, n, g) ==
    g = [j \in 0..n |-> IF j = 0 THEN first ELSE EncodePiece(g[j - 1], key, Lens(key)[j])]

LEMMA ChainExists ==
    ASSUME NEW first, NEW key
    PROVE  \A n \in Nat : \E g : Chain(first, key, n, g)
<1> DEFINE T == {n \in Nat : \E g : Chain(first, key, n, g)}
<1>1. 0 \in T
  <2>1. Chain(first, key, 0, [j \in 0..0 |-> first])
    BY DEF Chain
  <2> QED
    BY <2>1
<1>2. ASSUME NEW n \in Nat, n \in T PROVE n + 1 \in T
  <2>1. PICK g : Chain(first, key, n, g)
    BY <1>2
  <2> DEFINE step(u, j) == EncodePiece(u, key, Lens(key)[j])
             h == [j \in 0..n + 1 |-> IF j = 0 THEN first ELSE step(g[j - 1], j)]
  <2>2. g = [j \in 0..n |-> IF j = 0 THEN first ELSE step(g[j - 1], j)]
    BY <2>1 DEF Chain
  <2> HIDE DEF step
  <2>3. \A j \in 0..n : h[j] = g[j]
    BY <2>2
  <2>4. \A j \in 0..n + 1 : j # 0 => j - 1 \in 0..n
    OBVIOUS
  <2>5. h = [j \in 0..n + 1 |-> IF j = 0 THEN first ELSE step(h[j - 1], j)]
    BY <2>3, <2>4
  <2> HIDE DEF h
  <2>6. Chain(first, key, n + 1, h)
    BY <2>5 DEF Chain, step
  <2> QED
    BY <2>6
<1>3. \A n \in Nat : n \in T
  <2> HIDE DEF T
  <2> QED
    BY <1>1, <1>2, NumberInduction
<1> QED
  BY <1>3

\* What a chain does from one piece to the next.
LEMMA ChainStep ==
    ASSUME NEW first, NEW key, NEW n \in Nat, NEW g, Chain(first, key, n, g)
    PROVE  /\ g[0] = first
           /\ \A j \in Nat : j < n => g[j + 1] = EncodePiece(g[j], key, Lens(key)[j + 1])
<1> DEFINE step(u, j) == EncodePiece(u, key, Lens(key)[j])
<1>1. g = [j \in 0..n |-> IF j = 0 THEN first ELSE step(g[j - 1], j)]
  BY DEF Chain
<1> HIDE DEF step
<1>2. \A j \in 0..n : g[j] = IF j = 0 THEN first ELSE step(g[j - 1], j)
  BY <1>1
<1>3. \A j \in Nat : j < n => g[j + 1] = step(g[j], j + 1)
  <2> TAKE j \in Nat
  <2>1. j < n => j + 1 \in 0..n /\ j + 1 # 0 /\ (j + 1) - 1 = j
    OBVIOUS
  <2> QED
    BY <2>1, <1>2
<1>4. g[0] = first
  BY <1>2
<1> QED
  BY <1>3, <1>4 DEF step

\* The number of pieces.
Count(key) == Ceil(Size[key], bigarray_bound)

LEMMA CountFacts ==
    ASSUME NEW key \in Key
    PROVE  /\ Count(key) \in Nat /\ Count(key) > 0
           /\ Len(Lens(key)) = Count(key)
           /\ (Count(key) - 1) * bigarray_bound < Size[key]
           /\ Size[key] <= Count(key) * bigarray_bound
           /\ \A j \in 1..Count(key) :
                Lens(key)[j] = IF j < Count(key) THEN bigarray_bound
                               ELSE Size[key] - (Count(key) - 1) * bigarray_bound
<1> DEFINE a == Size[key]
           b == bigarray_bound
           n == Count(key)
<1>1. a \in Nat /\ a > 0 /\ b \in Nat /\ b > 0
  BY Numbers
<1>2. n = (a + b - 1) \div b
  BY DEF Count, Ceil
<1>3. Lens(key) = [j \in 1..n |-> IF j < n THEN b ELSE a - (n - 1) * b]
  BY DEF Lens, Count
<1> HIDE DEF a, b, n
<1>4. n \in Int /\ b * n <= a + b - 1 /\ a + b - 1 < b * n + b
  BY <1>1, <1>2
<1>5. n > 0
  <2>1. n <= 0 => b * n <= 0
    BY <1>1, <1>4
  <2> QED
    BY <2>1, <1>1, <1>4
<1>6. n \in Nat
  BY <1>4, <1>5
<1>7. (n - 1) * b = b * n - b /\ n * b = b * n
  BY <1>1, <1>6
<1>8. (n - 1) * b < a /\ a <= n * b
  BY <1>1, <1>4, <1>6, <1>7
<1>9. Len(Lens(key)) = n
  BY <1>3, <1>6
<1> QED
  BY <1>3, <1>5, <1>6, <1>8, <1>9 DEF a, b, n

\* An array that has been divided is left alone, another one encoded by a chain.
First(s, key) == IF key = 0 /\ s.seg_update_flag # 2 THEN Restart(s) ELSE s

LEMMA EncodeIsChain ==
    ASSUME NEW s0, NEW key \in Key
    PROVE  LET s == CountPara(s0, key)
           IN  IF s.ps_kv[key] # <<>> THEN EncodeDefaultKey(s0, key) = s
               ELSE \E g : /\ Chain(First(s, key), key, Count(key), g)
                           /\ EncodeDefaultKey(s0, key) = g[Count(key)]
<1> DEFINE s == CountPara(s0, key)
           n == Len(Lens(key))
           g == CHOOSE g : Chain(First(s, key), key, n, g)
<1>1. n = Count(key) /\ n \in Nat
  BY CountFacts
<1>2. CASE s.ps_kv[key] # <<>>
  BY <1>2 DEF EncodeDefaultKey
<1>3. CASE s.ps_kv[key] = <<>>
  <2>1. EncodeDefaultKey(s0, key) = g[n]
    BY <1>3 DEF EncodeDefaultKey, Chain, First
  <2>2. Chain(First(s, key), key, n, g)
    BY <1>1, ChainExists
  <2> HIDE DEF s, n, g
  <2> QED
    BY <1>1, <1>3, <2>1, <2>2 DEF s
<1> QED
  BY <1>2, <1>3


-----------------------------------------------------------------------------
(* Which parts of a store a step leaves alone. *)

Shape(s) == DOMAIN s = DOMAIN NewStore /\ DOMAIN s.ps_kv = Key

\* t differs from s in the pieces of one array only, as far as pieces go.
OnlyPieces(s, t, key) ==
    Shape(t) /\ \A k \in Key : k # key => t.ps_kv[k] = s.ps_kv[k]

LEMMA PlaceLeaves ==
    ASSUME NEW s, Shape(s), NEW key \in Key, NEW len, NEW n
    PROVE  OnlyPieces(s, Place(s, key, len, n), key)
BY DEF Shape, OnlyPieces, Place, NewStore

LEMMA PieceLeaves ==
    ASSUME NEW s, Shape(s), NEW key \in Key, NEW len
    PROVE  OnlyPieces(s, EncodePiece(s, key, len), key)
<1>0. CASE s.stuck
  BY <1>0 DEF EncodePiece, OnlyPieces
<1>1. CASE ~s.stuck /\ s.seg_update_flag # 2
  BY <1>1, PlaceLeaves DEF EncodePiece
<1>2. CASE ~s.stuck /\ s.seg_update_flag = 2
  <2> DEFINE t == IF key = 0 THEN Rescale(s) ELSE s
  <2>1. Shape(t) /\ t.ps_kv = s.ps_kv
    BY DEF Rescale, Restart, Shape, NewStore
  <2>2. EncodePiece(s, key, len) = IF WithRoom(t) = {} THEN [t EXCEPT !.stuck = TRUE]
                                   ELSE Place(t, key, len, Min(WithRoom(t)))
    BY <1>2 DEF EncodePiece
  <2> HIDE DEF t
  <2>3. CASE WithRoom(t) = {}
    BY <2>1, <2>2, <2>3 DEF Shape, OnlyPieces, NewStore
  <2>4. CASE WithRoom(t) # {}
    BY <2>1, <2>2, <2>4, PlaceLeaves DEF OnlyPieces
  <2> QED
    BY <2>3, <2>4
<1> QED
  BY <1>0, <1>1, <1>2

LEMMA EncodeLeaves ==
    ASSUME NEW s0, Shape(s0), NEW key \in Key
    PROVE  OnlyPieces(s0, EncodeDefaultKey(s0, key), key)
<1> DEFINE s == CountPara(s0, key)
           f == First(s, key)
<1>1. Shape(s) /\ s.ps_kv = s0.ps_kv
  BY DEF CountPara, Shape, NewStore
<1>2. CASE s.ps_kv[key] # <<>>
  BY <1>1, <1>2, EncodeIsChain DEF OnlyPieces
<1>3. CASE s.ps_kv[key] = <<>>
  <2>1. PICK g : Chain(f, key, Count(key), g) /\ EncodeDefaultKey(s0, key) = g[Count(key)]
    BY <1>3, EncodeIsChain
  <2> HIDE DEF s
  <2>2. Shape(f) /\ f.ps_kv = s0.ps_kv
    BY <1>1 DEF First, Restart, Shape, NewStore
  <2> HIDE DEF f
  <2>3. Count(key) \in Nat
    BY CountFacts
  <2>4. /\ g[0] = f
        /\ \A j \in Nat : j < Count(key) => g[j + 1] = EncodePiece(g[j], key, Lens(key)[j + 1])
    BY <2>1, <2>3, ChainStep
  <2> DEFINE T == {j \in Nat : j <= Count(key) => OnlyPieces(s0, g[j], key)}
  <2>5. 0 \in T
    BY <2>2, <2>4 DEF OnlyPieces
  <2>6. ASSUME NEW j \in Nat, j \in T PROVE j + 1 \in T
    <3> SUFFICES ASSUME j + 1 <= Count(key) PROVE OnlyPieces(s0, g[j + 1], key)
      OBVIOUS
    <3>1. j < Count(key)
      BY <2>3
    <3>2. OnlyPieces(s0, g[j], key)
      BY <3>1, <2>6, <2>3
    <3>3. OnlyPieces(g[j], g[j + 1], key)
      BY <3>1, <3>2, <2>4, PieceLeaves DEF OnlyPieces
    <3> QED
      BY <3>2, <3>3 DEF OnlyPieces
  <2>7. \A j \in Nat : j \in T
    <3> HIDE DEF T
    <3> QED
      BY <2>5, <2>6, NumberInduction
  <2> QED
    BY <2>1, <2>3, <2>7
<1> QED
  BY <1>2, <1>3


-----------------------------------------------------------------------------
(* The workers agree. *)

\* What Push makes of a store before it encodes the array.
Prepared(p, s0, key) ==
    LET s == IF key # 0 THEN s0
             ELSE TurnFlag(IF p = NoPolicy THEN s0 ELSE TaskDivisionUpdate(s0, p))
    IN  IF DividedAgain(s, key) THEN [s EXCEPT !.ps_kv[key] = <<>>] ELSE s

\* One array in round r, whose policy is p.
Step(r, p, s, key) == EncodeDefaultKey(IF r = 0 THEN s ELSE Prepared(p, s, key), key)

\* The stores through which a round goes from s, the same for all workers.
CourseTo(r, p, s, n, H) ==
    H = [j \in 0..n |-> IF j = 0 THEN s ELSE Step(r, p, H[j - 1], j - 1)]

Course(r, p, s, H) == CourseTo(r, p, s, NumKeys, H)

LEMMA CourseExists ==
    ASSUME NEW r, NEW p, NEW s
    PROVE  \E H : Course(r, p, s, H)
<1> DEFINE T == {n \in Nat : \E H : CourseTo(r, p, s, n, H)}
<1>1. 0 \in T
  <2>1. CourseTo(r, p, s, 0, [j \in 0..0 |-> s])
    BY DEF CourseTo
  <2> QED
    BY <2>1
<1>2. ASSUME NEW n \in Nat, n \in T PROVE n + 1 \in T
  <2>1. PICK g : CourseTo(r, p, s, n, g)
    BY <1>2
  <2> DEFINE step(u, j) == Step(r, p, u, j)
             h == [j \in 0..n + 1 |-> IF j = 0 THEN s ELSE step(g[j - 1], j - 1)]
  <2>2. g = [j \in 0..n |-> IF j = 0 THEN s ELSE step(g[j - 1], j - 1)]
    BY <2>1 DEF CourseTo
  <2> HIDE DEF step
  <2>3. \A j \in 0..n : h[j] = g[j]
    BY <2>2
  <2>4. \A j \in 0..n + 1 : j # 0 => j - 1 \in 0..n
    OBVIOUS
  <2>5. h = [j \in 0..n + 1 |-> IF j = 0 THEN s ELSE step(h[j - 1], j - 1)]
    BY <2>3, <2>4
  <2> HIDE DEF h
  <2>6. CourseTo(r, p, s, n + 1, h)
    BY <2>5 DEF CourseTo, step
  <2> QED
    BY <2>6
<1>3. \A n \in Nat : n \in T
  <2> HIDE DEF T
  <2> QED
    BY <1>1, <1>2, NumberInduction
<1> QED
  BY <1>3, Numbers DEF Course

LEMMA CourseStep ==
    ASSUME NEW r, NEW p, NEW s, NEW H, Course(r, p, s, H)
    PROVE  /\ H[0] = s
           /\ \A j \in Nat : j < NumKeys => H[j + 1] = Step(r, p, H[j], j)
<1> DEFINE step(u, j) == Step(r, p, u, j)
<1>1. H = [j \in 0..NumKeys |-> IF j = 0 THEN s ELSE step(H[j - 1], j - 1)]
  BY DEF Course, CourseTo
<1> HIDE DEF step
<1>2. \A j \in 0..NumKeys : H[j] = IF j = 0 THEN s ELSE step(H[j - 1], j - 1)
  BY <1>1
<1>3. \A j \in Nat : j < NumKeys => H[j + 1] = step(H[j], j)
  <2> TAKE j \in Nat
  <2>1. j < NumKeys => j + 1 \in 0..NumKeys /\ j + 1 # 0 /\ (j + 1) - 1 = j
    BY Numbers
  <2> QED
    BY <2>1, <1>2
<1>4. H[0] = s
  BY <1>2, Numbers
<1> QED
  BY <1>3, <1>4 DEF step

LEMMA PreparedLeaves ==
    ASSUME NEW p, NEW s, Shape(s), NEW key \in Key
    PROVE  OnlyPieces(s, Prepared(p, s, key), key)
<1> DEFINE a == IF p = NoPolicy THEN s ELSE TaskDivisionUpdate(s, p)
           b == IF key # 0 THEN s ELSE TurnFlag(a)
<1>1. Shape(a) /\ a.ps_kv = s.ps_kv
  BY DEF TaskDivisionUpdate, Shape, NewStore
<1>2. Prepared(p, s, key) = IF DividedAgain(b, key) THEN [b EXCEPT !.ps_kv[key] = <<>>] ELSE b
  BY DEF Prepared
<1> HIDE DEF a
<1>3. Shape(b) /\ b.ps_kv = s.ps_kv
  BY <1>1 DEF TurnFlag, Shape, NewStore
<1> HIDE DEF b
<1> QED
  BY <1>2, <1>3 DEF OnlyPieces, Shape, NewStore

LEMMA StepLeaves ==
    ASSUME NEW r, NEW p, NEW s, Shape(s), NEW key \in Key
    PROVE  OnlyPieces(s, Step(r, p, s, key), key)
<1> DEFINE t == IF r = 0 THEN s ELSE Prepared(p, s, key)
<1>1. OnlyPieces(s, t, key)
  BY PreparedLeaves DEF OnlyPieces
<1>2. Step(r, p, s, key) = EncodeDefaultKey(t, key)
  BY DEF Step
<1> HIDE DEF t
<1>3. OnlyPieces(t, EncodeDefaultKey(t, key), key)
  BY <1>1, EncodeLeaves DEF OnlyPieces
<1> QED
  BY <1>1, <1>2, <1>3 DEF OnlyPieces

\* The pieces of an array stay as the step with that array has left them.
LEMMA CourseKeeps ==
    ASSUME NEW r, NEW p, NEW s, Shape(s), NEW H, Course(r, p, s, H)
    PROVE  \A j \in 0..NumKeys : /\ Shape(H[j])
                                 /\ \A k \in 0..j - 1 : H[j].ps_kv[k] = H[k + 1].ps_kv[k]
<1> DEFINE Good(j) == /\ Shape(H[j])
                      /\ \A k \in 0..j - 1 : H[j].ps_kv[k] = H[k + 1].ps_kv[k]
           T == {j \in Nat : j <= NumKeys => Good(j)}
<1>1. H[0] = s /\ \A j \in Nat : j < NumKeys => H[j + 1] = Step(r, p, H[j], j)
  BY CourseStep
<1>2. 0 \in T
  BY <1>1
<1>3. ASSUME NEW j \in Nat, j \in T PROVE j + 1 \in T
  <2> SUFFICES ASSUME j + 1 <= NumKeys PROVE Good(j + 1)
    OBVIOUS
  <2>1. j \in Key /\ j < NumKeys /\ j <= NumKeys /\ \A k \in 0..j - 1 : k \in Key /\ k # j
    BY Numbers DEF Key
  <2>2. Good(j)
    BY <1>3, <2>1
  <2>3. OnlyPieces(H[j], H[j + 1], j)
    BY <1>1, <2>1, <2>2, StepLeaves
  <2>4. \A k \in 0..j - 1 : H[j + 1].ps_kv[k] = H[k + 1].ps_kv[k]
    BY <2>1, <2>2, <2>3 DEF OnlyPieces
  <2>5. \A k \in 0..(j + 1) - 1 : k \in 0..j - 1 \/ k = j
    OBVIOUS
  <2> QED
    BY <2>3, <2>4, <2>5 DEF OnlyPieces
<1>4. \A j \in Nat : j \in T
  <2> HIDE DEF T
  <2> QED
    BY <1>2, <1>3, NumberInduction
<1> QED
  BY <1>4, Numbers

\* Every worker has gone part of the way of one course, array by array.
OneCourse(r, p) ==
    \E s, H : /\ Shape(s) /\ Course(r, p, s, H)
              /\ \A w \in Workers : \E d \in 0..NumKeys :
                    Pushed(w) = 0..d - 1 /\ store[w] = H[d]

\* How far the workers are.
TurnsInv ==
    /\ DOMAIN store = Workers
    /\ round \in Nat
    /\ inited \in 0..NumKeys
    /\ encoded \in [Workers -> SUBSET Key]
    /\ pos \in [Workers -> 0..NumKeys]
    /\ encoded[Rank0] = 0..inited - 1
    /\ round = 0 => \A w \in Workers : pos[w] = NumKeys
    /\ round > 0 => inited = NumKeys /\ \A w \in Workers : encoded[w] = Key

LEMMA TurnsInit == Init => TurnsInv
<1> SUFFICES ASSUME Init PROVE TurnsInv
  OBVIOUS
<1>1. 0 \in 0..NumKeys /\ NumKeys \in 0..NumKeys /\ 0..0 - 1 = {}
  BY Numbers
<1>2. Rank0 \in Workers
  BY PartitionAssumption
<1> QED
  BY <1>1, <1>2 DEF Init, TurnsInv

\* Two initial stretches are equal only if they end at the same place.
LEMMA SameStretch ==
    ASSUME NEW a \in Nat, NEW b \in Nat, 0..a - 1 = 0..b - 1
    PROVE  a = b
<1>1. a \notin 0..a - 1 /\ b \notin 0..b - 1
  OBVIOUS
<1>2. a \notin 0..b - 1 /\ b \notin 0..a - 1
  BY <1>1
<1> QED
  BY <1>2

LEMMA TurnsNext ==
    ASSUME TurnsInv, [Next]_vars
    PROVE  TurnsInv'
<1> USE DEF TurnsInv
<1> Rank0 \in Workers
  BY PartitionAssumption
<1>1. CASE InitKey
  <2>1. /\ inited \in Key /\ inited' = inited + 1 /\ inited' \in 0..NumKeys /\ round = 0
        /\ inited' - 1 = inited /\ (0..inited - 1) \union {inited} = 0..inited
    BY <1>1, Numbers DEF InitKey, Key
  <2> QED
    BY <1>1, <2>1 DEF InitKey, Encode
<1>2. ASSUME NEW w \in Workers, NEW key \in Key, Pull(w, key) PROVE TurnsInv'
  BY <1>2 DEF Pull, Encode
<1>3. CASE Release
  <2>1. inited = NumKeys
    <3>1. inited \in Nat /\ NumKeys \in Nat /\ 0..inited - 1 = 0..NumKeys - 1
      BY <1>3, Numbers DEF Release, Key
    <3> QED
      BY <3>1, SameStretch
  <2>2. 0 \in 0..NumKeys
    BY Numbers
  <2> QED
    BY <1>3, <2>1, <2>2 DEF Release
<1>4. ASSUME NEW w \in Workers, Push(w) PROVE TurnsInv'
  <2>1. round # 0 /\ pos[w] + 1 \in 0..NumKeys
    BY <1>4, Numbers DEF Push
  <2>2. /\ DOMAIN store' = DOMAIN store /\ pos' = [pos EXCEPT ![w] = @ + 1]
        /\ UNCHANGED <<inited, encoded, round>>
    BY <1>4 DEF Push
  <2> QED
    BY <2>1, <2>2
<1>5. CASE UNCHANGED vars
  BY <1>5 DEF vars
<1> QED
  BY <1>1, <1>2, <1>3, <1>4, <1>5 DEF Next

AgreeInv == TurnsInv /\ OneCourse(round, policy)

LEMMA AgreeInit == Init => AgreeInv
<1> SUFFICES ASSUME Init PROVE AgreeInv
  OBVIOUS
<1> USE DEF Init
<1>1. Shape(NewStore)
  BY DEF Shape, NewStore
<1>2. PICK H : Course(0, policy, NewStore, H)
  BY CourseExists
<1>3. H[0] = NewStore
  BY <1>2, CourseStep
<1>4. 0 \in 0..NumKeys /\ NumKeys \in 0..NumKeys /\ 0..0 - 1 = {}
  BY Numbers
<1>5. \A w \in Workers : Pushed(w) = 0..0 - 1 /\ store[w] = H[0]
  BY <1>3, <1>4 DEF Pushed
<1>6. OneCourse(round, policy)
  BY <1>1, <1>2, <1>4, <1>5 DEF OneCourse
<1> QED
  BY <1>6, TurnsInit DEF AgreeInv

\* The array that a worker takes next is the next one of its course.
LEMMA NextInTurn ==
    ASSUME cpu_worker_nthreads = 1, NEW w, NEW key \in Key, NEW d \in 0..NumKeys,
           encoded[w] = 0..d - 1, key \notin encoded[w], InTurn(w, key)
    PROVE  key = d
<1> DEFINE waiting == (0..key - 1) \ encoded[w]
<1>1. key \in Nat /\ key - 1 \in Int
  BY DEF Key
<1>2. IsFiniteSet(0..key - 1)
  BY <1>1, FS_Interval
<1>3. IsFiniteSet(waiting)
  BY <1>2, FS_Subset
<1>4. Cardinality(waiting) < 1
  BY DEF InTurn
<1> HIDE DEF waiting
<1>5. Cardinality(waiting) \in Nat
  BY <1>3, FS_CardinalityType
<1>6. waiting = {}
  BY <1>3, <1>4, <1>5, FS_EmptySet
<1>7. d \notin 0..key - 1
  BY <1>6 DEF waiting
<1> QED
  BY <1>1, <1>7

\* One worker takes the next step of the course, the others stay.
LEMMA CourseAdvance ==
    ASSUME AgreeInv, NEW w \in Workers, NEW key \in Key,
           \A d \in 0..NumKeys : Pushed(w) = 0..d - 1 => key = d,
           store' = [store EXCEPT ![w] = Step(round, policy, store[w], key)],
           round' = round, policy' = policy,
           Pushed(w)' = 0..key,
           \A v \in Workers : v # w => Pushed(v)' = Pushed(v)
    PROVE  OneCourse(round, policy)'
<1>1. PICK s, H :
        /\ Shape(s) /\ Course(round, policy, s, H)
        /\ \A v \in Workers : \E d \in 0..NumKeys : Pushed(v) = 0..d - 1 /\ store[v] = H[d]
  BY DEF AgreeInv, TurnsInv, OneCourse
<1>2. Course(round', policy', s, H)
  BY <1>1
<1>3. \A v \in Workers : \E d \in 0..NumKeys : Pushed(v)' = 0..d - 1 /\ store'[v] = H[d]
  <2> TAKE v \in Workers
  <2>1. PICK d \in 0..NumKeys : Pushed(v) = 0..d - 1 /\ store[v] = H[d]
    BY <1>1
  <2>2. CASE v # w
    BY <2>1, <2>2 DEF AgreeInv, TurnsInv
  <2>3. CASE v = w
    <3>1. d = key /\ key \in Nat /\ key < NumKeys
      BY <2>1, <2>3, Numbers DEF Key
    <3>2. H[key + 1] = Step(round, policy, H[key], key)
      BY <1>1, <3>1, CourseStep
    <3>3. store'[v] = H[key + 1]
      BY <2>1, <2>3, <3>1, <3>2 DEF AgreeInv, TurnsInv
    <3>4. key + 1 \in 0..NumKeys /\ (key + 1) - 1 = key
      BY <3>1, Numbers
    <3>5. Pushed(v)' = 0..(key + 1) - 1
      BY <2>3, <3>4
    <3> QED
      BY <3>3, <3>4, <3>5
  <2> QED
    BY <2>2, <2>3
<1> QED
  BY <1>1, <1>2, <1>3 DEF OneCourse

LEMMA AgreeEncode ==
    ASSUME AgreeInv, NEW w \in Workers, NEW key \in Key, Encode(w, key), round = 0,
           key \notin encoded[w], \A d \in 0..NumKeys : encoded[w] = 0..d - 1 => key = d,
           round' = round, policy' = policy
    PROVE  OneCourse(round, policy)'
<1>1. PICK d \in 0..NumKeys : encoded[w] = 0..d - 1
  BY DEF AgreeInv, TurnsInv, OneCourse, Pushed
<1>2. key = d
  BY <1>1
<1>4. encoded'[w] = 0..key
  <2>1. (0..d - 1) \union {d} = 0..d
    OBVIOUS
  <2> QED
    BY <1>1, <1>2, <2>1 DEF AgreeInv, TurnsInv, Encode
<1>5. /\ Pushed(w)' = 0..key /\ Pushed(w) = encoded[w]
      /\ \A v \in Workers : v # w => Pushed(v)' = Pushed(v)
  BY <1>4 DEF Pushed, Encode, AgreeInv, TurnsInv
<1>6. store' = [store EXCEPT ![w] = Step(round, policy, store[w], key)]
  BY DEF Encode, Step, AgreeInv, TurnsInv
<1>7. \A e \in 0..NumKeys : Pushed(w) = 0..e - 1 => key = e
  BY <1>5
<1> QED
  BY <1>5, <1>6, <1>7, CourseAdvance

LEMMA AgreeNext ==
    ASSUME cpu_worker_nthreads = 1, AgreeInv, [Next]_vars
    PROVE  AgreeInv'
<1>0. SUFFICES OneCourse(round, policy)'
  BY TurnsNext DEF AgreeInv
<1> Rank0 \in Workers
  BY PartitionAssumption
<1>1. CASE InitKey
  <2>1. inited \in Key /\ round = 0 /\ inited \notin encoded[Rank0]
    BY <1>1, Numbers DEF InitKey, AgreeInv, TurnsInv, Key
  <2>2. \A d \in 0..NumKeys : encoded[Rank0] = 0..d - 1 => inited = d
    <3> SUFFICES ASSUME NEW d \in 0..NumKeys, encoded[Rank0] = 0..d - 1 PROVE inited = d
      OBVIOUS
    <3>1. 0..inited - 1 = 0..d - 1 /\ inited \in Nat /\ d \in Nat
      BY Numbers DEF AgreeInv, TurnsInv
    <3> QED
      BY <3>1, SameStretch
  <2>3. Encode(Rank0, inited) /\ round' = round /\ policy' = policy
    BY <1>1 DEF InitKey
  <2> QED
    BY <2>1, <2>2, <2>3, AgreeEncode
<1>2. ASSUME NEW w \in Workers, NEW key \in Key, Pull(w, key) PROVE OneCourse(round, policy)'
  <2>1. round = 0
    BY <1>2 DEF Pull, AgreeInv, TurnsInv
  <2>2. key \notin encoded[w] /\ InTurn(w, key) /\ Encode(w, key)
        /\ round' = round /\ policy' = policy
    BY <1>2 DEF Pull
  <2>3. \A d \in 0..NumKeys : encoded[w] = 0..d - 1 => key = d
    BY <2>2, NextInTurn
  <2> QED
    BY <2>1, <2>2, <2>3, AgreeEncode
<1>3. CASE Release
  <2>1. PICK s, H :
        /\ Shape(s) /\ Course(round, policy, s, H)
        /\ \A v \in Workers : \E d \in 0..NumKeys : Pushed(v) = 0..d - 1 /\ store[v] = H[d]
    BY DEF AgreeInv, TurnsInv, OneCourse
  <2>2. \A v \in Workers : Pushed(v) = 0..NumKeys - 1
    BY <1>3, Numbers DEF Release, Pushed, Key
  <2>3. \A v \in Workers : store[v] = H[NumKeys]
    <3> TAKE v \in Workers
    <3>1. PICK d \in 0..NumKeys : 0..d - 1 = 0..NumKeys - 1 /\ store[v] = H[d]
      BY <2>1, <2>2
    <3>2. d \in Nat /\ NumKeys \in Nat
      BY Numbers
    <3>3. d = NumKeys
      BY <3>1, <3>2, SameStretch
    <3> QED
      BY <3>1, <3>3
  <2>4. Shape(H[NumKeys])
    <3>1. \A j \in 0..NumKeys : Shape(H[j])
      BY <2>1, CourseKeeps
    <3> QED
      BY <3>1, Numbers
  <2>5. PICK G : Course(round', policy', H[NumKeys], G)
    BY CourseExists
  <2>6. G[0] = H[NumKeys]
    BY <2>5, CourseStep
  <2>7. round' = round + 1 /\ pos' = [w \in Workers |-> 0] /\ UNCHANGED <<store, inited, encoded>>
        /\ \A w \in Workers : encoded[w] = Key
    BY <1>3 DEF Release
  <2>8. round \in Nat /\ round' \in Nat /\ round' # 0
    BY <2>7 DEF AgreeInv, TurnsInv
  <2>9. \A v \in Workers : Pushed(v)' = 0..0 - 1 /\ store'[v] = G[0]
    BY <2>3, <2>6, <2>7, <2>8 DEF Pushed
  <2>10. 0 \in 0..NumKeys
    BY Numbers
  <2>11. \A v \in Workers : \E d \in 0..NumKeys : Pushed(v)' = 0..d - 1 /\ store'[v] = G[d]
    BY <2>9, <2>10
  <2> QED
    BY <2>4, <2>5, <2>11 DEF OneCourse
<1>4. ASSUME NEW w \in Workers, Push(w) PROVE OneCourse(round, policy)'
  <2> DEFINE key == pos[w]
  <2>1. round > 0 /\ round # 0 /\ key \in Key /\ key \in Nat
    BY <1>4, Numbers DEF Push, AgreeInv, TurnsInv, Key
  <2>2. store' = [store EXCEPT ![w] = Step(round, policy, store[w], key)]
    BY <1>4, <2>1 DEF Push, Step, Prepared
  <2>3. pos' = [pos EXCEPT ![w] = key + 1] /\ UNCHANGED <<inited, encoded, round, policy, last>>
    BY <1>4 DEF Push
  <2>4. key + 1 \in 0..NumKeys /\ (key + 1) - 1 = key
    BY <2>1, Numbers DEF Key
  <2>5. pos'[w] = key + 1 /\ \A v \in Workers : v # w => pos'[v] = pos[v]
    BY <2>3, <2>4 DEF AgreeInv, TurnsInv
  <2>6. /\ Pushed(w)' = 0..key /\ Pushed(w) = 0..key - 1
        /\ \A v \in Workers : v # w => Pushed(v)' = Pushed(v)
    BY <2>1, <2>3, <2>4, <2>5 DEF Pushed
  <2>7. \A d \in 0..NumKeys : Pushed(w) = 0..d - 1 => key = d
    <3> SUFFICES ASSUME NEW d \in 0..NumKeys, 0..key - 1 = 0..d - 1 PROVE key = d
      BY <2>6
    <3> HIDE DEF key
    <3> QED
      BY <2>1, SameStretch
  <2> HIDE DEF key
  <2> QED
    BY <2>1, <2>2, <2>3, <2>6, <2>7, CourseAdvance
<1>5. CASE UNCHANGED vars
  BY <1>5 DEF vars, AgreeInv, TurnsInv, OneCourse, Pushed
<1> QED
  BY <1>1, <1>2, <1>3, <1>4, <1>5 DEF Next

LEMMA AgreeImplies == AgreeInv => PartitionsAgree
<1> SUFFICES ASSUME AgreeInv, NEW w \in Workers, NEW v \in Workers,
                    NEW k \in Pushed(w) \intersect Pushed(v)
             PROVE  store[w].ps_kv[k] = store[v].ps_kv[k]
  BY DEF PartitionsAgree
<1>1. PICK s, H :
        /\ Shape(s) /\ Course(round, policy, s, H)
        /\ \A x \in Workers : \E d \in 0..NumKeys : Pushed(x) = 0..d - 1 /\ store[x] = H[d]
  BY DEF AgreeInv, TurnsInv, OneCourse
<1>2. \A x \in Workers : k \in Pushed(x) => store[x].ps_kv[k] = H[k + 1].ps_kv[k]
  <2>1. \A j \in 0..NumKeys : \A i \in 0..j - 1 : H[j].ps_kv[i] = H[i + 1].ps_kv[i]
    BY <1>1, CourseKeeps
  <2> QED
    BY <1>1, <2>1
<1> QED
  BY <1>2

\* Workers divide arrays alike in every round, after any sequence of policies,
\* when one engine thread runs the pulls: all go through the same stores.
THEOREM PartitionsAgreeAlways ==
    ASSUME cpu_worker_nthreads = 1
    PROVE  Spec => []PartitionsAgree
BY AgreeInit, AgreeNext, AgreeImplies, PTL DEF Spec


-----------------------------------------------------------------------------
(* More about sums. *)

\* One of the values grows.
LEMMA SumReplace ==
    ASSUME NEW f, NEW e, NEW S, IsFiniteSet(S), NEW x \in S, NEW c \in Int,
           \A y \in S : f[y] \in Int,
           e[x] = f[x] + c, \A y \in S \ {x} : e[y] = f[y]
    PROVE  SumFunctionOnSet(e, S) = SumFunctionOnSet(f, S) + c
<1> DEFINE R == S \ {x}
<1>1. IsFiniteSet(R) /\ x \notin R /\ S = R \union {x}
  BY FS_Subset
<1>2. \A y \in R \union {x} : f[y] \in Int /\ e[y] \in Int
  BY <1>1
<1>3. \A y \in R : e[y] = f[y]
  OBVIOUS
<1> HIDE DEF R
<1>4. SumFunctionOnSet(f, R \union {x}) = f[x] + SumFunctionOnSet(f, R)
  BY <1>1, <1>2, SumAdd
<1>5. SumFunctionOnSet(e, R \union {x}) = e[x] + SumFunctionOnSet(e, R)
  BY <1>1, <1>2, SumAdd
<1>6. SumFunctionOnSet(e, R) = SumFunctionOnSet(f, R)
  BY <1>1, <1>3, SumSame
<1>7. SumFunctionOnSet(f, R) \in Int
  BY <1>1, <1>2, SumType
<1>8. f[x] \in Int
  OBVIOUS
<1>9. \A a, b, z \in Int : (a + z) + b = (a + b) + z
  OBVIOUS
<1> QED
  BY <1>1, <1>4, <1>5, <1>6, <1>7, <1>8, <1>9

\* Values scaled by a and b compare as their sums do.
LEMMA SumScale ==
    ASSUME NEW f, NEW e, NEW S, IsFiniteSet(S), NEW a \in Nat, NEW b \in Nat,
           \A x \in S : f[x] \in Nat /\ e[x] \in Nat /\ a * f[x] <= b * e[x]
    PROVE  a * SumFunctionOnSet(f, S) <= b * SumFunctionOnSet(e, S)
<1> DEFINE F(s) == SumFunctionOnSet(f, s)
           G(s) == SumFunctionOnSet(e, s)
           P == {s \in SUBSET S : a * F(s) <= b * G(s)}
<1>1. \A s \in SUBSET S : IsFiniteSet(s) /\ F(s) \in Nat /\ G(s) \in Nat
  <2> TAKE s \in SUBSET S
  <2>1. IsFiniteSet(s) /\ (\A x \in s : f[x] \in Nat) /\ (\A x \in s : e[x] \in Nat)
    BY FS_Subset
  <2> QED
    BY <2>1, SumType
<1>2. {} \in P
  <2>1. F({}) = 0 /\ G({}) = 0
    BY SumEmpty
  <2> HIDE DEF F, G
  <2> QED
    BY <2>1
<1>3. ASSUME NEW s \in SUBSET S, NEW x \in S, s \in P, x \notin s
      PROVE  s \union {x} \in P
  <2>1. \A y \in s \union {x} : f[y] \in Int /\ e[y] \in Int
    OBVIOUS
  <2>2. F(s \union {x}) = f[x] + F(s) /\ G(s \union {x}) = e[x] + G(s)
    BY <1>1, <1>3, <2>1, SumAdd
  <2>3. F(s) \in Nat /\ G(s) \in Nat /\ a * F(s) <= b * G(s)
    BY <1>1, <1>3
  <2>4. f[x] \in Nat /\ e[x] \in Nat /\ a * f[x] <= b * e[x]
    OBVIOUS
  <2>5. \A m, n, p, q \in Nat : a * m <= b * n /\ a * p <= b * q => a * (m + p) <= b * (n + q)
    OBVIOUS
  <2> HIDE DEF F, G
  <2>6. a * (f[x] + F(s)) <= b * (e[x] + G(s))
    BY <2>3, <2>4, <2>5
  <2>7. s \union {x} \in SUBSET S
    OBVIOUS
  <2> QED
    BY <2>2, <2>6, <2>7
<1>4. \A s \in SUBSET S : s \in P
  <2> HIDE DEF P
  <2> QED
    BY <1>2, <1>3, SubsetInduction
<1> QED
  BY <1>4

\* A smaller sum has a smaller value.
LEMMA SumLess ==
    ASSUME NEW f, NEW e, NEW S, IsFiniteSet(S), \A x \in S : f[x] \in Nat /\ e[x] \in Nat,
           SumFunctionOnSet(f, S) < SumFunctionOnSet(e, S)
    PROVE  \E x \in S : f[x] < e[x]
<1> SUFFICES ASSUME \A x \in S : ~ (f[x] < e[x]) PROVE FALSE
  OBVIOUS
<1>1. \A x \in S : e[x] \in Nat /\ f[x] \in Nat /\ 1 * e[x] <= 1 * f[x]
  OBVIOUS
<1>2. 1 * SumFunctionOnSet(e, S) <= 1 * SumFunctionOnSet(f, S)
  <2>1. 1 \in Nat
    OBVIOUS
  <2> QED
    BY <1>1, <2>1, SumScale
<1>3. SumFunctionOnSet(e, S) \in Nat /\ SumFunctionOnSet(f, S) \in Nat
  BY <1>1, SumType
<1> QED
  BY <1>2, <1>3

\* A sum of naturals with a positive one is positive.
LEMMA SumPositive ==
    ASSUME NEW f, NEW S, IsFiniteSet(S), \A y \in S : f[y] \in Nat, NEW x \in S, f[x] > 0
    PROVE  SumFunctionOnSet(f, S) > 0
<1> DEFINE R == S \ {x}
<1>1. IsFiniteSet(R) /\ x \notin R /\ S = R \union {x}
  BY FS_Subset
<1>2. \A y \in R \union {x} : f[y] \in Int
  BY <1>1
<1>3. \A y \in R : f[y] \in Nat
  OBVIOUS
<1> HIDE DEF R
<1>4. SumFunctionOnSet(f, R \union {x}) = f[x] + SumFunctionOnSet(f, R)
  BY <1>1, <1>2, SumAdd
<1>5. SumFunctionOnSet(f, R) \in Nat
  BY <1>1, <1>3, SumType
<1>6. f[x] \in Nat
  OBVIOUS
<1> QED
  BY <1>1, <1>4, <1>5, <1>6

\* Zeros.
LEMMA SumZero ==
    ASSUME NEW f, NEW S, IsFiniteSet(S), \A x \in S : f[x] = 0
    PROVE  SumFunctionOnSet(f, S) = 0
<1>1. \A x \in S : f[x] \in Nat /\ f[x] \in Nat /\ 1 * f[x] <= 0 * f[x]
  OBVIOUS
<1>2. 1 * SumFunctionOnSet(f, S) <= 0 * SumFunctionOnSet(f, S)
  <2>1. 1 \in Nat /\ 0 \in Nat
    OBVIOUS
  <2> QED
    BY <1>1, <2>1, SumScale
<1>3. SumFunctionOnSet(f, S) \in Nat
  BY <1>1, SumType
<1> QED
  BY <1>2, <1>3

\* Part of a sum.
LEMMA SumPart ==
    ASSUME NEW f, NEW S, IsFiniteSet(S), \A x \in S : f[x] \in Nat, NEW R, R \subseteq S
    PROVE  SumFunctionOnSet(f, R) <= SumFunctionOnSet(f, S)
<1> DEFINE F(s) == SumFunctionOnSet(f, s)
           Q == S \ R
           P == {s \in SUBSET Q : F(R) <= F(R \union s)}
<1>1. IsFiniteSet(Q) /\ IsFiniteSet(R)
  BY FS_Subset
<1>2. \A s \in SUBSET S : IsFiniteSet(s) /\ F(s) \in Nat
  <2> TAKE s \in SUBSET S
  <2>1. IsFiniteSet(s) /\ (\A x \in s : f[x] \in Nat)
    BY FS_Subset
  <2> QED
    BY <2>1, SumType
<1>3. {} \in P
  <2>1. R \union {} = R /\ F(R) \in Nat
    BY <1>2
  <2> HIDE DEF F
  <2> QED
    BY <2>1
<1>4. ASSUME NEW s \in SUBSET Q, NEW x \in Q, s \in P, x \notin s
      PROVE  s \union {x} \in P
  <2> DEFINE r == R \union s
  <2>1. r \in SUBSET S /\ x \notin r /\ x \in S /\ r \union {x} = R \union (s \union {x})
    BY <1>4
  <2>2. F(R) <= F(r)
    BY <1>4
  <2> HIDE DEF r
  <2>3. \A y \in r \union {x} : f[y] \in Int
    BY <2>1
  <2>4. F(r \union {x}) = f[x] + F(r)
    BY <1>2, <2>1, <2>3, SumAdd
  <2>5. F(r) \in Nat /\ F(R) \in Nat /\ f[x] \in Nat
    BY <1>2, <2>1
  <2> HIDE DEF F
  <2>6. F(R) <= F(r \union {x})
    BY <2>2, <2>4, <2>5
  <2>7. F(R) <= F(R \union (s \union {x}))
    BY <2>1, <2>6
  <2> QED
    BY <2>7
<1>5. \A s \in SUBSET Q : s \in P
  <2> HIDE DEF P, Q
  <2> QED
    BY <1>1, <1>3, <1>4, SubsetInduction
<1>6. R \union Q = S /\ Q \in SUBSET Q
  OBVIOUS
<1>7. F(R) <= F(R \union Q)
  BY <1>5, <1>6
<1> QED
  BY <1>6, <1>7


-----------------------------------------------------------------------------
(* The search for a server with room. *)

LEMMA MinIsIn ==
    ASSUME NEW S, S \subseteq Nat, S # {}
    PROVE  Min(S) \in S
<1> DEFINE R == OpToRel(<, Nat)
<1>1. IsWellFoundedOn(R, Nat)
  BY NatLessThanWellFounded
<1>2. \A i, j \in Nat : i < j => <<i, j>> \in R
  BY DEF OpToRel
<1> HIDE DEF R
<1>3. PICK m \in S : \A k \in S : ~ (<<k, m>> \in R)
  BY <1>1, WFMin
<1>4. \A k \in S : m <= k
  <2> TAKE k \in S
  <2>1. k \in Nat /\ m \in Nat /\ ~ (<<k, m>> \in R)
    BY <1>3
  <2>2. ~ (k < m)
    BY <1>2, <2>1
  <2> QED
    BY <2>1, <2>2
<1> QED
  BY <1>4 DEF Min

\* n is some number of rounds through m servers and a rest.
LEMMA DivMod ==
    ASSUME NEW n \in Nat, NEW m \in Nat, m > 0
    PROVE  /\ n \div m \in Nat /\ n % m \in 0..m - 1
           /\ n = m * (n \div m) + (n % m)
OBVIOUS

LEMMA RestIsUnique ==
    ASSUME NEW m \in Nat, m > 0, NEW q \in Nat, NEW i \in 0..m - 1
    PROVE  (m * q + i) % m = i
<1> DEFINE n == m * q + i
           p == n \div m
           j == n % m
<1>1. n \in Nat
  OBVIOUS
<1> HIDE DEF n
<1>2. p \in Nat /\ j \in 0..m - 1 /\ n = m * p + j
  BY <1>1, DivMod
<1> HIDE DEF p, j
<1>3. m * q + i = m * p + j
  BY <1>2 DEF n
<1>4. CASE p = q
  BY <1>2, <1>3, <1>4 DEF j, n
<1>5. CASE p > q
  <2>1. p - q - 1 \in Nat /\ p = q + 1 + (p - q - 1)
    BY <1>2, <1>5
  <2>2. m * p = m * q + m + m * (p - q - 1)
    BY <2>1, <1>2
  <2>3. m * (p - q - 1) >= 0
    BY <2>1
  <2>4. m * q \in Nat /\ m * p \in Nat
    BY <1>2
  <2> QED
    BY <1>2, <1>3, <2>1, <2>2, <2>3, <2>4
<1>6. CASE p < q
  <2>1. q - p - 1 \in Nat /\ q = p + 1 + (q - p - 1)
    BY <1>2, <1>6
  <2>2. m * q = m * p + m + m * (q - p - 1)
    BY <2>1, <1>2
  <2>3. m * (q - p - 1) >= 0
    BY <2>1
  <2>4. m * q \in Nat /\ m * p \in Nat
    BY <1>2
  <2> QED
    BY <1>2, <1>3, <2>1, <2>2, <2>3, <2>4
<1> QED
  BY <1>2, <1>4, <1>5, <1>6

\* m numbers in a row meet every rest.
LEMMA RowMeets ==
    ASSUME NEW m \in Nat, m > 0, NEW l \in Nat, NEW i \in 0..m - 1
    PROVE  \E n \in l .. l + m - 1 : n % m = i
<1> DEFINE q == l \div m
           r == l % m
<1>1. q \in Nat /\ r \in 0..m - 1 /\ l = m * q + r
  BY DivMod
<1> HIDE DEF q, r
<1>2. m * q \in Nat /\ m * (q + 1) = m * q + m
  BY <1>1
<1>3. CASE r <= i
  <2>1. m * q + i \in l .. l + m - 1
    BY <1>1, <1>2, <1>3
  <2>2. (m * q + i) % m = i
    BY <1>1, RestIsUnique
  <2> QED
    BY <2>1, <2>2
<1>4. CASE r > i
  <2>1. m * (q + 1) + i \in l .. l + m - 1
    BY <1>1, <1>2, <1>4
  <2>2. q + 1 \in Nat
    BY <1>1
  <2>3. (m * (q + 1) + i) % m = i
    BY <2>2, RestIsUnique
  <2> QED
    BY <2>1, <2>3
<1> QED
  BY <1>1, <1>3, <1>4

\* Elements in all, and the share of a policy that a server gets of them.
SizeOf(D) == SumFunctionOnSet(Size, D)
PolicyShare(p, i) == Part(p, i, SizeOf(Key))

\* Floats hold every number of elements.
Exact == SizeOf(Key) <= Precision

LEMMA NumParaIs == NumPara = SizeOf(Key)
<1>1. DOMAIN Size = Key
  BY PartitionAssumption
<1> QED
  BY <1>1 DEF NumPara, SumFunction, SizeOf

LEMMA ShareType == \A p \in Perfs, i \in Server : PolicyShare(p, i) \in Nat
BY FloatAssumption, NumParaIs DEF PolicyShare

LEMMA SizeOfType ==
    \A D \in SUBSET Key : SizeOf(D) \in Nat /\ IsFiniteSet(D)
<1> TAKE D \in SUBSET Key
<1>1. IsFiniteSet(D) /\ \A k \in D : Size[k] \in Nat
  BY Numbers, FS_Subset
<1> QED
  BY <1>1, SumType DEF SizeOf

LEMMA SizeOfAdd ==
    ASSUME NEW D \in SUBSET Key, NEW key \in Key, key \notin D
    PROVE  SizeOf(D \union {key}) = SizeOf(D) + Size[key]
<1>1. IsFiniteSet(D) /\ \A k \in D \union {key} : Size[k] \in Int
  BY Numbers, SizeOfType
<1>2. SizeOf(D \union {key}) = Size[key] + SizeOf(D)
  BY <1>1, SumAdd DEF SizeOf
<1>3. Size[key] \in Nat /\ SizeOf(D) \in Nat
  BY Numbers, SizeOfType
<1> QED
  BY <1>2, <1>3

\* Counts that add up to what a float holds are compared exactly.
LEMMA CountsExact ==
    ASSUME NEW c, \A i \in Server : c[i] \in Nat, Total(c) <= Precision
    PROVE  \A i \in Server : Fl(c[i]) = c[i]
<1> TAKE i \in Server
<1>1. SumFunctionOnSet(c, {i}) <= Total(c)
  BY Numbers, SumPart DEF Total
<1>2. SumFunctionOnSet(c, {i}) = c[i]
  <2>1. SumFunctionOnSet(c, {} \union {i}) = c[i] + SumFunctionOnSet(c, {})
    <3>1. IsFiniteSet({}) /\ i \notin {} /\ \A y \in {} \union {i} : c[y] \in Int
      BY FS_EmptySet
    <3> QED
      BY <3>1, SumAdd
  <2>2. SumFunctionOnSet(c, {}) = 0 /\ {} \union {i} = {i} /\ c[i] \in Nat
    BY SumEmpty
  <2> QED
    BY <2>1, <2>2
<1>3. Total(c) \in Nat /\ c[i] \in Nat /\ Precision \in Nat
  BY Numbers, SumType, PrecisionAssumption DEF Total
<1> QED
  BY <1>1, <1>2, <1>3 DEF Fl

\* The search ends at a server with room if there is one.
LEMMA SearchEnds ==
    ASSUME NEW s, s.server_log \in Nat, WithRoom(s) # {}
    PROVE  Min(WithRoom(s)) \in Nat /\ HasRoom(s, Min(WithRoom(s)) % NumServers)
<1>1. WithRoom(s) \subseteq Nat
  BY Numbers DEF WithRoom
<1>2. Min(WithRoom(s)) \in WithRoom(s)
  BY <1>1, MinIsIn
<1> QED
  BY <1>1, <1>2 DEF WithRoom

\* There is none only when the shares do not exceed what is placed.
LEMMA SearchFails ==
    ASSUME NEW s, s.server_log \in Nat, WithRoom(s) = {}, Total(s.num_para_count) <= Precision,
           \A i \in Server : s.num_para_count[i] \in Nat /\ s.server_perf[i] \in Nat
    PROVE  Total(s.server_perf) <= Total(s.num_para_count)
<1>1. IsFiniteSet(Server)
  BY Numbers
<1>2. Total(s.server_perf) \in Nat /\ Total(s.num_para_count) \in Nat
  BY <1>1, SumType DEF Total
<1> SUFFICES ASSUME Total(s.num_para_count) < Total(s.server_perf) PROVE FALSE
  BY <1>2
<1>3. PICK i \in Server : s.num_para_count[i] < s.server_perf[i]
  BY <1>1, SumLess DEF Total
<1>4. PICK n \in s.server_log .. s.server_log + NumServers - 1 : n % NumServers = i
  BY Numbers, RowMeets DEF Server
<1>5. Fl(s.num_para_count[i]) = s.num_para_count[i]
  BY CountsExact
<1>6. n \in WithRoom(s)
  BY <1>3, <1>4, <1>5 DEF WithRoom, HasRoom
<1> QED
  BY <1>6


-----------------------------------------------------------------------------
(* Placing a piece. *)

PieceSet == [server : Server, key : Nat, len : Nat]

StoreType(s) ==
    /\ Shape(s)
    /\ s.key_temp \in [Server -> Nat] /\ s.num_para_count \in [Server -> Nat]
    /\ s.server_log \in Nat
    /\ \A k \in Key : s.ps_kv[k] \in Seq(PieceSet)

\* The pieces of the arrays of D, all of them and those at one server.
PiecesIn(s, D) == UNION {{k} \X DOMAIN s.ps_kv[k] : k \in D}
At(s, p) == s.ps_kv[p[1]][p[2]]
PiecesAt(s, D, i) == {q \in PiecesIn(s, D) : At(s, q).server = i}
Lengths(s, S) == [p \in S |-> At(s, p).len]
LoadIn(s, D, i) == SumFunctionOnSet(Lengths(s, PiecesAt(s, D, i)), PiecesAt(s, D, i))

\* The pieces of D have different keys, below key_temp, and are counted.
Sound(s, D) ==
    /\ StoreType(s)
    /\ IsFiniteSet(PiecesIn(s, D))
    /\ \A p \in PiecesIn(s, D) : At(s, p).key < s.key_temp[At(s, p).server]
    /\ \A p, q \in PiecesIn(s, D) :
          p # q => At(s, p).server # At(s, q).server \/ At(s, p).key # At(s, q).key
    /\ \A i \in Server : s.num_para_count[i] = LoadIn(s, D, i)

LEMMA PieceIn ==
    ASSUME NEW s, NEW D, NEW p
    PROVE  p \in PiecesIn(s, D) <=>
             \E k \in D : \E j \in DOMAIN s.ps_kv[k] : p = <<k, j>>
BY DEF PiecesIn

LEMMA PieceType ==
    ASSUME NEW s, StoreType(s), NEW D \in SUBSET Key, NEW p \in PiecesIn(s, D)
    PROVE  At(s, p) \in PieceSet
<1>1. PICK k \in D : \E j \in DOMAIN s.ps_kv[k] : p = <<k, j>>
  BY PieceIn
<1>2. s.ps_kv[k] \in Seq(PieceSet)
  BY DEF StoreType
<1> QED
  BY <1>1, <1>2 DEF At

\* Where the next piece of an array goes, and what it is.
NextPiece(s, key) == <<key, Len(s.ps_kv[key]) + 1>>
ServerOf(n) == n % NumServers
NewPiece(s, len, n) == [server |-> ServerOf(n), key |-> s.key_temp[ServerOf(n)], len |-> len]

AfterPlace(s, t, key, len, n) ==
    /\ ServerOf(n) \in Server /\ NewPiece(s, len, n) \in PieceSet
    /\ StoreType(t)
    /\ t.ps_kv = [s.ps_kv EXCEPT ![key] = Append(s.ps_kv[key], NewPiece(s, len, n))]
    /\ t.key_temp = [s.key_temp EXCEPT ![ServerOf(n)] = @ + 1]
    /\ t.num_para_count = [s.num_para_count EXCEPT ![ServerOf(n)] = @ + len]
    /\ t.server_log = n + 1
    /\ t.seg_update_flag = s.seg_update_flag /\ t.server_perf = s.server_perf
    /\ t.task_cache = s.task_cache /\ t.num_para = s.num_para
    /\ t.num_para_flag = s.num_para_flag /\ t.stuck = s.stuck

LEMMA PlaceType ==
    ASSUME NEW s, StoreType(s), NEW key \in Key, NEW len \in Nat, NEW n \in Nat
    PROVE  AfterPlace(s, Place(s, key, len, n), key, len, n)
<1> DEFINE i == ServerOf(n)
           t == Place(s, key, len, n)
           new == NewPiece(s, len, n)
<1>1. i \in Server
  BY Numbers, DivMod DEF Server, ServerOf
<1>2. t = [s EXCEPT !.ps_kv[key] = Append(@, new), !.key_temp[i] = @ + 1,
                    !.num_para_count[i] = @ + len, !.server_log = n + 1]
  BY DEF Place, NewPiece, ServerOf
<1>3. new \in PieceSet
  BY <1>1 DEF StoreType, PieceSet, NewPiece
<1> HIDE DEF i, new
<1>4. /\ t.ps_kv = [s.ps_kv EXCEPT ![key] = Append(s.ps_kv[key], new)]
      /\ t.key_temp = [s.key_temp EXCEPT ![i] = @ + 1]
      /\ t.num_para_count = [s.num_para_count EXCEPT ![i] = @ + len]
      /\ t.server_log = n + 1
      /\ t.seg_update_flag = s.seg_update_flag /\ t.server_perf = s.server_perf
      /\ t.task_cache = s.task_cache /\ t.num_para = s.num_para
      /\ t.num_para_flag = s.num_para_flag /\ t.stuck = s.stuck
  BY <1>2 DEF StoreType, Shape, NewStore
<1>5. Shape(t)
  BY <1>2 DEF StoreType, Shape, NewStore
<1> HIDE DEF t
<1>6. StoreType(t)
  <2>1. t.key_temp \in [Server -> Nat] /\ t.num_para_count \in [Server -> Nat] /\ t.server_log \in Nat
    BY <1>1, <1>4 DEF StoreType
  <2>2. Append(s.ps_kv[key], new) \in Seq(PieceSet)
    BY <1>3 DEF StoreType
  <2>3. \A k \in Key : t.ps_kv[k] \in Seq(PieceSet)
    BY <2>2, <1>4 DEF StoreType, Shape
  <2> QED
    BY <1>5, <2>1, <2>3 DEF StoreType
<1> QED
  BY <1>1, <1>3, <1>4, <1>6 DEF i, t, new, AfterPlace


\* A piece more: at its server, under a key that no other piece has there.
LEMMA PlacePieces ==
    ASSUME NEW s, StoreType(s), NEW D \in SUBSET Key, NEW key \in D, NEW len \in Nat, NEW n \in Nat
    PROVE  LET i == ServerOf(n)
               t == Place(s, key, len, n)
               x == NextPiece(s, key)
           IN  /\ x \notin PiecesIn(s, D) /\ PiecesIn(t, D) = PiecesIn(s, D) \union {x}
               /\ \A p \in PiecesIn(s, D) : At(t, p) = At(s, p)
               /\ At(t, x) = NewPiece(s, len, n)
<1> DEFINE i == ServerOf(n)
           t == Place(s, key, len, n)
           m == Len(s.ps_kv[key])
           x == NextPiece(s, key)
           new == NewPiece(s, len, n)
<1>0. key \in Key
  OBVIOUS
<1>1. /\ new \in PieceSet
      /\ t.ps_kv = [s.ps_kv EXCEPT ![key] = Append(s.ps_kv[key], new)]
  <2>1. AfterPlace(s, Place(s, key, len, n), key, len, n)
    BY <1>0, PlaceType
  <2> QED
    BY <2>1 DEF AfterPlace
<1>2. s.ps_kv[key] \in Seq(PieceSet) /\ DOMAIN s.ps_kv = Key
  BY DEF StoreType, Shape
<1> HIDE DEF i, t, new
<1>3. /\ m \in Nat /\ DOMAIN s.ps_kv[key] = 1..m
      /\ t.ps_kv[key] = Append(s.ps_kv[key], new)
      /\ \A k \in D : k # key => t.ps_kv[k] = s.ps_kv[k]
  BY <1>1, <1>2
<1>4. /\ DOMAIN t.ps_kv[key] = 1..m + 1
      /\ t.ps_kv[key][m + 1] = new
      /\ \A j \in 1..m : t.ps_kv[key][j] = s.ps_kv[key][j]
  BY <1>1, <1>2, <1>3
<1>x. x = <<key, m + 1>>
  BY DEF NextPiece
<1> HIDE DEF m, x
<1>5. x \notin PiecesIn(s, D)
  BY <1>3, <1>x, PieceIn
<1>6. ASSUME NEW p PROVE p \in PiecesIn(t, D) <=> p \in PiecesIn(s, D) \/ p = x
  <2>1. ASSUME p \in PiecesIn(t, D) PROVE p \in PiecesIn(s, D) \/ p = x
    <3>1. PICK k \in D : \E j \in DOMAIN t.ps_kv[k] : p = <<k, j>>
      BY <2>1, PieceIn
    <3>2. CASE k # key
      BY <3>1, <3>2, <1>3, PieceIn
    <3>3. CASE k = key
      <4>1. PICK j \in 1..m + 1 : p = <<key, j>>
        BY <3>1, <3>3, <1>4
      <4>2. j \in 1..m \/ j = m + 1
        BY <1>3
      <4> QED
        BY <4>1, <4>2, <1>3, <1>x, PieceIn
    <3> QED
      BY <3>2, <3>3
  <2>2. ASSUME p \in PiecesIn(s, D) PROVE p \in PiecesIn(t, D)
    <3>1. PICK k \in D : \E j \in DOMAIN s.ps_kv[k] : p = <<k, j>>
      BY <2>2, PieceIn
    <3>2. CASE k # key
      BY <3>1, <3>2, <1>3, PieceIn
    <3>3. CASE k = key
      <4>1. PICK j \in 1..m : p = <<key, j>>
        BY <3>1, <3>3, <1>3
      <4>2. j \in 1..m + 1
        BY <1>3
      <4> QED
        BY <4>1, <4>2, <1>4, PieceIn
    <3> QED
      BY <3>2, <3>3
  <2>3. x \in PiecesIn(t, D)
    <3>1. m + 1 \in 1..m + 1
      BY <1>3
    <3> QED
      BY <3>1, <1>4, <1>x, PieceIn
  <2> QED
    BY <2>1, <2>2, <2>3
<1>7. ASSUME NEW p \in PiecesIn(s, D) PROVE At(t, p) = At(s, p)
  <2>1. PICK k \in D : \E j \in DOMAIN s.ps_kv[k] : p = <<k, j>>
    BY PieceIn
  <2>2. CASE k # key
    BY <2>1, <2>2, <1>3 DEF At
  <2>3. CASE k = key
    <3>1. PICK j \in 1..m : p = <<key, j>>
      BY <2>1, <2>3, <1>3
    <3> QED
      BY <3>1, <1>4 DEF At
  <2> QED
    BY <2>2, <2>3
<1>8. At(t, x) = new
  BY <1>4, <1>x DEF At
<1>9. PiecesIn(t, D) = PiecesIn(s, D) \union {x}
  BY <1>6
<1> QED
  BY <1>5, <1>7, <1>8, <1>9 DEF x, t, new

LEMMA PlaceLoad ==
    ASSUME NEW s, NEW D \in SUBSET Key, Sound(s, D), NEW key \in D, NEW len \in Nat, NEW n \in Nat
    PROVE  LET t == Place(s, key, len, n)
           IN  \A i \in Server : t.num_para_count[i] = LoadIn(t, D, i)
<1> DEFINE c == ServerOf(n)
           t == Place(s, key, len, n)
           x == NextPiece(s, key)
<1>1. StoreType(s)
  BY DEF Sound
<1>2. /\ x \notin PiecesIn(s, D) /\ PiecesIn(t, D) = PiecesIn(s, D) \union {x}
      /\ \A p \in PiecesIn(s, D) : At(t, p) = At(s, p)
      /\ At(t, x) = NewPiece(s, len, n)
  BY <1>1, PlacePieces
<1>0. key \in Key
  OBVIOUS
<1>p. NewPiece(s, len, n) = [server |-> c, key |-> s.key_temp[c], len |-> len]
  BY DEF NewPiece
<1>3. /\ c \in Server
      /\ t.num_para_count = [s.num_para_count EXCEPT ![c] = @ + len]
      /\ s.num_para_count \in [Server -> Nat]
  <2>1. AfterPlace(s, Place(s, key, len, n), key, len, n)
    BY <1>0, <1>1, PlaceType
  <2> QED
    BY <1>1, <2>1 DEF AfterPlace, StoreType
<1> HIDE DEF c, t, x
<1> SUFFICES ASSUME NEW i \in Server PROVE t.num_para_count[i] = LoadIn(t, D, i)
  BY DEF t
<1> DEFINE S == PiecesAt(s, D, i)
           f == Lengths(s, S)
           R == PiecesAt(t, D, i)
           e == Lengths(t, R)
<1>4. IsFiniteSet(S) /\ S \subseteq PiecesIn(s, D)
  BY FS_Subset DEF Sound, PiecesAt
<1>5. \A p \in S : f[p] \in Nat /\ f[p] = At(s, p).len /\ At(t, p) = At(s, p)
  BY <1>1, <1>2, <1>4, PieceType DEF Lengths, PieceSet
<1>6. s.num_para_count[i] = SumFunctionOnSet(f, S)
  BY DEF Sound, LoadIn
<1>7. CASE i # c
  <2>1. R = S
    BY <1>2, <1>p, <1>7 DEF PiecesAt
  <2>2. \A p \in S : f[p] = e[p]
    BY <1>5, <2>1 DEF Lengths
  <2>3. SumFunctionOnSet(f, S) = SumFunctionOnSet(e, S)
    <3> HIDE DEF f, e, S
    <3> QED
      BY <1>4, <2>2, SumSame
  <2>4. LoadIn(t, D, i) = SumFunctionOnSet(e, S)
    BY <2>1 DEF LoadIn
  <2>5. t.num_para_count[i] = s.num_para_count[i]
    BY <1>3, <1>7
  <2> QED
    BY <1>6, <2>3, <2>4, <2>5
<1>8. CASE i = c
  <2>1. R = S \union {x} /\ x \notin S
    BY <1>2, <1>p, <1>8 DEF PiecesAt
  <2>2. \A p \in S : f[p] = e[p]
    BY <1>5, <2>1 DEF Lengths
  <2>3. e[x] = len
    BY <1>2, <1>p, <2>1 DEF Lengths
  <2>4. \A p \in S \union {x} : e[p] \in Int
    BY <1>5, <2>2, <2>3
  <2>5. LoadIn(t, D, i) = SumFunctionOnSet(e, S \union {x})
    BY <2>1 DEF LoadIn
  <2>6. t.num_para_count[i] = s.num_para_count[i] + len
    BY <1>3, <1>8
  <2> HIDE DEF f, e, S, R
  <2>7. SumFunctionOnSet(e, S \union {x}) = e[x] + SumFunctionOnSet(e, S)
    BY <1>4, <2>1, <2>4, SumAdd
  <2>8. SumFunctionOnSet(f, S) = SumFunctionOnSet(e, S)
    BY <1>4, <2>2, SumSame
  <2>9. s.num_para_count[i] \in Nat
    BY <1>3
  <2> QED
    BY <1>6, <2>3, <2>5, <2>6, <2>7, <2>8, <2>9
<1> QED
  BY <1>7, <1>8

LEMMA PlaceSound ==
    ASSUME NEW s, NEW D \in SUBSET Key, Sound(s, D), NEW key \in D, NEW len \in Nat, NEW n \in Nat
    PROVE  LET t == Place(s, key, len, n)
           IN  Sound(t, D) /\ Total(t.num_para_count) = Total(s.num_para_count) + len
<1> DEFINE c == ServerOf(n)
           t == Place(s, key, len, n)
           x == NextPiece(s, key)
<1>1. StoreType(s)
  BY DEF Sound
<1>2. /\ x \notin PiecesIn(s, D) /\ PiecesIn(t, D) = PiecesIn(s, D) \union {x}
      /\ \A p \in PiecesIn(s, D) : At(t, p) = At(s, p)
      /\ At(t, x) = NewPiece(s, len, n)
  BY <1>1, PlacePieces
<1>0. key \in Key
  OBVIOUS
<1>p. NewPiece(s, len, n) = [server |-> c, key |-> s.key_temp[c], len |-> len]
  BY DEF NewPiece
<1>3. /\ c \in Server /\ StoreType(t)
      /\ t.num_para_count = [s.num_para_count EXCEPT ![c] = @ + len]
      /\ t.key_temp = [s.key_temp EXCEPT ![c] = @ + 1]
      /\ s.num_para_count \in [Server -> Nat] /\ s.key_temp \in [Server -> Nat]
  <2>1. AfterPlace(s, Place(s, key, len, n), key, len, n)
    BY <1>0, <1>1, PlaceType
  <2> QED
    BY <1>1, <2>1 DEF AfterPlace, StoreType
<1>4. \A i \in Server : t.num_para_count[i] = LoadIn(t, D, i)
  BY PlaceLoad
<1> HIDE DEF c, t, x
<1>5. IsFiniteSet(PiecesIn(t, D))
  BY <1>2, FS_AddElement DEF Sound
<1>6. \A p \in PiecesIn(s, D) : /\ At(s, p).server \in Server /\ At(s, p).key \in Nat
                                /\ At(s, p).key < s.key_temp[At(s, p).server]
  BY <1>1, PieceType DEF Sound, PieceSet
<1>7. /\ \A i \in Server : t.key_temp[i] = IF i = c THEN s.key_temp[i] + 1 ELSE s.key_temp[i]
      /\ \A i \in Server : s.key_temp[i] \in Nat
  BY <1>3
<1>8. \A p \in PiecesIn(t, D) : At(t, p).key < t.key_temp[At(t, p).server]
  <2> SUFFICES ASSUME NEW p \in PiecesIn(t, D) PROVE At(t, p).key < t.key_temp[At(t, p).server]
    OBVIOUS
  <2>1. CASE p \in PiecesIn(s, D)
    BY <2>1, <1>2, <1>6, <1>7
  <2>2. CASE p = x
    BY <2>2, <1>2, <1>p, <1>3, <1>7
  <2> QED
    BY <2>1, <2>2, <1>2
<1>9. ASSUME NEW p \in PiecesIn(t, D), NEW q \in PiecesIn(t, D), p # q
      PROVE  At(t, p).server # At(t, q).server \/ At(t, p).key # At(t, q).key
  <2>1. \A y \in PiecesIn(s, D) : At(t, x).server # At(t, y).server \/ At(t, x).key # At(t, y).key
    <3> TAKE y \in PiecesIn(s, D)
    <3>1. At(t, x).server = c /\ At(t, x).key = s.key_temp[c] /\ At(t, y) = At(s, y)
      BY <1>2, <1>p
    <3> QED
      BY <3>1, <1>6, <1>7
  <2>2. CASE p \in PiecesIn(s, D) /\ q \in PiecesIn(s, D)
    BY <2>2, <1>2, <1>9 DEF Sound
  <2>3. CASE p = x \/ q = x
    BY <2>1, <2>3, <1>2, <1>9
  <2> QED
    BY <2>2, <2>3, <1>2
<1>10. Total(t.num_para_count) = Total(s.num_para_count) + len
  <2> DEFINE f == s.num_para_count
             e == t.num_para_count
  <2>1. e[c] = f[c] + len /\ (\A i \in Server \ {c} : e[i] = f[i]) /\ \A i \in Server : f[i] \in Int
    BY <1>3
  <2> HIDE DEF e, f
  <2>2. SumFunctionOnSet(e, Server) = SumFunctionOnSet(f, Server) + len
    BY <2>1, <1>3, Numbers, SumReplace
  <2> QED
    BY <2>2 DEF Total, e, f
<1>11. Sound(t, D)
  BY <1>3, <1>4, <1>5, <1>8, <1>9 DEF Sound
<1> QED
  BY <1>10, <1>11 DEF t


\* What encoding leaves alone besides.
Same(s, t) ==
    /\ t.seg_update_flag = s.seg_update_flag /\ t.server_perf = s.server_perf
    /\ t.task_cache = s.task_cache /\ t.num_para = s.num_para
    /\ t.num_para_flag = s.num_para_flag /\ t.stuck = s.stuck

\* t has a piece more of this array.
Grown(s, t, D, key, len) ==
    /\ Sound(t, D) /\ Total(t.num_para_count) = Total(s.num_para_count) + len
    /\ Same(s, t) /\ t.ps_kv[key] # <<>>
    /\ \A k \in Key : k # key => t.ps_kv[k] = s.ps_kv[k]

\* No server exceeds its share by a piece.
Within(s) == \A i \in Server :
                /\ s.server_perf[i] \in Nat
                /\ Exact => s.num_para_count[i] < s.server_perf[i] + bigarray_bound

\* t is stuck with the shares of s, which are not enough for all arrays.
Jam(s, t) == /\ t.stuck = TRUE /\ t.server_perf = s.server_perf
             /\ Exact => Total(s.server_perf) < SizeOf(Key)

LEMMA PlaceGrown ==
    ASSUME NEW s, NEW D \in SUBSET Key, Sound(s, D), NEW key \in D, NEW len \in Nat, NEW n \in Nat
    PROVE  /\ Grown(s, Place(s, key, len, n), D, key, len)
           /\ AfterPlace(s, Place(s, key, len, n), key, len, n)
<1> DEFINE t == Place(s, key, len, n)
<1>1. StoreType(s) /\ Shape(s) /\ key \in Key
  BY DEF Sound, StoreType
<1>2. AfterPlace(s, t, key, len, n)
  BY <1>1, PlaceType
<1>3. OnlyPieces(s, t, key)
  BY <1>1, PlaceLeaves
<1>4. Sound(t, D) /\ Total(t.num_para_count) = Total(s.num_para_count) + len
  BY PlaceSound
<1> HIDE DEF t
<1>5. Same(s, t)
  BY <1>2 DEF AfterPlace, Same
<1>6. t.ps_kv[key] # <<>>
  <2>1. s.ps_kv[key] \in Seq(PieceSet) /\ NewPiece(s, len, n) \in PieceSet
    BY <1>1, <1>2 DEF StoreType, AfterPlace
  <2>2. t.ps_kv[key] = Append(s.ps_kv[key], NewPiece(s, len, n))
    BY <1>1, <1>2 DEF AfterPlace, Shape
  <2> HIDE DEF AfterPlace
  <2> QED
    BY <2>1, <2>2
<1> QED
  BY <1>2, <1>3, <1>4, <1>5, <1>6 DEF Grown, OnlyPieces, t

LEMMA RoomGrown ==
    ASSUME NEW s, NEW D \in SUBSET Key, Sound(s, D), NEW key \in D, NEW len \in Nat,
           len <= bigarray_bound, Within(s), Total(s.num_para_count) < SizeOf(Key)
    PROVE  LET t == Place(s, key, len, Min(WithRoom(s)))
           IN  IF WithRoom(s) = {} THEN Exact => Total(s.server_perf) < SizeOf(Key)
               ELSE Grown(s, t, D, key, len) /\ Within(t)
<1> DEFINE n == Min(WithRoom(s))
           t == Place(s, key, len, n)
           c == ServerOf(n)
<1>1. /\ s.server_log \in Nat /\ s.num_para_count \in [Server -> Nat]
      /\ \A i \in Server : s.num_para_count[i] \in Nat /\ s.server_perf[i] \in Nat
  BY DEF Sound, StoreType, Within
<1>a. /\ Total(s.num_para_count) \in Nat /\ Total(s.server_perf) \in Nat
      /\ SizeOf(Key) \in Nat /\ Precision \in Nat
  BY <1>1, Numbers, SumType, SizeOfType, PrecisionAssumption DEF Total
<1>b. Exact => Total(s.num_para_count) <= Precision
  BY <1>a DEF Exact
<1>c. CASE WithRoom(s) = {}
  <2>1. ASSUME Exact PROVE Total(s.server_perf) <= Total(s.num_para_count)
    BY <2>1, <1>1, <1>b, <1>c, SearchFails
  <2> QED
    BY <2>1, <1>a, <1>c
<1>d. CASE WithRoom(s) # {}
  <2>2. n \in Nat /\ HasRoom(s, c)
    BY <1>1, <1>d, SearchEnds DEF ServerOf
  <2> HIDE DEF n
  <2>3. Grown(s, t, D, key, len) /\ AfterPlace(s, t, key, len, n)
    BY <2>2, PlaceGrown
  <2> HIDE DEF t, c
  <2>4. /\ c \in Server /\ t.server_perf = s.server_perf
        /\ t.num_para_count = [s.num_para_count EXCEPT ![c] = @ + len]
    BY <2>3 DEF AfterPlace, c
  <2>5. \A i \in Server : t.num_para_count[i] =
                             IF i = c THEN s.num_para_count[i] + len ELSE s.num_para_count[i]
    BY <1>1, <2>4
  <2>6. Exact => s.num_para_count[c] < s.server_perf[c]
    BY <1>1, <1>b, <2>2, <2>4, CountsExact DEF HasRoom
  <2>7. Within(t)
    BY <1>1, <2>4, <2>5, <2>6, Numbers DEF Within
  <2> QED
    BY <1>d, <2>3, <2>7 DEF n, t
<1> QED
  BY <1>c, <1>d

LEMMA PieceGrown ==
    ASSUME NEW s, NEW D \in SUBSET Key, Sound(s, D), NEW key \in D, NEW len \in Nat,
           len <= bigarray_bound, s.stuck = FALSE,
           \/ s.seg_update_flag # 2
           \/ key # 0 /\ Within(s) /\ Total(s.num_para_count) < SizeOf(Key)
    PROVE  LET t == EncodePiece(s, key, len)
           IN  \/ Grown(s, t, D, key, len) /\ (s.seg_update_flag = 2 => Within(t))
               \/ s.seg_update_flag = 2 /\ Jam(s, t)
<1>1. CASE s.seg_update_flag # 2
  <2>1. s.server_log \in Nat
    BY DEF Sound, StoreType
  <2>2. Grown(s, Place(s, key, len, s.server_log), D, key, len)
    BY <2>1, PlaceGrown
  <2> QED
    BY <1>1, <2>2 DEF EncodePiece
<1>2. CASE s.seg_update_flag = 2
  <2> DEFINE t == Place(s, key, len, Min(WithRoom(s)))
  <2>1. IF WithRoom(s) = {} THEN Exact => Total(s.server_perf) < SizeOf(Key)
        ELSE Grown(s, t, D, key, len) /\ Within(t)
    BY <1>2, RoomGrown
  <2>2. EncodePiece(s, key, len) = IF WithRoom(s) = {} THEN [s EXCEPT !.stuck = TRUE] ELSE t
    BY <1>2 DEF EncodePiece
  <2>3. Shape(s)
    BY DEF Sound, StoreType
  <2> HIDE DEF t
  <2>4. CASE WithRoom(s) = {}
    BY <1>2, <2>1, <2>2, <2>3, <2>4 DEF Jam, Shape, NewStore
  <2>5. CASE WithRoom(s) # {}
    BY <2>1, <2>2, <2>5
  <2> QED
    BY <2>4, <2>5
<1> QED
  BY <1>1, <1>2

\* How much of an array is in its first pieces.
Amount(key, j) == IF j < Count(key) THEN j * bigarray_bound ELSE Size[key]

LEMMA AmountFacts ==
    ASSUME NEW key \in Key
    PROVE  /\ Amount(key, 0) = 0 /\ Amount(key, Count(key)) = Size[key]
           /\ \A j \in Nat : j < Count(key) =>
                /\ Lens(key)[j + 1] \in Nat /\ Lens(key)[j + 1] <= bigarray_bound
                /\ Amount(key, j) \in Nat /\ Amount(key, j) < Size[key]
                /\ Amount(key, j + 1) = Amount(key, j) + Lens(key)[j + 1]
<1> DEFINE n == Count(key)
           b == bigarray_bound
           a == Size[key]
<1>1. /\ n \in Nat /\ n > 0 /\ (n - 1) * b < a /\ a <= n * b
      /\ \A j \in 1..n : Lens(key)[j] = IF j < n THEN b ELSE a - (n - 1) * b
  BY CountFacts
<1>2. a \in Nat /\ b \in Nat /\ b > 0
  BY Numbers
<1>3. Amount(key, 0) = 0 /\ Amount(key, n) = a
  <2>1. 0 * b = 0 /\ 0 < n
    BY <1>1, <1>2
  <2>2. ~ (n < n)
    BY <1>1
  <2> QED
    BY <2>1, <2>2 DEF Amount
<1>4. ASSUME NEW j \in Nat, j < n
      PROVE  /\ Lens(key)[j + 1] \in Nat /\ Lens(key)[j + 1] <= b
             /\ Amount(key, j) \in Nat /\ Amount(key, j) < a
             /\ Amount(key, j + 1) = Amount(key, j) + Lens(key)[j + 1]
  <2>1. Amount(key, j) = j * b
    BY <1>4 DEF Amount
  <2>2. Amount(key, j + 1) = IF j + 1 < n THEN (j + 1) * b ELSE a
    BY DEF Amount
  <2>3. Lens(key)[j + 1] = IF j + 1 < n THEN b ELSE a - (n - 1) * b
    BY <1>1, <1>4
  <2> HIDE DEF n, b, a
  <2>4. (j + 1) * b = j * b + b /\ j * b \in Nat /\ (n - 1) * b = n * b - b /\ n * b \in Nat
    BY <1>1, <1>2
  <2>5. j * b <= (n - 1) * b
    <3>1. n - 1 - j \in Nat /\ n - 1 = j + (n - 1 - j)
      BY <1>1, <1>4
    <3>2. (n - 1) * b = j * b + (n - 1 - j) * b /\ (n - 1 - j) * b \in Nat
      BY <3>1, <1>2
    <3> QED
      BY <3>2, <2>4
  <2>6. CASE j + 1 < n
    BY <2>1, <2>2, <2>3, <2>4, <2>5, <2>6, <1>1, <1>2
  <2>7. CASE ~ (j + 1 < n)
    <3>1. j = n - 1
      BY <2>7, <1>1, <1>4
    <3>2. j * b = n * b - b
      BY <3>1, <2>4
    <3> QED
      BY <2>1, <2>2, <2>3, <2>4, <3>2, <2>7, <1>1, <1>2
  <2> QED
    BY <2>6, <2>7
<1> QED
  BY <1>3, <1>4

\* A whole array, from the first piece to the last.
LEMMA ArrayGrown ==
    ASSUME NEW s, NEW D \in SUBSET Key, Sound(s, D), NEW key \in D,
           NEW g, Chain(s, key, Count(key), g), s.stuck = FALSE,
           \/ s.seg_update_flag # 2
           \/ /\ key # 0 /\ Within(s)
              /\ Total(s.num_para_count) + Size[key] <= SizeOf(Key)
    PROVE  LET t == g[Count(key)]
           IN  \/ Grown(s, t, D, key, Size[key]) /\ (s.seg_update_flag = 2 => Within(t))
               \/ s.seg_update_flag = 2 /\ Jam(s, t)
<1> DEFINE n == Count(key)
<1>0. key \in Key
  OBVIOUS
<1>1. n \in Nat /\ n > 0
  BY <1>0, CountFacts
<1>2. g[0] = s /\ \A j \in Nat : j < n => g[j + 1] = EncodePiece(g[j], key, Lens(key)[j + 1])
  BY <1>1, ChainStep
<1>3. /\ Amount(key, 0) = 0 /\ Amount(key, n) = Size[key] /\ Size[key] \in Nat
      /\ \A j \in Nat : j < n =>
            /\ Lens(key)[j + 1] \in Nat /\ Lens(key)[j + 1] <= bigarray_bound
            /\ Amount(key, j) \in Nat /\ Amount(key, j) < Size[key]
            /\ Amount(key, j + 1) = Amount(key, j) + Lens(key)[j + 1]
  BY <1>0, AmountFacts, Numbers
<1> HIDE DEF n
<1> DEFINE Good(j) == /\ Sound(g[j], D) /\ Same(s, g[j])
                      /\ Total(g[j].num_para_count) = Total(s.num_para_count) + Amount(key, j)
                      /\ j > 0 => g[j].ps_kv[key] # <<>>
                      /\ \A k \in Key : k # key => g[j].ps_kv[k] = s.ps_kv[k]
                      /\ s.seg_update_flag = 2 => Within(g[j])
           Bad(j) == s.seg_update_flag = 2 /\ Jam(s, g[j])
           T == {j \in Nat : j <= n => Good(j) \/ Bad(j)}
<1>4. Total(s.num_para_count) \in Nat
  <2>1. \A i \in Server : s.num_para_count[i] \in Nat
    BY DEF Sound, StoreType
  <2> QED
    BY <2>1, Numbers, SumType DEF Total
<1>5. 0 \in T
  <2>1. Sound(g[0], D) /\ Same(s, g[0])
    BY <1>2 DEF Same
  <2>2. Total(g[0].num_para_count) = Total(s.num_para_count) + Amount(key, 0)
    BY <1>2, <1>3, <1>4
  <2>3. s.seg_update_flag = 2 => Within(g[0])
    BY <1>2
  <2>4. \A k \in Key : k # key => g[0].ps_kv[k] = s.ps_kv[k]
    BY <1>2
  <2>5. Good(0)
    BY <2>1, <2>2, <2>3, <2>4
  <2> HIDE DEF Good
  <2> QED
    BY <2>5
<1>6. ASSUME NEW j \in Nat, j \in T PROVE j + 1 \in T
  <2> SUFFICES ASSUME j + 1 <= n PROVE Good(j + 1) \/ Bad(j + 1)
    OBVIOUS
  <2>1. j < n /\ j <= n /\ j + 1 > 0
    BY <1>1
  <2>a. Good(j) \/ Bad(j)
    BY <2>1, <1>6
  <2>b. CASE Bad(j)
    <3>1. g[j + 1] = EncodePiece(g[j], key, Lens(key)[j + 1]) /\ g[j].stuck = TRUE
      BY <2>b, <1>2, <2>1 DEF Jam
    <3>2. g[j + 1] = g[j]
      BY <3>1 DEF EncodePiece
    <3>3. Bad(j + 1)
      BY <2>b, <3>2
    <3> QED
      BY <3>3
  <2>2. SUFFICES ASSUME Good(j) PROVE Good(j + 1) \/ Bad(j + 1)
    BY <2>a, <2>b
  <2> DEFINE a == g[j]
             b == g[j + 1]
             len == Lens(key)[j + 1]
  <2>3. /\ b = EncodePiece(a, key, len) /\ len \in Nat /\ len <= bigarray_bound
        /\ Amount(key, j) \in Nat /\ Amount(key, j) < Size[key]
        /\ Amount(key, j + 1) = Amount(key, j) + len
    BY <1>2, <1>3, <2>1
  <2>4. /\ Sound(a, D) /\ Same(s, a)
        /\ Total(a.num_para_count) = Total(s.num_para_count) + Amount(key, j)
        /\ \A k \in Key : k # key => a.ps_kv[k] = s.ps_kv[k]
        /\ s.seg_update_flag = 2 => Within(a)
    BY <2>2
  <2>5. SUFFICES \/ /\ Sound(b, D) /\ Same(s, b)
                    /\ Total(b.num_para_count) = Total(s.num_para_count) + Amount(key, j + 1)
                    /\ b.ps_kv[key] # <<>>
                    /\ \A k \in Key : k # key => b.ps_kv[k] = s.ps_kv[k]
                    /\ s.seg_update_flag = 2 => Within(b)
                 \/ s.seg_update_flag = 2 /\ Jam(s, b)
    OBVIOUS
  <2> HIDE DEF a, b, len
  <2>6. a.seg_update_flag = s.seg_update_flag /\ a.server_perf = s.server_perf /\ a.stuck = FALSE
    BY <2>4 DEF Same
  <2>7. \/ a.seg_update_flag # 2
        \/ key # 0 /\ Within(a) /\ Total(a.num_para_count) < SizeOf(Key)
    <3>1. SUFFICES ASSUME s.seg_update_flag = 2
                   PROVE  key # 0 /\ Within(a) /\ Total(a.num_para_count) < SizeOf(Key)
      BY <2>6
    <3>2. key # 0 /\ Total(s.num_para_count) + Size[key] <= SizeOf(Key)
      BY <3>1
    <3>3. SizeOf(Key) \in Nat
      BY SizeOfType
    <3> QED
      BY <3>1, <3>2, <3>3, <2>3, <2>4, <2>6, <1>3, <1>4
  <2>8. \/ Grown(a, b, D, key, len) /\ (a.seg_update_flag = 2 => Within(b))
        \/ a.seg_update_flag = 2 /\ Jam(a, b)
    BY <2>3, <2>4, <2>6, <2>7, PieceGrown
  <2>9. CASE Jam(a, b) /\ a.seg_update_flag = 2
    BY <2>6, <2>9 DEF Jam
  <2>10. CASE Grown(a, b, D, key, len) /\ (a.seg_update_flag = 2 => Within(b))
    <3>1. Total(b.num_para_count) = Total(s.num_para_count) + Amount(key, j + 1)
      BY <2>3, <2>4, <2>10, <1>4 DEF Grown
    <3> QED
      BY <2>4, <2>6, <2>10, <3>1 DEF Grown, Same
  <2> QED
    BY <2>8, <2>9, <2>10
<1>7. \A j \in Nat : j \in T
  <2> HIDE DEF T
  <2> QED
    BY <1>5, <1>6, NumberInduction
<1>8. n \in T /\ n <= n
  BY <1>1, <1>7
<1>9. Good(n) \/ Bad(n)
  BY <1>8
<1> QED
  BY <1>1, <1>3, <1>9 DEF n, Grown


-----------------------------------------------------------------------------
(* Encoding an array. *)

\* Being sound is about pieces, keys and counts.
LEMMA SoundSame ==
    ASSUME NEW s, NEW D, Sound(s, D), NEW t, Shape(t), t.ps_kv = s.ps_kv,
           t.key_temp = s.key_temp, t.num_para_count = s.num_para_count,
           t.server_log = s.server_log
    PROVE  Sound(t, D)
<1>1. StoreType(t)
  BY DEF Sound, StoreType
<1>2. \A p : At(t, p) = At(s, p)
  BY DEF At
<1>3. PiecesIn(t, D) = PiecesIn(s, D)
  <2>1. \A p : p \in PiecesIn(t, D) <=> p \in PiecesIn(s, D)
    BY PieceIn
  <2> QED
    BY <2>1
<1>4. \A i \in Server : LoadIn(t, D, i) = LoadIn(s, D, i)
  <2> TAKE i \in Server
  <2>1. PiecesAt(t, D, i) = PiecesAt(s, D, i)
    BY <1>2, <1>3 DEF PiecesAt
  <2>2. \A S : Lengths(t, S) = Lengths(s, S)
    BY <1>2 DEF Lengths
  <2> QED
    BY <2>1, <2>2 DEF LoadIn
<1> QED
  BY <1>1, <1>2, <1>3, <1>4 DEF Sound

\* An array without pieces does not matter.
LEMMA SoundWider ==
    ASSUME NEW s, NEW D \in SUBSET Key, Sound(s, D), NEW key \in Key, s.ps_kv[key] = <<>>
    PROVE  Sound(s, D \union {key})
<1> DEFINE E == D \union {key}
<1>1. PiecesIn(s, E) = PiecesIn(s, D)
  <2>1. DOMAIN s.ps_kv[key] = {}
    OBVIOUS
  <2>2. \A p : p \in PiecesIn(s, E) <=> p \in PiecesIn(s, D)
    BY <2>1, PieceIn
  <2> QED
    BY <2>2
<1>2. \A i \in Server : LoadIn(s, E, i) = LoadIn(s, D, i)
  BY <1>1 DEF LoadIn, PiecesAt
<1> HIDE DEF E
<1>3. Sound(s, E)
  BY <1>1, <1>2 DEF Sound
<1> QED
  BY <1>3 DEF E

LEMMA SoundEmpty ==
    ASSUME NEW s, StoreType(s), s.num_para_count = Zero
    PROVE  Sound(s, {}) /\ Total(s.num_para_count) = 0
<1>1. PiecesIn(s, {}) = {}
  BY DEF PiecesIn
<1>2. \A i \in Server : LoadIn(s, {}, i) = 0
  BY <1>1, SumEmpty DEF LoadIn, PiecesAt
<1>3. \A i \in Server : s.num_para_count[i] = 0
  BY DEF Zero
<1>4. Total(s.num_para_count) = 0
  BY <1>3, Numbers, SumZero DEF Total
<1>5. IsFiniteSet(PiecesIn(s, {}))
  BY <1>1, FS_EmptySet
<1> QED
  BY <1>1, <1>2, <1>3, <1>4, <1>5 DEF Sound

LEMMA CountParaFrame ==
    ASSUME NEW s, Shape(s), NEW key
    PROVE  LET t == CountPara(s, key)
           IN  /\ Shape(t) /\ t.ps_kv = s.ps_kv /\ t.key_temp = s.key_temp
               /\ t.num_para_count = s.num_para_count /\ t.server_log = s.server_log
               /\ t.seg_update_flag = s.seg_update_flag /\ t.server_perf = s.server_perf
               /\ t.task_cache = s.task_cache /\ t.stuck = s.stuck
BY DEF CountPara, Shape, NewStore

LEMMA RestartFrame ==
    ASSUME NEW s, StoreType(s)
    PROVE  LET t == Restart(s)
           IN  /\ StoreType(t) /\ t.num_para_count = Zero /\ t.ps_kv = s.ps_kv /\ Same(s, t)
<1> DEFINE t == Restart(s)
<1>1. Shape(t) /\ t.ps_kv = s.ps_kv /\ t.num_para_count = Zero /\ t.key_temp = Zero
      /\ t.server_log = 0
  BY DEF Restart, StoreType, Shape, NewStore
<1>2. Same(s, t)
  BY DEF Restart, StoreType, Shape, NewStore, Same
<1>3. Zero \in [Server -> Nat]
  BY DEF Zero
<1>4. StoreType(t)
  BY <1>1, <1>3 DEF StoreType
<1> QED
  BY <1>1, <1>2, <1>4

\* What an array that is encoded leaves behind.
Encoded(s0, t, D, key) ==
    /\ Sound(t, D \union {key})
    /\ Total(t.num_para_count) = SizeOf(D \union {key})
    /\ t.ps_kv[key] # <<>>
    /\ \A k \in Key : k # key => t.ps_kv[k] = s0.ps_kv[k]

\* An array that is not divided, in turn or by the shares.
LEMMA EncodeNew ==
    ASSUME NEW s0, NEW D \in SUBSET Key, Sound(s0, D), Total(s0.num_para_count) = SizeOf(D),
           NEW key \in Key, key \notin D, s0.ps_kv[key] = <<>>, key = 0 => D = {},
           s0.stuck = FALSE, s0.seg_update_flag # 2 \/ (key # 0 /\ Within(s0))
    PROVE  LET t == EncodeDefaultKey(s0, key)
           IN  \/ /\ Encoded(s0, t, D, key) /\ Same(CountPara(s0, key), t)
                  /\ s0.seg_update_flag = 2 => Within(t)
               \/ s0.seg_update_flag = 2 /\ Jam(s0, t)
<1> DEFINE s == CountPara(s0, key)
           f == First(s, key)
           t == EncodeDefaultKey(s0, key)
           E == D \union {key}
<1>1. Shape(s0)
  BY DEF Sound, StoreType
<1>2. /\ Shape(s) /\ s.ps_kv = s0.ps_kv /\ s.key_temp = s0.key_temp
      /\ s.num_para_count = s0.num_para_count /\ s.server_log = s0.server_log
      /\ s.seg_update_flag = s0.seg_update_flag /\ s.server_perf = s0.server_perf
      /\ s.stuck = FALSE
  BY <1>1, CountParaFrame
<1>3. PICK g : Chain(f, key, Count(key), g) /\ t = g[Count(key)]
  BY <1>2, EncodeIsChain
<1> HIDE DEF s, t
<1>4. Sound(s, D)
  BY <1>2, SoundSame
<1>5. /\ Sound(f, D) /\ Same(s, f) /\ f.ps_kv = s.ps_kv /\ Total(f.num_para_count) = SizeOf(D)
      /\ key # 0 => f = s
  <2>1. CASE key = 0 /\ s.seg_update_flag # 2
    <3>1. f = Restart(s) /\ D = {}
      BY <2>1 DEF First
    <3>2. StoreType(s)
      BY <1>4 DEF Sound
    <3> HIDE DEF f
    <3>3. /\ StoreType(f) /\ f.num_para_count = Zero /\ f.ps_kv = s.ps_kv /\ Same(s, f)
      BY <3>1, <3>2, RestartFrame
    <3>4. SizeOf({}) = 0
      BY SumEmpty DEF SizeOf
    <3>5. Sound(f, {}) /\ Total(f.num_para_count) = 0
      BY <3>3, SoundEmpty
    <3> QED
      BY <2>1, <3>1, <3>3, <3>4, <3>5
  <2>2. CASE ~ (key = 0 /\ s.seg_update_flag # 2)
    BY <2>2, <1>2, <1>4 DEF First, Same
  <2> QED
    BY <2>1, <2>2
<1> HIDE DEF f
<1>6. Sound(f, E) /\ key \in E /\ E \in SUBSET Key
  BY <1>2, <1>5, SoundWider
<1>7. SizeOf(E) = SizeOf(D) + Size[key]
  BY SizeOfAdd
<1>a. f.seg_update_flag = s0.seg_update_flag /\ f.server_perf = s0.server_perf /\ f.stuck = FALSE
  BY <1>2, <1>5 DEF Same
<1>8. \/ f.seg_update_flag # 2
      \/ key # 0 /\ Within(f) /\ Total(f.num_para_count) + Size[key] <= SizeOf(Key)
  <2>2. ASSUME s0.seg_update_flag = 2
        PROVE  key # 0 /\ Within(f) /\ Total(f.num_para_count) + Size[key] <= SizeOf(Key)
    <3>1. key # 0 /\ f = s /\ Within(s0)
      BY <2>2, <1>5
    <3>2. Within(f)
      BY <3>1, <1>2 DEF Within
    <3>3. SizeOf(E) <= SizeOf(Key)
      BY <1>6, Numbers, SumPart DEF SizeOf
    <3> QED
      BY <3>1, <3>2, <3>3, <1>5, <1>7
  <2> QED
    BY <1>a, <2>2
<1> HIDE DEF E
<1>9. \/ Grown(f, t, E, key, Size[key]) /\ (f.seg_update_flag = 2 => Within(t))
      \/ f.seg_update_flag = 2 /\ Jam(f, t)
  BY <1>3, <1>6, <1>8, <1>a, ArrayGrown
<1>10. CASE Jam(f, t) /\ f.seg_update_flag = 2
  BY <1>a, <1>10 DEF Jam, t
<1>11. CASE Grown(f, t, E, key, Size[key]) /\ (f.seg_update_flag = 2 => Within(t))
  <2>1. Total(t.num_para_count) = SizeOf(E)
    BY <1>5, <1>7, <1>11 DEF Grown
  <2>2. Encoded(s0, t, D, key)
    BY <1>2, <1>5, <1>11, <2>1 DEF Grown, Encoded, E
  <2>3. Same(s, t) /\ (s0.seg_update_flag = 2 => Within(t))
    BY <1>2, <1>5, <1>11 DEF Grown, Same
  <2> QED
    BY <2>2, <2>3 DEF s, t
<1> QED
  BY <1>9, <1>10, <1>11

\* Array 0 is one piece.  Each of its pieces would restart the division, and all
\* of them get the same key.
FirstFits == Size[0] <= bigarray_bound

\* Array 0 begins a new division, by the shares of a policy.
LEMMA EncodeAgain ==
    ASSUME FirstFits, NEW s0, StoreType(s0), s0.seg_update_flag = 2, s0.ps_kv[0] = <<>>,
           NEW p \in Perfs, s0.server_perf = p, CountPara(s0, 0).num_para = SizeOf(Key),
           s0.stuck = FALSE
    PROVE  LET t == EncodeDefaultKey(s0, 0)
               s == CountPara(s0, 0)
           IN  /\ \A i \in Server : t.server_perf[i] = PolicyShare(p, i)
               /\ \/ /\ Encoded(s0, t, {}, 0) /\ Within(t)
                     /\ t.seg_update_flag = 2 /\ t.task_cache = s0.task_cache /\ t.stuck = FALSE
                     /\ t.num_para = s.num_para /\ t.num_para_flag = s.num_para_flag
                  \/ Jam(t, t)
<1> DEFINE s == CountPara(s0, 0)
           t == EncodeDefaultKey(s0, 0)
           u == Rescale(s)
           len == Lens(0)[1]
<1>0. 0 \in Key
  BY Numbers
<1>1. Shape(s0)
  BY DEF StoreType
<1>2. /\ Shape(s) /\ s.ps_kv = s0.ps_kv /\ s.key_temp = s0.key_temp
      /\ s.num_para_count = s0.num_para_count /\ s.server_log = s0.server_log
      /\ s.seg_update_flag = s0.seg_update_flag /\ s.server_perf = s0.server_perf
      /\ s.task_cache = s0.task_cache /\ s.stuck = s0.stuck
  BY <1>1, CountParaFrame
<1>3. PICK g : Chain(First(s, 0), 0, Count(0), g) /\ t = g[Count(0)]
  BY <1>0, <1>2, EncodeIsChain
<1>4. s.num_para = SizeOf(Key)
  OBVIOUS
<1> HIDE DEF s, t
<1>5. First(s, 0) = s
  BY <1>2 DEF First
<1>6. Count(0) = 1
  <2>1. Count(0) \in Nat /\ Count(0) > 0 /\ (Count(0) - 1) * bigarray_bound < Size[0]
    BY <1>0, CountFacts
  <2>2. bigarray_bound \in Nat /\ bigarray_bound > 0 /\ Size[0] \in Nat
    BY <1>0, Numbers
  <2>3. (Count(0) - 1) * bigarray_bound < bigarray_bound
    BY <2>1, <2>2 DEF FirstFits
  <2>4. \A a, b \in Nat : a > 0 => ~ (a * b < b)
    <3> SUFFICES ASSUME NEW a \in Nat, NEW b \in Nat, a > 0 PROVE ~ (a * b < b)
      OBVIOUS
    <3>1. a - 1 \in Nat /\ a * b = b + (a - 1) * b
      OBVIOUS
    <3>2. (a - 1) * b \in Nat
      BY <3>1
    <3> QED
      BY <3>1, <3>2
  <2>5. Count(0) - 1 \in Nat
    BY <2>1
  <2>6. ~ (Count(0) - 1 > 0)
    BY <2>2, <2>3, <2>4, <2>5
  <2> QED
    BY <2>1, <2>6
<1>7. t = EncodePiece(s, 0, len)
  <2>1. 1 \in Nat /\ 0 \in Nat /\ 0 < 1 /\ 0 + 1 = 1
    OBVIOUS
  <2>2. Chain(s, 0, Count(0), g) /\ Count(0) \in Nat
    BY <1>3, <1>5, <1>6
  <2>3. /\ g[0] = s
        /\ \A j \in Nat : j < Count(0) => g[j + 1] = EncodePiece(g[j], 0, Lens(0)[j + 1])
    BY <2>2, ChainStep
  <2> QED
    BY <1>3, <1>6, <2>1, <2>3
<1>8. len \in Nat /\ len <= bigarray_bound /\ len = Size[0]
  <2>1. /\ Amount(0, 0) = 0 /\ Amount(0, 1) = Size[0]
        /\ \A j \in Nat : j < 1 =>
                /\ Lens(0)[j + 1] \in Nat /\ Lens(0)[j + 1] <= bigarray_bound
                /\ Amount(0, j + 1) = Amount(0, j) + Lens(0)[j + 1]
    BY <1>0, <1>6, AmountFacts
  <2>2. 0 \in Nat /\ 0 < 1 /\ 0 + 1 = 1
    OBVIOUS
  <2>3. /\ Lens(0)[1] \in Nat /\ Lens(0)[1] <= bigarray_bound
        /\ Amount(0, 1) = Amount(0, 0) + Lens(0)[1]
    BY <2>1, <2>2
  <2> QED
    BY <2>1, <2>3
<1> HIDE DEF len
<1>9. \A i \in Server : PolicyShare(p, i) \in Nat
  BY ShareType
<1>10. /\ StoreType(u) /\ u.num_para_count = Zero /\ u.ps_kv = s.ps_kv
       /\ u.seg_update_flag = s.seg_update_flag /\ u.task_cache = s.task_cache
       /\ u.stuck = s.stuck /\ u.num_para = s.num_para /\ u.num_para_flag = s.num_para_flag
       /\ u.server_perf = [i \in Server |-> Share(s, i)]
  <2> DEFINE v == Restart(s)
  <2>1. StoreType(s)
    BY <1>2 DEF StoreType
  <2>2. /\ StoreType(v) /\ v.num_para_count = Zero /\ v.ps_kv = s.ps_kv /\ Same(s, v)
    BY <2>1, RestartFrame
  <2>3. u = [v EXCEPT !.server_perf = [i \in Server |-> Share(s, i)]]
    BY DEF Rescale
  <2> HIDE DEF u, v
  <2>4. /\ Shape(u) /\ u.num_para_count = v.num_para_count /\ u.ps_kv = v.ps_kv
        /\ u.key_temp = v.key_temp /\ u.server_log = v.server_log
        /\ u.server_perf = [i \in Server |-> Share(s, i)]
        /\ u.seg_update_flag = v.seg_update_flag /\ u.task_cache = v.task_cache
        /\ u.stuck = v.stuck /\ u.num_para = v.num_para /\ u.num_para_flag = v.num_para_flag
    BY <2>2, <2>3 DEF StoreType, Shape, NewStore
  <2>5. StoreType(u)
    BY <2>2, <2>4 DEF StoreType
  <2> QED
    BY <2>2, <2>4, <2>5 DEF Same
<1> HIDE DEF u
<1>11. \A i \in Server : u.server_perf[i] = PolicyShare(p, i)
  BY <1>2, <1>4, <1>10 DEF Share, PolicyShare
<1>12. Sound(u, {}) /\ Total(u.num_para_count) = 0
  BY <1>10, SoundEmpty
<1>13. Sound(u, {0})
  <2>1. {} \in SUBSET Key /\ u.ps_kv[0] = <<>> /\ {} \union {0} = {0}
    BY <1>2, <1>10
  <2> QED
    BY <2>1, <1>0, <1>12, SoundWider
<1>14. Within(u)
  BY <1>9, <1>10, <1>11, Numbers DEF Within, Zero
<1>15. Total(u.num_para_count) < SizeOf(Key)
  <2>1. SizeOf(Key) > 0 /\ SizeOf(Key) \in Nat
    BY <1>0, Numbers, SizeOfType, SumPositive DEF SizeOf
  <2> QED
    BY <1>12, <2>1
<1> DEFINE n == Min(WithRoom(u))
           v == Place(u, 0, len, n)
<1>16. IF WithRoom(u) = {} THEN Exact => Total(u.server_perf) < SizeOf(Key)
       ELSE Grown(u, v, {0}, 0, len) /\ Within(v)
  <2>1. {0} \in SUBSET Key /\ 0 \in {0}
    BY <1>0
  <2> QED
    BY <2>1, <1>8, <1>13, <1>14, <1>15, RoomGrown
<1>17. t = IF WithRoom(u) = {} THEN [u EXCEPT !.stuck = TRUE] ELSE v
  BY <1>2, <1>7 DEF EncodePiece, u
<1> HIDE DEF n, v
<1>18. CASE WithRoom(u) = {}
  <2>1. Shape(u)
    BY <1>10 DEF StoreType
  <2>2. t.stuck = TRUE /\ t.server_perf = u.server_perf
    BY <2>1, <1>17, <1>18 DEF Shape, NewStore
  <2> QED
    BY <2>2, <1>11, <1>16, <1>18 DEF Jam, t
<1>19. CASE WithRoom(u) # {}
  <2>1. Grown(u, t, {0}, 0, len) /\ Within(t)
    BY <1>16, <1>17, <1>19
  <2>2. SizeOf({}) = 0 /\ SizeOf({} \union {0}) = SizeOf({}) + Size[0] /\ {} \union {0} = {0}
    BY <1>0, SumEmpty, SizeOfAdd DEF SizeOf
  <2>3. Total(t.num_para_count) = SizeOf({0})
    BY <1>0, <1>8, <1>12, <2>1, <2>2, Numbers DEF Grown
  <2>4. Encoded(s0, t, {}, 0)
    BY <1>2, <1>10, <2>1, <2>2, <2>3 DEF Grown, Encoded
  <2>5. /\ \A i \in Server : t.server_perf[i] = PolicyShare(p, i)
        /\ t.seg_update_flag = 2 /\ t.task_cache = s0.task_cache /\ t.stuck = FALSE
        /\ t.num_para = s.num_para /\ t.num_para_flag = s.num_para_flag
    BY <1>2, <1>10, <1>11, <2>1 DEF Grown, Same
  <2> QED
    BY <2>1, <2>4, <2>5 DEF s, t
<1> QED
  BY <1>18, <1>19


-----------------------------------------------------------------------------
(* A worker, from its start through the rounds. *)

\* The arrays whose pieces have been placed since the last restart.
Since(s, r, e, n) ==
    IF r = 0 THEN e ELSE IF s.seg_update_flag = 2 /\ n > 0 THEN 0..n - 1 ELSE Key

\* The load follows policy l.
Follows(s, l) == Within(s) /\ \A i \in Server : s.server_perf[i] = PolicyShare(l, i)

\* The store s of a worker in round r, when it has divided the arrays of e and
\* pushed n of them, the policy is p and the last one was l.
WorkerInv(s, r, e, n, p, l) ==
    /\ Sound(s, Since(s, r, e, n))
    /\ Total(s.num_para_count) = SizeOf(Since(s, r, e, n))
    /\ \A k \in Key : s.ps_kv[k] = <<>> <=> r = 0 /\ k \notin e
    /\ s.stuck = FALSE /\ s.seg_update_flag \in {2, 3} /\ s.task_cache = FALSE
    /\ s.seg_update_flag = 2 => r > 0 /\ l # NoPolicy
    /\ r = 0 => /\ l = NoPolicy
                /\ \/ e = {} /\ s.num_para_flag = 0 /\ s.num_para = 0
                   \/ 0 \in e /\ s.num_para_flag = 1 /\ s.num_para = SizeOf(e)
    /\ r > 0 => /\ s.num_para_flag \in {1, 3} /\ s.num_para = SizeOf(Key)
                /\ s.num_para_flag = 1 => n = 0
                /\ l # NoPolicy /\ (n > 0 \/ p = NoPolicy) => Follows(s, l)

\* The store of a worker that will search for ever: the shares of policy l are
\* not enough for all arrays.
Jammed(s, l) ==
    /\ s.stuck = TRUE /\ l # NoPolicy
    /\ \A i \in Server : s.server_perf[i] = PolicyShare(l, i)
    /\ Exact => Total(s.server_perf) < SizeOf(Key)

LEMMA WorkerInit == WorkerInv(NewStore, 0, {}, NumKeys, NoPolicy, NoPolicy)
<1>1. StoreType(NewStore) /\ NewStore.num_para_count = Zero
  <2>1. Zero \in [Server -> Nat]
    BY DEF Zero
  <2>2. \A k \in Key : NewStore.ps_kv[k] = <<>> /\ <<>> \in Seq(PieceSet)
    BY DEF NewStore
  <2> QED
    BY <2>1, <2>2 DEF StoreType, Shape, NewStore
<1>2. Sound(NewStore, {}) /\ Total(NewStore.num_para_count) = 0
  BY <1>1, SoundEmpty
<1>3. SizeOf({}) = 0
  BY SumEmpty DEF SizeOf
<1>4. Since(NewStore, 0, {}, NumKeys) = {}
  BY DEF Since
<1>5. /\ \A k \in Key : NewStore.ps_kv[k] = <<>>
      /\ NewStore.stuck = FALSE /\ NewStore.seg_update_flag = 3 /\ NewStore.task_cache = FALSE
      /\ NewStore.num_para_flag = 0 /\ NewStore.num_para = 0
  BY DEF NewStore
<1> HIDE DEF NewStore
<1>6. \A k \in Key : NewStore.ps_kv[k] = <<>> <=> 0 = 0 /\ k \notin {}
  BY <1>5
<1>7. ~ (0 > 0)
  OBVIOUS
<1>8. /\ Sound(NewStore, Since(NewStore, 0, {}, NumKeys))
      /\ Total(NewStore.num_para_count) = SizeOf(Since(NewStore, 0, {}, NumKeys))
  BY <1>2, <1>3, <1>4
<1>9. /\ NewStore.seg_update_flag \in {2, 3}
      /\ NewStore.seg_update_flag = 2 => 0 > 0 /\ NoPolicy # NoPolicy
  BY <1>5
<1> QED
  BY <1>5, <1>6, <1>7, <1>8, <1>9, Zenon DEF WorkerInv

\* Before the first round the arrays are dealt out in turn.
LEMMA WorkerEncode ==
    ASSUME NEW s, NEW e \in SUBSET Key, NEW n, NEW p, NEW l, WorkerInv(s, 0, e, n, p, l),
           NEW key \in Key, key \notin e, key # 0 => 0 \in e
    PROVE  WorkerInv(EncodeDefaultKey(s, key), 0, e \union {key}, n, p, l)
<1> DEFINE t == EncodeDefaultKey(s, key)
           c == CountPara(s, key)
           E == e \union {key}
<1>1. /\ Sound(s, e) /\ Total(s.num_para_count) = SizeOf(e) /\ Shape(s)
      /\ s.ps_kv[key] = <<>> /\ s.seg_update_flag = 3 /\ s.stuck = FALSE /\ s.task_cache = FALSE
  BY DEF WorkerInv, Since, Sound, StoreType
<1>2. key = 0 => e = {}
  BY DEF WorkerInv
<1>3. Encoded(s, t, e, key) /\ Same(c, t)
  <2>1. s.seg_update_flag # 2
    BY <1>1
  <2> QED
    BY <1>1, <1>2, <2>1, EncodeNew
<1>4. /\ c.seg_update_flag = s.seg_update_flag /\ c.task_cache = s.task_cache /\ c.stuck = s.stuck
  BY <1>1, CountParaFrame
<1>5. /\ c.num_para_flag = 1 /\ c.num_para = SizeOf(E)
  <2>1. SizeOf(E) = SizeOf(e) + Size[key] /\ SizeOf(e) \in Nat /\ Size[key] \in Nat
    BY SizeOfAdd, SizeOfType, Numbers
  <2>2. SizeOf({}) = 0
    BY SumEmpty DEF SizeOf
  <2>3. CASE key = 0
    <3>0. e = {}
      BY <1>2, <2>3
    <3>1. s.num_para_flag = 0 /\ s.num_para = 0
      BY <3>0 DEF WorkerInv
    <3>2. SizeOf(e) = 0
      BY <3>0, <2>2
    <3> HIDE DEF E
    <3> QED
      BY <2>1, <2>3, <3>1, <3>2, <1>1 DEF CountPara, Shape, NewStore
  <2>4. CASE key # 0
    <3>1. s.num_para_flag = 1 /\ s.num_para = SizeOf(e)
      BY <2>4 DEF WorkerInv
    <3> HIDE DEF E
    <3> QED
      BY <2>1, <2>4, <3>1, <1>1 DEF CountPara, Shape, NewStore
  <2> QED
    BY <2>3, <2>4
<1>6. 0 \in E
  OBVIOUS
<1> HIDE DEF t, c
<1>7. Since(t, 0, E, n) = E
  BY DEF Since
<1>8. Sound(t, E) /\ Total(t.num_para_count) = SizeOf(E)
  BY <1>3 DEF Encoded
<1>9. \A k \in Key : t.ps_kv[k] = <<>> <=> 0 = 0 /\ k \notin E
  BY <1>3 DEF Encoded, WorkerInv
<1>10. /\ t.seg_update_flag = 3 /\ t.stuck = FALSE /\ t.task_cache = FALSE
       /\ t.num_para_flag = 1 /\ t.num_para = SizeOf(E)
  BY <1>1, <1>3, <1>4, <1>5 DEF Same
<1>11. l = NoPolicy
  BY DEF WorkerInv
<1> HIDE DEF E
<1>12. WorkerInv(t, 0, E, n, p, l)
  BY <1>6, <1>7, <1>8, <1>9, <1>10, <1>11 DEF WorkerInv
<1> QED
  BY <1>12 DEF t, E

\* A round begins.
LEMMA WorkerRelease ==
    ASSUME NEW s, NEW r \in Nat, NEW p, NEW l, WorkerInv(s, r, Key, NumKeys, p, l),
           NEW q, NEW m, m = IF q = NoPolicy THEN l ELSE q
    PROVE  WorkerInv(s, r + 1, Key, 0, q, m)
<1>1. Since(s, r, Key, NumKeys) = Key /\ Since(s, r + 1, Key, 0) = Key
  BY Numbers DEF Since, Key
<1>2. NumKeys > 0 /\ 0 \in Key /\ Key # {}
  BY Numbers
<1>3. r + 1 # 0 /\ r + 1 > 0 /\ (r = 0 \/ r > 0)
  OBVIOUS
<1>4. Sound(s, Key) /\ Total(s.num_para_count) = SizeOf(Key)
  BY <1>1 DEF WorkerInv
<1>5. \A k \in Key : s.ps_kv[k] = <<>> <=> r + 1 = 0 /\ k \notin Key
  BY <1>3 DEF WorkerInv
<1>6. s.num_para_flag \in {1, 3} /\ s.num_para = SizeOf(Key)
  BY <1>2, <1>3 DEF WorkerInv
<1>7. m # NoPolicy /\ q = NoPolicy => Follows(s, m)
  BY <1>2, <1>3 DEF WorkerInv
<1>8. /\ s.stuck = FALSE /\ s.seg_update_flag \in {2, 3} /\ s.task_cache = FALSE
      /\ s.seg_update_flag = 2 => m # NoPolicy
  BY DEF WorkerInv
<1> QED
  BY <1>1, <1>3, <1>4, <1>5, <1>6, <1>7, <1>8 DEF WorkerInv


\* The pieces of an array that is to be divided again are dropped.
Cut(s, key) == [s EXCEPT !.ps_kv[key] = <<>>]

LEMMA SoundCut ==
    ASSUME NEW s, NEW D \in SUBSET Key, Sound(s, D), NEW key \in Key, key \notin D
    PROVE  LET t == Cut(s, key)
           IN  /\ Sound(t, D) /\ Same(s, t) /\ t.ps_kv[key] = <<>>
               /\ t.num_para_count = s.num_para_count
               /\ \A k \in Key : k # key => t.ps_kv[k] = s.ps_kv[k]
<1> DEFINE t == Cut(s, key)
<1>1. StoreType(s) /\ Shape(s)
  BY DEF Sound, StoreType
<1>2. /\ Shape(t) /\ t.key_temp = s.key_temp /\ t.num_para_count = s.num_para_count
      /\ t.server_log = s.server_log /\ Same(s, t)
      /\ t.ps_kv[key] = <<>> /\ \A k \in Key : k # key => t.ps_kv[k] = s.ps_kv[k]
  BY <1>1 DEF Shape, NewStore, Same, Cut
<1> HIDE DEF t
<1>3. StoreType(t)
  <2>1. <<>> \in Seq(PieceSet)
    OBVIOUS
  <2>2. \A k \in Key : t.ps_kv[k] \in Seq(PieceSet)
    BY <1>1, <1>2, <2>1 DEF StoreType
  <2> QED
    BY <1>1, <1>2, <2>2 DEF StoreType
<1>4. \A k \in D : t.ps_kv[k] = s.ps_kv[k]
  BY <1>2
<1>5. PiecesIn(t, D) = PiecesIn(s, D)
  <2>1. \A p : p \in PiecesIn(t, D) <=> p \in PiecesIn(s, D)
    BY <1>4, PieceIn
  <2> QED
    BY <2>1
<1>6. \A p \in PiecesIn(s, D) : At(t, p) = At(s, p)
  BY <1>4, PieceIn DEF At
<1>7. \A i \in Server : LoadIn(t, D, i) = LoadIn(s, D, i)
  <2> TAKE i \in Server
  <2>1. PiecesAt(t, D, i) = PiecesAt(s, D, i) /\ PiecesAt(s, D, i) \subseteq PiecesIn(s, D)
    BY <1>5, <1>6 DEF PiecesAt
  <2>2. Lengths(t, PiecesAt(s, D, i)) = Lengths(s, PiecesAt(s, D, i))
    BY <1>6, <2>1 DEF Lengths
  <2> QED
    BY <2>1, <2>2 DEF LoadIn
<1>8. Sound(t, D)
  BY <1>2, <1>3, <1>5, <1>6, <1>7 DEF Sound
<1> QED
  BY <1>2, <1>8 DEF t

\* A store whose arrays are all divided: encoding only counts.
LEMMA WorkerKeep ==
    ASSUME NEW s0, NEW s, NEW r \in Nat, NEW p, NEW l, NEW n \in Key,
           r > 0, WorkerInv(s0, r, Key, n, p, l), Since(s0, r, Key, n) = Key,
           n > 0 \/ p = NoPolicy,
           Shape(s), s.ps_kv = s0.ps_kv, s.key_temp = s0.key_temp,
           s.num_para_count = s0.num_para_count, s.server_log = s0.server_log,
           s.server_perf = s0.server_perf, s.seg_update_flag = 3,
           s.task_cache = FALSE, s.stuck = FALSE,
           s.num_para = s0.num_para, s.num_para_flag = s0.num_para_flag
    PROVE  WorkerInv(EncodeDefaultKey(s, n), r, Key, n + 1, p, l)
<1> DEFINE t == EncodeDefaultKey(s, n)
<1>0. n \in Nat
  BY DEF Key
<1>1. s.num_para_flag \in {1, 3} /\ s.num_para = SizeOf(Key) /\ (s.num_para_flag = 1 => n = 0)
  BY DEF WorkerInv
<1>2. /\ Shape(CountPara(s, n)) /\ CountPara(s, n).ps_kv = s.ps_kv
      /\ CountPara(s, n).key_temp = s.key_temp
      /\ CountPara(s, n).num_para_count = s.num_para_count
      /\ CountPara(s, n).server_log = s.server_log
      /\ CountPara(s, n).seg_update_flag = s.seg_update_flag
      /\ CountPara(s, n).server_perf = s.server_perf
      /\ CountPara(s, n).task_cache = s.task_cache /\ CountPara(s, n).stuck = s.stuck
  BY CountParaFrame
<1>3. CountPara(s, n).num_para_flag = 3 /\ CountPara(s, n).num_para = SizeOf(Key)
  BY <1>1 DEF CountPara, Shape, NewStore
<1>4. \A k \in Key : s.ps_kv[k] # <<>>
  BY DEF WorkerInv
<1>5. t = CountPara(s, n)
  BY <1>2, <1>4, EncodeIsChain
<1> HIDE DEF t
<1>6. Sound(t, Key) /\ Total(t.num_para_count) = SizeOf(Key)
  BY <1>2, <1>5, SoundSame DEF WorkerInv
<1>7. Since(t, r, Key, n + 1) = Key
  BY <1>2, <1>5 DEF Since
<1>8. l # NoPolicy => Follows(t, l)
  BY <1>2, <1>5 DEF WorkerInv, Follows, Within
<1>9. \A k \in Key : t.ps_kv[k] = <<>> <=> r = 0 /\ k \notin Key
  BY <1>2, <1>4, <1>5
<1>10. /\ t.stuck = FALSE /\ t.seg_update_flag = 3 /\ t.task_cache = FALSE
       /\ t.num_para_flag = 3 /\ t.num_para = SizeOf(Key)
  BY <1>2, <1>3, <1>5
<1> QED
  <2>1. WorkerInv(t, r, Key, n + 1, p, l)
    BY <1>6, <1>7, <1>8, <1>9, <1>10 DEF WorkerInv
  <2> QED
    BY <2>1 DEF t

\* Array 0 with a policy: all is divided again.
LEMMA WorkerRestart ==
    ASSUME FirstFits, NEW s, NEW r \in Nat, r > 0, NEW p \in Perfs, p # NoPolicy,
           WorkerInv(s, r, Key, 0, p, p)
    PROVE  WorkerInv(Step(r, p, s, 0), r, Key, 1, p, p) \/ Jammed(Step(r, p, s, 0), p)
<1> DEFINE a == TaskDivisionUpdate(s, p)
           b == TurnFlag(a)
           c == Cut(b, 0)
           t == EncodeDefaultKey(c, 0)
<1>0. 0 \in Key
  BY Numbers
<1>1. /\ s.seg_update_flag \in {2, 3} /\ s.task_cache = FALSE /\ s.stuck = FALSE
      /\ s.num_para_flag \in {1, 3} /\ s.num_para = SizeOf(Key)
      /\ StoreType(s) /\ Shape(s) /\ \A k \in Key : s.ps_kv[k] # <<>>
  BY DEF WorkerInv, Sound, StoreType
<1>2. /\ b.seg_update_flag = 2 /\ b.server_perf = p /\ b.task_cache = FALSE /\ b.stuck = FALSE
      /\ b.num_para_flag = s.num_para_flag /\ b.num_para = s.num_para
      /\ Shape(b) /\ b.ps_kv = s.ps_kv /\ b.key_temp = s.key_temp
      /\ b.num_para_count = s.num_para_count /\ b.server_log = s.server_log
  <2>1. CASE s.seg_update_flag = 3
    <3>1. a = [s EXCEPT !.server_perf = p, !.seg_update_flag = 4]
      BY <2>1 DEF TaskDivisionUpdate
    <3>2. a.seg_update_flag = 4 /\ a.task_cache = FALSE
      BY <3>1, <1>1 DEF Shape, NewStore
    <3> HIDE DEF a
    <3>3. b = [a EXCEPT !.seg_update_flag = 1 + 1]
      BY <3>2 DEF TurnFlag
    <3>4. /\ a.stuck = s.stuck /\ a.num_para_flag = s.num_para_flag /\ a.num_para = s.num_para
          /\ Shape(a) /\ a.ps_kv = s.ps_kv /\ a.key_temp = s.key_temp /\ a.server_perf = p
          /\ a.num_para_count = s.num_para_count /\ a.server_log = s.server_log
      BY <3>1, <1>1 DEF Shape, NewStore
    <3>5. /\ b.seg_update_flag = 2 /\ b.server_perf = a.server_perf /\ b.task_cache = a.task_cache
      BY <3>3, <3>4 DEF Shape, NewStore
    <3>6. /\ b.stuck = a.stuck /\ b.num_para_flag = a.num_para_flag /\ b.num_para = a.num_para
          /\ Shape(b) /\ b.ps_kv = a.ps_kv /\ b.key_temp = a.key_temp
          /\ b.num_para_count = a.num_para_count /\ b.server_log = a.server_log
      BY <3>3, <3>4 DEF Shape, NewStore
    <3> HIDE DEF b
    <3> QED
      BY <3>2, <3>4, <3>5, <3>6, <1>1
  <2>2. CASE s.seg_update_flag = 2
    <3>1. a = [s EXCEPT !.server_perf_temp = p, !.task_cache = TRUE]
      BY <2>2 DEF TaskDivisionUpdate
    <3>2. a.seg_update_flag = 2 /\ a.task_cache = TRUE /\ a.server_perf_temp = p
      BY <2>2, <3>1, <1>1 DEF Shape, NewStore
    <3> HIDE DEF a
    <3>3. b = [a EXCEPT !.seg_update_flag = 2, !.task_cache = FALSE, !.server_perf = p]
      BY <3>2 DEF TurnFlag
    <3>4. /\ a.stuck = s.stuck /\ a.num_para_flag = s.num_para_flag /\ a.num_para = s.num_para
          /\ Shape(a) /\ a.ps_kv = s.ps_kv /\ a.key_temp = s.key_temp
          /\ a.num_para_count = s.num_para_count /\ a.server_log = s.server_log
      BY <3>1, <1>1 DEF Shape, NewStore
    <3>5. /\ b.seg_update_flag = 2 /\ b.server_perf = p /\ b.task_cache = FALSE
      BY <3>3, <3>4 DEF Shape, NewStore
    <3>6. /\ b.stuck = a.stuck /\ b.num_para_flag = a.num_para_flag /\ b.num_para = a.num_para
          /\ Shape(b) /\ b.ps_kv = a.ps_kv /\ b.key_temp = a.key_temp
          /\ b.num_para_count = a.num_para_count /\ b.server_log = a.server_log
      BY <3>3, <3>4 DEF Shape, NewStore
    <3> HIDE DEF b
    <3> QED
      BY <3>4, <3>5, <3>6, <1>1
  <2> QED
    BY <2>1, <2>2, <1>1
<1>3. Step(r, p, s, 0) = t
  <2>1. DividedAgain(b, 0)
    BY <1>2 DEF DividedAgain
  <2>2. Prepared(p, s, 0) = c
    BY <2>1 DEF Prepared, Cut
  <2> QED
    BY <2>2 DEF Step
<1> HIDE DEF a, b
<1>4. /\ c.seg_update_flag = 2 /\ c.server_perf = p /\ c.task_cache = FALSE /\ c.stuck = FALSE
      /\ c.num_para_flag = s.num_para_flag /\ c.num_para = s.num_para
      /\ Shape(c) /\ c.key_temp = s.key_temp
      /\ c.num_para_count = s.num_para_count /\ c.server_log = s.server_log
      /\ c.ps_kv[0] = <<>> /\ \A k \in Key : k # 0 => c.ps_kv[k] = s.ps_kv[k]
  BY <1>0, <1>2 DEF Shape, NewStore, Cut
<1> HIDE DEF c
<1>5. StoreType(c)
  <2>1. <<>> \in Seq(PieceSet)
    OBVIOUS
  <2>2. \A k \in Key : c.ps_kv[k] \in Seq(PieceSet)
    BY <1>1, <1>4, <2>1 DEF StoreType
  <2> QED
    BY <1>1, <1>4, <2>2 DEF StoreType
<1>6. CountPara(c, 0).num_para_flag = 3 /\ CountPara(c, 0).num_para = SizeOf(Key)
  BY <1>1, <1>4 DEF CountPara, Shape, NewStore
<1>a. /\ \A i \in Server : t.server_perf[i] = PolicyShare(p, i)
      /\ \/ /\ Encoded(c, t, {}, 0) /\ Within(t)
            /\ t.seg_update_flag = 2 /\ t.task_cache = FALSE /\ t.stuck = FALSE
            /\ t.num_para = SizeOf(Key) /\ t.num_para_flag = 3
         \/ Jam(t, t)
  BY <1>4, <1>5, <1>6, EncodeAgain
<1> HIDE DEF t
<1>b. CASE Jam(t, t)
  BY <1>3, <1>a, <1>b DEF Jam, Jammed
<1>7. SUFFICES ASSUME /\ Encoded(c, t, {}, 0) /\ Within(t)
                      /\ \A i \in Server : t.server_perf[i] = PolicyShare(p, i)
                      /\ t.seg_update_flag = 2 /\ t.task_cache = FALSE /\ t.stuck = FALSE
                      /\ t.num_para = SizeOf(Key) /\ t.num_para_flag = 3
               PROVE  WorkerInv(t, r, Key, 1, p, p)
  BY <1>3, <1>a, <1>b
<1>8. Since(t, r, Key, 1) = {0}
  BY <1>7 DEF Since
<1>9. Sound(t, {0}) /\ Total(t.num_para_count) = SizeOf({0})
  <2>1. {} \union {0} = {0}
    OBVIOUS
  <2> QED
    BY <1>7, <2>1 DEF Encoded
<1>10. \A k \in Key : t.ps_kv[k] = <<>> <=> r = 0 /\ k \notin Key
  BY <1>1, <1>4, <1>7 DEF Encoded
<1>11. Follows(t, p)
  BY <1>7 DEF Follows
<1>12. WorkerInv(t, r, Key, 1, p, p)
  <2>1. r # 0 /\ t.seg_update_flag \in {2, 3} /\ t.num_para_flag \in {1, 3} /\ t.num_para_flag # 1
    BY <1>7
  <2>2. /\ Sound(t, Since(t, r, Key, 1))
        /\ Total(t.num_para_count) = SizeOf(Since(t, r, Key, 1))
    BY <1>8, <1>9
  <2> QED
    BY <1>7, <1>10, <1>11, <2>1, <2>2, Zenon DEF WorkerInv
<1> QED
  BY <1>12

\* The arrays after array 0, in a round that divides all again.
LEMMA WorkerContinue ==
    ASSUME NEW s, NEW r \in Nat, r > 0, NEW p, NEW l \in Perfs \union {NoPolicy},
           NEW n \in Key, n > 0, s.seg_update_flag = 2, WorkerInv(s, r, Key, n, p, l)
    PROVE  WorkerInv(Step(r, p, s, n), r, Key, n + 1, p, l) \/ Jammed(Step(r, p, s, n), l)
<1> DEFINE D == 0..n - 1
           E == D \union {n}
           c == Cut(s, n)
           t == EncodeDefaultKey(c, n)
<1>0. n \in Nat /\ n # 0 /\ D \in SUBSET Key /\ n \notin D /\ E = 0..(n + 1) - 1 /\ E \in SUBSET Key
  BY Numbers DEF Key
<1>1. Since(s, r, Key, n) = D
  BY DEF Since
<1>2. l \in Perfs /\ l # NoPolicy
  BY DEF WorkerInv
<1>3. /\ Sound(s, D) /\ Total(s.num_para_count) = SizeOf(D) /\ Follows(s, l)
      /\ s.stuck = FALSE /\ s.task_cache = FALSE
      /\ s.num_para_flag = 3 /\ s.num_para = SizeOf(Key)
      /\ \A k \in Key : s.ps_kv[k] # <<>>
  BY <1>0, <1>1, <1>2 DEF WorkerInv
<1>4. Step(r, p, s, n) = t
  <2>1. DividedAgain(s, n)
    BY DEF DividedAgain
  <2>2. Prepared(p, s, n) = c
    BY <1>0, <2>1 DEF Prepared, Cut
  <2> QED
    BY <2>2 DEF Step
<1> HIDE DEF D
<1>5. /\ Sound(c, D) /\ Same(s, c) /\ c.ps_kv[n] = <<>>
      /\ c.num_para_count = s.num_para_count
      /\ \A k \in Key : k # n => c.ps_kv[k] = s.ps_kv[k]
  BY <1>0, <1>3, SoundCut
<1> HIDE DEF c
<1>6. Within(c) /\ c.server_perf = s.server_perf /\ c.seg_update_flag = 2
  BY <1>3, <1>5 DEF Follows, Within, Same
<1>7. \/ /\ Encoded(c, t, D, n) /\ Same(CountPara(c, n), t) /\ Within(t)
      \/ Jam(c, t)
  <2>1. c.stuck = FALSE
    BY <1>3, <1>5 DEF Same
  <2> QED
    BY <2>1, <1>0, <1>3, <1>5, <1>6, EncodeNew
<1>a. CASE Jam(c, t)
  <2> HIDE DEF t
  <2> QED
    BY <1>2, <1>3, <1>4, <1>6, <1>a DEF Jam, Jammed, Follows
<1>8. SUFFICES ASSUME Encoded(c, t, D, n), Same(CountPara(c, n), t), Within(t)
               PROVE  WorkerInv(t, r, Key, n + 1, p, l)
  BY <1>4, <1>7, <1>a
<1>9. /\ CountPara(c, n).num_para_flag = 3 /\ CountPara(c, n).num_para = SizeOf(Key)
      /\ CountPara(c, n).seg_update_flag = 2 /\ CountPara(c, n).server_perf = s.server_perf
      /\ CountPara(c, n).task_cache = FALSE /\ CountPara(c, n).stuck = FALSE
  <2>1. Shape(c) /\ c.num_para_flag = 3 /\ c.num_para = SizeOf(Key)
        /\ c.task_cache = FALSE /\ c.stuck = FALSE
    BY <1>3, <1>5 DEF Sound, StoreType, Same
  <2>2. /\ CountPara(c, n).num_para_flag = 3 /\ CountPara(c, n).num_para = SizeOf(Key)
    BY <1>0, <2>1 DEF CountPara, Shape, NewStore
  <2> QED
    BY <1>6, <2>1, <2>2, CountParaFrame
<1> HIDE DEF t
<1>10. /\ t.num_para_flag = 3 /\ t.num_para = SizeOf(Key) /\ t.seg_update_flag = 2
       /\ t.server_perf = s.server_perf /\ t.task_cache = FALSE /\ t.stuck = FALSE
  BY <1>8, <1>9 DEF Same
<1>11. Follows(t, l)
  BY <1>3, <1>8, <1>10 DEF Follows
<1>12. Sound(t, E) /\ Total(t.num_para_count) = SizeOf(E)
  BY <1>8 DEF Encoded
<1>13. \A k \in Key : t.ps_kv[k] = <<>> <=> r = 0 /\ k \notin Key
  BY <1>3, <1>5, <1>8 DEF Encoded
<1> HIDE DEF E
<1>14. Since(t, r, Key, n + 1) = E
  BY <1>0, <1>10 DEF Since
<1>15. WorkerInv(t, r, Key, n + 1, p, l)
  BY <1>2, <1>10, <1>11, <1>12, <1>13, <1>14 DEF WorkerInv
<1> QED
  BY <1>15

LEMMA WorkerPush ==
    ASSUME FirstFits, NEW s, NEW r \in Nat, r > 0, NEW p, NEW l \in Perfs \union {NoPolicy},
           p # NoPolicy => l = p, NEW n \in Key, WorkerInv(s, r, Key, n, p, l)
    PROVE  WorkerInv(Step(r, p, s, n), r, Key, n + 1, p, l) \/ Jammed(Step(r, p, s, n), l)
<1>0. n \in Nat /\ (n = 0 \/ n > 0) /\ r # 0 /\ 0 + 1 = 1
  BY DEF Key
<1>1. /\ s.seg_update_flag \in {2, 3} /\ s.task_cache = FALSE /\ s.stuck = FALSE /\ Shape(s)
  BY DEF WorkerInv, Sound, StoreType
<1>2. CASE n = 0 /\ p # NoPolicy
  BY <1>0, <1>2, WorkerRestart
<1>3. CASE n > 0 /\ s.seg_update_flag = 2
  BY <1>3, WorkerContinue
<1>4. CASE n > 0 /\ s.seg_update_flag = 3
  <2>1. Since(s, r, Key, n) = Key
    BY <1>0, <1>4 DEF Since
  <2>2. ~ DividedAgain(s, n)
    BY <1>4 DEF DividedAgain
  <2>3. Step(r, p, s, n) = EncodeDefaultKey(s, n)
    BY <1>0, <1>4, <2>2 DEF Step, Prepared
  <2> QED
    BY <1>1, <1>4, <2>1, <2>3, WorkerKeep
<1>5. CASE n = 0 /\ p = NoPolicy
  <2> DEFINE b == TurnFlag(s)
  <2>1. Since(s, r, Key, n) = Key
    BY <1>0, <1>5 DEF Since
  <2>2. /\ b.seg_update_flag = 3 /\ b.server_perf = s.server_perf
        /\ b.task_cache = FALSE /\ b.stuck = FALSE
        /\ b.num_para_flag = s.num_para_flag /\ b.num_para = s.num_para
        /\ Shape(b) /\ b.ps_kv = s.ps_kv /\ b.key_temp = s.key_temp
        /\ b.num_para_count = s.num_para_count /\ b.server_log = s.server_log
    <3>1. CASE s.seg_update_flag = 3
      <4>1. b = s
        BY <3>1 DEF TurnFlag
      <4> QED
        BY <3>1, <4>1, <1>1
    <3>2. CASE s.seg_update_flag = 2
      <4>1. b = [s EXCEPT !.seg_update_flag = 2 + 1]
        BY <3>2, <1>1 DEF TurnFlag
      <4> QED
        BY <4>1, <1>1 DEF Shape, NewStore
    <3> QED
      BY <3>1, <3>2, <1>1
  <2>3. ~ DividedAgain(b, n)
    BY <2>2 DEF DividedAgain
  <2>4. Step(r, p, s, n) = EncodeDefaultKey(b, n)
    BY <1>0, <1>5, <2>3 DEF Step, Prepared
  <2> HIDE DEF b
  <2> QED
    BY <1>5, <2>1, <2>2, <2>4, WorkerKeep
<1> QED
  BY <1>0, <1>1, <1>2, <1>3, <1>4, <1>5


-----------------------------------------------------------------------------
(* Keys and loads. *)

Fits(w) == WorkerInv(store[w], round, encoded[w], pos[w], policy, last)

PartInv ==
    /\ TurnsInv
    /\ last \in Perfs \union {NoPolicy} /\ (policy # NoPolicy => last = policy)
    /\ \A w \in Workers : Fits(w) \/ Jammed(store[w], last)

LEMMA PartInit == Init => PartInv
<1> SUFFICES ASSUME Init PROVE PartInv
  OBVIOUS
<1>1. TurnsInv
  BY TurnsInit
<1>2. \A w \in Workers : store[w] = NewStore /\ encoded[w] = {} /\ pos[w] = NumKeys
  BY DEF Init
<1>3. round = 0 /\ policy = NoPolicy /\ last = NoPolicy
  BY DEF Init
<1> QED
  BY <1>1, <1>2, <1>3, WorkerInit DEF PartInv, Fits

\* A worker divides an array at its start.
LEMMA PartEncode ==
    ASSUME PartInv, NEW w \in Workers, NEW key \in Key, Encode(w, key), round = 0,
           key \notin encoded[w], key # 0 => 0 \in encoded[w],
           UNCHANGED <<round, policy, last, pos>>
    PROVE  \A v \in Workers : (Fits(v) \/ Jammed(store[v], last))'
<1>1. /\ store'[w] = EncodeDefaultKey(store[w], key) /\ encoded'[w] = encoded[w] \union {key}
      /\ \A v \in Workers : v # w => store'[v] = store[v] /\ encoded'[v] = encoded[v]
  BY DEF PartInv, TurnsInv, Encode
<1>2. encoded[w] \in SUBSET Key
  BY DEF PartInv, TurnsInv
<1>3. WorkerInv(store[w], 0, encoded[w], pos[w], policy, last)
  BY DEF PartInv, Fits, Jammed, Encode
<1>4. WorkerInv(EncodeDefaultKey(store[w], key), 0, encoded[w] \union {key}, pos[w], policy, last)
  BY <1>2, <1>3, WorkerEncode
<1>5. Fits(w)'
  BY <1>1, <1>4 DEF Fits
<1>6. ASSUME NEW v \in Workers, v # w PROVE (Fits(v) \/ Jammed(store[v], last))'
  <2>1. Fits(v) \/ Jammed(store[v], last)
    BY DEF PartInv
  <2>2. /\ Fits(v) => Fits(v)'
        /\ Jammed(store[v], last) => Jammed(store[v], last)'
    BY <1>1, <1>6 DEF Fits
  <2> QED
    BY <2>1, <2>2
<1> QED
  BY <1>5, <1>6

LEMMA PartNext ==
    ASSUME FirstFits, PartInv, [Next]_vars
    PROVE  PartInv'
<1> Rank0 \in Workers
  BY PartitionAssumption
<1> DEFINE Good(w) == Fits(w) \/ Jammed(store[w], last)
           Policies == last \in Perfs \union {NoPolicy} /\ (policy # NoPolicy => last = policy)
<1>0. SUFFICES Policies' /\ \A w \in Workers : Good(w)'
  BY TurnsNext DEF PartInv
<1>1. CASE InitKey
  <2>1. /\ inited \in Key /\ round = 0 /\ inited \notin encoded[Rank0]
        /\ inited # 0 => 0 \in encoded[Rank0]
    BY <1>1, Numbers DEF InitKey, PartInv, TurnsInv, Key
  <2>2. Encode(Rank0, inited) /\ UNCHANGED <<round, policy, last, pos>>
    BY <1>1 DEF InitKey
  <2>3. \A w \in Workers : Good(w)'
    BY <2>1, <2>2, PartEncode
  <2> QED
    BY <2>2, <2>3 DEF PartInv
<1>2. ASSUME NEW w \in Workers, NEW key \in Key, Pull(w, key)
      PROVE  Policies' /\ \A v \in Workers : Good(v)'
  <2>1. key \notin encoded[w] /\ round = 0
    BY <1>2 DEF Pull, PartInv, TurnsInv
  <2>2. key # 0 => 0 \in encoded[w]
    BY <1>2 DEF Pull, InTurn, Key
  <2>3. Encode(w, key) /\ UNCHANGED <<round, policy, last, pos>>
    BY <1>2 DEF Pull
  <2>4. \A v \in Workers : Good(v)'
    BY <2>1, <2>2, <2>3, PartEncode
  <2> QED
    BY <2>3, <2>4 DEF PartInv
<1>3. CASE Release
  <2>1. /\ \A w \in Workers : encoded[w] = Key /\ pos[w] = NumKeys
        /\ round' = round + 1 /\ policy' \in Perfs \union {NoPolicy}
        /\ last' = IF policy' = NoPolicy THEN last ELSE policy'
        /\ \A w \in Workers : pos'[w] = 0
        /\ UNCHANGED <<store, encoded>> /\ round \in Nat
    BY <1>3 DEF Release, PartInv, TurnsInv
  <2>2. \A w \in Workers : WorkerInv(store[w], round, Key, NumKeys, policy, last)
    BY <2>1, <1>3 DEF PartInv, Fits, Jammed, Release
  <2>3. \A w \in Workers : WorkerInv(store[w], round + 1, Key, 0, policy', last')
    BY <2>1, <2>2, WorkerRelease
  <2>4. \A w \in Workers : Good(w)'
    BY <2>1, <2>3 DEF Fits
  <2>5. Policies'
    BY <2>1 DEF PartInv
  <2> QED
    BY <2>4, <2>5
<1>4. ASSUME NEW w \in Workers, Push(w)
      PROVE  Policies' /\ \A v \in Workers : Good(v)'
  <2> DEFINE key == pos[w]
  <2>1. round \in Nat /\ round > 0 /\ round # 0 /\ key \in Key /\ \A v \in Workers : encoded[v] = Key
    BY <1>4, Numbers DEF Push, PartInv, TurnsInv, Key
  <2>2. store' = [store EXCEPT ![w] = Step(round, policy, store[w], key)]
    BY <1>4, <2>1 DEF Push, Step, Prepared
  <2>3. pos' = [pos EXCEPT ![w] = key + 1] /\ UNCHANGED <<encoded, round, policy, last>>
    BY <1>4 DEF Push
  <2>4. /\ store'[w] = Step(round, policy, store[w], key) /\ pos'[w] = key + 1
        /\ \A v \in Workers : v # w => store'[v] = store[v] /\ pos'[v] = pos[v]
    BY <2>2, <2>3 DEF PartInv, TurnsInv
  <2>5. WorkerInv(store[w], round, Key, key, policy, last)
    BY <2>1, <1>4 DEF PartInv, Fits, Jammed, Push
  <2> HIDE DEF key
  <2>6. \/ WorkerInv(Step(round, policy, store[w], key), round, Key, key + 1, policy, last)
        \/ Jammed(Step(round, policy, store[w], key), last)
    BY <2>1, <2>5, WorkerPush DEF PartInv
  <2>7. Good(w)'
    BY <2>1, <2>3, <2>4, <2>6 DEF Fits
  <2>8. ASSUME NEW v \in Workers, v # w PROVE Good(v)'
    <3>1. Good(v)
      BY DEF PartInv
    <3>2. /\ Fits(v) => Fits(v)'
          /\ Jammed(store[v], last) => Jammed(store[v], last)'
      BY <2>3, <2>4, <2>8 DEF Fits
    <3> QED
      BY <3>1, <3>2
  <2> QED
    BY <2>3, <2>7, <2>8 DEF PartInv
<1>5. CASE UNCHANGED vars
  <2>1. Policies /\ \A w \in Workers : Good(w)
    BY DEF PartInv
  <2>2. UNCHANGED <<store, round, encoded, pos, policy, last>>
    BY <1>5 DEF vars
  <2>3. \A w \in Workers : /\ Fits(w) => Fits(w)'
                           /\ Jammed(store[w], last) => Jammed(store[w], last)'
    BY <2>2 DEF Fits
  <2> QED
    BY <2>1, <2>2, <2>3
<1> QED
  BY <1>1, <1>2, <1>3, <1>4, <1>5 DEF Next

\* When a worker has pushed all its arrays, all pieces are counted.
LEMMA AllCounted ==
    ASSUME PartInv, NEW w \in Workers, AllPushed(w)
    PROVE  /\ Sound(store[w], Key) /\ Fits(w)
           /\ round > 0 => pos[w] > 0
<1> DEFINE s == store[w]
<1>1. /\ WorkerInv(s, round, encoded[w], pos[w], policy, last) /\ pos[w] \in 0..NumKeys
      /\ round \in Nat /\ Pushed(w) = Key /\ Fits(w)
  BY DEF PartInv, TurnsInv, AllPushed, Jammed, Fits
<1>2. ASSUME round > 0 PROVE pos[w] > 0 /\ 0..pos[w] - 1 = Key
  <2>1. 0..pos[w] - 1 = Key
    BY <1>1, <1>2 DEF Pushed
  <2>2. 0 \in 0..pos[w] - 1
    BY <2>1, Numbers
  <2> QED
    BY <1>1, <2>1, <2>2
<1>3. Since(s, round, encoded[w], pos[w]) = Key
  BY <1>1, <1>2 DEF Since, Pushed
<1> QED
  BY <1>1, <1>2, <1>3 DEF WorkerInv

LEMMA PiecesAreIn == \A w \in Workers : Pieces(w) = PiecesIn(store[w], Key)
BY DEF Pieces, PiecesIn

\* No two pieces have one key at one server, in whatever order policies come and
\* in whatever order the pulls of a worker run after its first.
THEOREM PiecesApartAlways ==
    ASSUME FirstFits
    PROVE  Spec => []PiecesApart
<1>1. PartInv => PiecesApart
  <2> SUFFICES ASSUME PartInv, NEW w \in Workers, AllPushed(w),
                      NEW p \in Pieces(w), NEW q \in Pieces(w), p # q
               PROVE  <<Piece(w, p).server, Piece(w, p).key>> # <<Piece(w, q).server, Piece(w, q).key>>
    BY DEF PiecesApart
  <2>1. Sound(store[w], Key) /\ p \in PiecesIn(store[w], Key) /\ q \in PiecesIn(store[w], Key)
    BY AllCounted, PiecesAreIn
  <2>2. Piece(w, p) = At(store[w], p) /\ Piece(w, q) = At(store[w], q)
    BY DEF Piece, At
  <2> QED
    BY <2>1, <2>2 DEF Sound
<1> QED
  BY <1>1, PartInit, PartNext, PTL DEF Spec

\* A worker that is stuck has shares whose sum is below num_para.
LEMMA StuckIsShort ==
    ASSUME PartInv, NEW w \in Workers, store[w].stuck, NumPara <= Precision
    PROVE  last \in Perfs /\ last # NoPolicy /\ Total([i \in Server |-> LastPart(i)]) < NumPara
<1>1. Jammed(store[w], last)
  BY DEF PartInv, Fits, WorkerInv
<1>2. \A i \in Server : store[w].server_perf[i] = [j \in Server |-> LastPart(j)][i]
  BY <1>1, NumParaIs DEF Jammed, PolicyShare, LastPart
<1>3. Total(store[w].server_perf) = Total([i \in Server |-> LastPart(i)])
  BY <1>2, Numbers, SumSame DEF Total
<1> QED
  BY <1>1, <1>3, NumParaIs DEF Jammed, Exact, PartInv

\* While floats count the elements exactly, the search for a server with room
\* ends unless the shares of the last policy, as rounded, add up to less than
\* all elements, and after a round no server exceeds its share by a piece.
THEOREM LoadFollowsPolicyAlways ==
    ASSUME FirstFits
    PROVE  Spec => []LoadFollowsPolicy
<1>1. PartInv => LoadFollowsPolicy
  <2> SUFFICES ASSUME PartInv, NEW w \in Workers, NumPara <= Precision
               PROVE  /\ store[w].stuck =>
                            last # NoPolicy /\ Total([i \in Server |-> LastPart(i)]) < NumPara
                      /\ round > 0 /\ last # NoPolicy /\ AllPushed(w) =>
                            \A i \in Server : Load(w, i) < LastPart(i) + bigarray_bound
    BY DEF LoadFollowsPolicy
  <2> DEFINE s == store[w]
  <2>1. store[w].stuck => last # NoPolicy /\ Total([i \in Server |-> LastPart(i)]) < NumPara
    BY StuckIsShort
  <2>2. ASSUME round > 0, last # NoPolicy, AllPushed(w), NEW i \in Server
        PROVE  Load(w, i) < LastPart(i) + bigarray_bound
    <3>1. Sound(s, Key) /\ Follows(s, last)
      BY <2>2, AllCounted DEF WorkerInv, Fits
    <3>2. Exact
      BY NumParaIs DEF Exact
    <3>3. s.num_para_count[i] < LastPart(i) + bigarray_bound
      BY <3>1, <3>2, NumParaIs DEF Follows, Within, PolicyShare, LastPart
    <3>4. s.num_para_count[i] = LoadIn(s, Key, i)
      BY <3>1 DEF Sound
    <3>5. Load(w, i) = LoadIn(s, Key, i)
      <4> DEFINE S == PiecesAt(s, Key, i)
                 f == [p \in S |-> Piece(w, p).len]
      <4>1. {q \in Pieces(w) : Piece(w, q).server = i} = S
        BY PiecesAreIn DEF PiecesAt, Piece, At
      <4>2. Load(w, i) = SumFunction(f)
        BY <4>1 DEF Load
      <4>3. f = Lengths(s, S) /\ DOMAIN f = S
        BY DEF Lengths, Piece, At
      <4> HIDE DEF f, S
      <4> QED
        BY <4>2, <4>3 DEF SumFunction, LoadIn, S
    <3> QED
      BY <3>3, <3>4, <3>5
  <2> QED
    BY <2>1, <2>2
<1> QED
  BY <1>1, PartInit, PartNext, PTL DEF Spec

\* What the rounding of floats can take from the shares is less than an element
\* when the elements are few: (NumServers + 1) for each of Precision.
FewElements == (NumServers + 1) * NumPara < Precision

LEMMA SharesSuffice ==
    ASSUME FewElements, NEW p \in Perfs
    PROVE  NumPara <= Precision /\ ~ (Total([i \in Server |-> Part(p, i, NumPara)]) < NumPara)
<1> DEFINE f == [i \in Server |-> Part(p, i, NumPara)]
           N == NumPara
           T == Total(p)
           R == Total(f)
           P == Precision
           S == NumServers + 1
<1>0. /\ N \in Nat /\ N > 0 /\ P \in Nat /\ S \in Nat /\ S > 0 /\ S * N < P /\ IsFiniteSet(Server)
  BY Numbers, NumParaIs, SizeOfType, SumPositive, PrecisionAssumption DEF SizeOf, FewElements
<1>1. (\A i \in Server : p[i] \in Nat) /\ \E i \in Server : p[i] > 0
  BY PartitionAssumption
<1>2. T \in Nat /\ T > 0
  BY <1>0, <1>1, SumType, SumPositive DEF Total
<1>3. \A i \in Server : f[i] \in Nat
  BY FloatAssumption
<1>4. R \in Nat
  BY <1>0, <1>3, SumType DEF Total
<1>5. N <= P /\ S <= P
  <2> HIDE DEF N, P, S
  <2>1. S - 1 \in Nat /\ N - 1 \in Nat
    BY <1>0
  <2>2. S * N = N + (S - 1) * N /\ (S - 1) * N \in Nat /\ S * N = S + S * (N - 1) /\ S * (N - 1) \in Nat
    BY <1>0, <2>1
  <2> QED
    BY <1>0, <2>2
<1>6. \A i \in Server : (P - S) * (p[i] * N) <= P * (T * f[i])
  BY <1>5, FloatAssumption
<1> HIDE DEF f, N, T, R, P, S
<1>7. P - S \in Nat /\ (P - S) * N \in Nat /\ P * T \in Nat
  BY <1>0, <1>2, <1>5
<1>8. \A i \in Server : p[i] \in Nat /\ f[i] \in Nat /\ ((P - S) * N) * p[i] <= (P * T) * f[i]
  <2> TAKE i \in Server
  <2>1. p[i] \in Nat /\ f[i] \in Nat /\ (P - S) * (p[i] * N) <= P * (T * f[i])
    BY <1>1, <1>3, <1>6
  <2>2. \A a, b, c \in Int : (a * c) * b = a * (b * c) /\ (a * b) * c = a * (b * c)
    OBVIOUS
  <2>3. ((P - S) * N) * p[i] = (P - S) * (p[i] * N) /\ (P * T) * f[i] = P * (T * f[i])
    BY <2>1, <2>2, <1>0, <1>2, <1>7
  <2> QED
    BY <2>1, <2>3
<1>9. ((P - S) * N) * T <= (P * T) * R
  BY <1>0, <1>7, <1>8, SumScale DEF Total, T, R
<1>10. (P - S) * N <= P * R
  <2> DEFINE a == (P - S) * N
             b == P * R
  <2>1. a \in Nat /\ b \in Nat /\ (P * T) * R = b * T
    BY <1>0, <1>2, <1>4, <1>7
  <2>2. a * T <= b * T
    BY <1>9, <2>1
  <2> HIDE DEF a, b
  <2>3. ASSUME a > b PROVE FALSE
    <3>1. a - b - 1 \in Nat /\ a = b + 1 + (a - b - 1)
      BY <2>1, <2>3
    <3>2. a * T = b * T + T + (a - b - 1) * T
      BY <3>1, <2>1, <1>2
    <3>3. (a - b - 1) * T \in Nat /\ b * T \in Nat
      BY <3>1, <2>1, <1>2
    <3> QED
      BY <2>2, <3>2, <3>3, <1>2
  <2> QED
    BY <2>1, <2>3 DEF a, b
<1>11. ASSUME R < N PROVE FALSE
  <2>1. N - 1 - R \in Nat /\ N = R + 1 + (N - 1 - R)
    BY <1>0, <1>4, <1>11
  <2>2. P * N = P * R + P + P * (N - 1 - R) /\ P * (N - 1 - R) \in Nat /\ P * R \in Nat
    BY <2>1, <1>0, <1>4
  <2>3. (P - S) * N = P * N - S * N /\ S * N \in Nat
    BY <1>0
  <2> QED
    BY <2>2, <2>3, <1>0, <1>10
<1> QED
  BY <1>5, <1>11 DEF N, P, R, f

\* With few enough elements no worker searches for ever: whatever floats lose,
\* the shares suffice for all arrays, in every round and under every policy.
THEOREM SmallJobsFit ==
    ASSUME FirstFits, FewElements
    PROVE  Spec => [](\A w \in Workers : ~store[w].stuck)
<1>1. PartInv => \A w \in Workers : ~store[w].stuck
  <2> SUFFICES ASSUME PartInv, NEW w \in Workers, store[w].stuck PROVE FALSE
    OBVIOUS
  <2>1. NumPara <= Precision
    <3>1. PICK p \in Perfs : TRUE
      BY DEF PartInv, Jammed, Fits, WorkerInv
    <3> QED
      BY <3>1, SharesSuffice
  <2>2. last \in Perfs /\ Total([i \in Server |-> LastPart(i)]) < NumPara
    BY <2>1, StuckIsShort
  <2>3. [i \in Server |-> LastPart(i)] = [i \in Server |-> Part(last, i, NumPara)]
    BY DEF LastPart
  <2> QED
    BY <2>2, <2>3, SharesSuffice
<1> QED
  BY <1>1, PartInit, PartNext, PTL DEF Spec
============================================================================
