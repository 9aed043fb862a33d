----------------------------- MODULE KeyPartition -----------------------------
(***************************************************************************)
(* How a worker divides its arrays among the servers.  An array becomes    *)
(* pieces of at most bigarray_bound elements, each under a key of one      *)
(* server.  Arrays are first dealt out in turn: by the worker of rank 0    *)
(* when it initialises them, by the others in their first pull.  Once the  *)
(* scheduler has sent a policy with the performance of every server, all   *)
(* arrays are divided again, in proportion to it.                          *)
(*                                                                         *)
(* Nothing but the order of the same calculations makes the workers agree  *)
(* on a division, which the servers need to add up the right pieces.       *)
(* A key of a server is its offset in the server's key range.  The shares  *)
(* of the servers are computed in floats, so they may add up to less than  *)
(* what is to be placed; performances are scaled to integers.              *)
(***************************************************************************)
EXTENDS Integers, Sequences, FiniteSetsExt, Functions, Float32

CONSTANTS
    Workers, Rank0,         \* the workers, and the one with rank 0
    NumServers,
    NumKeys, Size,          \* arrays and their numbers of elements
    bigarray_bound,
    Perfs,                  \* the performances a policy may bring, by server
    MaxRounds,              \* bound: rounds of training
    cpu_worker_nthreads     \* threads of the engine that run the pulls

Key == 0..NumKeys - 1
Server == 0..NumServers - 1
NoPolicy == <<>>

ASSUME PartitionAssumption ==
    /\ Rank0 \in Workers
    /\ NumServers \in Nat \ {0} /\ NumKeys \in Nat \ {0}
    /\ Size \in [Key -> Nat \ {0}]
    /\ bigarray_bound \in Nat \ {0}
    /\ \A p \in Perfs : p \in [Server -> Nat] /\ \E i \in Server : p[i] > 0
    /\ MaxRounds \in Nat /\ cpu_worker_nthreads \in Nat \ {0}

Total(f) == SumFunctionOnSet(f, Server)
Ceil(a, b) == (a + b - 1) \div b

\* The performances are added up one after the other.
PerfSum(perf) ==
    LET sum[n \in 0..NumServers] == IF n = 0 THEN 0 ELSE Fl(sum[n - 1] + perf[n - 1])
    IN  sum[NumServers]

\* ceil(perf[i] / perf_sum * n)
Part(perf, i, n) ==
    LET q == FlQuot(perf[i], PerfSum(perf))
        x == FlQuot(q.num * Fl(n), q.den)
    IN  Ceil(x.num, x.den)

\* The elements of all arrays.
NumPara == SumFunction(Size)

\* Performances are floats, and parts are integers.  Every addition but the
\* first, the division and the multiplication err by at most one part in
\* Precision, which is what rounding to the nearest float guarantees.
ASSUME FloatAssumption ==
    \A p \in Perfs, i \in Server :
        /\ Fl(p[i]) = p[i] /\ Part(p, i, NumPara) \in Nat
        /\ NumPara <= Precision =>
             (Precision - (NumServers + 1)) * (p[i] * NumPara)
                 <= Precision * (Total(p) * Part(p, i, NumPara))

VARIABLES
    store,     \* the members of each worker's KVStoreDist
    inited,    \* how many arrays the worker of rank 0 has initialised
    encoded,   \* by worker: the arrays it has divided since it started
    round,     \* rounds of training begun
    policy,    \* what TopoUpdate hands over in this round
    last,      \* the last policy, ghost
    pos        \* by worker: how many arrays it has pushed in this round, with
               \* the one it is stuck in

vars == <<store, inited, encoded, round, policy, last, pos>>

Zero == [i \in Server |-> 0]

NewStore ==
    [seg_update_flag |-> 3, task_cache |-> FALSE,
     server_perf |-> Zero, server_perf_temp |-> Zero,
     num_para |-> 0, num_para_flag |-> 0, num_para_count |-> Zero,
     key_temp |-> Zero, server_log |-> 0,
     ps_kv |-> [k \in Key |-> <<>>], stuck |-> FALSE]

Init ==
    /\ store = [w \in Workers |-> NewStore]
    /\ inited = 0
    /\ encoded = [w \in Workers |-> {}]
    /\ round = 0
    /\ policy = NoPolicy /\ last = NoPolicy
    /\ pos = [w \in Workers |-> NumKeys]

-----------------------------------------------------------------------------
(* EncodeDefaultKey *)

\* Counts the elements of all arrays between the first and the second time
\* that array 0 is encoded.
CountPara(s, key) ==
    LET flag == IF key = 0 /\ s.num_para_flag < 2 THEN s.num_para_flag + 1
                                                  ELSE s.num_para_flag
    IN  [s EXCEPT !.num_para_flag = IF flag = 2 THEN 3 ELSE flag,
                  !.num_para = IF flag = 1 THEN @ + Size[key] ELSE @]

Restart(s) == [s EXCEPT !.server_log = 0, !.key_temp = Zero, !.num_para_count = Zero]

Share(s, i) == Part(s.server_perf, i, s.num_para)

\* Before each piece of array 0: the performances become shares.
Rescale(s) == [Restart(s) EXCEPT !.server_perf = [i \in Server |-> Share(s, i)]]

\* Mutant: the search does not look at the shares.
HasRoomAnyway(s, i) == TRUE

HasRoom(s, i) == Fl(s.num_para_count[i]) < s.server_perf[i]

\* The values of server_log at which the search for a server with room ends.
WithRoom(s) == {n \in s.server_log .. s.server_log + NumServers - 1 :
                    HasRoom(s, n % NumServers)}

Place(s, key, len, n) ==
    LET i == n % NumServers
    IN  [s EXCEPT !.ps_kv[key] = Append(@, [server |-> i, key |-> s.key_temp[i], len |-> len]),
                  !.key_temp[i] = @ + 1,
                  !.num_para_count[i] = @ + len,
                  !.server_log = n + 1]

\* Without a server that has room, the search goes on for ever.
EncodePiece(s, key, len) ==
    IF s.stuck THEN s
    ELSE IF s.seg_update_flag # 2 THEN Place(s, key, len, s.server_log)
    ELSE LET t == IF key = 0 THEN Rescale(s) ELSE s
         IN  IF WithRoom(t) = {} THEN [t EXCEPT !.stuck = TRUE]
             ELSE Place(t, key, len, Min(WithRoom(t)))

\* The lengths of the pieces of an array.
Lens(key) ==
    LET n == Ceil(Size[key], bigarray_bound)
    IN  [j \in 1..n |-> IF j < n THEN bigarray_bound
                                 ELSE Size[key] - (n - 1) * bigarray_bound]

EncodeDefaultKey(s0, key) ==
    LET s == CountPara(s0, key)
    IN  IF s.ps_kv[key] # <<>> THEN s
        ELSE LET First == IF key = 0 /\ s.seg_update_flag # 2 THEN Restart(s) ELSE s
                 After[j \in 0..Len(Lens(key))] ==
                     IF j = 0 THEN First ELSE EncodePiece(After[j - 1], key, Lens(key)[j])
             IN  After[Len(Lens(key))]

-----------------------------------------------------------------------------
(* Start of the job *)

Encode(w, key) ==
    /\ ~store[w].stuck
    /\ store' = [store EXCEPT ![w] = EncodeDefaultKey(@, key)]
    /\ encoded' = [encoded EXCEPT ![w] = @ \union {key}]

\* InitImpl: rank 0 pushes the array, and all meet in a barrier.
InitKey ==
    /\ inited < NumKeys
    /\ Encode(Rank0, inited)
    /\ inited' = inited + 1
    /\ UNCHANGED <<round, policy, last, pos>>

\* Mutant: the engine runs the pulls in any order.
NoTurns(w, key) == key > 0 => 0 \in encoded[w]

\* A thread of the engine is free for the pull of this array.  With several
\* threads, what happens if array 0 is not the first is undefined and left out.
InTurn(w, key) ==
    LET waiting == (0..key - 1) \ encoded[w]
    IN  Cardinality(waiting) < cpu_worker_nthreads /\ 0 \notin waiting

\* The first pull of another worker.
Pull(w, key) ==
    /\ w # Rank0
    /\ key < inited /\ key \notin encoded[w]
    /\ InTurn(w, key)
    /\ Encode(w, key)
    /\ UNCHANGED <<inited, round, policy, last, pos>>

-----------------------------------------------------------------------------
(* Training *)

\* All have asked in TopoUpdate and are released, with a policy or without.
Release ==
    /\ round < MaxRounds
    /\ \A w \in Workers : encoded[w] = Key /\ pos[w] = NumKeys /\ ~store[w].stuck
    /\ round' = round + 1
    /\ policy' \in Perfs \union {NoPolicy}
    /\ last' = IF policy' = NoPolicy THEN last ELSE policy'
    /\ pos' = [w \in Workers |-> 0]
    /\ UNCHANGED <<store, inited, encoded>>

TaskDivisionUpdate(s, perf) ==
    CASE s.seg_update_flag = 3 -> [s EXCEPT !.server_perf = perf, !.seg_update_flag = 4]
      [] s.seg_update_flag = 2 -> [s EXCEPT !.server_perf_temp = perf, !.task_cache = TRUE]
      [] s.seg_update_flag >= 4 -> [s EXCEPT !.server_perf = perf]
      [] OTHER -> s

\* What Push_ does with seg_update_flag before array 0.
TurnFlag(s) ==
    LET flag == IF s.seg_update_flag >= 4 THEN 1 ELSE s.seg_update_flag
    IN  CASE flag = 3 -> s
          [] flag # 3 /\ s.task_cache ->
                [s EXCEPT !.seg_update_flag = flag, !.task_cache = FALSE,
                          !.server_perf = s.server_perf_temp]
          [] OTHER -> [s EXCEPT !.seg_update_flag = flag + 1]

\* Mutant: only array 0 is divided again.
DividedOnce(s, key) == key = 0 /\ s.seg_update_flag < 3

\* init_flag of Push_: this array is to be divided again.
DividedAgain(s, key) == s.seg_update_flag < 3

Push(w) ==
    LET key == pos[w]
        s == IF key # 0 THEN store[w]
             ELSE TurnFlag(IF policy = NoPolicy THEN store[w]
                           ELSE TaskDivisionUpdate(store[w], policy))
        t == IF DividedAgain(s, key) THEN [s EXCEPT !.ps_kv[key] = <<>>] ELSE s
    IN  /\ pos[w] < NumKeys /\ ~store[w].stuck
        /\ store' = [store EXCEPT ![w] = EncodeDefaultKey(t, key)]
        /\ pos' = [pos EXCEPT ![w] = @ + 1]
        /\ UNCHANGED <<inited, encoded, round, policy, last>>

Next ==
    \/ InitKey
    \/ \E w \in Workers, key \in Key : Pull(w, key)
    \/ Release
    \/ \E w \in Workers : Push(w)

Spec == Init /\ [][Next]_vars

-----------------------------------------------------------------------------
(* Properties *)

\* What a worker has pushed since the last release, or when it started.
Pushed(w) == IF round = 0 THEN encoded[w] ELSE 0..pos[w] - 1
AllPushed(w) == Pushed(w) = Key /\ ~store[w].stuck

\* Two workers that have pushed the same array in a round have pushed the same
\* pieces under the same keys: a server counts sons, not what they sent.
PartitionsAgree ==
    \A w, v \in Workers : \A k \in Pushed(w) \intersect Pushed(v) :
        store[w].ps_kv[k] = store[v].ps_kv[k]

Pieces(w) == UNION {{k} \X DOMAIN store[w].ps_kv[k] : k \in Key}
Piece(w, p) == store[w].ps_kv[p[1]][p[2]]

\* No two pieces of a round have one key at one server, in whatever order
\* divisions and policies came: their values would be added to each other.
PiecesApart ==
    \A w \in Workers : AllPushed(w) =>
        \A p, q \in Pieces(w) :
            p # q => <<Piece(w, p).server, Piece(w, p).key>>
                        # <<Piece(w, q).server, Piece(w, q).key>>

Load(w, i) ==
    SumFunction([p \in {q \in Pieces(w) : Piece(w, q).server = i} |-> Piece(w, p).len])

LastPart(i) == Part(last, i, NumPara)

\* As long as floats count the elements exactly: the search for a server with
\* room (kvstore_dist.h:717) ends unless the rounded shares of the last policy
\* (:712) add up to less than there is to place, and after a round a server has
\* of all arrays less than a piece more than its share.
LoadFollowsPolicy ==
    NumPara <= Precision =>
        \A w \in Workers :
            /\ store[w].stuck =>
                 last # NoPolicy /\ Total([i \in Server |-> LastPart(i)]) < NumPara
            /\ round > 0 /\ last # NoPolicy /\ AllPushed(w) =>
                 \A i \in Server : Load(w, i) < LastPart(i) + bigarray_bound
=============================================================================
