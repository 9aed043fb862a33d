------------------------------ MODULE SyncStore ------------------------------
(***************************************************************************)
(* What the distributed store promises in synchronous mode, without saying *)
(* how: in every iteration each worker pushes every key once, the stored   *)
(* value becomes the sum of exactly the pushes of all workers in that      *)
(* iteration, and a worker goes on to the next iteration with those sums.  *)
(* A sum is the set of the contributions <<worker, iteration>> it adds up. *)
(***************************************************************************)
EXTENDS Naturals

CONSTANTS Node, Key, MaxIter

VARIABLES
    iter_count,   \* the iteration of each worker
    unsent,       \* keys a worker has still to push in its iteration
    pending,      \* keys whose sum a worker has still to receive
    recved,       \* the sum last received
    store         \* the sum last computed for a key

vars == <<iter_count, unsent, pending, recved, store>>

Sum(t) == Node \X {t}

Init ==
    /\ iter_count = [w \in Node |-> 0]
    /\ unsent = [w \in Node |-> {}]
    /\ pending = [w \in Node |-> {}]
    /\ recved = [w \in Node |-> [k \in Key |-> {}]]
    /\ store = [k \in Key |-> {}]

\* A worker with all its sums starts the next iteration.
Start(w) ==
    /\ pending[w] = {}
    /\ iter_count[w] < MaxIter
    /\ iter_count' = [iter_count EXCEPT ![w] = @ + 1]
    /\ unsent' = [unsent EXCEPT ![w] = Key]
    /\ pending' = [pending EXCEPT ![w] = Key]
    /\ UNCHANGED <<recved, store>>

Push(w, k) ==
    /\ k \in unsent[w]
    /\ unsent' = [unsent EXCEPT ![w] = @ \ {k}]
    /\ UNCHANGED <<iter_count, pending, recved, store>>

\* Only when every worker has pushed k in iteration t is the sum stored.
Reduce(k, t) ==
    /\ \A w \in Node : iter_count[w] = t /\ k \notin unsent[w]
    /\ store[k] # Sum(t)
    /\ store' = [store EXCEPT ![k] = Sum(t)]
    /\ UNCHANGED <<iter_count, unsent, pending, recved>>

\* Once someone has pushed in a new iteration the old sum may be dropped.
Drop(k) ==
    /\ \E w \in Node : /\ k \in pending[w] \ unsent[w]
                       /\ store[k] # Sum(iter_count[w])
    /\ store' = [store EXCEPT ![k] = {}]
    /\ UNCHANGED <<iter_count, unsent, pending, recved>>

\* A worker receives the sum of its own iteration, once.
Deliver(w, k) ==
    /\ k \in pending[w]
    /\ store[k] = Sum(iter_count[w])
    /\ recved' = [recved EXCEPT ![w][k] = store[k]]
    /\ pending' = [pending EXCEPT ![w] = @ \ {k}]
    /\ UNCHANGED <<iter_count, unsent, store>>

Next ==
    \/ \E w \in Node : Start(w)
    \/ \E w \in Node : \E k \in Key : Push(w, k) \/ Deliver(w, k)
    \/ \E k \in Key : Drop(k) \/ \E t \in 1..MaxIter : Reduce(k, t)

Spec == Init /\ [][Next]_vars
=============================================================================
