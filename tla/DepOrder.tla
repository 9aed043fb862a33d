------------------------------ MODULE DepOrder ------------------------------
(***************************************************************************)
(* What the engine promises to those who push operations, without saying   *)
(* how: operations are issued in an order, each with the variables it      *)
(* reads and the variables it writes; an operation starts only when all    *)
(* operations issued before it that it conflicts with have finished; and   *)
(* every issued operation is started and finished in the end.              *)
(***************************************************************************)
EXTENDS Naturals

CONSTANTS Var, MaxOps

VARIABLES
    issued,   \* operations issued so far: they are 1 .. issued, in order
    reads,    \* the variables an operation reads
    writes,   \* the variables it writes
    phase     \* of an operation: "none", "issued", "running" or "finished"

vars == <<issued, reads, writes, phase>>

Op == 1..MaxOps

Conflict(o, p) ==
    \/ writes[o] \cap (reads[p] \cup writes[p]) # {}
    \/ reads[o] \cap writes[p] # {}

Init ==
    /\ issued = 0
    /\ reads = [o \in Op |-> {}]
    /\ writes = [o \in Op |-> {}]
    /\ phase = [o \in Op |-> "none"]

Issue(r, w) ==
    /\ issued < MaxOps
    /\ issued' = issued + 1
    /\ reads' = [reads EXCEPT ![issued + 1] = r]
    /\ writes' = [writes EXCEPT ![issued + 1] = w]
    /\ phase' = [phase EXCEPT ![issued + 1] = "issued"]

Start(o) ==
    /\ phase[o] = "issued"
    /\ \A p \in 1..(o - 1) : Conflict(p, o) => phase[p] = "finished"
    /\ phase' = [phase EXCEPT ![o] = "running"]
    /\ UNCHANGED <<issued, reads, writes>>

Finish(o) ==
    /\ phase[o] = "running"
    /\ phase' = [phase EXCEPT ![o] = "finished"]
    /\ UNCHANGED <<issued, reads, writes>>

Next ==
    \/ \E r, w \in SUBSET Var : Issue(r, w)
    \/ \E o \in Op : Start(o) \/ Finish(o)

\* What may happen, and what must happen in the end.
Safety == Init /\ [][Next]_vars
Spec ==
    /\ Safety
    /\ \A o \in Op : WF_vars(Start(o)) /\ WF_vars(Finish(o))
=============================================================================
