--------------------------- MODULE ThreadedEngine ---------------------------
(***************************************************************************)
(* The dependency engine of MXNet (threaded_engine.cc): threads push       *)
(* operations with the variables they read and write; every variable keeps *)
(* a queue of the operations that wait for it; an operation is dispatched  *)
(* to a worker when the last variable it waits for is granted.  A step of  *)
(* the model is one critical section of a variable's mutex, one decrement  *)
(* of a wait counter or one critical section of finished_m_, so that the   *)
(* pushing threads and the completions of operations interleave as they do *)
(* between the worker threads and callbacks.                               *)
(***************************************************************************)
EXTENDS Integers, Sequences, FiniteSets, FiniteSetsExt, SequencesExt

CONSTANTS
    Var,        \* the variables
    Thread,     \* the threads that push operations
    MaxOps,     \* bound: operations pushed altogether
    Kinds       \* which calls the threads make, a subset of AllKinds

AllKinds == {"normal", "no_skip", "wait", "delete", "shutdown"}

ASSUME EngineAssumption ==
    MaxOps \in Nat /\ Kinds \subseteq AllKinds /\ IsFiniteSet(Var)

Op == 1..MaxOps
ALL == -1                \* what a thread in WaitForAll waits for
kWriteTriggered == -1

VARIABLES
    opr,        \* ThreadedOpr: [reads, writes, kind] of an operation
    stage,      \* where an operation (OprBlock) is
    at,         \* the dependency a push or a completion is about to handle
    wait,       \* OprBlock::wait
    trigger,    \* operations a completion still has to decrement
    queue,      \* the blocks of a variable from pending_write_ to head_
    num_pending_reads,
    life,       \* of a variable: "live", "to_delete", "freed"
    pending,    \* pending_
    cur,        \* the operation a thread is pushing or waiting for, 0 or ALL
    asleep,     \* whether a thread sleeps on finished_cv_
    pushed,     \* the operations pushed so far are 1 .. pushed
    executed,   \* the operations whose function has been called
    broken,     \* the variables that an operation with an exception has written
    shutdown_phase

varState == <<queue, num_pending_reads, life>>
waiters == <<cur, asleep>>
running == <<executed, broken, shutdown_phase>>
vars == <<opr, stage, at, wait, trigger, varState, pending, waiters, pushed, running>>

Stage == {"none", "pushing", "waiting", "ready", "running", "completing", "done"}
Block == [op : Op, write : BOOLEAN]

\* The dependencies of an operation, in the order Push and OnComplete visit
\* them: the const_vars, then the mutable_vars.
Deps(o) == opr[o].reads \o opr[o].writes
Reads(o) == ToSet(opr[o].reads)
Writes(o) == ToSet(opr[o].writes)
IsWrite(o, i) == i > Len(opr[o].reads)

NoOpr == [reads |-> <<>>, writes |-> <<>>, kind |-> "normal"]

Init ==
    /\ opr = [o \in Op |-> NoOpr]
    /\ stage = [o \in Op |-> "none"]
    /\ at = [o \in Op |-> 1]
    /\ wait = [o \in Op |-> 0]
    /\ trigger = [o \in Op |-> <<>>]
    /\ queue = [v \in Var |-> <<>>]
    /\ num_pending_reads = [v \in Var |-> 0]
    /\ life = [v \in Var |-> "live"]
    /\ pending = 0
    /\ cur = [t \in Thread |-> 0]
    /\ asleep = [t \in Thread |-> FALSE]
    /\ pushed = 0
    /\ executed = {} /\ broken = {}
    /\ shutdown_phase = FALSE

----------------------------------------------------------------------------
(* Calls of the engine.                                                     *)

\* The counter starts with one for the push itself, so that nothing is
\* dispatched before all dependencies are in place.
InitialWait(r, w) == Len(r) + Len(w) + 1

Push(t, r, w, kind) ==
    /\ cur[t] = 0
    /\ pushed < MaxOps
    /\ LET o == pushed + 1
       IN  /\ pushed' = o
           /\ opr' = [opr EXCEPT ![o] = [reads |-> r, writes |-> w, kind |-> kind]]
           /\ stage' = [stage EXCEPT ![o] = "pushing"]
           /\ wait' = [wait EXCEPT ![o] = InitialWait(r, w)]
           /\ cur' = [cur EXCEPT ![t] = o]
    /\ pending' = pending + 1
    /\ UNCHANGED <<at, trigger, varState, asleep, running>>

\* A variable may be used until someone has asked to delete it.
Usable == {v \in Var : ~ \E o \in 1..pushed : opr[o].kind = "delete" /\ v \in Writes(o)}

\* PushAsync and PushSync: no variable occurs twice (CheckDuplicate).
PushAsync(t) ==
    \E kind \in {"normal", "no_skip"} \cap Kinds, r, w \in SUBSET Usable :
        /\ r \cap w = {} /\ r \cup w # {}
        /\ \E rs \in SetToSeqs(r), ws \in SetToSeqs(w) : Push(t, rs, ws, kind)

\* DeleteVariable, when the last reference to the variable is gone: no thread
\* is in the middle of a push with it.
DeleteVariable(t) ==
    /\ "delete" \in Kinds
    /\ \E v \in Usable :
         /\ \A o \in Op : stage[o] = "pushing" => v \notin Reads(o) \cup Writes(o)
         /\ Push(t, <<>>, <<v>>, "delete")

\* Mutant: a read that comes after a waiting write joins the reads before it.
NoWriteTriggered(v) == num_pending_reads[v] # kWriteTriggered

\* is_ready_to_read.
IsReadyToRead(v) == queue[v] = <<>>

\* WaitForVar returns at once when the variable is ready; otherwise it pushes
\* an operation that reads the variable and waits for it.
WaitForVar(t) ==
    /\ "wait" \in Kinds
    /\ \E v \in Usable : ~ IsReadyToRead(v) /\ Push(t, <<v>>, <<>>, "wait")

\* WaitForAll, up to the wait.
WaitForAll(t) ==
    /\ "wait" \in Kinds
    /\ cur[t] = 0 /\ pending # 0
    /\ cur' = [cur EXCEPT ![t] = ALL]
    /\ UNCHANGED <<opr, stage, at, wait, trigger, varState, pending, asleep, pushed, running>>

\* NotifyShutdown, by an idle thread at the end of the process.
NotifyShutdown(t) ==
    /\ "shutdown" \in Kinds
    /\ cur[t] = 0 /\ ~ shutdown_phase
    /\ shutdown_phase' = TRUE
    /\ UNCHANGED <<opr, stage, at, wait, trigger, varState, pending, waiters, pushed, executed,
                   broken>>

----------------------------------------------------------------------------
(* Adding the dependencies of an operation, one critical section each.      *)

Grant(o) == wait' = [wait EXCEPT ![o] = @ - 1]
Enqueue(v, o, write) ==
    queue' = [queue EXCEPT ![v] = Append(@, [op |-> o, write |-> write])]

AppendReadDependency(v, o) ==
    IF IsReadyToRead(v)
    THEN /\ num_pending_reads' = [num_pending_reads EXCEPT ![v] = @ + 1]
         /\ Grant(o)
         /\ UNCHANGED queue
    ELSE Enqueue(v, o, FALSE) /\ UNCHANGED <<num_pending_reads, wait>>

\* Mutant: a write does not wait for the reads that were granted before it.
NoWriteBefore(v) == queue[v] = <<>>

\* A write is granted at once when nobody writes, waits or reads.
IsReadyToWrite(v) == queue[v] = <<>> /\ num_pending_reads[v] = 0

AppendWriteDependency(v, o) ==
    /\ Enqueue(v, o, TRUE)
    /\ IF IsReadyToWrite(v)
       THEN /\ num_pending_reads' = [num_pending_reads EXCEPT ![v] = kWriteTriggered]
            /\ Grant(o)
       ELSE UNCHANGED <<num_pending_reads, wait>>

AppendDependency(t) ==
    LET o == cur[t]
    IN  /\ o \in Op /\ stage[o] = "pushing"
        /\ at[o] <= Len(Deps(o))
        /\ LET v == Deps(o)[at[o]]
           IN  IF IsWrite(o, at[o]) THEN AppendWriteDependency(v, o)
                                    ELSE AppendReadDependency(v, o)
        /\ at' = [at EXCEPT ![o] = @ + 1]
        /\ UNCHANGED <<opr, stage, trigger, life, pending, waiters, pushed, running>>

\* The end of Push.  A deletion whose variable is free runs on the pushing
\* thread itself (ThreadedEnginePerDevice::PushToExecute).
PushEnd(t) ==
    LET o == cur[t]
        inline == wait[o] = 1 /\ opr[o].kind = "delete"
    IN  /\ o \in Op /\ stage[o] = "pushing"
        /\ at[o] > Len(Deps(o))
        /\ Grant(o)
        /\ stage' = [stage EXCEPT ![o] = IF inline THEN "running"
                                         ELSE IF wait[o] = 1 THEN "ready" ELSE "waiting"]
        /\ at' = [at EXCEPT ![o] = 1]
        /\ cur' = [cur EXCEPT ![t] = IF inline \/ opr[o].kind = "wait" THEN o ELSE 0]
        /\ UNCHANGED <<opr, trigger, varState, pending, asleep, pushed, running>>

----------------------------------------------------------------------------
(* Execution and completion.                                                *)

\* A worker takes an operation from its task queue.
ExecuteOprBlock(o) ==
    /\ stage[o] = "ready"
    /\ stage' = [stage EXCEPT ![o] = "running"]
    /\ UNCHANGED <<opr, at, wait, trigger, varState, pending, waiters, pushed, running>>

\* Cleanup still runs at shutdown.
Runs(o) == ~ shutdown_phase \/ opr[o].kind = "delete"

\* OnStart may find an exception with one of the variables.  Whether a wait has
\* thrown it meanwhile and emptied it is left to the module EngineErrors.
MayInherit(o) == Runs(o) /\ (Reads(o) \cup Writes(o)) \cap broken # {}

\* Mutant: nothing runs any more once the process shuts down.
CallsFnUnlessShutdown(o, exception) == ~ shutdown_phase /\ ~ exception

\* Whether ExecuteOprBlock calls the function: an exception skips it, unless the
\* operation asked not to be skipped or is WaitForVar's.
CallsFn(o, exception) ==
    Runs(o) /\ (exception => opr[o].kind \in {"no_skip", "wait"})

\* The function of the operation returns, throws or has its callback called, or
\* it was not called: OnComplete begins.  The function of a deletion has marked
\* the variable (SetToDelete), that of WaitForVar has set done and notified.
Completed(o, inherited, throws) ==
    LET calls == CallsFn(o, inherited)
    IN  /\ executed' = IF calls THEN executed \cup {o} ELSE executed
        /\ life' = [v \in Var |-> IF calls /\ opr[o].kind = "delete" /\ v \in Writes(o)
                                  THEN "to_delete" ELSE life[v]]
        /\ asleep' = [t \in Thread |-> asleep[t] /\ ~ (calls /\ opr[o].kind = "wait")]
        /\ broken' = IF inherited \/ throws THEN broken \cup Writes(o) ELSE broken

OnComplete(o) ==
    /\ stage[o] = "running"
    /\ stage' = [stage EXCEPT ![o] = "completing"]
    /\ \E inherited, throws \in BOOLEAN :
         /\ inherited => MayInherit(o)
         /\ throws => CallsFn(o, inherited) /\ opr[o].kind \in {"normal", "no_skip"}
         /\ Completed(o, inherited, throws)
    /\ UNCHANGED <<opr, at, wait, trigger, queue, num_pending_reads, pending, cur, pushed,
                   shutdown_phase>>

\* The last read before a pending write triggers it.
LastRead(v) == num_pending_reads[v] = 1 /\ queue[v] # <<>>

CompleteReadDependency(v, o) ==
    LET last == LastRead(v)
    IN  /\ num_pending_reads' = [num_pending_reads EXCEPT
                                   ![v] = IF last THEN kWriteTriggered ELSE @ - 1]
        /\ trigger' = [trigger EXCEPT ![o] = IF last THEN <<Head(queue[v]).op>> ELSE <<>>]
        /\ UNCHANGED <<queue, life>>

\* Mutant: the search stops one block too late.
ReadChainTooLong(q) ==
    IF \E i \in DOMAIN q : q[i].write THEN Min({i \in DOMAIN q : q[i].write}) ELSE Len(q)

\* The number of reads that directly follow the completed write.
ReadChain(q) ==
    IF \E i \in DOMAIN q : q[i].write THEN Min({i \in DOMAIN q : q[i].write}) - 1 ELSE Len(q)

CompleteWriteDependency(v, o) ==
    LET rest == Tail(queue[v])
        reads == ReadChain(rest)
        next == SubSeq(rest, reads + 1, Len(rest))
        direct == reads = 0 /\ next # <<>>
        granted == IF direct THEN 1 ELSE reads
    IN  IF life[v] = "to_delete"
        THEN /\ life' = [life EXCEPT ![v] = "freed"]
             /\ queue' = [queue EXCEPT ![v] = rest]
             /\ UNCHANGED <<num_pending_reads, trigger>>
        ELSE /\ queue' = [queue EXCEPT ![v] = next]
             /\ num_pending_reads' = [num_pending_reads EXCEPT
                                        ![v] = IF direct THEN kWriteTriggered ELSE reads]
             /\ trigger' = [trigger EXCEPT ![o] = [i \in 1..granted |-> rest[i].op]]
             /\ UNCHANGED life

\* OnComplete visits the variables in turn ...
CompleteDependency(o) ==
    /\ stage[o] = "completing" /\ trigger[o] = <<>>
    /\ at[o] <= Len(Deps(o))
    /\ LET v == Deps(o)[at[o]]
       IN  IF IsWrite(o, at[o]) THEN CompleteWriteDependency(v, o)
                                ELSE CompleteReadDependency(v, o)
    /\ at' = [at EXCEPT ![o] = @ + 1]
    /\ UNCHANGED <<opr, stage, wait, pending, waiters, pushed, running>>

\* ... and outside the lock decrements those that were waiting, dispatching an
\* operation that waits for nothing more.
DecrWait(o) ==
    /\ trigger[o] # <<>>
    /\ LET p == Head(trigger[o])
       IN  /\ Grant(p)
           /\ stage' = [stage EXCEPT ![p] = IF wait[p] = 1 THEN "ready" ELSE @]
    /\ trigger' = [trigger EXCEPT ![o] = Tail(@)]
    /\ UNCHANGED <<opr, at, varState, pending, waiters, pushed, running>>

\* Mutant: the counter is tested before it is decremented.
NonePending == pending = 0

LastPending == pending = 1

\* The end of OnComplete: the last pending operation notifies the waiters.
CompleteEnd(o) ==
    /\ stage[o] = "completing" /\ trigger[o] = <<>>
    /\ at[o] > Len(Deps(o))
    /\ stage' = [stage EXCEPT ![o] = "done"]
    /\ pending' = pending - 1
    /\ asleep' = [t \in Thread |-> asleep[t] /\ ~ LastPending]
    /\ cur' = [t \in Thread |-> IF cur[t] = o /\ opr[o].kind = "delete" THEN 0 ELSE cur[t]]
    /\ UNCHANGED <<opr, at, wait, trigger, varState, pushed, running>>

\* A waiter evaluates its predicate under finished_m_: it returns or sleeps.
Finished(o) == stage[o] \in {"completing", "done"} /\ o \in executed

CheckWait(t) ==
    /\ ~ asleep[t]
    /\ \/ cur[t] = ALL
       \/ cur[t] \in Op /\ opr[cur[t]].kind = "wait" /\ stage[cur[t]] # "pushing"
    /\ LET done == IF cur[t] = ALL THEN pending = 0 ELSE Finished(cur[t])
       IN  /\ cur' = [cur EXCEPT ![t] = IF done THEN 0 ELSE @]
           /\ asleep' = [asleep EXCEPT ![t] = ~ done]
    /\ UNCHANGED <<opr, stage, at, wait, trigger, varState, pending, pushed, running>>

----------------------------------------------------------------------------
Call(t) == PushAsync(t) \/ DeleteVariable(t) \/ WaitForVar(t) \/ WaitForAll(t) \/ NotifyShutdown(t)
PushStep(t) == AppendDependency(t) \/ PushEnd(t)
Complete(o) == CompleteDependency(o) \/ DecrWait(o) \/ CompleteEnd(o)

Next ==
    \/ \E t \in Thread : Call(t) \/ PushStep(t) \/ CheckWait(t)
    \/ \E o \in Op : ExecuteOprBlock(o) \/ OnComplete(o) \/ Complete(o)

Spec == Init /\ [][Next]_vars

\* Every thread runs, the workers empty their queues and every function ends
\* or calls its callback; nobody has to push anything.
Fairness ==
    /\ \A t \in Thread : WF_vars(PushStep(t)) /\ WF_vars(CheckWait(t))
    /\ \A o \in Op : /\ WF_vars(ExecuteOprBlock(o))
                     /\ WF_vars(OnComplete(o))
                     /\ WF_vars(Complete(o))

FairSpec == Spec /\ Fairness

----------------------------------------------------------------------------
(* Properties.                                                              *)

\* The variables have the types of the declarations in threaded_engine.h.
TypeOK ==
    /\ opr \in [Op -> [reads : Seq(Var), writes : Seq(Var), kind : AllKinds]]
    /\ stage \in [Op -> Stage]
    /\ at \in [Op -> Nat \ {0}]
    /\ wait \in [Op -> Nat]
    /\ trigger \in [Op -> Seq(Op)]
    /\ queue \in [Var -> Seq(Block)]
    /\ num_pending_reads \in [Var -> Nat \cup {kWriteTriggered}]
    /\ life \in [Var -> {"live", "to_delete", "freed"}]
    /\ pending \in 0..MaxOps /\ pushed \in 0..MaxOps
    /\ cur \in [Thread -> Op \cup {0, ALL}]
    /\ asleep \in [Thread -> BOOLEAN]
    /\ executed \subseteq Op /\ broken \subseteq Var /\ shutdown_phase \in BOOLEAN

Completes(o, v, write) ==
    /\ stage[o] = "completing" /\ trigger[o] = <<>>
    /\ at[o] <= Len(Deps(o))
    /\ Deps(o)[at[o]] = v /\ IsWrite(o, at[o]) = write

\* The CHECKs and asserts of ThreadedVar: a variable with a queue is either
\* being read or has triggered the write at its head, without a queue it has no
\* write; a completed read was counted; a completed write is the one triggered;
\* and a deleted variable leaves nobody behind in its queue.
EngineChecks ==
    /\ \A v \in Var : life[v] # "freed" =>
         IF queue[v] = <<>> THEN num_pending_reads[v] >= 0
         ELSE num_pending_reads[v] # 0 /\ Head(queue[v]).write
    /\ \A o \in Op, v \in Var :
         /\ Completes(o, v, FALSE) => num_pending_reads[v] > 0
         /\ Completes(o, v, TRUE) =>
              /\ num_pending_reads[v] = kWriteTriggered
              /\ queue[v] # <<>> /\ Head(queue[v]).op = o
              /\ life[v] = "to_delete" => Len(queue[v]) = 1

\* A variable is deleted only when no operation that was pushed with it will
\* touch it again (the promise of Engine::DeleteVariable), and it is deleted by
\* the end of the operation that DeleteVariable pushed, also during shutdown,
\* unless an operation with an exception has written it.
DeletedLast ==
    \A v \in Var, o \in 1..pushed :
        /\ life[v] = "freed" /\ v \in Reads(o) \cup Writes(o) =>
             /\ stage[o] \in {"completing", "done"}
             /\ \A i \in at[o]..Len(Deps(o)) : stage[o] = "completing" => Deps(o)[i] # v
        /\ opr[o].kind = "delete" /\ stage[o] = "done" /\ v \in Writes(o) \ broken =>
             life[v] = "freed"

\* What WaitForVar relies on when it returns at once: no operation that writes
\* the variable has been pushed and not finished.
ReadyMeansWritten ==
    \A v \in Var, o \in 1..pushed :
        IsReadyToRead(v) /\ v \in Writes(o) =>
            stage[o] \in {"pushing", "completing", "done"}

\* Operations that run at the same time never conflict, whichever threads pushed
\* them: nobody reads or writes what a running operation writes.
NoRaces ==
    \A o, p \in Op : o # p /\ stage[o] = "running" /\ stage[p] = "running" =>
        Writes(o) \cap (Reads(p) \cup Writes(p)) = {}

\* A call of WaitForVar or WaitForAll returns, and a pushed operation is done:
\* no wait counter is left above 0 and no notification is lost. Only a shutdown
\* drops operations, and whoever waits for one of them is not woken.
CallsReturn ==
    [](~shutdown_phase) =>
    /\ \A t \in Thread : cur[t] # 0 ~> cur[t] = 0
    /\ \A o \in Op : stage[o] = "pushing" ~> stage[o] = "done"

\* With one pushing thread, the engine implements the order of the dependencies.
Phase(o) ==
    CASE stage[o] = "none" -> "none"
      [] stage[o] \in {"pushing", "waiting", "ready"} -> "issued"
      [] stage[o] = "running" -> "running"
      [] OTHER -> "finished"

Order == INSTANCE DepOrder WITH
           issued <- pushed,
           reads <- [o \in Op |-> Reads(o)],
           writes <- [o \in Op |-> Writes(o)],
           phase <- [o \in Op |-> Phase(o)]

\* Operations run as if they were executed one after the other in the order in
\* which they were pushed, as far as their variables can tell.
ImplementsDepOrder == Order!Spec
=============================================================================
