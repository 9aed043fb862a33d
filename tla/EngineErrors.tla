---------------------------- MODULE EngineErrors ----------------------------
(***************************************************************************)
(* How the engine hands the exception of an operation to the thread that   *)
(* waits: an exception is a shared reference (ExceptionRef) that travels   *)
(* along the variables, makes the operations that meet it skip their       *)
(* functions (unless they were pushed with kNoSkip) and is emptied when it *)
(* is rethrown, or when WaitForAll rethrows another one.  Operations start *)
(* and finish as DepOrder allows, which ThreadedEngine implements.         *)
(***************************************************************************)
EXTENDS DepOrder, FiniteSets

CONSTANT MaxWorkers      \* bound: worker threads

ASSUME EngineErrorsAssumption == MaxOps \in Nat /\ MaxWorkers \in Nat \ {0}

None == 0                \* no reference

VARIABLES
    opr_exception,   \* the reference an operation holds: the operation it came from
    var_exception,   \* the reference a variable holds
    live,            \* the references that are not empty
    global,          \* global_exception_refs_
    step,            \* how far a running operation is
    copy,            \* what a worker has read of global_exception_refs_
    no_skip,         \* operations pushed with kNoSkip
    failed,          \* operations that threw, or held an exception before their function
    rethrown,        \* for a reference that was emptied, the one the user was thrown then
    quiet,           \* nothing was pushed since WaitForAll
    nthreads         \* worker threads, fixed at the start

errors == <<opr_exception, var_exception, live, global, step, copy, no_skip, failed, rethrown,
            quiet, nthreads>>
allVars == <<vars, errors>>

\* OnStart, AddToGlobalExceptions of OnStart, the function, OnComplete.
Step == {"none", "add", "fn", "end", "addEnd", "out"}

Live(e) == e # None /\ e \in live

ErrInit ==
    /\ Init
    /\ opr_exception = [o \in Op |-> None]
    /\ var_exception = [v \in Var |-> None]
    /\ live = {} /\ global = {}
    /\ step = [o \in Op |-> "none"]
    /\ copy = [o \in Op |-> {}]
    /\ no_skip = {} /\ failed = {}
    /\ rethrown = [o \in Op |-> None]
    /\ quiet = FALSE
    /\ nthreads \in 1..MaxWorkers

Push(r, w, prop) ==
    /\ r \cap w = {} /\ w # {}
    /\ Issue(r, w)
    /\ no_skip' = IF prop = "kNoSkip" THEN no_skip \cup {issued'} ELSE no_skip
    /\ quiet' = FALSE
    /\ UNCHANGED <<opr_exception, var_exception, live, global, step, copy, failed, rethrown,
                   nthreads>>

\* Mutant: only the variables an operation reads are searched.
InheritedFromReads(o) ==
    {var_exception[v] : v \in {u \in reads[o] : Live(var_exception[u])}}

\* The references OnStart may find: those of the variables it reads, or else
\* those of the variables it writes.
Inherited(o) ==
    LET from(s) == {var_exception[v] : v \in {u \in s : Live(var_exception[u])}}
    IN  IF from(reads[o]) # {} THEN from(reads[o]) ELSE from(writes[o])

\* ExecuteOprBlock up to the end of OnStart.
OnStart(o) ==
    /\ Cardinality({p \in Op : phase[p] = "running"}) < nthreads
    /\ Start(o)
    /\ IF Inherited(o) = {}
       THEN /\ step' = [step EXCEPT ![o] = "fn"]
            /\ UNCHANGED <<opr_exception, copy>>
       ELSE \E e \in Inherited(o) :
              /\ opr_exception' = [opr_exception EXCEPT ![o] = e]
              /\ step' = [step EXCEPT ![o] = "add"]
              /\ copy' = [copy EXCEPT ![o] = global]
    /\ UNCHANGED <<var_exception, live, global, no_skip, failed, rethrown, quiet, nthreads>>

\* OnStart goes on to the function, OnComplete to the dependencies.
AfterAdd(s) == IF s = "add" THEN "fn" ELSE "out"

\* AddToGlobalExceptions, without a lock: of two at once, one may be lost.
AddToGlobalExceptions(o) ==
    /\ step[o] \in {"add", "addEnd"}
    /\ global' = copy[o] \cup {opr_exception[o]}
    /\ step' = [step EXCEPT ![o] = AfterAdd(@)]
    /\ UNCHANGED <<vars, opr_exception, var_exception, live, copy, no_skip, failed, rethrown, quiet,
                   nthreads>>

\* The function is called, unless the operation holds an exception and may be
\* skipped; an exception it throws takes the place of the one it held.
CallsFn(o) == ~ Live(opr_exception[o]) \/ o \in no_skip

RunFn(o) ==
    /\ step[o] = "fn"
    /\ \/ /\ failed' = IF Live(opr_exception[o]) THEN failed \cup {o} ELSE failed
          /\ UNCHANGED <<opr_exception, live>>
       \/ /\ CallsFn(o)
          /\ opr_exception' = [opr_exception EXCEPT ![o] = o]
          /\ live' = live \cup {o}
          /\ failed' = failed \cup {o}
    /\ step' = [step EXCEPT ![o] = "end"]
    /\ UNCHANGED <<vars, var_exception, global, copy, no_skip, rethrown, quiet, nthreads>>

\* OnComplete hands the exception to every variable the operation writes ...
Marked(o, v) == v \in writes[o]

OnComplete(o) ==
    /\ step[o] = "end"
    /\ IF Live(opr_exception[o])
       THEN /\ var_exception' = [v \in Var |-> IF Marked(o, v) THEN opr_exception[o]
                                               ELSE var_exception[v]]
            /\ step' = [step EXCEPT ![o] = "addEnd"]
            /\ copy' = [copy EXCEPT ![o] = global]
       ELSE /\ step' = [step EXCEPT ![o] = "out"]
            /\ UNCHANGED <<var_exception, copy>>
    /\ UNCHANGED <<vars, opr_exception, live, global, no_skip, failed, rethrown, quiet, nthreads>>

\* ... before it completes the dependencies.
CompleteDependencies(o) ==
    /\ step[o] = "out"
    /\ Finish(o)
    /\ step' = [step EXCEPT ![o] = "none"]
    /\ UNCHANGED <<opr_exception, var_exception, live, global, copy, no_skip, failed, rethrown,
                   quiet, nthreads>>

\* ThrowException at the end of WaitForVar, when all writes of v are finished.
ThrowException(v) ==
    /\ \A o \in Op : v \in writes[o] => phase[o] = "finished"
    /\ Live(var_exception[v])
    /\ live' = live \ {var_exception[v]}
    /\ rethrown' = [rethrown EXCEPT ![var_exception[v]] = var_exception[v]]
    /\ UNCHANGED <<vars, opr_exception, var_exception, global, step, copy, no_skip, failed, quiet,
                   nthreads>>

\* Mutant: only the exception that is rethrown is emptied.
ClearedFirst(g) == IF g \cap live = {} THEN {} ELSE {CHOOSE e \in g \cap live : TRUE}

\* WaitForAll empties every reference of the list ...
Cleared(g) == g

\* ... and rethrows the first that was not empty; the others are dropped.
Rethrow(all) ==
    IF all = {} THEN UNCHANGED rethrown
    ELSE \E first \in all :
           rethrown' = [e \in Op |-> IF e \in all THEN first ELSE rethrown[e]]

WaitForAll ==
    /\ issued > 0 /\ ~ quiet
    /\ \A o \in 1..issued : phase[o] = "finished"
    /\ live' = live \ Cleared(global)
    /\ Rethrow(Cleared(global) \cap live)
    /\ global' = {}
    /\ quiet' = TRUE
    /\ UNCHANGED <<vars, opr_exception, var_exception, step, copy, no_skip, failed, nthreads>>

ErrNext ==
    \/ \E r, w \in SUBSET Var, prop \in {"kNormal", "kNoSkip"} : Push(r, w, prop)
    \/ \E o \in Op : \/ OnStart(o) \/ AddToGlobalExceptions(o) \/ RunFn(o)
                     \/ OnComplete(o) \/ CompleteDependencies(o)
    \/ \E v \in Var : ThrowException(v)
    \/ WaitForAll

ErrSpec == ErrInit /\ [][ErrNext]_allVars

----------------------------------------------------------------------------
(* Properties.                                                              *)

\* The variables have the types of the declarations in threaded_engine.h.
ErrTypeOK ==
    /\ opr_exception \in [Op -> Op \cup {None}]
    /\ var_exception \in [Var -> Op \cup {None}]
    /\ live \subseteq Op /\ global \subseteq Op
    /\ step \in [Op -> Step] /\ copy \in [Op -> SUBSET Op]
    /\ no_skip \subseteq Op /\ failed \subseteq Op
    /\ rethrown \in [Op -> Op \cup {None}] /\ quiet \in BOOLEAN
    /\ nthreads \in 1..MaxWorkers
    /\ \A o \in Op : step[o] # "none" <=> phase[o] = "running"

\* p is the last operation before o that writes v.
LastWriter(p, v, o) ==
    p < o /\ v \in writes[p] /\ \A q \in (p + 1)..(o - 1) : v \notin writes[q]

\* The function of o has been called or skipped.
PastFn(o) == phase[o] = "finished" \/ step[o] \in {"end", "addEnd", "out"}
Ran(o) == PastFn(o) /\ o \notin failed

\* The last writes of the variables of o that did not take place, or used values
\* that were not there.
Lost(o) == {p \in failed : \E v \in reads[o] \cup writes[o] : LastWriter(p, v, o)}

\* The references that were emptied: the user was thrown an exception then, this
\* one or, by WaitForAll, one of those emptied with it.
Told == {e \in Op : rethrown[e] # None}

\* No operation computes in silence with a variable whose last write failed: it
\* runs its function as if nothing had happened only if all exceptions behind
\* such variables, or the one that the operation itself had inherited, were
\* emptied by calls that threw to the user, whatever the order of waits, workers,
\* skipped operations and operations that kNoSkip lets run.  The exception thrown
\* need not be the one behind the variable: WaitForAll rethrows one and drops
\* the others of its list.
NoSilentGarbage ==
    \A o \in Op : Ran(o) =>
        \/ opr_exception[o] \in Told
        \/ \A p \in Lost(o) : opr_exception[p] \in Told

\* After WaitForAll a WaitForVar does not throw (threaded_engine.cc:430), if one
\* worker runs all operations: several may lose entries of the list.
QuietAfterWaitForAll ==
    quiet /\ nthreads = 1 => \A v \in Var : ~ Live(var_exception[v])
=============================================================================
