------------------------ MODULE EngineErrorsProofs ------------------------
(***************************************************************************)
(* The exceptions of the engine, for any number of operations, variables   *)
(* and workers: who computes with missing results has been told, and with  *)
(* one worker WaitForAll leaves nothing behind.                            *)
(***************************************************************************)
EXTENDS EngineErrors, FiniteSetTheorems, TLAPS

----------------------------------------------------------------------------
(* The inductive invariant.                                                 *)

Begun(o) == phase[o] \in {"running", "finished"}

\* What DepOrder keeps: an operation that has begun came after the operations it
\* conflicts with.
OrderInv ==
    /\ issued \in 0..MaxOps
    /\ reads \in [Op -> SUBSET Var] /\ writes \in [Op -> SUBSET Var]
    /\ phase \in [Op -> {"none", "issued", "running", "finished"}]
    /\ \A o \in Op : phase[o] = "none" <=> o > issued
    /\ \A o, p \in Op : Begun(o) /\ p < o /\ Conflict(p, o) => phase[p] = "finished"

\* A reference is filled once, by the function of its operation, and emptied
\* once, by a call that throws; no one holds one that was never filled.
Filled == live \cup Told
ReportInv ==
    /\ live \cap Told = {}
    /\ \A o \in Filled : PastFn(o)
    /\ \A o \in failed : PastFn(o) /\ opr_exception[o] \in Filled
    /\ \A o \in Op : opr_exception[o] # None => Begun(o) /\ opr_exception[o] \in Filled
    /\ \A o \in Op : step[o] \in {"add", "addEnd"} => opr_exception[o] # None
    /\ \A v \in Var : var_exception[v] # None => var_exception[v] \in Filled

\* OnComplete has handed on the exception of o.
Marks(o) == phase[o] = "finished" \/ step[o] \in {"addEnd", "out"}

\* The exception of the last write that did not take place is found at the
\* variable until it is emptied.
VarInv ==
    \A p \in failed : \A v \in writes[p] :
        /\ Marks(p) /\ opr_exception[p] \in live
        /\ \A q \in Op : q > p /\ v \in writes[q] => ~ Marks(q)
        => var_exception[v] = opr_exception[p]

\* An operation inherits an exception when it begins if one of the exceptions
\* behind its variables is not emptied, and runs only once that one is.
GarbageInv ==
    \A o \in Op :
        /\ Begun(o) /\ opr_exception[o] = None => \A p \in Lost(o) : opr_exception[p] \in Told
        /\ Ran(o) /\ opr_exception[o] # None => opr_exception[o] \in Told

\* A single worker runs one operation at a time and loses no entry of the list
\* of exceptions; after WaitForAll nothing runs.
QuietInv ==
    /\ quiet => \A o \in Op : phase[o] \in {"none", "finished"}
    /\ nthreads = 1 =>
         /\ \A o, p \in Op : phase[o] = "running" /\ phase[p] = "running" => o = p
         /\ \A o \in Op : step[o] \in {"add", "addEnd"} => copy[o] = global
         /\ \A e \in live : e \in global
                              \/ \E o \in Op : step[o] \in {"end", "addEnd"} /\ opr_exception[o] = e
         /\ quiet => live = {}

ErrorInv == ErrTypeOK /\ OrderInv /\ ReportInv /\ VarInv /\ GarbageInv /\ QuietInv


----------------------------------------------------------------------------
(* Every step keeps the invariant.                                          *)

LEMMA OpFacts ==
    /\ \A o \in Op : o \in Nat /\ o > 0 /\ o <= MaxOps
    /\ None \notin Op /\ MaxOps \in Nat
BY EngineErrorsAssumption DEF Op, None

LEMMA ToldOps == Told \subseteq Op
BY DEF Told

\* Operations that have been called or skipped have begun.
LEMMA PastBegun ==
    ASSUME ErrTypeOK, NEW o \in Op
    PROVE  /\ PastFn(o) => Begun(o)
           /\ Marks(o) => PastFn(o)
           /\ Begun(o) <=> phase[o] = "finished" \/ step[o] # "none"
BY DEF ErrTypeOK, PastFn, Begun, Marks

\* An operation is pushed.
LEMMA PushStep ==
    ASSUME ErrorInv, NEW r \in SUBSET Var, NEW w \in SUBSET Var,
           NEW prop \in {"kNormal", "kNoSkip"}, Push(r, w, prop)
    PROVE  ErrorInv'
<1> USE DEF ErrorInv
<1> DEFINE n == issued + 1
<1>1. n \in Op /\ issued \in Nat /\ issued' = n /\ issued' \in 0..MaxOps
  BY OpFacts DEF Push, Issue, OrderInv, Op
<1>2. /\ reads' = [reads EXCEPT ![n] = r] /\ writes' = [writes EXCEPT ![n] = w]
      /\ phase' = [phase EXCEPT ![n] = "issued"] /\ quiet' = FALSE
      /\ UNCHANGED <<opr_exception, var_exception, live, global, step, copy, failed, rethrown,
                     Told, nthreads>>
      /\ no_skip' \subseteq no_skip \cup {n}
  BY DEF Push, Issue, Told
<1>3. \A o \in Op : o <= issued => o # n
  BY <1>1, OpFacts
<1>4. phase[n] = "none" /\ step[n] = "none"
  BY <1>1, OpFacts DEF OrderInv, ErrTypeOK
<1> HIDE DEF n
<1>5. /\ phase'[n] = "issued" /\ reads'[n] = r /\ writes'[n] = w
      /\ \A o \in Op : o # n => /\ phase'[o] = phase[o] /\ reads'[o] = reads[o]
                                /\ writes'[o] = writes[o]
      /\ reads' \in [Op -> SUBSET Var] /\ writes' \in [Op -> SUBSET Var]
      /\ phase' \in [Op -> {"none", "issued", "running", "finished"}]
  BY <1>1, <1>2 DEF OrderInv
<1>6. /\ \A o \in Op : Begun(o)' <=> Begun(o)
      /\ \A o \in Op : PastFn(o)' <=> PastFn(o)
      /\ \A o \in Op : Marks(o)' <=> Marks(o)
      /\ \A o \in Op : Begun(o) \/ PastFn(o) \/ Marks(o) => o # n
  BY <1>2, <1>4, <1>5 DEF Begun, PastFn, Marks
<1>7. \A o \in Op : Begun(o) => o <= issued
  BY <1>1, OpFacts DEF OrderInv, Begun
<1>8. ErrTypeOK'
  BY <1>1, <1>2, <1>4, <1>5 DEF ErrTypeOK
<1>9. OrderInv'
  <2>1. \A o \in Op : phase'[o] = "none" <=> o > issued'
    BY <1>1, <1>5, OpFacts DEF OrderInv, n
  <2>2. ASSUME NEW o \in Op, NEW p \in Op, Begun(o)', p < o, Conflict(p, o)'
        PROVE  phase'[p] = "finished"
    <3>1. o # n /\ p # n /\ Begun(o)
      BY <2>2, <1>1, <1>6, <1>7, OpFacts DEF n
    <3>2. Conflict(p, o)
      BY <2>2, <3>1, <1>5 DEF Conflict
    <3> QED
      BY <2>2, <3>1, <3>2, <1>5 DEF OrderInv
  <2> QED
    BY <1>1, <1>5, <2>1, <2>2 DEF OrderInv
<1>10. ReportInv'
  BY <1>2, <1>6, ToldOps DEF ReportInv, Filled, ErrTypeOK
<1>11. VarInv'
  <2> SUFFICES ASSUME NEW p \in failed, NEW v \in writes'[p], Marks(p)', opr_exception[p] \in live,
                      \A q \in Op : q > p /\ v \in writes'[q] => ~ Marks(q)'
               PROVE  var_exception[v] = opr_exception[p]
    BY <1>2 DEF VarInv
  <2>1. p \in Op
    BY DEF ErrTypeOK
  <2>2. Marks(p) /\ p # n /\ v \in writes[p]
    BY <2>1, <1>5, <1>6
  <2>3. \A q \in Op : q > p /\ v \in writes[q] => ~ Marks(q)
    BY <1>5, <1>6
  <2> QED
    BY <2>2, <2>3 DEF VarInv
<1>12. GarbageInv'
  <2> SUFFICES ASSUME NEW o \in Op
               PROVE  /\ Begun(o)' /\ opr_exception[o] = None =>
                           \A p \in Lost(o)' : opr_exception[p] \in Told
                      /\ Ran(o)' /\ opr_exception[o] # None => opr_exception[o] \in Told
    BY <1>2 DEF GarbageInv
  <2>1. Ran(o)' <=> Ran(o)
    BY <1>2, <1>6 DEF Ran
  <2>2. ASSUME Begun(o), NEW p \in Lost(o)' PROVE p \in Lost(o)
    <3>1. PICK v \in reads'[o] \cup writes'[o] : LastWriter(p, v, o)'
      BY DEF Lost
    <3>2. p \in Op /\ p \in failed /\ p < o /\ o <= issued /\ o # n
      BY <3>1, <2>2, <1>2, <1>6, <1>7 DEF Lost, LastWriter, ErrTypeOK
    <3>3. v \in reads[o] \cup writes[o]
      BY <3>1, <3>2, <1>5
    <3>4. p # n /\ \A q \in (p + 1)..(o - 1) : q \in Op /\ q # n
      BY <3>2, <1>1, OpFacts DEF Op, n
    <3>5. v \in writes[p] /\ \A q \in (p + 1)..(o - 1) : v \notin writes[q]
      BY <3>1, <3>2, <3>4, <1>5 DEF LastWriter
    <3> QED
      BY <3>2, <3>3, <3>5 DEF Lost, LastWriter
  <2> QED
    BY <2>1, <2>2, <1>6 DEF GarbageInv
<1>13. QuietInv'
  <2>1. \A o \in Op : phase'[o] = "running" <=> phase[o] = "running"
    BY <1>4, <1>5
  <2> QED
    BY <1>2, <2>1 DEF QuietInv
<1> QED
  BY <1>8, <1>9, <1>10, <1>11, <1>12, <1>13


\* With one worker nothing runs when an operation is taken.
LEMMA IdleWorker ==
    ASSUME ErrTypeOK, OrderInv, nthreads = 1,
           Cardinality({p \in Op : phase[p] = "running"}) < nthreads
    PROVE  \A p \in Op : phase[p] # "running"
<1> DEFINE S == {p \in Op : phase[p] = "running"}
<1>1. IsFiniteSet(Op)
  BY FS_Interval, OpFacts DEF Op
<1>2. IsFiniteSet(S)
  BY <1>1, FS_Subset
<1>3. Cardinality(S) \in Nat /\ Cardinality(S) < 1
  BY <1>2, FS_CardinalityType
<1> HIDE DEF S
<1>4. Cardinality(S) = 0
  BY <1>3
<1>5. S = {}
  BY <1>2, <1>4, FS_EmptySet
<1> QED
  BY <1>5 DEF S

\* An operation begins: it inherits an exception if one behind its variables
\* has not been emptied.
LEMMA OnStartStep ==
    ASSUME ErrorInv, NEW o \in Op, OnStart(o)
    PROVE  ErrorInv'
<1> USE DEF ErrorInv
<1>1. /\ phase[o] = "issued" /\ phase' = [phase EXCEPT ![o] = "running"]
      /\ \A p \in 1..(o - 1) : Conflict(p, o) => phase[p] = "finished"
      /\ UNCHANGED <<issued, reads, writes>>
      /\ UNCHANGED <<var_exception, live, global, no_skip, failed, rethrown,
                     Told, quiet, nthreads>>
  BY DEF OnStart, Start, Told
<1>2. PICK s \in {"fn", "add"}, e \in Op \cup {None}, c \in SUBSET Op :
        /\ step' = [step EXCEPT ![o] = s]
        /\ opr_exception' = [opr_exception EXCEPT ![o] = e]
        /\ copy' = [copy EXCEPT ![o] = c]
        /\ e # None => Live(e)
        /\ e = None => Inherited(o) = {} /\ s = "fn"
        /\ s = "add" => c = global
  <2>1. CASE Inherited(o) = {}
    <3>1. /\ step' = [step EXCEPT ![o] = "fn"] /\ opr_exception' = opr_exception /\ copy' = copy
      BY <2>1 DEF OnStart
    <3>2. /\ opr_exception[o] = None
      BY <1>1 DEF ReportInv, Begun
    <3>3. opr_exception' = [opr_exception EXCEPT ![o] = None]
      BY <3>1, <3>2 DEF ErrTypeOK
    <3>4. copy' = [copy EXCEPT ![o] = copy[o]] /\ copy[o] \in SUBSET Op
      BY <3>1 DEF ErrTypeOK
    <3> QED
      BY <2>1, <3>1, <3>3, <3>4
  <2>2. CASE Inherited(o) # {}
    <3>1. PICK e \in Inherited(o) : /\ opr_exception' = [opr_exception EXCEPT ![o] = e]
                                    /\ step' = [step EXCEPT ![o] = "add"]
                                    /\ copy' = [copy EXCEPT ![o] = global]
      BY <2>2 DEF OnStart
    <3>2. Live(e)
      BY DEF Inherited
    <3>3. e \in Op /\ e # None /\ global \in SUBSET Op
      BY <3>2 DEF Live, ErrTypeOK
    <3> QED
      BY <3>1, <3>2, <3>3
  <2> QED
    BY <2>1, <2>2
<1>3. /\ phase'[o] = "running" /\ step'[o] = s /\ opr_exception'[o] = e /\ copy'[o] = c
      /\ \A p \in Op : p # o => /\ phase'[p] = phase[p] /\ step'[p] = step[p]
                                /\ opr_exception'[p] = opr_exception[p] /\ copy'[p] = copy[p]
      /\ step[o] = "none"
  BY <1>1, <1>2 DEF ErrTypeOK, OrderInv
<1>4. /\ \A p \in Op : PastFn(p)' <=> PastFn(p)
      /\ \A p \in Op : Marks(p)' <=> Marks(p)
      /\ \A p \in Op : Begun(p)' <=> Begun(p) \/ p = o
      /\ ~ PastFn(o) /\ ~ Marks(o) /\ ~ Begun(o)
  BY <1>1, <1>3 DEF Begun, PastFn, Marks
<1>5. o \notin failed /\ \A p \in Op : Ran(p)' <=> Ran(p)
  BY <1>1, <1>4 DEF ReportInv, Ran
<1>6. ErrTypeOK'
  <2>1. \A p \in Op : step'[p] # "none" <=> phase'[p] = "running"
    BY <1>3 DEF ErrTypeOK
  <2>2. step' \in [Op -> Step] /\ opr_exception' \in [Op -> Op \cup {None}]
        /\ copy' \in [Op -> SUBSET Op]
    BY <1>2 DEF ErrTypeOK, Step
  <2> QED
    BY <1>1, <2>1, <2>2 DEF ErrTypeOK
<1>7. OrderInv'
  <2>1. phase' \in [Op -> {"none", "issued", "running", "finished"}]
    BY <1>1 DEF OrderInv
  <2>2. \A p \in Op : phase'[p] = "none" <=> p > issued
    BY <1>1, <1>3 DEF OrderInv
  <2>3. ASSUME NEW p \in Op, NEW q \in Op, Begun(p)', q < p, Conflict(q, p)
        PROVE  phase'[q] = "finished"
    <3>1. CASE p = o
      <4>1. q \in 1..(o - 1)
        BY <2>3, <3>1, OpFacts
      <4> QED
        BY <2>3, <3>1, <4>1, <1>1, <1>3
    <3>2. CASE p # o
      BY <2>3, <3>2, <1>1, <1>3, <1>4 DEF OrderInv
    <3> QED
      BY <3>1, <3>2
  <2>4. \A p, q \in Op : Conflict(q, p)' <=> Conflict(q, p)
    BY <1>1 DEF Conflict
  <2> QED
    BY <1>1, <2>1, <2>2, <2>3, <2>4 DEF OrderInv
<1>8. ReportInv'
  <2>1. e # None => e \in Filled
    BY <1>2 DEF Live, Filled
  <2>2. Filled' = Filled /\ Filled \subseteq Op /\ failed \subseteq Op
    BY <1>1, ToldOps DEF Filled, ErrTypeOK
  <2>3. \A p \in Op : opr_exception'[p] # None => Begun(p)' /\ opr_exception'[p] \in Filled
    BY <1>3, <1>4, <2>1 DEF ReportInv
  <2>4. \A p \in failed : PastFn(p)' /\ opr_exception'[p] \in Filled
    BY <1>3, <1>4, <1>5, <2>2 DEF ReportInv
  <2>5. \A p \in Op : step'[p] \in {"add", "addEnd"} => opr_exception'[p] # None
    BY <1>2, <1>3 DEF ReportInv
  <2> QED
    BY <1>1, <1>4, <2>2, <2>3, <2>4, <2>5 DEF ReportInv
<1>9. VarInv'
  <2> SUFFICES ASSUME NEW p \in failed, NEW v \in writes[p], Marks(p)',
                      opr_exception'[p] \in live,
                      \A q \in Op : q > p /\ v \in writes[q] => ~ Marks(q)'
               PROVE  var_exception[v] = opr_exception'[p]
    BY <1>1 DEF VarInv
  <2>1. p \in Op /\ p # o /\ opr_exception'[p] = opr_exception[p]
    BY <1>3, <1>5 DEF ErrTypeOK
  <2>2. Marks(p) /\ \A q \in Op : q > p /\ v \in writes[q] => ~ Marks(q)
    BY <2>1, <1>4
  <2> QED
    BY <2>1, <2>2 DEF VarInv
<1>10. \A p : Lost(p)' = Lost(p)
  BY <1>1 DEF Lost, LastWriter
<1>11. ASSUME e = None, NEW p \in Lost(o) PROVE opr_exception[p] \in Told
  <2>1. PICK v \in reads[o] \cup writes[o] : LastWriter(p, v, o)
    BY <1>11 DEF Lost
  <2>2. p \in failed /\ p \in Op /\ p < o /\ v \in writes[p] /\ p \in 1..(o - 1)
        /\ \A q \in (p + 1)..(o - 1) : v \notin writes[q]
    BY <2>1, <1>11, OpFacts DEF Lost, LastWriter, ErrTypeOK
  <2>3. Conflict(p, o)
    BY <2>1, <2>2 DEF Conflict
  <2>4. Marks(p)
    BY <2>2, <2>3, <1>1 DEF Marks
  <2>5. ASSUME NEW q \in Op, q > p, v \in writes[q] PROVE ~ Marks(q)
    <3>1. q \notin (p + 1)..(o - 1)
      BY <2>2, <2>5
    <3>2. q = o \/ q > o
      BY <2>2, <2>5, <3>1, OpFacts
    <3>3. CASE q > o
      <4>1. Conflict(o, q)
        BY <2>1, <2>5 DEF Conflict
      <4>2. ~ Begun(q)
        BY <1>1, <3>3, <4>1, OpFacts DEF OrderInv
      <4> QED
        BY <4>2, PastBegun
    <3> QED
      BY <3>2, <3>3, <1>4
  <2>6. opr_exception[p] \in live => var_exception[v] = opr_exception[p]
    BY <2>2, <2>4, <2>5 DEF VarInv
  <2>7. opr_exception[p] \in Filled /\ None \notin live
    BY <2>2, OpFacts DEF ReportInv, ErrTypeOK
  <2>8. ~ Live(var_exception[v])
    BY <1>2, <1>11, <2>1 DEF Inherited
  <2> QED
    BY <2>6, <2>7, <2>8 DEF Live, Filled
<1>12. GarbageInv'
  <2> SUFFICES ASSUME NEW p \in Op
               PROVE  /\ Begun(p)' /\ opr_exception'[p] = None =>
                           \A q \in Lost(p) : opr_exception'[q] \in Told
                      /\ Ran(p)' /\ opr_exception'[p] # None => opr_exception'[p] \in Told
    BY <1>1, <1>10 DEF GarbageInv
  <2>1. \A q \in Lost(p) : opr_exception'[q] = opr_exception[q]
    BY <1>3, <1>5 DEF Lost, ErrTypeOK
  <2>2. CASE p = o
    BY <2>1, <2>2, <1>3, <1>4, <1>5, <1>11 DEF Ran
  <2>3. CASE p # o
    BY <2>1, <2>3, <1>3, <1>4, <1>5 DEF GarbageInv
  <2> QED
    BY <2>2, <2>3
<1>13. QuietInv'
  <2>1. ~ quiet
    BY <1>1 DEF QuietInv
  <2>2. ASSUME nthreads = 1
        PROVE  /\ \A p, q \in Op : phase'[p] = "running" /\ phase'[q] = "running" => p = q
               /\ \A p \in Op : step'[p] \in {"add", "addEnd"} => copy'[p] = global
               /\ \A f \in live : f \in global
                    \/ \E p \in Op : step'[p] \in {"end", "addEnd"} /\ opr_exception'[p] = f
    <3>1. \A p \in Op : phase[p] # "running"
      BY <2>2, IdleWorker DEF OnStart
    <3>2. \A p \in Op : step[p] = "none"
      BY <3>1 DEF ErrTypeOK
    <3>3. live \subseteq global
      BY <2>2, <3>2 DEF QuietInv
    <3>4. \A p \in Op : step'[p] \in {"add", "addEnd"} => copy'[p] = global
      BY <3>2, <1>2, <1>3
    <3> QED
      BY <3>1, <3>3, <3>4, <1>3
  <2> QED
    BY <2>1, <2>2, <1>1 DEF QuietInv
<1> QED
  BY <1>6, <1>7, <1>8, <1>9, <1>12, <1>13


\* What the order of operations says is kept by steps that change none of it.
LEMMA SameOrder ==
    ASSUME UNCHANGED vars
    PROVE  /\ OrderInv => OrderInv'
           /\ \A o : Begun(o)' <=> Begun(o)
           /\ \A o, p : Conflict(o, p)' <=> Conflict(o, p)
           /\ failed' = failed => \A o : Lost(o)' = Lost(o)
<1>1. UNCHANGED <<issued, reads, writes, phase>>
  BY DEF vars
<1>2. \A o, p : Conflict(o, p)' <=> Conflict(o, p)
  BY <1>1 DEF Conflict
<1>3. \A o : Begun(o)' <=> Begun(o)
  BY <1>1 DEF Begun
<1>4. OrderInv => OrderInv'
  BY <1>1, <1>2, <1>3 DEF OrderInv
<1>5. failed' = failed => \A o : Lost(o)' = Lost(o)
  BY <1>1 DEF Lost, LastWriter
<1> QED
  BY <1>2, <1>3, <1>4, <1>5

\* The list of exceptions is written.
LEMMA AddStep ==
    ASSUME ErrorInv, NEW o \in Op, AddToGlobalExceptions(o)
    PROVE  ErrorInv'
<1> USE DEF ErrorInv
<1>1. /\ step[o] \in {"add", "addEnd"} /\ step' = [step EXCEPT ![o] = AfterAdd(step[o])]
      /\ global' = copy[o] \cup {opr_exception[o]}
      /\ UNCHANGED <<opr_exception, var_exception, live, copy, no_skip, failed, rethrown,
                     Told, quiet, nthreads>>
      /\ UNCHANGED vars
  BY DEF AddToGlobalExceptions, Told
<1>2. /\ step'[o] = IF step[o] = "add" THEN "fn" ELSE "out"
      /\ \A p \in Op : p # o => step'[p] = step[p]
      /\ phase' = phase /\ writes' = writes
      /\ phase[o] = "running"
  BY <1>1 DEF ErrTypeOK, AfterAdd, vars
<1>3. /\ \A p \in Op : PastFn(p)' <=> PastFn(p)
      /\ \A p \in Op : Marks(p)' <=> Marks(p)
  BY <1>1, <1>2 DEF PastFn, Marks
<1>4. \A p \in Op : Ran(p)' <=> Ran(p)
  BY <1>1, <1>3 DEF Ran
<1>5. OrderInv' /\ (\A p : Begun(p)' <=> Begun(p)) /\ (\A p : Lost(p)' = Lost(p))
  BY <1>1, SameOrder
<1>6. ErrTypeOK'
  <2>1. step' \in [Op -> Step]
    BY <1>1 DEF ErrTypeOK, Step, AfterAdd
  <2>2. \A p \in Op : step'[p] # "none" <=> phase'[p] = "running"
    BY <1>1, <1>2 DEF ErrTypeOK
  <2>3. opr_exception[o] # None
    BY <1>1 DEF ReportInv
  <2>4. global' \subseteq Op
    BY <1>1, <2>3 DEF ErrTypeOK
  <2> QED
    BY <1>1, <2>1, <2>2, <2>4 DEF ErrTypeOK
<1>7. ReportInv'
  <2>1. \A p \in Op : step'[p] \in {"add", "addEnd"} => step[p] = step'[p]
    BY <1>1, <1>2
  <2> QED
    BY <1>1, <1>3, <1>5, <2>1, ToldOps DEF ReportInv, Filled, ErrTypeOK
<1>8. VarInv'
  <2>1. failed \subseteq Op
    BY DEF ErrTypeOK
  <2> QED
    BY <2>1, <1>1, <1>2, <1>3 DEF VarInv
<1>9. GarbageInv'
  BY <1>1, <1>4, <1>5 DEF GarbageInv
<1>10. QuietInv'
  <2>1. ~ quiet
    BY <1>2 DEF QuietInv
  <2>2. ASSUME nthreads = 1
        PROVE  /\ \A p, q \in Op : phase'[p] = "running" /\ phase'[q] = "running" => p = q
               /\ \A p \in Op : step'[p] \in {"add", "addEnd"} => copy'[p] = global'
               /\ \A f \in live : f \in global'
                    \/ \E p \in Op : step'[p] \in {"end", "addEnd"} /\ opr_exception'[p] = f
    <3>1. \A p \in Op : p # o => phase[p] # "running" /\ step[p] = "none"
      BY <2>2, <1>2 DEF QuietInv, ErrTypeOK
    <3>2. global' = global \cup {opr_exception[o]}
      BY <2>2, <1>1 DEF QuietInv
    <3>3. \A p \in Op : step'[p] \notin {"add", "addEnd"}
      BY <3>1, <1>1, <1>2
    <3>4. \A f \in live : f \in global'
      BY <2>2, <3>1, <3>2 DEF QuietInv
    <3> QED
      BY <2>2, <3>3, <3>4, <1>2 DEF QuietInv
  <2> QED
    BY <2>1, <2>2, <1>1 DEF QuietInv
<1> QED
  BY <1>5, <1>6, <1>7, <1>8, <1>9, <1>10


\* The function is called or skipped, and may throw.
LEMMA RunFnStep ==
    ASSUME ErrorInv, NEW o \in Op, RunFn(o)
    PROVE  ErrorInv'
<1> USE DEF ErrorInv
<1>1. /\ step[o] = "fn" /\ step' = [step EXCEPT ![o] = "end"]
      /\ UNCHANGED <<var_exception, global, copy, no_skip, rethrown, Told, quiet, nthreads>>
      /\ UNCHANGED vars
  BY DEF RunFn, Told
<1>2. PICK e \in Op \cup {None} :
        /\ opr_exception' = [opr_exception EXCEPT ![o] = e]
        /\ \/ Live(e) /\ live' = live /\ failed' = failed \cup {o} /\ e = opr_exception[o]
           \/ ~ Live(e) /\ live' = live /\ failed' = failed /\ e = opr_exception[o]
           \/ e = o /\ live' = live \cup {o} /\ failed' = failed \cup {o}
  <2>1. opr_exception[o] \in Op \cup {None}
        /\ opr_exception = [opr_exception EXCEPT ![o] = opr_exception[o]]
    BY DEF ErrTypeOK
  <2> QED
    BY <2>1 DEF RunFn
<1>3. /\ step'[o] = "end" /\ \A p \in Op : p # o => step'[p] = step[p]
      /\ phase' = phase /\ phase[o] = "running" /\ writes' = writes
      /\ opr_exception'[o] = e /\ \A p \in Op : p # o => opr_exception'[p] = opr_exception[p]
  BY <1>1, <1>2 DEF ErrTypeOK, vars
<1>4. /\ \A p \in Op : PastFn(p)' <=> PastFn(p) \/ p = o
      /\ \A p \in Op : Marks(p)' <=> Marks(p)
      /\ ~ PastFn(o) /\ ~ Marks(o)
  BY <1>1, <1>3 DEF PastFn, Marks
<1>5. OrderInv' /\ (\A p : Begun(p)' <=> Begun(p)) /\ Begun(o)
  BY <1>1, <1>3, SameOrder DEF Begun
<1>6. o \notin Filled /\ o \notin failed
  BY <1>4 DEF ReportInv
<1>7. ErrTypeOK'
  <2>1. step' \in [Op -> Step] /\ opr_exception' \in [Op -> Op \cup {None}]
    BY <1>1, <1>2 DEF ErrTypeOK, Step
  <2>2. \A p \in Op : step'[p] # "none" <=> phase'[p] = "running"
    BY <1>1, <1>3 DEF ErrTypeOK
  <2>3. live' \subseteq Op /\ failed' \subseteq Op
    BY <1>2 DEF ErrTypeOK
  <2> QED
    BY <1>1, <2>1, <2>2, <2>3 DEF ErrTypeOK
<1>8. Filled' = Filled \cup (live' \ live) /\ live' \ live \subseteq {o}
  BY <1>1, <1>2 DEF Filled
<1>9. e # None => e \in Filled'
  <2>1. opr_exception[o] # None => opr_exception[o] \in Filled
    BY DEF ReportInv
  <2>2. e = o /\ live' = live \cup {o} => e \in Filled'
    BY DEF Filled
  <2> QED
    BY <2>1, <2>2, <1>2, <1>8
<1>10. ReportInv'
  <2>1. live' \cap Told' = {}
    BY <1>1, <1>6, <1>8 DEF ReportInv, Filled
  <2>2. \A p \in Filled' : PastFn(p)'
    BY <1>4, <1>8, ToldOps DEF ReportInv, Filled, ErrTypeOK
  <2>3. \A p \in failed' : PastFn(p)' /\ opr_exception'[p] \in Filled'
    <3>1. \A p \in failed : PastFn(p)' /\ opr_exception'[p] \in Filled'
      BY <1>3, <1>4, <1>6, <1>8 DEF ReportInv, ErrTypeOK
    <3>2. o \in failed' => e # None
      BY <1>2, <1>6, OpFacts DEF Live
    <3> QED
      BY <3>1, <3>2, <1>2, <1>3, <1>4, <1>9
  <2>4. \A p \in Op : opr_exception'[p] # None => Begun(p)' /\ opr_exception'[p] \in Filled'
    BY <1>3, <1>5, <1>8, <1>9 DEF ReportInv
  <2>5. \A p \in Op : step'[p] \in {"add", "addEnd"} => opr_exception'[p] # None
    BY <1>3 DEF ReportInv
  <2>6. \A v \in Var : var_exception'[v] # None => var_exception'[v] \in Filled'
    BY <1>1, <1>8 DEF ReportInv
  <2> QED
    BY <2>1, <2>2, <2>3, <2>4, <2>5, <2>6 DEF ReportInv
<1>11. VarInv'
  <2> SUFFICES ASSUME NEW p \in failed', NEW v \in writes[p], Marks(p)',
                      opr_exception'[p] \in live',
                      \A q \in Op : q > p /\ v \in writes[q] => ~ Marks(q)'
               PROVE  var_exception[v] = opr_exception'[p]
    BY <1>1, <1>3 DEF VarInv
  <2>1. p \in Op /\ p # o /\ p \in failed /\ opr_exception'[p] = opr_exception[p]
    BY <1>2, <1>3, <1>4, <1>7 DEF ErrTypeOK
  <2>2. Marks(p) /\ \A q \in Op : q > p /\ v \in writes[q] => ~ Marks(q)
    BY <2>1, <1>4
  <2>3. opr_exception[p] \in live
    BY <2>1, <1>6, <1>8 DEF ReportInv
  <2> QED
    BY <2>1, <2>2, <2>3 DEF VarInv
<1>12. GarbageInv'
  <2> SUFFICES ASSUME NEW p \in Op
               PROVE  /\ Begun(p)' /\ opr_exception'[p] = None =>
                           \A q \in Lost(p)' : opr_exception'[q] \in Told
                      /\ Ran(p)' /\ opr_exception'[p] # None => opr_exception'[p] \in Told
    BY <1>1 DEF GarbageInv
  <2>1. ASSUME Begun(p), NEW q \in Lost(p)'
        PROVE  q \in Lost(p) /\ opr_exception'[q] = opr_exception[q]
    <3>1. q \in failed' /\ q \in Op /\ \E v \in reads[p] \cup writes[p] : LastWriter(q, v, p)
      BY <1>1, <1>7 DEF Lost, LastWriter, vars, ErrTypeOK
    <3>2. q < p /\ Conflict(q, p)
      BY <3>1 DEF LastWriter, Conflict
    <3>3. phase[q] = "finished"
      BY <2>1, <3>1, <3>2 DEF OrderInv
    <3>4. q # o
      BY <3>3, <1>3
    <3> QED
      BY <3>1, <3>4, <1>2, <1>3 DEF Lost
  <2>2. opr_exception'[p] = None => opr_exception[p] = None
    BY <1>2, <1>3, OpFacts
  <2>3. Begun(p)' /\ opr_exception'[p] = None => \A q \in Lost(p)' : opr_exception'[q] \in Told
    BY <2>1, <2>2, <1>5 DEF GarbageInv
  <2>4. Ran(p)' /\ opr_exception'[p] # None => opr_exception'[p] \in Told
    <3>1. CASE p # o
      <4>1. Ran(p)' <=> Ran(p)
        BY <3>1, <1>2, <1>4 DEF Ran
      <4> QED
        BY <3>1, <4>1, <1>3 DEF GarbageInv
    <3>2. CASE p = o
      <4>1. Ran(o)' => ~ Live(e) /\ live' = live
        BY <1>2 DEF Ran
      <4>2. e # None /\ ~ Live(e) /\ live' = live => e \in Told
        BY <1>9, <1>8 DEF Filled, Live
      <4> QED
        BY <3>2, <4>1, <4>2, <1>3
    <3> QED
      BY <3>1, <3>2
  <2> QED
    BY <2>3, <2>4
<1>13. QuietInv'
  <2>1. ~ quiet
    BY <1>3 DEF QuietInv
  <2>2. ASSUME nthreads = 1, NEW f \in live'
        PROVE  f \in global \/ \E p \in Op : step'[p] \in {"end", "addEnd"} /\ opr_exception'[p] = f
    <3>1. CASE f \in live
      BY <3>1, <2>2, <1>1, <1>3 DEF QuietInv
    <3>2. CASE f \notin live
      <4>1. f = o /\ e = o
        BY <2>2, <3>2, <1>2
      <4> QED
        BY <4>1, <1>3
    <3> QED
      BY <3>1, <3>2
  <2>3. \A p \in Op : step'[p] \in {"add", "addEnd"} => step[p] = step'[p]
    BY <1>3
  <2> QED
    BY <2>1, <2>2, <2>3, <1>1, <1>3 DEF QuietInv
<1> QED
  BY <1>5, <1>7, <1>10, <1>11, <1>12, <1>13


\* The exception is handed to the variables that are written.
LEMMA OnCompleteStep ==
    ASSUME ErrorInv, NEW o \in Op, OnComplete(o)
    PROVE  ErrorInv'
<1> USE DEF ErrorInv
<1> DEFINE e == opr_exception[o]
<1>1. /\ step[o] = "end"
      /\ UNCHANGED <<opr_exception, live, global, no_skip, failed, rethrown,
                     Told, quiet, nthreads>>
      /\ UNCHANGED vars
  BY DEF OnComplete, Told
<1>2. /\ Live(e) => /\ var_exception' = [v \in Var |-> IF v \in writes[o] THEN e ELSE var_exception[v]]
                    /\ step' = [step EXCEPT ![o] = "addEnd"]
                    /\ copy' = [copy EXCEPT ![o] = global]
      /\ ~ Live(e) => step' = [step EXCEPT ![o] = "out"] /\ UNCHANGED <<var_exception, copy>>
  BY DEF OnComplete, Marked
<1>3. /\ step'[o] = IF Live(e) THEN "addEnd" ELSE "out"
      /\ \A p \in Op : p # o => step'[p] = step[p]
      /\ phase' = phase /\ phase[o] = "running" /\ writes' = writes
  BY <1>1, <1>2 DEF ErrTypeOK, vars
<1>4. /\ \A p \in Op : PastFn(p)' <=> PastFn(p)
      /\ \A p \in Op : Marks(p)' <=> Marks(p) \/ p = o
      /\ \A p \in Op : Ran(p)' <=> Ran(p)
  <2>1. \A p \in Op : PastFn(p)' <=> PastFn(p)
    BY <1>1, <1>3 DEF PastFn
  <2>2. \A p \in Op : Marks(p)' <=> Marks(p) \/ p = o
    BY <1>1, <1>3 DEF Marks
  <2> QED
    BY <2>1, <2>2, <1>1 DEF Ran
<1>5. OrderInv' /\ (\A p : Begun(p)' <=> Begun(p)) /\ (\A p : Lost(p)' = Lost(p))
  BY <1>1, SameOrder
<1>6. e \in Op \cup {None}
  BY DEF ErrTypeOK
<1>7. ErrTypeOK'
  <2>1. step' \in [Op -> Step] /\ copy' \in [Op -> SUBSET Op]
    BY <1>2 DEF ErrTypeOK, Step
  <2>2. \A p \in Op : step'[p] # "none" <=> phase'[p] = "running"
    BY <1>1, <1>3 DEF ErrTypeOK
  <2>3. var_exception' \in [Var -> Op \cup {None}]
    BY <1>2, <1>6 DEF ErrTypeOK
  <2> QED
    BY <1>1, <2>1, <2>2, <2>3 DEF ErrTypeOK
<1>8. ReportInv'
  <2>1. Filled' = Filled /\ Filled \subseteq Op /\ failed \subseteq Op
    BY <1>1, ToldOps DEF Filled, ErrTypeOK
  <2>2. \A v \in Var : var_exception'[v] # None => var_exception'[v] \in Filled
    BY <1>2 DEF ReportInv, Live, Filled
  <2>3. \A p \in Op : step'[p] \in {"add", "addEnd"} => opr_exception[p] # None
    BY <1>3 DEF ReportInv, Live
  <2> QED
    BY <1>1, <1>4, <1>5, <2>1, <2>2, <2>3 DEF ReportInv
<1>9. VarInv'
  <2> SUFFICES ASSUME NEW p \in failed, NEW v \in writes[p], Marks(p)', opr_exception[p] \in live,
                      \A q \in Op : q > p /\ v \in writes[q] => ~ Marks(q)'
               PROVE  var_exception'[v] = opr_exception[p]
    BY <1>1, <1>3 DEF VarInv
  <2>1. p \in Op /\ v \in Var
    BY DEF ErrTypeOK, OrderInv
  <2>2. CASE p = o
    <3>1. Live(e)
      BY <2>2, OpFacts DEF Live, ErrTypeOK
    <3> QED
      BY <2>1, <2>2, <3>1, <1>2
  <2>3. CASE p # o
    <3>1. Marks(p) /\ \A q \in Op : q > p /\ v \in writes[q] => ~ Marks(q)
      BY <2>1, <2>3, <1>4
    <3>2. var_exception[v] = opr_exception[p]
      BY <3>1 DEF VarInv
    <3>3. v \notin writes[o]
      <4> SUFFICES ASSUME v \in writes[o] PROVE FALSE
        OBVIOUS
      <4>1. ~ (o > p)
        BY <1>4
      <4>2. o < p /\ Conflict(o, p)
        BY <4>1, <2>1, <2>3, OpFacts DEF Conflict
      <4>3. Begun(p)
        BY <2>1, <3>1, PastBegun
      <4>4. phase[o] = "finished"
        BY <2>1, <4>2, <4>3 DEF OrderInv
      <4> QED
        BY <4>4, <1>3
    <3> QED
      BY <2>1, <3>2, <3>3, <1>2
  <2> QED
    BY <2>2, <2>3
<1>10. GarbageInv'
  BY <1>1, <1>4, <1>5 DEF GarbageInv
<1>11. QuietInv'
  <2>1. ~ quiet
    BY <1>3 DEF QuietInv
  <2>2. ASSUME nthreads = 1
        PROVE  /\ \A p \in Op : step'[p] \in {"add", "addEnd"} => copy'[p] = global
               /\ \A f \in live : f \in global
                    \/ \E p \in Op : step'[p] \in {"end", "addEnd"} /\ opr_exception[p] = f
    <3>1. \A p \in Op : p # o => step[p] = "none"
      BY <2>2, <1>3 DEF QuietInv, ErrTypeOK
    <3>2. \A p \in Op : step'[p] \in {"add", "addEnd"} => p = o /\ Live(e)
      BY <3>1, <1>3
    <3>3. Live(e) => copy'[o] = global
      BY <1>2 DEF ErrTypeOK
    <3>4. \A f \in live : f \notin global => f = e
      BY <2>2, <3>1 DEF QuietInv
    <3>5. \A f \in live : f = e => Live(e)
      BY OpFacts DEF Live, ErrTypeOK
    <3> QED
      BY <3>2, <3>3, <3>4, <3>5, <1>3
  <2> QED
    BY <2>1, <2>2, <1>1, <1>3 DEF QuietInv
<1> QED
  BY <1>5, <1>7, <1>8, <1>9, <1>10, <1>11

\* The dependencies are completed: those who wait for them may begin.
LEMMA CompleteStep ==
    ASSUME ErrorInv, NEW o \in Op, CompleteDependencies(o)
    PROVE  ErrorInv'
<1> USE DEF ErrorInv
<1>1. /\ step[o] = "out" /\ step' = [step EXCEPT ![o] = "none"]
      /\ phase[o] = "running" /\ phase' = [phase EXCEPT ![o] = "finished"]
      /\ UNCHANGED <<issued, reads, writes>>
      /\ UNCHANGED <<opr_exception, var_exception, live, global, copy, no_skip, failed, rethrown,
                     quiet, nthreads>>
  BY DEF CompleteDependencies, Finish, Told
<1>2. /\ step'[o] = "none" /\ phase'[o] = "finished"
      /\ \A p \in Op : p # o => step'[p] = step[p] /\ phase'[p] = phase[p]
  BY <1>1 DEF ErrTypeOK, OrderInv
<1>3. /\ \A p \in Op : PastFn(p)' <=> PastFn(p)
      /\ \A p \in Op : Marks(p)' <=> Marks(p)
      /\ \A p \in Op : Begun(p)' <=> Begun(p)
  BY <1>1, <1>2 DEF PastFn, Marks, Begun
<1>4. /\ \A p \in Op : Ran(p)' <=> Ran(p)
      /\ \A p : Lost(p)' = Lost(p)
      /\ \A p, q : Conflict(p, q)' <=> Conflict(p, q)
  <2>1. \A p \in Op : Ran(p)' <=> Ran(p)
    BY <1>1, <1>3 DEF Ran
  <2>2. \A p : Lost(p)' = Lost(p)
    BY <1>1 DEF Lost, LastWriter
  <2>3. \A p, q : Conflict(p, q)' <=> Conflict(p, q)
    BY <1>1 DEF Conflict
  <2> QED
    BY <2>1, <2>2, <2>3
<1>5. ErrTypeOK'
  <2>1. step' \in [Op -> Step]
    BY <1>1 DEF ErrTypeOK, Step
  <2>2. \A p \in Op : step'[p] # "none" <=> phase'[p] = "running"
    BY <1>2 DEF ErrTypeOK
  <2> QED
    BY <1>1, <2>1, <2>2 DEF ErrTypeOK
<1>6. OrderInv'
  <2>1. phase' \in [Op -> {"none", "issued", "running", "finished"}]
    BY <1>1 DEF OrderInv
  <2>2. \A p \in Op : phase'[p] = "none" <=> p > issued
    BY <1>1, <1>2 DEF OrderInv
  <2>3. \A p, q \in Op : Begun(p)' /\ q < p /\ Conflict(q, p) => phase'[q] = "finished"
    BY <1>2, <1>3 DEF OrderInv
  <2> QED
    BY <1>1, <1>4, <2>1, <2>2, <2>3 DEF OrderInv
<1>7. ReportInv'
  <2>1. \A p \in Op : step'[p] \in {"add", "addEnd"} => opr_exception[p] # None
    BY <1>2 DEF ReportInv
  <2>2. Told' = Told /\ Filled' = Filled
    BY <1>1 DEF Told, Filled
  <2>3. Filled \subseteq Op /\ failed \subseteq Op
    BY ToldOps DEF Filled, ErrTypeOK
  <2>4. (\A p \in Filled : PastFn(p)') /\ \A p \in failed : PastFn(p)'
    BY <1>3, <2>3 DEF ReportInv
  <2>5. \A p \in Op : opr_exception[p] # None => Begun(p)' /\ opr_exception[p] \in Filled
    BY <1>3 DEF ReportInv
  <2> QED
    BY <1>1, <2>1, <2>2, <2>4, <2>5 DEF ReportInv
<1>8. VarInv'
  <2>1. failed \subseteq Op
    BY DEF ErrTypeOK
  <2>2. ASSUME NEW p \in failed, NEW v \in writes[p], Marks(p)', opr_exception[p] \in live,
               \A q \in Op : q > p /\ v \in writes[q] => ~ Marks(q)'
        PROVE  var_exception[v] = opr_exception[p]
    <3>1. Marks(p) /\ \A q \in Op : q > p /\ v \in writes[q] => ~ Marks(q)
      BY <1>3, <2>1, <2>2
    <3> QED
      BY <3>1, <2>2 DEF VarInv
  <2> QED
    BY <2>2, <1>1 DEF VarInv
<1>9. GarbageInv'
  <2>1. Told' = Told /\ opr_exception' = opr_exception
    BY <1>1 DEF Told
  <2>2. ASSUME NEW p \in Op
        PROVE  /\ Begun(p)' /\ opr_exception[p] = None
                    => \A q \in Lost(p)' : opr_exception[q] \in Told
               /\ Ran(p)' /\ opr_exception[p] # None => opr_exception[p] \in Told
    <3>1. (Begun(p)' <=> Begun(p)) /\ (Ran(p)' <=> Ran(p)) /\ Lost(p)' = Lost(p)
      BY <1>3, <1>4
    <3> QED
      BY <3>1 DEF GarbageInv
  <2> QED
    BY <2>1, <2>2 DEF GarbageInv
<1>10. QuietInv'
  <2>1. ~ quiet
    BY <1>1 DEF QuietInv
  <2>2. \A p \in Op : phase'[p] = "running" => phase[p] = "running"
    BY <1>2
  <2>3. \A p \in Op : step'[p] \in {"add", "addEnd"} => step[p] = step'[p]
    BY <1>2
  <2>4. \A p \in Op : step[p] \in {"end", "addEnd"} => step'[p] = step[p]
    BY <1>1, <1>2
  <2> QED
    BY <2>1, <2>2, <2>3, <2>4, <1>1 DEF QuietInv
<1> QED
  BY <1>5, <1>6, <1>7, <1>8, <1>9, <1>10

\* Exceptions are rethrown or dropped and their references emptied.
LEMMA ReportStep ==
    ASSUME ErrorInv, UNCHANGED vars, NEW C,
           live' = live \ C, Told' = Told \cup (C \cap live),
           UNCHANGED <<opr_exception, var_exception, step, copy, no_skip, failed, nthreads>>
    PROVE  /\ OrderInv' /\ ReportInv' /\ VarInv' /\ GarbageInv'
           /\ global' \subseteq Op /\ quiet' \in BOOLEAN /\ rethrown' \in [Op -> Op \cup {None}]
                => ErrTypeOK'
<1> USE DEF ErrorInv
<1>1. UNCHANGED <<issued, reads, writes, phase>>
  BY DEF vars
<1>2. /\ \A p : PastFn(p)' <=> PastFn(p)
      /\ \A p : Marks(p)' <=> Marks(p)
      /\ \A p : Ran(p)' <=> Ran(p)
  BY <1>1 DEF PastFn, Marks, Ran
<1>3. OrderInv' /\ (\A p : Begun(p)' <=> Begun(p)) /\ (\A p : Lost(p)' = Lost(p))
  BY SameOrder
<1>4. Filled' = Filled /\ live' \subseteq live /\ Told \subseteq Told'
  BY DEF Filled
<1>5. ReportInv'
  <2>1. live' \cap Told' = {}
    BY DEF ReportInv
  <2> QED
    BY <1>2, <1>3, <1>4, <2>1 DEF ReportInv
<1>6. VarInv'
  BY <1>1, <1>2, <1>4 DEF VarInv
<1>7. GarbageInv'
  BY <1>2, <1>3, <1>4 DEF GarbageInv
<1>8. global' \subseteq Op /\ quiet' \in BOOLEAN /\ rethrown' \in [Op -> Op \cup {None}]
        => ErrTypeOK'
  BY <1>1 DEF ErrTypeOK
<1> QED
  BY <1>3, <1>5, <1>6, <1>7, <1>8

LEMMA ThrowStep ==
    ASSUME ErrorInv, NEW v \in Var, ThrowException(v)
    PROVE  ErrorInv'
<1> USE DEF ErrorInv
<1> DEFINE e == var_exception[v]
<1>1. /\ e \in live /\ live' = live \ {e} /\ rethrown' = [rethrown EXCEPT ![e] = e]
      /\ UNCHANGED vars
      /\ UNCHANGED <<opr_exception, var_exception, global, step, copy, no_skip, failed, quiet,
                     nthreads>>
  BY DEF ThrowException, Live
<1>2. Told' = Told \cup ({e} \cap live) /\ rethrown' \in [Op -> Op \cup {None}]
  <2>1. e \in Op /\ e # None
    BY <1>1, OpFacts DEF ErrTypeOK
  <2> HIDE DEF e
  <2> QED
    BY <1>1, <2>1 DEF Told, ErrTypeOK
<1>3. OrderInv' /\ ReportInv' /\ VarInv' /\ GarbageInv' /\ ErrTypeOK'
  <2>1. global' \subseteq Op /\ quiet' \in BOOLEAN
    BY <1>1 DEF ErrTypeOK
  <2> QED
    BY <1>1, <1>2, <2>1, ReportStep
<1>4. QuietInv'
  <2>1. phase' = phase
    BY <1>1 DEF vars
  <2> QED
    BY <1>1, <2>1 DEF QuietInv
<1> QED
  BY <1>3, <1>4

LEMMA WaitStep ==
    ASSUME ErrorInv, WaitForAll
    PROVE  ErrorInv'
<1> USE DEF ErrorInv
<1>1. /\ \A o \in 1..issued : phase[o] = "finished"
      /\ live' = live \ global /\ Rethrow(global \cap live)
      /\ global' = {} /\ quiet' = TRUE /\ UNCHANGED vars
      /\ UNCHANGED <<opr_exception, var_exception, step, copy, no_skip, failed, nthreads>>
  BY DEF WaitForAll, Cleared
<1>2. OrderInv' /\ ReportInv' /\ VarInv' /\ GarbageInv' /\ ErrTypeOK'
  <2>1. global' \subseteq Op /\ quiet' \in BOOLEAN
    BY <1>1
  <2>2. Told' = Told \cup (global \cap live) /\ rethrown' \in [Op -> Op \cup {None}]
    <3>1. CASE global \cap live = {}
      BY <3>1, <1>1 DEF Rethrow, Told, ErrTypeOK
    <3>2. CASE global \cap live # {}
      <4>1. PICK first \in global \cap live :
              rethrown' = [e \in Op |-> IF e \in global \cap live THEN first ELSE rethrown[e]]
        BY <3>2, <1>1 DEF Rethrow
      <4>2. first \in Op /\ first # None /\ live \subseteq Op
        BY OpFacts DEF ErrTypeOK
      <4> QED
        BY <4>1, <4>2 DEF Told, ErrTypeOK
    <3> QED
      BY <3>1, <3>2
  <2> QED
    BY <1>1, <2>1, <2>2, ReportStep
<1>3. QuietInv'
  <2>1. \A o \in Op : phase[o] \in {"none", "finished"}
    <3>1. \A o \in Op : o > issued \/ o \in 1..issued
      BY OpFacts DEF OrderInv
    <3> QED
      BY <1>1, <3>1 DEF OrderInv
  <2>2. \A o \in Op : step[o] = "none"
    BY <2>1 DEF ErrTypeOK
  <2>3. nthreads = 1 => live' = {}
    BY <1>1, <2>2 DEF QuietInv
  <2>4. phase' = phase
    BY <1>1 DEF vars
  <2> QED
    BY <1>1, <2>1, <2>2, <2>3, <2>4 DEF QuietInv
<1> QED
  BY <1>2, <1>3

LEMMA InitialErrors == ErrInit => ErrorInv
<1> SUFFICES ASSUME ErrInit PROVE ErrorInv
  OBVIOUS
<1> USE DEF ErrInit, Init
<1>1. ErrTypeOK
  BY DEF ErrTypeOK, Step
<1>2. OrderInv
  BY OpFacts DEF OrderInv, Begun
<1>3. ReportInv /\ VarInv
  BY DEF ReportInv, VarInv, Filled, Told
<1>4. GarbageInv
  BY DEF GarbageInv, Begun, Ran, PastFn
<1>5. QuietInv
  BY DEF QuietInv
<1> QED
  BY <1>1, <1>2, <1>3, <1>4, <1>5 DEF ErrorInv

LEMMA NextErrors == ErrorInv /\ [ErrNext]_allVars => ErrorInv'
<1> SUFFICES ASSUME ErrorInv, [ErrNext]_allVars PROVE ErrorInv'
  OBVIOUS
<1>1. CASE \E r, w \in SUBSET Var, prop \in {"kNormal", "kNoSkip"} : Push(r, w, prop)
  BY <1>1, PushStep
<1>2. ASSUME NEW o \in Op, \/ OnStart(o) \/ AddToGlobalExceptions(o) \/ RunFn(o)
                           \/ OnComplete(o) \/ CompleteDependencies(o)
      PROVE  ErrorInv'
  BY <1>2, OnStartStep, AddStep, RunFnStep, OnCompleteStep, CompleteStep
<1>3. CASE \E v \in Var : ThrowException(v)
  BY <1>3, ThrowStep
<1>4. CASE WaitForAll
  BY <1>4, WaitStep
<1>5. CASE UNCHANGED allVars
  <2>1. UNCHANGED <<vars, issued, reads, writes, phase>> /\ UNCHANGED errors
    BY <1>5 DEF allVars, vars
  <2>2. live' = live \ {} /\ Told' = Told \cup ({} \cap live)
    BY <2>1 DEF errors, Told
  <2>3. OrderInv' /\ ReportInv' /\ VarInv' /\ GarbageInv' /\ ErrTypeOK'
    <3>1. global' \subseteq Op /\ quiet' \in BOOLEAN /\ rethrown' \in [Op -> Op \cup {None}]
      BY <2>1 DEF errors, ErrorInv, ErrTypeOK
    <3> QED
      BY <2>1, <2>2, <3>1, ReportStep DEF errors
  <2>4. QuietInv'
    BY <2>1 DEF errors, ErrorInv, QuietInv
  <2> QED
    BY <2>3, <2>4 DEF ErrorInv
<1> QED
  BY <1>1, <1>2, <1>3, <1>4, <1>5 DEF ErrNext

----------------------------------------------------------------------------
(* The results.                                                             *)

\* For any operations, variables and workers, the exceptions of the engine
\* travel as the references and the variables say.
THEOREM ErrorsInductive == ErrSpec => []ErrorInv
  BY InitialErrors, NextErrors, PTL DEF ErrSpec

\* The type invariant holds in every state of EngineErrors.
THEOREM ErrorTypes == ErrSpec => []ErrTypeOK
<1>1. ErrorInv => ErrTypeOK
  BY DEF ErrorInv
<1> QED
  BY <1>1, ErrorsInductive, PTL

\* An operation computes with missing results only after the user was thrown an
\* exception for each of them, or for the one it had inherited in OnStart: that
\* exception, or another one of the list that the same WaitForAll emptied.
THEOREM NoSilentGarbageHolds == ErrSpec => []NoSilentGarbage
<1>1. ErrorInv => NoSilentGarbage
  <2> SUFFICES ASSUME ErrorInv, NEW o \in Op, Ran(o)
               PROVE  \/ opr_exception[o] \in Told
                      \/ \A p \in Lost(o) : opr_exception[p] \in Told
    BY DEF NoSilentGarbage
  <2>1. Begun(o)
    BY PastBegun DEF ErrorInv, Ran
  <2> QED
    BY <2>1 DEF ErrorInv, GarbageInv
<1> QED
  BY <1>1, ErrorsInductive, PTL

\* With one worker no variable keeps an exception that WaitForAll has not
\* emptied, so that a WaitForVar after it does not throw.
THEOREM QuietAfterWaitForAllHolds == ErrSpec => []QuietAfterWaitForAll
<1>1. ErrorInv => QuietAfterWaitForAll
  BY DEF ErrorInv, QuietInv, QuietAfterWaitForAll, Live
<1> QED
  BY <1>1, ErrorsInductive, PTL
============================================================================
