------------------------ MODULE ThreadedEngineProofs ------------------------
(***************************************************************************)
(* The queues, counters and triggers of the engine agree, for any number   *)
(* of variables, threads and operations: every CHECK holds, conflicting    *)
(* operations never run together, a deleted variable is not touched again, *)
(* and with one pushing thread operations run in the order of their        *)
(* dependencies.                                                           *)
(***************************************************************************)
EXTENDS ThreadedEngine, FiniteSetTheorems, SequenceTheorems, WellFoundedInduction, TLAPS

----------------------------------------------------------------------------
(* The inductive invariant.                                                 *)

InHand == {"pushing", "waiting", "ready", "running", "completing"}

\* Dependency i of o has been appended to its variable and is not completed.
Active(o, i) ==
    /\ i \in DOMAIN Deps(o) /\ stage[o] \in InHand
    /\ stage[o] = "pushing" => i < at[o]
    /\ stage[o] = "completing" => i >= at[o]

\* o is between the append and the completion of its read, or its write, of v.
Reading(o, v) == \E i \in DOMAIN Deps(o) : Active(o, i) /\ Deps(o)[i] = v /\ ~ IsWrite(o, i)
Writing(o, v) == \E i \in DOMAIN Deps(o) : Active(o, i) /\ Deps(o)[i] = v /\ IsWrite(o, i)

\* o has a block in the queue of v; it is the write that v has triggered.
Queued(o, v) == \E j \in DOMAIN queue[v] : queue[v][j].op = o
First(o, v) == queue[v] # <<>> /\ queue[v][1].op = o /\ num_pending_reads[v] = kWriteTriggered

\* o has not asked for v yet; it waits in the queue; it was granted v but has
\* not been decremented yet.
Unasked(o, v) == stage[o] = "pushing" /\ \E i \in DOMAIN Deps(o) : i >= at[o] /\ Deps(o)[i] = v
Blocked(o, v) == Queued(o, v) /\ ~ First(o, v)
Served(c) == Deps(c)[at[c] - 1]
Owes(c, o, v) == o \in ToSet(trigger[c]) /\ Served(c) = v
Owed(o, v) == \E c \in Op : Owes(c, o, v)

\* The variables o is still waiting for, which its counter counts.
Missing(o) == {v \in Var : Unasked(o, v) \/ Blocked(o, v) \/ Owed(o, v)}

\* The operations that v lets read, which its counter counts.
Readers(v) == {o \in Op : Reading(o, v) /\ ~ Queued(o, v)}

\* Operations and where they are.
OprInv ==
    \A o \in Op :
        /\ stage[o] = "none" <=> o > pushed
        /\ stage[o] = "none" => opr[o] = NoOpr
        /\ IsInjective(Deps(o))
        /\ at[o] <= Len(Deps(o)) + 1
        /\ stage[o] \notin {"pushing", "completing", "done"} => at[o] = 1
        /\ stage[o] = "done" => at[o] = Len(Deps(o)) + 1
        /\ o \in executed => stage[o] \in {"completing", "done"}
        /\ opr[o].kind = "delete" => opr[o].reads = <<>> /\ Len(opr[o].writes) = 1

\* A queue holds the writes that are not completed and the reads behind them,
\* each once, a write first; the counter counts the readers.
QueueOf(v) ==
    /\ \A j \in DOMAIN queue[v], o \in Op : queue[v][j].op = o =>
         /\ queue[v][j].write => Writing(o, v)
         /\ ~ queue[v][j].write => Reading(o, v)
    /\ \A j, k \in DOMAIN queue[v] : queue[v][j].op = queue[v][k].op => j = k
    /\ \A o \in Op : Writing(o, v) => Queued(o, v)
    /\ queue[v] # <<>> => queue[v][1].write /\ num_pending_reads[v] # 0
    /\ queue[v] = <<>> /\ life[v] # "freed" => num_pending_reads[v] # kWriteTriggered
    /\ IF num_pending_reads[v] = kWriteTriggered THEN Readers(v) = {}
       ELSE Cardinality(Readers(v)) = num_pending_reads[v]
QueueInv == \A v \in Var : QueueOf(v)

\* OprBlock::wait counts what is missing, and one for the push itself.
WaitInv ==
    \A o \in Op :
        /\ wait[o] = Cardinality(Missing(o)) + (IF stage[o] = "pushing" THEN 1 ELSE 0)
        /\ stage[o] \notin {"pushing", "waiting"} => wait[o] = 0

\* What a completion has still to decrement was granted the variable it has just
\* completed, once.
TriggerInv ==
    /\ \A c \in Op : trigger[c] # <<>> =>
         stage[c] = "completing" /\ at[c] > 1 /\ IsInjective(trigger[c])
    /\ \A c, o \in Op, v \in Var : Owes(c, o, v) =>
         /\ Reading(o, v) \/ Writing(o, v)
         /\ ~ Blocked(o, v)
         /\ \A d \in Op : Owes(d, o, v) => d = c

\* d deletes v.
Deletes(d, v) == opr[d].kind = "delete" /\ v \in Writes(d)

\* d is a deletion of v whose function has been called.
Called(d, v) == Deletes(d, v) /\ d \in executed

\* The deletion of v is the last operation with v, and when it is pushed no
\* other is still being pushed; its completion frees v unless it was skipped, for
\* an exception that v holds.
DeleteInv ==
    /\ \A d, o \in Op : \A v \in Var :
         Deletes(d, v) /\ v \in ToSet(Deps(o)) /\ o # d => o < d /\ stage[o] # "pushing"
    /\ \A d \in Op, v \in Var : Deletes(d, v) =>
         \A j \in DOMAIN queue[v] : queue[v][j].op = d => j = Len(queue[v])
    /\ \A v \in Var :
         /\ life[v] = "to_delete" <=>
              \E d \in Op : Called(d, v) /\ stage[d] = "completing" /\ at[d] = 1
         /\ life[v] = "freed" <=>
              \E d \in Op : Called(d, v) /\ stage[d] \in {"completing", "done"} /\ at[d] > 1
         /\ life[v] = "freed" => \A o \in Op : ~ Reading(o, v) /\ ~ Writing(o, v)
         /\ \A d \in Op : Deletes(d, v) /\ stage[d] \in {"completing", "done"} =>
              d \in executed \/ v \in broken

\* pending_ counts the operations that are not done.
PendingInv == pending = Cardinality({o \in Op : stage[o] \in InHand})

EngineInv == TypeOK /\ OprInv /\ QueueInv /\ WaitInv /\ TriggerInv /\ DeleteInv /\ PendingInv

----------------------------------------------------------------------------
(* Operations and their dependencies.                                       *)

LEMMA OpFacts ==
    /\ \A o \in Op : o \in Nat /\ o > 0 /\ o <= MaxOps
    /\ 0 \notin Op /\ ALL \notin Op /\ MaxOps \in Nat
BY EngineAssumption DEF Op, ALL

LEMMA OpFinite == IsFiniteSet(Op) /\ Cardinality(Op) = MaxOps
<1>1. MaxOps \in Nat
  BY OpFacts
<1>2. IsFiniteSet(1..MaxOps) /\ Cardinality(1..MaxOps) = IF 1 > MaxOps THEN 0 ELSE MaxOps - 1 + 1
  BY <1>1, FS_Interval
<1> QED
  BY <1>1, <1>2 DEF Op

\* The dependencies are the reads and then the writes.
LEMMA SplitFacts ==
    ASSUME NEW r \in Seq(Var), NEW w \in Seq(Var)
    PROVE  /\ r \o w \in Seq(Var) /\ Len(r \o w) = Len(r) + Len(w)
           /\ Len(r) \in Nat /\ Len(w) \in Nat /\ Len(r \o w) \in Nat
           /\ DOMAIN (r \o w) = 1..Len(r \o w)
           /\ \A i \in DOMAIN (r \o w) : (r \o w)[i] \in Var
           /\ \A i \in DOMAIN (r \o w) : i <= Len(r) => (r \o w)[i] \in ToSet(r)
           /\ \A i \in DOMAIN (r \o w) : i > Len(r) => (r \o w)[i] \in ToSet(w)
           /\ \A v \in ToSet(r) : \E i \in DOMAIN (r \o w) : i <= Len(r) /\ (r \o w)[i] = v
           /\ \A v \in ToSet(w) : \E i \in DOMAIN (r \o w) : i > Len(r) /\ (r \o w)[i] = v
<1> DEFINE d == r \o w
<1>1. /\ d \in Seq(Var) /\ Len(d) = Len(r) + Len(w)
      /\ \A i \in 1..(Len(r) + Len(w)) : d[i] = IF i <= Len(r) THEN r[i] ELSE w[i - Len(r)]
  BY ConcatProperties
<1> HIDE DEF d
<1>2. /\ Len(r) \in Nat /\ Len(w) \in Nat /\ Len(d) \in Nat
      /\ DOMAIN r = 1..Len(r) /\ DOMAIN w = 1..Len(w) /\ DOMAIN d = 1..Len(d)
  BY <1>1, LenProperties
<1>3. \A i \in DOMAIN d : d[i] \in Var
  BY <1>1, <1>2, ElementOfSeq
<1>4. \A i \in DOMAIN d : i <= Len(r) => d[i] \in ToSet(r)
  BY <1>1, <1>2 DEF ToSet
<1>5. ASSUME NEW i \in DOMAIN d, i > Len(r) PROVE d[i] \in ToSet(w)
  <2>1. i - Len(r) \in 1..Len(w) /\ d[i] = w[i - Len(r)]
    BY <1>1, <1>2, <1>5
  <2> QED
    BY <2>1, <1>2 DEF ToSet
<1>6. ASSUME NEW v \in ToSet(r) PROVE \E i \in DOMAIN d : i <= Len(r) /\ d[i] = v
  <2>1. PICK i \in 1..Len(r) : r[i] = v
    BY <1>2, <1>6 DEF ToSet
  <2>2. i \in DOMAIN d /\ i <= Len(r) /\ d[i] = v
    BY <2>1, <1>1, <1>2
  <2> QED
    BY <2>2
<1>7. ASSUME NEW v \in ToSet(w) PROVE \E i \in DOMAIN d : i > Len(r) /\ d[i] = v
  <2>1. PICK i \in 1..Len(w) : w[i] = v
    BY <1>2, <1>7 DEF ToSet
  <2>2. i + Len(r) \in DOMAIN d /\ i + Len(r) > Len(r) /\ (i + Len(r)) - Len(r) = i
    BY <1>1, <1>2
  <2>3. d[i + Len(r)] = w[i]
    BY <2>2, <1>1, <1>2
  <2> QED
    BY <2>1, <2>2, <2>3
<1> QED
  BY <1>1, <1>2, <1>3, <1>4, <1>5, <1>6, <1>7 DEF d

LEMMA DepsFacts ==
    ASSUME TypeOK, NEW o \in Op
    PROVE  /\ Deps(o) \in Seq(Var) /\ Len(Deps(o)) \in Nat /\ DOMAIN Deps(o) = 1..Len(Deps(o))
           /\ \A i \in DOMAIN Deps(o) : Deps(o)[i] \in Var
           /\ \A i \in DOMAIN Deps(o) : IsWrite(o, i) => Deps(o)[i] \in Writes(o)
           /\ \A i \in DOMAIN Deps(o) : ~ IsWrite(o, i) => Deps(o)[i] \in Reads(o)
           /\ \A v \in Writes(o) : \E i \in DOMAIN Deps(o) : IsWrite(o, i) /\ Deps(o)[i] = v
           /\ \A v \in Reads(o) : \E i \in DOMAIN Deps(o) : ~ IsWrite(o, i) /\ Deps(o)[i] = v
           /\ \A i : IsWrite(o, i) \in BOOLEAN
<1>1. opr[o].reads \in Seq(Var) /\ opr[o].writes \in Seq(Var)
  BY DEF TypeOK
<1> DEFINE r == opr[o].reads
           w == opr[o].writes
<1>2. Deps(o) = r \o w /\ Reads(o) = ToSet(r) /\ Writes(o) = ToSet(w)
      /\ \A i : IsWrite(o, i) <=> i > Len(r)
  BY DEF Deps, Reads, Writes, IsWrite
<1> HIDE DEF r, w
<1>3. r \in Seq(Var) /\ w \in Seq(Var)
  BY <1>1 DEF r, w
<1> DEFINE d == r \o w
<1>4. /\ d \in Seq(Var) /\ Len(r) \in Nat /\ Len(d) \in Nat /\ DOMAIN d = 1..Len(d)
      /\ \A i \in DOMAIN d : d[i] \in Var
      /\ \A i \in DOMAIN d : i <= Len(r) => d[i] \in ToSet(r)
      /\ \A i \in DOMAIN d : i > Len(r) => d[i] \in ToSet(w)
      /\ \A v \in ToSet(r) : \E i \in DOMAIN d : i <= Len(r) /\ d[i] = v
      /\ \A v \in ToSet(w) : \E i \in DOMAIN d : i > Len(r) /\ d[i] = v
  BY <1>3, SplitFacts
<1> HIDE DEF d
<1>5. \A i \in DOMAIN d : i <= Len(r) <=> ~ (i > Len(r))
  BY <1>4
<1>6. Deps(o) = d
  BY <1>2 DEF d
<1>7. \A i : IsWrite(o, i) \in BOOLEAN
  BY DEF IsWrite
<1> QED
  BY <1>2, <1>4, <1>5, <1>6, <1>7


\* The sets that are counted are finite.
LEMMA CountedFinite ==
    /\ \A o : IsFiniteSet(Missing(o)) /\ Cardinality(Missing(o)) \in Nat
    /\ \A v : IsFiniteSet(Readers(v)) /\ Cardinality(Readers(v)) \in Nat
<1>1. IsFiniteSet(Op)
  BY OpFinite
<1>2. \A o : Missing(o) \in SUBSET Var
  BY DEF Missing
<1>3. \A v : Readers(v) \in SUBSET Op
  BY DEF Readers
<1> QED
  BY <1>1, <1>2, <1>3, EngineAssumption, FS_Subset, FS_CardinalityType

\* An operation does not both read and write a variable.
LEMMA Exclusive ==
    ASSUME OprInv, NEW o \in Op, NEW v, Reading(o, v), Writing(o, v)
    PROVE  FALSE
<1>1. PICK i \in DOMAIN Deps(o) : Deps(o)[i] = v /\ ~ IsWrite(o, i)
  BY DEF Reading
<1>2. PICK j \in DOMAIN Deps(o) : Deps(o)[j] = v /\ IsWrite(o, j)
  BY DEF Writing
<1>3. i = j
  BY <1>1, <1>2 DEF OprInv, IsInjective
<1> QED
  BY <1>1, <1>2, <1>3

\* Who is in a queue uses the variable.
LEMMA QueuedUses ==
    ASSUME QueueInv, NEW o \in Op, NEW v \in Var, Queued(o, v)
    PROVE  Reading(o, v) \/ Writing(o, v)
<1>1. PICK j \in DOMAIN queue[v] : queue[v][j].op = o
  BY DEF Queued
<1> QED
  BY <1>1 DEF QueueInv, QueueOf

\* What is in a queue.
LEMMA BlockFacts ==
    ASSUME TypeOK, NEW v \in Var
    PROVE  /\ queue[v] \in Seq(Block) /\ Len(queue[v]) \in Nat /\ DOMAIN queue[v] = 1..Len(queue[v])
           /\ queue[v] # <<>> => Len(queue[v]) > 0 /\ 1 \in DOMAIN queue[v]
           /\ queue[v] = <<>> => DOMAIN queue[v] = {}
           /\ \A j \in DOMAIN queue[v] : /\ queue[v][j] \in Block
                                         /\ queue[v][j].op \in Op /\ queue[v][j].write \in BOOLEAN
<1>1. queue[v] \in Seq(Block)
  BY DEF TypeOK
<1>2. Len(queue[v]) \in Nat /\ DOMAIN queue[v] = 1..Len(queue[v])
      /\ queue[v] # <<>> => Len(queue[v]) > 0
  BY <1>1, LenProperties, EmptySeq
<1>3. \A j \in DOMAIN queue[v] : queue[v][j] \in Block
  BY <1>1, <1>2, ElementOfSeq
<1>4. \A b \in Block : b.op \in Op /\ b.write \in BOOLEAN
  BY DEF Block
<1>5. queue[v] = <<>> => DOMAIN queue[v] = {}
  OBVIOUS
<1> QED
  BY <1>1, <1>2, <1>3, <1>4, <1>5

\* What v says about its queue is kept by steps elsewhere.
LEMMA VarFrame ==
    ASSUME TypeOK, NEW v \in Var, QueueOf(v), queue'[v] = queue[v],
           num_pending_reads'[v] = num_pending_reads[v],
           life'[v] = "freed" <=> life[v] = "freed",
           \A o \in Op : Reading(o, v)' <=> Reading(o, v),
           \A o \in Op : Writing(o, v)' <=> Writing(o, v)
    PROVE  QueueOf(v)'
<1>1. \A o : Queued(o, v)' <=> Queued(o, v)
  BY DEF Queued
<1>2. Readers(v)' = Readers(v)
  BY <1>1 DEF Readers
<1>3. \A j \in DOMAIN queue[v] : queue[v][j].op \in Op
  BY BlockFacts
<1>4. \A j \in DOMAIN queue[v], o \in Op : queue[v][j].op = o =>
         /\ queue[v][j].write => Writing(o, v)'
         /\ ~ queue[v][j].write => Reading(o, v)'
  BY <1>3 DEF QueueOf
<1>5. \A o \in Op : Writing(o, v)' => Queued(o, v)'
  BY <1>1 DEF QueueOf
<1> QED
  BY <1>2, <1>4, <1>5 DEF QueueOf

\* So are a place in a queue and what a completion owes.
LEMMA PlaceFrame ==
    ASSUME NEW v, queue'[v] = queue[v], num_pending_reads'[v] = num_pending_reads[v]
    PROVE  \A o : /\ Queued(o, v)' <=> Queued(o, v)
                  /\ First(o, v)' <=> First(o, v)
                  /\ Blocked(o, v)' <=> Blocked(o, v)
BY DEF Queued, First, Blocked

LEMMA OwesFrame ==
    ASSUME TypeOK, trigger' = trigger,
           \A c \in Op : trigger[c] # <<>> => at'[c] = at[c] /\ Deps(c)' = Deps(c)
    PROVE  /\ \A c \in Op : \A o, v : Owes(c, o, v)' <=> Owes(c, o, v)
           /\ \A o, v : Owed(o, v)' <=> Owed(o, v)
<1>1. \A c \in Op : \A o : o \in ToSet(trigger[c]) => trigger[c] # <<>>
  BY DEF ToSet
<1>2. \A c \in Op : \A o, v : Owes(c, o, v)' <=> Owes(c, o, v)
  BY <1>1 DEF Owes, Served
<1> QED
  BY <1>2 DEF Owed

LEMMA MissingFrame ==
    ASSUME NEW o \in Op,
           \A v \in Var : Unasked(o, v)' <=> Unasked(o, v),
           \A v \in Var : Blocked(o, v)' <=> Blocked(o, v),
           \A v \in Var : Owed(o, v)' <=> Owed(o, v)
    PROVE  Missing(o)' = Missing(o)
BY DEF Missing

\* Where a completion stands.
LEMMA ServedFacts ==
    ASSUME TypeOK, OprInv, TriggerInv, NEW c \in Op, trigger[c] # <<>>
    PROVE  /\ Served(c) \in Var /\ at[c] - 1 \in DOMAIN Deps(c)
           /\ ToSet(trigger[c]) \subseteq Op
<1>1. /\ at[c] > 1 /\ at[c] <= Len(Deps(c)) + 1 /\ at[c] \in Nat
  BY DEF TypeOK, OprInv, TriggerInv
<1>2. Len(Deps(c)) \in Nat /\ DOMAIN Deps(c) = 1..Len(Deps(c))
      /\ \A i \in DOMAIN Deps(c) : Deps(c)[i] \in Var
  BY DepsFacts
<1>3. at[c] - 1 \in 1..Len(Deps(c))
  BY <1>1, <1>2
<1>4. ToSet(trigger[c]) \subseteq Op
  BY DEF TypeOK, ToSet
<1> QED
  BY <1>2, <1>3, <1>4 DEF Served

\* Steps that append, grant and complete nothing.
LEMMA Frame ==
    ASSUME TypeOK, OprInv, QueueInv, TriggerInv, UNCHANGED <<trigger, queue, num_pending_reads>>,
           \A o \in Op, v \in Var : Reading(o, v)' <=> Reading(o, v),
           \A o \in Op, v \in Var : Writing(o, v)' <=> Writing(o, v),
           \A v \in Var : life'[v] = "freed" <=> life[v] = "freed",
           \A c \in Op : trigger[c] # <<>> =>
               stage'[c] = "completing" /\ at'[c] = at[c] /\ Deps(c)' = Deps(c)
    PROVE  /\ QueueInv' /\ TriggerInv'
           /\ \A o, v : Blocked(o, v)' <=> Blocked(o, v)
           /\ \A o, v : Owed(o, v)' <=> Owed(o, v)
           /\ \A o \in Op : (\A v \in Var : Unasked(o, v)' <=> Unasked(o, v)) => Missing(o)' = Missing(o)
<1>1. QueueInv'
  BY VarFrame DEF QueueInv
<1>2. \A o, v : Blocked(o, v)' <=> Blocked(o, v)
  BY PlaceFrame
<1>4. /\ \A c \in Op : \A o, v : Owes(c, o, v)' <=> Owes(c, o, v)
      /\ \A o, v : Owed(o, v)' <=> Owed(o, v)
  BY OwesFrame
<1>5. TriggerInv'
  BY <1>2, <1>4 DEF TriggerInv
<1>6. \A o \in Op : (\A v \in Var : Unasked(o, v)' <=> Unasked(o, v)) => Missing(o)' = Missing(o)
  BY <1>2, <1>4, MissingFrame
<1> QED
  BY <1>1, <1>2, <1>4, <1>5, <1>6


\* What does not depend on where the operations are.
LEMMA OprFrame ==
    ASSUME opr' = opr
    PROVE  /\ \A p : Deps(p)' = Deps(p)
           /\ \A p, i : IsWrite(p, i)' <=> IsWrite(p, i)
           /\ \A p, v : Deletes(p, v)' <=> Deletes(p, v)
BY DEF Deps, IsWrite, Deletes, Writes

\* Steps of one operation that leave its dependencies where they are.
LEMMA StageFrame ==
    ASSUME EngineInv, opr' = opr, UNCHANGED <<trigger, queue, num_pending_reads>>, NEW o \in Op,
           \A p \in Op : p # o => stage'[p] = stage[p] /\ at'[p] = at[p],
           \A i \in DOMAIN Deps(o) : Active(o, i)' <=> Active(o, i),
           \A v \in Var : Unasked(o, v)' <=> Unasked(o, v),
           \A v \in Var : life'[v] = "freed" <=> life[v] = "freed",
           trigger[o] # <<>> => stage'[o] = "completing" /\ at'[o] = at[o]
    PROVE  /\ QueueInv' /\ TriggerInv'
           /\ \A p \in Op : Missing(p)' = Missing(p)
           /\ \A p \in Op, v \in Var : Reading(p, v)' <=> Reading(p, v)
           /\ \A p \in Op, v \in Var : Writing(p, v)' <=> Writing(p, v)
<1> USE DEF EngineInv
<1>1. /\ \A p : Deps(p)' = Deps(p)
      /\ \A p, i : IsWrite(p, i)' <=> IsWrite(p, i)
  BY OprFrame
<1>2. \A p \in Op : \A i \in DOMAIN Deps(p) : Active(p, i)' <=> Active(p, i)
  BY <1>1 DEF Active
<1>3. /\ \A p \in Op, v \in Var : Reading(p, v)' <=> Reading(p, v)
      /\ \A p \in Op, v \in Var : Writing(p, v)' <=> Writing(p, v)
  BY <1>1, <1>2 DEF Reading, Writing
<1>4. \A p \in Op, v \in Var : Unasked(p, v)' <=> Unasked(p, v)
  BY <1>1 DEF Unasked
<1>5. \A c \in Op : trigger[c] # <<>> =>
          stage'[c] = "completing" /\ at'[c] = at[c] /\ Deps(c)' = Deps(c)
  BY <1>1 DEF TriggerInv
<1>6. QueueInv' /\ TriggerInv'
      /\ \A p \in Op : (\A v \in Var : Unasked(p, v)' <=> Unasked(p, v)) => Missing(p)' = Missing(p)
  BY <1>3, <1>5, Frame
<1> QED
  BY <1>3, <1>4, <1>6

\* Operations that delete v are one.
LEMMA OneDeletes ==
    ASSUME EngineInv, NEW v \in Var, NEW d \in Op, NEW e \in Op, Deletes(d, v), Deletes(e, v)
    PROVE  d = e
<1>1. \A o \in Op : v \in Writes(o) => v \in ToSet(Deps(o))
  BY DepsFacts DEF EngineInv, ToSet
<1>2. v \in ToSet(Deps(d)) /\ v \in ToSet(Deps(e))
  BY <1>1 DEF Deletes
<1>3. d # e => d < e /\ e < d
  BY <1>2 DEF EngineInv, DeleteInv
<1> QED
  BY <1>3, OpFacts

\* A deletion has one dependency, a write.
LEMMA DeleteFacts ==
    ASSUME TypeOK, OprInv, NEW d \in Op, opr[d].kind = "delete"
    PROVE  /\ Len(Deps(d)) = 1 /\ DOMAIN Deps(d) = {1} /\ IsWrite(d, 1)
           /\ \A v : Deletes(d, v) <=> v = Deps(d)[1]
<1>1. opr[d].reads = <<>> /\ Len(opr[d].writes) = 1
      /\ opr[d].reads \in Seq(Var) /\ opr[d].writes \in Seq(Var)
  BY DEF OprInv, TypeOK
<1>2. Len(Deps(d)) = 1
  BY <1>1, ConcatProperties, EmptySeq DEF Deps
<1>3. DOMAIN Deps(d) = {1}
  BY <1>2, DepsFacts
<1>4. IsWrite(d, 1)
  BY <1>1, EmptySeq DEF IsWrite
<1>5. \A v : v \in Writes(d) <=> v = Deps(d)[1]
  BY <1>3, <1>4, DepsFacts
<1> QED
  BY <1>2, <1>3, <1>4, <1>5 DEF Deletes

\* Steps of threads that wait, and of the shutdown.
LEMMA StillStep ==
    ASSUME EngineInv, TypeOK', UNCHANGED <<opr, stage, at, wait, trigger, varState, pending, pushed,
                                           executed, broken>>
    PROVE  EngineInv'
<1> USE DEF EngineInv
<1>1. UNCHANGED <<opr, stage, at, wait, trigger, queue, num_pending_reads, life, pending, pushed,
                  executed, broken>>
  BY DEF varState
<1>2. /\ \A o : Deps(o)' = Deps(o)
      /\ \A o, i : IsWrite(o, i)' <=> IsWrite(o, i)
      /\ \A o, v : Deletes(o, v)' <=> Deletes(o, v)
      /\ \A o, v : Called(o, v)' <=> Called(o, v)
  BY <1>1, OprFrame DEF Called
<1>3. \A o, i : Active(o, i)' <=> Active(o, i)
  BY <1>1, <1>2 DEF Active
<1>4. /\ \A o \in Op, v \in Var : Reading(o, v)' <=> Reading(o, v)
      /\ \A o \in Op, v \in Var : Writing(o, v)' <=> Writing(o, v)
      /\ \A o \in Op, v \in Var : Unasked(o, v)' <=> Unasked(o, v)
  BY <1>1, <1>2, <1>3 DEF Reading, Writing, Unasked
<1>5. \A c \in Op : trigger[c] # <<>> =>
          stage'[c] = "completing" /\ at'[c] = at[c] /\ Deps(c)' = Deps(c)
  BY <1>1, <1>2 DEF TriggerInv
<1>6. QueueInv' /\ TriggerInv' /\ \A o \in Op : Missing(o)' = Missing(o)
  BY <1>1, <1>4, <1>5, Frame
<1>7. OprInv' /\ PendingInv' /\ WaitInv'
  BY <1>1, <1>2, <1>6 DEF OprInv, PendingInv, WaitInv
<1>8. DeleteInv'
  BY <1>1, <1>2, <1>4 DEF DeleteInv
<1> QED
  BY <1>6, <1>7, <1>8

\* A worker takes an operation.
LEMMA ExecuteStep ==
    ASSUME EngineInv, NEW o \in Op, ExecuteOprBlock(o)
    PROVE  EngineInv'
<1> USE DEF EngineInv
<1>1. /\ stage[o] = "ready" /\ stage' = [stage EXCEPT ![o] = "running"]
      /\ UNCHANGED <<opr, at, wait, trigger, queue, num_pending_reads, life, pending, cur, asleep,
                     pushed, executed, broken, shutdown_phase>>
  BY DEF ExecuteOprBlock, varState, waiters, running
<1>2. /\ stage'[o] = "running" /\ \A p \in Op : p # o => stage'[p] = stage[p]
      /\ stage' \in [Op -> Stage]
  BY <1>1 DEF TypeOK, Stage
<1>3. /\ \A p : Deps(p)' = Deps(p)
      /\ \A p, v : Deletes(p, v)' <=> Deletes(p, v)
  BY <1>1, OprFrame
<1>4. TypeOK'
  BY <1>1, <1>2 DEF TypeOK
<1>5. /\ QueueInv' /\ TriggerInv' /\ \A p \in Op : Missing(p)' = Missing(p)
      /\ \A p \in Op, v \in Var : Reading(p, v)' <=> Reading(p, v)
      /\ \A p \in Op, v \in Var : Writing(p, v)' <=> Writing(p, v)
  <2>1. \A i \in DOMAIN Deps(o) : Active(o, i)' <=> Active(o, i)
    BY <1>1, <1>2, <1>3 DEF Active, InHand
  <2>2. \A v \in Var : Unasked(o, v)' <=> Unasked(o, v)
    BY <1>1, <1>2 DEF Unasked
  <2>3. trigger[o] = <<>>
    BY <1>1 DEF TriggerInv
  <2> QED
    BY <1>1, <1>2, <2>1, <2>2, <2>3, StageFrame
<1>6. OprInv' /\ WaitInv'
  <2>1. \A p \in Op : /\ stage'[p] = "none" <=> stage[p] = "none"
                      /\ stage'[p] = "done" <=> stage[p] = "done"
                      /\ stage'[p] = "pushing" <=> stage[p] = "pushing"
                      /\ stage'[p] = "waiting" <=> stage[p] = "waiting"
                      /\ stage'[p] \in {"pushing", "completing", "done"}
                           <=> stage[p] \in {"pushing", "completing", "done"}
    BY <1>1, <1>2
  <2> QED
    BY <1>1, <1>3, <1>5, <2>1 DEF OprInv, WaitInv
<1>7. DeleteInv'
  <2>1. \A p \in Op : /\ stage'[p] = "pushing" <=> stage[p] = "pushing"
                      /\ stage'[p] = "completing" <=> stage[p] = "completing"
                      /\ stage'[p] = "done" <=> stage[p] = "done"
    BY <1>1, <1>2
  <2> QED
    BY <1>1, <1>3, <1>5, <2>1 DEF DeleteInv, Called
<1>8. PendingInv'
  <2>1. \A p \in Op : stage'[p] \in InHand <=> stage[p] \in InHand
    BY <1>1, <1>2 DEF InHand
  <2> QED
    BY <1>1, <2>1 DEF PendingInv
<1> QED
  BY <1>4, <1>5, <1>6, <1>7, <1>8


\* The function of an operation ends.
LEMMA OnCompleteStep ==
    ASSUME EngineInv, NEW o \in Op, OnComplete(o)
    PROVE  EngineInv'
<1> USE DEF EngineInv
<1>0. PICK inherited \in BOOLEAN, throws \in BOOLEAN :
        Completed(o, inherited, throws) /\ (inherited => MayInherit(o))
  BY DEF OnComplete
<1> DEFINE calls == CallsFn(o, inherited)
<1>1. /\ stage[o] = "running" /\ stage' = [stage EXCEPT ![o] = "completing"]
      /\ UNCHANGED <<opr, at, wait, trigger, queue, num_pending_reads, pending, cur, pushed,
                     shutdown_phase>>
      /\ life' = [v \in Var |-> IF calls /\ opr[o].kind = "delete" /\ v \in Writes(o)
                                THEN "to_delete" ELSE life[v]]
      /\ executed' = IF calls THEN executed \cup {o} ELSE executed
      /\ asleep' \in [Thread -> BOOLEAN]
      /\ broken' = IF inherited \/ throws THEN broken \cup Writes(o) ELSE broken
  BY <1>0 DEF OnComplete, Completed, TypeOK
<1>a. ASSUME NEW v \in Var, Deletes(o, v), ~ calls PROVE v \in broken'
  BY <1>1, <1>a DEF CallsFn, Runs, Deletes
<1> HIDE DEF calls
<1>b. o \notin executed /\ Writes(o) \subseteq Var
  BY <1>1, DepsFacts DEF OprInv
<1>2. /\ stage'[o] = "completing" /\ \A p \in Op : p # o => stage'[p] = stage[p]
      /\ stage' \in [Op -> Stage]
  BY <1>1 DEF TypeOK, Stage
<1>3. /\ \A p : Deps(p)' = Deps(p)
      /\ \A p, v : Deletes(p, v)' <=> Deletes(p, v)
  BY <1>1, OprFrame
<1>4. \A v \in Var : life'[v] = IF calls /\ Deletes(o, v) THEN "to_delete" ELSE life[v]
  BY <1>1 DEF Deletes
<1>5. at[o] = 1
  BY <1>1 DEF OprInv
<1>6. TypeOK'
  BY <1>1, <1>2, <1>4, <1>b DEF TypeOK
<1>7. ASSUME NEW v \in Var, Deletes(o, v) PROVE life[v] = "live"
  <2>1. \A d \in Op : Deletes(d, v) => d = o
    BY <1>7, OneDeletes
  <2>2. life[v] # "freed" /\ life[v] # "to_delete"
    BY <1>1, <2>1 DEF DeleteInv, Called
  <2> QED
    BY <2>2 DEF TypeOK
<1>8. \A v \in Var : life'[v] = "freed" <=> life[v] = "freed"
  BY <1>4, <1>7
<1>9. /\ QueueInv' /\ TriggerInv' /\ \A p \in Op : Missing(p)' = Missing(p)
      /\ \A p \in Op, v \in Var : Reading(p, v)' <=> Reading(p, v)
      /\ \A p \in Op, v \in Var : Writing(p, v)' <=> Writing(p, v)
  <2>1. \A i \in DOMAIN Deps(o) : Active(o, i)' <=> Active(o, i)
    BY <1>1, <1>2, <1>3, <1>5, DepsFacts DEF Active, InHand
  <2>2. \A v \in Var : Unasked(o, v)' <=> Unasked(o, v)
    BY <1>1, <1>2 DEF Unasked
  <2>3. trigger[o] = <<>>
    BY <1>1 DEF TriggerInv
  <2> QED
    BY <1>1, <1>2, <1>8, <2>1, <2>2, <2>3, StageFrame
<1>10. OprInv' /\ WaitInv'
  <2>1. \A p \in Op : /\ stage'[p] = "none" <=> stage[p] = "none"
                      /\ stage'[p] = "done" <=> stage[p] = "done"
                      /\ stage'[p] = "pushing" <=> stage[p] = "pushing"
                      /\ stage'[p] = "waiting" <=> stage[p] = "waiting"
                      /\ stage'[p] \notin {"pushing", "completing", "done"}
                           => stage[p] \notin {"pushing", "completing", "done"}
    BY <1>1, <1>2
  <2>2. \A p \in Op : p \in executed' => stage'[p] \in {"completing", "done"}
    BY <1>1, <1>2 DEF OprInv
  <2> QED
    BY <1>1, <1>3, <1>9, <2>1, <2>2 DEF OprInv, WaitInv
<1>11. DeleteInv'
  <2>1. \A p \in Op : /\ stage'[p] = "pushing" <=> stage[p] = "pushing"
                      /\ stage'[p] = "completing" <=> (stage[p] = "completing" \/ p = o)
                      /\ stage'[p] = "done" <=> stage[p] = "done"
    BY <1>1, <1>2
  <2>2. ASSUME NEW v \in Var
        PROVE  life'[v] = "to_delete" <=>
                 \E d \in Op : Called(d, v)' /\ stage'[d] = "completing" /\ at[d] = 1
    <3>1. CASE Deletes(o, v) /\ calls
      <4>1. Called(o, v)'
        BY <3>1, <1>1, <1>3 DEF Called
      <4> QED
        BY <4>1, <3>1, <1>2, <1>4, <1>5
    <3>2. CASE ~ (Deletes(o, v) /\ calls)
      <4>1. \A d \in Op : Called(d, v)' <=> Called(d, v)
        BY <3>2, <1>1, <1>3 DEF Called
      <4>2. \A d \in Op : Called(d, v) => stage'[d] = stage[d]
        BY <1>2, <1>b DEF Called
      <4> QED
        BY <3>2, <4>1, <4>2, <1>4 DEF DeleteInv
    <3> QED
      BY <3>1, <3>2
  <2>3. ASSUME NEW v \in Var
        PROVE  life'[v] = "freed" <=>
                 \E d \in Op : Called(d, v)' /\ stage'[d] \in {"completing", "done"} /\ at[d] > 1
    <3>0. \A d \in Op : d # o => (Called(d, v)' <=> Called(d, v))
      BY <1>1, <1>3 DEF Called
    <3>1. \A d \in Op : (stage'[d] \in {"completing", "done"} /\ at[d] > 1)
              <=> (stage[d] \in {"completing", "done"} /\ at[d] > 1)
      BY <1>1, <1>2, <1>5
    <3> QED
      BY <3>0, <3>1, <1>5, <1>8 DEF DeleteInv
  <2>4. \A v \in Var : life'[v] = "freed" => \A p \in Op : ~ Reading(p, v)' /\ ~ Writing(p, v)'
    BY <1>8, <1>9 DEF DeleteInv
  <2>5. \A d, p \in Op : \A v \in Var :
           Deletes(d, v) /\ v \in ToSet(Deps(p)) /\ p # d => p < d /\ stage'[p] # "pushing"
    BY <2>1 DEF DeleteInv
  <2>6. ASSUME NEW v \in Var, NEW d \in Op, Deletes(d, v)', stage'[d] \in {"completing", "done"}
        PROVE  d \in executed' \/ v \in broken'
    BY <2>1, <2>6, <1>1, <1>3, <1>a DEF DeleteInv
  <2> QED
    BY <1>1, <1>3, <2>2, <2>3, <2>4, <2>5, <2>6 DEF DeleteInv
<1>12. PendingInv'
  <2>1. \A p \in Op : stage'[p] \in InHand <=> stage[p] \in InHand
    BY <1>1, <1>2 DEF InHand
  <2> QED
    BY <1>1, <2>1 DEF PendingInv
<1> QED
  BY <1>6, <1>9, <1>10, <1>11, <1>12

\* OnComplete ends.
LEMMA CompleteEndStep ==
    ASSUME EngineInv, NEW o \in Op, CompleteEnd(o)
    PROVE  EngineInv'
<1> USE DEF EngineInv
<1>1. /\ stage[o] = "completing" /\ stage' = [stage EXCEPT ![o] = "done"]
      /\ trigger[o] = <<>> /\ at[o] > Len(Deps(o)) /\ pending' = pending - 1
      /\ UNCHANGED <<opr, at, wait, trigger, queue, num_pending_reads, life, pushed, executed, broken,
                     shutdown_phase>>
  BY DEF CompleteEnd, varState, running
<1>2. /\ stage'[o] = "done" /\ \A p \in Op : p # o => stage'[p] = stage[p]
      /\ stage' \in [Op -> Stage]
  BY <1>1 DEF TypeOK, Stage
<1>3. /\ \A p : Deps(p)' = Deps(p)
      /\ \A p, v : Deletes(p, v)' <=> Deletes(p, v)
  BY <1>1, OprFrame
<1>4. at[o] = Len(Deps(o)) + 1 /\ Len(Deps(o)) \in Nat /\ DOMAIN Deps(o) = 1..Len(Deps(o))
  <2>1. at[o] <= Len(Deps(o)) + 1 /\ at[o] \in Nat
    BY DEF OprInv, TypeOK
  <2> QED
    BY <1>1, <2>1, DepsFacts
<1>5. PendingInv' /\ pending' \in 0..MaxOps
  <2> DEFINE H == {p \in Op : stage[p] \in InHand}
             I == {p \in Op : stage'[p] \in InHand}
  <2>1. IsFiniteSet(H)
    BY OpFinite, FS_Subset
  <2>2. I = H \ {o} /\ o \in H
    BY <1>1, <1>2 DEF InHand
  <2>3. Cardinality(I) = Cardinality(H) - 1 /\ IsFiniteSet(I)
    BY <2>1, <2>2, FS_RemoveElement
  <2>4. Cardinality(I) \in Nat
    BY <2>3, FS_CardinalityType
  <2>5. pending = Cardinality(H)
    BY DEF PendingInv
  <2>6. pending' = Cardinality(I)
    BY <1>1, <2>3, <2>5
  <2>7. pending' \in 0..MaxOps
    BY <2>4, <2>6, <1>1, OpFacts DEF TypeOK
  <2> QED
    BY <2>6, <2>7 DEF PendingInv
<1>6. TypeOK'
  <2>1. cur' \in [Thread -> Op \cup {0, ALL}] /\ asleep' \in [Thread -> BOOLEAN]
    BY DEF CompleteEnd, TypeOK
  <2> QED
    BY <1>1, <1>2, <1>5, <2>1 DEF TypeOK
<1>7. /\ QueueInv' /\ TriggerInv' /\ \A p \in Op : Missing(p)' = Missing(p)
      /\ \A p \in Op, v \in Var : Reading(p, v)' <=> Reading(p, v)
      /\ \A p \in Op, v \in Var : Writing(p, v)' <=> Writing(p, v)
  <2>1. \A i \in DOMAIN Deps(o) : Active(o, i)' <=> Active(o, i)
    <3>1. \A i \in DOMAIN Deps(o) : ~ (i >= at[o])
      BY <1>4
    <3> QED
      BY <1>1, <1>2, <1>3, <3>1 DEF Active, InHand
  <2>2. \A v \in Var : Unasked(o, v)' <=> Unasked(o, v)
    BY <1>1, <1>2 DEF Unasked
  <2> QED
    BY <1>1, <1>2, <2>1, <2>2, StageFrame
<1>8. OprInv' /\ WaitInv'
  <2>1. \A p \in Op : /\ stage'[p] = "none" <=> stage[p] = "none"
                      /\ stage'[p] = "done" => stage[p] = "done" \/ p = o
                      /\ stage'[p] = "pushing" <=> stage[p] = "pushing"
                      /\ stage'[p] = "waiting" <=> stage[p] = "waiting"
                      /\ stage'[p] \in {"pushing", "completing", "done"}
                           <=> stage[p] \in {"pushing", "completing", "done"}
    BY <1>1, <1>2
  <2>2. \A p \in Op : stage'[p] = "done" => at[p] = Len(Deps(p)) + 1
    BY <2>1, <1>4 DEF OprInv
  <2> QED
    BY <1>1, <1>3, <1>7, <2>1, <2>2 DEF OprInv, WaitInv
<1>9. DeleteInv'
  <2>1. \A p \in Op : /\ stage'[p] = "pushing" <=> stage[p] = "pushing"
                      /\ stage'[p] \in {"completing", "done"} <=> stage[p] \in {"completing", "done"}
                      /\ p # o => (stage'[p] = "completing" <=> stage[p] = "completing")
    BY <1>1, <1>2
  <2>2. \A v \in Var : Deletes(o, v) => at[o] # 1
    BY <1>4, DeleteFacts DEF Deletes
  <2>3. \A v \in Var : \A d \in Op :
          (Deletes(d, v) /\ stage'[d] = "completing" /\ at[d] = 1)
             <=> (Deletes(d, v) /\ stage[d] = "completing" /\ at[d] = 1)
    BY <1>1, <1>2, <2>1, <2>2
  <2> QED
    BY <1>1, <1>3, <1>7, <2>1, <2>3 DEF DeleteInv, Called
<1> QED
  BY <1>5, <1>6, <1>7, <1>8, <1>9

\* The end of a push.
LEMMA PushEndStep ==
    ASSUME EngineInv, NEW t \in Thread, PushEnd(t)
    PROVE  EngineInv'
<1> USE DEF EngineInv
<1>0. PICK o \in Op : o = cur[t]
  BY DEF PushEnd
<1> DEFINE s == IF wait[o] = 1 /\ opr[o].kind = "delete" THEN "running"
                ELSE IF wait[o] = 1 THEN "ready" ELSE "waiting"
<1>1. /\ o \in Op /\ stage[o] = "pushing" /\ stage' = [stage EXCEPT ![o] = s]
      /\ at[o] > Len(Deps(o)) /\ at' = [at EXCEPT ![o] = 1]
      /\ wait' = [wait EXCEPT ![o] = @ - 1]
      /\ cur' = [cur EXCEPT ![t] = IF (wait[o] = 1 /\ opr[o].kind = "delete") \/ opr[o].kind = "wait"
                                   THEN o ELSE 0]
      /\ UNCHANGED <<opr, trigger, queue, num_pending_reads, life, pending, asleep, pushed, executed, broken,
                     shutdown_phase>>
  BY <1>0 DEF PushEnd, Grant, varState, running
<1>2. /\ s \in {"running", "ready", "waiting"} /\ (s # "waiting" => wait[o] = 1)
  OBVIOUS
<1> HIDE DEF s
<1>3. /\ stage'[o] = s /\ \A p \in Op : p # o => stage'[p] = stage[p]
      /\ stage' \in [Op -> Stage]
      /\ at'[o] = 1 /\ \A p \in Op : p # o => at'[p] = at[p]
      /\ at' \in [Op -> Nat \ {0}]
      /\ wait'[o] = wait[o] - 1 /\ \A p \in Op : p # o => wait'[p] = wait[p]
  BY <1>1, <1>2 DEF TypeOK, Stage
<1>4. /\ \A p : Deps(p)' = Deps(p)
      /\ \A p, v : Deletes(p, v)' <=> Deletes(p, v)
  BY <1>1, OprFrame
<1>5. Len(Deps(o)) \in Nat /\ DOMAIN Deps(o) = 1..Len(Deps(o)) /\ at[o] \in Nat
  BY <1>1, DepsFacts DEF TypeOK
<1>6. \A i \in DOMAIN Deps(o) : i < at[o] /\ i >= 1 /\ ~ (i >= at[o])
  BY <1>1, <1>5
<1>7. trigger[o] = <<>>
  BY <1>1 DEF TriggerInv
<1>8. /\ QueueInv' /\ TriggerInv' /\ \A p \in Op : Missing(p)' = Missing(p)
      /\ \A p \in Op, v \in Var : Reading(p, v)' <=> Reading(p, v)
      /\ \A p \in Op, v \in Var : Writing(p, v)' <=> Writing(p, v)
  <2>1. \A i \in DOMAIN Deps(o) : Active(o, i)' <=> Active(o, i)
    BY <1>1, <1>2, <1>3, <1>4, <1>6 DEF Active, InHand
  <2>2. \A v \in Var : Unasked(o, v)' <=> Unasked(o, v)
    BY <1>2, <1>3, <1>6 DEF Unasked
  <2> QED
    BY <1>1, <1>3, <1>7, <2>1, <2>2, StageFrame
<1>9. wait[o] = Cardinality(Missing(o)) + 1 /\ Cardinality(Missing(o)) \in Nat
  BY <1>1, CountedFinite DEF WaitInv
<1>10. TypeOK'
  <2>1. wait' \in [Op -> Nat]
    BY <1>1, <1>9 DEF TypeOK
  <2>2. cur' \in [Thread -> Op \cup {0, ALL}]
    BY <1>1 DEF TypeOK
  <2> QED
    BY <1>1, <1>3, <2>1, <2>2 DEF TypeOK
<1>11. OprInv'
  <2>1. \A p \in Op : /\ stage'[p] = "none" <=> stage[p] = "none"
                      /\ stage'[p] = "done" <=> stage[p] = "done"
                      /\ stage'[p] \in {"pushing", "completing", "done"}
                           => stage[p] \in {"pushing", "completing", "done"}
    BY <1>1, <1>2, <1>3
  <2>2. \A p \in Op : /\ at'[p] <= Len(Deps(p)) + 1
                      /\ stage'[p] \notin {"pushing", "completing", "done"} => at'[p] = 1
                      /\ stage'[p] = "done" => at'[p] = Len(Deps(p)) + 1
    <3> TAKE p \in Op
    <3>1. CASE p = o
      BY <3>1, <1>2, <1>3, <1>5
    <3>2. CASE p # o
      BY <3>2, <1>3 DEF OprInv
    <3> QED
      BY <3>1, <3>2
  <2> QED
    BY <1>1, <1>4, <2>1, <2>2 DEF OprInv
<1>12. WaitInv'
  <2> SUFFICES ASSUME NEW p \in Op
               PROVE  /\ wait'[p] = Cardinality(Missing(p)) + (IF stage'[p] = "pushing" THEN 1 ELSE 0)
                      /\ stage'[p] \notin {"pushing", "waiting"} => wait'[p] = 0
    BY <1>8 DEF WaitInv
  <2>1. CASE p = o
    BY <2>1, <1>2, <1>3, <1>9
  <2>2. CASE p # o
    BY <2>2, <1>3 DEF WaitInv
  <2> QED
    BY <2>1, <2>2
<1>13. DeleteInv'
  <2>1. \A p \in Op : /\ stage'[p] = "pushing" => stage[p] = "pushing"
                      /\ stage'[p] = "completing" <=> stage[p] = "completing"
                      /\ stage'[p] \in {"completing", "done"} <=> stage[p] \in {"completing", "done"}
    BY <1>1, <1>2, <1>3
  <2>2. \A p \in Op : stage[p] \in {"completing", "done"} => at'[p] = at[p]
    BY <1>1, <1>3
  <2> QED
    BY <1>1, <1>4, <1>8, <2>1, <2>2 DEF DeleteInv, Called
<1>14. PendingInv'
  <2>1. \A p \in Op : stage'[p] \in InHand <=> stage[p] \in InHand
    BY <1>1, <1>2, <1>3 DEF InHand
  <2> QED
    BY <1>1, <2>1 DEF PendingInv
<1> QED
  BY <1>8, <1>10, <1>11, <1>12, <1>13, <1>14


\* The rest of a list without repetitions.
LEMMA TailSet ==
    ASSUME NEW S, NEW s \in Seq(S), s # <<>>, IsInjective(s)
    PROVE  /\ Head(s) \in S /\ Head(s) \in ToSet(s)
           /\ Tail(s) \in Seq(S) /\ IsInjective(Tail(s))
           /\ ToSet(Tail(s)) = ToSet(s) \ {Head(s)}
<1>1. /\ Head(s) = s[1] /\ Head(s) \in S /\ Tail(s) \in Seq(S) /\ Len(Tail(s)) = Len(s) - 1
      /\ \A i \in 1..Len(Tail(s)) : Tail(s)[i] = s[i + 1]
  BY HeadTailProperties
<1> DEFINE r == Tail(s)
           h == Head(s)
<1>2. /\ h = s[1] /\ h \in S /\ r \in Seq(S) /\ Len(r) = Len(s) - 1
      /\ \A i \in 1..Len(r) : r[i] = s[i + 1]
  BY <1>1
<1> HIDE DEF r, h
<1>3. /\ Len(s) \in Nat \ {0} /\ DOMAIN s = 1..Len(s) /\ DOMAIN r = 1..Len(r) /\ Len(r) \in Nat
  BY <1>2, EmptySeq, LenProperties
<1>4. \A i, j \in 1..Len(s) : s[i] = s[j] => i = j
  BY <1>3 DEF IsInjective
<1>5. IsInjective(r)
  BY <1>2, <1>3, <1>4 DEF IsInjective
<1>6. \A x : x \in ToSet(r) <=> \E i \in 1..Len(r) : r[i] = x
  BY <1>3 DEF ToSet
<1>7. \A x : x \in ToSet(s) <=> \E i \in 1..Len(s) : s[i] = x
  BY <1>3 DEF ToSet
<1>8. \A x : x \in ToSet(r) => x \in ToSet(s) /\ x # h
  <2> TAKE x
  <2> HAVE x \in ToSet(r)
  <2>1. PICK i \in 1..Len(r) : r[i] = x
    BY <1>6
  <2>2. i + 1 \in 1..Len(s) /\ s[i + 1] = x /\ 1 \in 1..Len(s) /\ i + 1 # 1
    BY <2>1, <1>2, <1>3
  <2>3. s[1] # x
    BY <2>2, <1>4
  <2> QED
    BY <2>2, <2>3, <1>2, <1>7
<1>9. \A x : x \in ToSet(s) /\ x # h => x \in ToSet(r)
  <2> TAKE x
  <2> HAVE x \in ToSet(s) /\ x # h
  <2>1. PICK i \in 1..Len(s) : s[i] = x
    BY <1>7
  <2>2. i # 1
    BY <2>1, <1>2
  <2>3. i - 1 \in 1..Len(r) /\ (i - 1) + 1 = i
    BY <2>2, <1>2, <1>3
  <2>4. r[i - 1] = x
    BY <2>1, <2>3, <1>2
  <2> QED
    BY <2>3, <2>4, <1>6
<1>10. h \in ToSet(s)
  BY <1>2, <1>3, <1>7
<1> QED
  BY <1>2, <1>5, <1>8, <1>9, <1>10 DEF r, h

\* A variable is asked for once.
LEMMA AskedOnce ==
    ASSUME TypeOK, OprInv, NEW o \in Op, NEW v, Unasked(o, v), Reading(o, v) \/ Writing(o, v)
    PROVE  FALSE
<1>1. stage[o] = "pushing" /\ at[o] \in Nat
  BY DEF Unasked, TypeOK
<1>2. PICK i \in DOMAIN Deps(o) : i >= at[o] /\ Deps(o)[i] = v
  BY DEF Unasked
<1>3. PICK j \in DOMAIN Deps(o) : Active(o, j) /\ Deps(o)[j] = v
  BY DEF Reading, Writing
<1>4. i = j
  BY <1>2, <1>3 DEF OprInv, IsInjective
<1>5. j < at[o]
  BY <1>1, <1>3 DEF Active
<1> QED
  BY <1>1, <1>2, <1>4, <1>5, DepsFacts

\* A completion decrements a counter.
LEMMA DecrWaitStep ==
    ASSUME EngineInv, NEW o \in Op, DecrWait(o)
    PROVE  EngineInv'
<1> USE DEF EngineInv
<1>1. trigger[o] # <<>> /\ trigger[o] \in Seq(Op) /\ IsInjective(trigger[o])
  BY DEF DecrWait, TypeOK, TriggerInv
<1>2. PICK p \in Op : p = Head(trigger[o])
  BY <1>1, TailSet
<1>3. /\ wait' = [wait EXCEPT ![p] = @ - 1]
      /\ stage' = [stage EXCEPT ![p] = IF wait[p] = 1 THEN "ready" ELSE @]
      /\ trigger' = [trigger EXCEPT ![o] = Tail(@)]
      /\ UNCHANGED <<opr, at, queue, num_pending_reads, life, pending, cur, asleep, pushed, executed, broken,
                     shutdown_phase>>
  BY <1>2 DEF DecrWait, Grant, varState, waiters, running
<1>4. PICK v \in Var : v = Served(o)
  BY <1>1, ServedFacts
<1>5. /\ \A q : Deps(q)' = Deps(q)
      /\ \A q, i : IsWrite(q, i)' <=> IsWrite(q, i)
      /\ \A q, u : Deletes(q, u)' <=> Deletes(q, u)
  BY <1>3, OprFrame
<1>6. /\ p \in ToSet(trigger[o]) /\ Tail(trigger[o]) \in Seq(Op) /\ IsInjective(Tail(trigger[o]))
      /\ ToSet(Tail(trigger[o])) = ToSet(trigger[o]) \ {p}
  BY <1>1, <1>2, TailSet
<1>7. /\ trigger'[o] = Tail(trigger[o]) /\ \A c \in Op : c # o => trigger'[c] = trigger[c]
      /\ trigger' \in [Op -> Seq(Op)]
  BY <1>3, <1>6 DEF TypeOK
<1>8. \A c \in Op : \A q, u : Owes(c, q, u)' <=> Owes(c, q, u) /\ ~ (c = o /\ q = p)
  <2>1. \A c : Served(c)' = Served(c)
    BY <1>3, <1>5 DEF Served
  <2>2. \A c \in Op : \A q : q \in ToSet(trigger'[c]) <=> q \in ToSet(trigger[c]) /\ ~ (c = o /\ q = p)
    BY <1>6, <1>7
  <2> QED
    BY <2>1, <2>2 DEF Owes
<1>9. Owes(o, p, v)
  BY <1>4, <1>6 DEF Owes
<1>10. \A q \in Op, u \in Var : Owed(q, u)' <=> Owed(q, u) /\ ~ (q = p /\ u = v)
  <2>1. \A c \in Op : Owes(c, p, v) => c = o
    BY <1>9 DEF TriggerInv
  <2>2. \A u : Owes(o, p, u) => u = v
    BY <1>4 DEF Owes
  <2> QED
    BY <1>8, <2>1, <2>2 DEF Owed
<1>11. \A q, u : Blocked(q, u)' <=> Blocked(q, u)
  BY <1>3, PlaceFrame
<1>12. (Reading(p, v) \/ Writing(p, v)) /\ ~ Blocked(p, v) /\ ~ Unasked(p, v) /\ Owed(p, v)
  <2>1. (Reading(p, v) \/ Writing(p, v)) /\ ~ Blocked(p, v)
    BY <1>9 DEF TriggerInv
  <2> QED
    BY <2>1, <1>9, AskedOnce DEF Owed
<1>13. /\ IsFiniteSet(Missing(p)) /\ Cardinality(Missing(p)) \in Nat /\ v \in Missing(p)
       /\ Cardinality(Missing(p) \ {v}) = Cardinality(Missing(p)) - 1
       /\ Cardinality(Missing(p)) > 0
  <2>1. IsFiniteSet(Missing(p)) /\ Cardinality(Missing(p)) \in Nat
    BY CountedFinite
  <2>2. v \in Missing(p)
    BY <1>12 DEF Missing
  <2>3. Missing(p) # {}
    BY <2>2
  <2> QED
    BY <2>1, <2>2, <2>3, FS_RemoveElement, FS_EmptySet
<1>14. /\ stage[p] \in {"pushing", "waiting"} /\ (wait[p] = 1 => stage[p] = "waiting")
       /\ wait[p] \in Nat /\ wait[p] > 0
  <2>1. /\ wait[p] = Cardinality(Missing(p)) + (IF stage[p] = "pushing" THEN 1 ELSE 0)
        /\ stage[p] \notin {"pushing", "waiting"} => wait[p] = 0
    BY DEF WaitInv
  <2> QED
    BY <2>1, <1>13
<1>15. /\ stage'[p] = stage[p] \/ (stage[p] = "waiting" /\ stage'[p] = "ready" /\ wait[p] = 1)
       /\ wait[p] = 1 => stage'[p] = "ready"
       /\ \A q \in Op : q # p => stage'[q] = stage[q]
       /\ stage' \in [Op -> Stage]
       /\ wait'[p] = wait[p] - 1 /\ \A q \in Op : q # p => wait'[q] = wait[q]
       /\ wait' \in [Op -> Nat]
  BY <1>3, <1>14 DEF TypeOK, Stage
<1>16. /\ \A q \in Op, u \in Var : Reading(q, u)' <=> Reading(q, u)
       /\ \A q \in Op, u \in Var : Writing(q, u)' <=> Writing(q, u)
       /\ \A q \in Op, u \in Var : Unasked(q, u)' <=> Unasked(q, u)
  <2>1. \A q \in Op : \A i \in DOMAIN Deps(q) : Active(q, i)' <=> Active(q, i)
    BY <1>3, <1>5, <1>15 DEF Active, InHand
  <2>2. \A q \in Op : stage'[q] = "pushing" <=> stage[q] = "pushing"
    BY <1>15
  <2>3. /\ \A q \in Op, u \in Var : Reading(q, u)' <=> Reading(q, u)
        /\ \A q \in Op, u \in Var : Writing(q, u)' <=> Writing(q, u)
    BY <2>1, <1>5 DEF Reading, Writing
  <2>4. \A q \in Op, u \in Var : Unasked(q, u)' <=> Unasked(q, u)
    BY <2>2, <1>3, <1>5 DEF Unasked
  <2> QED
    BY <2>3, <2>4
<1>17. TypeOK'
  BY <1>3, <1>7, <1>15 DEF TypeOK
<1>18. QueueInv'
  BY <1>3, <1>16, VarFrame DEF QueueInv
<1>19. WaitInv'
  <2>1. Missing(p)' = Missing(p) \ {v}
    BY <1>10, <1>11, <1>12, <1>16 DEF Missing
  <2>2. \A q \in Op : q # p => Missing(q)' = Missing(q)
    BY <1>10, <1>11, <1>16 DEF Missing
  <2>3. \A q \in Op : q # p =>
          /\ wait'[q] = Cardinality(Missing(q)') + (IF stage'[q] = "pushing" THEN 1 ELSE 0)
          /\ stage'[q] \notin {"pushing", "waiting"} => wait'[q] = 0
    BY <2>2, <1>15 DEF WaitInv
  <2>4. wait[p] = Cardinality(Missing(p)) + (IF stage[p] = "pushing" THEN 1 ELSE 0)
    BY DEF WaitInv
  <2>5. Cardinality(Missing(p)') = Cardinality(Missing(p)) - 1
    BY <2>1, <1>13
  <2>6. /\ wait'[p] = Cardinality(Missing(p)') + (IF stage'[p] = "pushing" THEN 1 ELSE 0)
        /\ stage'[p] \notin {"pushing", "waiting"} => wait'[p] = 0
    BY <2>4, <2>5, <1>13, <1>14, <1>15
  <2> QED
    BY <2>3, <2>6 DEF WaitInv
<1>20. TriggerInv'
  <2>1. \A c \in Op : trigger'[c] # <<>> =>
           stage'[c] = "completing" /\ at'[c] > 1 /\ IsInjective(trigger'[c])
    <3>1. \A c \in Op : trigger[c] # <<>> => stage'[c] = "completing"
      BY <1>14, <1>15 DEF TriggerInv
    <3> QED
      BY <3>1, <1>1, <1>3, <1>6, <1>7 DEF TriggerInv
  <2> QED
    BY <2>1, <1>8, <1>11, <1>16 DEF TriggerInv
<1>21. OprInv'
  <2>1. \A q \in Op : /\ stage'[q] = "none" <=> stage[q] = "none"
                      /\ stage'[q] = "done" <=> stage[q] = "done"
                      /\ stage'[q] \in {"pushing", "completing", "done"}
                           <=> stage[q] \in {"pushing", "completing", "done"}
    BY <1>15
  <2> QED
    BY <1>3, <1>5, <2>1 DEF OprInv
<1>22. DeleteInv'
  <2>1. \A q \in Op : /\ stage'[q] = "pushing" <=> stage[q] = "pushing"
                      /\ stage'[q] = "completing" <=> stage[q] = "completing"
                      /\ stage'[q] = "done" <=> stage[q] = "done"
    BY <1>15
  <2> QED
    BY <1>3, <1>5, <1>16, <2>1 DEF DeleteInv, Called
<1>23. PendingInv'
  <2>1. \A q \in Op : stage'[q] \in InHand <=> stage[q] \in InHand
    BY <1>15 DEF InHand
  <2> QED
    BY <1>3, <2>1 DEF PendingInv
<1> QED
  BY <1>17, <1>18, <1>19, <1>20, <1>21, <1>22, <1>23


----------------------------------------------------------------------------
(* Appending a dependency.                                                  *)

\* A push or a completion moves on to the next dependency.
LEMMA AdvanceFacts ==
    ASSUME TypeOK, OprInv, opr' = opr, stage' = stage, NEW o \in Op, NEW k, k = at[o],
           k <= Len(Deps(o)), at' = [at EXCEPT ![o] = @ + 1], NEW v \in Var, v = Deps(o)[k],
           stage[o] \in {"pushing", "completing"}
    PROVE  /\ at'[o] = k + 1 /\ \A p \in Op : p # o => at'[p] = at[p]
           /\ at' \in [Op -> Nat \ {0}] /\ k \in DOMAIN Deps(o)
           /\ \A p \in Op, u \in Var : p # o \/ u # v =>
                /\ Reading(p, u)' <=> Reading(p, u)
                /\ Writing(p, u)' <=> Writing(p, u)
                /\ Unasked(p, u)' <=> Unasked(p, u)
           /\ stage[o] = "pushing" =>
                /\ Unasked(o, v) /\ ~ Reading(o, v) /\ ~ Writing(o, v) /\ ~ Unasked(o, v)'
                /\ Writing(o, v)' <=> IsWrite(o, k)
                /\ Reading(o, v)' <=> ~ IsWrite(o, k)
           /\ stage[o] = "completing" =>
                /\ Writing(o, v) <=> IsWrite(o, k)
                /\ Reading(o, v) <=> ~ IsWrite(o, k)
                /\ ~ Reading(o, v)' /\ ~ Writing(o, v)' /\ ~ Unasked(o, v) /\ ~ Unasked(o, v)'
<1>1. /\ at'[o] = k + 1 /\ \A p \in Op : p # o => at'[p] = at[p]
      /\ k \in Nat \ {0} /\ at' \in [Op -> Nat \ {0}]
  BY DEF TypeOK
<1>2. /\ \A p : Deps(p)' = Deps(p)
      /\ \A p, i : IsWrite(p, i)' <=> IsWrite(p, i)
  BY OprFrame
<1>3. /\ DOMAIN Deps(o) = 1..Len(Deps(o)) /\ Len(Deps(o)) \in Nat
  BY DepsFacts
<1>4. k \in DOMAIN Deps(o) /\ \A i \in DOMAIN Deps(o) : i \in Nat
  BY <1>1, <1>3
<1>5. \A i \in DOMAIN Deps(o) : Deps(o)[i] = v <=> i = k
  BY <1>4 DEF OprInv, IsInjective
<1>6. \A p \in Op : p # o => /\ \A i : Active(p, i)' <=> Active(p, i)
                             /\ \A u : Unasked(p, u)' <=> Unasked(p, u)
  BY <1>1, <1>2 DEF Active, Unasked
<1>7. \A i \in DOMAIN Deps(o) : i # k => (Active(o, i)' <=> Active(o, i))
  <2>1. \A i \in DOMAIN Deps(o) : i # k => (i < k + 1 <=> i < k) /\ (i >= k + 1 <=> i >= k)
    BY <1>1, <1>4
  <2> QED
    BY <2>1, <1>1, <1>2 DEF Active
<1>8. ASSUME NEW u \in Var, u # v
      PROVE  /\ Reading(o, u)' <=> Reading(o, u)
             /\ Writing(o, u)' <=> Writing(o, u)
             /\ Unasked(o, u)' <=> Unasked(o, u)
  <2>1. \A i \in DOMAIN Deps(o) : Deps(o)[i] = u => i # k
    BY <1>8, <1>5
  <2>2. /\ Reading(o, u)' <=> Reading(o, u)
        /\ Writing(o, u)' <=> Writing(o, u)
    BY <2>1, <1>2, <1>7 DEF Reading, Writing
  <2>3. \A i \in DOMAIN Deps(o) : i # k => (i >= k + 1 <=> i >= k)
    BY <1>1, <1>4
  <2>4. Unasked(o, u)' <=> Unasked(o, u)
    BY <2>1, <2>3, <1>1, <1>2 DEF Unasked
  <2> QED
    BY <2>2, <2>4
<1>9. \A p \in Op, u \in Var : p # o \/ u # v =>
                /\ Reading(p, u)' <=> Reading(p, u)
                /\ Writing(p, u)' <=> Writing(p, u)
                /\ Unasked(p, u)' <=> Unasked(p, u)
  <2>1. \A p \in Op, u \in Var : p # o =>
                /\ Reading(p, u)' <=> Reading(p, u)
                /\ Writing(p, u)' <=> Writing(p, u)
    BY <1>2, <1>6 DEF Reading, Writing
  <2> QED
    BY <2>1, <1>6, <1>8
<1>10. /\ Reading(o, v) <=> Active(o, k) /\ ~ IsWrite(o, k)
       /\ Writing(o, v) <=> Active(o, k) /\ IsWrite(o, k)
       /\ Reading(o, v)' <=> Active(o, k)' /\ ~ IsWrite(o, k)
       /\ Writing(o, v)' <=> Active(o, k)' /\ IsWrite(o, k)
  BY <1>2, <1>4, <1>5 DEF Reading, Writing
<1>11. /\ Unasked(o, v) <=> stage[o] = "pushing"
       /\ ~ Unasked(o, v)'
  <2>1. k >= k /\ ~ (k >= k + 1)
    BY <1>1
  <2> QED
    BY <2>1, <1>1, <1>2, <1>4, <1>5 DEF Unasked
<1>12. /\ stage[o] = "pushing" => Active(o, k)' /\ ~ Active(o, k)
       /\ stage[o] = "completing" => ~ Active(o, k)' /\ Active(o, k)
  <2>1. k >= k /\ ~ (k >= k + 1) /\ k < k + 1 /\ ~ (k < k)
    BY <1>1
  <2> QED
    BY <2>1, <1>1, <1>2, <1>4 DEF Active, InHand
<1> QED
  BY <1>1, <1>4, <1>9, <1>10, <1>11, <1>12

\* What v becomes when o joins its queue ...
LEMMA EnqueueVar ==
    ASSUME TypeOK, NEW v \in Var, NEW o \in Op, QueueOf(v), ~ Queued(o, v), ~ Reading(o, v),
           life[v] # "freed", life'[v] = life[v],
           \A p \in Op : p # o => /\ Reading(p, v)' <=> Reading(p, v)
                                  /\ Writing(p, v)' <=> Writing(p, v),
           NEW b \in Block, b.op = o, b.write => Writing(o, v)', ~ b.write => Reading(o, v)',
           b.write \/ queue[v] # <<>>, ~ (queue[v] = <<>> /\ num_pending_reads[v] = 0),
           queue'[v] = Append(queue[v], b), num_pending_reads'[v] = num_pending_reads[v]
    PROVE  /\ QueueOf(v)' /\ Blocked(o, v)'
           /\ \A p \in Op : p # o => (Blocked(p, v)' <=> Blocked(p, v))
<1> DEFINE q == queue[v]
           r == Append(q, b)
           n == Len(q)
<1>1. /\ q \in Seq(Block) /\ n \in Nat /\ DOMAIN q = 1..n
      /\ q # <<>> => n > 0
      /\ q = <<>> => n = 0
      /\ \A j \in 1..n : q[j].op \in Op /\ q[j].write \in BOOLEAN
  BY BlockFacts, EmptySeq
<1>2. /\ r \in Seq(Block) /\ r # <<>> /\ Len(r) = n + 1 /\ DOMAIN r = 1..(n + 1)
      /\ \A j \in 1..n : r[j] = q[j]
      /\ r[n + 1] = b
  BY <1>1, AppendProperties, LenProperties
<1>3. queue'[v] = r /\ queue[v] = q
  OBVIOUS
<1> HIDE DEF q, r, n
<1>4. \A j \in 1..n : q[j].op # o
  BY <1>1, <1>3 DEF Queued
<1>5. \A p : Queued(p, v)' <=> Queued(p, v) \/ p = o
  <2>1. \A p : Queued(p, v)' <=> \E j \in 1..(n + 1) : r[j].op = p
    BY <1>2, <1>3 DEF Queued
  <2>2. \A p : Queued(p, v) <=> \E j \in 1..n : q[j].op = p
    BY <1>1, <1>3 DEF Queued
  <2>3. \A j \in 1..(n + 1) : j \in 1..n \/ j = n + 1
    BY <1>1
  <2>4. 1..n \subseteq 1..(n + 1) /\ n + 1 \in 1..(n + 1)
    BY <1>1
  <2> QED
    BY <2>1, <2>2, <2>3, <2>4, <1>2
<1>6. q # <<>> => r[1] = q[1] /\ 1 \in 1..n
  BY <1>1, <1>2
<1>7. q = <<>> => r[1] = b
  BY <1>1, <1>2
<1>8. \A p \in Op : p # o => (First(p, v)' <=> First(p, v))
  BY <1>2, <1>3, <1>6, <1>7 DEF First
<1>9. ~ First(o, v)'
  <2>1. CASE q = <<>>
    BY <2>1, <1>3 DEF First, QueueOf
  <2>2. CASE q # <<>>
    BY <2>2, <1>3, <1>4, <1>6 DEF First
  <2> QED
    BY <2>1, <2>2
<1>10. Readers(v)' = Readers(v)
  BY <1>5 DEF Readers
<1>11. \A j \in 1..n, p \in Op : q[j].op = p =>
         /\ q[j].write => Writing(p, v)'
         /\ ~ q[j].write => Reading(p, v)'
  BY <1>1, <1>3, <1>4 DEF QueueOf
<1>12. \A j \in 1..(n + 1), p \in Op : r[j].op = p =>
         /\ r[j].write => Writing(p, v)'
         /\ ~ r[j].write => Reading(p, v)'
  <2>1. \A j \in 1..(n + 1) : j \in 1..n \/ j = n + 1
    BY <1>1
  <2> QED
    BY <2>1, <1>2, <1>11
<1>13. \A j, l \in 1..(n + 1) : r[j].op = r[l].op => j = l
  <2>1. \A j \in 1..(n + 1) : j \in 1..n \/ j = n + 1
    BY <1>1
  <2>2. \A j, l \in 1..n : q[j].op = q[l].op => j = l
    BY <1>1, <1>3 DEF QueueOf
  <2> QED
    BY <2>1, <2>2, <1>2, <1>4
<1>14. \A p \in Op : Writing(p, v)' => Queued(p, v)'
  BY <1>5 DEF QueueOf
<1>15. r[1].write /\ num_pending_reads[v] # 0
  <2>1. CASE q = <<>>
    BY <2>1, <1>3, <1>7
  <2>2. CASE q # <<>>
    BY <2>2, <1>3, <1>6 DEF QueueOf
  <2> QED
    BY <2>1, <2>2
<1>16. QueueOf(v)'
  BY <1>2, <1>3, <1>10, <1>12, <1>13, <1>14, <1>15 DEF QueueOf
<1> QED
  BY <1>5, <1>8, <1>9, <1>16 DEF Blocked

\* ... when it lets o read ...
LEMMA GrantReadVar ==
    ASSUME TypeOK, NEW v \in Var, NEW o \in Op, QueueOf(v), ~ Reading(o, v),
           life[v] # "freed", life'[v] = life[v],
           \A p \in Op : p # o => /\ Reading(p, v)' <=> Reading(p, v)
                                  /\ Writing(p, v)' <=> Writing(p, v),
           Reading(o, v)', ~ Writing(o, v)', queue[v] = <<>>,
           queue'[v] = queue[v], num_pending_reads'[v] = num_pending_reads[v] + 1
    PROVE  /\ QueueOf(v)' /\ num_pending_reads'[v] \in Nat
           /\ \A p : ~ Blocked(p, v) /\ ~ Blocked(p, v)'
<1>1. DOMAIN queue[v] = {}
  BY BlockFacts
<1>2. \A p : ~ Queued(p, v) /\ ~ Queued(p, v)'
  BY <1>1 DEF Queued
<1>3. num_pending_reads[v] \in Nat /\ Cardinality(Readers(v)) = num_pending_reads[v]
      /\ num_pending_reads[v] # kWriteTriggered /\ num_pending_reads'[v] # kWriteTriggered
      /\ num_pending_reads'[v] \in Nat
  BY DEF QueueOf, TypeOK, kWriteTriggered
<1>4. Readers(v)' = Readers(v) \cup {o} /\ o \notin Readers(v)
  BY <1>2 DEF Readers
<1>5. Cardinality(Readers(v)') = Cardinality(Readers(v)) + 1
  BY <1>4, CountedFinite, FS_AddElement
<1>6. \A p \in Op : ~ Writing(p, v)'
  BY <1>2 DEF QueueOf
<1> QED
  BY <1>1, <1>2, <1>3, <1>5, <1>6 DEF QueueOf, Blocked

\* ... and when it lets o write.
LEMMA GrantWriteVar ==
    ASSUME TypeOK, NEW v \in Var, NEW o \in Op, QueueOf(v),
           life[v] # "freed", life'[v] = life[v],
           \A p \in Op : p # o => /\ Reading(p, v)' <=> Reading(p, v)
                                  /\ Writing(p, v)' <=> Writing(p, v),
           Writing(o, v)', ~ Reading(o, v)', queue[v] = <<>>, num_pending_reads[v] = 0,
           NEW b \in Block, b.op = o, b.write,
           queue'[v] = Append(queue[v], b), num_pending_reads'[v] = kWriteTriggered
    PROVE  /\ QueueOf(v)'
           /\ \A p : ~ Blocked(p, v) /\ ~ Blocked(p, v)'
<1>1. DOMAIN queue[v] = {}
  BY BlockFacts
<1>2. /\ queue'[v] # <<>> /\ DOMAIN queue'[v] = {1} /\ queue'[v][1] = b
  <2>1. <<>> \in Seq(Block) /\ Len(<<>>) = 0
    BY EmptySeq
  <2>2. /\ Append(<<>>, b) \in Seq(Block) /\ Append(<<>>, b) # <<>>
        /\ Len(Append(<<>>, b)) = 0 + 1 /\ Append(<<>>, b)[0 + 1] = b
    BY <2>1, AppendProperties
  <2>3. DOMAIN Append(<<>>, b) = 1..1
    BY <2>2, LenProperties
  <2> QED
    BY <2>2, <2>3
<1>3. \A p : ~ Queued(p, v)
  BY <1>1 DEF Queued
<1>4. \A p : Queued(p, v)' <=> p = o
  BY <1>2 DEF Queued
<1>5. \A p : Queued(p, v)' => First(p, v)'
  BY <1>2, <1>4 DEF First
<1>6. Cardinality(Readers(v)) = 0
  BY DEF QueueOf, kWriteTriggered
<1>7. Readers(v) = {}
  BY <1>6, CountedFinite, FS_EmptySet
<1>8. Readers(v)' = {}
  BY <1>3, <1>4, <1>7 DEF Readers
<1>9. \A p \in Op : Writing(p, v)' => p = o
  BY <1>3 DEF QueueOf
<1> QED
  BY <1>2, <1>3, <1>4, <1>5, <1>8, <1>9 DEF QueueOf, Blocked, kWriteTriggered


\* A push hands a dependency to its variable.
LEMMA AppendStep ==
    ASSUME EngineInv, NEW t \in Thread, AppendDependency(t)
    PROVE  EngineInv'
<1> USE DEF EngineInv
<1>1. PICK o \in Op : o = cur[t]
  BY DEF AppendDependency
<1>2. PICK k \in Nat : k = at[o]
  BY DEF TypeOK
<1>3. stage[o] = "pushing" /\ k <= Len(Deps(o)) /\ k \in DOMAIN Deps(o)
  <2>1. stage[o] = "pushing" /\ k <= Len(Deps(o)) /\ k # 0
    BY <1>1, <1>2 DEF AppendDependency, TypeOK
  <2> QED
    BY <2>1, <1>2, DepsFacts
<1>4. PICK v \in Var : v = Deps(o)[k]
  BY <1>3, DepsFacts
<1>5. /\ IF IsWrite(o, k) THEN AppendWriteDependency(v, o) ELSE AppendReadDependency(v, o)
      /\ at' = [at EXCEPT ![o] = @ + 1]
      /\ UNCHANGED <<opr, stage, trigger, life, pending, cur, asleep, pushed, executed, broken, shutdown_phase>>
  BY <1>1, <1>2, <1>4 DEF AppendDependency, waiters, running
<1>6. /\ \A p : Deps(p)' = Deps(p)
      /\ \A p, u : Deletes(p, u)' <=> Deletes(p, u)
  BY <1>5, OprFrame
<1>7. /\ at'[o] = k + 1 /\ \A p \in Op : p # o => at'[p] = at[p]
      /\ at' \in [Op -> Nat \ {0}]
      /\ \A p \in Op, u \in Var : p # o \/ u # v =>
           /\ Reading(p, u)' <=> Reading(p, u)
           /\ Writing(p, u)' <=> Writing(p, u)
           /\ Unasked(p, u)' <=> Unasked(p, u)
      /\ Unasked(o, v) /\ ~ Reading(o, v) /\ ~ Writing(o, v) /\ ~ Unasked(o, v)'
      /\ Writing(o, v)' <=> IsWrite(o, k)
      /\ Reading(o, v)' <=> ~ IsWrite(o, k)
  BY <1>2, <1>3, <1>4, <1>5, AdvanceFacts
<1>8. ~ Queued(o, v)
  BY <1>7, QueuedUses
<1>9. v \in ToSet(Deps(o))
  BY <1>3, <1>4 DEF ToSet
<1>10. \A d \in Op : Deletes(d, v) => d = o
  BY <1>3, <1>9 DEF DeleteInv
<1>11. life[v] # "freed"
  BY <1>3, <1>10 DEF DeleteInv, Called
<1>12. /\ \A c \in Op : \A q, u : Owes(c, q, u)' <=> Owes(c, q, u)
       /\ \A q, u : Owed(q, u)' <=> Owed(q, u)
  <2>1. \A c \in Op : trigger[c] # <<>> => at'[c] = at[c] /\ Deps(c)' = Deps(c)
    BY <1>3, <1>6, <1>7 DEF TriggerInv
  <2> QED
    BY <2>1, <1>5, OwesFrame
<1>13. ~ Owed(o, v)
  BY <1>7 DEF Owed, TriggerInv
<1>14. QueueOf(v)
  BY DEF QueueInv
<1>15. PICK b \in Block : b = [op |-> o, write |-> IsWrite(o, k)]
  BY DepsFacts DEF Block
<1>16. b.op = o /\ (b.write <=> IsWrite(o, k))
  BY <1>15
<1>17. wait[o] \in Nat /\ wait[o] > 1
  <2>1. v \in Missing(o) /\ IsFiniteSet(Missing(o)) /\ Cardinality(Missing(o)) \in Nat
    BY <1>7, CountedFinite DEF Missing
  <2>2. Cardinality(Missing(o)) > 0
    BY <2>1, FS_EmptySet
  <2> QED
    BY <2>1, <2>2, <1>3 DEF WaitInv
<1>18. /\ queue' \in [Var -> Seq(Block)] /\ num_pending_reads' \in [Var -> Nat \cup {kWriteTriggered}]
       /\ \A u \in Var : u # v => queue'[u] = queue[u] /\ num_pending_reads'[u] = num_pending_reads[u]
       /\ QueueOf(v)'
       /\ \A p \in Op : p # o => (Blocked(p, v)' <=> Blocked(p, v))
       /\ \/ ~ Blocked(o, v)' /\ wait' = [wait EXCEPT ![o] = @ - 1]
          \/ Blocked(o, v)' /\ wait' = wait
       /\ queue'[v] = queue[v] \/ queue'[v] = Append(queue[v], b)
  <2>1. Append(queue[v], b) \in Seq(Block)
    BY BlockFacts, AppendProperties
  <2>2. CASE ~ IsWrite(o, k) /\ queue[v] = <<>>
    <3>1. /\ num_pending_reads' = [num_pending_reads EXCEPT ![v] = @ + 1]
          /\ wait' = [wait EXCEPT ![o] = @ - 1] /\ queue' = queue
      BY <2>2, <1>5 DEF AppendReadDependency, IsReadyToRead, Grant
    <3>2. num_pending_reads'[v] = num_pending_reads[v] + 1
      BY <3>1 DEF TypeOK
    <3>3. /\ QueueOf(v)' /\ num_pending_reads'[v] \in Nat
          /\ \A p : ~ Blocked(p, v) /\ ~ Blocked(p, v)'
      BY <2>2, <3>1, <3>2, <1>5, <1>7, <1>11, <1>14, GrantReadVar
    <3>4. num_pending_reads' \in [Var -> Nat \cup {kWriteTriggered}]
      BY <3>1, <3>3 DEF TypeOK
    <3>5. \A u \in Var : u # v => queue'[u] = queue[u] /\ num_pending_reads'[u] = num_pending_reads[u]
      BY <3>1 DEF TypeOK
    <3>6. queue' \in [Var -> Seq(Block)]
      BY <3>1 DEF TypeOK
    <3> QED
      BY <3>1, <3>3, <3>4, <3>5, <3>6
  <2>3. CASE IsWrite(o, k) /\ queue[v] = <<>> /\ num_pending_reads[v] = 0
    <3>1. /\ num_pending_reads' = [num_pending_reads EXCEPT ![v] = kWriteTriggered]
          /\ wait' = [wait EXCEPT ![o] = @ - 1]
          /\ queue' = [queue EXCEPT ![v] = Append(@, [op |-> o, write |-> TRUE])]
      BY <2>3, <1>5 DEF AppendWriteDependency, IsReadyToWrite, Grant, Enqueue
    <3>2. b = [op |-> o, write |-> TRUE]
      BY <2>3, <1>15
    <3>3. /\ num_pending_reads'[v] = kWriteTriggered /\ queue'[v] = Append(queue[v], b)
      BY <3>1, <3>2 DEF TypeOK
    <3>4. /\ QueueOf(v)' /\ \A p : ~ Blocked(p, v) /\ ~ Blocked(p, v)'
      BY <2>3, <3>3, <1>5, <1>7, <1>11, <1>14, <1>16, GrantWriteVar
    <3>5. num_pending_reads' \in [Var -> Nat \cup {kWriteTriggered}]
      BY <3>1 DEF TypeOK
    <3>6. \A u \in Var : u # v => queue'[u] = queue[u] /\ num_pending_reads'[u] = num_pending_reads[u]
      BY <3>1 DEF TypeOK
    <3>7. queue' \in [Var -> Seq(Block)]
      BY <3>1, <3>2, <2>1 DEF TypeOK
    <3> QED
      BY <3>1, <3>3, <3>4, <3>5, <3>6, <3>7
  <2>4. CASE (queue[v] # <<>> \/ IsWrite(o, k)) /\ ~ (queue[v] = <<>> /\ num_pending_reads[v] = 0)
    <3>1. /\ num_pending_reads' = num_pending_reads /\ wait' = wait
          /\ queue' = [queue EXCEPT ![v] = Append(@, b)]
      <4>1. CASE IsWrite(o, k)
        <5>1. b = [op |-> o, write |-> TRUE]
          BY <4>1, <1>15
        <5> QED
          BY <2>4, <4>1, <5>1, <1>5 DEF AppendWriteDependency, IsReadyToWrite, Enqueue
      <4>2. CASE ~ IsWrite(o, k)
        <5>1. b = [op |-> o, write |-> FALSE]
          BY <4>2, <1>15, DepsFacts
        <5> QED
          BY <2>4, <4>2, <5>1, <1>5 DEF AppendReadDependency, IsReadyToRead, Enqueue
      <4> QED
        BY <4>1, <4>2
    <3>2. /\ num_pending_reads'[v] = num_pending_reads[v] /\ queue'[v] = Append(queue[v], b)
      BY <3>1 DEF TypeOK
    <3>3. /\ QueueOf(v)' /\ Blocked(o, v)'
          /\ \A p \in Op : p # o => (Blocked(p, v)' <=> Blocked(p, v))
      <4>1. /\ b.write => Writing(o, v)'
            /\ ~ b.write => Reading(o, v)'
            /\ b.write \/ queue[v] # <<>>
        BY <2>4, <1>7, <1>16
      <4> QED
        BY <2>4, <3>2, <4>1, <1>5, <1>7, <1>8, <1>11, <1>14, <1>16, EnqueueVar
    <3>4. num_pending_reads' \in [Var -> Nat \cup {kWriteTriggered}] /\ queue' \in [Var -> Seq(Block)]
      BY <3>1, <2>1 DEF TypeOK
    <3>5. \A u \in Var : u # v => queue'[u] = queue[u] /\ num_pending_reads'[u] = num_pending_reads[u]
      BY <3>1 DEF TypeOK
    <3> QED
      BY <3>1, <3>2, <3>3, <3>4, <3>5
  <2> QED
    BY <2>2, <2>3, <2>4
<1>19. \A p \in Op, u \in Var : p # o \/ u # v => (Blocked(p, u)' <=> Blocked(p, u))
  <2>1. \A u \in Var : u # v => \A p : Blocked(p, u)' <=> Blocked(p, u)
    BY <1>18, PlaceFrame
  <2> QED
    BY <2>1, <1>18
<1>20. QueueInv'
  <2>1. \A u \in Var : u # v => QueueOf(u)'
    <3> TAKE u \in Var
    <3> HAVE u # v
    <3>1. /\ QueueOf(u) /\ queue'[u] = queue[u] /\ num_pending_reads'[u] = num_pending_reads[u]
          /\ life'[u] = life[u]
          /\ \A p \in Op : Reading(p, u)' <=> Reading(p, u)
          /\ \A p \in Op : Writing(p, u)' <=> Writing(p, u)
      BY <1>5, <1>7, <1>18 DEF QueueInv
    <3> QED
      BY <3>1, VarFrame
  <2> QED
    BY <2>1, <1>18 DEF QueueInv
<1>21. /\ wait' \in [Op -> Nat] /\ \A p \in Op : p # o => wait'[p] = wait[p]
       /\ ~ Blocked(o, v)' => wait'[o] = wait[o] - 1
       /\ Blocked(o, v)' => wait'[o] = wait[o]
  <2>1. wait \in [Op -> Nat]
    BY DEF TypeOK
  <2>2. CASE ~ Blocked(o, v)' /\ wait' = [wait EXCEPT ![o] = @ - 1]
    BY <2>1, <2>2, <1>17
  <2>3. CASE Blocked(o, v)' /\ wait' = wait
    BY <2>1, <2>3
  <2> QED
    BY <2>2, <2>3, <1>18
<1>22. TypeOK'
  BY <1>5, <1>7, <1>18, <1>21 DEF TypeOK
<1>23. WaitInv'
  <2>1. \A p \in Op : p # o => Missing(p)' = Missing(p)
    BY <1>7, <1>12, <1>19, MissingFrame
  <2>2. \A p \in Op : p # o =>
          /\ wait'[p] = Cardinality(Missing(p)') + (IF stage'[p] = "pushing" THEN 1 ELSE 0)
          /\ stage'[p] \notin {"pushing", "waiting"} => wait'[p] = 0
    BY <2>1, <1>5, <1>21 DEF WaitInv
  <2>3. wait[o] = Cardinality(Missing(o)) + 1
    BY <1>3 DEF WaitInv
  <2>4. IsFiniteSet(Missing(o)) /\ Cardinality(Missing(o)) \in Nat /\ v \in Missing(o)
    BY <1>7, CountedFinite DEF Missing
  <2>5. wait'[o] = Cardinality(Missing(o)') + 1
    <3>1. CASE Blocked(o, v)'
      <4>1. Missing(o)' = Missing(o)
        BY <3>1, <1>7, <1>12, <1>19 DEF Missing
      <4> QED
        BY <3>1, <4>1, <2>3, <1>21
    <3>2. CASE ~ Blocked(o, v)'
      <4>1. Missing(o)' = Missing(o) \ {v}
        BY <3>2, <1>7, <1>12, <1>13, <1>19 DEF Missing
      <4>2. Cardinality(Missing(o)') = Cardinality(Missing(o)) - 1
        BY <4>1, <2>4, FS_RemoveElement
      <4> QED
        BY <3>2, <4>2, <2>3, <2>4, <1>21
    <3> QED
      BY <3>1, <3>2
  <2> QED
    BY <2>2, <2>5, <1>3, <1>5 DEF WaitInv
<1>24. TriggerInv'
  <2>1. \A c \in Op : trigger'[c] # <<>> =>
           stage'[c] = "completing" /\ at'[c] > 1 /\ IsInjective(trigger'[c])
    BY <1>3, <1>5, <1>7 DEF TriggerInv
  <2>2. \A c, p \in Op, u \in Var : Owes(c, p, u) => p # o \/ u # v
    BY <1>13 DEF Owed
  <2>3. \A c, p \in Op, u \in Var : Owes(c, p, u) =>
          /\ Reading(p, u)' \/ Writing(p, u)'
          /\ ~ Blocked(p, u)'
          /\ \A d \in Op : Owes(d, p, u) => d = c
    BY <2>2, <1>7, <1>19 DEF TriggerInv
  <2> QED
    BY <2>1, <2>3, <1>12 DEF TriggerInv
<1>25. OprInv'
  <2>1. \A p \in Op : /\ at'[p] <= Len(Deps(p)) + 1
                      /\ stage[p] \notin {"pushing", "completing", "done"} => at'[p] = 1
                      /\ stage[p] = "done" => at'[p] = Len(Deps(p)) + 1
    <3> TAKE p \in Op
    <3>1. CASE p = o
      BY <3>1, <1>3, <1>7, DepsFacts
    <3>2. CASE p # o
      BY <3>2, <1>7 DEF OprInv
    <3> QED
      BY <3>1, <3>2
  <2> QED
    BY <2>1, <1>5, <1>6 DEF OprInv
<1>26. DeleteInv'
  <2>1. \A p \in Op : stage[p] \in {"completing", "done"} => at'[p] = at[p]
    BY <1>3, <1>7
  <2>2. ASSUME NEW d \in Op, NEW u \in Var, Deletes(d, u), NEW j \in DOMAIN queue'[u], queue'[u][j].op = d
        PROVE  j = Len(queue'[u])
    <3>1. CASE u # v \/ queue'[u] = queue[u]
      BY <2>2, <3>1, <1>18 DEF DeleteInv
    <3>2. CASE u = v /\ queue'[v] = Append(queue[v], b)
      <4>1. d = o
        BY <2>2, <3>2, <1>10
      <4>2. /\ Len(queue[v]) \in Nat /\ DOMAIN queue[v] = 1..Len(queue[v])
            /\ Len(queue'[v]) = Len(queue[v]) + 1
            /\ DOMAIN queue'[v] = 1..(Len(queue[v]) + 1)
            /\ \A i \in 1..Len(queue[v]) : queue'[v][i] = queue[v][i]
        BY <3>2, BlockFacts, AppendProperties, LenProperties
      <4>3. j \notin 1..Len(queue[v])
        BY <2>2, <3>2, <4>1, <4>2, <1>8 DEF Queued
      <4> QED
        BY <2>2, <3>2, <4>2, <4>3
    <3> QED
      BY <3>1, <3>2, <1>18
  <2>3. \A u \in Var : life[u] = "freed" => \A p \in Op : ~ Reading(p, u)' /\ ~ Writing(p, u)'
    BY <1>7, <1>11 DEF DeleteInv
  <2> QED
    BY <2>1, <2>2, <2>3, <1>5, <1>6 DEF DeleteInv, Called
<1>27. PendingInv'
  BY <1>5 DEF PendingInv
<1> QED
  BY <1>20, <1>22, <1>23, <1>24, <1>25, <1>26, <1>27


----------------------------------------------------------------------------
(* Pushing an operation.                                                    *)

\* A list without repetitions has as many elements as places.
LEMMA InjectiveCount ==
    ASSUME NEW S, NEW s \in Seq(S), IsInjective(s)
    PROVE  Cardinality(ToSet(s)) = Len(s)
<1>1. Len(s) \in Nat /\ DOMAIN s = 1..Len(s) /\ s \in [1..Len(s) -> S]
  BY LenProperties
<1> DEFINE T == ToSet(s)
<1>2. \A x : x \in T <=> \E i \in 1..Len(s) : s[i] = x
  BY <1>1 DEF ToSet
<1> HIDE DEF T
<1>3. s \in [1..Len(s) -> T]
  BY <1>1, <1>2
<1>4. s \in Injection(1..Len(s), T)
  BY <1>3 DEF Injection
<1>5. s \in Surjection(1..Len(s), T)
  BY <1>2, <1>3 DEF Surjection
<1>6. ExistsBijection(1..Len(s), T)
  BY <1>4, <1>5 DEF ExistsBijection, Bijection
<1> QED
  BY <1>1, <1>6, FS_CountingElements DEF T

\* The arguments PushAsync chooses.
LEMMA ArgumentSeq ==
    ASSUME NEW S \in SUBSET Var, NEW s \in SetToSeqs(S)
    PROVE  s \in Seq(Var) /\ IsInjective(s) /\ ToSet(s) \subseteq S
<1> DEFINE n == Cardinality(S)
<1>1. n \in Nat
  BY EngineAssumption, FS_Subset, FS_CardinalityType
<1>2. /\ s \in [1..n -> S]
      /\ \A i, j \in 1..n : i # j => s[i] # s[j]
  BY DEF SetToSeqs
<1> HIDE DEF n
<1>3. s \in [1..n -> Var]
  BY <1>2
<1>4. s \in Seq(Var)
  BY <1>1, <1>3, SeqDef
<1>5. DOMAIN s = 1..n
  BY <1>2
<1> QED
  BY <1>2, <1>4, <1>5 DEF IsInjective, ToSet

LEMMA ConcatInjective ==
    ASSUME NEW r \in Seq(Var), NEW w \in Seq(Var), IsInjective(r), IsInjective(w),
           ToSet(r) \cap ToSet(w) = {}
    PROVE  IsInjective(r \o w)
<1> DEFINE d == r \o w
<1>1. /\ d \in Seq(Var) /\ Len(d) = Len(r) + Len(w)
      /\ \A i \in 1..(Len(r) + Len(w)) : d[i] = IF i <= Len(r) THEN r[i] ELSE w[i - Len(r)]
  BY ConcatProperties
<1> HIDE DEF d
<1>2. /\ Len(r) \in Nat /\ Len(w) \in Nat
      /\ DOMAIN r = 1..Len(r) /\ DOMAIN w = 1..Len(w) /\ DOMAIN d = 1..(Len(r) + Len(w))
  BY <1>1, LenProperties
<1>3. ASSUME NEW i \in DOMAIN d, NEW j \in DOMAIN d, d[i] = d[j] PROVE i = j
  <2>1. CASE i <= Len(r) /\ j <= Len(r)
    <3>1. i \in DOMAIN r /\ j \in DOMAIN r /\ r[i] = r[j]
      BY <2>1, <1>1, <1>2, <1>3
    <3> QED
      BY <3>1 DEF IsInjective
  <2>2. CASE i > Len(r) /\ j > Len(r)
    <3>1. i - Len(r) \in DOMAIN w /\ j - Len(r) \in DOMAIN w
      BY <2>2, <1>2
    <3>2. w[i - Len(r)] = w[j - Len(r)]
      BY <2>2, <1>1, <1>2, <1>3
    <3>3. i - Len(r) = j - Len(r)
      BY <3>1, <3>2 DEF IsInjective
    <3> QED
      BY <3>3, <1>2
  <2>3. ASSUME NEW x \in DOMAIN d, NEW y \in DOMAIN d, x <= Len(r), y > Len(r) PROVE d[x] # d[y]
    <3>1. x \in DOMAIN r /\ d[x] = r[x]
      BY <2>3, <1>1, <1>2
    <3>2. y - Len(r) \in DOMAIN w /\ d[y] = w[y - Len(r)]
      BY <2>3, <1>1, <1>2
    <3>3. d[x] \in ToSet(r) /\ d[y] \in ToSet(w)
      BY <3>1, <3>2 DEF ToSet
    <3> QED
      BY <3>3
  <2> QED
    BY <2>1, <2>2, <2>3, <1>2, <1>3
<1> QED
  BY <1>3 DEF IsInjective, d

\* A new operation begins its push.
LEMMA PushStepKept ==
    ASSUME EngineInv, NEW t \in Thread, NEW r \in Seq(Var), NEW w \in Seq(Var), NEW kind \in AllKinds,
           Push(t, r, w, kind), IsInjective(r \o w), ToSet(r \o w) \subseteq Usable,
           kind = "delete" => /\ r = <<>> /\ Len(w) = 1
                              /\ \A o \in Op : stage[o] = "pushing" =>
                                   ToSet(w) \cap (Reads(o) \cup Writes(o)) = {}
    PROVE  EngineInv'
<1> USE DEF EngineInv
<1> DEFINE d == r \o w
           new == [reads |-> r, writes |-> w, kind |-> kind]
<1>1. PICK n \in Nat : n = pushed + 1
  BY DEF TypeOK
<1>2. n \in Op /\ pushed \in Nat
  BY <1>1, OpFacts DEF Push, TypeOK, Op
<1>3. /\ pushed' = n /\ opr' = [opr EXCEPT ![n] = new]
      /\ stage' = [stage EXCEPT ![n] = "pushing"]
      /\ wait' = [wait EXCEPT ![n] = Len(r) + Len(w) + 1]
      /\ cur' = [cur EXCEPT ![t] = n] /\ pending' = pending + 1
      /\ UNCHANGED <<at, trigger, queue, num_pending_reads, life, asleep, executed, broken, shutdown_phase>>
  BY <1>1 DEF Push, InitialWait, varState, running
<1>4. new \in [reads : Seq(Var), writes : Seq(Var), kind : AllKinds]
  OBVIOUS
<1>5. /\ opr'[n] = new /\ \A p \in Op : p # n => opr'[p] = opr[p]
      /\ opr' \in [Op -> [reads : Seq(Var), writes : Seq(Var), kind : AllKinds]]
  BY <1>2, <1>3, <1>4 DEF TypeOK
<1>6. /\ stage'[n] = "pushing" /\ \A p \in Op : p # n => stage'[p] = stage[p]
      /\ stage' \in [Op -> Stage]
  BY <1>2, <1>3 DEF TypeOK, Stage
<1>7. /\ d \in Seq(Var) /\ Len(d) = Len(r) + Len(w) /\ Len(d) \in Nat /\ DOMAIN d = 1..Len(d)
      /\ Len(r) \in Nat /\ Len(w) \in Nat
  BY SplitFacts
<1>8. /\ wait'[n] = Len(d) + 1 /\ \A p \in Op : p # n => wait'[p] = wait[p]
      /\ wait' \in [Op -> Nat]
  BY <1>2, <1>3, <1>7 DEF TypeOK
<1>9. stage[n] = "none" /\ at[n] = 1
  BY <1>1, <1>2 DEF OprInv
<1>10. /\ Deps(n)' = d /\ \A p \in Op : p # n => Deps(p)' = Deps(p)
       /\ \A p \in Op : p # n => \A i : IsWrite(p, i)' <=> IsWrite(p, i)
       /\ \A p \in Op : p # n => \A u : Deletes(p, u)' <=> Deletes(p, u)
  <2>1. Deps(n)' = d
    BY <1>5 DEF Deps
  <2>2. \A p \in Op : p # n => Deps(p)' = Deps(p)
    BY <1>5 DEF Deps
  <2>3. \A p \in Op : p # n => \A i : IsWrite(p, i)' <=> IsWrite(p, i)
    BY <1>5 DEF IsWrite
  <2>4. \A p \in Op : p # n => \A u : Deletes(p, u)' <=> Deletes(p, u)
    BY <1>5 DEF Deletes, Writes
  <2> QED
    BY <2>1, <2>2, <2>3, <2>4
<1>11. \A u : Deletes(n, u)' <=> kind = "delete" /\ u \in ToSet(w)
  BY <1>5 DEF Deletes, Writes
<1> HIDE DEF d, new
<1>12. \A u : ~ Reading(n, u) /\ ~ Writing(n, u)
  BY <1>9 DEF Reading, Writing, Active, InHand
<1>13. \A u : ~ Reading(n, u)' /\ ~ Writing(n, u)'
  <2>1. \A i \in DOMAIN d : ~ (i < 1)
    BY <1>7
  <2>2. at'[n] = 1
    BY <1>3, <1>9
  <2> QED
    BY <2>1, <2>2, <1>6, <1>10 DEF Reading, Writing, Active
<1>14. /\ \A p \in Op, u \in Var : Reading(p, u)' <=> Reading(p, u)
       /\ \A p \in Op, u \in Var : Writing(p, u)' <=> Writing(p, u)
  <2>1. \A p \in Op : p # n => \A i : Active(p, i)' <=> Active(p, i)
    BY <1>3, <1>6, <1>10 DEF Active
  <2>2. \A p \in Op : p # n => \A u \in Var : /\ Reading(p, u)' <=> Reading(p, u)
                                              /\ Writing(p, u)' <=> Writing(p, u)
    BY <2>1, <1>10 DEF Reading, Writing
  <2> QED
    BY <2>2, <1>12, <1>13
<1>15. \A p \in Op : p # n => \A u \in Var : Unasked(p, u)' <=> Unasked(p, u)
  BY <1>3, <1>6, <1>10 DEF Unasked
<1>16. \A c \in Op : trigger[c] # <<>> =>
           stage'[c] = "completing" /\ at'[c] = at[c] /\ Deps(c)' = Deps(c)
  BY <1>3, <1>6, <1>9, <1>10 DEF TriggerInv
<1>17. /\ QueueInv' /\ TriggerInv'
       /\ \A o, v : Blocked(o, v)' <=> Blocked(o, v)
       /\ \A o, v : Owed(o, v)' <=> Owed(o, v)
       /\ \A o \in Op : (\A v \in Var : Unasked(o, v)' <=> Unasked(o, v)) => Missing(o)' = Missing(o)
  BY <1>3, <1>14, <1>16, Frame
<1>18. \A u \in Var : ~ Queued(n, u) /\ ~ Owed(n, u)
  BY <1>2, <1>12, QueuedUses DEF Owed, TriggerInv
<1>19. \A u : u \in ToSet(d) <=> \E i \in DOMAIN d : d[i] = u
  BY DEF ToSet
<1>20. ToSet(d) \subseteq Var
  BY DEF Usable, d
<1>21. Missing(n)' = ToSet(d)
  <2>1. \A i \in DOMAIN d : i >= 1
    BY <1>7
  <2>2. at'[n] = 1
    BY <1>3, <1>9
  <2>3. \A u \in Var : Unasked(n, u)' <=> u \in ToSet(d)
    BY <2>1, <2>2, <1>6, <1>10, <1>19 DEF Unasked
  <2>4. \A u \in Var : ~ Blocked(n, u)' /\ ~ Owed(n, u)'
    BY <1>17, <1>18 DEF Blocked
  <2> QED
    BY <2>3, <2>4, <1>20 DEF Missing
<1>22. WaitInv'
  <2>1. Cardinality(ToSet(d)) = Len(d)
    BY <1>7, InjectiveCount DEF d
  <2>2. wait'[n] = Cardinality(Missing(n)') + 1
    BY <2>1, <1>8, <1>21
  <2>3. \A p \in Op : p # n => Missing(p)' = Missing(p)
    BY <1>15, <1>17
  <2>4. \A p \in Op : p # n =>
          /\ wait'[p] = Cardinality(Missing(p)') + (IF stage'[p] = "pushing" THEN 1 ELSE 0)
          /\ stage'[p] \notin {"pushing", "waiting"} => wait'[p] = 0
    BY <2>3, <1>6, <1>8 DEF WaitInv
  <2> QED
    BY <2>2, <2>4, <1>6 DEF WaitInv
<1>23. PendingInv' /\ pending' \in 0..MaxOps
  <2> DEFINE H == {p \in Op : stage[p] \in InHand}
             I == {p \in Op : stage'[p] \in InHand}
  <2>1. IsFiniteSet(H) /\ Cardinality(H) \in Nat
    BY OpFinite, FS_Subset, FS_CardinalityType
  <2>2. I = H \cup {n} /\ n \notin H
    BY <1>2, <1>6, <1>9 DEF InHand
  <2>3. Cardinality(I) = Cardinality(H) + 1
    BY <2>1, <2>2, FS_AddElement
  <2>4. I \in SUBSET Op
    OBVIOUS
  <2>5. Cardinality(I) <= MaxOps
    BY <2>4, OpFinite, FS_Subset
  <2>6. pending = Cardinality(H)
    BY DEF PendingInv
  <2>7. pending' = Cardinality(I)
    BY <1>3, <2>3, <2>6
  <2>8. pending' \in 0..MaxOps
    BY <2>1, <2>3, <2>5, <2>7, OpFacts
  <2> QED
    BY <2>7, <2>8 DEF PendingInv
<1>24. TypeOK'
  <2>1. pushed' \in 0..MaxOps
    BY <1>2, <1>3, OpFacts
  <2>2. cur' \in [Thread -> Op \cup {0, ALL}]
    BY <1>2, <1>3 DEF TypeOK
  <2> QED
    BY <1>3, <1>5, <1>6, <1>8, <1>23, <2>1, <2>2 DEF TypeOK
<1>25. OprInv'
  <2> SUFFICES ASSUME NEW p \in Op
               PROVE  /\ stage'[p] = "none" <=> p > n
                      /\ stage'[p] = "none" => opr'[p] = NoOpr
                      /\ IsInjective(Deps(p)')
                      /\ at'[p] <= Len(Deps(p)') + 1
                      /\ stage'[p] \notin {"pushing", "completing", "done"} => at'[p] = 1
                      /\ stage'[p] = "done" => at'[p] = Len(Deps(p)') + 1
                      /\ p \in executed' => stage'[p] \in {"completing", "done"}
                      /\ opr'[p].kind = "delete" => opr'[p].reads = <<>> /\ Len(opr'[p].writes) = 1
    BY <1>3 DEF OprInv
  <2>1. CASE p = n
    <3>1. at'[p] = 1 /\ p \in Nat /\ 1 <= Len(d) + 1
      BY <2>1, <1>3, <1>7, <1>9
    <3>2. IsInjective(Deps(p)') /\ Deps(p)' = d
      BY <2>1, <1>10 DEF d
    <3>3. opr'[p].kind = "delete" => opr'[p].reads = <<>> /\ Len(opr'[p].writes) = 1
      BY <2>1, <1>5 DEF new
    <3>4. p \notin executed'
      BY <2>1, <1>3, <1>9 DEF OprInv
    <3> QED
      BY <2>1, <3>1, <3>2, <3>3, <3>4, <1>6
  <2>2. CASE p # n
    <3>1. p > n <=> p > pushed
      BY <2>2, <1>1, <1>2, OpFacts
    <3>2. /\ stage'[p] = stage[p] /\ opr'[p] = opr[p] /\ Deps(p)' = Deps(p) /\ at'[p] = at[p]
      BY <2>2, <1>3, <1>5, <1>6, <1>10
    <3> QED
      BY <3>1, <3>2, <1>3 DEF OprInv
  <2> QED
    BY <2>1, <2>2
<1>26. \A p \in Op : \A u : u \in ToSet(Deps(p)) => p < n \/ p = n
  <2> TAKE p \in Op
  <2> TAKE u
  <2> HAVE u \in ToSet(Deps(p))
  <2>1. stage[p] = "none" => Deps(p) = <<>> \o <<>>
    <3>1. NoOpr.reads = <<>> /\ NoOpr.writes = <<>>
      BY DEF NoOpr
    <3> QED
      BY <3>1 DEF OprInv, Deps
  <2>2. <<>> \o <<>> = <<>>
    OBVIOUS
  <2>3. stage[p] # "none"
    BY <2>1, <2>2 DEF ToSet
  <2> QED
    BY <2>3, <1>1, <1>2, OpFacts DEF OprInv
<1>27. \A p \in Op, u \in Var : u \in ToSet(d) => ~ Deletes(p, u)
  <2> TAKE p \in Op, u \in Var
  <2> HAVE u \in ToSet(d)
  <2>1. u \in Usable
    BY DEF d
  <2>2. opr[p].kind = "delete" => p \in 1..pushed
    <3>1. NoOpr.kind # "delete"
      BY DEF NoOpr
    <3>2. opr[p].kind = "delete" => stage[p] # "none"
      BY <3>1 DEF OprInv
    <3> QED
      <4>1. stage[p] # "none" => ~ (p > pushed)
        BY DEF OprInv
      <4>2. p \in Nat /\ p > 0
        BY OpFacts
      <4> QED
        BY <3>2, <4>1, <4>2, <1>2
  <2> QED
    BY <2>1, <2>2 DEF Usable, Deletes
<1>28. DeleteInv'
  <2>1. ASSUME NEW e \in Op, NEW o \in Op, NEW v \in Var, Deletes(e, v)', v \in ToSet(Deps(o)'), o # e
        PROVE  o < e /\ stage'[o] # "pushing"
    <3>1. CASE e = n
      <4>1. kind = "delete" /\ v \in ToSet(w) /\ v \in ToSet(Deps(o)) /\ stage'[o] = stage[o]
        BY <2>1, <3>1, <1>6, <1>10, <1>11
      <4>2. o < n
        BY <2>1, <3>1, <4>1, <1>26
      <4>3. v \in Reads(o) \cup Writes(o)
        BY <4>1, DepsFacts DEF ToSet
      <4> QED
        BY <3>1, <4>1, <4>2, <4>3
    <3>2. CASE o = n
      <4>1. Deletes(e, v) /\ v \in ToSet(d)
        BY <2>1, <3>2, <1>10
      <4> QED
        BY <4>1, <1>27
    <3>3. CASE e # n /\ o # n
      BY <2>1, <3>3, <1>6, <1>10 DEF DeleteInv
    <3> QED
      BY <3>1, <3>2, <3>3
  <2>2. ASSUME NEW e \in Op, NEW v \in Var, Deletes(e, v)', NEW j \in DOMAIN queue[v], queue[v][j].op = e
        PROVE  j = Len(queue[v])
    <3>1. e # n
      BY <2>2, <1>18 DEF Queued
    <3> QED
      BY <2>2, <3>1, <1>10 DEF DeleteInv
  <2>3. \A e \in Op, v \in Var : stage'[e] \in {"completing", "done"} =>
          stage'[e] = stage[e] /\ (Deletes(e, v)' <=> Deletes(e, v))
    BY <1>6, <1>10
  <2>4. \A e \in Op, v \in Var : stage[e] \in {"completing", "done"} =>
          stage'[e] = stage[e] /\ (Deletes(e, v)' <=> Deletes(e, v))
    BY <1>6, <1>9, <1>10
  <2>5. ASSUME NEW v \in Var
        PROVE  /\ life[v] = "to_delete" <=>
                    \E e \in Op : Called(e, v)' /\ stage'[e] = "completing" /\ at[e] = 1
               /\ life[v] = "freed" <=>
                    \E e \in Op : Called(e, v)' /\ stage'[e] \in {"completing", "done"} /\ at[e] > 1
               /\ life[v] = "freed" => \A o \in Op : ~ Reading(o, v)' /\ ~ Writing(o, v)'
    <3>1. \A e \in Op : stage[e] \in {"completing", "done"} => (Called(e, v)' <=> Called(e, v))
      BY <2>4, <1>3 DEF Called
    <3> QED
      BY <3>1, <2>3, <2>4, <1>14 DEF DeleteInv
  <2>6. ASSUME NEW v \in Var, NEW e \in Op, Deletes(e, v)', stage'[e] \in {"completing", "done"}
        PROVE  e \in executed' \/ v \in broken'
    BY <2>3, <2>6, <1>3 DEF DeleteInv
  <2> QED
    BY <2>1, <2>2, <2>5, <2>6, <1>3 DEF DeleteInv
<1> QED
  BY <1>17, <1>22, <1>23, <1>24, <1>25, <1>28

\* The calls that push.
LEMMA CallStep ==
    ASSUME EngineInv, NEW t \in Thread, PushAsync(t) \/ DeleteVariable(t) \/ WaitForVar(t)
    PROVE  EngineInv'
<1>0. Usable \subseteq Var
  BY DEF Usable
<1>1. CASE PushAsync(t)
  <2>1. PICK kind \in {"normal", "no_skip"}, r \in SUBSET Usable, w \in SUBSET Usable :
          /\ r \cap w = {}
          /\ \E rs \in SetToSeqs(r), ws \in SetToSeqs(w) : Push(t, rs, ws, kind)
    BY <1>1 DEF PushAsync
  <2>2. PICK rs \in SetToSeqs(r), ws \in SetToSeqs(w) : Push(t, rs, ws, kind)
    BY <2>1
  <2>3. r \in SUBSET Var /\ w \in SUBSET Var
    BY <1>0
  <2>4. /\ rs \in Seq(Var) /\ IsInjective(rs) /\ ToSet(rs) \subseteq r
        /\ ws \in Seq(Var) /\ IsInjective(ws) /\ ToSet(ws) \subseteq w
    BY <2>3, ArgumentSeq
  <2>5. IsInjective(rs \o ws)
    BY <2>1, <2>4, ConcatInjective
  <2>6. ToSet(rs \o ws) \subseteq ToSet(rs) \cup ToSet(ws)
    <3>1. \A i \in DOMAIN (rs \o ws) : (rs \o ws)[i] \in ToSet(rs) \cup ToSet(ws)
      BY <2>4, SplitFacts
    <3>2. \A x : x \in ToSet(rs \o ws) => \E i \in DOMAIN (rs \o ws) : (rs \o ws)[i] = x
      BY DEF ToSet
    <3> QED
      BY <3>1, <3>2
  <2>7. kind \in AllKinds /\ kind # "delete"
    BY DEF AllKinds
  <2> QED
    BY <2>2, <2>4, <2>5, <2>6, <2>7, PushStepKept
<1>2. ASSUME NEW v \in Usable
      PROVE  /\ <<v>> \in Seq(Var) /\ Len(<<v>>) = 1 /\ <<>> \in Seq(Var)
             /\ <<v>> \o <<>> = <<v>> /\ <<>> \o <<v>> = <<v>>
             /\ IsInjective(<<v>>) /\ ToSet(<<v>>) = {v}
  <2>1. <<v>> \in Seq(Var) /\ Len(<<v>>) = 1 /\ <<>> \in Seq(Var) /\ DOMAIN <<v>> = {1} /\ <<v>>[1] = v
    BY <1>0, <1>2
  <2> QED
    BY <2>1, ConcatEmptySeq DEF IsInjective, ToSet
<1>3. CASE DeleteVariable(t)
  <2>1. PICK v \in Usable :
          /\ \A o \in Op : stage[o] = "pushing" => v \notin Reads(o) \cup Writes(o)
          /\ Push(t, <<>>, <<v>>, "delete")
    BY <1>3 DEF DeleteVariable
  <2>2. \A o \in Op : stage[o] = "pushing" => ToSet(<<v>>) \cap (Reads(o) \cup Writes(o)) = {}
    BY <2>1, <1>2
  <2>3. "delete" \in AllKinds
    BY DEF AllKinds
  <2>4. ToSet(<<>> \o <<v>>) \subseteq Usable /\ IsInjective(<<>> \o <<v>>)
    BY <1>2
  <2> QED
    BY <2>1, <2>2, <2>3, <2>4, <1>2, PushStepKept
<1>4. CASE WaitForVar(t)
  <2>1. PICK v \in Usable : Push(t, <<v>>, <<>>, "wait")
    BY <1>4 DEF WaitForVar
  <2>2. "wait" \in AllKinds /\ "wait" # "delete"
    BY DEF AllKinds
  <2>3. ToSet(<<v>> \o <<>>) \subseteq Usable /\ IsInjective(<<v>> \o <<>>)
    BY <1>2
  <2> QED
    BY <2>1, <2>2, <2>3, <1>2, PushStepKept
<1> QED
  BY <1>1, <1>3, <1>4


----------------------------------------------------------------------------
(* Completing a dependency.                                                 *)

\* An operation that waits for nothing has been granted what it uses.
LEMMA Granted ==
    ASSUME EngineInv, NEW o \in Op, NEW v \in Var, stage[o] \notin {"pushing", "waiting"}
    PROVE  /\ ~ Blocked(o, v) /\ ~ Owed(o, v) /\ ~ Unasked(o, v)
           /\ Writing(o, v) => First(o, v)
           /\ Reading(o, v) => ~ Queued(o, v)
<1> USE DEF EngineInv
<1>1. Missing(o) = {}
  <2>1. Cardinality(Missing(o)) = 0
    BY CountedFinite DEF WaitInv
  <2> QED
    BY <2>1, CountedFinite, FS_EmptySet
<1>2. ~ Blocked(o, v) /\ ~ Owed(o, v) /\ ~ Unasked(o, v)
  BY <1>1 DEF Missing
<1>3. Writing(o, v) => First(o, v)
  BY <1>2 DEF Blocked, QueueInv, QueueOf
<1>4. Reading(o, v) => ~ Queued(o, v)
  <2> SUFFICES ASSUME Reading(o, v), Queued(o, v) PROVE FALSE
    OBVIOUS
  <2>1. First(o, v)
    BY <1>2 DEF Blocked
  <2>2. Writing(o, v)
    BY <2>1, BlockFacts DEF First, QueueInv, QueueOf
  <2> QED
    BY <2>2, Exclusive
<1> QED
  BY <1>2, <1>3, <1>4

\* The least of some numbers.
LEMMA LeastNumber ==
    ASSUME NEW T, T \subseteq Nat, T # {}
    PROVE  Min(T) \in T /\ \A x \in T : Min(T) <= x
<1> DEFINE R == OpToRel(<, Nat)
<1>1. IsWellFoundedOn(R, Nat)
  BY NatLessThanWellFounded
<1>2. \A i, j \in Nat : i < j => <<i, j>> \in R
  BY DEF OpToRel
<1> HIDE DEF R
<1>3. PICK x \in T : \A y \in T : ~ (<<y, x>> \in R)
  BY <1>1, WFMin
<1>4. \A y \in T : x \in Nat /\ y \in Nat /\ ~ (y < x)
  BY <1>2, <1>3
<1>5. \A y \in T : x <= y
  BY <1>4
<1> QED
  BY <1>5 DEF Min

\* The reads that directly follow in a queue.
LEMMA ReadChainFacts ==
    ASSUME NEW q \in Seq(Block), NEW n, n = ReadChain(q)
    PROVE  /\ n \in Nat /\ n <= Len(q)
           /\ \A i \in 1..n : ~ q[i].write
           /\ n < Len(q) => q[n + 1].write
<1> DEFINE T == {i \in DOMAIN q : q[i].write}
<1>1. Len(q) \in Nat /\ DOMAIN q = 1..Len(q)
  BY LenProperties
<1>2. CASE T = {}
  <2>1. n = Len(q)
    BY <1>2 DEF ReadChain
  <2> QED
    BY <2>1, <1>1, <1>2
<1>3. CASE T # {}
  <2>1. n = Min(T) - 1
    BY <1>3 DEF ReadChain
  <2>2. T \subseteq Nat
    BY <1>1
  <2>3. Min(T) \in T /\ \A x \in T : Min(T) <= x
    BY <2>2, <1>3, LeastNumber
  <2> DEFINE m == Min(T)
  <2>4. m \in 1..Len(q) /\ q[m].write /\ n = m - 1
    BY <2>1, <2>3, <1>1
  <2>5. \A i \in 1..Len(q) : q[i].write => m <= i
    BY <2>3, <1>1
  <2> HIDE DEF m, T
  <2>6. n \in Nat /\ n <= Len(q) /\ n + 1 = m
    BY <2>4, <1>1
  <2>7. \A i \in 1..n : i \in 1..Len(q) /\ ~ (m <= i)
    BY <2>4, <2>6, <1>1
  <2> QED
    BY <2>4, <2>5, <2>6, <2>7
<1> QED
  BY <1>2, <1>3

\* What is left when the first n are gone.
LEMMA RestFacts ==
    ASSUME NEW S, NEW s \in Seq(S), NEW n \in Nat, n <= Len(s)
    PROVE  /\ SubSeq(s, n + 1, Len(s)) \in Seq(S) /\ Len(SubSeq(s, n + 1, Len(s))) = Len(s) - n
           /\ \A j \in 1..(Len(s) - n) : SubSeq(s, n + 1, Len(s))[j] = s[j + n]
<1> DEFINE r == SubSeq(s, n + 1, Len(s))
<1>1. Len(s) \in Nat /\ Len(s) \in Int /\ n + 1 \in Int
  BY LenProperties
<1>2. \A j \in (n + 1)..Len(s) : s[j] \in S
  BY <1>1, ElementOfSeq
<1>3. /\ r \in Seq(S) /\ Len(r) = IF n + 1 <= Len(s) THEN Len(s) - (n + 1) + 1 ELSE 0
      /\ \A j \in 1..(Len(s) - (n + 1) + 1) : r[j] = s[(n + 1) + j - 1]
  BY <1>1, <1>2, SubSeqProperties
<1> HIDE DEF r
<1>4. r \in Seq(S) /\ Len(r) = Len(s) - n
  BY <1>1, <1>3
<1>5. \A j \in 1..(Len(s) - n) : r[j] = s[j + n]
  <2> TAKE j \in 1..(Len(s) - n)
  <2>1. j \in 1..(Len(s) - (n + 1) + 1) /\ (n + 1) + j - 1 = j + n
    BY <1>1
  <2> QED
    BY <2>1, <1>3
<1> QED
  BY <1>4, <1>5 DEF r

\* r is what is left of q when its write and the n reads that follow are gone;
\* s are the g operations that are granted then, the write that follows included
\* when there are no reads.
Chain(q, n, r) ==
    /\ n \in Nat /\ n + 1 <= Len(q) /\ Len(q) \in Nat /\ DOMAIN q = 1..Len(q)
    /\ r \in Seq(Block) /\ Len(r) = Len(q) - (n + 1) /\ DOMAIN r = 1..Len(r)
    /\ r = <<>> <=> n + 1 = Len(q)
    /\ \A j \in 1..Len(r) : r[j] = q[j + (n + 1)]
    /\ \A j \in 2..(n + 1) : ~ q[j].write
    /\ n + 1 < Len(q) => q[n + 2].write
Direct(n, r) == n = 0 /\ r # <<>>
Grants(q, n, r, g, s) ==
    /\ g \in Nat /\ g + 1 <= Len(q) /\ g = IF Direct(n, r) THEN 1 ELSE n
    /\ s \in Seq(Op) /\ DOMAIN s = 1..g /\ Len(s) = g
    /\ \A i \in 1..g : i + 1 \in DOMAIN q /\ s[i] = q[i + 1].op

\* What CompleteWriteDependency computes.
Follow(q) == ReadChain(Tail(q))
Left(q) == SubSeq(Tail(q), Follow(q) + 1, Len(Tail(q)))

LEMMA ChainFacts ==
    ASSUME NEW q \in Seq(Block), q # <<>>
    PROVE  Chain(q, Follow(q), Left(q)) /\ \A i \in 1..(Len(q) - 1) : Tail(q)[i] = q[i + 1]
<1>0. PICK n : n = Follow(q)
  OBVIOUS
<1>5. PICK r : r = Left(q)
  OBVIOUS
<1> DEFINE s == Tail(q)
<1>1. /\ s \in Seq(Block) /\ Len(s) = Len(q) - 1
      /\ \A i \in 1..Len(s) : s[i] = q[i + 1]
  BY HeadTailProperties
<1>2. Len(q) \in Nat \ {0} /\ DOMAIN q = 1..Len(q)
  BY EmptySeq, LenProperties
<1>3. /\ n \in Nat /\ n <= Len(s)
      /\ \A i \in 1..n : ~ s[i].write
      /\ n < Len(s) => s[n + 1].write
  BY <1>0, <1>1, ReadChainFacts DEF Follow
<1>4. r = SubSeq(s, n + 1, Len(s))
  BY <1>0, <1>5 DEF Left
<1> HIDE DEF s
<1>6. /\ r \in Seq(Block) /\ Len(r) = Len(s) - n
      /\ \A j \in 1..(Len(s) - n) : r[j] = s[j + n]
  <2> DEFINE z == SubSeq(s, n + 1, Len(s))
  <2>1. /\ z \in Seq(Block) /\ Len(z) = Len(s) - n
        /\ \A j \in 1..(Len(s) - n) : z[j] = s[j + n]
    BY <1>1, <1>3, RestFacts
  <2>2. r = z
    BY <1>4
  <2> HIDE DEF z
  <2> QED
    BY <2>1, <2>2
<1>7. Len(r) = Len(q) - (n + 1) /\ DOMAIN r = 1..Len(r) /\ Len(r) \in Nat
  <2>1. Len(r) = Len(q) - (n + 1)
    BY <1>1, <1>2, <1>3, <1>6
  <2> QED
    BY <2>1, <1>6, LenProperties
<1>8. r = <<>> <=> n + 1 = Len(q)
  <2>1. r = <<>> => Len(r) = 0
    BY EmptySeq
  <2>2. r # <<>> => Len(r) # 0
    BY <1>6, EmptySeq
  <2> DEFINE a == Len(q)
             b == Len(r)
  <2>3. a \in Nat /\ n \in Nat /\ b = a - (n + 1)
    BY <1>2, <1>3, <1>7
  <2>4. (r = <<>> => b = 0) /\ (r # <<>> => b # 0)
    BY <2>1, <2>2
  <2> HIDE DEF a, b
  <2>5. r = <<>> <=> n + 1 = a
    BY <2>3, <2>4
  <2> QED
    BY <2>5 DEF a
<1>9. \A j \in 1..Len(r) : r[j] = q[j + (n + 1)]
  <2> TAKE j \in 1..Len(r)
  <2>0. Len(s) \in Nat /\ Len(r) = Len(s) - n
    BY <1>1, <1>6, LenProperties
  <2>1. j \in 1..(Len(s) - n) /\ j + n \in 1..Len(s) /\ (j + n) + 1 = j + (n + 1)
    BY <2>0, <1>3
  <2>2. r[j] = s[j + n] /\ s[j + n] = q[(j + n) + 1]
    BY <2>1, <1>1, <1>6
  <2> QED
    BY <2>1, <2>2
<1>10. \A j \in 2..(n + 1) : ~ q[j].write
  <2> TAKE j \in 2..(n + 1)
  <2>1. j - 1 \in 1..n /\ j - 1 \in 1..Len(s) /\ (j - 1) + 1 = j
    BY <1>1, <1>2, <1>3
  <2>2. s[j - 1] = q[(j - 1) + 1]
    BY <2>1, <1>1
  <2> QED
    BY <2>1, <2>2, <1>3
<1>11. n + 1 < Len(q) => q[n + 2].write
  <2> HAVE n + 1 < Len(q)
  <2>1. n < Len(s) /\ n + 1 \in 1..Len(s) /\ (n + 1) + 1 = n + 2
    BY <1>1, <1>2, <1>3
  <2>2. s[n + 1] = q[(n + 1) + 1]
    BY <2>1, <1>1
  <2> QED
    BY <2>1, <2>2, <1>3
<1>12. \A i \in 1..(Len(q) - 1) : Tail(q)[i] = q[i + 1]
  BY <1>1 DEF s
<1>13. n + 1 <= Len(q) /\ Len(q) \in Nat
  BY <1>1, <1>2, <1>3
<1>14. Chain(q, n, r)
  BY <1>2, <1>3, <1>6, <1>7, <1>8, <1>9, <1>10, <1>11, <1>13 DEF Chain
<1> QED
  BY <1>0, <1>5, <1>12, <1>14


\* What v becomes when the read of o is completed.
LEMMA CompleteReadVar ==
    ASSUME TypeOK, NEW v \in Var, NEW o \in Op, QueueOf(v), Reading(o, v), ~ Queued(o, v),
           ~ Reading(o, v)', ~ Writing(o, v)', life'[v] = life[v],
           \A p \in Op : p # o => /\ Reading(p, v)' <=> Reading(p, v)
                                  /\ Writing(p, v)' <=> Writing(p, v),
           queue'[v] = queue[v],
           num_pending_reads'[v] = IF LastRead(v) THEN kWriteTriggered ELSE num_pending_reads[v] - 1
    PROVE  /\ QueueOf(v)' /\ num_pending_reads'[v] \in Nat \cup {kWriteTriggered}
           /\ num_pending_reads[v] \in Nat /\ num_pending_reads[v] > 0
           /\ ~ LastRead(v) => \A p : Blocked(p, v)' <=> Blocked(p, v)
           /\ LastRead(v) => /\ queue[v] # <<>>
                             /\ \A p : Blocked(p, v) <=> Queued(p, v)
                             /\ \A p : Blocked(p, v)' <=> Queued(p, v) /\ p # queue[v][1].op
<1>1. o \in Readers(v)
  BY DEF Readers
<1>2. /\ IsFiniteSet(Readers(v)) /\ Cardinality(Readers(v)) = num_pending_reads[v]
      /\ num_pending_reads[v] \in Nat /\ num_pending_reads[v] # kWriteTriggered
  BY <1>1, CountedFinite DEF QueueOf, TypeOK
<1>3. num_pending_reads[v] > 0
  BY <1>1, <1>2, FS_EmptySet
<1>4. \A p : Queued(p, v)' <=> Queued(p, v)
  BY DEF Queued
<1>5. Readers(v)' = Readers(v) \ {o}
  BY <1>4 DEF Readers
<1>6. Cardinality(Readers(v)') = num_pending_reads[v] - 1 /\ IsFiniteSet(Readers(v)')
  BY <1>1, <1>2, <1>5, FS_RemoveElement
<1>7. num_pending_reads'[v] \in Nat \cup {kWriteTriggered}
  BY <1>2, <1>3
<1>8. \A p : ~ First(p, v)
  BY <1>2 DEF First
<1>9. /\ \A j \in DOMAIN queue[v], p \in Op : queue[v][j].op = p =>
           /\ queue[v][j].write => Writing(p, v)'
           /\ ~ queue[v][j].write => Reading(p, v)'
      /\ \A p \in Op : Writing(p, v)' => Queued(p, v)'
  BY <1>4 DEF QueueOf, Queued
<1>10. CASE LastRead(v)
  <2>1. /\ num_pending_reads[v] = 1 /\ queue[v] # <<>> /\ num_pending_reads'[v] = kWriteTriggered
    BY <1>10 DEF LastRead
  <2>2. Readers(v)' = {}
    BY <2>1, <1>6, FS_EmptySet
  <2>3. QueueOf(v)'
    BY <2>1, <2>2, <1>9 DEF QueueOf, kWriteTriggered
  <2>4. \A p : First(p, v)' <=> p = queue[v][1].op
    BY <2>1 DEF First
  <2> QED
    BY <2>1, <2>3, <2>4, <1>2, <1>3, <1>4, <1>7, <1>8, <1>10 DEF Blocked
<1>11. CASE ~ LastRead(v)
  <2>1. num_pending_reads'[v] = num_pending_reads[v] - 1
    BY <1>11
  <2>2. num_pending_reads'[v] # kWriteTriggered
    BY <2>1, <1>2, <1>3 DEF kWriteTriggered
  <2>3. queue[v] # <<>> => num_pending_reads'[v] # 0
    BY <2>1, <1>2, <1>11 DEF LastRead
  <2>4. QueueOf(v)'
    BY <2>1, <2>2, <2>3, <1>6, <1>9 DEF QueueOf
  <2>5. \A p : ~ First(p, v)'
    BY <2>2 DEF First
  <2> QED
    BY <2>4, <2>5, <1>2, <1>3, <1>4, <1>7, <1>8, <1>11 DEF Blocked
<1> QED
  BY <1>10, <1>11

\* What v becomes when the write of o is completed.
LEMMA CompleteWriteVar ==
    ASSUME TypeOK, OprInv, NEW v \in Var, NEW o \in Op, QueueOf(v), First(o, v),
           ~ Reading(o, v)', ~ Writing(o, v)',
           \A p \in Op : p # o => /\ Reading(p, v)' <=> Reading(p, v)
                                  /\ Writing(p, v)' <=> Writing(p, v),
           NEW q, q = queue[v], NEW n, NEW r, Chain(q, n, r), NEW g, NEW s, Grants(q, n, r, g, s),
           queue'[v] = r,
           num_pending_reads'[v] = IF Direct(n, r) THEN kWriteTriggered ELSE n
    PROVE  /\ QueueOf(v)' /\ num_pending_reads'[v] \in Nat \cup {kWriteTriggered}
           /\ IsInjective(s)
           /\ \A p \in Op : Blocked(p, v) <=> Blocked(p, v)' \/ p \in ToSet(s)
           /\ \A p \in Op : ~ (Blocked(p, v)' /\ p \in ToSet(s))
<1>1. /\ q \in Seq(Block) /\ q # <<>> /\ q[1].op = o /\ num_pending_reads[v] = kWriteTriggered
      /\ queue[v] = q /\ queue'[v] = r
      /\ \A j \in DOMAIN q : q[j].op \in Op /\ q[j].write \in BOOLEAN
  BY BlockFacts DEF First
<1>2. /\ n \in Nat /\ n + 1 <= Len(q) /\ Len(q) \in Nat /\ DOMAIN q = 1..Len(q)
      /\ r \in Seq(Block) /\ Len(r) = Len(q) - (n + 1) /\ DOMAIN r = 1..Len(r)
      /\ r = <<>> <=> n + 1 = Len(q)
      /\ \A j \in 1..Len(r) : r[j] = q[j + (n + 1)]
      /\ \A j \in 2..(n + 1) : ~ q[j].write
      /\ n + 1 < Len(q) => q[n + 2].write
  BY DEF Chain
<1>3. /\ n \in Nat /\ Len(q) \in Nat /\ Len(r) \in Nat /\ Len(q) = Len(r) + (n + 1)
      /\ DOMAIN q = 1..Len(q) /\ DOMAIN r = 1..Len(r)
  <2> DEFINE a == Len(q)
             b == Len(r)
  <2>1. n \in Nat /\ a \in Nat /\ n + 1 <= a /\ b = a - (n + 1)
        /\ DOMAIN q = 1..a /\ DOMAIN r = 1..b
    BY <1>2
  <2> HIDE DEF a, b
  <2>2. b \in Nat /\ a = b + (n + 1)
    BY <2>1
  <2> QED
    BY <2>1, <2>2 DEF a, b
<1>4. \A j \in DOMAIN r : j + (n + 1) \in DOMAIN q /\ r[j] = q[j + (n + 1)]
  <2>1. \A j \in DOMAIN r : j + (n + 1) \in DOMAIN q
    BY <1>3
  <2>2. \A j \in DOMAIN r : r[j] = q[j + (n + 1)]
    BY <1>2
  <2> QED
    BY <2>1, <2>2
<1>5. \A j, k \in DOMAIN q : q[j].op = q[k].op => j = k
  BY <1>1 DEF QueueOf
<1>6. \A j \in DOMAIN q : q[j].op = o => j = 1
  BY <1>1, <1>2, <1>5
<1>7. \A j \in DOMAIN q, p \in Op : q[j].op = p =>
           /\ q[j].write => Writing(p, v)
           /\ ~ q[j].write => Reading(p, v)
  BY <1>1 DEF QueueOf
<1>8. g \in Nat /\ g + 1 <= Len(q) /\ (g = n \/ (n = 0 /\ g = 1 /\ r # <<>>))
  BY DEF Grants, Direct
<1>9. \A i \in 1..g : i + 1 \in DOMAIN q /\ s[i] = q[i + 1].op /\ s[i] \in Op
  BY <1>1 DEF Grants
<1>11. s \in Seq(Op) /\ Len(s) = g /\ DOMAIN s = 1..g
  BY DEF Grants
<1>10. DOMAIN s = 1..g
  BY <1>11
<1>12. IsInjective(s)
  <2> SUFFICES ASSUME NEW i \in 1..g, NEW j \in 1..g, s[i] = s[j] PROVE i = j
    BY <1>10 DEF IsInjective
  <2>1. i + 1 = j + 1
    BY <1>5, <1>9
  <2> QED
    BY <2>1, <1>8
<1>13. \A p : p \in ToSet(s) <=> \E j \in 2..(g + 1) : q[j].op = p
  <2>1. \A p : p \in ToSet(s) <=> \E i \in 1..g : s[i] = p
    BY <1>10 DEF ToSet
  <2>2. \A i \in 1..g : i + 1 \in 2..(g + 1) /\ s[i] = q[i + 1].op
    BY <1>8, <1>9
  <2>3. \A j \in 2..(g + 1) : j - 1 \in 1..g /\ (j - 1) + 1 = j
    BY <1>8
  <2>4. \A j \in 2..(g + 1) : s[j - 1] = q[j].op
    BY <2>2, <2>3
  <2> QED
    BY <2>1, <2>2, <2>3, <2>4
<1>14. \A p : Queued(p, v) <=> \E j \in DOMAIN q : q[j].op = p
  BY <1>1 DEF Queued
<1>15. \A p : Queued(p, v)' <=> \E j \in (n + 2)..Len(q) : q[j].op = p
  <2>1. \A p : Queued(p, v)' <=> \E j \in DOMAIN r : r[j].op = p
    BY <1>1 DEF Queued
  <2>2. \A j \in DOMAIN r : j + (n + 1) \in (n + 2)..Len(q) /\ r[j] = q[j + (n + 1)]
    BY <1>3, <1>4
  <2>3. \A j \in (n + 2)..Len(q) : j - (n + 1) \in DOMAIN r /\ (j - (n + 1)) + (n + 1) = j
    BY <1>3
  <2>4. \A j \in (n + 2)..Len(q) : r[j - (n + 1)] = q[j]
    BY <2>3, <1>4
  <2> QED
    BY <2>1, <2>2, <2>3, <2>4
<1>16. \A p \in Op : First(p, v) <=> p = o
  BY <1>1 DEF First
<1>17. \A p \in Op : Blocked(p, v) <=> \E j \in 2..Len(q) : q[j].op = p
  <2>1. \A j \in DOMAIN q : j = 1 \/ j \in 2..Len(q)
    BY <1>2
  <2>2. \A j \in 2..Len(q) : j \in DOMAIN q /\ j # 1
    BY <1>2
  <2> QED
    BY <2>1, <2>2, <1>1, <1>6, <1>14, <1>16 DEF Blocked
<1>18. \A p \in Op : Blocked(p, v)' <=> \E j \in (g + 2)..Len(q) : q[j].op = p
  <2>1. CASE Direct(n, r)
    <3>1. /\ g = 1 /\ r[1] = q[2] /\ num_pending_reads'[v] = kWriteTriggered /\ 2 \in DOMAIN q
      BY <2>1, <1>2, <1>3 DEF Grants, Direct
    <3>2. \A p : First(p, v)' <=> p = q[2].op
      BY <2>1, <3>1, <1>1 DEF First, Direct
    <3>3. \A j \in 2..Len(q) : j = 2 \/ j \in 3..Len(q)
      BY <1>2
    <3>4. \A j \in 3..Len(q) : j \in 2..Len(q) /\ j # 2 /\ j \in DOMAIN q
      BY <1>2
    <3>5. \A p : Queued(p, v)' <=> \E j \in 2..Len(q) : q[j].op = p
      BY <2>1, <1>15 DEF Direct
    <3>6. \A p \in Op : Blocked(p, v)' <=> \E j \in 3..Len(q) : q[j].op = p
      BY <3>1, <3>2, <3>3, <3>4, <3>5, <1>5 DEF Blocked
    <3> QED
      BY <3>1, <3>6
  <2>2. CASE ~ Direct(n, r)
    <3>1. g = n /\ num_pending_reads'[v] = n /\ num_pending_reads'[v] # kWriteTriggered
      BY <2>2, <1>2 DEF kWriteTriggered, Grants
    <3>2. \A p : ~ First(p, v)'
      BY <3>1 DEF First
    <3> QED
      BY <3>1, <3>2, <1>15 DEF Blocked
  <2> QED
    BY <2>1, <2>2
<1>19. \A p \in Op : Blocked(p, v) <=> Blocked(p, v)' \/ p \in ToSet(s)
  <2>1. \A j \in 2..Len(q) : j \in 2..(g + 1) \/ j \in (g + 2)..Len(q)
    BY <1>2, <1>8
  <2>2. \A j : j \in 2..(g + 1) \/ j \in (g + 2)..Len(q) => j \in 2..Len(q)
    BY <1>2, <1>8
  <2> QED
    BY <2>1, <2>2, <1>13, <1>17, <1>18
<1>20. \A p \in Op : ~ (Blocked(p, v)' /\ p \in ToSet(s))
  <2>1. \A j \in 2..(g + 1), k \in (g + 2)..Len(q) : j \in DOMAIN q /\ k \in DOMAIN q /\ j # k
    BY <1>2, <1>8
  <2> QED
    BY <2>1, <1>5, <1>13, <1>18
<1>21. \A p \in Op : p \in Readers(v)' <=> \E j \in 2..(n + 1) : q[j].op = p
  <2> TAKE p \in Op
  <2>1. ASSUME p \in Readers(v)' PROVE \E j \in 2..(n + 1) : q[j].op = p
    <3>1. Reading(p, v)' /\ ~ Queued(p, v)'
      BY <2>1 DEF Readers
    <3>2. p # o /\ Reading(p, v)
      BY <3>1
    <3>3. Queued(p, v)
      <4>1. p \notin Readers(v)
        BY <1>1 DEF QueueOf
      <4> QED
        BY <3>2, <4>1 DEF Readers
    <3>4. PICK j \in DOMAIN q : q[j].op = p
      BY <3>3, <1>14
    <3>5. j \notin (n + 2)..Len(q) /\ j # 1
      BY <3>1, <3>2, <3>4, <1>1, <1>15
    <3>6. j \in 2..(n + 1)
      BY <3>5, <1>2
    <3> QED
      BY <3>4, <3>6
  <2>2. ASSUME NEW j \in 2..(n + 1), q[j].op = p PROVE p \in Readers(v)'
    <3>1. j \in DOMAIN q /\ j # 1 /\ \A k \in (n + 2)..Len(q) : k \in DOMAIN q /\ k # j
      BY <1>2
    <3>2. p # o /\ ~ Queued(p, v)'
      BY <2>2, <3>1, <1>5, <1>6, <1>15
    <3>3. Reading(p, v)
      BY <2>2, <3>1, <1>2, <1>7
    <3> QED
      BY <3>2, <3>3 DEF Readers
  <2> QED
    BY <2>1, <2>2
<1>22. IF num_pending_reads'[v] = kWriteTriggered THEN Readers(v)' = {}
       ELSE Cardinality(Readers(v)') = num_pending_reads'[v]
  <2>0. Readers(v)' \subseteq Op
    BY DEF Readers
  <2>1. CASE Direct(n, r)
    <3>1. 2..(n + 1) = {}
      BY <2>1 DEF Direct
    <3>2. Readers(v)' = {}
      BY <3>1, <2>0, <1>21
    <3> QED
      BY <2>1, <3>2
  <2>2. CASE ~ Direct(n, r)
    <3>1. g = n /\ num_pending_reads'[v] = n /\ num_pending_reads'[v] # kWriteTriggered
      BY <2>2, <1>2 DEF kWriteTriggered, Grants
    <3>2. ToSet(s) \subseteq Op
      BY <1>9, <1>10 DEF ToSet
    <3>3. Readers(v)' = ToSet(s)
      BY <3>1, <3>2, <2>0, <1>13, <1>21
    <3>4. Len(s) = g
      BY <1>11
    <3>5. Cardinality(ToSet(s)) = Len(s)
      BY <1>11, <1>12, InjectiveCount
    <3> QED
      BY <3>1, <3>3, <3>4, <3>5
  <2> QED
    BY <2>1, <2>2
<1>23. num_pending_reads'[v] \in Nat \cup {kWriteTriggered}
  BY <1>2
<1>24. \A j \in DOMAIN r, p \in Op : r[j].op = p =>
           /\ r[j].write => Writing(p, v)'
           /\ ~ r[j].write => Reading(p, v)'
  <2> TAKE j \in DOMAIN r, p \in Op
  <2> HAVE r[j].op = p
  <2>1. j + (n + 1) \in DOMAIN q /\ r[j] = q[j + (n + 1)] /\ j + (n + 1) # 1
    BY <1>3, <1>4
  <2>2. p # o
    BY <2>1, <1>6
  <2>3. /\ r[j].write => Writing(p, v)
        /\ ~ r[j].write => Reading(p, v)
    BY <2>1, <1>7
  <2> QED
    BY <2>2, <2>3
<1>25. \A j, k \in DOMAIN r : r[j].op = r[k].op => j = k
  <2> TAKE j, k \in DOMAIN r
  <2> HAVE r[j].op = r[k].op
  <2>1. j + (n + 1) = k + (n + 1)
    BY <1>4, <1>5
  <2> QED
    BY <2>1, <1>2
<1>26. \A p \in Op : Writing(p, v)' => Queued(p, v)'
  <2> TAKE p \in Op
  <2> HAVE Writing(p, v)'
  <2>1. p # o /\ Writing(p, v)
    OBVIOUS
  <2>2. Queued(p, v)
    BY <2>1 DEF QueueOf
  <2>3. PICK j \in DOMAIN q : q[j].op = p
    BY <2>2, <1>14
  <2>4. j # 1
    BY <2>1, <2>3, <1>1
  <2>5. j \notin 2..(n + 1)
    <3>1. j \in 2..(n + 1) => Reading(p, v)
      BY <2>3, <1>2, <1>7
    <3> QED
      BY <2>1, <3>1, Exclusive
  <2>6. j \in (n + 2)..Len(q)
    BY <2>4, <2>5, <1>2
  <2> QED
    BY <2>3, <2>6, <1>15
<1>27. r # <<>> => r[1].write /\ num_pending_reads'[v] # 0
  <2> HAVE r # <<>>
  <2>0. n + 1 # Len(q)
    BY <1>2
  <2>1. n + 1 < Len(q) /\ 1 \in 1..Len(r) /\ 1 + (n + 1) = n + 2
    BY <2>0, <1>3
  <2>2. r[1].write
    BY <2>1, <1>2
  <2>3. num_pending_reads'[v] # 0
    BY <1>2 DEF kWriteTriggered, Direct
  <2> QED
    BY <2>2, <2>3
<1>28. r = <<>> => num_pending_reads'[v] # kWriteTriggered
  BY <1>2 DEF kWriteTriggered, Direct
<1>29. QueueOf(v)'
  BY <1>1, <1>22, <1>24, <1>25, <1>26, <1>27, <1>28 DEF QueueOf
<1> QED
  BY <1>12, <1>19, <1>20, <1>23, <1>29


\* The first of a queue, when there is one.
LEMMA HeadFirst ==
    ASSUME TypeOK, NEW v \in Var, queue[v] # <<>>
    PROVE  Head(queue[v]) = queue[v][1] /\ 1 \in DOMAIN queue[v] /\ queue[v][1].op \in Op
BY BlockFacts

\* What is in a queue after s of the operations that were blocked are granted.
Shorter(q, r) == \E m \in Nat : /\ Len(q) = Len(r) + m
                                /\ \A j \in DOMAIN r : j + m \in DOMAIN q /\ r[j] = q[j + m]

LEMMA SameInterval ==
    ASSUME NEW a \in Nat, NEW b \in Nat, 1..a = 1..b
    PROVE  a = b
<1>1. a > 0 => a \in 1..b
  OBVIOUS
<1>2. b > 0 => b \in 1..a
  OBVIOUS
<1> QED
  BY <1>1, <1>2

\* A variable that is to be deleted is triggered by its deletion, the last in the
\* queue.
LEMMA LastUse ==
    ASSUME EngineInv, NEW o \in Op, NEW v \in Var, First(o, v), life[v] = "to_delete"
    PROVE  Called(o, v) /\ Len(queue[v]) = 1
<1> USE DEF EngineInv
<1>1. QueueOf(v)
  BY DEF QueueInv
<1>2. /\ queue[v] # <<>> /\ queue[v][1].op = o /\ num_pending_reads[v] = kWriteTriggered
  BY DEF First
<1>3. PICK d \in Op : Called(d, v) /\ stage[d] = "completing" /\ at[d] = 1
  BY DEF DeleteInv
<1>4. Writing(d, v)
  <2>1. /\ DOMAIN Deps(d) = {1} /\ IsWrite(d, 1) /\ Deps(d)[1] = v
    BY <1>3, DeleteFacts DEF Called, Deletes
  <2>2. Active(d, 1)
    BY <1>3, <2>1 DEF Active, InHand
  <2> QED
    BY <2>1, <2>2 DEF Writing
<1>5. First(d, v)
  BY <1>3, <1>4, Granted
<1>6. d = o
  BY <1>2, <1>5 DEF First
<1>7. 1 = Len(queue[v])
  <2>1. 1 \in DOMAIN queue[v]
    BY <1>2, BlockFacts
  <2> QED
    BY <2>1, <1>2, <1>3, <1>6 DEF DeleteInv, Called
<1> QED
  BY <1>3, <1>6, <1>7

\* The freed variable of a deletion.
LEMMA FreeVar ==
    ASSUME EngineInv, NEW o \in Op, NEW v \in Var, First(o, v), life[v] = "to_delete",
           ~ Reading(o, v)', ~ Writing(o, v)',
           \A p \in Op : p # o => /\ Reading(p, v)' <=> Reading(p, v)
                                  /\ Writing(p, v)' <=> Writing(p, v),
           life'[v] = "freed", queue'[v] = Tail(queue[v]), num_pending_reads'[v] = num_pending_reads[v]
    PROVE  /\ Called(o, v) /\ Len(queue[v]) = 1 /\ queue'[v] = <<>> /\ QueueOf(v)'
           /\ \A p \in Op : ~ Blocked(p, v) /\ ~ Blocked(p, v)'
           /\ \A p \in Op : ~ Reading(p, v)' /\ ~ Writing(p, v)'
<1> USE DEF EngineInv
<1>1. QueueOf(v)
  BY DEF QueueInv
<1>2. /\ queue[v] # <<>> /\ queue[v][1].op = o /\ num_pending_reads[v] = kWriteTriggered
  BY DEF First
<1>7. Called(o, v) /\ Len(queue[v]) = 1
  BY LastUse
<1>8. queue'[v] = <<>>
  <2>1. queue[v] \in Seq(Block) /\ queue[v] # <<>>
    BY <1>2, BlockFacts
  <2>2. Tail(queue[v]) \in Seq(Block) /\ Len(Tail(queue[v])) = 0
    BY <2>1, <1>7, HeadTailProperties
  <2> QED
    BY <2>2, EmptySeq
<1>9. \A p : Queued(p, v) => p = o
  BY <1>2, <1>7, BlockFacts DEF Queued
<1>10. \A p \in Op : p # o => ~ Reading(p, v) /\ ~ Writing(p, v)
  <2>1. \A p \in Op : p # o => ~ Writing(p, v)
    BY <1>1, <1>9 DEF QueueOf
  <2>2. Readers(v) = {}
    BY <1>1, <1>2 DEF QueueOf
  <2> QED
    BY <2>1, <2>2, <1>9 DEF Readers
<1>11. \A p \in Op : ~ Reading(p, v)' /\ ~ Writing(p, v)'
  BY <1>10
<1>12. DOMAIN queue'[v] = {}
  <2>1. DOMAIN <<>> = {}
    OBVIOUS
  <2> QED
    BY <2>1, <1>8, Zenon
<1>13. \A p : ~ Queued(p, v)'
  BY <1>12 DEF Queued
<1>14. QueueOf(v)'
  <2>1. Readers(v)' = {}
    BY <1>11 DEF Readers
  <2> QED
    BY <2>1, <1>2, <1>8, <1>11, <1>12 DEF QueueOf
<1> QED
  BY <1>7, <1>8, <1>9, <1>11, <1>13, <1>14 DEF Blocked

\* A completion lets go of a dependency.
LEMMA CompleteStep ==
    ASSUME EngineInv, NEW o \in Op, CompleteDependency(o)
    PROVE  /\ EngineInv'
           /\ \A u \in Var : \/ queue'[u] = queue[u] \/ queue'[u] = <<>>
                             \/ Shorter(queue[u], queue'[u])
           /\ \A p \in Op, u \in Var : Reading(p, u)' => Reading(p, u)
<1> USE DEF EngineInv
<1>2. PICK k \in Nat : k = at[o]
  BY DEF TypeOK
<1>3. stage[o] = "completing" /\ trigger[o] = <<>> /\ k <= Len(Deps(o)) /\ k \in DOMAIN Deps(o)
  <2>1. stage[o] = "completing" /\ trigger[o] = <<>> /\ k <= Len(Deps(o)) /\ k # 0
    BY <1>2 DEF CompleteDependency, TypeOK
  <2> QED
    BY <2>1, <1>2, DepsFacts
<1>4. PICK v \in Var : v = Deps(o)[k]
  BY <1>3, DepsFacts
<1>5. /\ IF IsWrite(o, k) THEN CompleteWriteDependency(v, o) ELSE CompleteReadDependency(v, o)
      /\ at' = [at EXCEPT ![o] = @ + 1]
      /\ UNCHANGED <<opr, stage, wait, pending, cur, asleep, pushed, executed, broken, shutdown_phase>>
  BY <1>2, <1>4 DEF CompleteDependency, waiters, running
<1>6. /\ \A p : Deps(p)' = Deps(p)
      /\ \A p, u : Deletes(p, u)' <=> Deletes(p, u)
  BY <1>5, OprFrame
<1>7. /\ at'[o] = k + 1 /\ \A p \in Op : p # o => at'[p] = at[p]
      /\ at' \in [Op -> Nat \ {0}]
      /\ \A p \in Op, u \in Var : p # o \/ u # v =>
           /\ Reading(p, u)' <=> Reading(p, u)
           /\ Writing(p, u)' <=> Writing(p, u)
           /\ Unasked(p, u)' <=> Unasked(p, u)
      /\ Writing(o, v) <=> IsWrite(o, k)
      /\ Reading(o, v) <=> ~ IsWrite(o, k)
      /\ ~ Reading(o, v)' /\ ~ Writing(o, v)' /\ ~ Unasked(o, v) /\ ~ Unasked(o, v)'
  BY <1>2, <1>3, <1>4, <1>5, AdvanceFacts
<1>8. /\ ~ Blocked(o, v) /\ ~ Owed(o, v)
      /\ Writing(o, v) => First(o, v)
      /\ Reading(o, v) => ~ Queued(o, v)
  BY <1>3, Granted
<1>9. QueueOf(v)
  BY DEF QueueInv
<1>10. \A u : Called(o, u) => u = v /\ k = 1 /\ IsWrite(o, k) /\ life[v] = "to_delete"
  <2> SUFFICES ASSUME NEW u, Called(o, u)
               PROVE  u = v /\ k = 1 /\ IsWrite(o, k) /\ life[v] = "to_delete"
    OBVIOUS
  <2>1. DOMAIN Deps(o) = {1} /\ IsWrite(o, 1) /\ u = Deps(o)[1]
    BY DeleteFacts DEF Called, Deletes
  <2>2. k = 1 /\ u = v
    BY <2>1, <1>3, <1>4
  <2>3. life[v] = "to_delete"
    BY <2>2, <1>2, <1>3 DEF DeleteInv
  <2> QED
    BY <2>1, <2>2, <2>3
<1>11. life[v] # "freed"
  BY <1>7 DEF DeleteInv
<1>12. PICK s : s = trigger'[o]
  OBVIOUS
<1>13. /\ queue' \in [Var -> Seq(Block)] /\ num_pending_reads' \in [Var -> Nat \cup {kWriteTriggered}]
       /\ life' \in [Var -> {"live", "to_delete", "freed"}]
       /\ \A u \in Var : u # v => /\ queue'[u] = queue[u] /\ life'[u] = life[u]
                                  /\ num_pending_reads'[u] = num_pending_reads[u]
       /\ QueueOf(v)'
       /\ s \in Seq(Op) /\ IsInjective(s) /\ trigger' = [trigger EXCEPT ![o] = s]
       /\ \A p \in Op : Blocked(p, v) <=> Blocked(p, v)' \/ p \in ToSet(s)
       /\ \A p \in Op : ~ (Blocked(p, v)' /\ p \in ToSet(s))
       /\ \/ life' = life /\ (\A u : ~ Called(o, u)) /\ Shorter(queue[v], queue'[v])
          \/ /\ life[v] = "to_delete" /\ life'[v] = "freed" /\ queue'[v] = <<>> /\ Called(o, v)
             /\ \A p \in Op : ~ Reading(p, v)' /\ ~ Writing(p, v)'
  <2>1. <<>> \in Seq(Op) /\ IsInjective(<<>>) /\ \A p : p \notin ToSet(<<>>)
    BY EmptySeq DEF IsInjective, ToSet
  <2>2. queue[v] \in Seq(Block) /\ Len(queue[v]) \in Nat /\ DOMAIN queue[v] = 1..Len(queue[v])
    BY BlockFacts
  <2>3. CASE ~ IsWrite(o, k)
    <3>1. /\ num_pending_reads' = [num_pending_reads EXCEPT
                                     ![v] = IF LastRead(v) THEN kWriteTriggered ELSE @ - 1]
          /\ trigger' = [trigger EXCEPT ![o] = IF LastRead(v) THEN <<Head(queue[v]).op>> ELSE <<>>]
          /\ queue' = queue /\ life' = life
      BY <2>3, <1>5 DEF CompleteReadDependency
    <3>2. /\ num_pending_reads'[v] = IF LastRead(v) THEN kWriteTriggered ELSE num_pending_reads[v] - 1
          /\ s = IF LastRead(v) THEN <<Head(queue[v]).op>> ELSE <<>>
      BY <3>1, <1>12 DEF TypeOK
    <3>3. /\ QueueOf(v)' /\ num_pending_reads'[v] \in Nat \cup {kWriteTriggered}
          /\ ~ LastRead(v) => \A p : Blocked(p, v)' <=> Blocked(p, v)
          /\ LastRead(v) => /\ queue[v] # <<>>
                            /\ \A p : Blocked(p, v) <=> Queued(p, v)
                            /\ \A p : Blocked(p, v)' <=> Queued(p, v) /\ p # queue[v][1].op
      <4>1. Reading(o, v) /\ ~ Queued(o, v)
        BY <2>3, <1>7, <1>8
      <4>2. queue'[v] = queue[v] /\ life'[v] = life[v]
        BY <3>1
      <4>3. \A p \in Op : p # o => /\ Reading(p, v)' <=> Reading(p, v)
                                   /\ Writing(p, v)' <=> Writing(p, v)
        BY <1>7
      <4> QED
        BY <3>2, <4>1, <4>2, <4>3, <1>7, <1>9, CompleteReadVar
    <3>4. /\ s \in Seq(Op) /\ IsInjective(s)
          /\ \A p \in Op : Blocked(p, v) <=> Blocked(p, v)' \/ p \in ToSet(s)
          /\ \A p \in Op : ~ (Blocked(p, v)' /\ p \in ToSet(s))
      <4>1. CASE LastRead(v)
        <5>1. PICK h \in Op : h = queue[v][1].op /\ Head(queue[v]).op = h /\ Queued(h, v)
          BY <4>1, <3>3, HeadFirst DEF Queued
        <5>2. s = <<h>>
          BY <4>1, <3>2, <5>1
        <5>3. s \in Seq(Op) /\ DOMAIN s = {1} /\ s[1] = h
          BY <5>2
        <5>4. IsInjective(s) /\ \A p : p \in ToSet(s) <=> p = h
          BY <5>3 DEF IsInjective, ToSet
        <5> QED
          BY <4>1, <5>1, <5>3, <5>4, <3>3
      <4>2. CASE ~ LastRead(v)
        BY <4>2, <3>2, <3>3, <2>1
      <4> QED
        BY <4>1, <4>2
    <3>5. trigger' = [trigger EXCEPT ![o] = s]
      BY <3>1, <3>2
    <3>6. /\ queue' \in [Var -> Seq(Block)] /\ life' \in [Var -> {"live", "to_delete", "freed"}]
          /\ num_pending_reads' \in [Var -> Nat \cup {kWriteTriggered}]
          /\ \A u \in Var : u # v => /\ queue'[u] = queue[u] /\ life'[u] = life[u]
                                     /\ num_pending_reads'[u] = num_pending_reads[u]
      <4>1. num_pending_reads' = [num_pending_reads EXCEPT ![v] = num_pending_reads'[v]]
        BY <3>1, <3>2 DEF TypeOK
      <4>2. num_pending_reads' \in [Var -> Nat \cup {kWriteTriggered}]
        BY <3>3, <4>1 DEF TypeOK
      <4>3. \A u \in Var : u # v => num_pending_reads'[u] = num_pending_reads[u]
        BY <4>1 DEF TypeOK
      <4> QED
        BY <3>1, <4>2, <4>3 DEF TypeOK
    <3>7. Shorter(queue[v], queue'[v])
      <4>1. 0 \in Nat /\ Len(queue[v]) = Len(queue[v]) + 0
            /\ \A j \in DOMAIN queue[v] : j + 0 \in DOMAIN queue[v] /\ j + 0 = j
        BY <2>2
      <4> QED
        BY <3>1, <4>1 DEF Shorter
    <3>8. \A u : ~ Called(o, u)
      BY <2>3, <1>10
    <3> QED
      BY <3>1, <3>3, <3>4, <3>5, <3>6, <3>7, <3>8
  <2>4. CASE IsWrite(o, k) /\ life[v] = "to_delete"
    <3>1. /\ life' = [life EXCEPT ![v] = "freed"]
          /\ queue' = [queue EXCEPT ![v] = Tail(queue[v])]
          /\ num_pending_reads' = num_pending_reads /\ trigger' = trigger
      BY <2>4, <1>5 DEF CompleteWriteDependency
    <3>2. /\ life'[v] = "freed" /\ queue'[v] = Tail(queue[v])
          /\ num_pending_reads'[v] = num_pending_reads[v]
      BY <3>1 DEF TypeOK
    <3>3. First(o, v)
      BY <2>4, <1>7, <1>8
    <3>4. /\ Called(o, v) /\ queue'[v] = <<>> /\ QueueOf(v)'
          /\ \A p \in Op : ~ Blocked(p, v) /\ ~ Blocked(p, v)'
          /\ \A p \in Op : ~ Reading(p, v)' /\ ~ Writing(p, v)'
      <4>1. \A p \in Op : p # o => /\ Reading(p, v)' <=> Reading(p, v)
                                   /\ Writing(p, v)' <=> Writing(p, v)
        BY <1>7
      <4> QED
        BY <2>4, <3>2, <3>3, <4>1, <1>7, FreeVar
    <3>5. s = <<>> /\ trigger' = [trigger EXCEPT ![o] = s]
      BY <3>1, <1>3, <1>12 DEF TypeOK
    <3>6. queue' = [queue EXCEPT ![v] = <<>>]
      BY <3>1, <3>2, <3>4
    <3>7. /\ queue' \in [Var -> Seq(Block)] /\ life' \in [Var -> {"live", "to_delete", "freed"}]
          /\ num_pending_reads' \in [Var -> Nat \cup {kWriteTriggered}]
          /\ \A u \in Var : u # v => /\ queue'[u] = queue[u] /\ life'[u] = life[u]
                                     /\ num_pending_reads'[u] = num_pending_reads[u]
      <4>1. <<>> \in Seq(Block)
        BY EmptySeq
      <4> QED
        BY <3>1, <3>6, <4>1 DEF TypeOK
    <3> QED
      BY <2>1, <2>4, <3>2, <3>4, <3>5, <3>7
  <2>5. CASE IsWrite(o, k) /\ life[v] # "to_delete"
    <3>1. First(o, v) /\ queue[v] # <<>>
      BY <2>5, <1>7, <1>8 DEF First
    <3>2. PICK q \in Seq(Block) : q = queue[v]
      BY <2>2
    <3>3. PICK n : n = Follow(q)
      OBVIOUS
    <3>4. PICK r : r = Left(q)
      OBVIOUS
    <3>5. PICK g : g = IF Direct(n, r) THEN 1 ELSE n
      OBVIOUS
    <3>6. /\ queue' = [queue EXCEPT ![v] = r]
          /\ num_pending_reads' = [num_pending_reads EXCEPT
                                     ![v] = IF Direct(n, r) THEN kWriteTriggered ELSE n]
          /\ trigger' = [trigger EXCEPT ![o] = [i \in 1..g |-> Tail(q)[i].op]]
          /\ life' = life
      BY <2>5, <3>2, <3>3, <3>4, <3>5, <1>5 DEF CompleteWriteDependency, Left, Follow, Direct
    <3>7. /\ Chain(q, n, r)
          /\ \A i \in 1..(Len(q) - 1) : Tail(q)[i] = q[i + 1]
      BY <3>1, <3>2, <3>3, <3>4, ChainFacts
    <3>8. /\ n \in Nat /\ Len(q) \in Nat /\ Len(r) \in Nat /\ Len(q) = Len(r) + (n + 1)
          /\ DOMAIN q = 1..Len(q) /\ DOMAIN r = 1..Len(r) /\ r \in Seq(Block)
          /\ r # <<>> <=> n + 1 # Len(q)
          /\ \A j \in 1..Len(r) : r[j] = q[j + (n + 1)]
      <4>1. /\ n \in Nat /\ n + 1 <= Len(q) /\ Len(q) \in Nat /\ DOMAIN q = 1..Len(q)
            /\ r \in Seq(Block) /\ Len(r) = Len(q) - (n + 1) /\ DOMAIN r = 1..Len(r)
            /\ r = <<>> <=> n + 1 = Len(q)
            /\ \A j \in 1..Len(r) : r[j] = q[j + (n + 1)]
        BY <3>7 DEF Chain
      <4>2. Len(r) \in Nat
        BY <4>1, LenProperties
      <4>3. Len(q) = Len(r) + (n + 1)
        <5> DEFINE a == Len(q)
                   b == Len(r)
        <5>1. n \in Nat /\ a \in Nat /\ b = a - (n + 1)
          BY <4>1
        <5> HIDE DEF a, b
        <5>2. a = b + (n + 1)
          BY <5>1
        <5> QED
          BY <5>2 DEF a, b
      <4> QED
        BY <4>1, <4>2, <4>3
    <3>9. g \in Nat /\ g + 1 <= Len(q)
      <4>1. CASE Direct(n, r)
        BY <4>1, <3>5, <3>8 DEF Direct
      <4>2. CASE ~ Direct(n, r)
        BY <4>2, <3>5, <3>8
      <4> QED
        BY <4>1, <4>2
    <3>10. s = [i \in 1..g |-> Tail(q)[i].op]
      BY <3>6, <1>12 DEF TypeOK
    <3>11. /\ DOMAIN s = 1..g
           /\ \A i \in 1..g : i + 1 \in DOMAIN q /\ s[i] = q[i + 1].op
      <4>1. \A i \in 1..g : i + 1 \in DOMAIN q /\ i \in 1..(Len(q) - 1)
        BY <3>8, <3>9
      <4>2. \A i \in 1..g : s[i] = Tail(q)[i].op
        BY <3>10
      <4> QED
        BY <4>1, <4>2, <3>7, <3>10
    <3>12. s \in Seq(Op) /\ Len(s) = g
      <4>1. \A i \in DOMAIN q : q[i].op \in Op
        BY <3>2, BlockFacts
      <4>2. s \in [1..g -> Op]
        BY <4>1, <3>10, <3>11
      <4>3. s \in Seq(Op)
        BY <4>2, <3>9, SeqDef
      <4>4. DOMAIN s = 1..Len(s) /\ Len(s) \in Nat
        BY <4>3, LenProperties
      <4>5. Len(s) = g
        BY <4>4, <3>9, <3>11, SameInterval
      <4> QED
        BY <4>3, <4>5
    <3>13. Grants(q, n, r, g, s)
      BY <3>5, <3>9, <3>11, <3>12 DEF Grants
    <3>14. /\ queue'[v] = r
           /\ num_pending_reads'[v] = IF Direct(n, r) THEN kWriteTriggered ELSE n
      BY <3>6 DEF TypeOK
    <3>15. /\ QueueOf(v)' /\ num_pending_reads'[v] \in Nat \cup {kWriteTriggered}
           /\ IsInjective(s)
           /\ \A p \in Op : Blocked(p, v) <=> Blocked(p, v)' \/ p \in ToSet(s)
           /\ \A p \in Op : ~ (Blocked(p, v)' /\ p \in ToSet(s))
      <4>1. \A p \in Op : p # o => /\ Reading(p, v)' <=> Reading(p, v)
                                   /\ Writing(p, v)' <=> Writing(p, v)
        BY <1>7
      <4> QED
        BY <3>1, <3>2, <3>7, <3>13, <3>14, <4>1, <1>7, <1>9, CompleteWriteVar
    <3>16. trigger' = [trigger EXCEPT ![o] = s]
      BY <3>6, <3>10
    <3>17. /\ queue' \in [Var -> Seq(Block)] /\ life' \in [Var -> {"live", "to_delete", "freed"}]
           /\ num_pending_reads' \in [Var -> Nat \cup {kWriteTriggered}]
           /\ \A u \in Var : u # v => /\ queue'[u] = queue[u] /\ life'[u] = life[u]
                                      /\ num_pending_reads'[u] = num_pending_reads[u]
      <4>1. num_pending_reads' = [num_pending_reads EXCEPT ![v] = num_pending_reads'[v]]
        BY <3>6, <3>14
      <4>2. num_pending_reads' \in [Var -> Nat \cup {kWriteTriggered}]
        BY <3>15, <4>1 DEF TypeOK
      <4>3. \A u \in Var : u # v => num_pending_reads'[u] = num_pending_reads[u]
        BY <4>1 DEF TypeOK
      <4>4. queue' \in [Var -> Seq(Block)] /\ \A u \in Var : u # v => queue'[u] = queue[u]
        BY <3>6, <3>8 DEF TypeOK
      <4> QED
        BY <3>6, <4>2, <4>3, <4>4 DEF TypeOK
    <3>18. Shorter(queue[v], queue'[v])
      <4>1. n + 1 \in Nat /\ \A j \in DOMAIN r : j + (n + 1) \in DOMAIN q /\ r[j] = q[j + (n + 1)]
        BY <3>8
      <4>2. queue[v] = q /\ queue'[v] = r
        BY <3>2, <3>14
      <4>3. Shorter(q, r)
        BY <4>1, <3>8 DEF Shorter
      <4> QED
        BY <4>2, <4>3
    <3>19. \A u : ~ Called(o, u)
      BY <2>5, <1>10
    <3> QED
      BY <3>6, <3>12, <3>15, <3>16, <3>17, <3>18, <3>19
  <2> QED
    BY <2>3, <2>4, <2>5
<1>14. /\ \A c \in Op : c # o => trigger'[c] = trigger[c]
       /\ trigger' \in [Op -> Seq(Op)] /\ \A p : p \in ToSet(s) => p \in Op
  <2>1. \A p : p \in ToSet(s) => p \in Op
    BY <1>13 DEF ToSet
  <2>2. /\ \A c \in Op : c # o => trigger'[c] = trigger[c]
        /\ trigger' \in [Op -> Seq(Op)]
    BY <1>13 DEF TypeOK
  <2> QED
    BY <2>1, <2>2
<1>15. \A c \in Op : \A p, u : Owes(c, p, u)' <=> Owes(c, p, u) \/ (c = o /\ p \in ToSet(s) /\ u = v)
  <2>1. \A p : p \notin ToSet(trigger[o])
    BY <1>3 DEF ToSet
  <2>2. Deps(o)'[at'[o] - 1] = v
    BY <1>4, <1>6, <1>7
  <2>3. Served(o)' = v
    BY <2>2 DEF Served
  <2>4. \A c \in Op : c # o => Served(c)' = Served(c)
    BY <1>6, <1>7 DEF Served
  <2>5. \A c \in Op : c # o => \A p, u : Owes(c, p, u)' <=> Owes(c, p, u)
    BY <2>4, <1>14 DEF Owes
  <2>6. \A p, u : Owes(o, p, u)' <=> p \in ToSet(s) /\ u = v
    BY <2>3, <1>12 DEF Owes
  <2>7. \A p, u : ~ Owes(o, p, u)
    BY <2>1 DEF Owes
  <2> QED
    BY <2>5, <2>6, <2>7
<1>16. \A p \in Op, u \in Var : Owed(p, u)' <=> Owed(p, u) \/ (p \in ToSet(s) /\ u = v)
  BY <1>15 DEF Owed
<1>17. \A u \in Var : u # v => \A p : Blocked(p, u)' <=> Blocked(p, u)
  BY <1>13, PlaceFrame
<1>18. \A p \in Op, u \in Var : Unasked(p, u)' <=> Unasked(p, u)
  BY <1>7
<1>19. \A p \in Op : Missing(p)' = Missing(p)
  <2> TAKE p \in Op
  <2>1. \A u \in Var : (Blocked(p, u)' \/ Owed(p, u)') <=> (Blocked(p, u) \/ Owed(p, u))
    BY <1>13, <1>16, <1>17
  <2> QED
    BY <2>1, <1>18 DEF Missing
<1>20. WaitInv'
  BY <1>5, <1>19 DEF WaitInv
<1>21. QueueInv'
  <2>1. \A u \in Var : u # v => QueueOf(u)'
    <3> TAKE u \in Var
    <3> HAVE u # v
    <3>1. /\ QueueOf(u) /\ queue'[u] = queue[u] /\ num_pending_reads'[u] = num_pending_reads[u]
          /\ life'[u] = life[u]
          /\ \A p \in Op : Reading(p, u)' <=> Reading(p, u)
          /\ \A p \in Op : Writing(p, u)' <=> Writing(p, u)
      BY <1>7, <1>13 DEF QueueInv
    <3> QED
      BY <3>1, VarFrame
  <2> QED
    BY <2>1, <1>13 DEF QueueInv
<1>22. TriggerInv'
  <2>1. \A c \in Op : trigger'[c] # <<>> =>
           stage'[c] = "completing" /\ at'[c] > 1 /\ IsInjective(trigger'[c])
    <3> TAKE c \in Op
    <3>1. CASE c = o
      <4>1. k + 1 > 1
        BY <1>2 DEF TypeOK
      <4> QED
        BY <3>1, <4>1, <1>3, <1>5, <1>7, <1>12, <1>13
    <3>2. CASE c # o
      BY <3>2, <1>5, <1>7, <1>14 DEF TriggerInv
    <3> QED
      BY <3>1, <3>2
  <2>2. \A p \in Op : p \in ToSet(s) => /\ Blocked(p, v) /\ ~ Blocked(p, v)' /\ p # o
                                        /\ Reading(p, v)' \/ Writing(p, v)'
    <3> TAKE p \in Op
    <3> HAVE p \in ToSet(s)
    <3>1. Blocked(p, v) /\ ~ Blocked(p, v)' /\ p # o
      BY <1>8, <1>13
    <3>2. Reading(p, v) \/ Writing(p, v)
      BY <3>1, QueuedUses DEF Blocked
    <3> QED
      BY <3>1, <3>2, <1>7
  <2>3. \A c, p \in Op, u \in Var : Owes(c, p, u) =>
          /\ Reading(p, u)' \/ Writing(p, u)'
          /\ ~ Blocked(p, u)'
          /\ ~ (p \in ToSet(s) /\ u = v)
          /\ \A d \in Op : Owes(d, p, u) => d = c
    <3> TAKE c, p \in Op, u \in Var
    <3> HAVE Owes(c, p, u)
    <3>1. /\ Reading(p, u) \/ Writing(p, u)
          /\ ~ Blocked(p, u)
          /\ \A d \in Op : Owes(d, p, u) => d = c
      BY DEF TriggerInv
    <3>2. p # o \/ u # v
      BY <1>8 DEF Owed
    <3>3. Reading(p, u)' \/ Writing(p, u)'
      BY <3>1, <3>2, <1>7
    <3>4. ~ Blocked(p, u)' /\ ~ (p \in ToSet(s) /\ u = v)
      BY <3>1, <1>13, <1>17
    <3> QED
      BY <3>1, <3>3, <3>4
  <2>4. \A c, p \in Op, u \in Var : Owes(c, p, u)' =>
          /\ Reading(p, u)' \/ Writing(p, u)'
          /\ ~ Blocked(p, u)'
          /\ \A d \in Op : Owes(d, p, u)' => d = c
    BY <2>2, <2>3, <1>15
  <2> QED
    BY <2>1, <2>4 DEF TriggerInv
<1>23. TypeOK'
  BY <1>5, <1>7, <1>13, <1>14 DEF TypeOK
<1>24. OprInv'
  <2>1. \A p \in Op : /\ at'[p] <= Len(Deps(p)) + 1
                      /\ stage[p] \notin {"pushing", "completing", "done"} => at'[p] = 1
                      /\ stage[p] = "done" => at'[p] = Len(Deps(p)) + 1
    <3> TAKE p \in Op
    <3>1. CASE p = o
      BY <3>1, <1>3, <1>7, DepsFacts
    <3>2. CASE p # o
      BY <3>2, <1>7 DEF OprInv
    <3> QED
      BY <3>1, <3>2
  <2> QED
    BY <2>1, <1>5, <1>6 DEF OprInv
<1>25. DeleteInv'
  <2>1. ASSUME NEW d \in Op, NEW u \in Var, Deletes(d, u), NEW j \in DOMAIN queue'[u], queue'[u][j].op = d
        PROVE  j = Len(queue'[u])
    <3>1. CASE u # v
      BY <2>1, <3>1, <1>13 DEF DeleteInv
    <3>2. CASE u = v /\ Shorter(queue[v], queue'[v])
      <4>1. PICK m \in Nat : /\ Len(queue[v]) = Len(queue'[v]) + m
                             /\ j + m \in DOMAIN queue[v] /\ queue'[v][j] = queue[v][j + m]
        BY <2>1, <3>2 DEF Shorter
      <4>2. j + m = Len(queue[v])
        BY <2>1, <3>2, <4>1 DEF DeleteInv
      <4>3. Len(queue'[v]) \in Nat /\ j \in Nat
        <5>1. queue'[v] \in Seq(Block)
          BY <1>13
        <5>2. Len(queue'[v]) \in Nat /\ DOMAIN queue'[v] = 1..Len(queue'[v])
          BY <5>1, LenProperties
        <5> QED
          BY <5>2, <2>1, <3>2
      <4> QED
        BY <3>2, <4>1, <4>2, <4>3
    <3>3. CASE u = v /\ queue'[v] = <<>>
      BY <2>1, <3>3
    <3> QED
      BY <3>1, <3>2, <3>3, <1>13
  <2>2. ASSUME NEW u \in Var
        PROVE  /\ life'[u] = "to_delete" <=>
                    \E d \in Op : Called(d, u) /\ stage[d] = "completing" /\ at'[d] = 1
               /\ life'[u] = "freed" <=>
                    \E d \in Op : Called(d, u) /\ stage[d] \in {"completing", "done"} /\ at'[d] > 1
               /\ life'[u] = "freed" => \A p \in Op : ~ Reading(p, u)' /\ ~ Writing(p, u)'
    <3>1. CASE ~ Called(o, u)
      <4>1. \A d \in Op : Called(d, u) => at'[d] = at[d]
        BY <3>1, <1>7
      <4>2. life'[u] = life[u]
        BY <3>1, <1>13
      <4>3. u = v => life[u] # "freed"
        BY <1>11
      <4> QED
        BY <4>1, <4>2, <4>3, <1>7 DEF DeleteInv
    <3>2. CASE Called(o, u)
      <4>1. u = v /\ k = 1 /\ at'[o] = 2
        BY <3>2, <1>7, <1>10
      <4>2. life'[v] = "freed" /\ \A p \in Op : ~ Reading(p, v)' /\ ~ Writing(p, v)'
        BY <3>2, <1>13
      <4>3. \A d \in Op : Called(d, u) => d = o
        BY <3>2, OneDeletes DEF Called
      <4> QED
        BY <3>2, <4>1, <4>2, <4>3, <1>3
    <3> QED
      BY <3>1, <3>2
  <2> QED
    BY <2>1, <2>2, <1>5, <1>6 DEF DeleteInv, Called
<1>26. PendingInv'
  BY <1>5 DEF PendingInv
<1>27. EngineInv'
  BY <1>20, <1>21, <1>22, <1>23, <1>24, <1>25, <1>26
<1>28. \A u \in Var : \/ queue'[u] = queue[u] \/ queue'[u] = <<>>
                      \/ Shorter(queue[u], queue'[u])
  BY <1>13
<1>29. \A p \in Op, u \in Var : Reading(p, u)' => Reading(p, u)
  BY <1>7
<1> HIDE DEF EngineInv
<1> QED
  BY <1>27, <1>28, <1>29


----------------------------------------------------------------------------
(* The invariant is inductive.                                              *)

LEMMA InitStep == Init => EngineInv
<1> SUFFICES ASSUME Init PROVE EngineInv
  OBVIOUS
<1> USE DEF Init
<1>1. TypeOK
  <2>1. NoOpr \in [reads : Seq(Var), writes : Seq(Var), kind : AllKinds]
    BY DEF NoOpr, AllKinds
  <2>2. /\ opr \in [Op -> [reads : Seq(Var), writes : Seq(Var), kind : AllKinds]]
        /\ trigger \in [Op -> Seq(Op)] /\ queue \in [Var -> Seq(Block)]
    BY <2>1
  <2>3. stage \in [Op -> Stage] /\ at \in [Op -> Nat \ {0}] /\ wait \in [Op -> Nat]
    BY DEF Stage
  <2>4. /\ num_pending_reads \in [Var -> Nat \cup {kWriteTriggered}]
        /\ life \in [Var -> {"live", "to_delete", "freed"}]
        /\ cur \in [Thread -> Op \cup {0, ALL}] /\ asleep \in [Thread -> BOOLEAN]
    OBVIOUS
  <2>5. pending \in 0..MaxOps /\ pushed \in 0..MaxOps /\ executed \subseteq Op
    BY OpFacts
  <2> QED
    BY <2>2, <2>3, <2>4, <2>5 DEF TypeOK
<1>2. \A o \in Op : Deps(o) = <<>> /\ DOMAIN Deps(o) = {} /\ Len(Deps(o)) = 0 /\ opr[o].kind = "normal"
  <2>1. <<>> \o <<>> = <<>>
    BY EmptySeq, ConcatEmptySeq
  <2>2. \A o \in Op : opr[o].reads = <<>> /\ opr[o].writes = <<>> /\ opr[o].kind = "normal"
    BY DEF NoOpr
  <2>3. \A o \in Op : Deps(o) = <<>>
    BY <2>1, <2>2, Zenon DEF Deps
  <2>4. DOMAIN <<>> = {} /\ Len(<<>>) = 0
    BY EmptySeq
  <2> QED
    BY <2>2, <2>3, <2>4, Zenon
<1>3. /\ \A o \in Op : \A v : ~ Reading(o, v) /\ ~ Writing(o, v) /\ ~ Unasked(o, v)
      /\ \A o \in Op : \A v : ~ Deletes(o, v)
  BY <1>2 DEF Reading, Writing, Unasked, Deletes
<1>4. \A v \in Var : queue[v] = <<>> /\ DOMAIN queue[v] = {} /\ \A o : ~ Queued(o, v) /\ ~ Blocked(o, v)
  BY DEF Queued, Blocked
<1>5. \A c \in Op : \A o, v : ~ Owes(c, o, v)
  BY DEF Owes, ToSet
<1>6. OprInv
  <2>1. \A o \in Op : IsInjective(Deps(o))
    BY <1>2 DEF IsInjective
  <2> QED
    BY <2>1, <1>2, OpFacts DEF OprInv
<1>7. QueueInv
  <2> SUFFICES ASSUME NEW v \in Var PROVE QueueOf(v)
    BY DEF QueueInv
  <2>1. Readers(v) = {} /\ Cardinality({}) = 0
    BY <1>3, FS_EmptySet DEF Readers
  <2> QED
    BY <2>1, <1>3, <1>4 DEF QueueOf, kWriteTriggered
<1>8. WaitInv
  <2>1. \A o \in Op : Missing(o) = {} /\ Cardinality({}) = 0
    BY <1>3, <1>4, <1>5, FS_EmptySet DEF Missing, Owed
  <2>2. \A o \in Op : Cardinality(Missing(o)) = 0
    BY <2>1, Zenon
  <2> QED
    BY <2>2 DEF WaitInv
<1>9. TriggerInv
  BY <1>5 DEF TriggerInv
<1>10. DeleteInv
  BY <1>3 DEF DeleteInv
<1>11. PendingInv
  <2>1. {o \in Op : stage[o] \in InHand} = {} /\ Cardinality({}) = 0
    BY FS_EmptySet DEF InHand
  <2> QED
    BY <2>1 DEF PendingInv
<1> QED
  BY <1>1, <1>6, <1>7, <1>8, <1>9, <1>10, <1>11 DEF EngineInv

LEMMA NextStep == EngineInv /\ [Next]_vars => EngineInv'
<1> SUFFICES ASSUME EngineInv, [Next]_vars PROVE EngineInv'
  OBVIOUS
<1>1. ASSUME NEW t \in Thread, WaitForAll(t) PROVE EngineInv'
  <2>1. UNCHANGED <<opr, stage, at, wait, trigger, varState, pending, asleep, pushed, running>>
    BY <1>1 DEF WaitForAll
  <2>2. TypeOK'
    BY <1>1, <2>1 DEF WaitForAll, EngineInv, TypeOK, varState, running
  <2> QED
    BY <2>1, <2>2, StillStep DEF running
<1>2. ASSUME NEW t \in Thread, NotifyShutdown(t) PROVE EngineInv'
  <2>1. UNCHANGED <<opr, stage, at, wait, trigger, varState, pending, waiters, pushed, executed,
                   broken>>
    BY <1>2 DEF NotifyShutdown
  <2>2. TypeOK'
    BY <1>2, <2>1 DEF NotifyShutdown, EngineInv, TypeOK, varState, waiters
  <2> QED
    BY <2>1, <2>2, StillStep
<1>3. ASSUME NEW t \in Thread, CheckWait(t) PROVE EngineInv'
  <2>1. UNCHANGED <<opr, stage, at, wait, trigger, varState, pending, pushed, running>>
    BY <1>3 DEF CheckWait
  <2>2. cur' \in [Thread -> Op \cup {0, ALL}] /\ asleep' \in [Thread -> BOOLEAN]
    BY <1>3 DEF CheckWait, EngineInv, TypeOK
  <2>3. TypeOK'
    BY <2>1, <2>2 DEF EngineInv, TypeOK, varState, running
  <2> QED
    BY <2>1, <2>3, StillStep DEF running
<1>4. CASE UNCHANGED vars
  <2>1. TypeOK'
    BY <1>4 DEF vars, EngineInv, TypeOK, varState, waiters, running
  <2> QED
    BY <2>1, <1>4, StillStep DEF vars, running
<1>5. ASSUME NEW t \in Thread, Call(t) PROVE EngineInv'
  BY <1>1, <1>2, <1>5, CallStep DEF Call
<1>6. ASSUME NEW t \in Thread, PushStep(t) PROVE EngineInv'
  BY <1>6, AppendStep, PushEndStep DEF PushStep
<1>7. ASSUME NEW o \in Op, ExecuteOprBlock(o) \/ OnComplete(o) \/ Complete(o) PROVE EngineInv'
  BY <1>7, ExecuteStep, OnCompleteStep, CompleteStep, DecrWaitStep, CompleteEndStep DEF Complete
<1> QED
  BY <1>3, <1>4, <1>5, <1>6, <1>7 DEF Next

----------------------------------------------------------------------------
(* What follows.                                                            *)

\* The queues, read counts, wait counters and triggers of the engine agree after
\* every critical section of every thread.
THEOREM EngineInductive == Spec => []EngineInv
BY InitStep, NextStep, PTL DEF Spec

\* Every variable keeps its declared type.
THEOREM EngineTypes == Spec => []TypeOK
<1>1. EngineInv => TypeOK
  BY DEF EngineInv
<1> QED
  BY <1>1, EngineInductive, PTL

\* A dependency that a completion is about to let go of is in use.
LEMMA CompletesUses ==
    ASSUME TypeOK, NEW o \in Op, NEW v \in Var
    PROVE  /\ Completes(o, v, TRUE) => Writing(o, v) /\ stage[o] = "completing"
           /\ Completes(o, v, FALSE) => Reading(o, v) /\ stage[o] = "completing"
<1>1. at[o] \in Nat \ {0} /\ at[o] <= at[o]
  BY DEF TypeOK
<1>2. ASSUME NEW b \in BOOLEAN, Completes(o, v, b)
      PROVE  /\ stage[o] = "completing" /\ at[o] \in DOMAIN Deps(o) /\ Active(o, at[o])
             /\ Deps(o)[at[o]] = v /\ IsWrite(o, at[o]) = b
  <2>1. at[o] \in DOMAIN Deps(o)
    BY <1>1, <1>2, DepsFacts DEF Completes
  <2> QED
    BY <1>1, <1>2, <2>1 DEF Completes, Active, InHand
<1> QED
  BY <1>2 DEF Reading, Writing

\* The CHECKs and asserts of ThreadedVar never fail, for any number of threads,
\* variables and operations.
THEOREM EngineChecksHold == Spec => []EngineChecks
<1>1. EngineInv => EngineChecks
  <2> SUFFICES ASSUME EngineInv PROVE EngineChecks
    OBVIOUS
  <2> USE DEF EngineInv
  <2>1. ASSUME NEW v \in Var, life[v] # "freed"
        PROVE  IF queue[v] = <<>> THEN num_pending_reads[v] >= 0
               ELSE num_pending_reads[v] # 0 /\ Head(queue[v]).write
    <3>1. num_pending_reads[v] \in Nat \cup {kWriteTriggered}
      BY DEF TypeOK
    <3> QED
      BY <2>1, <3>1, HeadFirst DEF QueueInv, QueueOf
  <2>2. ASSUME NEW o \in Op, NEW v \in Var, Completes(o, v, FALSE) PROVE num_pending_reads[v] > 0
    <3>1. Reading(o, v) /\ ~ Queued(o, v)
      BY <2>2, CompletesUses, Granted
    <3>2. Readers(v) # {}
      BY <3>1 DEF Readers
    <3>3. num_pending_reads[v] # kWriteTriggered /\ Cardinality(Readers(v)) = num_pending_reads[v]
      BY <3>2 DEF QueueInv, QueueOf
    <3>4. Cardinality(Readers(v)) \in Nat /\ Cardinality(Readers(v)) # 0
      BY <3>2, CountedFinite, FS_EmptySet
    <3> QED
      BY <3>3, <3>4
  <2>3. ASSUME NEW o \in Op, NEW v \in Var, Completes(o, v, TRUE)
        PROVE  /\ num_pending_reads[v] = kWriteTriggered
               /\ queue[v] # <<>> /\ Head(queue[v]).op = o
               /\ life[v] = "to_delete" => Len(queue[v]) = 1
    <3>1. First(o, v)
      BY <2>3, CompletesUses, Granted
    <3> QED
      BY <3>1, HeadFirst, LastUse DEF First
  <2> QED
    BY <2>1, <2>2, <2>3 DEF EngineChecks
<1> QED
  BY <1>1, EngineInductive, PTL

\* What an operation that is pushed and not completing has of its variables.
LEMMA HeldUses ==
    ASSUME TypeOK, NEW o \in Op, stage[o] \in {"waiting", "ready", "running"}, NEW v
    PROVE  /\ v \in Writes(o) => Writing(o, v)
           /\ v \in Reads(o) => Reading(o, v)
<1>1. \A i \in DOMAIN Deps(o) : Active(o, i)
  BY DEF Active, InHand
<1> QED
  BY <1>1, DepsFacts DEF Reading, Writing

\* When WaitForVar finds no write in the queue and returns at once, no write of
\* the variable is waiting, ready or running.
THEOREM ReadyMeansWrittenHolds == Spec => []ReadyMeansWritten
<1>1. EngineInv => ReadyMeansWritten
  <2> SUFFICES ASSUME EngineInv, NEW v \in Var, NEW o \in 1..pushed, queue[v] = <<>>, v \in Writes(o)
               PROVE  stage[o] \in {"pushing", "completing", "done"}
    BY DEF ReadyMeansWritten, IsReadyToRead
  <2> USE DEF EngineInv
  <2>1. o \in Op /\ stage[o] \in Stage /\ stage[o] # "none"
    <3>1. o \in Op
      BY OpFacts DEF TypeOK, Op
    <3> QED
      BY <3>1, OpFacts DEF TypeOK, OprInv
  <2>2. ~ Queued(o, v)
    BY BlockFacts DEF Queued
  <2>3. ~ Writing(o, v)
    BY <2>1, <2>2 DEF QueueInv, QueueOf
  <2>4. stage[o] \notin {"waiting", "ready", "running"}
    BY <2>1, <2>3, HeldUses
  <2> QED
    BY <2>1, <2>4 DEF Stage
<1> QED
  BY <1>1, EngineInductive, PTL

\* A freed variable is never touched again, and a finished deletion has freed its
\* variable, also when the process shuts down meanwhile, unless an operation with
\* an exception has written the variable.
THEOREM DeletedLastHolds == Spec => []DeletedLast
<1>1. EngineInv => DeletedLast
  <2> SUFFICES ASSUME EngineInv, NEW v \in Var, NEW o \in 1..pushed
               PROVE  /\ life[v] = "freed" /\ v \in Reads(o) \cup Writes(o) =>
                           /\ stage[o] \in {"completing", "done"}
                           /\ \A i \in at[o]..Len(Deps(o)) : stage[o] = "completing" => Deps(o)[i] # v
                      /\ opr[o].kind = "delete" /\ stage[o] = "done" /\ v \in Writes(o) \ broken =>
                           life[v] = "freed"
    BY DEF DeletedLast
  <2> USE DEF EngineInv
  <2>1. o \in Op /\ stage[o] \in Stage /\ stage[o] # "none" /\ at[o] \in Nat \ {0}
    <3>1. o \in Op
      BY OpFacts DEF TypeOK, Op
    <3> QED
      BY <3>1, OpFacts DEF TypeOK, OprInv
  <2>2. ASSUME life[v] = "freed", v \in Reads(o) \cup Writes(o)
        PROVE  /\ stage[o] \in {"completing", "done"}
               /\ \A i \in at[o]..Len(Deps(o)) : stage[o] = "completing" => Deps(o)[i] # v
    <3>1. ~ Reading(o, v) /\ ~ Writing(o, v)
      BY <2>1, <2>2 DEF DeleteInv
    <3>2. stage[o] \notin {"waiting", "ready", "running"}
      BY <2>1, <2>2, <3>1, HeldUses
    <3>3. stage[o] # "pushing"
      <4>1. PICK d \in Op : Deletes(d, v) /\ stage[d] \in {"completing", "done"}
        BY <2>2 DEF DeleteInv, Called
      <4>2. v \in ToSet(Deps(o))
        BY <2>1, <2>2, DepsFacts DEF ToSet
      <4> QED
        BY <2>1, <4>1, <4>2 DEF DeleteInv
    <3>4. ASSUME NEW i \in at[o]..Len(Deps(o)), stage[o] = "completing" PROVE Deps(o)[i] # v
      <4>1. i \in DOMAIN Deps(o) /\ i >= at[o]
        BY <2>1, <3>4, DepsFacts
      <4>2. Active(o, i)
        BY <3>4, <4>1 DEF Active, InHand
      <4> QED
        BY <3>1, <4>1, <4>2 DEF Reading, Writing
    <3> QED
      BY <2>1, <3>2, <3>3, <3>4 DEF Stage
  <2>3. ASSUME opr[o].kind = "delete", stage[o] = "done", v \in Writes(o) \ broken
        PROVE  life[v] = "freed"
    <3>1. Deletes(o, v) /\ Len(Deps(o)) = 1
      BY <2>1, <2>3, DeleteFacts DEF Deletes
    <3>2. at[o] = 2
      <4>1. at[o] = Len(Deps(o)) + 1
        BY <2>1, <2>3 DEF OprInv
      <4>2. at[o] = 1 + 1
        BY <3>1, <4>1, Zenon
      <4> QED
        BY <4>2
    <3> QED
      BY <2>1, <2>3, <3>1, <3>2 DEF DeleteInv, Called
  <2> QED
    BY <2>2, <2>3
<1> QED
  BY <1>1, EngineInductive, PTL


\* What a running operation writes, no other running operation reads or writes:
\* the engine serializes conflicts, whatever threads push the operations.
THEOREM NoRacesHolds == Spec => []NoRaces
<1>1. EngineInv => NoRaces
  <2> SUFFICES ASSUME EngineInv, NEW o \in Op, NEW p \in Op, o # p,
                      stage[o] = "running", stage[p] = "running",
                      NEW v \in Writes(o), v \in Reads(p) \cup Writes(p)
               PROVE  FALSE
    BY DEF NoRaces
  <2> USE DEF EngineInv
  <2>1. v \in Var
    BY DepsFacts
  <2>2. First(o, v)
    BY <2>1, HeldUses, Granted
  <2>3. CASE v \in Writes(p)
    <3>1. First(p, v)
      BY <2>1, <2>3, HeldUses, Granted
    <3> QED
      BY <2>2, <3>1 DEF First
  <2>4. CASE v \in Reads(p)
    <3>1. p \in Readers(v)
      BY <2>1, <2>4, HeldUses, Granted DEF Readers
    <3> QED
      BY <2>1, <2>2, <3>1 DEF First, QueueInv, QueueOf
  <2> QED
    BY <2>3, <2>4
<1> QED
  BY <1>1, EngineInductive, PTL


----------------------------------------------------------------------------
(* One thread pushes: operations run in the order of their dependencies.    *)

SinglePusher == \A s, t \in Thread : s = t

\* Only the newest operation is being pushed, by the thread; the queues are in the
\* order of pushing, and the readers of a variable come before its queue.
PushInv == \A o \in Op : stage[o] = "pushing" => o = pushed /\ \A t \in Thread : cur[t] = o
SortedOf(v) == \A j, k \in DOMAIN queue[v] : j < k => queue[v][j].op < queue[v][k].op
ReadersOf(v) == \A r \in Readers(v), j \in DOMAIN queue[v] : r < queue[v][j].op
OrderInv == PushInv /\ \A v \in Var : SortedOf(v) /\ ReadersOf(v)

\* What a running operation conflicts with and was pushed before it is finished.
Clash(p, o) == \/ Writes(p) \cap (Reads(o) \cup Writes(o)) # {}
               \/ Reads(p) \cap Writes(o) # {}
InOrder == \A o \in Op : stage[o] = "running" =>
               \A p \in 1..(o - 1) : Clash(p, o) => stage[p] \in {"completing", "done"}


\* The end of a sorted queue, and who was before it.
Sorted(q) == \A j, k \in DOMAIN q : j < k => q[j].op < q[k].op

LEMMA SortedEnd ==
    ASSUME NEW q \in Seq(Block), NEW r \in Seq(Block), Shorter(q, r), Sorted(q)
    PROVE  /\ Sorted(r)
           /\ \A k \in DOMAIN r : \E j \in DOMAIN q : r[k] = q[j]
           /\ \A i \in DOMAIN q : \/ \E k \in DOMAIN r : r[k].op = q[i].op
                                  \/ \A k \in DOMAIN r : q[i].op < r[k].op
<1>1. PICK m \in Nat : /\ Len(q) = Len(r) + m
                       /\ \A j \in DOMAIN r : j + m \in DOMAIN q /\ r[j] = q[j + m]
  BY DEF Shorter
<1>2. /\ Len(q) \in Nat /\ DOMAIN q = 1..Len(q)
      /\ Len(r) \in Nat /\ DOMAIN r = 1..Len(r)
  BY LenProperties
<1>3. ASSUME NEW j \in DOMAIN r, NEW k \in DOMAIN r, j < k PROVE r[j].op < r[k].op
  <2>1. j + m < k + m
    BY <1>2, <1>3
  <2> QED
    BY <2>1, <1>1 DEF Sorted
<1>4. ASSUME NEW i \in DOMAIN q, NEW k \in DOMAIN r, ~ (q[i].op < r[k].op)
      PROVE  \E l \in DOMAIN r : r[l].op = q[i].op
  <2>1. ~ (i < k + m)
    BY <1>1, <1>4 DEF Sorted
  <2>2. i - m \in DOMAIN r /\ (i - m) + m = i
    BY <2>1, <1>1, <1>2
  <2>3. r[i - m] = q[i]
    BY <2>2, <1>1
  <2> QED
    BY <2>2, <2>3
<1> QED
  BY <1>1, <1>3, <1>4 DEF Sorted

\* A variable from whose queue only the front is taken.
LEMMA OrderFrame ==
    ASSUME TypeOK, NEW v \in Var, SortedOf(v), ReadersOf(v), queue'[v] \in Seq(Block),
           queue'[v] = queue[v] \/ queue'[v] = <<>> \/ Shorter(queue[v], queue'[v]),
           \A p \in Op : Reading(p, v)' => Reading(p, v)
    PROVE  SortedOf(v)' /\ ReadersOf(v)'
<1>1. CASE queue'[v] = queue[v]
  <2>1. \A r : r \in Readers(v)' => r \in Readers(v)
    BY <1>1 DEF Readers, Queued
  <2> QED
    BY <1>1, <2>1 DEF SortedOf, ReadersOf
<1>2. CASE queue'[v] = <<>>
  <2>1. DOMAIN queue'[v] = {}
    BY <1>2
  <2> QED
    BY <2>1 DEF SortedOf, ReadersOf
<1>3. CASE Shorter(queue[v], queue'[v])
  <2>1. PICK q \in Seq(Block) : q = queue[v]
    BY BlockFacts
  <2>2. PICK z \in Seq(Block) : z = queue'[v]
    OBVIOUS
  <2>3. Sorted(q) /\ Shorter(q, z)
    BY <1>3, <2>1, <2>2 DEF SortedOf, Sorted
  <2>4. /\ Sorted(z)
        /\ \A k \in DOMAIN z : \E j \in DOMAIN q : z[k] = q[j]
        /\ \A i \in DOMAIN q : \/ \E k \in DOMAIN z : z[k].op = q[i].op
                               \/ \A k \in DOMAIN z : q[i].op < z[k].op
    BY <2>3, SortedEnd
  <2>5. SortedOf(v)'
    BY <2>2, <2>4 DEF SortedOf, Sorted
  <2>6. ASSUME NEW r \in Readers(v)', NEW k \in DOMAIN z PROVE r < z[k].op
    <3>1. r \in Op /\ Reading(r, v) /\ ~ \E i \in DOMAIN z : z[i].op = r
      BY <2>2, <2>6 DEF Readers, Queued
    <3>2. CASE Queued(r, v)
      <4>1. PICK i \in DOMAIN q : q[i].op = r
        BY <3>2, <2>1 DEF Queued
      <4> QED
        BY <3>1, <4>1, <2>4, <2>6
    <3>3. CASE ~ Queued(r, v)
      <4>1. r \in Readers(v)
        BY <3>1, <3>3 DEF Readers
      <4>2. PICK j \in DOMAIN q : z[k] = q[j]
        BY <2>4, <2>6
      <4> QED
        BY <4>1, <4>2, <2>1 DEF ReadersOf
    <3> QED
      BY <3>2, <3>3
  <2>7. ReadersOf(v)'
    BY <2>2, <2>6 DEF ReadersOf
  <2> QED
    BY <2>5, <2>7
<1> QED
  BY <1>1, <1>2, <1>3

\* Who uses a variable has been pushed.
LEMMA UsersPushed ==
    ASSUME EngineInv, NEW o \in Op, NEW v, Reading(o, v) \/ Writing(o, v)
    PROVE  o <= pushed
<1>1. stage[o] # "none"
  BY DEF Reading, Writing, Active, InHand
<1> QED
  BY <1>1, OpFacts DEF EngineInv, OprInv, TypeOK

\* The operation that is being pushed joins the end of a queue.
LEMMA OrderAppend ==
    ASSUME EngineInv, OrderInv, NEW t \in Thread, AppendDependency(t), NEW u \in Var
    PROVE  SortedOf(u)' /\ ReadersOf(u)'
<1> USE DEF EngineInv
<1>1. PICK o \in Op : o = cur[t]
  BY DEF AppendDependency
<1>2. PICK k \in Nat : k = at[o]
  BY DEF TypeOK
<1>3. stage[o] = "pushing" /\ k <= Len(Deps(o)) /\ k \in DOMAIN Deps(o)
  <2>1. stage[o] = "pushing" /\ k <= Len(Deps(o)) /\ k # 0
    BY <1>1, <1>2 DEF AppendDependency, TypeOK
  <2> QED
    BY <2>1, <1>2, DepsFacts
<1>4. PICK v \in Var : v = Deps(o)[k]
  BY <1>3, DepsFacts
<1>5. /\ IF IsWrite(o, k) THEN AppendWriteDependency(v, o) ELSE AppendReadDependency(v, o)
      /\ at' = [at EXCEPT ![o] = @ + 1]
      /\ opr' = opr /\ stage' = stage /\ pushed' = pushed
  BY <1>1, <1>2, <1>4 DEF AppendDependency
<1>6. /\ \A p \in Op, x \in Var : p # o \/ x # v => (Reading(p, x)' <=> Reading(p, x))
      /\ ~ Reading(o, v) /\ ~ Writing(o, v)
  BY <1>2, <1>3, <1>4, <1>5, AdvanceFacts
<1>7. o = pushed /\ ~ Queued(o, v)
  BY <1>3, <1>6, QueuedUses DEF OrderInv, PushInv
<1>8. PICK b \in Block : b = [op |-> o, write |-> IsWrite(o, k)]
  BY DepsFacts DEF Block
<1>9. \/ queue' = queue /\ queue[v] = <<>>
      \/ queue' = [queue EXCEPT ![v] = Append(@, b)]
  <2>1. CASE IsWrite(o, k)
    <3>1. b = [op |-> o, write |-> TRUE]
      BY <1>8, <2>1
    <3> QED
      BY <1>5, <2>1, <3>1 DEF AppendWriteDependency, Enqueue
  <2>2. CASE ~ IsWrite(o, k)
    <3>1. b = [op |-> o, write |-> FALSE]
      BY <1>8, <2>2, DepsFacts
    <3> QED
      BY <1>5, <2>2, <3>1 DEF AppendReadDependency, Enqueue, IsReadyToRead
  <2> QED
    BY <2>1, <2>2
<1>10. CASE u # v
  <2>1. queue'[u] = queue[u] /\ queue'[u] \in Seq(Block)
    BY <1>9, <1>10, BlockFacts DEF TypeOK
  <2>2. \A p \in Op : Reading(p, u)' => Reading(p, u)
    BY <1>6, <1>10
  <2>3. SortedOf(u) /\ ReadersOf(u)
    BY DEF OrderInv
  <2> QED
    BY <2>1, <2>2, <2>3, OrderFrame
<1>11. CASE u = v /\ queue'[v] = <<>>
  <2>1. DOMAIN queue'[u] = {}
    BY <1>11
  <2> QED
    BY <2>1 DEF SortedOf, ReadersOf
<1>12. CASE u = v /\ queue'[v] = Append(queue[v], b)
  <2>1. PICK q \in Seq(Block) : q = queue[v]
    BY BlockFacts
  <2>2. PICK z : z = Append(q, b)
    OBVIOUS
  <2>3. /\ Len(q) \in Nat /\ DOMAIN q = 1..Len(q) /\ DOMAIN z = 1..(Len(q) + 1)
        /\ \A i \in 1..Len(q) : z[i] = q[i]
        /\ z[Len(q) + 1] = b /\ b.op = o
    <3>1. z \in Seq(Block) /\ Len(z) = Len(q) + 1
          /\ (\A i \in 1..Len(q) : z[i] = q[i]) /\ z[Len(q) + 1] = b
      BY <2>2, AppendProperties
    <3> QED
      BY <3>1, <1>8, LenProperties
  <2>4. queue'[v] = z
    BY <1>12, <2>1, <2>2
  <2>5. \A p \in Op : p # o /\ (Reading(p, v) \/ Writing(p, v)) => p < o
    BY <1>7, UsersPushed, OpFacts
  <2>6. \A j \in DOMAIN q : q[j].op \in Op /\ q[j].op < o
    <3> TAKE j \in DOMAIN q
    <3>1. q[j].op \in Op /\ Queued(q[j].op, v)
      BY <2>1, BlockFacts DEF Queued
    <3>2. q[j].op # o
      BY <3>1, <1>7
    <3> QED
      BY <3>1, <3>2, <2>5, QueuedUses
  <2>7. \A i, j \in DOMAIN q : i < j => q[i].op < q[j].op
    BY <2>1 DEF OrderInv, SortedOf
  <2>8. ASSUME NEW i \in DOMAIN z, NEW j \in DOMAIN z, i < j PROVE z[i].op < z[j].op
    <3>1. CASE j = Len(q) + 1
      BY <2>3, <2>6, <2>8, <3>1
    <3>2. CASE j # Len(q) + 1
      BY <2>3, <2>7, <2>8, <3>2
    <3> QED
      BY <3>1, <3>2
  <2>9. ASSUME NEW r \in Readers(v)', NEW j \in DOMAIN z PROVE r < z[j].op
    <3>1. r \in Op /\ Reading(r, v)' /\ \A i \in DOMAIN z : z[i].op # r
      BY <2>4, <2>9 DEF Readers, Queued
    <3>2. r # o
      BY <3>1, <2>3
    <3>3. Reading(r, v)
      BY <3>1, <3>2, <1>6
    <3>4. r \in Readers(v)
      <4>1. \A i \in DOMAIN q : q[i].op # r
        BY <3>1, <2>3
      <4> QED
        BY <3>1, <3>3, <4>1, <2>1 DEF Readers, Queued
    <3>5. \A i \in DOMAIN q : r < q[i].op
      BY <3>4, <2>1 DEF OrderInv, ReadersOf
    <3>6. CASE j = Len(q) + 1
      BY <3>1, <3>2, <3>3, <3>6, <2>3, <2>5
    <3>7. CASE j # Len(q) + 1
      BY <3>5, <3>7, <2>3
    <3> QED
      BY <3>6, <3>7
  <2> QED
    BY <1>12, <2>4, <2>8, <2>9 DEF SortedOf, ReadersOf
<1> QED
  BY <1>9, <1>10, <1>11, <1>12 DEF TypeOK


\* The calls that push an operation.
LEMMA PushCalls ==
    ASSUME NEW t \in Thread, PushAsync(t) \/ DeleteVariable(t) \/ WaitForVar(t)
    PROVE  \E r, w \in Seq(Var), kind \in AllKinds : Push(t, r, w, kind)
<1>0. Usable \subseteq Var /\ {"normal", "no_skip", "delete", "wait"} \subseteq AllKinds
  BY DEF Usable, AllKinds
<1>1. CASE PushAsync(t)
  <2>1. PICK kind \in {"normal", "no_skip"}, r \in SUBSET Usable, w \in SUBSET Usable :
          \E rs \in SetToSeqs(r), ws \in SetToSeqs(w) : Push(t, rs, ws, kind)
    BY <1>1 DEF PushAsync
  <2>2. PICK rs \in SetToSeqs(r), ws \in SetToSeqs(w) : Push(t, rs, ws, kind)
    BY <2>1
  <2>3. r \in SUBSET Var /\ w \in SUBSET Var
    BY <1>0
  <2>4. rs \in Seq(Var) /\ ws \in Seq(Var)
    BY <2>3, ArgumentSeq
  <2> QED
    BY <1>0, <2>2, <2>4
<1>2. CASE DeleteVariable(t)
  <2>1. PICK v \in Usable : Push(t, <<>>, <<v>>, "delete")
    BY <1>2 DEF DeleteVariable
  <2>2. <<>> \in Seq(Var) /\ <<v>> \in Seq(Var)
    BY <1>0
  <2> QED
    BY <1>0, <2>1, <2>2
<1>3. CASE WaitForVar(t)
  <2>1. PICK v \in Usable : Push(t, <<v>>, <<>>, "wait")
    BY <1>3 DEF WaitForVar
  <2>2. <<>> \in Seq(Var) /\ <<v>> \in Seq(Var)
    BY <1>0
  <2> QED
    BY <1>0, <2>1, <2>2
<1> QED
  BY <1>1, <1>2, <1>3

\* Steps that ask for nothing new.
LEMMA ReadingFrame ==
    ASSUME opr' = opr,
           \A p \in Op : \A i \in DOMAIN Deps(p) : Active(p, i)' => Active(p, i)
    PROVE  \A p \in Op, v \in Var : Reading(p, v)' => Reading(p, v)
BY OprFrame DEF Reading

\* The decremented operation waits, and only the last decrement makes it ready.
LEMMA DecrementWaits ==
    ASSUME EngineInv, NEW o \in Op, DecrWait(o)
    PROVE  \E p \in Op : /\ stage[p] = "waiting" \/ (stage[p] = "pushing" /\ wait[p] # 1)
                         /\ stage' = [stage EXCEPT ![p] = IF wait[p] = 1 THEN "ready" ELSE @]
<1> USE DEF EngineInv
<1>1. trigger[o] # <<>> /\ trigger[o] \in Seq(Op) /\ IsInjective(trigger[o])
  BY DEF DecrWait, TypeOK, TriggerInv
<1>2. PICK p \in Op : p = Head(trigger[o])
  BY <1>1, TailSet
<1>3. stage' = [stage EXCEPT ![p] = IF wait[p] = 1 THEN "ready" ELSE @]
  BY <1>2 DEF DecrWait
<1>4. PICK v \in Var : v = Served(o)
  BY <1>1, ServedFacts
<1>5. Owed(p, v)
  BY <1>1, <1>2, <1>4, TailSet DEF Owed, Owes
<1>6. stage[p] \in {"pushing", "waiting"}
  BY <1>5, Granted
<1>7. stage[p] = "pushing" => wait[p] # 1
  <2>1. v \in Missing(p) /\ IsFiniteSet(Missing(p)) /\ Cardinality(Missing(p)) \in Nat
    BY <1>5, CountedFinite DEF Missing
  <2>2. Cardinality(Missing(p)) # 0
    BY <2>1, FS_EmptySet
  <2> QED
    BY <2>1, <2>2 DEF WaitInv
<1>8. stage[p] = "waiting" \/ (stage[p] = "pushing" /\ wait[p] # 1)
  BY <1>6, <1>7
<1> QED
  BY <1>3, <1>8, Zenon

LEMMA OrderStep ==
    ASSUME SinglePusher, EngineInv, EngineInv', OrderInv, [Next]_vars
    PROVE  OrderInv'
<1> USE DEF SinglePusher
<1>1. /\ TypeOK /\ OprInv /\ PushInv /\ queue' \in [Var -> Seq(Block)]
      /\ \A v \in Var : SortedOf(v) /\ ReadersOf(v)
      /\ pushed \in Nat /\ stage \in [Op -> Stage] /\ at \in [Op -> Nat \ {0}]
  BY OpFacts DEF EngineInv, OrderInv, TypeOK
<1>2. ASSUME queue' = queue, \A p \in Op, v \in Var : Reading(p, v)' => Reading(p, v), NEW v \in Var
      PROVE  SortedOf(v)' /\ ReadersOf(v)'
  BY <1>1, <1>2, OrderFrame
<1>3. ASSUME opr' = opr, stage' = stage, at' = at
      PROVE  \A p \in Op, v \in Var : Reading(p, v)' => Reading(p, v)
  BY <1>3, OprFrame DEF Reading, Active
<1>4. ASSUME pushed' = pushed, cur' = cur, \A o \in Op : stage'[o] = "pushing" => stage[o] = "pushing"
      PROVE  PushInv'
  BY <1>1, <1>4 DEF PushInv
<1>5. ASSUME NEW t \in Thread, WaitForAll(t) PROVE OrderInv'
  <2>1. /\ cur[t] = 0 /\ queue' = queue
        /\ opr' = opr /\ stage' = stage /\ at' = at
    BY <1>5 DEF WaitForAll, varState
  <2>2. \A o \in Op : stage[o] # "pushing"
    BY <1>1, <2>1, OpFacts DEF PushInv
  <2>3. PushInv'
    BY <2>1, <2>2 DEF PushInv
  <2> QED
    BY <1>2, <1>3, <2>1, <2>3 DEF OrderInv
<1>6. ASSUME NEW t \in Thread, CheckWait(t) PROVE OrderInv'
  <2>1. /\ queue' = queue /\ opr' = opr /\ stage' = stage /\ at' = at
    BY <1>6 DEF CheckWait, varState
  <2>2. ASSUME NEW o \in Op, stage[o] = "pushing" PROVE FALSE
    <3>1. cur[t] = o /\ o # ALL
      BY <1>1, <2>2, OpFacts DEF PushInv
    <3>2. cur[t] = ALL \/ stage[cur[t]] # "pushing"
      BY <1>6, Zenon DEF CheckWait
    <3> QED
      BY <3>1, <3>2, <2>2
  <2>3. PushInv'
    BY <2>1, <2>2 DEF PushInv
  <2> QED
    BY <1>2, <1>3, <2>1, <2>3 DEF OrderInv
<1>7. ASSUME (\E t \in Thread : NotifyShutdown(t)) \/ UNCHANGED vars PROVE OrderInv'
  <2>1. UNCHANGED <<queue, opr, stage, at, pushed, cur>>
    BY <1>7 DEF NotifyShutdown, varState, waiters, vars
  <2> QED
    BY <1>2, <1>3, <1>4, <2>1 DEF OrderInv
<1>8. ASSUME NEW t \in Thread, PushAsync(t) \/ DeleteVariable(t) \/ WaitForVar(t) PROVE OrderInv'
  <2>1. PICK r \in Seq(Var), w \in Seq(Var), kind \in AllKinds : Push(t, r, w, kind)
    BY <1>8, PushCalls
  <2>2. PICK n : n = pushed + 1
    OBVIOUS
  <2>3. /\ cur[t] = 0 /\ pushed < MaxOps /\ pushed' = n
        /\ opr' = [opr EXCEPT ![n] = [reads |-> r, writes |-> w, kind |-> kind]]
        /\ stage' = [stage EXCEPT ![n] = "pushing"] /\ cur' = [cur EXCEPT ![t] = n]
        /\ at' = at /\ queue' = queue
    BY <2>1, <2>2 DEF Push, varState
  <2>4. n \in Op
    BY <1>1, <2>2, <2>3, OpFacts DEF Op
  <2>5. \A o \in Op : stage[o] # "pushing"
    BY <1>1, <2>3, OpFacts DEF PushInv
  <2>6. PushInv'
    <3>1. \A o \in Op : stage'[o] = "pushing" => o = n
      BY <1>1, <2>3, <2>5
    <3>2. cur'[t] = n
      BY <2>3 DEF EngineInv, TypeOK
    <3> QED
      BY <3>1, <3>2, <2>3 DEF PushInv
  <2>7. ASSUME NEW p \in Op, NEW v \in Var, Reading(p, v)' PROVE Reading(p, v)
    <3>1. CASE p = n
      <4>1. stage[n] = "none"
        BY <1>1, <2>2, <2>4 DEF OprInv
      <4>2. at'[n] = 1 /\ stage'[n] = "pushing"
        BY <1>1, <2>3, <2>4, <4>1 DEF OprInv
      <4>3. PICK i \in DOMAIN Deps(n)' : i < at'[n]
        BY <2>7, <3>1, <4>2 DEF Reading, Active
      <4>4. i \in Nat \ {0}
        <5>1. TypeOK' /\ n \in Op
          BY <2>4 DEF EngineInv
        <5>2. opr'[n].reads \in Seq(Var) /\ opr'[n].writes \in Seq(Var)
          BY <5>1 DEF TypeOK
        <5>3. Deps(n)' \in Seq(Var)
          BY <5>2, ConcatProperties DEF Deps
        <5> QED
          BY <5>3, <4>3, LenProperties
      <4> QED
        BY <4>2, <4>3, <4>4
    <3>2. CASE p # n
      <4>1. opr'[p] = opr[p] /\ stage'[p] = stage[p] /\ at'[p] = at[p]
        BY <2>3, <3>2 DEF EngineInv, TypeOK
      <4> QED
        BY <2>7, <4>1 DEF Reading, Active, Deps, IsWrite
    <3> QED
      BY <3>1, <3>2
  <2> QED
    BY <1>2, <2>3, <2>6, <2>7 DEF OrderInv
<1>9. ASSUME NEW t \in Thread, AppendDependency(t) PROVE OrderInv'
  <2>1. pushed' = pushed /\ cur' = cur /\ stage' = stage
    BY <1>9 DEF AppendDependency, waiters
  <2> QED
    BY <1>4, <1>9, <2>1, OrderAppend DEF OrderInv
<1>10. ASSUME NEW t \in Thread, PushEnd(t) PROVE OrderInv'
  <2>1. PICK o \in Op : o = cur[t]
    BY <1>10 DEF PushEnd
  <2>2. /\ stage[o] = "pushing" /\ at[o] > Len(Deps(o)) /\ queue' = queue /\ opr' = opr
        /\ stage'[o] \in {"running", "ready", "waiting"}
        /\ \A p \in Op : p # o => stage'[p] = stage[p] /\ at'[p] = at[p]
    BY <1>1, <1>10, <2>1 DEF PushEnd, varState
  <2>3. \A p \in Op : stage'[p] # "pushing"
    BY <1>1, <2>1, <2>2 DEF PushInv
  <2>4. \A i \in DOMAIN Deps(o) : Active(o, i)
    <3>1. \A i \in DOMAIN Deps(o) : i < at[o]
      BY <1>1, <2>2, DepsFacts
    <3> QED
      BY <2>2, <3>1 DEF Active, InHand
  <2>5. \A p \in Op : \A i \in DOMAIN Deps(p) : Active(p, i)' => Active(p, i)
    BY <2>2, <2>4, OprFrame DEF Active
  <2> QED
    BY <1>2, <2>2, <2>3, <2>5, ReadingFrame DEF OrderInv, PushInv
<1>11. ASSUME NEW o \in Op, ExecuteOprBlock(o) \/ OnComplete(o) \/ CompleteEnd(o) PROVE OrderInv'
  <2>1. /\ queue' = queue /\ opr' = opr /\ at' = at /\ pushed' = pushed
        /\ \A p \in Op : p # o => stage'[p] = stage[p]
        /\ \/ stage[o] = "ready" /\ stage'[o] = "running"
           \/ stage[o] = "running" /\ stage'[o] = "completing"
           \/ stage[o] = "completing" /\ stage'[o] = "done"
    BY <1>1, <1>11 DEF ExecuteOprBlock, OnComplete, CompleteEnd, varState
  <2>2. \A p \in Op : \A i \in DOMAIN Deps(p) : Active(p, i)' => Active(p, i)
    BY <2>1, OprFrame DEF Active, InHand
  <2>3. ASSUME NEW p \in Op, stage'[p] = "pushing", NEW t \in Thread PROVE p = pushed' /\ cur'[t] = p
    <3>1. stage[p] = "pushing" /\ p # o
      BY <2>1, <2>3
    <3>2. p = pushed /\ cur[t] = p
      BY <3>1, <1>1 DEF PushInv
    <3>3. cur' = cur \/ cur'[t] = IF cur[t] = o /\ opr[o].kind = "delete" THEN 0 ELSE cur[t]
      BY <1>11 DEF ExecuteOprBlock, OnComplete, CompleteEnd, waiters
    <3> QED
      BY <3>1, <3>2, <3>3, <2>1
  <2>4. \A p \in Op : stage'[p] = "pushing" => p = pushed'
    BY <2>1, <1>1 DEF PushInv
  <2> QED
    BY <1>2, <2>1, <2>2, <2>3, <2>4, ReadingFrame DEF OrderInv, PushInv
<1>12. ASSUME NEW o \in Op, DecrWait(o) PROVE OrderInv'
  <2>1. /\ queue' = queue /\ opr' = opr /\ at' = at /\ pushed' = pushed /\ cur' = cur
    BY <1>12 DEF DecrWait, varState, waiters
  <2>2. PICK p \in Op : /\ stage[p] = "waiting" \/ (stage[p] = "pushing" /\ wait[p] # 1)
                        /\ stage' = [stage EXCEPT ![p] = IF wait[p] = 1 THEN "ready" ELSE @]
    BY <1>12, DecrementWaits
  <2>3. /\ \A q \in Op : q # p => stage'[q] = stage[q]
        /\ stage'[p] = stage[p] \/ (stage[p] = "waiting" /\ stage'[p] = "ready")
    <3>1. stage'[p] = IF wait[p] = 1 THEN "ready" ELSE stage[p]
      BY <1>1, <2>2
    <3> QED
      BY <1>1, <2>2, <3>1
  <2>4. \A q \in Op : \A i \in DOMAIN Deps(q) : Active(q, i)' => Active(q, i)
    BY <2>1, <2>3, OprFrame DEF Active, InHand
  <2>5. \A q \in Op : stage'[q] = "pushing" => stage[q] = "pushing"
    BY <2>3
  <2> QED
    BY <1>2, <1>4, <2>1, <2>4, <2>5, ReadingFrame DEF OrderInv
<1>13. ASSUME NEW o \in Op, CompleteDependency(o) PROVE OrderInv'
  <2>1. pushed' = pushed /\ cur' = cur /\ stage' = stage
    BY <1>13 DEF CompleteDependency, waiters
  <2>2. \A v \in Var : SortedOf(v)' /\ ReadersOf(v)'
    BY <1>1, <1>13, CompleteStep, OrderFrame
  <2> QED
    BY <1>4, <2>1, <2>2 DEF OrderInv
<1> QED
  BY <1>5, <1>6, <1>7, <1>8, <1>9, <1>10, <1>11, <1>12, <1>13 DEF Next, Call, PushStep, Complete

LEMMA OrderInit == Init => OrderInv
<1> SUFFICES ASSUME Init PROVE OrderInv
  OBVIOUS
<1>1. PushInv
  BY DEF Init, PushInv
<1>2. \A v \in Var : DOMAIN queue[v] = {}
  BY DEF Init
<1> QED
  BY <1>1, <1>2 DEF OrderInv, SortedOf, ReadersOf


\* An operation that runs comes after whatever it conflicts with.
LEMMA InOrderHolds == EngineInv /\ OrderInv => InOrder
<1> SUFFICES ASSUME EngineInv, OrderInv, NEW o \in Op, stage[o] = "running",
                    NEW p \in 1..(o - 1), Clash(p, o)
             PROVE  stage[p] \in {"completing", "done"}
  BY DEF InOrder
<1> USE DEF EngineInv
<1>1. p \in Op /\ p < o /\ o \in Nat /\ p \in Nat
  BY OpFacts DEF Op
<1>2. o <= pushed /\ pushed \in Nat
  BY OpFacts DEF OprInv, TypeOK
<1>3. stage[p] # "none" /\ stage[p] # "pushing" /\ stage[p] \in Stage
  BY <1>1, <1>2 DEF OprInv, OrderInv, PushInv, TypeOK
<1> SUFFICES ASSUME stage[p] \in {"waiting", "ready", "running"} PROVE FALSE
  BY <1>3 DEF Stage
<1>4. PICK v : \/ v \in Writes(o) /\ v \in Writes(p)
               \/ v \in Writes(o) /\ v \in Reads(p)
               \/ v \in Reads(o) /\ v \in Writes(p)
  BY DEF Clash
<1>5. v \in Var
  BY <1>4, DepsFacts
<1>6. /\ v \in Writes(o) => First(o, v)
      /\ v \in Reads(o) => Reading(o, v) /\ ~ Queued(o, v)
      /\ v \in Writes(p) => Writing(p, v)
      /\ v \in Reads(p) => Reading(p, v)
  BY <1>1, <1>5, HeldUses, Granted
<1>7. QueueOf(v) /\ SortedOf(v) /\ ReadersOf(v)
  BY <1>5 DEF QueueInv, OrderInv
<1>8. ASSUME First(o, v), Queued(p, v) PROVE FALSE
  <2>1. PICK j \in DOMAIN queue[v] : queue[v][j].op = p
    BY <1>8 DEF Queued
  <2>2. queue[v][1].op = o /\ 1 \in DOMAIN queue[v] /\ 1 < j
    BY <1>1, <1>5, <1>8, <2>1, BlockFacts DEF First
  <2> QED
    BY <1>1, <1>7, <2>1, <2>2 DEF SortedOf
<1>9. CASE v \in Writes(o) /\ v \in Writes(p)
  BY <1>1, <1>6, <1>7, <1>8, <1>9 DEF QueueOf
<1>10. CASE v \in Writes(o) /\ v \in Reads(p)
  <2>1. p \notin Readers(v)
    BY <1>6, <1>7, <1>10 DEF First, QueueOf
  <2> QED
    BY <1>1, <1>6, <1>8, <1>10, <2>1 DEF Readers
<1>11. CASE v \in Reads(o) /\ v \in Writes(p)
  <2>1. o \in Readers(v)
    BY <1>6, <1>11 DEF Readers
  <2>2. PICK j \in DOMAIN queue[v] : queue[v][j].op = p
    BY <1>1, <1>6, <1>7, <1>11 DEF QueueOf, Queued
  <2> QED
    BY <1>1, <1>7, <2>1, <2>2 DEF ReadersOf
<1> QED
  BY <1>4, <1>9, <1>10, <1>11

\* What operations look like to those who push them.
LEMMA PhaseFacts ==
    ASSUME TypeOK, NEW o \in Op
    PROVE  /\ Phase(o) = "none" <=> stage[o] = "none"
           /\ Phase(o) = "issued" <=> stage[o] \in {"pushing", "waiting", "ready"}
           /\ Phase(o) = "running" <=> stage[o] = "running"
           /\ Phase(o) = "finished" <=> stage[o] \in {"completing", "done"}
BY DEF TypeOK, Stage, Phase

\* A step that leaves the stage of all operations but o alone.
LEMMA PhaseStep ==
    ASSUME NEW o \in Op, NEW f, opr' = opr, pushed' = pushed,
           \A p \in Op : p # o => stage'[p] = stage[p], Phase(o)' = f
    PROVE  /\ [p \in Op |-> Phase(p)]' = [[p \in Op |-> Phase(p)] EXCEPT ![o] = f]
           /\ [p \in Op |-> Reads(p)]' = [p \in Op |-> Reads(p)]
           /\ [p \in Op |-> Writes(p)]' = [p \in Op |-> Writes(p)]
<1>1. \A p \in Op : p # o => Phase(p)' = Phase(p)
  BY DEF Phase
<1> QED
  BY <1>1 DEF Reads, Writes

\* With a single pushing thread the engine implements the order of dependencies:
\* an operation starts only when all operations pushed before it that it conflicts
\* with have finished.
THEOREM EngineRefines == SinglePusher => (Spec => Order!Safety)
<1> SUFFICES ASSUME SinglePusher PROVE Spec => Order!Safety
  OBVIOUS
<1>0. Order!Op = Op
  BY DEF Order!Op, Op
<1>1. Init => Order!Init
  <2> SUFFICES ASSUME Init PROVE Order!Init
    OBVIOUS
  <2>1. \A o \in Op : Reads(o) = {} /\ Writes(o) = {} /\ Phase(o) = "none"
    <3>1. \A o \in Op : opr[o].reads = <<>> /\ opr[o].writes = <<>> /\ stage[o] = "none"
      BY DEF Init, NoOpr
    <3>2. ToSet(<<>>) = {}
      BY DEF ToSet
    <3> QED
      BY <3>1, <3>2 DEF Reads, Writes, Phase
  <2> QED
    BY <1>0, <2>1 DEF Init, Order!Init
<1>2. ASSUME EngineInv, EngineInv', InOrder', [Next]_vars PROVE [Order!Next]_(Order!vars)
  <2>0. TypeOK /\ OprInv /\ TypeOK' /\ pushed \in Nat /\ stage \in [Op -> Stage]
    BY <1>2, OpFacts DEF EngineInv, TypeOK
  <2>1. ASSUME opr' = opr, pushed' = pushed, \A o \in Op : Phase(o)' = Phase(o)
        PROVE  UNCHANGED Order!vars
    BY <2>1 DEF Order!vars, Reads, Writes
  <2>2. ASSUME NEW t \in Thread, PushAsync(t) \/ DeleteVariable(t) \/ WaitForVar(t)
        PROVE  Order!Next
    <3>1. PICK r \in Seq(Var), w \in Seq(Var), kind \in AllKinds : Push(t, r, w, kind)
      BY <2>2, PushCalls
    <3>2. PICK n : n = pushed + 1
      OBVIOUS
    <3>3. /\ pushed < MaxOps /\ pushed' = n
          /\ opr' = [opr EXCEPT ![n] = [reads |-> r, writes |-> w, kind |-> kind]]
          /\ stage' = [stage EXCEPT ![n] = "pushing"]
      BY <3>1, <3>2 DEF Push
    <3>4. n \in Op
      BY <2>0, <3>2, <3>3, OpFacts DEF Op
    <3>5. /\ Reads(n)' = ToSet(r) /\ Writes(n)' = ToSet(w) /\ Phase(n)' = "issued"
      <4>1. opr'[n].reads = r /\ opr'[n].writes = w /\ stage'[n] = "pushing"
        BY <2>0, <3>3, <3>4 DEF TypeOK
      <4> QED
        BY <4>1 DEF Reads, Writes, Phase
    <3>6. \A p \in Op : p # n => Reads(p)' = Reads(p) /\ Writes(p)' = Writes(p) /\ Phase(p)' = Phase(p)
      <4>1. \A p \in Op : p # n => opr'[p] = opr[p] /\ stage'[p] = stage[p]
        BY <2>0, <3>3 DEF TypeOK
      <4> QED
        BY <4>1 DEF Reads, Writes, Phase
    <3>7. /\ [p \in Op |-> Phase(p)]' = [[p \in Op |-> Phase(p)] EXCEPT ![n] = "issued"]
          /\ [p \in Op |-> Reads(p)]' = [[p \in Op |-> Reads(p)] EXCEPT ![n] = ToSet(r)]
          /\ [p \in Op |-> Writes(p)]' = [[p \in Op |-> Writes(p)] EXCEPT ![n] = ToSet(w)]
      BY <3>4, <3>5, <3>6
    <3>8. ToSet(r) \in SUBSET Var /\ ToSet(w) \in SUBSET Var
      BY LenProperties, ElementOfSeq DEF ToSet
    <3>9. Order!Issue(ToSet(r), ToSet(w))
      BY <3>2, <3>3, <3>7 DEF Order!Issue
    <3> QED
      BY <3>8, <3>9 DEF Order!Next
  <2>3. ASSUME NEW o \in Op, opr' = opr, pushed' = pushed,
               \A p \in Op : p # o => stage'[p] = stage[p],
               stage[o] \in {"pushing", "ready"}, stage'[o] = "running"
        PROVE  Order!Next
    <3>1. Phase(o) = "issued" /\ Phase(o)' = "running"
      BY <2>3 DEF Phase
    <3>2. ASSUME NEW p \in 1..(o - 1), Clash(p, o) PROVE p \in Op /\ Phase(p) = "finished"
      <4>1. p \in Op /\ p # o
        BY OpFacts DEF Op
      <4>2. Clash(p, o)'
        BY <2>3, <3>2 DEF Clash, Reads, Writes
      <4>3. stage'[p] \in {"completing", "done"}
        BY <1>2, <2>3, <3>2, <4>2 DEF InOrder
      <4> QED
        BY <2>0, <2>3, <4>1, <4>3, PhaseFacts
    <3>3. \A p \in 1..(o - 1) : p \in Op
      BY OpFacts DEF Op
    <3>4. Order!Start(o)
      <4>1. \A p \in 1..(o - 1) : Order!Conflict(p, o) => [q \in Op |-> Phase(q)][p] = "finished"
        <5> TAKE p \in 1..(o - 1)
        <5>1. Order!Conflict(p, o) => Clash(p, o)
          BY <3>3 DEF Order!Conflict, Clash
        <5> QED
          BY <3>2, <5>1
      <4> QED
        BY <2>3, <3>1, <4>1, PhaseStep DEF Order!Start
    <3> QED
      BY <1>0, <3>4 DEF Order!Next
  <2>4. ASSUME NEW o \in Op, OnComplete(o) PROVE Order!Next
    <3>1. /\ opr' = opr /\ pushed' = pushed /\ stage[o] = "running" /\ stage'[o] = "completing"
          /\ \A p \in Op : p # o => stage'[p] = stage[p]
      BY <2>0, <2>4 DEF OnComplete
    <3>2. Phase(o) = "running" /\ Phase(o)' = "finished"
      BY <3>1 DEF Phase
    <3>3. Order!Finish(o)
      BY <3>1, <3>2, PhaseStep DEF Order!Finish
    <3> QED
      BY <1>0, <3>3 DEF Order!Next
  <2>5. ASSUME NEW t \in Thread, PushEnd(t) PROVE [Order!Next]_(Order!vars)
    <3>1. PICK o \in Op : o = cur[t]
      BY <2>5 DEF PushEnd
    <3>2. /\ stage[o] = "pushing" /\ stage'[o] \in {"running", "ready", "waiting"}
          /\ opr' = opr /\ pushed' = pushed
          /\ \A p \in Op : p # o => stage'[p] = stage[p]
      BY <2>0, <2>5, <3>1 DEF PushEnd
    <3>3. CASE stage'[o] = "running"
      BY <2>3, <3>2, <3>3
    <3>4. CASE stage'[o] # "running"
      <4>1. \A p \in Op : Phase(p)' = Phase(p)
        BY <3>2, <3>4 DEF Phase
      <4> QED
        BY <2>1, <3>2, <4>1
    <3> QED
      BY <3>3, <3>4
  <2>6. ASSUME NEW o \in Op, DecrWait(o) PROVE UNCHANGED Order!vars
    <3>1. PICK p \in Op : /\ stage[p] = "waiting" \/ (stage[p] = "pushing" /\ wait[p] # 1)
                          /\ stage' = [stage EXCEPT ![p] = IF wait[p] = 1 THEN "ready" ELSE @]
      BY <1>2, <2>6, DecrementWaits
    <3>2. stage'[p] \in {"pushing", "waiting", "ready"} /\ stage[p] \in {"pushing", "waiting", "ready"}
          /\ \A q \in Op : q # p => stage'[q] = stage[q]
      <4>1. stage'[p] = IF wait[p] = 1 THEN "ready" ELSE stage[p]
        BY <2>0, <3>1
      <4> QED
        BY <2>0, <3>1, <4>1
    <3>3. \A q \in Op : Phase(q)' = Phase(q)
      BY <3>2 DEF Phase
    <3>4. opr' = opr /\ pushed' = pushed
      BY <2>6 DEF DecrWait
    <3> QED
      BY <2>1, <3>3, <3>4
  <2>7. ASSUME NEW o \in Op, CompleteEnd(o) PROVE UNCHANGED Order!vars
    <3>1. /\ opr' = opr /\ pushed' = pushed /\ stage[o] = "completing" /\ stage'[o] = "done"
          /\ \A p \in Op : p # o => stage'[p] = stage[p]
      BY <2>0, <2>7 DEF CompleteEnd
    <3>2. \A p \in Op : Phase(p)' = Phase(p)
      BY <3>1 DEF Phase
    <3> QED
      BY <2>1, <3>1, <3>2
  <2>8. ASSUME NEW o \in Op, ExecuteOprBlock(o) PROVE Order!Next
    <3>1. /\ opr' = opr /\ pushed' = pushed /\ stage[o] = "ready" /\ stage'[o] = "running"
          /\ \A p \in Op : p # o => stage'[p] = stage[p]
      BY <2>0, <2>8 DEF ExecuteOprBlock
    <3> QED
      BY <2>3, <3>1
  <2>9. ASSUME UNCHANGED <<opr, stage, pushed>> PROVE UNCHANGED Order!vars
    BY <2>1, <2>9 DEF Phase
  <2>10. ASSUME NEW t \in Thread,
                WaitForAll(t) \/ NotifyShutdown(t) \/ AppendDependency(t) \/ CheckWait(t)
         PROVE  UNCHANGED Order!vars
    BY <2>9, <2>10 DEF WaitForAll, NotifyShutdown, AppendDependency, CheckWait
  <2>11. ASSUME NEW o \in Op, CompleteDependency(o) PROVE UNCHANGED Order!vars
    BY <2>9, <2>11 DEF CompleteDependency
  <2>12. CASE UNCHANGED vars
    BY <2>9, <2>12 DEF vars
  <2> QED
    BY <1>2, <2>2, <2>4, <2>5, <2>6, <2>7, <2>8, <2>10, <2>11, <2>12
       DEF Next, Call, PushStep, Complete
<1>3. EngineInv /\ EngineInv' /\ OrderInv /\ [Next]_vars => OrderInv'
  BY OrderStep
<1>4. EngineInv /\ EngineInv' /\ InOrder' /\ [Next]_vars => [Order!Next]_(Order!vars)
  BY <1>2
<1> QED
  BY <1>1, <1>3, <1>4, EngineInductive, OrderInit, InOrderHolds, PTL DEF Spec, Order!Safety
============================================================================
