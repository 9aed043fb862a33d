-------------------------- MODULE LifecycleProofs --------------------------
(***************************************************************************)
(* The barriers, the commands of rank 0 and the end of a job, proved for   *)
(* every number of workers, servers, Init calls and commands.  The requests *)
(* of the barriers come to the scheduler by one of its interfaces.         *)
(***************************************************************************)
EXTENDS Lifecycle, FiniteSetTheorems, SequenceTheorems, TLAPS

----------------------------------------------------------------------------
(* Positions in the programs.                                               *)

\* The first barrier of InitImpl, and the one of the destructor.
FirstMeet(w) == IF w = Rank0 THEN 3 ELSE 2
LastMeet(w) == FirstMeet(w) + Inits + IF w = Rank0 THEN Controls ELSE 0

\* The barrier of Finalize is the last but one step of every program.
LastAll(n) == Len(Program(n)) - 1

\* The barriers of a group that lie before the i-th step.
AllBefore(n, i) == IF i <= 1 THEN 0 ELSE IF i <= LastAll(n) THEN 1 ELSE 2
MeetsBefore(w, i) ==
    IF i <= FirstMeet(w) THEN 0
    ELSE IF i <= FirstMeet(w) + Inits THEN i - FirstMeet(w)
    ELSE IF i <= LastMeet(w) THEN Inits ELSE Inits + 1

----------------------------------------------------------------------------
(* The inductive invariant.                                                 *)

\* The history agrees with the programs: who has left which barriers follows
\* from the position of its main thread.
HistoryInv ==
    /\ \A n \in Node : left["All"][n] = AllBefore(n, pc[n])
    /\ \A w \in Worker : left["Workers"][w] = MeetsBefore(w, pc[w])
    /\ \A g \in Group : \A n \in GetNodeIDs(g) :
         entered[g][n] = left[g][n] + IF Waits(n, g) THEN 1 ELSE 0

Ask(g, n) == Direct(g, TRUE, n, Scheduler)
Answer(g, n) == Direct(g, FALSE, Scheduler, n)

\* Barrier r + 1 of the group is being entered: these have been counted.
Arrived(g, r) == {n \in GetNodeIDs(g) : entered[g][n] = r + 1 /\ Ask(g, n) \notin net}

\* The group is between barrier r, which all have entered and some may still
\* have to leave, and barrier r + 1, which nobody has left.
RoundInv(g, r) ==
    /\ barrier_count[g] = Cardinality(Arrived(g, r))
    /\ \A n \in GetNodeIDs(g) :
         /\ entered[g][n] \in {r, r + 1} /\ left[g][n] <= r
         /\ entered[g][n] = r + 1 => ~barrier_done[n]
         /\ entered[g][n] = r /\ Waits(n, g) => (barrier_done[n] => Answer(g, n) \notin net)
    /\ \A m \in net : m.what = g =>
         \/ \E n \in GetNodeIDs(g) : m = Ask(g, n) /\ entered[g][n] = r + 1
         \/ \E n \in GetNodeIDs(g) : m = Answer(g, n) /\ entered[g][n] = r /\ Waits(n, g)

BarrierInv == \A g \in Group : \E r \in Nat : RoundInv(g, r)

\* The messages of a command to or from a server.
CommandMsgs(s) == {m \in net : m.what \in Command /\ s \in {m.src, m.dst}}

\* The servers that have not yet answered the command of rank 0, or whose answer
\* has not yet been counted.
Outstanding == {s \in Server : CommandMsgs(s) # {} \/ exec[s] # NoBlock}

Commands == op(Rank0) \in Command /\ waiting[Rank0]

\* A request goes from rank 0 to a server and a response back, over rank 0's own
\* server.
OnItsWay(m) ==
    /\ m.what = op(Rank0) /\ m.from \in Server \cup {Rank0}
    /\ IF m.request THEN m.src = Rank0 /\ m.dst \in Server /\ m.to \in {OwnServer[Rank0], m.dst}
                    ELSE m.src \in Server /\ m.dst = Rank0 /\ m.to \in {OwnServer[Rank0], Rank0}

\* One command at a time, and of a command one message, one block or one count
\* for each server.
CommandInv ==
    /\ \A m \in net : m.what \in Command => Commands /\ OnItsWay(m)
    /\ \A s \in Server :
         /\ \A m1, m2 \in CommandMsgs(s) : m1 = m2
         /\ exec[s] # NoBlock => CommandMsgs(s) = {} /\ Commands /\ exec[s].cmd = op(Rank0)
    /\ Commands => acks = Cardinality(Server \ Outstanding)

\* The first command sets the mode of every server, and the last one stops them.
ModeInv ==
    /\ pc[Rank0] > 2 => \A s \in Server : sync_mode[s]
    /\ Commands /\ op(Rank0) = "kSyncMode" =>
         \A s \in Server : sync_mode[s] \/ \E m \in CommandMsgs(s) : m.request
    /\ \A s \in Server : exec[s] # NoBlock => exec[s].cmd # "kSyncMode"
    /\ \A s \in Server : pc[s] > 2 =>
         pc[Rank0] >= LastAll(Rank0) \/ Waits(Rank0, "kStopServer")

LifeInv == TypeOK /\ HistoryInv /\ BarrierInv /\ CommandInv /\ ModeInv

\* One thread counts the requests, and no step of it is seen in between.
IdleInv == OneInterface /\ \A e \in 1..NumEth[Scheduler] : counting[e] = Idle

OneThreadInv == LifeInv /\ IdleInv

\* The addresses are fixed at the start.
AddressedInv == OneInterface => OneThreadInv

----------------------------------------------------------------------------
(* The programs.                                                            *)

\* The steps a program is made of.
Ops == Group \cup Command \cup {"Run", "Stop"}

\* The i-th entry of two sequences put together.
LEMMA ConcatEntries ==
    ASSUME NEW s \in Seq(Ops), NEW t \in Seq(Ops)
    PROVE  /\ s \o t \in Seq(Ops)
           /\ Len(s \o t) = Len(s) + Len(t)
           /\ \A i \in 1..(Len(s) + Len(t)) :
                (s \o t)[i] = IF i <= Len(s) THEN s[i] ELSE t[i - Len(s)]
BY ConcatProperties

LEMMA RepeatEntries ==
    ASSUME NEW x \in Ops, NEW k \in Nat
    PROVE  /\ Repeat(x, k) \in Seq(Ops) /\ Len(Repeat(x, k)) = k
           /\ \A i \in 1..k : Repeat(x, k)[i] = x
BY DEF Repeat

\* The program of a worker, step by step.
LEMMA WorkerSteps ==
    ASSUME NEW w \in Worker
    PROVE  /\ Program(w) \in Seq(Ops)
           /\ Len(Program(w)) = LastMeet(w) + IF w = Rank0 THEN 3 ELSE 2
           /\ \A i \in 1..Len(Program(w)) :
                Program(w)[i] =
                    IF i = 1 THEN "All"
                    ELSE IF i < FirstMeet(w) THEN "kSyncMode"
                    ELSE IF i < FirstMeet(w) + Inits THEN "Workers"
                    ELSE IF i < LastMeet(w) THEN "kController"
                    ELSE IF i = LastMeet(w) THEN "Workers"
                    ELSE IF i = Len(Program(w)) THEN "Stop"
                    ELSE IF i = Len(Program(w)) - 1 THEN "All" ELSE "kStopServer"
<1> DEFINE sync == CreateOps(w)
           ctrl == AtRank0(w, Repeat("kController", Controls))
           stop == AtRank0(w, <<"kStopServer">>)
           p1 == <<"All">> \o sync
           p2 == p1 \o InitOps
           p3 == p2 \o ctrl
           p4 == p3 \o <<"Workers">>
           p5 == p4 \o stop
           p6 == p5 \o <<"All", "Stop">>
           d == IF w = Rank0 THEN 1 ELSE 0
           c == IF w = Rank0 THEN Controls ELSE 0
<1> USE LifecycleAssumption
<1>0. Program(w) = p6
  BY DEF Program, WorkerProgram
<1>1. /\ sync \in Seq(Ops) /\ Len(sync) = d /\ \A i \in 1..d : sync[i] = "kSyncMode"
      /\ stop \in Seq(Ops) /\ Len(stop) = d /\ \A i \in 1..d : stop[i] = "kStopServer"
  <2>1. CASE w = Rank0
    BY <2>1 DEF CreateOps, AtRank0, Ops, Command
  <2>2. CASE w # Rank0
    BY <2>2 DEF CreateOps, AtRank0, Ops, Command
  <2> QED
    BY <2>1, <2>2
<1>2. ctrl \in Seq(Ops) /\ Len(ctrl) = c /\ \A i \in 1..c : ctrl[i] = "kController"
  BY RepeatEntries DEF AtRank0, Ops, Command
<1>3. InitOps \in Seq(Ops) /\ Len(InitOps) = Inits /\ \A i \in 1..Inits : InitOps[i] = "Workers"
  BY RepeatEntries DEF InitOps, Ops, Group
<1>4. /\ <<"All">> \in Seq(Ops) /\ <<"Workers">> \in Seq(Ops) /\ <<"All", "Stop">> \in Seq(Ops)
      /\ Len(<<"All">>) = 1 /\ Len(<<"Workers">>) = 1 /\ Len(<<"All", "Stop">>) = 2
      /\ <<"All">>[1] = "All" /\ <<"Workers">>[1] = "Workers"
      /\ <<"All", "Stop">>[1] = "All" /\ <<"All", "Stop">>[2] = "Stop"
  BY DEF Ops, Group
<1>5. d \in {0, 1} /\ c \in Nat /\ Inits \in Nat
  OBVIOUS
<1> HIDE DEF sync, ctrl, stop, d, c
<1>11. /\ p1 \in Seq(Ops) /\ Len(p1) = 1 + d
       /\ \A i \in 1..(1 + d) : p1[i] = IF i = 1 THEN "All" ELSE "kSyncMode"
  BY <1>1, <1>4, <1>5, ConcatEntries
<1> HIDE DEF p1
<1>12. /\ p2 \in Seq(Ops) /\ Len(p2) = 1 + d + Inits
       /\ \A i \in 1..(1 + d + Inits) :
            p2[i] = IF i = 1 THEN "All" ELSE IF i < 2 + d THEN "kSyncMode" ELSE "Workers"
  BY <1>11, <1>3, <1>5, ConcatEntries
<1> HIDE DEF p2
<1>13. /\ p3 \in Seq(Ops) /\ Len(p3) = 1 + d + Inits + c
       /\ \A i \in 1..(1 + d + Inits + c) :
            p3[i] = IF i = 1 THEN "All" ELSE IF i < 2 + d THEN "kSyncMode"
                    ELSE IF i < 2 + d + Inits THEN "Workers" ELSE "kController"
  <2>1. /\ p3 \in Seq(Ops) /\ Len(p3) = Len(p2) + Len(ctrl)
        /\ \A i \in 1..(Len(p2) + Len(ctrl)) :
             p3[i] = IF i <= Len(p2) THEN p2[i] ELSE ctrl[i - Len(p2)]
    BY <1>12, <1>2, ConcatEntries
  <2> HIDE DEF p3
  <2> QED
    BY <2>1, <1>12, <1>2, <1>5
<1> HIDE DEF p3
<1>14. /\ p4 \in Seq(Ops) /\ Len(p4) = 2 + d + Inits + c
       /\ \A i \in 1..(2 + d + Inits + c) :
            p4[i] = IF i = 1 THEN "All" ELSE IF i < 2 + d THEN "kSyncMode"
                    ELSE IF i < 2 + d + Inits THEN "Workers"
                    ELSE IF i < 2 + d + Inits + c THEN "kController" ELSE "Workers"
  <2>1. /\ p4 \in Seq(Ops) /\ Len(p4) = Len(p3) + Len(<<"Workers">>)
        /\ \A i \in 1..(Len(p3) + Len(<<"Workers">>)) :
             p4[i] = IF i <= Len(p3) THEN p3[i] ELSE <<"Workers">>[i - Len(p3)]
    BY <1>13, <1>4, ConcatEntries
  <2> HIDE DEF p4
  <2> QED
    BY <2>1, <1>13, <1>4, <1>5
<1> HIDE DEF p4
<1>15. /\ p5 \in Seq(Ops) /\ Len(p5) = 2 + d + Inits + c + d
       /\ \A i \in 1..(2 + d + Inits + c + d) :
            p5[i] = IF i = 1 THEN "All" ELSE IF i < 2 + d THEN "kSyncMode"
                    ELSE IF i < 2 + d + Inits THEN "Workers"
                    ELSE IF i < 2 + d + Inits + c THEN "kController"
                    ELSE IF i = 2 + d + Inits + c THEN "Workers" ELSE "kStopServer"
  BY <1>14, <1>1, <1>5, ConcatEntries
<1> HIDE DEF p5
<1>16. /\ p6 \in Seq(Ops) /\ Len(p6) = 4 + d + Inits + c + d
       /\ \A i \in 1..(4 + d + Inits + c + d) :
            p6[i] = IF i = 1 THEN "All" ELSE IF i < 2 + d THEN "kSyncMode"
                    ELSE IF i < 2 + d + Inits THEN "Workers"
                    ELSE IF i < 2 + d + Inits + c THEN "kController"
                    ELSE IF i = 2 + d + Inits + c THEN "Workers"
                    ELSE IF i = 4 + d + Inits + c + d THEN "Stop"
                    ELSE IF i = 3 + d + Inits + c + d THEN "All" ELSE "kStopServer"
  <2>1. /\ p6 \in Seq(Ops) /\ Len(p6) = Len(p5) + Len(<<"All", "Stop">>)
        /\ \A i \in 1..(Len(p5) + Len(<<"All", "Stop">>)) :
             p6[i] = IF i <= Len(p5) THEN p5[i] ELSE <<"All", "Stop">>[i - Len(p5)]
    BY <1>15, <1>4, ConcatEntries
  <2> HIDE DEF p6
  <2> QED
    BY <2>1, <1>15, <1>4, <1>5
<1> HIDE DEF p6
<1>17. FirstMeet(w) = 2 + d /\ LastMeet(w) = 2 + d + Inits + c
       /\ (IF w = Rank0 THEN 3 ELSE 2) = 2 + d
  BY <1>5 DEF FirstMeet, LastMeet, d, c
<1> QED
  BY <1>0, <1>16, <1>17, <1>5

\* Which step of which program is what.
LEMMA ProgramSteps ==
    ASSUME NEW n \in Node
    PROVE  /\ Len(Program(n)) \in Nat /\ Len(Program(n)) >= 3
           /\ \A i \in 1..Len(Program(n)) :
                /\ Program(n)[i] \in Ops
                /\ Program(n)[i] = "All" <=> i \in {1, LastAll(n)}
                /\ Program(n)[i] = "Stop" <=> i = Len(Program(n))
                /\ Program(n)[i] = "Run" <=> n \in Server /\ i = 2
                /\ Program(n)[i] = "kSyncMode" <=> n = Rank0 /\ i = 2
                /\ Program(n)[i] = "kStopServer" <=> n = Rank0 /\ i = LastAll(n) - 1
                /\ Program(n)[i] = "kController" => n = Rank0 /\ 2 < i /\ i < LastAll(n) - 1
                /\ Program(n)[i] = "Workers" <=>
                     n \in Worker /\ (i \in FirstMeet(n)..(FirstMeet(n) + Inits - 1) \/ i = LastMeet(n))
<1> USE LifecycleAssumption
<1>1. CASE n = Scheduler
  <2>1. Program(n) = <<"All", "All", "Stop">> /\ n \notin Worker /\ n \notin Server /\ n # Rank0
    BY <1>1 DEF Program, SchedulerProgram
  <2> QED
    BY <2>1 DEF LastAll, Ops, Group
<1>2. CASE n \in Server
  <2>1. Program(n) = <<"All", "Run", "All", "Stop">> /\ n \notin Worker /\ n # Rank0
    BY <1>2 DEF Program, ServerProgram
  <2> QED
    BY <1>2, <2>1 DEF LastAll, Ops, Group
<1>3. CASE n \in Worker
  <2>1. n \notin Server
    BY <1>3
  <2>2. FirstMeet(n) \in Nat /\ LastMeet(n) \in Nat
    BY DEF FirstMeet, LastMeet
  <2> QED
    BY <1>3, <2>1, <2>2, WorkerSteps DEF LastAll, Ops, Group, Command, FirstMeet, LastMeet
<1> QED
  BY <1>1, <1>2, <1>3 DEF Node

\* The step at position i; op(n) is StepAt(n, pc[n]).
StepAt(n, i) == IF i > Len(Program(n)) THEN "done" ELSE Program(n)[i]

LEMMA StepFacts ==
    ASSUME NEW n \in Node, NEW i \in 1..(Len(Program(n)) + 1)
    PROVE  /\ StepAt(n, i) \in Ops \cup {"done"}
           /\ StepAt(n, i) = "done" <=> i = Len(Program(n)) + 1
           /\ StepAt(n, i) = "All" <=> i \in {1, LastAll(n)}
           /\ StepAt(n, i) = "Stop" <=> i = Len(Program(n))
           /\ StepAt(n, i) = "Run" <=> n \in Server /\ i = 2
           /\ StepAt(n, i) = "kSyncMode" <=> n = Rank0 /\ i = 2
           /\ StepAt(n, i) = "kStopServer" <=> n = Rank0 /\ i = LastAll(n) - 1
           /\ StepAt(n, i) = "kController" => n = Rank0 /\ 2 < i /\ i < LastAll(n) - 1
           /\ StepAt(n, i) = "Workers" <=>
                n \in Worker /\ (i \in FirstMeet(n)..(FirstMeet(n) + Inits - 1) \/ i = LastMeet(n))
           /\ Len(Program(n)) \in Nat /\ Len(Program(n)) >= 3
<1>1. CASE i = Len(Program(n)) + 1
  <2>1. StepAt(n, i) = "done"
    BY <1>1, ProgramSteps DEF StepAt
  <2>2. \A w \in Worker : Len(Program(w)) > LastMeet(w) /\ LastMeet(w) \in Nat
                          /\ FirstMeet(w) + Inits <= LastMeet(w) /\ FirstMeet(w) \in Nat
    BY WorkerSteps, LifecycleAssumption DEF FirstMeet, LastMeet
  <2> QED
    <3>1. /\ Len(Program(n)) \in Nat /\ Len(Program(n)) >= 3
          /\ i \notin {1, 2, LastAll(n), LastAll(n) - 1, Len(Program(n))}
      BY <1>1, ProgramSteps DEF LastAll
    <3>2. n \in Worker =>
            i \notin FirstMeet(n)..(FirstMeet(n) + Inits - 1) /\ i # LastMeet(n)
      BY <1>1, <2>2, <3>1, LifecycleAssumption
    <3> QED
      BY <1>1, <2>1, <3>1, <3>2
<1>2. CASE i \in 1..Len(Program(n))
  <2>1. StepAt(n, i) = Program(n)[i]
    BY <1>2, ProgramSteps DEF StepAt
  <2>2. Program(n)[i] # "done"
    BY <1>2, ProgramSteps DEF Ops, Group, Command
  <2> QED
    BY <1>2, <2>1, <2>2, ProgramSteps
<1> QED
  BY <1>1, <1>2, ProgramSteps

\* A step leaves one barrier behind if it is one.
LEMMA BeforeNext ==
    ASSUME NEW n \in Node, NEW i \in 1..Len(Program(n))
    PROVE  /\ AllBefore(n, i + 1) = AllBefore(n, i) + IF StepAt(n, i) = "All" THEN 1 ELSE 0
           /\ n \in Worker => MeetsBefore(n, i + 1)
                                = MeetsBefore(n, i) + IF StepAt(n, i) = "Workers" THEN 1 ELSE 0
<1> USE LifecycleAssumption
<1>1. i \in 1..(Len(Program(n)) + 1) /\ Len(Program(n)) \in Nat /\ Len(Program(n)) >= 3
  BY ProgramSteps
<1>2. AllBefore(n, i + 1) = AllBefore(n, i) + IF StepAt(n, i) = "All" THEN 1 ELSE 0
  <2>1. StepAt(n, i) = "All" <=> i \in {1, LastAll(n)}
    BY <1>1, StepFacts
  <2> QED
    BY <1>1, <2>1 DEF AllBefore, LastAll
<1>3. ASSUME n \in Worker
      PROVE MeetsBefore(n, i + 1) = MeetsBefore(n, i) + IF StepAt(n, i) = "Workers" THEN 1 ELSE 0
  <2>1. StepAt(n, i) = "Workers" <=>
          (i \in FirstMeet(n)..(FirstMeet(n) + Inits - 1) \/ i = LastMeet(n))
    BY <1>1, <1>3, StepFacts
  <2>2. FirstMeet(n) \in Nat /\ LastMeet(n) \in Nat /\ FirstMeet(n) + Inits <= LastMeet(n)
    BY DEF FirstMeet, LastMeet
  <2> QED
    BY <1>1, <2>1, <2>2 DEF MeetsBefore
<1> QED
  BY <1>2, <1>3

----------------------------------------------------------------------------
(* Facts about a state, and what a step leaves alone.                       *)

LEMMA OpFacts ==
    ASSUME TypeOK, NEW n \in Node
    PROVE  /\ pc[n] \in Nat /\ pc[n] \in 1..(Len(Program(n)) + 1)
           /\ op(n) = StepAt(n, pc[n])
           /\ op(n) \in Group => n \in GetNodeIDs(op(n))
           /\ op(n) \in Command => n = Rank0 /\ 2 <= pc[n] /\ pc[n] < LastAll(n)
           /\ op(n) # "done" => pc[n] \in 1..Len(Program(n))
<1>1. pc[n] \in Nat /\ pc[n] \in 1..(Len(Program(n)) + 1)
  BY DEF TypeOK
<1>2. op(n) = StepAt(n, pc[n])
  BY DEF op, StepAt
<1>3. op(n) \in Group => n \in GetNodeIDs(op(n))
  BY <1>1, <1>2, StepFacts DEF Group, GetNodeIDs
<1>4. op(n) \in Command => n = Rank0 /\ 2 <= pc[n] /\ pc[n] < LastAll(n)
  <2>1. ASSUME op(n) = "kSyncMode" PROVE n = Rank0 /\ pc[n] = 2
    BY <2>1, <1>1, <1>2, StepFacts
  <2>2. LastMeet(Rank0) \in Nat /\ LastMeet(Rank0) >= 3
        /\ Len(Program(Rank0)) = LastMeet(Rank0) + 3
    BY WorkerSteps, LifecycleAssumption DEF LastMeet, FirstMeet
  <2>3. ASSUME op(n) = "kStopServer" PROVE n = Rank0 /\ pc[n] = LastAll(n) - 1
    BY <2>3, <1>1, <1>2, StepFacts
  <2>4. ASSUME op(n) = "kController" PROVE n = Rank0 /\ 2 < pc[n] /\ pc[n] < LastAll(n) - 1
    BY <2>4, <1>1, <1>2, StepFacts
  <2> QED
    BY <1>1, <2>1, <2>2, <2>3, <2>4 DEF Command, LastAll
<1>5. op(n) # "done" => pc[n] \in 1..Len(Program(n))
  BY <1>1, <1>2, StepFacts
<1> QED
  BY <1>1, <1>2, <1>3, <1>4, <1>5

LEMMA GroupFacts ==
    /\ \A g \in Group : GetNodeIDs(g) \subseteq Node /\ IsFiniteSet(GetNodeIDs(g))
    /\ IsFiniteSet(Server) /\ Worker \subseteq Node /\ Server \subseteq Node
    /\ Rank0 \in Worker /\ Rank0 \notin Server /\ Scheduler \in Node
    /\ OwnServer[Rank0] \in Server
    /\ Group \cap Command = {} /\ "TERMINATE" \notin Group \cup Command
    /\ "done" \notin Group \cup Command /\ "Stop" \notin Group \cup Command
    /\ "Run" \notin Group \cup Command
BY LifecycleAssumption, FS_Subset DEF Group, GetNodeIDs, Node, Command

\* The positions of rank 0 at its first and at its last command.
LEMMA Rank0Facts ==
    ASSUME TypeOK
    PROVE  /\ op(Rank0) = "kSyncMode" <=> pc[Rank0] = 2
           /\ op(Rank0) = "kStopServer" <=> pc[Rank0] = LastAll(Rank0) - 1
           /\ LastAll(Rank0) \in Nat
<1>1. Rank0 \in Node
  BY GroupFacts
<1>2. op(Rank0) = StepAt(Rank0, pc[Rank0]) /\ pc[Rank0] \in 1..(Len(Program(Rank0)) + 1)
  BY <1>1, OpFacts
<1>3. \A i \in 1..(Len(Program(Rank0)) + 1) :
        /\ StepAt(Rank0, i) = "kSyncMode" <=> i = 2
        /\ StepAt(Rank0, i) = "kStopServer" <=> i = LastAll(Rank0) - 1
  BY <1>1, StepFacts, Zenon
<1>4. LastAll(Rank0) \in Nat
  BY <1>1, ProgramSteps DEF LastAll
<1> QED
  BY <1>2, <1>3, <1>4

\* Nothing happens to main threads and barriers.
LEMMA SteadyHistory ==
    ASSUME HistoryInv, UNCHANGED <<pc, waiting, entered, left>>
    PROVE  HistoryInv' /\ \A n \in Node, g \in Group : Waits(n, g)' <=> Waits(n, g)
BY DEF HistoryInv, Waits, op

\* A main thread does a step that is no barrier.
LEMMA MoveHistory ==
    ASSUME TypeOK, HistoryInv, NEW n \in Node, op(n) \notin Group \cup {"done"},
           Advance(n) \/ Suspend(n), UNCHANGED <<entered, left>>
    PROVE  /\ HistoryInv'
           /\ \A k \in Node, g \in Group : Waits(k, g)' <=> Waits(k, g)
<1>1. \A k \in Node \ {n} : pc'[k] = pc[k] /\ waiting'[k] = waiting[k]
  BY DEF Advance, Suspend, TypeOK
<1>2. \A k \in Node \ {n} : op(k)' = op(k)
  BY <1>1 DEF op
<1>3. pc[n] \in 1..Len(Program(n)) /\ op(n) = StepAt(n, pc[n])
  BY OpFacts
<1>4. \A g \in Group : ~Waits(n, g)
  BY DEF Waits
<1>5. \A g \in Group : ~Waits(n, g)'
  <2>1. CASE Advance(n)
    BY <2>1 DEF Advance, Waits, TypeOK
  <2>2. CASE Suspend(n)
    BY <2>2 DEF Suspend, Waits, op
  <2> QED
    BY <2>1, <2>2
<1>6. \A k \in Node, g \in Group : Waits(k, g)' <=> Waits(k, g)
  BY <1>1, <1>2, <1>4, <1>5 DEF Waits
<1>7. /\ AllBefore(n, pc'[n]) = AllBefore(n, pc[n])
      /\ n \in Worker => MeetsBefore(n, pc'[n]) = MeetsBefore(n, pc[n])
  <2>1. CASE Advance(n)
    <3>1. pc'[n] = pc[n] + 1
      BY <2>1, <1>3 DEF Advance, TypeOK
    <3>2. /\ AllBefore(n, pc[n] + 1) = AllBefore(n, pc[n]) + 0
          /\ n \in Worker => MeetsBefore(n, pc[n] + 1) = MeetsBefore(n, pc[n]) + 0
      BY <1>3, BeforeNext DEF Group
    <3>3. /\ AllBefore(n, pc[n]) \in Nat
          /\ n \in Worker => MeetsBefore(n, pc[n]) \in Nat
      BY <1>3, LifecycleAssumption DEF AllBefore, MeetsBefore, FirstMeet
    <3> QED
      BY <3>1, <3>2, <3>3
  <2>2. CASE Suspend(n)
    BY <2>2 DEF Suspend
  <2> QED
    BY <2>1, <2>2
<1> QED
  BY <1>1, <1>6, <1>7, GroupFacts DEF HistoryInv

\* Nothing happens to the barriers, except that an answer may be lost when the
\* scheduler closes its sockets.
LEMMA SteadyBarriers ==
    ASSUME BarrierInv, UNCHANGED <<entered, left, barrier_done, barrier_count>>,
           \A n \in Node, g \in Group : Waits(n, g)' <=> Waits(n, g),
           \A m \in net' : m.what \in Group => m \in net,
           \A m \in net : m.what \in Group /\ m.request => m \in net'
    PROVE  BarrierInv'
<1> SUFFICES ASSUME NEW g \in Group, NEW r \in Nat, RoundInv(g, r) PROVE RoundInv(g, r)'
  BY DEF BarrierInv
<1>1. \A n : Ask(g, n).what = g /\ Ask(g, n).request /\ Answer(g, n).what = g
  BY DEF Ask, Answer, Direct, Msg
<1>2. \A n : /\ Ask(g, n) \in net' <=> Ask(g, n) \in net
             /\ Answer(g, n) \in net' => Answer(g, n) \in net
  BY <1>1
<1>3. Arrived(g, r)' = Arrived(g, r)
  BY <1>2 DEF Arrived
<1>4. \A m \in net' : m.what = g => m \in net
  OBVIOUS
<1>5. \A n \in GetNodeIDs(g) : Waits(n, g)' <=> Waits(n, g)
  BY GroupFacts
<1> QED
  BY <1>2, <1>3, <1>4, <1>5 DEF RoundInv

\* Nothing happens to the commands.
LEMMA SteadyCommands ==
    ASSUME CommandInv, UNCHANGED <<exec, acks>>,
           op(Rank0)' = op(Rank0), waiting'[Rank0] = waiting[Rank0],
           \A m : m.what \in Command => (m \in net' <=> m \in net)
    PROVE  /\ CommandInv'
           /\ \A s : CommandMsgs(s)' = CommandMsgs(s)
           /\ Commands' <=> Commands
<1>1. \A s : CommandMsgs(s)' = CommandMsgs(s)
  BY DEF CommandMsgs
<1>2. Outstanding' = Outstanding
  BY <1>1 DEF Outstanding
<1>3. Commands' <=> Commands
  BY DEF Commands
<1>4. \A m : OnItsWay(m)' <=> OnItsWay(m)
  BY DEF OnItsWay
<1> QED
  BY <1>1, <1>2, <1>3, <1>4 DEF CommandInv

\* Main threads stand still, and so do the commands.
LEMMA QuietCommands ==
    ASSUME CommandInv, ModeInv, UNCHANGED <<pc, waiting, exec, acks, sync_mode>>,
           \A m : m.what \in Command => (m \in net' <=> m \in net)
    PROVE  CommandInv' /\ ModeInv'
<1>1. op(Rank0)' = op(Rank0) /\ (Waits(Rank0, "kStopServer")' <=> Waits(Rank0, "kStopServer"))
  BY DEF op, Waits
<1>2. CommandInv' /\ (\A s : CommandMsgs(s)' = CommandMsgs(s)) /\ (Commands' <=> Commands)
  BY <1>1, SteadyCommands
<1> QED
  BY <1>1, <1>2 DEF ModeInv

\* A main thread does a step that is neither a command nor the Executor's loop.
LEMMA MoveCommands ==
    ASSUME TypeOK, CommandInv, ModeInv, NEW n \in Node,
           op(n) \notin Command \cup {"Run", "done"}, Advance(n) \/ Suspend(n),
           UNCHANGED <<exec, acks, sync_mode>>,
           \A m : m.what \in Command => (m \in net' <=> m \in net)
    PROVE  CommandInv' /\ ModeInv'
<1> USE GroupFacts
<1>1. \A k \in Node \ {n} : pc'[k] = pc[k] /\ waiting'[k] = waiting[k] /\ op(k)' = op(k)
  BY DEF Advance, Suspend, TypeOK, op
<1>2. pc[n] \in Nat /\ (pc'[n] = pc[n] \/ pc'[n] = pc[n] + 1) /\ pc[n] \in 1..(Len(Program(n)) + 1)
  BY DEF Advance, Suspend, TypeOK
<1>3. op(n) = StepAt(n, pc[n])
  BY OpFacts
<1>4. \A s \in Server : pc'[s] > 2 => pc[s] > 2
  <2>1. n \in Server => pc[n] # 2
    BY <1>2, <1>3, StepFacts
  <2> QED
    BY <1>1, <1>2, <2>1
<1>5. CASE n # Rank0
  <2>1. pc'[Rank0] = pc[Rank0] /\ waiting'[Rank0] = waiting[Rank0] /\ op(Rank0)' = op(Rank0)
    BY <1>1, <1>5
  <2>2. CommandInv' /\ (\A s : CommandMsgs(s)' = CommandMsgs(s)) /\ (Commands' <=> Commands)
    BY <2>1, SteadyCommands
  <2>3. Waits(Rank0, "kStopServer")' <=> Waits(Rank0, "kStopServer")
    BY <2>1 DEF Waits
  <2> QED
    BY <1>4, <2>1, <2>2, <2>3 DEF ModeInv
<1>6. CASE n = Rank0
  <2>1. ~Commands /\ ~Waits(Rank0, "kStopServer")
    BY <1>6 DEF Commands, Waits, Command
  <2>2. ~Commands' /\ ~Waits(Rank0, "kStopServer")'
    <3>1. CASE Advance(n)
      BY <3>1, <1>6 DEF Advance, Commands, Waits, TypeOK
    <3>2. CASE Suspend(n)
      BY <3>2, <1>6 DEF Suspend, Commands, Waits, op, Command
    <3> QED
      BY <3>1, <3>2
  <2>3. /\ \A m \in net : m.what \notin Command
        /\ \A s \in Server : exec[s] = NoBlock
    BY <2>1 DEF CommandInv
  <2>4. CommandInv'
    <3>1. \A m \in net' : m.what \notin Command
      BY <2>3
    <3>2. \A s : CommandMsgs(s)' = {}
      BY <3>1 DEF CommandMsgs
    <3> QED
      BY <2>2, <2>3, <3>1, <3>2 DEF CommandInv
  <2>5. pc[n] # 2
    BY <1>2, <1>3, <1>6, StepFacts DEF Command
  <2>6. LastAll(Rank0) \in Nat
    BY ProgramSteps DEF LastAll
  <2> QED
    BY <1>2, <1>4, <1>6, <2>1, <2>2, <2>3, <2>4, <2>5, <2>6 DEF ModeInv
<1> QED
  BY <1>5, <1>6

LEMMA AskFacts ==
    /\ \A g, n : Ask(g, n).what = g /\ Answer(g, n).what = g
                 /\ Ask(g, n).request = TRUE /\ Answer(g, n).request = FALSE
                 /\ Ask(g, n).src = n /\ Answer(g, n).to = n
                 /\ Ask(g, n).to = Scheduler
    /\ \A g, h, n, k : (Ask(g, n) = Ask(h, k) \/ Answer(g, n) = Answer(h, k)) => g = h /\ n = k
    /\ \A g, h, n, k : Ask(g, n) # Answer(h, k)
<1>1. \A g, n : Ask(g, n).what = g /\ Answer(g, n).what = g
                 /\ Ask(g, n).request = TRUE /\ Answer(g, n).request = FALSE
                 /\ Ask(g, n).src = n /\ Answer(g, n).to = n
                 /\ Ask(g, n).to = Scheduler
  BY DEF Ask, Answer, Direct, Msg
<1> HIDE DEF Ask, Answer
<1>2. \A g, h, n, k : (Ask(g, n) = Ask(h, k) \/ Answer(g, n) = Answer(h, k)) => g = h /\ n = k
  BY <1>1
<1>3. ASSUME NEW g, NEW h, NEW n, NEW k PROVE Ask(g, n) # Answer(h, k)
  <2>1. Ask(g, n).request # Answer(h, k).request
    BY <1>1
  <2> QED
    BY <2>1
<1> QED
  BY <1>1, <1>2, <1>3

----------------------------------------------------------------------------
(* Barriers.                                                                *)

\* The member that enters is not yet counted, and its flag is down.
LEMMA EnterBarriers ==
    ASSUME LifeInv, NEW n \in Node, NEW g \in Group, BarrierEnter(n, g)
    PROVE  BarrierInv'
<1> USE DEF LifeInv
<1>1. op(n) = g /\ ~waiting[n] /\ n \in GetNodeIDs(g)
  BY OpFacts DEF BarrierEnter, Begins
<1>2. entered[g][n] = left[g][n]
  BY <1>1 DEF HistoryInv, Waits, TypeOK
<1>3. net' = net \cup {Ask(g, n)}
  BY DEF BarrierEnter, Ask
<1>4. \A k \in Node, h \in Group : Waits(k, h)' <=> (Waits(k, h) \/ (k = n /\ h = g))
  BY <1>1 DEF BarrierEnter, Suspend, Waits, op, TypeOK
<1>5. \A k \in Node, h \in Group :
        entered'[h][k] = IF k = n /\ h = g THEN entered[h][k] + 1 ELSE entered[h][k]
  BY DEF BarrierEnter, TypeOK
<1>6. \A k \in Node : barrier_done'[k] = IF k = n THEN FALSE ELSE barrier_done[k]
  BY DEF BarrierEnter, TypeOK
<1>7. barrier_count' = barrier_count /\ left' = left
  BY DEF BarrierEnter
<1> SUFFICES ASSUME NEW h \in Group, NEW r \in Nat, RoundInv(h, r) PROVE RoundInv(h, r)'
  BY DEF BarrierInv
<1>8. \A k \in GetNodeIDs(h) : k \in Node /\ entered[h][k] \in Nat /\ left[h][k] \in Nat
  BY GroupFacts DEF TypeOK
<1>9. h = g => entered[h][n] = r /\ Ask(g, n) \notin net
  BY <1>1, <1>2, <1>8, AskFacts DEF RoundInv
<1>10. \A k \in GetNodeIDs(h) : (Ask(h, k) \in net' <=> Ask(h, k) \in net \/ (k = n /\ h = g))
                                /\ (Answer(h, k) \in net' <=> Answer(h, k) \in net)
  BY <1>3, AskFacts
<1>11. Arrived(h, r)' = Arrived(h, r)
  BY <1>5, <1>8, <1>9, <1>10 DEF Arrived
<1>12. \A k \in GetNodeIDs(h) :
         /\ entered'[h][k] \in {r, r + 1} /\ left'[h][k] <= r
         /\ entered'[h][k] = r + 1 => ~barrier_done'[k]
         /\ entered'[h][k] = r /\ Waits(k, h)' => (barrier_done'[k] => Answer(h, k) \notin net')
  <2> SUFFICES ASSUME NEW k \in GetNodeIDs(h)
               PROVE  /\ entered'[h][k] \in {r, r + 1} /\ left'[h][k] <= r
                      /\ entered'[h][k] = r + 1 => ~barrier_done'[k]
                      /\ entered'[h][k] = r /\ Waits(k, h)' =>
                           (barrier_done'[k] => Answer(h, k) \notin net')
    OBVIOUS
  <2>1. CASE k = n /\ h = g
    <3>1. entered'[h][k] = r + 1 /\ r + 1 # r
      BY <2>1, <1>5, <1>8, <1>9
    <3>2. ~barrier_done'[k]
      BY <2>1, <1>6, <1>8
    <3>3. left'[h][k] <= r
      BY <1>7 DEF RoundInv
    <3> QED
      BY <3>1, <3>2, <3>3
  <2>2. CASE k = n /\ h # g
    <3>1. ~Waits(k, h)'
      BY <2>2, <1>1, <1>4, <1>8 DEF Waits
    <3> QED
      BY <2>2, <3>1, <1>5, <1>6, <1>7, <1>8 DEF RoundInv
  <2>3. CASE k # n
    BY <2>3, <1>4, <1>5, <1>6, <1>7, <1>8, <1>10 DEF RoundInv
  <2> QED
    BY <2>1, <2>2, <2>3
<1>13. \A m \in net' : m.what = h =>
         \/ \E k \in GetNodeIDs(h) : m = Ask(h, k) /\ entered'[h][k] = r + 1
         \/ \E k \in GetNodeIDs(h) : m = Answer(h, k) /\ entered'[h][k] = r /\ Waits(k, h)'
  <2> SUFFICES ASSUME NEW m \in net', m.what = h
               PROVE  \/ \E k \in GetNodeIDs(h) : m = Ask(h, k) /\ entered'[h][k] = r + 1
                      \/ \E k \in GetNodeIDs(h) : m = Answer(h, k) /\ entered'[h][k] = r /\ Waits(k, h)'
    OBVIOUS
  <2>1. CASE m = Ask(g, n)
    BY <2>1, <1>1, <1>5, <1>8, <1>9, AskFacts
  <2>2. CASE m \in net
    <3>1. \A k \in GetNodeIDs(h) : entered[h][k] = r /\ Waits(k, h) => entered'[h][k] = r
      BY <1>1, <1>5, <1>8 DEF Waits
    <3>2. \A k \in GetNodeIDs(h) : entered[h][k] = r + 1 => entered'[h][k] = r + 1
      BY <1>5, <1>8, <1>9
    <3> QED
      BY <2>2, <3>1, <3>2, <1>4, <1>8 DEF RoundInv
  <2> QED
    BY <2>1, <2>2, <1>3
<1> QED
  BY <1>7, <1>11, <1>12, <1>13 DEF RoundInv

\* Whoever leaves has been answered, so all have entered.
LEMMA LeaveBarriers ==
    ASSUME LifeInv, NEW n \in Node, NEW g \in Group, BarrierLeave(n, g)
    PROVE  BarrierInv'
<1> USE DEF LifeInv
<1>1. op(n) = g /\ waiting[n] /\ n \in GetNodeIDs(g) /\ barrier_done[n] /\ Waits(n, g)
  BY OpFacts DEF BarrierLeave, Waits
<1>2. \A k \in Node, h \in Group : Waits(k, h)' <=> (Waits(k, h) /\ k # n)
  BY DEF BarrierLeave, Advance, Waits, op, TypeOK
<1>3. \A k \in Node, h \in Group :
        left'[h][k] = IF k = n /\ h = g THEN left[h][k] + 1 ELSE left[h][k]
  BY DEF BarrierLeave, TypeOK
<1>4. UNCHANGED <<barrier_count, barrier_done, entered, net>>
  BY DEF BarrierLeave
<1> SUFFICES ASSUME NEW h \in Group, NEW r \in Nat, RoundInv(h, r) PROVE RoundInv(h, r)'
  BY DEF BarrierInv
<1>5. \A k \in GetNodeIDs(h) : k \in Node /\ entered[h][k] \in Nat /\ left[h][k] \in Nat
  BY GroupFacts DEF TypeOK
<1>6. h = g => entered[h][n] = r /\ Answer(h, n) \notin net /\ left[h][n] + 1 = r
  BY <1>1, <1>5 DEF RoundInv, HistoryInv
<1>7. Arrived(h, r)' = Arrived(h, r)
  BY <1>4 DEF Arrived
<1>8. h # g => ~Waits(n, h)
  BY <1>1 DEF Waits
<1>9. \A m \in net : m.what = h => m # Answer(h, n)
  <2>1. ASSUME h # g, Answer(h, n) \in net PROVE FALSE
    BY <2>1, <1>8, AskFacts DEF RoundInv
  <2> QED
    BY <1>6, <2>1
<1>10. \A k \in GetNodeIDs(h) : left'[h][k] <= r
  BY <1>3, <1>5, <1>6 DEF RoundInv
<1> QED
  BY <1>2, <1>4, <1>5, <1>7, <1>9, <1>10 DEF RoundInv

\* A request is counted; the last one of a group is answered to everybody.
LEMMA RequestBarriers ==
    ASSUME LifeInv, NEW m \in net, ProcessBarrierRequest(m)
    PROVE  BarrierInv'
<1> USE DEF LifeInv
<1> DEFINE g == m.what
           last == GroupComplete(g, barrier_count[g] + 1)
           answers == {Answer(g, k) : k \in IF last THEN GetNodeIDs(g) ELSE {}}
<1>1. g \in Group /\ m.request
  BY DEF ProcessBarrierRequest
<1>2. net' = (net \ {m}) \cup answers
  BY DEF ProcessBarrierRequest, Answer, Answers
<1>3. UNCHANGED <<pc, waiting, barrier_done, entered, left>>
  BY DEF ProcessBarrierRequest
<1>4. \A k \in Node, h \in Group : Waits(k, h)' <=> Waits(k, h)
  BY <1>3 DEF Waits, op
<1>5. \A h \in Group : barrier_count'[h] =
        IF h = g THEN IF last THEN 0 ELSE barrier_count[g] + 1 ELSE barrier_count[h]
  BY DEF ProcessBarrierRequest, TypeOK
<1>6. PICK q \in Nat : RoundInv(g, q)
  BY <1>1 DEF BarrierInv
<1>7. PICK n \in GetNodeIDs(g) : m = Ask(g, n) /\ entered[g][n] = q + 1
  BY <1>1, <1>6, AskFacts DEF RoundInv
<1>8. \A h \in Group : \A k \in GetNodeIDs(h) :
        k \in Node /\ entered[h][k] \in Nat /\ left[h][k] \in Nat
  BY GroupFacts DEF TypeOK
<1>9. n \notin Arrived(g, q)
  BY <1>7 DEF Arrived
<1>10. Arrived(g, q) \subseteq GetNodeIDs(g) /\ IsFiniteSet(Arrived(g, q))
       /\ IsFiniteSet(GetNodeIDs(g))
  BY <1>1, GroupFacts, FS_Subset DEF Arrived
<1>11. LET A == Arrived(g, q) \cup {n}
       IN  IsFiniteSet(A) /\ Cardinality(A) = barrier_count[g] + 1 /\ A \subseteq GetNodeIDs(g)
  BY <1>6, <1>7, <1>9, <1>10, FS_AddElement DEF RoundInv
<1> HIDE DEF g, last, answers
<1>12. ASSUME NEW h \in Group, h # g PROVE \E r \in Nat : RoundInv(h, r)'
  <2>1. PICK r \in Nat : RoundInv(h, r)
    BY DEF BarrierInv
  <2>2. \A a \in answers : a.what = g
    BY AskFacts DEF answers
  <2>3. \A x : x.what = h => (x \in net' <=> x \in net)
    BY <1>2, <2>2, <1>12 DEF g
  <2>4. \A k : (Ask(h, k) \in net' <=> Ask(h, k) \in net)
               /\ (Answer(h, k) \in net' <=> Answer(h, k) \in net)
    BY <2>3, AskFacts
  <2>5. Arrived(h, r)' = Arrived(h, r) /\ barrier_count'[h] = barrier_count[h]
    BY <2>4, <1>3, <1>5, <1>12 DEF Arrived
  <2>6. RoundInv(h, r)'
    BY <2>1, <2>3, <2>4, <2>5, <1>3, <1>4, <1>8 DEF RoundInv
  <2> QED
    BY <2>6
<1>13. CASE ~last
  <2>1. net' = net \ {m}
    BY <1>2, <1>13 DEF answers
  <2>2. Arrived(g, q)' = Arrived(g, q) \cup {n}
    <3>1. \A k \in GetNodeIDs(g) : Ask(g, k) \in net' <=> Ask(g, k) \in net /\ k # n
      BY <2>1, <1>7, AskFacts
    <3> QED
      BY <3>1, <1>3, <1>7 DEF Arrived
  <2>3. barrier_count'[g] = Cardinality(Arrived(g, q)')
    BY <2>2, <1>1, <1>5, <1>11, <1>13
  <2>4. \A k : Answer(g, k) \in net' <=> Answer(g, k) \in net
    BY <2>1, <1>7, AskFacts
  <2>5. RoundInv(g, q)'
    BY <1>1, <1>3, <1>4, <1>6, <1>8, <2>1, <2>3, <2>4 DEF RoundInv
  <2> QED
    BY <1>12, <2>5 DEF BarrierInv
<1>14. CASE last
  <2>1. Arrived(g, q) \cup {n} = GetNodeIDs(g)
    <3>1. Cardinality(GetNodeIDs(g)) = barrier_count[g] + 1
      BY <1>14 DEF last, GroupComplete
    <3> QED
      BY <3>1, <1>10, <1>11, FS_Subset
  <2>2. \A k \in GetNodeIDs(g) : entered[g][k] = q + 1 /\ (Ask(g, k) \in net => k = n)
    BY <2>1, <1>7 DEF Arrived
  <2>3. \A k \in GetNodeIDs(g) : Waits(k, g) /\ ~barrier_done[k] /\ left[g][k] <= q + 1
    BY <2>2, <1>1, <1>6, <1>8 DEF RoundInv, HistoryInv
  <2>4. \A x \in net : x.what = g => x = m
    <3> SUFFICES ASSUME NEW x \in net, x.what = g PROVE x = m
      OBVIOUS
    <3>1. \A k \in GetNodeIDs(g) : entered[g][k] # q
      BY <2>2, <1>6
    <3>2. PICK k \in GetNodeIDs(g) : x = Ask(g, k)
      BY <1>6, <3>1 DEF RoundInv
    <3> QED
      BY <3>2, <2>2, <1>7
  <2>5. \A x \in net' : x.what = g => \E k \in GetNodeIDs(g) : x = Answer(g, k)
    BY <1>2, <1>14, <2>4 DEF answers
  <2>6. \A k \in GetNodeIDs(g) : Answer(g, k) \in net'
    BY <1>2, <1>14 DEF answers
  <2>7. Arrived(g, q + 1)' = {}
    <3>1. \A k \in GetNodeIDs(g) : entered'[g][k] # (q + 1) + 1
      BY <2>2, <1>3, <1>6
    <3> QED
      BY <3>1 DEF Arrived
  <2>8. barrier_count'[g] = Cardinality(Arrived(g, q + 1)')
    BY <2>7, <1>1, <1>5, <1>14, FS_EmptySet
  <2>9. \A k \in GetNodeIDs(g) :
          /\ entered'[g][k] = q + 1 /\ left'[g][k] <= q + 1
          /\ q + 1 # (q + 1) + 1
          /\ ~barrier_done'[k] /\ Answer(g, k) \in net' /\ Waits(k, g)'
    BY <2>2, <2>3, <2>6, <1>1, <1>3, <1>4, <1>8
  <2>10. RoundInv(g, q + 1)'
    BY <2>5, <2>8, <2>9 DEF RoundInv
  <2>11. q + 1 \in Nat
    BY <1>6
  <2> QED
    BY <1>12, <2>10, <2>11 DEF BarrierInv
<1> QED
  BY <1>13, <1>14

\* An answer sets the flag of a process that waits in that very barrier.
LEMMA AnswerBarriers ==
    ASSUME LifeInv, NEW m \in net, Manage(m)
    PROVE  BarrierInv'
<1> USE DEF LifeInv
<1> DEFINE g == m.what
<1>1. g \in Group /\ ~m.request
  BY DEF Manage
<1>2. net' = net \ {m} /\ UNCHANGED <<pc, waiting, barrier_count, entered, left>>
  BY DEF Manage
<1>3. \A k \in Node, h \in Group : Waits(k, h)' <=> Waits(k, h)
  BY <1>2 DEF Waits, op
<1>4. PICK q \in Nat : RoundInv(g, q)
  BY <1>1 DEF BarrierInv
<1>5. PICK n \in GetNodeIDs(g) : m = Answer(g, n) /\ entered[g][n] = q /\ Waits(n, g)
  BY <1>1, <1>4, AskFacts DEF RoundInv
<1>6. \A h \in Group : \A k \in GetNodeIDs(h) :
        k \in Node /\ entered[h][k] \in Nat /\ left[h][k] \in Nat
  BY GroupFacts DEF TypeOK
<1> HIDE DEF g
<1>0. m.to = n /\ n \in Node
  BY <1>1, <1>5, <1>6, AskFacts
<1>7. \A k \in Node : k # n => barrier_done'[k] = barrier_done[k]
  BY <1>0 DEF Manage, TypeOK
<1>8. barrier_done'[n]
  BY <1>0 DEF Manage, TypeOK
<1> SUFFICES ASSUME NEW h \in Group, NEW r \in Nat, RoundInv(h, r) PROVE RoundInv(h, r)'
  BY DEF BarrierInv
<1>9. \A k : /\ Ask(h, k) \in net' <=> Ask(h, k) \in net
             /\ Answer(h, k) \in net' <=> Answer(h, k) \in net /\ ~(h = g /\ k = n)
  BY <1>2, <1>5, AskFacts
<1>10. Arrived(h, r)' = Arrived(h, r)
  BY <1>2, <1>9 DEF Arrived
<1>11. h # g /\ n \in GetNodeIDs(h) => ~Waits(n, h) /\ entered[h][n] # r + 1
  <2> SUFFICES ASSUME h # g, n \in GetNodeIDs(h) PROVE ~Waits(n, h) /\ entered[h][n] # r + 1
    OBVIOUS
  <2>1. ~Waits(n, h)
    BY <1>5 DEF Waits
  <2>2. entered[h][n] = left[h][n]
    BY <2>1, <1>6 DEF HistoryInv
  <2>3. left[h][n] <= r
    BY DEF RoundInv
  <2> QED
    BY <2>1, <2>2, <2>3, <1>6
<1>12. h = g => entered[h][n] # r + 1
  <2> SUFFICES ASSUME h = g, entered[h][n] = r + 1 PROVE FALSE
    OBVIOUS
  <2>1. m \in net /\ m = Answer(h, n) /\ m.what = h
    BY <1>5 DEF g
  <2>2. PICK k \in GetNodeIDs(h) : m = Answer(h, k) /\ entered[h][k] = r
    BY <2>1, AskFacts DEF RoundInv
  <2>3. Answer(h, n).to = n /\ Answer(h, k).to = k
    BY AskFacts
  <2> QED
    BY <2>1, <2>2, <2>3
<1>13. \A k \in GetNodeIDs(h) :
         /\ entered'[h][k] \in {r, r + 1} /\ left'[h][k] <= r
         /\ entered'[h][k] = r + 1 => ~barrier_done'[k]
         /\ entered'[h][k] = r /\ Waits(k, h)' => (barrier_done'[k] => Answer(h, k) \notin net')
  <2> SUFFICES ASSUME NEW k \in GetNodeIDs(h)
               PROVE  /\ entered'[h][k] \in {r, r + 1} /\ left'[h][k] <= r
                      /\ entered'[h][k] = r + 1 => ~barrier_done'[k]
                      /\ entered'[h][k] = r /\ Waits(k, h)' =>
                           (barrier_done'[k] => Answer(h, k) \notin net')
    OBVIOUS
  <2>1. entered'[h][k] \in {r, r + 1} /\ left'[h][k] <= r
    BY <1>2 DEF RoundInv
  <2>2. CASE k # n
    BY <2>1, <2>2, <1>2, <1>3, <1>6, <1>7, <1>9 DEF RoundInv
  <2>3. CASE k = n /\ h = g
    BY <2>1, <2>3, <1>2, <1>8, <1>9, <1>12
  <2>4. CASE k = n /\ h # g
    BY <2>1, <2>4, <1>2, <1>3, <1>6, <1>11
  <2> QED
    BY <2>2, <2>3, <2>4
<1>14. \A x \in net' : x.what = h =>
         \/ \E k \in GetNodeIDs(h) : x = Ask(h, k) /\ entered'[h][k] = r + 1
         \/ \E k \in GetNodeIDs(h) : x = Answer(h, k) /\ entered'[h][k] = r /\ Waits(k, h)'
  BY <1>2, <1>3, <1>6 DEF RoundInv
<1> QED
  BY <1>2, <1>10, <1>13, <1>14 DEF RoundInv

----------------------------------------------------------------------------
(* Commands.                                                                *)

\* A message of a command belongs to one server, which has no other and no block.
LEMMA CommandFacts ==
    ASSUME TypeOK, CommandInv, NEW m \in net, m.what \in Command
    PROVE  \E s \in Server :
             /\ s = IF m.request THEN m.dst ELSE m.src
             /\ CommandMsgs(s) = {m} /\ exec[s] = NoBlock
             /\ \A t \in Server : t # s => m \notin CommandMsgs(t)
             /\ Commands /\ OnItsWay(m)
<1> USE GroupFacts
<1>1. Commands /\ OnItsWay(m)
  BY DEF CommandInv
<1> DEFINE s == IF m.request THEN m.dst ELSE m.src
<1>2. s \in Server /\ \A t \in Server : t \in {m.src, m.dst} => t = s
  BY <1>1 DEF OnItsWay
<1>3. m \in CommandMsgs(s)
  BY DEF CommandMsgs
<1>4. CommandMsgs(s) = {m}
  BY <1>2, <1>3 DEF CommandInv
<1>5. exec[s] = NoBlock
  BY <1>2, <1>4 DEF CommandInv
<1>6. \A t \in Server : t # s => m \notin CommandMsgs(t)
  BY <1>2 DEF CommandMsgs
<1> QED
  BY <1>1, <1>2, <1>4, <1>5, <1>6

\* What happens to a command at one server leaves the others alone.
LEMMA OneServer ==
    ASSUME CommandInv, NEW s \in Server,
           op(Rank0)' = op(Rank0), waiting'[Rank0] = waiting[Rank0],
           \A t \in Server : t # s => CommandMsgs(t)' = CommandMsgs(t) /\ exec'[t] = exec[t],
           \A m \in net' : m.what \in Command => m \in net \/ m \in CommandMsgs(s)',
           \A m \in CommandMsgs(s)' : Commands /\ OnItsWay(m),
           \A m1, m2 \in CommandMsgs(s)' : m1 = m2,
           exec'[s] # NoBlock => CommandMsgs(s)' = {} /\ Commands /\ exec'[s].cmd = op(Rank0),
           Commands => acks' = Cardinality(Server \ Outstanding')
    PROVE  CommandInv'
<1>1. Commands' <=> Commands
  BY DEF Commands
<1>2. \A m : OnItsWay(m)' <=> OnItsWay(m)
  BY DEF OnItsWay
<1>3. \A m \in net' : m.what \in Command => Commands' /\ OnItsWay(m)'
  BY <1>1, <1>2 DEF CommandInv
<1>4. \A t \in Server :
        /\ \A m1, m2 \in CommandMsgs(t)' : m1 = m2
        /\ exec'[t] # NoBlock => CommandMsgs(t)' = {} /\ Commands' /\ exec'[t].cmd = op(Rank0)'
  BY <1>1 DEF CommandInv
<1> QED
  BY <1>1, <1>3, <1>4 DEF CommandInv

LEMMA OneServerMode ==
    ASSUME ModeInv, UNCHANGED <<pc, waiting>>, NEW s \in Server,
           \A t \in Server : t # s =>
             CommandMsgs(t)' = CommandMsgs(t) /\ exec'[t] = exec[t] /\ sync_mode'[t] = sync_mode[t],
           sync_mode[s] => sync_mode'[s],
           exec'[s] # NoBlock => exec'[s].cmd # "kSyncMode",
           Commands /\ op(Rank0) = "kSyncMode" =>
             sync_mode'[s] \/ \E m \in CommandMsgs(s)' : m.request
    PROVE  ModeInv'
<1>1. /\ op(Rank0)' = op(Rank0) /\ (Commands' <=> Commands)
      /\ Waits(Rank0, "kStopServer")' <=> Waits(Rank0, "kStopServer")
  BY DEF op, Waits, Commands
<1>2. pc'[Rank0] > 2 => \A t \in Server : sync_mode'[t]
  BY DEF ModeInv
<1>3. Commands' /\ op(Rank0)' = "kSyncMode" =>
         \A t \in Server : sync_mode'[t] \/ \E m \in CommandMsgs(t)' : m.request
  BY <1>1 DEF ModeInv
<1>4. \A t \in Server : exec'[t] # NoBlock => exec'[t].cmd # "kSyncMode"
  BY DEF ModeInv
<1> QED
  BY <1>1, <1>2, <1>3, <1>4 DEF ModeInv

\* The servers that have answered are those whose messages and blocks are gone.
LEMMA SameOutstanding ==
    ASSUME NEW s \in Server,
           \A t \in Server : t # s => CommandMsgs(t)' = CommandMsgs(t) /\ exec'[t] = exec[t],
           s \in Outstanding, CommandMsgs(s)' # {} \/ exec'[s] # NoBlock
    PROVE  Outstanding' = Outstanding
BY DEF Outstanding

LEMMA RelayCommands ==
    ASSUME LifeInv, NEW m \in net, Relay(m)
    PROVE  CommandInv' /\ ModeInv'
<1> USE DEF LifeInv
<1> DEFINE k == Msg(m.what, m.request, m.src, m.dst, m.to, m.dst)
<1>1. m.what \in Command /\ net' = (net \ {m}) \cup {k}
  BY DEF Relay
<1>2. UNCHANGED <<pc, waiting, acks, sync_mode, exec>>
  BY DEF Relay
<1>3. PICK s \in Server :
             /\ s = IF m.request THEN m.dst ELSE m.src
             /\ CommandMsgs(s) = {m} /\ exec[s] = NoBlock
             /\ \A t \in Server : t # s => m \notin CommandMsgs(t)
             /\ Commands /\ OnItsWay(m)
  BY <1>1, CommandFacts
<1>4. k.what = m.what /\ k.request = m.request /\ k.src = m.src /\ k.dst = m.dst /\ k.to = m.dst
      /\ k.from = m.to /\ m.to # m.dst
  BY DEF Msg, Relay
<1> HIDE DEF k
<1>5. CommandMsgs(s)' = {k}
  <2>1. s \in {k.src, k.dst}
    BY <1>3, <1>4
  <2> QED
    BY <2>1, <1>1, <1>3, <1>4 DEF CommandMsgs
<1>6. \A t \in Server : t # s => CommandMsgs(t)' = CommandMsgs(t)
  BY <1>1, <1>3, <1>4 DEF CommandMsgs
<1>7. OnItsWay(k)
  BY <1>3, <1>4, GroupFacts DEF OnItsWay
<1>8. Outstanding' = Outstanding
  <2>1. s \in Outstanding
    BY <1>3 DEF Outstanding
  <2> QED
    BY <1>2, <1>5, <1>6, <2>1, SameOutstanding
<1>9. op(Rank0)' = op(Rank0)
  BY <1>2 DEF op
<1>10. CommandInv'
  <2>1. acks' = Cardinality(Server \ Outstanding')
    BY <1>2, <1>3, <1>8 DEF CommandInv
  <2>2. \A x \in net' : x.what \in Command => x \in net \/ x \in CommandMsgs(s)'
    BY <1>1, <1>5
  <2> QED
    BY <1>2, <1>3, <1>5, <1>6, <1>7, <1>9, <2>1, <2>2, OneServer
<1>11. ModeInv'
  <2>1. op(Rank0) = "kSyncMode" => sync_mode[s] \/ m.request
    BY <1>3 DEF ModeInv
  <2> QED
    BY <1>2, <1>3, <1>4, <1>5, <1>6, <2>1, OneServerMode
<1> QED
  BY <1>10, <1>11

\* A server handles a command: the mode is set and answered at once, the others
\* become the block of its Executor.
LEMMA HandleCommands ==
    ASSUME LifeInv, NEW m \in net, CommandHandle(m)
    PROVE  CommandInv' /\ ModeInv'
<1> USE DEF LifeInv
<1>1. m.what \in Command /\ m.request
  BY DEF CommandHandle
<1>2. UNCHANGED <<pc, waiting, acks>>
  BY DEF CommandHandle
<1>3. PICK s \in Server :
             /\ s = IF m.request THEN m.dst ELSE m.src
             /\ CommandMsgs(s) = {m} /\ exec[s] = NoBlock
             /\ \A t \in Server : t # s => m \notin CommandMsgs(t)
             /\ Commands /\ OnItsWay(m)
  BY <1>1, CommandFacts
<1>4. s = m.dst /\ m.src = Rank0 /\ m.what = op(Rank0)
  BY <1>1, <1>3 DEF OnItsWay
<1>5. op(Rank0)' = op(Rank0)
  BY <1>2 DEF op
<1>6. s \in Outstanding
  BY <1>3 DEF Outstanding
<1>7. acks = Cardinality(Server \ Outstanding)
  BY <1>3 DEF CommandInv
<1>8. CASE m.what = "kSyncMode"
  <2> DEFINE k == Response(m.what, s, Rank0)
  <2>1. net' = (net \ {m}) \cup {k} /\ exec' = exec
    BY <1>4, <1>8 DEF CommandHandle
  <2>2. sync_mode'[s] /\ \A t \in Server : t # s => sync_mode'[t] = sync_mode[t]
    BY <1>4, <1>8 DEF CommandHandle, TypeOK
  <2>3. k.what = m.what /\ k.request = FALSE /\ k.src = s /\ k.dst = Rank0 /\ k.from = s
        /\ k.to = IF OwnServer[Rank0] = s THEN Rank0 ELSE OwnServer[Rank0]
    BY DEF Response, Msg
  <2> HIDE DEF k
  <2>4. CommandMsgs(s)' = {k}
    BY <2>1, <2>3, <1>1, <1>3 DEF CommandMsgs
  <2>5. \A t \in Server : t # s => CommandMsgs(t)' = CommandMsgs(t)
    BY <2>1, <2>3, <1>1, <1>3, GroupFacts DEF CommandMsgs
  <2>6. OnItsWay(k)
    BY <2>3, <1>4 DEF OnItsWay
  <2>7. Outstanding' = Outstanding
    BY <2>1, <2>4, <2>5, <1>6, SameOutstanding
  <2>8. \A x \in net' : x.what \in Command => x \in net \/ x \in CommandMsgs(s)'
    BY <2>1, <2>4
  <2>9. CommandInv'
    BY <1>2, <1>3, <1>5, <1>7, <2>1, <2>4, <2>5, <2>6, <2>7, <2>8, OneServer
  <2>10. ModeInv'
    BY <1>2, <1>3, <2>1, <2>2, <2>5, OneServerMode
  <2> QED
    BY <2>9, <2>10
<1>9. CASE m.what # "kSyncMode"
  <2>1. net' = net \ {m} /\ sync_mode' = sync_mode
    BY <1>9 DEF CommandHandle
  <2>2. exec'[s] = [cmd |-> m.what, done |-> FALSE] /\ \A t \in Server : t # s => exec'[t] = exec[t]
    BY <1>4, <1>9 DEF CommandHandle, TypeOK
  <2>3. exec'[s].cmd = m.what /\ exec'[s] # NoBlock
    BY <2>2 DEF NoBlock
  <2>4. CommandMsgs(s)' = {}
    BY <2>1, <1>3 DEF CommandMsgs
  <2>5. \A t \in Server : t # s => CommandMsgs(t)' = CommandMsgs(t)
    BY <2>1, <1>3 DEF CommandMsgs
  <2>6. Outstanding' = Outstanding
    BY <2>2, <2>3, <2>5, <1>6, SameOutstanding
  <2>7. CommandInv'
    BY <1>2, <1>3, <1>4, <1>5, <1>7, <2>1, <2>2, <2>3, <2>4, <2>5, <2>6, OneServer
  <2>8. ModeInv'
    BY <1>2, <1>3, <1>4, <1>9, <2>1, <2>2, <2>3, <2>5, OneServerMode
  <2> QED
    BY <2>7, <2>8
<1> QED
  BY <1>8, <1>9

\* A promise is set: the answer to the command follows.
LEMMA ResponseCommands ==
    ASSUME LifeInv, NEW s \in Server, CommandResponse(s)
    PROVE  CommandInv' /\ ModeInv'
<1> USE DEF LifeInv
<1> DEFINE k == Response(exec[s].cmd, s, Rank0)
<1>1. exec[s] # NoBlock /\ net' = net \cup {k} /\ UNCHANGED <<pc, waiting, acks, sync_mode>>
  BY DEF CommandResponse
<1>2. exec'[s] = NoBlock /\ \A t \in Server : t # s => exec'[t] = exec[t]
  BY DEF CommandResponse, TypeOK
<1>3. CommandMsgs(s) = {} /\ Commands /\ exec[s].cmd = op(Rank0) /\ op(Rank0) # "kSyncMode"
  BY <1>1 DEF CommandInv, ModeInv
<1>4. k.what = op(Rank0) /\ k.request = FALSE /\ k.src = s /\ k.dst = Rank0 /\ k.from = s
      /\ k.to = IF OwnServer[Rank0] = s THEN Rank0 ELSE OwnServer[Rank0]
  BY <1>3 DEF Response, Msg
<1> HIDE DEF k
<1>5. CommandMsgs(s)' = {k}
  BY <1>1, <1>3, <1>4 DEF CommandMsgs, Commands
<1>6. \A t \in Server : t # s => CommandMsgs(t)' = CommandMsgs(t)
  BY <1>1, <1>4, GroupFacts DEF CommandMsgs
<1>7. OnItsWay(k)
  BY <1>4 DEF OnItsWay
<1>8. Outstanding' = Outstanding
  <2>1. s \in Outstanding
    BY <1>1 DEF Outstanding
  <2> QED
    BY <1>2, <1>5, <1>6, <2>1, SameOutstanding
<1>9. op(Rank0)' = op(Rank0)
  BY <1>1 DEF op
<1>10. CommandInv'
  <2>1. acks' = Cardinality(Server \ Outstanding')
    BY <1>1, <1>3, <1>8 DEF CommandInv
  <2>2. \A x \in net' : x.what \in Command => x \in net \/ x \in CommandMsgs(s)'
    BY <1>1, <1>5
  <2> QED
    BY <1>1, <1>2, <1>3, <1>5, <1>6, <1>7, <1>9, <2>1, <2>2, OneServer
<1>11. ModeInv'
  BY <1>1, <1>2, <1>3, <1>6, OneServerMode
<1> QED
  BY <1>10, <1>11

\* Rank 0 counts an answer: one server less is outstanding.
LEMMA CountCommands ==
    ASSUME LifeInv, NEW m \in net, AddResponse(m)
    PROVE  CommandInv' /\ ModeInv' /\ acks' \in 0..Cardinality(Server)
<1> USE DEF LifeInv
<1>1. m.what \in Command /\ ~m.request /\ net' = net \ {m} /\ acks' = acks + 1
      /\ UNCHANGED <<pc, waiting, exec, sync_mode>>
  BY DEF AddResponse
<1>2. PICK s \in Server :
             /\ s = IF m.request THEN m.dst ELSE m.src
             /\ CommandMsgs(s) = {m} /\ exec[s] = NoBlock
             /\ \A t \in Server : t # s => m \notin CommandMsgs(t)
             /\ Commands /\ OnItsWay(m)
  BY <1>1, CommandFacts
<1>3. CommandMsgs(s)' = {}
  BY <1>1, <1>2 DEF CommandMsgs
<1>4. \A t \in Server : t # s => CommandMsgs(t)' = CommandMsgs(t)
  BY <1>1, <1>2 DEF CommandMsgs
<1>5. op(Rank0)' = op(Rank0)
  BY <1>1 DEF op
<1>6. s \in Outstanding /\ Outstanding' = Outstanding \ {s}
  BY <1>1, <1>2, <1>3, <1>4 DEF Outstanding
<1>7. acks' = Cardinality(Server \ Outstanding')
  <2> DEFINE A == Server \ Outstanding
  <2>1. IsFiniteSet(A) /\ s \notin A
    BY <1>6, GroupFacts, FS_Subset
  <2>2. acks = Cardinality(A)
    BY <1>2 DEF CommandInv
  <2>3. Server \ Outstanding' = A \cup {s}
    BY <1>6
  <2> HIDE DEF A
  <2> QED
    BY <1>1, <2>1, <2>2, <2>3, FS_AddElement
<1>8. acks' \in 0..Cardinality(Server)
  <2>1. Server \ Outstanding' \subseteq Server /\ IsFiniteSet(Server)
    BY GroupFacts
  <2>2. Cardinality(Server \ Outstanding') <= Cardinality(Server)
    BY <2>1, FS_Subset
  <2> QED
    BY <1>1, <1>7, <2>1, <2>2, FS_CardinalityType DEF TypeOK
<1>9. CommandInv'
  BY <1>1, <1>2, <1>3, <1>4, <1>5, <1>7, OneServer
<1>10. ModeInv'
  <2>1. op(Rank0) = "kSyncMode" => sync_mode[s]
    BY <1>1, <1>2 DEF ModeInv
  <2> QED
    BY <1>1, <1>2, <1>4, <2>1, OneServerMode
<1> QED
  BY <1>8, <1>9, <1>10

\* Rank 0 sends a command: there is no other.
LEMMA SendCommands ==
    ASSUME LifeInv, NEW w \in Worker, SendCommandToServers(w)
    PROVE  CommandInv' /\ ModeInv'
<1> USE DEF LifeInv
<1> USE GroupFacts
<1> DEFINE c == op(Rank0)
           k(s) == Request(c, Rank0, s)
<1>1. w = Rank0 /\ c \in Command /\ ~waiting[Rank0]
  BY OpFacts DEF SendCommandToServers
<1>2. net' = net \cup {k(s) : s \in Server} /\ acks' = 0 /\ UNCHANGED <<pc, exec, sync_mode>>
      /\ waiting'[Rank0]
  BY <1>1 DEF SendCommandToServers, NewRequest, Suspend, TypeOK
<1>3. ~Commands /\ Commands' /\ op(Rank0)' = c
  BY <1>1, <1>2 DEF Commands, op
<1>4. (\A m \in net : m.what \notin Command) /\ \A s \in Server : exec[s] = NoBlock
  BY <1>3 DEF CommandInv
<1>5. \A s \in Server : /\ k(s).what = c /\ k(s).request /\ k(s).src = Rank0 /\ k(s).dst = s
                        /\ k(s).from = Rank0 /\ k(s).to = OwnServer[Rank0]
  BY DEF Request, Msg
<1> HIDE DEF k, c
<1>6. \A s \in Server : CommandMsgs(s)' = {k(s)}
  BY <1>1, <1>2, <1>4, <1>5 DEF CommandMsgs
<1>7. Outstanding' = Server
  BY <1>6 DEF Outstanding
<1>8. acks' = Cardinality(Server \ Outstanding')
  BY <1>2, <1>7, FS_EmptySet
<1>9. \A m \in net' : m.what \in Command => Commands' /\ OnItsWay(m)'
  BY <1>2, <1>3, <1>4, <1>5 DEF OnItsWay
<1>10. CommandInv'
  BY <1>2, <1>4, <1>6, <1>8, <1>9 DEF CommandInv
<1>11. ModeInv'
  <2>1. \A s \in Server : \E m \in CommandMsgs(s)' : m.request
    BY <1>5, <1>6
  <2>2. ~Waits(Rank0, "kStopServer")
    BY <1>1 DEF Waits
  <2> QED
    BY <1>2, <1>4, <2>1, <2>2 DEF ModeInv
<1> QED
  BY <1>10, <1>11

\* Rank 0 goes on once every server has answered: nothing of the command is left.
LEMMA WaitCommands ==
    ASSUME LifeInv, NEW w \in Worker, WaitRequest(w)
    PROVE  CommandInv' /\ ModeInv'
<1> USE DEF LifeInv
<1> USE GroupFacts
<1>1. w = Rank0 /\ op(Rank0) \in Command /\ waiting[Rank0] /\ 2 <= pc[Rank0] /\ pc[Rank0] \in Nat
  BY OpFacts DEF WaitRequest
<1>2. UNCHANGED <<net, acks, exec, sync_mode>> /\ pc'[Rank0] = pc[Rank0] + 1 /\ ~waiting'[Rank0]
      /\ \A s \in Server : pc'[s] = pc[s]
  BY <1>1 DEF WaitRequest, Advance, TypeOK
<1>3. Commands /\ ~Commands'
  BY <1>1, <1>2 DEF Commands
<1>4. Outstanding = {}
  <2>1. Cardinality(Server \ Outstanding) = Cardinality(Server)
    BY <1>3 DEF CommandInv, WaitRequest, AllResponded
  <2>2. Server \ Outstanding = Server
    BY <2>1, FS_Subset
  <2> QED
    BY <2>2 DEF Outstanding
<1>5. \A s \in Server : CommandMsgs(s) = {} /\ exec[s] = NoBlock
  BY <1>4 DEF Outstanding
<1>6. \A m \in net : m.what \notin Command
  <2> SUFFICES ASSUME NEW m \in net, m.what \in Command PROVE FALSE
    OBVIOUS
  <2>1. PICK s \in Server : CommandMsgs(s) = {m}
    BY CommandFacts
  <2> QED
    BY <1>5, <2>1
<1>7. \A s : CommandMsgs(s)' = {}
  BY <1>2, <1>6 DEF CommandMsgs
<1>8. CommandInv'
  BY <1>2, <1>3, <1>5, <1>6, <1>7 DEF CommandInv
<1>9. \A s \in Server : sync_mode[s]
  BY Rank0Facts, <1>1, <1>3, <1>5 DEF ModeInv
<1>10. op(Rank0) = "kStopServer" => pc'[Rank0] >= LastAll(Rank0)
  BY Rank0Facts, <1>1, <1>2
<1>11. \A s \in Server : pc'[s] > 2 => pc'[Rank0] >= LastAll(Rank0)
  BY Rank0Facts, <1>1, <1>2, <1>10 DEF ModeInv, Waits
<1> QED
  BY <1>2, <1>3, <1>5, <1>8, <1>9, <1>11 DEF ModeInv

\* The main thread of a server runs the block; the last one ends its loop.
LEMMA ExecuteCommands ==
    ASSUME LifeInv, NEW s \in Server, ExecutorStart(s)
    PROVE  CommandInv' /\ ModeInv'
<1> USE DEF LifeInv
<1> USE GroupFacts
<1>1. /\ exec'[s] = [cmd |-> exec[s].cmd, done |-> TRUE]
      /\ \A t \in Server : t # s => exec'[t] = exec[t]
      /\ exec[s] # NoBlock /\ UNCHANGED <<net, acks, sync_mode>>
  BY DEF ExecutorStart, TypeOK, NoBlock
<1>2. exec'[s].cmd = exec[s].cmd /\ exec'[s] # NoBlock
  <2>1. exec[s].cmd # "none"
    BY <1>1 DEF TypeOK, Block
  <2>2. exec'[s].cmd = exec[s].cmd /\ NoBlock.cmd = "none"
    BY <1>1 DEF NoBlock
  <2> QED
    BY <2>1, <2>2
<1>3. CommandMsgs(s) = {} /\ Commands /\ exec[s].cmd = op(Rank0)
  BY <1>1 DEF CommandInv
<1>4. /\ \A k \in Node : k # s => pc'[k] = pc[k] /\ waiting'[k] = waiting[k]
      /\ pc'[s] # pc[s] => exec[s].cmd = "kStopServer"
  BY DEF ExecutorStart, Advance, TypeOK
<1>5. pc'[Rank0] = pc[Rank0] /\ waiting'[Rank0] = waiting[Rank0] /\ op(Rank0)' = op(Rank0)
  BY <1>4 DEF op
<1>6. \A t : CommandMsgs(t)' = CommandMsgs(t)
  BY <1>1 DEF CommandMsgs
<1>7. Outstanding' = Outstanding
  <2>1. s \in Outstanding
    BY <1>1 DEF Outstanding
  <2> QED
    BY <1>1, <1>2, <1>6, <2>1, SameOutstanding
<1>8. CommandInv'
  <2>1. acks' = Cardinality(Server \ Outstanding')
    BY <1>1, <1>3, <1>7 DEF CommandInv
  <2> QED
    BY <1>1, <1>2, <1>3, <1>5, <1>6, <2>1, OneServer
<1>9. /\ Commands' <=> Commands
      /\ Waits(Rank0, "kStopServer")' <=> Waits(Rank0, "kStopServer")
  BY <1>5 DEF Commands, Waits
<1>10. \A t \in Server : pc'[t] > 2 => pc[t] > 2 \/ Waits(Rank0, "kStopServer")
  <2>1. exec[s].cmd = "kStopServer" => Waits(Rank0, "kStopServer")
    BY <1>3 DEF Commands, Waits
  <2> QED
    BY <2>1, <1>4
<1>11. \A t \in Server : exec'[t] # NoBlock => exec'[t].cmd # "kSyncMode"
  BY <1>1, <1>2 DEF ModeInv
<1> QED
  BY <1>1, <1>5, <1>6, <1>8, <1>9, <1>10, <1>11 DEF ModeInv

----------------------------------------------------------------------------
(* The history.                                                             *)

LEMMA EnterHistory ==
    ASSUME TypeOK, HistoryInv, NEW n \in Node, NEW g \in Group, BarrierEnter(n, g)
    PROVE  HistoryInv'
<1>1. op(n) = g /\ ~waiting[n]
  BY DEF BarrierEnter, Begins
<1>2. UNCHANGED <<pc, left>>
  BY DEF BarrierEnter, Suspend
<1>3. \A k \in Node, h \in Group : Waits(k, h)' <=> (Waits(k, h) \/ (k = n /\ h = g))
  BY <1>1 DEF BarrierEnter, Suspend, Waits, op, TypeOK
<1>4. \A k \in Node, h \in Group :
        entered'[h][k] = IF k = n /\ h = g THEN entered[h][k] + 1 ELSE entered[h][k]
  BY DEF BarrierEnter, TypeOK
<1>5. ~Waits(n, g)
  BY <1>1 DEF Waits
<1>6. ASSUME NEW h \in Group, NEW k \in GetNodeIDs(h)
      PROVE  entered'[h][k] = left'[h][k] + IF Waits(k, h)' THEN 1 ELSE 0
  <2>1. k \in Node /\ left[h][k] \in Nat
    BY GroupFacts DEF TypeOK
  <2>2. entered[h][k] = left[h][k] + IF Waits(k, h) THEN 1 ELSE 0
    BY DEF HistoryInv
  <2>3. CASE k = n /\ h = g
    BY <2>1, <2>2, <2>3, <1>2, <1>3, <1>4, <1>5
  <2>4. CASE ~(k = n /\ h = g)
    <3>1. (Waits(k, h)' <=> Waits(k, h)) /\ entered'[h][k] = entered[h][k]
      BY <2>1, <2>4, <1>3, <1>4
    <3> QED
      BY <3>1, <2>2, <1>2
  <2> QED
    BY <2>3, <2>4
<1> QED
  BY <1>2, <1>6 DEF HistoryInv

LEMMA LeaveHistory ==
    ASSUME TypeOK, HistoryInv, NEW n \in Node, NEW g \in Group, BarrierLeave(n, g)
    PROVE  HistoryInv'
<1>1. op(n) = g /\ waiting[n] /\ n \in GetNodeIDs(g) /\ Waits(n, g)
      /\ pc[n] \in 1..Len(Program(n)) /\ g = StepAt(n, pc[n])
  BY OpFacts, GroupFacts DEF BarrierLeave, Waits
<1>2. entered' = entered
  BY DEF BarrierLeave
<1>3. \A k \in Node, h \in Group : Waits(k, h)' <=> (Waits(k, h) /\ k # n)
  BY DEF BarrierLeave, Advance, Waits, op, TypeOK
<1>4. \A k \in Node, h \in Group :
        left'[h][k] = IF k = n /\ h = g THEN left[h][k] + 1 ELSE left[h][k]
  BY DEF BarrierLeave, TypeOK
<1>5. pc'[n] = pc[n] + 1 /\ \A k \in Node : k # n => pc'[k] = pc[k]
  BY DEF BarrierLeave, Advance, TypeOK
<1>6. \A k \in Node, h \in Group : left[h][k] \in Nat
  BY DEF TypeOK
<1>7. ASSUME NEW k \in Node PROVE left'["All"][k] = AllBefore(k, pc'[k])
  <2>1. left["All"][k] = AllBefore(k, pc[k])
    BY DEF HistoryInv
  <2>2. CASE k = n
    <3>1. AllBefore(n, pc[n] + 1) = AllBefore(n, pc[n]) + IF g = "All" THEN 1 ELSE 0
      BY <1>1, BeforeNext
    <3>2. left'["All"][n] = left["All"][n] + IF g = "All" THEN 1 ELSE 0
      BY <1>4, <1>6 DEF Group
    <3> QED
      BY <2>1, <2>2, <3>1, <3>2, <1>5
  <2>3. CASE k # n
    BY <2>1, <2>3, <1>4, <1>5 DEF Group
  <2> QED
    BY <2>2, <2>3
<1>8. ASSUME NEW k \in Worker PROVE left'["Workers"][k] = MeetsBefore(k, pc'[k])
  <2>1. left["Workers"][k] = MeetsBefore(k, pc[k]) /\ k \in Node
    BY GroupFacts DEF HistoryInv
  <2>2. CASE k = n
    <3>1. MeetsBefore(n, pc[n] + 1) = MeetsBefore(n, pc[n]) + IF g = "Workers" THEN 1 ELSE 0
      BY <1>1, <2>2, BeforeNext
    <3>2. left'["Workers"][n] = left["Workers"][n] + IF g = "Workers" THEN 1 ELSE 0
      BY <1>4, <1>6 DEF Group
    <3> QED
      BY <2>1, <2>2, <3>1, <3>2, <1>5
  <2>3. CASE k # n
    BY <2>1, <2>3, <1>4, <1>5 DEF Group
  <2> QED
    BY <2>2, <2>3
<1>9. ASSUME NEW h \in Group, NEW k \in GetNodeIDs(h)
      PROVE  entered'[h][k] = left'[h][k] + IF Waits(k, h)' THEN 1 ELSE 0
  <2>1. k \in Node /\ left[h][k] \in Nat
    BY GroupFacts DEF TypeOK
  <2>2. entered[h][k] = left[h][k] + IF Waits(k, h) THEN 1 ELSE 0
    BY DEF HistoryInv
  <2>3. CASE k = n /\ h = g
    BY <2>1, <2>2, <2>3, <1>1, <1>2, <1>3, <1>4
  <2>4. CASE ~(k = n /\ h = g)
    <3>1. Waits(k, h)' <=> Waits(k, h)
      BY <2>1, <2>4, <1>1, <1>3 DEF Waits
    <3>2. left'[h][k] = left[h][k]
      BY <2>1, <2>4, <1>4
    <3> QED
      BY <3>1, <3>2, <2>2, <1>2
  <2> QED
    BY <2>3, <2>4
<1> QED
  BY <1>7, <1>8, <1>9 DEF HistoryInv

----------------------------------------------------------------------------
(* Types.                                                                   *)

\* The conjuncts of TypeOK about the main threads.
ThreadTypes ==
    /\ pc \in [Node -> Nat] /\ \A n \in Node : pc[n] \in 1..(Len(Program(n)) + 1)
    /\ waiting \in [Node -> BOOLEAN]

LEMMA MoveTypes ==
    ASSUME TypeOK, NEW n \in Node, op(n) # "done", Advance(n) \/ Suspend(n)
    PROVE  ThreadTypes'
<1>1. pc[n] \in 1..Len(Program(n)) /\ Len(Program(n)) \in Nat
  BY OpFacts, ProgramSteps
<1>2. CASE Advance(n)
  BY <1>1, <1>2 DEF Advance, TypeOK, ThreadTypes
<1>3. CASE Suspend(n)
  BY <1>3 DEF Suspend, TypeOK, ThreadTypes
<1> QED
  BY <1>2, <1>3

LEMMA MsgTypes ==
    ASSUME NEW what \in Group \cup Command \cup {"TERMINATE"}, NEW request \in BOOLEAN,
           NEW src \in Node, NEW dst \in Node, NEW from \in Node, NEW to \in Node
    PROVE  Msg(what, request, src, dst, from, to) \in Message
BY DEF Msg, Message

LEMMA BarrierTypes ==
    ASSUME LifeInv, NEW n \in Node, NEW g \in Group, BarrierEnter(n, g) \/ BarrierLeave(n, g)
    PROVE  TypeOK'
<1> USE DEF LifeInv
<1>1. op(n) = g /\ op(n) # "done"
  BY GroupFacts DEF BarrierEnter, BarrierLeave, Begins, Waits
<1>2. ThreadTypes'
  BY <1>1, MoveTypes DEF BarrierEnter, BarrierLeave
<1>3. CASE BarrierEnter(n, g)
  <2>1. Direct(g, TRUE, n, Scheduler) \in Message
    BY MsgTypes, GroupFacts DEF Direct
  <2>2. net' \subseteq Message
    BY <2>1, <1>3 DEF BarrierEnter, TypeOK
  <2>3. entered' \in [Group -> [Node -> Nat]]
    BY <1>3 DEF BarrierEnter, TypeOK
  <2> QED
    BY <1>2, <1>3, <2>2, <2>3 DEF BarrierEnter, TypeOK, ThreadTypes
<1>4. CASE BarrierLeave(n, g)
  <2>1. left' \in [Group -> [Node -> Nat]]
    BY <1>4 DEF BarrierLeave, TypeOK
  <2> QED
    BY <1>2, <1>4, <2>1 DEF BarrierLeave, TypeOK, ThreadTypes
<1> QED
  BY <1>3, <1>4

LEMMA CountTypes ==
    ASSUME LifeInv, NEW m \in net, ProcessBarrierRequest(m) \/ Manage(m)
    PROVE  TypeOK'
<1> USE DEF LifeInv
<1>1. m \in Message
  BY DEF TypeOK
<1>2. CASE ProcessBarrierRequest(m)
  <2>1. \A n \in Node : Direct(m.what, FALSE, Scheduler, n) \in Message
    BY <1>2, MsgTypes, GroupFacts DEF Direct, ProcessBarrierRequest
  <2>2. net' \subseteq Message
    <3>1. GetNodeIDs(m.what) \subseteq Node
      BY <1>2, GroupFacts DEF ProcessBarrierRequest
    <3>2. {Direct(m.what, FALSE, Scheduler, n) :
             n \in GetNodeIDs(m.what)} \subseteq Message
      BY <2>1, <3>1
    <3>3. net \subseteq Message
      BY DEF TypeOK
    <3> QED
      BY <1>2, <3>2, <3>3 DEF ProcessBarrierRequest, Answers
  <2>3. barrier_count' \in [Group -> Nat]
    BY <1>2 DEF ProcessBarrierRequest, TypeOK
  <2> QED
    BY <1>2, <2>2, <2>3 DEF ProcessBarrierRequest, TypeOK
<1>3. CASE Manage(m)
  BY <1>3 DEF Manage, TypeOK
<1> QED
  BY <1>2, <1>3

LEMMA CommandTypes ==
    ASSUME LifeInv, NEW w \in Worker, SendCommandToServers(w) \/ WaitRequest(w)
    PROVE  TypeOK'
<1> USE DEF LifeInv
<1>1. op(w) \in Command /\ op(w) # "done" /\ w \in Node
  BY GroupFacts DEF SendCommandToServers, WaitRequest
<1>2. ThreadTypes'
  BY <1>1, MoveTypes DEF SendCommandToServers, WaitRequest
<1>3. CASE SendCommandToServers(w)
  <2>1. \A s \in Server : Request(op(w), w, s) \in Message
    BY <1>1, MsgTypes, GroupFacts, LifecycleAssumption DEF Request
  <2>2. net' \subseteq Message
    BY <2>1, <1>3 DEF SendCommandToServers, TypeOK
  <2>3. acks' \in 0..Cardinality(Server)
    BY <1>3, GroupFacts, FS_CardinalityType DEF SendCommandToServers, NewRequest
  <2> QED
    BY <1>2, <1>3, <2>2, <2>3 DEF SendCommandToServers, TypeOK, ThreadTypes
<1>4. CASE WaitRequest(w)
  BY <1>2, <1>4 DEF WaitRequest, TypeOK, ThreadTypes
<1> QED
  BY <1>3, <1>4

LEMMA HandlerTypes ==
    ASSUME LifeInv, NEW m \in net, Relay(m) \/ CommandHandle(m) \/ AddResponse(m)
    PROVE  TypeOK'
<1> USE DEF LifeInv
<1>1. m \in Message
  BY DEF TypeOK
<1>2. CASE Relay(m)
  <2>1. Msg(m.what, m.request, m.src, m.dst, m.to, m.dst) \in Message
    BY <1>1, MsgTypes DEF Message
  <2>2. net' \subseteq Message
    BY <1>2, <2>1 DEF Relay, TypeOK
  <2> QED
    BY <1>2, <2>2 DEF Relay, TypeOK
<1>3. CASE CommandHandle(m)
  <2>0. m.what \in Command /\ m.request
    BY <1>3 DEF CommandHandle
  <2>2. m.dst \in Server /\ m.src = Rank0
    BY <2>0, CommandFacts DEF OnItsWay
  <2>3. CASE m.what = "kSyncMode"
    <3>1. Response(m.what, m.dst, Rank0) \in Message
      BY <2>0, <2>2, MsgTypes, GroupFacts DEF Response
    <3>2. net' \subseteq Message /\ sync_mode' \in [Server -> BOOLEAN] /\ exec' = exec
      BY <1>3, <2>2, <2>3, <3>1 DEF CommandHandle, TypeOK
    <3> QED
      BY <1>3, <3>2 DEF CommandHandle, TypeOK
  <2>4. CASE m.what # "kSyncMode"
    <3>1. [cmd |-> m.what, done |-> FALSE] \in Block
      BY <2>0, <2>4 DEF Block, Command
    <3>2. net' \subseteq Message /\ sync_mode' = sync_mode
          /\ exec' = [exec EXCEPT ![m.dst] = [cmd |-> m.what, done |-> FALSE]]
      BY <1>3, <2>4 DEF CommandHandle, TypeOK
    <3>3. exec' \in [Server -> Block \cup {NoBlock}]
      BY <3>1, <3>2 DEF TypeOK
    <3> QED
      BY <1>3, <3>2, <3>3 DEF CommandHandle, TypeOK
  <2> QED
    BY <2>3, <2>4
<1>4. CASE AddResponse(m)
  <2>1. acks' \in 0..Cardinality(Server)
    BY <1>4, CountCommands
  <2> QED
    BY <1>4, <2>1 DEF AddResponse, TypeOK
<1> QED
  BY <1>2, <1>3, <1>4

LEMMA ExecutorTypes ==
    ASSUME LifeInv, NEW s \in Server, ExecutorStart(s) \/ CommandResponse(s)
    PROVE  TypeOK'
<1> USE DEF LifeInv
<1>1. CASE ExecutorStart(s)
  <2>1. exec[s] \in Block
    BY <1>1 DEF ExecutorStart, TypeOK, NoBlock
  <2>2. [cmd |-> exec[s].cmd, done |-> TRUE] \in Block
    BY <2>1 DEF Block
  <2>3. exec' \in [Server -> Block \cup {NoBlock}]
    BY <1>1, <2>2 DEF ExecutorStart, TypeOK
  <2>4. ThreadTypes'
    <3>1. CASE Advance(s)
      BY <1>1, <3>1, MoveTypes, GroupFacts DEF ExecutorStart
    <3>2. CASE UNCHANGED <<pc, waiting>>
      BY <3>2 DEF ThreadTypes, TypeOK
    <3> QED
      BY <1>1, <3>1, <3>2 DEF ExecutorStart
  <2> QED
    BY <1>1, <2>3, <2>4 DEF ExecutorStart, TypeOK, ThreadTypes
<1>2. CASE CommandResponse(s)
  <2>1. exec[s] \in Block
    BY <1>2 DEF CommandResponse, TypeOK
  <2>2. Response(exec[s].cmd, s, Rank0) \in Message
    BY <2>1, MsgTypes, GroupFacts DEF Response, Block, Command
  <2>3. net' \subseteq Message
    BY <1>2, <2>2 DEF CommandResponse, TypeOK
  <2>4. exec' \in [Server -> Block \cup {NoBlock}]
    BY <1>2 DEF CommandResponse, TypeOK
  <2> QED
    BY <1>2, <2>3, <2>4 DEF CommandResponse, TypeOK
<1> QED
  BY <1>1, <1>2

LEMMA StopTypes ==
    ASSUME LifeInv, NEW n \in Node, Stop(n) \/ Join(n)
    PROVE  TypeOK'
<1> USE DEF LifeInv
<1>1. op(n) = "Stop"
  BY DEF Stop, Join, Begins, Waits
<1>2. ThreadTypes'
  BY <1>1, MoveTypes DEF Stop, Join
<1>3. CASE Stop(n)
  <2>1. Direct("TERMINATE", TRUE, n, n) \in Message
    BY MsgTypes DEF Direct
  <2>2. net' \subseteq Message
    BY <1>3, <2>1 DEF Stop, TypeOK
  <2> QED
    BY <1>2, <1>3, <2>2 DEF Stop, TypeOK, ThreadTypes
<1>4. CASE Join(n)
  BY <1>2, <1>4 DEF Join, TypeOK, ThreadTypes
<1> QED
  BY <1>3, <1>4

LEMMA TerminateTypes ==
    ASSUME LifeInv, NEW m \in net, ProcessTerminateCommand(m)
    PROVE  TypeOK'
<1>1. /\ receiving' \in [Node -> SUBSET Nat]
      /\ \A n \in Node : receiving'[n] \subseteq receiving[n]
  BY DEF LifeInv, ProcessTerminateCommand, TypeOK
<1> QED
  BY <1>1 DEF LifeInv, ProcessTerminateCommand, TypeOK

----------------------------------------------------------------------------
(* Every step keeps the invariant.                                          *)

LEMMA BarrierSteps ==
    ASSUME LifeInv, NEW n \in Node, NEW g \in Group, BarrierEnter(n, g) \/ BarrierLeave(n, g)
    PROVE  LifeInv'
<1>1. TypeOK'
  BY BarrierTypes
<1>2. HistoryInv'
  BY EnterHistory, LeaveHistory DEF LifeInv
<1>3. BarrierInv'
  BY EnterBarriers, LeaveBarriers
<1>4. op(n) = g /\ (Advance(n) \/ Suspend(n)) /\ UNCHANGED <<exec, acks, sync_mode>>
  BY DEF BarrierEnter, BarrierLeave, Begins, Waits
<1>5. \A m : m.what \in Command => (m \in net' <=> m \in net)
  <2>1. Direct(g, TRUE, n, Scheduler).what = g
    BY DEF Direct, Msg
  <2> QED
    BY <2>1, GroupFacts DEF BarrierEnter, BarrierLeave
<1>6. op(n) \notin Command \cup {"Run", "done"}
  BY <1>4, GroupFacts
<1>7. CommandInv' /\ ModeInv'
  BY <1>4, <1>5, <1>6, MoveCommands DEF LifeInv
<1> QED
  BY <1>1, <1>2, <1>3, <1>7 DEF LifeInv

LEMMA CountSteps ==
    ASSUME LifeInv, NEW m \in net, ProcessBarrierRequest(m) \/ Manage(m)
    PROVE  LifeInv'
<1>1. TypeOK'
  BY CountTypes
<1>2. UNCHANGED <<pc, waiting, entered, left, exec, acks, sync_mode>>
  BY DEF ProcessBarrierRequest, Manage
<1>3. HistoryInv'
  BY <1>2, SteadyHistory DEF LifeInv
<1>4. BarrierInv'
  BY RequestBarriers, AnswerBarriers
<1>5. \A x : x.what \in Command => (x \in net' <=> x \in net)
  <2>1. m.what \in Group
    BY DEF ProcessBarrierRequest, Manage
  <2>2. \A n : Direct(m.what, FALSE, Scheduler, n).what = m.what
    BY DEF Direct, Msg
  <2>3. net \ {m} \subseteq net' /\ \A x \in net' : x \in net \/ x.what = m.what
    BY <2>2 DEF ProcessBarrierRequest, Manage, Answers
  <2> QED
    BY <2>1, <2>3, GroupFacts
<1>6. CommandInv' /\ ModeInv'
  BY <1>2, <1>5, QuietCommands DEF LifeInv
<1> QED
  BY <1>1, <1>3, <1>4, <1>6 DEF LifeInv

LEMMA CommandSteps ==
    ASSUME LifeInv, NEW w \in Worker, SendCommandToServers(w) \/ WaitRequest(w)
    PROVE  LifeInv'
<1>1. TypeOK'
  BY CommandTypes
<1>2. w \in Node /\ op(w) \notin Group \cup {"done"} /\ (Advance(w) \/ Suspend(w))
      /\ UNCHANGED <<entered, left, barrier_done, barrier_count>>
  BY GroupFacts DEF SendCommandToServers, WaitRequest
<1>3. HistoryInv' /\ \A k \in Node, g \in Group : Waits(k, g)' <=> Waits(k, g)
  BY <1>2, MoveHistory DEF LifeInv
<1>4. \A m : m.what \in Group => (m \in net' <=> m \in net)
  <2>1. \A s : Request(op(w), w, s).what = op(w)
    BY DEF Request, Msg
  <2> QED
    BY <2>1, <1>2 DEF SendCommandToServers, WaitRequest
<1>5. BarrierInv'
  BY <1>2, <1>3, <1>4, SteadyBarriers DEF LifeInv
<1>6. CommandInv' /\ ModeInv'
  BY SendCommands, WaitCommands
<1> QED
  BY <1>1, <1>3, <1>5, <1>6 DEF LifeInv

LEMMA HandlerSteps ==
    ASSUME LifeInv, NEW m \in net, Relay(m) \/ CommandHandle(m) \/ AddResponse(m)
    PROVE  LifeInv'
<1>1. TypeOK'
  BY HandlerTypes
<1>2. UNCHANGED <<pc, waiting, entered, left, barrier_done, barrier_count>>
  BY DEF Relay, CommandHandle, AddResponse
<1>3. HistoryInv' /\ \A k \in Node, g \in Group : Waits(k, g)' <=> Waits(k, g)
  BY <1>2, SteadyHistory DEF LifeInv
<1>4. \A x : x.what \in Group => (x \in net' <=> x \in net)
  <2>1. m.what \in Command
    BY DEF Relay, CommandHandle, AddResponse
  <2>2. /\ Msg(m.what, m.request, m.src, m.dst, m.to, m.dst).what = m.what
        /\ Response(m.what, m.dst, m.src).what = m.what
    BY DEF Response, Msg
  <2>3. net' = net \ {m} \/ \E k : k.what = m.what /\ net' = (net \ {m}) \cup {k}
    BY <2>2 DEF Relay, CommandHandle, AddResponse
  <2> QED
    BY <2>1, <2>3, GroupFacts
<1>5. BarrierInv'
  BY <1>2, <1>3, <1>4, SteadyBarriers DEF LifeInv
<1>6. CommandInv' /\ ModeInv'
  BY RelayCommands, HandleCommands, CountCommands
<1> QED
  BY <1>1, <1>3, <1>5, <1>6 DEF LifeInv

LEMMA ExecutorSteps ==
    ASSUME LifeInv, NEW s \in Server, ExecutorStart(s) \/ CommandResponse(s)
    PROVE  LifeInv'
<1>1. TypeOK'
  BY ExecutorTypes
<1>2. UNCHANGED <<entered, left, barrier_done, barrier_count>>
  BY DEF ExecutorStart, CommandResponse
<1>3. HistoryInv' /\ \A k \in Node, g \in Group : Waits(k, g)' <=> Waits(k, g)
  <2>1. CASE UNCHANGED <<pc, waiting>>
    BY <1>2, <2>1, SteadyHistory DEF LifeInv
  <2>2. CASE op(s) = "Run" /\ Advance(s)
    BY <1>2, <2>2, MoveHistory, GroupFacts DEF LifeInv
  <2> QED
    BY <2>1, <2>2 DEF ExecutorStart, CommandResponse
<1>4. \A x : x.what \in Group => (x \in net' <=> x \in net)
  <2>1. CASE ExecutorStart(s)
    BY <2>1 DEF ExecutorStart
  <2>2. CASE CommandResponse(s)
    <3>1. Response(exec[s].cmd, s, Rank0).what = exec[s].cmd
      BY DEF Response, Msg
    <3>2. exec[s].cmd \in Command
      BY <2>2 DEF CommandResponse, LifeInv, CommandInv, Commands
    <3> QED
      BY <2>2, <3>1, <3>2, GroupFacts DEF CommandResponse
  <2> QED
    BY <2>1, <2>2
<1>5. BarrierInv'
  BY <1>2, <1>3, <1>4, SteadyBarriers DEF LifeInv
<1>6. CommandInv' /\ ModeInv'
  BY ExecuteCommands, ResponseCommands
<1> QED
  BY <1>1, <1>3, <1>5, <1>6 DEF LifeInv

\* What a process that closes its sockets may lose is at most an answer of the
\* scheduler: it has no request of its own under way, and commands come from
\* rank 0 while it waits, or from servers, whose Van::Stop does not return.
LEMMA StopSteps ==
    ASSUME LifeInv, NEW n \in Node, Stop(n) \/ Join(n)
    PROVE  LifeInv'
<1> USE DEF LifeInv
<1>1. TypeOK'
  BY StopTypes
<1>2. op(n) = "Stop" /\ (Advance(n) \/ Suspend(n))
      /\ UNCHANGED <<entered, left, barrier_done, barrier_count, exec, acks, sync_mode>>
  BY DEF Stop, Join, Begins, Waits
<1>3. op(n) \notin Group \cup Command \cup {"Run", "done"}
  BY <1>2, GroupFacts
<1>4. HistoryInv' /\ \A k \in Node, g \in Group : Waits(k, g)' <=> Waits(k, g)
  BY <1>2, <1>3, MoveHistory
<1>5. \A m \in net' : m \in net \/ m.what = "TERMINATE"
  <2>1. Direct("TERMINATE", TRUE, n, n).what = "TERMINATE"
    BY DEF Direct, Msg
  <2> QED
    BY <2>1 DEF Stop, Join
<1>6. \A m \in net : m.what \in Group /\ m.request => m \in net'
  <2> SUFFICES ASSUME NEW m \in net, m.what \in Group, m.request, m.from = n PROVE FALSE
    BY DEF Stop, Join
  <2>1. PICK r \in Nat : RoundInv(m.what, r)
    BY DEF BarrierInv
  <2>2. PICK k \in GetNodeIDs(m.what) : m = Ask(m.what, k) /\ entered[m.what][k] = r + 1
    BY <2>1, AskFacts DEF RoundInv
  <2>3. Ask(m.what, k).from = k
    BY DEF Ask, Direct, Msg
  <2>4. k = n
    BY <2>2, <2>3
  <2>5. left[m.what][k] <= r /\ left[m.what][k] \in Nat /\ ~Waits(k, m.what)
    BY <1>3, <2>1, <2>4, GroupFacts DEF RoundInv, TypeOK, Waits
  <2>6. entered[m.what][k] = left[m.what][k]
    BY <2>5 DEF HistoryInv
  <2> QED
    BY <2>1, <2>2, <2>5, <2>6
<1>7. BarrierInv'
  BY <1>2, <1>4, <1>5, <1>6, GroupFacts, SteadyBarriers
<1>8. \A m : m.what \in Command => (m \in net' <=> m \in net)
  <2>1. ASSUME NEW m \in net, m.what \in Command, Join(n), m.from = n PROVE FALSE
    <3>1. Commands /\ OnItsWay(m)
      BY <2>1 DEF CommandInv
    <3>2. n # Rank0
      BY <3>1, <1>3 DEF Commands
    <3>3. n \notin Server
      BY <2>1 DEF Join, sender_thread_group
    <3> QED
      BY <2>1, <3>1, <3>2, <3>3 DEF OnItsWay
  <2>2. \A m \in net : m.what \in Command => m \in net'
    BY <2>1 DEF Stop, Join
  <2> QED
    BY <2>2, <1>5, GroupFacts
<1>9. CommandInv' /\ ModeInv'
  BY <1>2, <1>3, <1>8, MoveCommands
<1> QED
  BY <1>1, <1>4, <1>7, <1>9

LEMMA TerminateSteps ==
    ASSUME LifeInv, NEW m \in net, ProcessTerminateCommand(m)
    PROVE  LifeInv'
<1>1. TypeOK'
  BY TerminateTypes
<1>2. UNCHANGED <<pc, waiting, entered, left, barrier_done, barrier_count, exec, acks, sync_mode>>
  BY DEF ProcessTerminateCommand
<1>3. \A x : x.what \in Group \cup Command => (x \in net' <=> x \in net)
  BY GroupFacts DEF ProcessTerminateCommand
<1>4. HistoryInv' /\ \A k \in Node, g \in Group : Waits(k, g)' <=> Waits(k, g)
  BY <1>2, SteadyHistory DEF LifeInv
<1>5. BarrierInv'
  BY <1>2, <1>3, <1>4, SteadyBarriers DEF LifeInv
<1>6. CommandInv' /\ ModeInv'
  BY <1>2, <1>3, QuietCommands DEF LifeInv
<1> QED
  BY <1>1, <1>4, <1>5, <1>6 DEF LifeInv

LEMMA InitSteps == Init => LifeInv
<1> SUFFICES ASSUME Init PROVE LifeInv
  OBVIOUS
<1> USE GroupFacts, LifecycleAssumption DEF Init
<1>1. TypeOK
  <2>1. \A n \in Node : 1 \in 1..(Len(Program(n)) + 1)
    BY ProgramSteps
  <2>3. 0 \in 0..Cardinality(Server)
    BY FS_CardinalityType
  <2>4. exec \in [Server -> Block \cup {NoBlock}] /\ sync_mode \in [Server -> BOOLEAN]
    OBVIOUS
  <2>5. receiving \in [Node -> SUBSET Nat] /\ \A n \in Node : receiving[n] \subseteq 1..NumEth[n]
    OBVIOUS
  <2>6. entered \in [Group -> [Node -> Nat]] /\ left \in [Group -> [Node -> Nat]]
    OBVIOUS
  <2>7. pc \in [Node -> Nat] /\ \A n \in Node : pc[n] \in 1..(Len(Program(n)) + 1)
    BY <2>1
  <2>8. /\ eth \in Addresses /\ barrier_count \in [Group -> Nat]
        /\ counting \in [1..NumEth[Scheduler] -> Count \cup {Idle}]
    OBVIOUS
  <2> QED
    BY <2>3, <2>4, <2>5, <2>6, <2>7, <2>8 DEF TypeOK
<1>2. \A n \in Node, g \in Group : ~Waits(n, g)
  BY DEF Waits
<1>3. HistoryInv
  <2>1. \A n \in Node : left["All"][n] = 0 /\ left["Workers"][n] = 0 /\ pc[n] = 1
    BY DEF Group
  <2>2. \A n \in Node : AllBefore(n, 1) = 0
    BY DEF AllBefore
  <2>3. \A w \in Worker : MeetsBefore(w, 1) = 0
    BY DEF MeetsBefore, FirstMeet
  <2>4. \A g \in Group : \A n \in GetNodeIDs(g) : entered[g][n] = 0 /\ left[g][n] = 0
    OBVIOUS
  <2>5. \A g \in Group : \A n \in GetNodeIDs(g) :
          entered[g][n] = left[g][n] + IF Waits(n, g) THEN 1 ELSE 0
    BY <2>4, <1>2
  <2>6. \A w \in Worker : left["Workers"][w] = MeetsBefore(w, pc[w])
    BY <2>1, <2>3
  <2>7. \A n \in Node : left["All"][n] = AllBefore(n, pc[n])
    BY <2>1, <2>2
  <2> HIDE DEF Init
  <2> QED
    BY <2>5, <2>6, <2>7 DEF HistoryInv
<1>4. BarrierInv
  <2> SUFFICES ASSUME NEW g \in Group PROVE RoundInv(g, 0)
    BY DEF BarrierInv
  <2>1. Arrived(g, 0) = {}
    BY DEF Arrived
  <2>2. barrier_count[g] = Cardinality(Arrived(g, 0))
    BY <2>1, FS_EmptySet
  <2> QED
    BY <2>2, <1>2 DEF RoundInv
<1>5. ~Commands
  BY DEF Commands
<1>6. CommandInv
  BY <1>5 DEF CommandInv, CommandMsgs
<1>7. ModeInv
  BY <1>5 DEF ModeInv
<1> QED
  BY <1>1, <1>3, <1>4, <1>6, <1>7 DEF LifeInv

\* The steps by which threads of several interfaces count are not taken.
LEMMA IdleSteps == IdleInv /\ [Next]_vars => IdleInv' /\ ~(\E m \in net : LoadCount(m))
                   /\ ~(\E e \in 1..NumEth[Scheduler] : CountRequest(e))
<1> SUFFICES ASSUME IdleInv, [Next]_vars
             PROVE  IdleInv' /\ ~(\E m \in net : LoadCount(m))
                    /\ ~(\E e \in 1..NumEth[Scheduler] : CountRequest(e))
  OBVIOUS
<1>1. ~(\E m \in net : LoadCount(m))
  BY DEF IdleInv, LoadCount
<1>2. ~(\E e \in 1..NumEth[Scheduler] : CountRequest(e))
  <2>1. \A e \in 1..NumEth[Scheduler] : counting[e].at = "idle"
    BY DEF IdleInv, Idle
  <2> QED
    BY <2>1 DEF CountRequest, StoreCount, CompareCount, AnswerGroup
<1>3. counting' = counting /\ eth' = eth
  <2>1. CASE UNCHANGED vars
    BY <2>1 DEF vars
  <2>2. ASSUME NEW n \in Node, Main(n) PROVE counting' = counting /\ eth' = eth
    BY <2>2 DEF Main, BarrierEnter, BarrierLeave, SendCommandToServers, WaitRequest,
                ExecutorStart, Stop, Join
  <2>3. ASSUME NEW n \in Node, Receive(n) PROVE counting' = counting /\ eth' = eth
    BY <2>3, <1>1 DEF Receive, ProcessBarrierRequest, Manage, Relay, CommandHandle,
                      AddResponse, ProcessTerminateCommand
  <2>4. ASSUME NEW s \in Server, CommandResponse(s) PROVE counting' = counting /\ eth' = eth
    BY <2>4 DEF CommandResponse
  <2> QED
    BY <2>1, <2>2, <2>3, <2>4, <1>2 DEF Next
<1>4. OneInterface'
  BY <1>3 DEF IdleInv, OneInterface
<1> QED
  BY <1>1, <1>2, <1>3, <1>4 DEF IdleInv

LEMMA NextSteps == OneThreadInv /\ [Next]_vars => OneThreadInv'
<1> SUFFICES ASSUME LifeInv, IdleInv, [Next]_vars PROVE LifeInv'
  BY IdleSteps DEF OneThreadInv
<1>1. CASE UNCHANGED vars
  <2>1. UNCHANGED <<pc, waiting, entered, left, barrier_done, barrier_count, exec, acks,
                    sync_mode, net, receiving, counting, eth>>
    BY <1>1 DEF vars
  <2>2. TypeOK'
    BY <2>1 DEF LifeInv, TypeOK
  <2>3. HistoryInv' /\ \A k \in Node, g \in Group : Waits(k, g)' <=> Waits(k, g)
    BY <2>1, SteadyHistory DEF LifeInv
  <2>4. BarrierInv'
    BY <2>1, <2>3, SteadyBarriers DEF LifeInv
  <2>5. CommandInv' /\ ModeInv'
    BY <2>1, QuietCommands DEF LifeInv
  <2> QED
    BY <2>2, <2>3, <2>4, <2>5 DEF LifeInv
<1>2. ASSUME NEW n \in Node, Main(n) PROVE LifeInv'
  BY <1>2, BarrierSteps, CommandSteps, ExecutorSteps, StopSteps DEF Main
<1>3. ASSUME NEW n \in Node, Receive(n) PROVE LifeInv'
  BY <1>3, IdleSteps, CountSteps, HandlerSteps, TerminateSteps DEF Receive
<1> QED
  BY <1>1, <1>2, <1>3, IdleSteps, ExecutorSteps DEF Next

\* No step changes the interface a process sends to.
LEMMA SameAddresses == [Next]_vars => eth' = eth
<1> SUFFICES ASSUME [Next]_vars PROVE eth' = eth
  OBVIOUS
<1>1. CASE UNCHANGED vars
  BY <1>1 DEF vars
<1>2. ASSUME NEW n \in Node, Main(n) PROVE eth' = eth
  BY <1>2 DEF Main, BarrierEnter, BarrierLeave, SendCommandToServers, WaitRequest,
              ExecutorStart, Stop, Join
<1>3. ASSUME NEW n \in Node, Receive(n) PROVE eth' = eth
  BY <1>3 DEF Receive, ProcessBarrierRequest, LoadCount, Manage, Relay, CommandHandle,
              AddResponse, ProcessTerminateCommand
<1>4. ASSUME NEW e \in 1..NumEth[Scheduler], CountRequest(e) PROVE eth' = eth
  BY <1>4 DEF CountRequest, StoreCount, CompareCount, AnswerGroup
<1>5. ASSUME NEW s \in Server, CommandResponse(s) PROVE eth' = eth
  BY <1>5 DEF CommandResponse
<1> QED
  BY <1>1, <1>2, <1>3, <1>4, <1>5 DEF Next

\* The invariant holds in every reachable state of a job, of whatever size, when
\* the requests come to the scheduler by one interface.
THEOREM LifeInductive == Spec => [](OneInterface => LifeInv)
<1>1. Init => AddressedInv
  BY InitSteps DEF AddressedInv, OneThreadInv, IdleInv, Init
<1>2. AddressedInv /\ [Next]_vars => AddressedInv'
  <2> SUFFICES ASSUME AddressedInv, [Next]_vars, OneInterface' PROVE OneThreadInv'
    BY DEF AddressedInv
  <2>1. OneInterface
    BY SameAddresses DEF OneInterface
  <2> QED
    BY <2>1, NextSteps DEF AddressedInv
<1>3. AddressedInv => (OneInterface => LifeInv)
  BY DEF AddressedInv, OneThreadInv
<1> QED
  BY <1>1, <1>2, <1>3, PTL DEF Spec

\* Then counts, positions, blocks and messages keep their types.
THEOREM LifecycleTypes == Spec => [](OneInterface => TypeOK)
<1>1. (OneInterface => LifeInv) => (OneInterface => TypeOK)
  BY DEF LifeInv
<1> QED
  BY <1>1, LifeInductive, PTL

----------------------------------------------------------------------------
(* What follows.                                                            *)

\* Nobody leaves the i-th barrier of a group before all its members are in it,
\* although one count serves all barriers of a group and one flag all groups, when
\* one receiving thread of the scheduler counts (van.cc:195 has no lock).
THEOREM BarrierSafeHolds == Spec => []BarrierSafe
<1>1. (OneInterface => LifeInv) => BarrierSafe
  <2> SUFFICES ASSUME LifeInv, NEW g \in Group, NEW n \in GetNodeIDs(g), NEW m \in GetNodeIDs(g)
               PROVE  left[g][n] <= entered[g][m]
    BY DEF BarrierSafe
  <2>1. PICK r \in Nat : RoundInv(g, r)
    BY DEF LifeInv, BarrierInv
  <2>2. left[g][n] <= r /\ entered[g][m] \in {r, r + 1} /\ left[g][n] \in Nat
    BY <2>1, GroupFacts DEF RoundInv, LifeInv, TypeOK
  <2> QED
    BY <2>2
<1> QED
  BY <1>1, LifeInductive, PTL

\* The barriers of rank 0 and of the others: who is past one finds all in it.
LEMMA PastBarrier ==
    ASSUME LifeInv, NEW g \in Group, NEW n \in GetNodeIDs(g), NEW m \in GetNodeIDs(g)
    PROVE  /\ left[g][n] <= left[g][m] + IF Waits(m, g) THEN 1 ELSE 0
           /\ n \in Node /\ m \in Node /\ left[g][n] \in Nat /\ left[g][m] \in Nat
           /\ pc[m] \in 1..(Len(Program(m)) + 1)
<1>1. PICK r \in Nat : RoundInv(g, r)
  BY DEF LifeInv, BarrierInv
<1>2. left[g][n] <= r /\ entered[g][m] \in {r, r + 1} /\ left[g][n] \in Nat /\ left[g][m] \in Nat
      /\ n \in Node /\ m \in Node
  BY <1>1, GroupFacts DEF RoundInv, LifeInv, TypeOK
<1>3. entered[g][m] = left[g][m] + IF Waits(m, g) THEN 1 ELSE 0
  BY DEF LifeInv, HistoryInv
<1> QED
  BY <1>2, <1>3, OpFacts DEF LifeInv

\* A worker past its first Init finds every server in sync mode: rank 0 has met
\* it there, and before that has waited for every server's answer.
THEOREM SyncBeforeTrainingHolds == Spec => []SyncBeforeTraining
<1>1. (OneInterface => LifeInv) => SyncBeforeTraining
  <2> SUFFICES ASSUME LifeInv, NEW w \in Worker, left["Workers"][w] > 0, NEW s \in Server
               PROVE  sync_mode[s]
    BY DEF SyncBeforeTraining
  <2> USE DEF LifeInv
  <2>1. "Workers" \in Group /\ GetNodeIDs("Workers") = Worker /\ Rank0 \in Worker
    BY GroupFacts DEF Group, GetNodeIDs
  <2>2. /\ left["Workers"][Rank0] + (IF Waits(Rank0, "Workers") THEN 1 ELSE 0) > 0
        /\ pc[Rank0] \in Nat
    BY <2>1, PastBarrier
  <2>3. pc[Rank0] > 2
    <3>1. CASE Waits(Rank0, "Workers")
      <4>1. StepAt(Rank0, pc[Rank0]) = "Workers" /\ pc[Rank0] \in 1..(Len(Program(Rank0)) + 1)
        BY <3>1, OpFacts, GroupFacts DEF Waits
      <4>2. pc[Rank0] \in FirstMeet(Rank0)..(FirstMeet(Rank0) + Inits - 1) \/ pc[Rank0] = LastMeet(Rank0)
        BY <4>1, StepFacts, GroupFacts
      <4> QED
        BY <4>2, <2>2, LifecycleAssumption DEF FirstMeet, LastMeet
    <3>2. CASE ~Waits(Rank0, "Workers")
      <4>1. MeetsBefore(Rank0, pc[Rank0]) > 0
        <5>1. left["Workers"][Rank0] = MeetsBefore(Rank0, pc[Rank0]) /\ left["Workers"][Rank0] \in Nat
          BY <2>1, GroupFacts DEF HistoryInv, TypeOK
        <5> QED
          BY <2>2, <3>2, <5>1
      <4> QED
        BY <2>2, <4>1 DEF MeetsBefore, FirstMeet
    <3> QED
      BY <3>1, <3>2
  <2> QED
    BY <2>3 DEF ModeInv
<1> QED
  BY <1>1, LifeInductive, PTL

\* A server leaves its Executor only when rank 0 has sent the last command, and
\* then every worker has trained and entered the barrier of the destructor.
THEOREM ServersOutliveTrainingHolds == Spec => []ServersOutliveTraining
<1>1. (OneInterface => LifeInv) => ServersOutliveTraining
  <2> SUFFICES ASSUME LifeInv, NEW s \in Server, pc[s] > 2, NEW w \in Worker
               PROVE  entered["Workers"][w] = Inits + 1
    BY DEF ServersOutliveTraining, LeftRun
  <2> USE DEF LifeInv
  <2> USE LifecycleAssumption
  <2>1. "Workers" \in Group /\ GetNodeIDs("Workers") = Worker /\ Rank0 \in Worker
    BY GroupFacts DEF Group, GetNodeIDs
  <2>2. pc[Rank0] \in Nat /\ pc[Rank0] >= LastAll(Rank0) - 1
    <3>1. pc[Rank0] \in Nat
      BY OpFacts, GroupFacts
    <3>2. pc[Rank0] >= LastAll(Rank0) \/ op(Rank0) = "kStopServer"
      BY DEF ModeInv, Waits
    <3> QED
      BY <3>1, <3>2, Rank0Facts
  <2>3. LastAll(Rank0) = LastMeet(Rank0) + 2 /\ LastMeet(Rank0) \in Nat
        /\ FirstMeet(Rank0) + Inits <= LastMeet(Rank0) /\ FirstMeet(Rank0) \in Nat
    BY <2>1, WorkerSteps DEF LastAll, LastMeet, FirstMeet
  <2>4. left["Workers"][Rank0] = Inits + 1
    BY <2>1, <2>2, <2>3 DEF HistoryInv, MeetsBefore
  <2>5. /\ Inits + 1 <= left["Workers"][w] + IF Waits(w, "Workers") THEN 1 ELSE 0
        /\ left["Workers"][w] \in Nat /\ pc[w] \in 1..(Len(Program(w)) + 1) /\ w \in Node
    BY <2>1, <2>4, PastBarrier
  <2>6. entered["Workers"][w] = left["Workers"][w] + IF Waits(w, "Workers") THEN 1 ELSE 0
    BY <2>1 DEF HistoryInv
  <2>7. left["Workers"][w] = MeetsBefore(w, pc[w])
    BY DEF HistoryInv
  <2>8. FirstMeet(w) \in Nat /\ LastMeet(w) \in Nat /\ FirstMeet(w) + Inits <= LastMeet(w)
    BY DEF FirstMeet, LastMeet
  <2>9. Waits(w, "Workers") => MeetsBefore(w, pc[w]) <= Inits
    <3> SUFFICES ASSUME Waits(w, "Workers") PROVE MeetsBefore(w, pc[w]) <= Inits
      OBVIOUS
    <3>1. StepAt(w, pc[w]) = "Workers" /\ pc[w] \in Nat
      BY <2>5, OpFacts DEF Waits
    <3>2. pc[w] \in FirstMeet(w)..(FirstMeet(w) + Inits - 1) \/ pc[w] = LastMeet(w)
      BY <3>1, <2>5, StepFacts
    <3> QED
      BY <3>1, <3>2, <2>8 DEF MeetsBefore
  <2>10. MeetsBefore(w, pc[w]) <= Inits + 1
    BY <2>5, <2>8, ProgramSteps DEF MeetsBefore
  <2> QED
    BY <2>5, <2>6, <2>7, <2>9, <2>10
<1> QED
  BY <1>1, LifeInductive, PTL

\* While a process still meets others or waits for a command, nobody is past
\* the barrier of Finalize.
LEMMA NobodyStops ==
    ASSUME LifeInv, NEW n \in Node, NEW k \in Node, pc[k] < LastAll(k)
    PROVE  op(n) \notin {"Stop", "done"}
<1> USE DEF LifeInv
<1>1. "All" \in Group /\ GetNodeIDs("All") = Node
  BY DEF Group, GetNodeIDs
<1>2. /\ left["All"][n] <= left["All"][k] + IF Waits(k, "All") THEN 1 ELSE 0
      /\ pc[k] \in Nat /\ pc[k] >= 1 /\ LastAll(k) \in Nat
  BY <1>1, PastBarrier, OpFacts, ProgramSteps DEF LastAll
<1>3. left["All"][k] = AllBefore(k, pc[k]) /\ left["All"][n] = AllBefore(n, pc[n])
  BY DEF HistoryInv
<1>4. pc[k] # 1 => ~Waits(k, "All")
  <2>1. op(k) = StepAt(k, pc[k]) /\ pc[k] \in 1..(Len(Program(k)) + 1)
    BY OpFacts
  <2>2. StepAt(k, pc[k]) = "All" <=> pc[k] \in {1, LastAll(k)}
    BY <2>1, StepFacts
  <2> QED
    BY <2>1, <2>2, <1>2 DEF Waits
<1>5. AllBefore(n, pc[n]) <= 1
  BY <1>2, <1>3, <1>4 DEF AllBefore
<1>6. pc[n] \in Nat /\ pc[n] <= LastAll(n) /\ LastAll(n) = Len(Program(n)) - 1 /\ Len(Program(n)) \in Nat
  <2>1. pc[n] \in Nat /\ Len(Program(n)) \in Nat /\ Len(Program(n)) >= 3
    BY OpFacts, ProgramSteps
  <2> QED
    BY <2>1, <1>5 DEF AllBefore, LastAll
<1>7. op(n) = StepAt(n, pc[n]) /\ pc[n] \in 1..(Len(Program(n)) + 1)
  BY OpFacts
<1>8. StepAt(n, pc[n]) = "Stop" <=> pc[n] = Len(Program(n))
  BY <1>7, StepFacts
<1>9. StepAt(n, pc[n]) = "done" <=> pc[n] = Len(Program(n)) + 1
  BY <1>7, StepFacts
<1> QED
  BY <1>6, <1>7, <1>8, <1>9

\* A process that stops its Van has no barrier message and no command on its
\* way to it.
THEOREM NothingLeftBehindHolds == Spec => []NothingLeftBehind
<1>1. (OneInterface => LifeInv) => NothingLeftBehind
  <2> SUFFICES ASSUME LifeInv, NEW m \in net, m.what # "TERMINATE"
               PROVE  op(m.to) \notin {"Stop", "done"}
    BY DEF NothingLeftBehind
  <2> USE DEF LifeInv
  <2>1. m.to \in Node /\ m.what \in Group \cup Command
    BY DEF TypeOK, Message
  <2>2. CASE m.what \in Command
    <3>1. op(Rank0) \in Command /\ Rank0 \in Node
      BY <2>2, GroupFacts DEF CommandInv, Commands
    <3>2. pc[Rank0] < LastAll(Rank0)
      BY <3>1, OpFacts
    <3> QED
      BY <2>1, <3>1, <3>2, NobodyStops
  <2>3. CASE m.what \in Group
    <3> DEFINE g == m.what
    <3>1. PICK r \in Nat : RoundInv(g, r)
      BY <2>3 DEF BarrierInv
    <3>2. CASE \E k \in GetNodeIDs(g) : m = Answer(g, k) /\ entered[g][k] = r /\ Waits(k, g)
      <4> HIDE DEF g
      <4>1. PICK k \in GetNodeIDs(g) : m = Answer(g, k) /\ Waits(k, g)
        BY <3>2
      <4>2. m.to = k /\ op(k) = g
        BY <4>1, AskFacts DEF Waits
      <4> QED
        BY <2>3, <4>2, GroupFacts DEF g
    <3>3. CASE \E k \in GetNodeIDs(g) : m = Ask(g, k) /\ entered[g][k] = r + 1
      <4> HIDE DEF g
      <4>1. PICK k \in GetNodeIDs(g) : m = Ask(g, k) /\ entered[g][k] = r + 1
        BY <3>3
      <4>2. g \in Group /\ k \in Node /\ left[g][k] \in Nat /\ left[g][k] <= r
        BY <2>3, <3>1, GroupFacts DEF g, RoundInv, TypeOK
      <4>3. Waits(k, g) /\ left[g][k] = r
        BY <3>1, <4>1, <4>2 DEF HistoryInv
      <4>4. op(k) = StepAt(k, pc[k]) /\ pc[k] \in 1..(Len(Program(k)) + 1) /\ pc[k] \in Nat
        BY <4>2, OpFacts
      <4>5. Len(Program(k)) \in Nat /\ Len(Program(k)) >= 3
        BY <4>2, ProgramSteps
      <4>6. CASE g = "All" /\ pc[k] = LastAll(k)
        <5>1. r = 1
          BY <4>2, <4>3, <4>5, <4>6 DEF HistoryInv, AllBefore, LastAll
        <5>2. left["All"][m.to] <= 1 /\ left["All"][m.to] = AllBefore(m.to, pc[m.to])
          BY <2>1, <3>1, <4>6, <5>1 DEF RoundInv, GetNodeIDs, HistoryInv
        <5>3. op(m.to) = StepAt(m.to, pc[m.to]) /\ pc[m.to] \in 1..(Len(Program(m.to)) + 1)
              /\ pc[m.to] \in Nat /\ Len(Program(m.to)) \in Nat /\ Len(Program(m.to)) >= 3
          BY <2>1, OpFacts, ProgramSteps
        <5>4. pc[m.to] <= Len(Program(m.to)) - 1
          BY <5>2, <5>3 DEF AllBefore, LastAll
        <5>5. StepAt(m.to, pc[m.to]) = "Stop" <=> pc[m.to] = Len(Program(m.to))
          BY <2>1, <5>3, StepFacts
        <5>6. StepAt(m.to, pc[m.to]) = "done" <=> pc[m.to] = Len(Program(m.to)) + 1
          BY <2>1, <5>3, StepFacts
        <5> QED
          BY <5>3, <5>4, <5>5, <5>6
      <4>7. CASE ~(g = "All" /\ pc[k] = LastAll(k))
        <5>1. pc[k] < LastAll(k)
          <6>1. CASE g = "All"
            <7>1. StepAt(k, pc[k]) = "All" <=> pc[k] \in {1, LastAll(k)}
              BY <4>2, <4>4, StepFacts
            <7> QED
              BY <6>1, <7>1, <4>3, <4>4, <4>5, <4>7 DEF Waits, LastAll
          <6>2. CASE g = "Workers"
            <7>1. StepAt(k, pc[k]) = "Workers"
              BY <6>2, <4>3, <4>4 DEF Waits
            <7>2. k \in Worker /\ (pc[k] \in FirstMeet(k)..(FirstMeet(k) + Inits - 1) \/ pc[k] = LastMeet(k))
              BY <7>1, <4>2, <4>4, StepFacts
            <7>3. FirstMeet(k) \in Nat /\ LastMeet(k) \in Nat /\ FirstMeet(k) + Inits <= LastMeet(k)
                  /\ LastMeet(k) < LastAll(k)
              BY <7>2, WorkerSteps, LifecycleAssumption DEF FirstMeet, LastMeet, LastAll
            <7> QED
              BY <7>2, <7>3, <4>4, <4>5, LifecycleAssumption DEF LastAll
          <6> QED
            BY <6>1, <6>2, <4>2 DEF Group
        <5> QED
          BY <2>1, <4>2, <5>1, NobodyStops
      <4> QED
        BY <4>6, <4>7
    <3> QED
      BY <3>1, <3>2, <3>3 DEF RoundInv
  <2> QED
    BY <2>1, <2>2, <2>3
<1> QED
  BY <1>1, LifeInductive, PTL
============================================================================
