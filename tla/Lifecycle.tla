----------------------------- MODULE Lifecycle -----------------------------
(***************************************************************************)
(* The life of a NetStorm job, from the moment every Van is connected to   *)
(* its end: the barriers of Postoffice, counted at the scheduler; the      *)
(* commands that the worker of rank 0 sends to all servers and that the    *)
(* servers' Executor runs on their main threads; Finalize and Van::Stop.   *)
(* What happens between the Init calls and the destructor, the training,   *)
(* is the subject of TreeSync.                                             *)
(***************************************************************************)
EXTENDS Naturals, FiniteSets, Sequences

CONSTANTS
    Worker, Server,     \* the processes of each role
    Scheduler,          \* the process of the scheduler
    Rank0,              \* the worker of rank 0
    OwnServer,          \* the server in the container of a worker
    NumEth,             \* the interfaces a process receives on
    Addresses,          \* the ways to connect each process to one of the scheduler's
    Inits,              \* calls of KVStore::Init
    Controls            \* commands for the controller, such as the optimizer

Node == Worker \cup Server \cup {Scheduler}

\* There are at least two workers: Postoffice::Barrier returns at once for a
\* group of one, and a single worker would meet nobody.
ASSUME LifecycleAssumption ==
    /\ IsFiniteSet(Node) /\ Server # {} /\ Rank0 \in Worker
    /\ Worker # {Rank0}
    /\ Worker \cap Server = {} /\ Scheduler \notin Worker \cup Server
    /\ OwnServer \in [Worker -> Server]
    /\ NumEth \in [Node -> Nat \ {0}]
    /\ Inits \in Nat \ {0} /\ Controls \in Nat
ASSUME EthAssumption == Addresses \subseteq [Node -> 1..NumEth[Scheduler]]

\* The two groups that barriers are made for.
Group == {"All", "Workers"}
GetNodeIDs(group) == IF group = "All" THEN Node ELSE Worker

\* The commands of CommandType that pass between rank 0 and the servers.
Command == {"kSyncMode", "kController", "kStopServer"}

----------------------------------------------------------------------------
(* Programs: what the main thread of each role does, step by step.          *)

Repeat(op, k) == [i \in 1..k |-> op]

\* RunServer, at the scheduler: StartAsync and its barrier, Finalize.
SchedulerProgram == <<"All", "All", "Stop">>

\* Mutants: Finalize without its barrier; Run before the barrier of the start.
ServerProgramNoBarrier == <<"All", "Run", "Stop">>
ServerProgramRunFirst == <<"Run", "All", "All", "Stop">>

\* RunServer, at a server: the barrier, server_->Run(), Finalize.
ServerProgram == <<"All", "Run", "All", "Stop">>

\* What only the worker of rank 0 does.
AtRank0(w, ops) == IF w = Rank0 THEN ops ELSE <<>>

\* KVStore::Create sets the mode of the servers.
CreateOps(w) == AtRank0(w, <<"kSyncMode">>)

\* InitImpl: every call ends with a barrier of the workers.
InitOps == Repeat("Workers", Inits)

\* Mutant: the destructor stops the servers before it meets the other workers.
WorkerProgramStopFirst(w) ==
    <<"All">> \o CreateOps(w) \o InitOps
       \o AtRank0(w, Repeat("kController", Controls))
       \o AtRank0(w, <<"kStopServer">>) \o <<"Workers">>
       \o <<"All", "Stop">>

\* The constructor's barrier, Create, Init, the optimizer, and the destructor,
\* which waits for the engine (the training is over), meets the other workers,
\* stops the servers and calls Finalize.
WorkerProgram(w) ==
    <<"All">> \o CreateOps(w) \o InitOps
       \o AtRank0(w, Repeat("kController", Controls))
       \o <<"Workers">> \o AtRank0(w, <<"kStopServer">>)
       \o <<"All", "Stop">>

Program(n) ==
    CASE n = Scheduler -> SchedulerProgram
      [] n \in Server  -> ServerProgram
      [] n \in Worker  -> WorkerProgram(n)

\* The sending threads of a process: a server has one to its own worker, one
\* to itself and one to each neighbour; the other processes have none.
sender_thread_group(n) ==
    IF n \in Server
    THEN {n} \cup {w \in Worker : OwnServer[w] = n} \cup (Server \ {n})
    ELSE {}

----------------------------------------------------------------------------
VARIABLES
    pc,             \* the position of each main thread in its program
    waiting,        \* whether it has sent what the step sends, and waits
    barrier_done,   \* Postoffice: the flag a barrier waits for
    eth,            \* the interface of the scheduler a process sends to, fixed at the start
    barrier_count,  \* scheduler: requests counted for each group
    counting,       \* scheduler: what the receiving thread of an interface counts
    net,            \* messages under way
    acks,           \* Rank0's tracker_: responses to the last command
    sync_mode,      \* server: the mode it has been set to
    exec,           \* server: the block in the Executor, and its promise
    receiving,      \* receiving threads that run, by interface
    entered,        \* history: barriers entered, by group and process
    left            \* history: barriers left, by group and process

vars == <<pc, waiting, barrier_done, eth, barrier_count, counting, net, acks, sync_mode,
          exec, receiving, entered, left>>

\* All processes are given one DMLC_PS_ROOT_URI, as by the demo scripts; those of
\* klonet_run_start.py give every container another address of the scheduler.
OneInterface == \A n, m \in Node : eth[n] = eth[m]

\* The step the main thread of n is at.
op(n) == IF pc[n] > Len(Program(n)) THEN "done" ELSE Program(n)[pc[n]]

\* n has sent what it has to send and waits, or has not yet sent it.
Waits(n, what) == op(n) = what /\ waiting[n]
Begins(n, what) == op(n) = what /\ ~waiting[n]

\* A message, from one process to the next on its way from src to dst.
Msg(what, request, src, dst, from, to) ==
    [what |-> what, request |-> request,
     src |-> src, dst |-> dst, from |-> from, to |-> to]

Message == [what : Group \cup Command \cup {"TERMINATE"}, request : BOOLEAN,
            src : Node, dst : Node, from : Node, to : Node]

\* A message from one process straight to another.
Direct(what, request, n, m) == Msg(what, request, n, m, n, m)

\* Every worker is served by its own server, which relays what is for others.
Request(what, w, s) == Msg(what, TRUE, w, s, w, OwnServer[w])
Response(what, s, w) ==
    Msg(what, FALSE, s, w, s, IF OwnServer[w] = s THEN w ELSE OwnServer[w])

\* The block of an Executor: which command it is, and whether it has been run.
Block == [cmd : {"kController", "kStopServer"}, done : BOOLEAN]
NoBlock == [cmd |-> "none", done |-> TRUE]

\* A request that a thread is counting: where it is and the count it has seen.
Count == [at : {"loaded", "stored", "full"}, group : Group, seen : Nat]
Idle == [at |-> "idle"]

TypeOK ==
    /\ pc \in [Node -> Nat] /\ \A n \in Node : pc[n] \in 1..(Len(Program(n)) + 1)
    /\ waiting \in [Node -> BOOLEAN]
    /\ barrier_done \in [Node -> BOOLEAN]
    /\ eth \in Addresses
    /\ barrier_count \in [Group -> Nat]
    /\ counting \in [1..NumEth[Scheduler] -> Count \cup {Idle}]
    /\ net \subseteq Message
    /\ acks \in 0..Cardinality(Server)
    /\ sync_mode \in [Server -> BOOLEAN]
    /\ exec \in [Server -> Block \cup {NoBlock}]
    /\ receiving \in [Node -> SUBSET Nat]
    /\ \A n \in Node : receiving[n] \subseteq 1..NumEth[n]
    /\ entered \in [Group -> [Node -> Nat]]
    /\ left \in [Group -> [Node -> Nat]]

Init ==
    /\ pc = [n \in Node |-> 1]
    /\ waiting = [n \in Node |-> FALSE]
    /\ barrier_done = [n \in Node |-> FALSE]
    /\ eth \in Addresses
    /\ barrier_count = [g \in Group |-> 0]
    /\ counting = [e \in 1..NumEth[Scheduler] |-> Idle]
    /\ net = {}
    /\ acks = 0
    /\ sync_mode = [s \in Server |-> FALSE]
    /\ exec = [s \in Server |-> NoBlock]
    /\ receiving = [n \in Node |-> 1..NumEth[n]]
    /\ entered = [g \in Group |-> [n \in Node |-> 0]]
    /\ left = [g \in Group |-> [n \in Node |-> 0]]

\* The main thread of n goes on to its next step.
Advance(n) ==
    /\ pc' = [pc EXCEPT ![n] = @ + 1]
    /\ waiting' = [waiting EXCEPT ![n] = FALSE]

Suspend(n) ==
    /\ waiting' = [waiting EXCEPT ![n] = TRUE]
    /\ UNCHANGED pc

----------------------------------------------------------------------------
(* Barriers.                                                                *)

\* Postoffice::Barrier, until it waits on barrier_cond_.
BarrierEnter(n, g) ==
    /\ Begins(n, g)
    /\ barrier_done' = [barrier_done EXCEPT ![n] = FALSE]
    /\ net' = net \cup {Direct(g, TRUE, n, Scheduler)}
    /\ entered' = [entered EXCEPT ![g][n] = @ + 1]
    /\ Suspend(n)
    /\ UNCHANGED <<eth, barrier_count, counting, acks, sync_mode, exec, receiving, left>>

\* Postoffice::Barrier, once the flag is set.
BarrierLeave(n, g) ==
    /\ Waits(n, g)
    /\ barrier_done[n]
    /\ left' = [left EXCEPT ![g][n] = @ + 1]
    /\ Advance(n)
    /\ UNCHANGED <<eth, barrier_done, barrier_count, counting, net, acks, sync_mode, exec,
                   receiving, entered>>

\* Mutant: one request too few.
GroupCompleteEarly(g, count) == count + 1 >= Cardinality(GetNodeIDs(g))

\* The count says that the whole group has asked.
GroupComplete(g, count) == count = Cardinality(GetNodeIDs(g))

\* The answers of the scheduler to a group.
Answers(g) == {Direct(g, FALSE, Scheduler, n) : n \in GetNodeIDs(g)}

\* ProcessBarrierCommand at the scheduler: the request that completes the
\* group is answered to every member.  When all requests come by one interface,
\* one thread counts them, and nobody sees the count in between.
ProcessBarrierRequest(m) ==
    LET g == m.what
        last == GroupComplete(g, barrier_count[g] + 1)
    IN
    /\ OneInterface
    /\ m.what \in Group /\ m.request
    /\ eth[m.from] \in receiving[Scheduler]
    /\ barrier_count' = [barrier_count EXCEPT ![g] = IF last THEN 0 ELSE @ + 1]
    /\ net' = (net \ {m}) \cup IF last THEN Answers(g) ELSE {}
    /\ UNCHANGED <<eth, pc, waiting, barrier_done, counting, acks, sync_mode, exec, receiving,
                   entered, left>>

\* Otherwise every interface has a thread of its own, and the vector of counts
\* has no lock: an increment is a load and a store.
LoadCount(m) ==
    LET e == eth[m.from] IN
    /\ ~OneInterface
    /\ m.what \in Group /\ m.request
    /\ e \in receiving[Scheduler] /\ counting[e] = Idle
    /\ counting' = [counting EXCEPT ![e] =
           [at |-> "loaded", group |-> m.what, seen |-> barrier_count[m.what]]]
    /\ net' = net \ {m}
    /\ UNCHANGED <<eth, pc, waiting, barrier_done, barrier_count, acks, sync_mode, exec,
                   receiving, entered, left>>

StoreCount(e) ==
    /\ counting[e].at = "loaded"
    /\ barrier_count' = [barrier_count EXCEPT ![counting[e].group] = counting[e].seen + 1]
    /\ counting' = [counting EXCEPT ![e].at = "stored"]
    /\ UNCHANGED <<eth, pc, waiting, barrier_done, net, acks, sync_mode, exec, receiving,
                   entered, left>>

\* The comparison uses the value just stored, or what is in memory by now.
CompareCount(e) ==
    LET g == counting[e].group IN
    /\ counting[e].at = "stored"
    /\ \E count \in {counting[e].seen + 1, barrier_count[g]} :
         counting' = IF GroupComplete(g, count) THEN [counting EXCEPT ![e].at = "full"]
                                               ELSE [counting EXCEPT ![e] = Idle]
    /\ UNCHANGED <<eth, pc, waiting, barrier_done, barrier_count, net, acks, sync_mode, exec,
                   receiving, entered, left>>

\* The count is reset and the group answered; an answer that is already under
\* way is not told from the first.
AnswerGroup(e) ==
    LET g == counting[e].group IN
    /\ counting[e].at = "full"
    /\ barrier_count' = [barrier_count EXCEPT ![g] = 0]
    /\ net' = net \cup Answers(g)
    /\ counting' = [counting EXCEPT ![e] = Idle]
    /\ UNCHANGED <<eth, pc, waiting, barrier_done, acks, sync_mode, exec, receiving,
                   entered, left>>

\* The first receiving thread of n is there for the next message.
Listens(n) == 1 \in receiving[n] /\ (n = Scheduler => counting[1] = Idle)

\* ProcessBarrierCommand with a response: Postoffice::Manage.
Manage(m) ==
    /\ m.what \in Group /\ ~m.request
    /\ Listens(m.to)
    /\ barrier_done' = [barrier_done EXCEPT ![m.to] = TRUE]
    /\ net' = net \ {m}
    /\ UNCHANGED <<eth, pc, waiting, barrier_count, counting, acks, sync_mode, exec, receiving,
                   entered, left>>

----------------------------------------------------------------------------
(* Commands to the servers.                                                 *)

\* Customer::NewRequest: a new entry of tracker_.
NewRequest == acks' = 0

\* SendCommandToServers: a request to every server of the group.
SendCommandToServers(w) ==
    /\ op(w) \in Command /\ ~waiting[w]
    /\ net' = net \cup {Request(op(w), w, s) : s \in Server}
    /\ NewRequest
    /\ Suspend(w)
    /\ UNCHANGED <<eth, barrier_done, barrier_count, counting, sync_mode, exec, receiving,
                   entered, left>>

\* Mutant: one response is enough.
AllRespondedAny == acks >= 1

\* The condition WaitRequest waits for.
AllResponded == acks = Cardinality(Server)

\* Customer::WaitRequest returns.
WaitRequest(w) ==
    /\ op(w) \in Command /\ waiting[w]
    /\ AllResponded
    /\ Advance(w)
    /\ UNCHANGED <<eth, barrier_done, barrier_count, counting, net, acks, sync_mode, exec,
                   receiving, entered, left>>

\* ProcessReply1Command: a server relays what is for another process.
Relay(m) ==
    /\ m.what \in Command
    /\ m.to # m.dst
    /\ receiving[m.to] # {}
    /\ net' = (net \ {m}) \cup {Msg(m.what, m.request, m.src, m.dst, m.to, m.dst)}
    /\ UNCHANGED <<eth, pc, waiting, barrier_done, barrier_count, counting, acks, sync_mode,
                   exec, receiving, entered, left>>

\* CommandHandle on the customer thread, up to the Response or to the wait for
\* the Executor's promise.
CommandHandle(m) ==
    LET s == m.dst IN
    /\ m.what \in Command /\ m.request /\ m.to = s
    /\ receiving[s] # {}
    /\ exec[s] = NoBlock
    /\ IF m.what = "kSyncMode"
       THEN /\ sync_mode' = [sync_mode EXCEPT ![s] = TRUE]
            /\ net' = (net \ {m}) \cup {Response(m.what, s, m.src)}
            /\ UNCHANGED exec
       ELSE /\ exec' = [exec EXCEPT ![s] = [cmd |-> m.what, done |-> FALSE]]
            /\ net' = net \ {m}
            /\ UNCHANGED sync_mode
    /\ UNCHANGED <<eth, pc, waiting, barrier_done, barrier_count, counting, acks, receiving,
                   entered, left>>

\* Executor::Start on the main thread: run the block, set its promise, and
\* leave the loop after an empty one.
ExecutorStart(s) ==
    /\ op(s) = "Run"
    /\ ~exec[s].done
    /\ exec' = [exec EXCEPT ![s] = [cmd |-> @.cmd, done |-> TRUE]]
    /\ IF exec[s].cmd = "kStopServer" THEN Advance(s) ELSE UNCHANGED <<pc, waiting>>
    /\ UNCHANGED <<eth, barrier_done, barrier_count, counting, net, acks, sync_mode, receiving,
                   entered, left>>

\* Executor::Exec returns on the customer thread, and CommandHandle responds.
CommandResponse(s) ==
    /\ exec[s] # NoBlock /\ exec[s].done
    /\ net' = net \cup {Response(exec[s].cmd, s, Rank0)}
    /\ exec' = [exec EXCEPT ![s] = NoBlock]
    /\ UNCHANGED <<eth, pc, waiting, barrier_done, barrier_count, counting, acks, sync_mode,
                   receiving, entered, left>>

\* Customer::Receiving at the worker counts a response.
AddResponse(m) ==
    /\ m.what \in Command /\ ~m.request /\ m.to = m.dst
    /\ receiving[m.to] # {}
    /\ acks' = acks + 1
    /\ net' = net \ {m}
    /\ UNCHANGED <<eth, pc, waiting, barrier_done, barrier_count, counting, sync_mode, exec,
                   receiving, entered, left>>

----------------------------------------------------------------------------
(* The end.                                                                 *)

\* Van::Stop: one TERMINATE, to the own first socket.
Stop(n) ==
    /\ Begins(n, "Stop")
    /\ net' = net \cup {Direct("TERMINATE", TRUE, n, n)}
    /\ Suspend(n)
    /\ UNCHANGED <<eth, barrier_done, barrier_count, counting, acks, sync_mode, exec, receiving,
                   entered, left>>

\* ProcessTerminateCommand: the thread that received it leaves its loop.
ProcessTerminateCommand(m) ==
    /\ m.what = "TERMINATE"
    /\ Listens(m.to)
    /\ receiving' = [receiving EXCEPT ![m.to] = @ \ {1}]
    /\ net' = net \ {m}
    /\ UNCHANGED <<eth, pc, waiting, barrier_done, barrier_count, counting, acks, sync_mode,
                   exec, entered, left>>

\* Van::Stop has joined all receiving and all sending threads (a sending thread
\* ends with a TERMINATE in its queue, and none is ever put there); ZMQVan::Stop
\* closes the sockets with a linger of 0, which may drop what is not yet sent.
Join(n) ==
    /\ Waits(n, "Stop")
    /\ receiving[n] = {}
    /\ sender_thread_group(n) = {}
    /\ \E lost \in SUBSET {m \in net : m.from = n} : net' = net \ lost
    /\ Advance(n)
    /\ UNCHANGED <<eth, barrier_done, barrier_count, counting, acks, sync_mode, exec, receiving,
                   entered, left>>

----------------------------------------------------------------------------
\* The steps of the main thread of n.
Main(n) ==
    \/ \E g \in Group : BarrierEnter(n, g) \/ BarrierLeave(n, g)
    \/ n \in Worker /\ (SendCommandToServers(n) \/ WaitRequest(n))
    \/ n \in Server /\ ExecutorStart(n)
    \/ Stop(n) \/ Join(n)

\* The handling of a message that has arrived at n.
Receive(n) ==
    \E m \in net :
        /\ m.to = n
        /\ \/ ProcessBarrierRequest(m) \/ LoadCount(m) \/ Manage(m)
           \/ Relay(m) \/ CommandHandle(m) \/ AddResponse(m)
           \/ ProcessTerminateCommand(m)

\* The rest of the handling of a request, by the thread of an interface.
CountRequest(e) == StoreCount(e) \/ CompareCount(e) \/ AnswerGroup(e)

Next ==
    \/ \E n \in Node : Main(n) \/ Receive(n)
    \/ \E e \in 1..NumEth[Scheduler] : CountRequest(e)
    \/ \E s \in Server : CommandResponse(s)

Spec == Init /\ [][Next]_vars

\* Threads that can run do run, and what is sent to a process that receives is
\* received.
Fairness ==
    /\ \A n \in Node : WF_vars(Main(n)) /\ WF_vars(Receive(n))
    /\ \A e \in 1..NumEth[Scheduler] : WF_vars(CountRequest(e))
    /\ \A s \in Server : WF_vars(CommandResponse(s))

FairSpec == Spec /\ Fairness

----------------------------------------------------------------------------
(* Properties.                                                              *)

\* Nobody leaves the i-th barrier of a group before every member has entered
\* it, although the scheduler keeps one anonymous count for a group and a
\* process one flag for all groups (postoffice.cc:144, van.cc:188).  It needs
\* OneInterface: two threads that count without a lock may both find the group
\* complete, and the second answer opens the next barrier.
BarrierSafe ==
    OneInterface => \A g \in Group : \A n, m \in GetNodeIDs(g) : left[g][n] <= entered[g][m]

\* Nobody leaves the barrier of Postoffice::Start before everybody is in it, by
\* whatever interfaces the requests come: a race of two threads only loses
\* counts, and there is no earlier answer (postoffice.cc:82, van.cc:195).
StartBarrierSafe ==
    \A n, m \in Node : left["All"][n] > 0 => entered["All"][m] > 0

\* A worker that has left its first Init, and may push gradients, finds every
\* server in sync mode: a server still in the other mode would answer a push
\* without waiting for the others (kvstore.cc:57, kvstore_dist_server.h:740).
SyncBeforeTraining ==
    OneInterface => \A w \in Worker : left["Workers"][w] > 0 => \A s \in Server : sync_mode[s]

\* The main thread of s is past the second step of its program, Run.
LeftRun(s) == pc[s] > 2

\* A server leaves its Executor only after every worker has finished training
\* and entered the destructor's barrier (kvstore_dist.h:69).
ServersOutliveTraining ==
    OneInterface => \A s \in Server :
        LeftRun(s) => \A w \in Worker : entered["Workers"][w] = Inits + 1

\* When a process begins to stop its Van, no barrier message and no command is
\* on its way to it, to be handled or to be relayed (postoffice.cc:85): nothing
\* is lost in the sockets that are closed.
NothingLeftBehind ==
    OneInterface => \A m \in net : m.what # "TERMINATE" => op(m.to) \notin {"Stop", "done"}

\* Every process gets through its barriers and commands to Van::Stop, unless
\* threads that count at once lose a request (van.cc:195).
AllReachStop == OneInterface => \A n \in Node : <>(op(n) \in {"Stop", "done"})
=============================================================================
