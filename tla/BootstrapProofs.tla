--------------------------- MODULE BootstrapProofs ---------------------------
(***************************************************************************)
(* The scheduler has every process that runs under its id, and no id twice,*)
(* for any job and any number of crashes and restarts.                     *)
(***************************************************************************)
EXTENDS Bootstrap, FiniteSetTheorems, TLAPS

-----------------------------------------------------------------------------
(* The inductive invariant. *)

\* A line of the table of nodes: the id is one of the role of the process.
Entry == {e \in [proc : Proc, id : Proc] : e.id \in Peers(e.proc)}
Message == [cmd : {"ADD_NODE"}, sender_ : {Scheduler, None}, nodes : SUBSET Entry]
           \union [cmd : {"REPORT_REPLY"}]

BootTypes ==
    /\ state \in [Proc -> {"off", "asking", "ready", "crashed"}]
    /\ id \in [Proc -> Proc \union {None}]
    /\ inbox \in [Proc -> Seq(Message)]
    /\ nodes \subseteq Entry /\ IsFiniteSet(nodes)
    /\ recovery_nodes \in Seq(Entry)
    /\ num_report_eth \in Nat
    /\ silent \subseteq gone /\ gone \subseteq Proc

\* The table everybody gets when all have registered, each with itself as id.
Self == {[proc |-> p, id |-> p] : p \in Proc}

\* A table that a process takes, and one that comes to p.
Welcome(m) == m.cmd = "ADD_NODE" /\ m.sender_ # None
Invited(p) == \E k \in 1..Len(inbox[p]) : Welcome(inbox[p][k])

\* Nobody has an id but its own, and what makes a process ready says so.
IdsInv ==
    \A p \in Proc :
      /\ id[p] \in {p, None}
      /\ state[p] = "ready" => id[p] = p
      /\ \A k \in 1..Len(inbox[p]) : Welcome(inbox[p][k]) => inbox[p][k].nodes = Self

\* A process that died is never ready again.
GoneInv == \A p \in gone : state[p] # "ready" /\ ~ Invited(p)

\* The scheduler has each id once; while nodes are missing nobody has been told
\* anything, and then the table has whoever did not die.
NodesInv ==
    /\ \A m, n \in nodes : m.id = n.id => m = n
    /\ IF Cardinality(nodes) = Cardinality(Proc)
       THEN \A p \in Proc \ gone : [proc |-> p, id |-> p] \in nodes
       ELSE /\ nodes \subseteq Self /\ gone = {}
            /\ \A p \in Proc : state[p] # "ready" /\ inbox[p] = <<>>

BootInv == BootTypes /\ IdsInv /\ GoneInv /\ NodesInv

-----------------------------------------------------------------------------
(* Facts about jobs and queues. *)

\* Every process is one of its own role, and None is none.
LEMMA RoleFacts ==
    /\ IsFiniteSet(Proc)
    /\ \A p \in Proc : p \in Peers(p) /\ Peers(p) \subseteq Proc
    /\ None \notin Proc
BY BootstrapAssumption, FS_Union DEF Proc, Peers

\* A table of as many nodes as there are processes, each with itself as id,
\* has all of them.
LEMMA FullTable ==
    ASSUME NEW T, T \subseteq Self, Cardinality(T) = Cardinality(Proc)
    PROVE  T = Self
<1> DEFINE f == [p \in Proc |-> [proc |-> p, id |-> p]]
<1>1. f \in Bijection(Proc, Self)
  <2>1. f \in [Proc -> Self]
    BY DEF Self
  <2>2. \A p, q \in Proc : f[p] = f[q] => p = q
    <3> TAKE p, q \in Proc
    <3>1. f[p].proc = p /\ f[q].proc = q
      OBVIOUS
    <3> QED BY <3>1
  <2>3. \A e \in Self : \E p \in Proc : f[p] = e
    BY DEF Self
  <2> QED
    <3> HIDE DEF f
    <3> QED
      BY <2>1, <2>2, <2>3 DEF Bijection, Injection, Surjection, IsInjective
<1> HIDE DEF f
<1>2. IsFiniteSet(Self) /\ Cardinality(Self) = Cardinality(Proc)
  BY <1>1, RoleFacts, FS_Bijection DEF ExistsBijection
<1> QED
  BY <1>2, FS_Subset

\* A message joins the end of an inbox.
LEMMA AppendFacts ==
    ASSUME NEW S, NEW s \in Seq(S), NEW m \in S
    PROVE  /\ Append(s, m) \in Seq(S) /\ Append(s, m) # <<>>
           /\ Head(Append(s, m)) = IF s = <<>> THEN m ELSE Head(s)
           /\ Len(Append(s, m)) = Len(s) + 1
           /\ \A k \in 1..Len(s) + 1 : Append(s, m)[k] = IF k = Len(s) + 1 THEN m ELSE s[k]
OBVIOUS

\* One leaves its head.
LEMMA TailFacts ==
    ASSUME NEW S, NEW s \in Seq(S), s # <<>>
    PROVE  /\ Tail(s) \in Seq(S) /\ Head(s) \in S /\ Head(s) = s[1] /\ 1 \in 1..Len(s)
           /\ \A k \in 1..Len(Tail(s)) : k + 1 \in 1..Len(s) /\ Tail(s)[k] = s[k + 1]
OBVIOUS

-----------------------------------------------------------------------------
(* What most steps have in common. *)

\* No inbox gets a table that a process takes; nobody becomes ready or is taken
\* out of the table, and ids are kept or given up.
LEMMA QuietKeeps ==
    ASSUME BootInv, BootTypes', nodes' = nodes, gone \subseteq gone',
           \A p \in Proc : /\ id'[p] \in {id[p], None}
                           /\ state'[p] = "ready" => state[p] = "ready" /\ id'[p] = id[p]
                           /\ \A k \in 1..Len(inbox'[p]) :
                                Welcome(inbox'[p][k]) =>
                                  \E j \in 1..Len(inbox[p]) : inbox[p][j] = inbox'[p][k],
           \A p \in gone' \ gone : /\ state'[p] # "ready" /\ inbox'[p] = <<>>
                                   /\ state[p] = "ready" \/ inbox[p] # <<>>,
           \A p \in Proc : inbox'[p] # <<>> => inbox[p] # <<>> \/ state[p] = "ready"
    PROVE  BootInv'
<1>1. IdsInv'
  BY DEF BootInv, IdsInv
<1>2. \A p \in Proc : Invited(p)' => Invited(p)
  BY DEF Invited
<1>3. GoneInv'
  <2> SUFFICES ASSUME NEW p \in gone' PROVE state'[p] # "ready" /\ ~ Invited(p)'
    BY DEF GoneInv
  <2>1. p \in Proc
    BY DEF BootTypes
  <2>2. CASE p \in gone
    BY <2>1, <2>2, <1>2 DEF BootInv, GoneInv
  <2>3. CASE p \notin gone
    <3>1. p \in gone' \ gone
      BY <2>3
    <3>2. state'[p] # "ready" /\ inbox'[p] = <<>>
      BY <3>1
    <3> QED
      BY <3>2 DEF Invited
  <2> QED
    BY <2>2, <2>3
<1>4. NodesInv'
  <2>1. CASE Cardinality(nodes) = Cardinality(Proc)
    BY <2>1 DEF BootInv, NodesInv
  <2>2. CASE Cardinality(nodes) # Cardinality(Proc)
    <3>1. nodes \subseteq Self /\ gone = {} /\ \A p \in Proc : state[p] # "ready" /\ inbox[p] = <<>>
      BY <2>2 DEF BootInv, NodesInv
    <3>2. \A p \in Proc : state'[p] # "ready" /\ inbox'[p] = <<>>
      BY <3>1
    <3>3. gone' = {}
      BY <3>1 DEF BootTypes
    <3> QED
      BY <2>2, <3>1, <3>2, <3>3 DEF BootInv, NodesInv
  <2> QED
    BY <2>1, <2>2
<1> QED
  BY <1>1, <1>3, <1>4 DEF BootInv

-----------------------------------------------------------------------------
(* Steps of the processes. *)

\* The scheduler does not know of a start before it is told.
LEMMA StartKeeps ==
    ASSUME BootInv, NEW p \in Proc, Start(p)
    PROVE  BootInv'
<1>1. UNCHANGED <<id, inbox, nodes, recovery_nodes, num_report_eth, silent, gone>>
  BY DEF Start, scheduler, faults
<1>2. state' = [state EXCEPT ![p] = "asking"]
  BY DEF Start
<1>3. \A q \in Proc : state'[q] = IF q = p THEN "asking" ELSE state[q]
  BY <1>2 DEF BootInv, BootTypes
<1>4. BootTypes'
  BY <1>1, <1>2 DEF BootInv, BootTypes
<1> QED
  BY <1>1, <1>3, <1>4, QuietKeeps

\* A process takes the table of the registration: it finds itself there.
LEMMA ProcessAddNodeKeeps ==
    ASSUME BootInv, NEW p \in Proc, ProcessAddNode(p)
    PROVE  BootInv'
<1> DEFINE known == Head(inbox[p]).nodes
           mine == IF id[p] = None /\ \E n \in known : n.proc = p
                   THEN (CHOOSE n \in known : n.proc = p).id ELSE id[p]
<1>1. UNCHANGED <<nodes, recovery_nodes, num_report_eth, silent, gone>>
  BY DEF ProcessAddNode, scheduler, faults
<1>2. /\ inbox[p] # <<>> /\ Welcome(Head(inbox[p]))
      /\ state' = [state EXCEPT ![p] = "ready"]
      /\ inbox' = [inbox EXCEPT ![p] = Tail(@)]
      /\ id' = [id EXCEPT ![p] = mine]
  BY DEF ProcessAddNode, Welcome
<1>3. inbox[p] \in Seq(Message)
  BY DEF BootInv, BootTypes
<1>4. /\ Tail(inbox[p]) \in Seq(Message) /\ Head(inbox[p]) = inbox[p][1]
      /\ 1 \in 1..Len(inbox[p])
      /\ \A k \in 1..Len(Tail(inbox[p])) :
           k + 1 \in 1..Len(inbox[p]) /\ Tail(inbox[p])[k] = inbox[p][k + 1]
  BY <1>2, <1>3, TailFacts
<1>5. known = Self
  BY <1>2, <1>4 DEF BootInv, IdsInv
<1>6. mine = p
  <2>1. CASE id[p] # None
    BY <2>1 DEF BootInv, IdsInv
  <2>2. CASE id[p] = None
    <3>1. [proc |-> p, id |-> p] \in known
      BY <1>5 DEF Self
    <3>2. \E n \in known : n.proc = p
      BY <3>1
    <3>3. PICK n \in known : n.proc = p /\ mine = n.id
      BY <2>2, <3>2
    <3> QED
      BY <3>3, <1>5 DEF Self
  <2> QED
    BY <2>1, <2>2
<1> HIDE DEF mine, known
<1>7. \A q \in Proc : /\ state'[q] = IF q = p THEN "ready" ELSE state[q]
                      /\ inbox'[q] = IF q = p THEN Tail(inbox[p]) ELSE inbox[q]
                      /\ id'[q] = IF q = p THEN p ELSE id[q]
  BY <1>2, <1>6 DEF BootInv, BootTypes
<1>8. BootTypes'
  BY <1>1, <1>2, <1>4, <1>6 DEF BootInv, BootTypes
<1>9. IdsInv'
  <2> SUFFICES ASSUME NEW q \in Proc
               PROVE  /\ id'[q] \in {q, None}
                      /\ state'[q] = "ready" => id'[q] = q
                      /\ \A k \in 1..Len(inbox'[q]) :
                           Welcome(inbox'[q][k]) => inbox'[q][k].nodes = Self
    BY DEF IdsInv
  <2>1. CASE q = p
    <3>1. id'[q] = p /\ inbox'[q] = Tail(inbox[p])
      BY <2>1, <1>7
    <3>2. \A k \in 1..Len(inbox[p]) : Welcome(inbox[p][k]) => inbox[p][k].nodes = Self
      BY DEF BootInv, IdsInv
    <3> QED
      BY <2>1, <3>1, <3>2, <1>4
  <2>2. CASE q # p
    BY <2>2, <1>7 DEF BootInv, IdsInv
  <2> QED
    BY <2>1, <2>2
<1>10. p \notin gone
  BY <1>2, <1>4 DEF BootInv, GoneInv, Invited
<1>11. GoneInv'
  <2> SUFFICES ASSUME NEW q \in gone PROVE state'[q] # "ready" /\ ~ Invited(q)'
    BY <1>1 DEF GoneInv
  <2>1. q # p /\ q \in Proc
    BY <1>10 DEF BootInv, BootTypes
  <2> QED
    BY <2>1, <1>7 DEF BootInv, GoneInv, Invited
<1>12. NodesInv'
  BY <1>1, <1>2 DEF BootInv, NodesInv
<1> QED
  BY <1>8, <1>9, <1>11, <1>12 DEF BootInv

\* Send queues are no matter of ids.
LEMMA ProcessReportReplyKeeps ==
    ASSUME BootInv, NEW p \in Proc, ProcessReportReply(p)
    PROVE  BootInv'
<1>1. UNCHANGED <<state, id, nodes, recovery_nodes, num_report_eth, silent, gone>>
  BY DEF ProcessReportReply, scheduler, faults
<1>2. inbox[p] # <<>> /\ inbox' = [inbox EXCEPT ![p] = Tail(@)]
  BY DEF ProcessReportReply
<1>3. inbox[p] \in Seq(Message)
  BY DEF BootInv, BootTypes
<1>4. /\ Tail(inbox[p]) \in Seq(Message)
      /\ \A k \in 1..Len(Tail(inbox[p])) :
           k + 1 \in 1..Len(inbox[p]) /\ Tail(inbox[p])[k] = inbox[p][k + 1]
  BY <1>2, <1>3, TailFacts
<1>5. \A q \in Proc : inbox'[q] = IF q = p THEN Tail(inbox[p]) ELSE inbox[q]
  BY <1>2 DEF BootInv, BootTypes
<1>6. BootTypes'
  BY <1>1, <1>2, <1>4 DEF BootInv, BootTypes
<1>7. \A q \in Proc : /\ \A k \in 1..Len(inbox'[q]) :
                           \E j \in 1..Len(inbox[q]) : inbox[q][j] = inbox'[q][k]
                      /\ inbox'[q] # <<>> => inbox[q] # <<>>
  BY <1>2, <1>4, <1>5
<1> QED
  BY <1>1, <1>6, <1>7, QuietKeeps

\* A process dies with its own id, and what was under way to it is lost.
LEMMA DieKeeps ==
    ASSUME BootInv, NEW p \in Proc, Die(p), state[p] = "ready" \/ inbox[p] # <<>>
    PROVE  BootInv'
<1>1. UNCHANGED <<id, nodes, recovery_nodes, num_report_eth, silent>>
  BY DEF Die, scheduler
<1>2. /\ state' = [state EXCEPT ![p] = "crashed"]
      /\ inbox' = [inbox EXCEPT ![p] = <<>>] /\ gone' = gone \union ({id[p]} \ {None})
  BY DEF Die
<1>3. \A q \in Proc : /\ state'[q] = IF q = p THEN "crashed" ELSE state[q]
                      /\ inbox'[q] = IF q = p THEN <<>> ELSE inbox[q]
  BY <1>2 DEF BootInv, BootTypes
<1>4. id[p] \in {p, None}
  BY DEF BootInv, IdsInv
<1>5. BootTypes'
  BY <1>1, <1>2, <1>4 DEF BootInv, BootTypes
<1>6. \A q \in gone' \ gone : q = p
  BY <1>2, <1>4
<1> QED
  BY <1>1, <1>2, <1>3, <1>5, <1>6, QuietKeeps

\* A process that comes up again has no id.
LEMMA RestartKeeps ==
    ASSUME BootInv, NEW p \in Proc, Restart(p)
    PROVE  BootInv'
<1>1. UNCHANGED <<inbox, nodes, recovery_nodes, num_report_eth, silent, gone>>
  BY DEF Restart, scheduler
<1>2. state' = [state EXCEPT ![p] = "off"] /\ id' = [id EXCEPT ![p] = None]
  BY DEF Restart
<1>3. \A q \in Proc : /\ state'[q] = IF q = p THEN "off" ELSE state[q]
                      /\ id'[q] = IF q = p THEN None ELSE id[q]
  BY <1>2 DEF BootInv, BootTypes
<1>4. BootTypes'
  BY <1>1, <1>2 DEF BootInv, BootTypes
<1> QED
  BY <1>1, <1>3, <1>4, QuietKeeps

-----------------------------------------------------------------------------
(* Steps of the scheduler. *)

\* Finding a silent process changes nothing else; nor does Route_Manager.
LEMMA FindSilentKeeps ==
    ASSUME BootInv, (\E p \in Proc : FindSilent(p)) \/ StartRouteManager
    PROVE  BootInv'
<1>1. UNCHANGED <<state, id, inbox, nodes, recovery_nodes, num_report_eth, gone>>
  BY DEF FindSilent, StartRouteManager, processes, faults
<1>2. silent' \subseteq gone
  BY DEF FindSilent, StartRouteManager, BootInv, BootTypes
<1>3. BootTypes'
  BY <1>1, <1>2 DEF BootInv, BootTypes
<1> QED
  BY <1>1, <1>3, QuietKeeps

\* A message that is not taken for a table of the registration goes to processes
\* that are connected, or to one that has heard of the job.
LEMMA TellKeeps ==
    ASSUME BootInv, BootTypes', UNCHANGED <<state, id, gone, nodes>>,
           NEW to \in SUBSET Proc, NEW msg \in [Proc -> Message],
           inbox' = [q \in Proc |-> IF q \in to THEN Append(inbox[q], msg[q]) ELSE inbox[q]],
           \A q \in to : ~ Welcome(msg[q]) /\ Connected(q)
    PROVE  BootInv'
<1>1. \A q \in Proc : /\ inbox[q] \in Seq(Message)
                      /\ inbox'[q] = IF q \in to THEN Append(inbox[q], msg[q]) ELSE inbox[q]
  BY DEF BootInv, BootTypes
<1>2. ASSUME NEW q \in Proc, NEW k \in 1..Len(inbox'[q]), Welcome(inbox'[q][k])
      PROVE  \E j \in 1..Len(inbox[q]) : inbox[q][j] = inbox'[q][k]
  <2>1. CASE q \in to
    <3>1. /\ Len(inbox'[q]) = Len(inbox[q]) + 1 /\ Len(inbox[q]) \in Nat
          /\ inbox'[q][k] = IF k = Len(inbox[q]) + 1 THEN msg[q] ELSE inbox[q][k]
      BY <1>1, <2>1, AppendFacts
    <3>2. k # Len(inbox[q]) + 1
      BY <3>1, <2>1, <1>2
    <3> QED
      BY <3>1, <3>2
  <2>2. CASE q \notin to
    BY <2>2, <1>1
  <2> QED
    BY <2>1, <2>2
<1>3. \A q \in Proc : inbox'[q] # <<>> => inbox[q] # <<>> \/ state[q] = "ready"
  BY <1>1 DEF Connected
<1> QED
  BY <1>2, <1>3, QuietKeeps

\* So do the answers to REPORT_ETH.
LEMMA ProcessReportEthKeeps ==
    ASSUME BootInv, NEW p \in Proc, ProcessReportEth(p)
    PROVE  BootInv'
<1> DEFINE reply == [cmd |-> "REPORT_REPLY"]
           msg == [q \in Proc |-> reply]
<1>1. UNCHANGED <<state, id, nodes, recovery_nodes, silent, gone>>
  BY DEF ProcessReportEth, processes, faults
<1>2. num_report_eth' \in Nat
  BY DEF ProcessReportEth, BootInv, BootTypes
<1>3. reply \in Message /\ ~ Welcome(reply)
  BY DEF Message, Welcome
<1>4. msg \in [Proc -> Message] /\ \A q \in Proc : msg[q] = reply
  BY <1>3
<1>5. PICK to \in SUBSET {q \in Proc : Connected(q)} :
        inbox' = [q \in Proc |-> IF q \in to THEN Append(inbox[q], reply) ELSE inbox[q]]
  <2>1. CASE num_report_eth' = Cardinality(Server)
    BY <2>1 DEF ProcessReportEth, Tell, Proc
  <2>2. CASE num_report_eth' # Cardinality(Server)
    <3>1. inbox' = inbox
      BY <2>2 DEF ProcessReportEth
    <3>2. inbox = [q \in Proc |-> IF q \in {} THEN Append(inbox[q], reply) ELSE inbox[q]]
      BY DEF BootInv, BootTypes
    <3> QED
      BY <3>1, <3>2
  <2> QED
    BY <2>1, <2>2
<1> HIDE DEF msg, reply
<1>6. inbox' = [q \in Proc |-> IF q \in to THEN Append(inbox[q], msg[q]) ELSE inbox[q]]
  BY <1>4, <1>5
<1>7. inbox' \in [Proc -> Seq(Message)]
  BY <1>3, <1>5, AppendFacts DEF BootInv, BootTypes
<1>8. BootTypes'
  BY <1>1, <1>2, <1>7 DEF BootInv, BootTypes
<1> QED
  BY <1>1, <1>3, <1>4, <1>5, <1>6, <1>8, TellKeeps

\* Everybody is told when everybody has registered, with itself as id.
LEMMA RegisterKeeps ==
    ASSUME BootInv, NEW p \in Proc, Register(p)
    PROVE  BootInv'
<1> DEFINE one == [proc |-> p, id |-> p]
           table == [cmd |-> "ADD_NODE", sender_ |-> Scheduler, nodes |-> nodes']
<1>1. UNCHANGED <<state, id, recovery_nodes, num_report_eth, silent, gone>>
  BY DEF Register, processes, faults
<1>2. Cardinality(nodes) # Cardinality(Proc)
  <2>1. Cardinality(nodes) \in Nat /\ Cardinality(Proc) \in Nat
    BY RoleFacts, FS_CardinalityType DEF BootInv, BootTypes
  <2> QED
    BY <2>1 DEF Register
<1>3. /\ gone = {} /\ nodes \subseteq Self
      /\ \A q \in Proc : state[q] # "ready" /\ inbox[q] = <<>>
  BY <1>2 DEF BootInv, NodesInv
<1>4. nodes' = nodes \union {one}
  BY DEF Register
<1>5. Self \subseteq Entry
  BY RoleFacts DEF Self, Entry
<1>6. nodes' \subseteq Self
  BY <1>3, <1>4 DEF Self
<1>7. nodes' \subseteq Entry /\ IsFiniteSet(nodes')
  BY <1>4, <1>5, <1>6, FS_AddElement DEF BootInv, BootTypes
<1>8. \A m, n \in nodes' : m.id = n.id => m = n
  BY <1>6 DEF Self
<1>9. CASE Cardinality(nodes') = Cardinality(Proc)
  <2>1. nodes' = Self
    BY <1>6, <1>9, FullTable
  <2>2. table \in Message /\ table.nodes = Self
    BY <1>7, <2>1 DEF Message
  <2>3. inbox' = [q \in Proc |-> IF q \in Proc THEN Append(inbox[q], table) ELSE inbox[q]]
    BY <1>9 DEF Register, Tell
  <2> HIDE DEF table
  <2>4. \A q \in Proc : inbox'[q] = <<table>>
    <3> TAKE q \in Proc
    <3>1. inbox'[q] = Append(<<>>, table)
      BY <2>3, <1>3
    <3> QED
      BY <3>1
  <2>5. inbox' \in [Proc -> Seq(Message)]
    <3>1. <<table>> \in Seq(Message)
      BY <2>2
    <3>2. inbox' = [q \in Proc |-> inbox'[q]]
      BY <2>3
    <3> QED
      BY <2>4, <3>1, <3>2
  <2>6. BootTypes'
    BY <2>5, <1>1, <1>7 DEF BootInv, BootTypes
  <2>7. IdsInv'
    <3>1. \A q \in Proc : \A k \in 1..Len(inbox'[q]) : inbox'[q][k] = table
      BY <2>4
    <3> QED
      BY <3>1, <2>2, <1>1 DEF BootInv, IdsInv
  <2>8. GoneInv' /\ NodesInv'
    BY <2>1, <1>1, <1>3, <1>8, <1>9 DEF GoneInv, NodesInv, Self
  <2> QED
    BY <2>6, <2>7, <2>8 DEF BootInv
<1>10. CASE Cardinality(nodes') # Cardinality(Proc)
  <2>1. inbox' = inbox
    BY <1>10 DEF Register
  <2>2. BootTypes'
    BY <2>1, <1>1, <1>7 DEF BootInv, BootTypes
  <2>3. IdsInv' /\ GoneInv'
    BY <2>1, <1>1, <1>3 DEF BootInv, IdsInv, GoneInv
  <2>4. NodesInv'
    BY <2>1, <1>1, <1>3, <1>6, <1>8, <1>10 DEF NodesInv
  <2> QED
    BY <2>2, <2>3, <2>4 DEF BootInv
<1> QED
  BY <1>9, <1>10

\* The table after a recovery, or after a request that is not answered: as long
\* as before, and each id once.
LEMMA RecoveredTable ==
    ASSUME BootInv, NEW p \in Proc, Recover(p)
    PROVE  /\ nodes' \subseteq Entry /\ IsFiniteSet(nodes')
           /\ Cardinality(nodes') = Cardinality(Proc)
           /\ \A m, n \in nodes' : m.id = n.id => m = n
           /\ \/ UNCHANGED <<nodes, recovery_nodes>>
              \/ \E n \in nodes :
                   LET back == [proc |-> p, id |-> n.id]
                   IN  /\ n.id \in silent /\ back \in Entry
                       /\ nodes' = (nodes \ {n}) \union {back}
                       /\ recovery_nodes' = Append(recovery_nodes, back)
<1> DEFINE dead == {n \in nodes : n.id \in silent \cap Peers(p)}
<1>1. /\ Cardinality(nodes) = Cardinality(Proc) /\ nodes \subseteq Entry /\ IsFiniteSet(nodes)
      /\ \A m, n \in nodes : m.id = n.id => m = n
  BY DEF Recover, BootInv, BootTypes, NodesInv
<1>2. CASE dead = {}
  BY <1>1, <1>2 DEF Recover
<1>3. CASE dead # {}
  <2>1. PICK n \in dead : LET back == [proc |-> p, id |-> n.id]
                          IN  /\ nodes' = Replaced(n, back)
                              /\ recovery_nodes' = Append(recovery_nodes, back)
    BY <1>3 DEF Recover
  <2> DEFINE back == [proc |-> p, id |-> n.id]
  <2>2. /\ n \in nodes /\ n.id \in silent /\ n.id \in Peers(p)
        /\ nodes' = (nodes \ {n}) \union {back}
        /\ recovery_nodes' = Append(recovery_nodes, back)
    BY <2>1 DEF Replaced
  <2>3. back \in Entry
    BY <2>2, RoleFacts DEF Entry
  <2>4. back.id = n.id
    OBVIOUS
  <2> HIDE DEF back
  <2>5. back \notin nodes \ {n}
    BY <1>1, <2>2, <2>4
  <2>6. IsFiniteSet(nodes \ {n}) /\ Cardinality(nodes \ {n}) = Cardinality(nodes) - 1
    BY <1>1, <2>2, FS_RemoveElement
  <2>7. IsFiniteSet(nodes') /\ Cardinality(nodes') = Cardinality(nodes \ {n}) + 1
    BY <2>2, <2>5, <2>6, FS_AddElement
  <2>8. Cardinality(nodes) \in Nat
    BY <1>1, FS_CardinalityType
  <2>9. Cardinality(nodes') = Cardinality(Proc)
    BY <1>1, <2>6, <2>7, <2>8
  <2>10. \A m, k \in nodes' : m.id = k.id => m = k
    BY <1>1, <2>2, <2>4
  <2> QED
    BY <1>1, <2>2, <2>3, <2>7, <2>9, <2>10 DEF back
<1> QED
  BY <1>2, <1>3

\* A recovery takes the line of a process that died, and its answer makes nobody
\* ready.
LEMMA RecoverKeeps ==
    ASSUME BootInv, NEW p \in Proc, Recover(p)
    PROVE  BootInv'
<1> DEFINE first == Head(recovery_nodes')
           told(q) == \/ q = p /\ recovery_nodes = <<>>
                      \/ Connected(q) /\ id[q] \notin silent
           table(q) == Table(q, nodes', first)
<1>1. UNCHANGED <<state, id, num_report_eth, gone>>
  BY DEF Recover, processes, faults
<1>2. /\ nodes' \subseteq Entry /\ IsFiniteSet(nodes')
      /\ Cardinality(nodes') = Cardinality(Proc)
      /\ \A m, n \in nodes' : m.id = n.id => m = n
  BY RecoveredTable
<1>3. Cardinality(nodes) = Cardinality(Proc)
  BY DEF Recover
<1>4. recovery_nodes' \in Seq(Entry)
  <2>1. CASE UNCHANGED <<nodes, recovery_nodes>>
    BY <2>1 DEF BootInv, BootTypes
  <2>2. CASE ~ UNCHANGED <<nodes, recovery_nodes>>
    <3>1. \E b \in Entry : recovery_nodes' = Append(recovery_nodes, b)
      BY <2>2, RecoveredTable
    <3> QED
      BY <3>1, AppendFacts DEF BootInv, BootTypes
  <2> QED
    BY <2>1, <2>2
<1>5. \A q \in Proc \ gone : [proc |-> q, id |-> q] \in nodes'
  <2> TAKE q \in Proc \ gone
  <2> DEFINE me == [proc |-> q, id |-> q]
  <2>1. me \in nodes /\ me.id = q
    BY <1>3 DEF BootInv, NodesInv
  <2>2. CASE UNCHANGED <<nodes, recovery_nodes>>
    BY <2>1, <2>2
  <2>3. ASSUME NEW n \in nodes, n.id \in silent,
               nodes' = (nodes \ {n}) \union {[proc |-> p, id |-> n.id]}
        PROVE  me \in nodes'
    BY <2>1, <2>3 DEF BootInv, BootTypes
  <2> QED
    BY <2>2, <2>3, RecoveredTable
<1>6. /\ silent' \subseteq silent
      /\ \A q \in Proc : \/ inbox'[q] = inbox[q]
                         \/ recovery_nodes' # <<>> /\ inbox'[q] = Append(inbox[q], table(q))
  <2>1. CASE recovery_nodes' = <<>> \/ failed'
    <3>1. inbox' = inbox /\ silent' = silent
      BY <2>1 DEF Recover
    <3> QED
      BY <3>1
  <2>2. CASE ~ (recovery_nodes' = <<>> \/ failed')
    <3>1. /\ inbox' = [q \in Proc |-> IF told(q) THEN Append(inbox[q], table(q)) ELSE inbox[q]]
          /\ silent' = silent \ {first.id}
      BY <2>2, Zenon DEF Recover
    <3>2. \A q \in Proc : inbox'[q] = IF told(q) THEN Append(inbox[q], table(q)) ELSE inbox[q]
      BY <3>1
    <3> HIDE DEF told, table
    <3>3. \A q \in Proc : inbox'[q] = inbox[q] \/ inbox'[q] = Append(inbox[q], table(q))
      BY <3>2, Zenon
    <3>4. silent' \subseteq silent
      BY <3>1
    <3> QED
      BY <2>2, <3>3, <3>4
  <2> QED
    BY <2>1, <2>2
<1>7. recovery_nodes' # <<>> => first \in Entry
  BY <1>4
<1>8. \A q \in Proc : /\ ~ Welcome(table(q))
                      /\ recovery_nodes' # <<>> => table(q) \in Message
  <2> TAKE q \in Proc
  <2>1. ~ Welcome(table(q))
    BY DEF Table, Welcome
  <2>2. ASSUME recovery_nodes' # <<>> PROVE table(q) \in Message
    BY <2>2, <1>2, <1>7 DEF Table, Message
  <2> QED
    BY <2>1, <2>2
<1> HIDE DEF table, first
<1>9. ASSUME NEW q \in Proc
      PROVE  /\ inbox[q] \in Seq(Message) /\ inbox'[q] \in Seq(Message)
             /\ \A k \in 1..Len(inbox'[q]) : Welcome(inbox'[q][k]) =>
                  \E j \in 1..Len(inbox[q]) : inbox[q][j] = inbox'[q][k]
  <2>1. inbox[q] \in Seq(Message)
    BY DEF BootInv, BootTypes
  <2>2. CASE inbox'[q] = inbox[q]
    BY <2>1, <2>2
  <2>3. CASE recovery_nodes' # <<>> /\ inbox'[q] = Append(inbox[q], table(q))
    <3>1. /\ inbox'[q] \in Seq(Message)
          /\ Len(inbox'[q]) = Len(inbox[q]) + 1 /\ Len(inbox[q]) \in Nat
          /\ \A k \in 1..Len(inbox[q]) + 1 :
               inbox'[q][k] = IF k = Len(inbox[q]) + 1 THEN table(q) ELSE inbox[q][k]
      BY <2>1, <2>3, <1>8, AppendFacts
    <3>2. ASSUME NEW k \in 1..Len(inbox'[q]), Welcome(inbox'[q][k])
          PROVE  \E j \in 1..Len(inbox[q]) : inbox[q][j] = inbox'[q][k]
      <4>1. k # Len(inbox[q]) + 1
        BY <3>1, <3>2, <1>8
      <4> QED
        BY <4>1, <3>1
    <3> QED
      BY <2>1, <3>1, <3>2
  <2> QED
    BY <2>2, <2>3, <1>6
<1>10. BootTypes'
  <2>1. inbox' \in [Proc -> Seq(Message)]
    <3>1. inbox' = [q \in Proc |-> inbox'[q]]
      BY DEF Recover, BootInv, BootTypes
    <3> QED
      BY <3>1, <1>9
  <2> QED
    BY <2>1, <1>1, <1>2, <1>4, <1>6 DEF BootInv, BootTypes
<1>11. IdsInv'
  <2> SUFFICES ASSUME NEW q \in Proc
               PROVE  /\ id[q] \in {q, None}
                      /\ state[q] = "ready" => id[q] = q
                      /\ \A k \in 1..Len(inbox'[q]) :
                           Welcome(inbox'[q][k]) => inbox'[q][k].nodes = Self
    BY <1>1 DEF IdsInv
  <2>1. \A j \in 1..Len(inbox[q]) : Welcome(inbox[q][j]) => inbox[q][j].nodes = Self
    BY DEF BootInv, IdsInv
  <2>2. \A k \in 1..Len(inbox'[q]) : Welcome(inbox'[q][k]) => inbox'[q][k].nodes = Self
    <3> TAKE k \in 1..Len(inbox'[q])
    <3> HAVE Welcome(inbox'[q][k])
    <3>1. PICK j \in 1..Len(inbox[q]) : inbox[q][j] = inbox'[q][k]
      BY <1>9
    <3> QED
      BY <2>1, <3>1
  <2> QED
    BY <2>2 DEF BootInv, IdsInv
<1>12. GoneInv'
  <2> SUFFICES ASSUME NEW q \in gone PROVE state[q] # "ready" /\ ~ Invited(q)'
    BY <1>1 DEF GoneInv
  <2>1. q \in Proc
    BY DEF BootInv, BootTypes
  <2> QED
    BY <2>1, <1>9 DEF BootInv, GoneInv, Invited
<1>13. NodesInv'
  BY <1>1, <1>2, <1>5 DEF NodesInv
<1> QED
  BY <1>10, <1>11, <1>12, <1>13 DEF BootInv

-----------------------------------------------------------------------------
(* The theorems. *)

\* The invariant holds initially and every step of a process or of the
\* scheduler keeps it.
THEOREM BootInvHolds == Spec => []BootInv
<1>1. Init => BootInv
  <2> SUFFICES ASSUME Init PROVE BootInv
    OBVIOUS
  <2>1. BootTypes
    <3>1. inbox \in [Proc -> Seq(Message)] /\ recovery_nodes \in Seq(Entry)
      BY DEF Init
    <3>2. nodes \subseteq Entry /\ IsFiniteSet(nodes)
      BY FS_EmptySet DEF Init
    <3>3. /\ num_report_eth \in Nat /\ silent \subseteq gone /\ gone \subseteq Proc
      BY DEF Init
    <3>4. /\ state \in [Proc -> {"off", "asking", "ready", "crashed"}]
          /\ id \in [Proc -> Proc \union {None}]
      BY DEF Init
    <3> QED
      BY <3>1, <3>2, <3>3, <3>4 DEF BootTypes
  <2> QED
    <3>1. IdsInv /\ GoneInv
      BY DEF Init, IdsInv, GoneInv
    <3>2. NodesInv
      <4>1. nodes = {} /\ gone = {} /\ \A p \in Proc : state[p] # "ready" /\ inbox[p] = <<>>
        BY DEF Init
      <4>2. Cardinality(nodes) = Cardinality(Proc) => Proc = {}
        BY <4>1, RoleFacts, FS_EmptySet
      <4> QED
        BY <4>1, <4>2 DEF NodesInv
    <3> QED
      BY <2>1, <3>1, <3>2 DEF BootInv
<1>2. BootInv /\ [Next]_vars => BootInv'
  <2> SUFFICES ASSUME BootInv, [Next]_vars PROVE BootInv'
    OBVIOUS
  <2>1. CASE UNCHANGED vars
    BY <2>1 DEF vars, BootInv, BootTypes, IdsInv, GoneInv, Invited, NodesInv
  <2>2. CASE StartRouteManager
    BY <2>2, FindSilentKeeps
  <2>3. ASSUME NEW p \in Proc, Start(p) PROVE BootInv'
    BY <2>3, StartKeeps
  <2>4. ASSUME NEW p \in Proc, ProcessAddNode(p) PROVE BootInv'
    BY <2>4, ProcessAddNodeKeeps
  <2>5. ASSUME NEW p \in Proc, ProcessReportReply(p) PROVE BootInv'
    BY <2>5, ProcessReportReplyKeeps
  <2>6. ASSUME NEW p \in Proc, Crash(p) PROVE BootInv'
    BY <2>6, DieKeeps DEF Crash
  <2>7. ASSUME NEW p \in Proc, Restart(p) PROVE BootInv'
    BY <2>7, RestartKeeps
  <2>8. ASSUME NEW p \in Proc, FindSilent(p) PROVE BootInv'
    BY <2>8, FindSilentKeeps
  <2>9. ASSUME NEW p \in Proc, Register(p) PROVE BootInv'
    BY <2>9, RegisterKeeps
  <2>10. ASSUME NEW p \in Proc, Recover(p) PROVE BootInv'
    BY <2>10, RecoverKeeps
  <2>11. ASSUME NEW p \in Proc, ProcessReportEth(p) PROVE BootInv'
    BY <2>11, ProcessReportEthKeeps
  <2>12. ASSUME NEW p \in Proc, RefuseAddNode(p) PROVE BootInv'
    BY <2>12, DieKeeps DEF RefuseAddNode
  <2> QED
    BY <2>1, <2>2, <2>3, <2>4, <2>5, <2>6, <2>7, <2>8, <2>9, <2>10, <2>11, <2>12 DEF Next
<1> QED
  BY <1>1, <1>2, PTL DEF Spec

\* The tables keep their types, and a process is ready only with an id of its
\* role (UpdateLocalID, ProcessAddNodeCommand).
THEOREM BootTypeCorrect == Spec => []TypeOK
<1>1. BootInv => TypeOK
  BY RoleFacts DEF BootInv, BootTypes, IdsInv, TypeOK, Entry
<1> QED
  BY <1>1, BootInvHolds, PTL

\* The scheduler has each id once and every process that runs under the id it
\* runs with, however many processes crash and whenever they restart: the place
\* that a recovery takes is that of a process that died
\* (ProcessAddNodeCommandAtScheduler, UpdateLocalID).
THEOREM UniqueIdsHolds == Spec => []UniqueIds
<1>1. BootInv => UniqueIds
  <2> SUFFICES ASSUME BootInv PROVE UniqueIds
    OBVIOUS
  <2>1. ASSUME NEW p \in Proc, state[p] = "ready" PROVE [proc |-> p, id |-> id[p]] \in nodes
    <3>1. id[p] = p /\ p \notin gone
      BY <2>1 DEF BootInv, IdsInv, GoneInv
    <3> QED
      BY <2>1, <3>1 DEF BootInv, NodesInv
  <2> QED
    BY <2>1 DEF UniqueIds, BootInv, NodesInv
<1> QED
  BY <1>1, BootInvHolds, PTL
=============================================================================
