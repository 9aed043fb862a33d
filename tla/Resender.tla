------------------------------- MODULE Resender -------------------------------
(***************************************************************************)
(* Retransmission (PS_RESEND) between two processes, over a connection     *)
(* that may drop what is received (PS_DROP_MSG) and reorder it.  The       *)
(* sender buffers a message after it was sent; a monitor thread collects   *)
(* the messages that were not acknowledged in time under the lock, and     *)
(* sends them again without it; the receiver acknowledges all copies and   *)
(* passes on the first.                                                    *)
(*                                                                         *)
(* A timeout is late when everything that was lost has been sent again:    *)
(* the message or its acknowledgement is still under way.                  *)
(*                                                                         *)
(* Both ends compute the key of a message with GetKey, each from the       *)
(* meta.sender it sees.  A server that relays a message still has the      *)
(* previous hop there, its receiver has the relay: the keys differ.        *)
(***************************************************************************)
EXTENDS Integers, FiniteSets, Bags, BagsExt

CONSTANTS
    MaxMsgs,            \* bound: messages sent altogether
    KeyOut, KeyIn,      \* what GetKey gives for a message at its two ends
    Stamped,            \* messages with a timestamp
    Named,              \* messages by a socket with an identity
    max_num_retry,
    MaxLoss, MaxLate    \* bounds: copies dropped, timeouts that come too early

Msg == 1..MaxMsgs
Key == {KeyOut[m] : m \in Msg} \union {KeyIn[m] : m \in Msg}

\* A message of a process that has its id, which does not relay it.
Direct(m) == KeyOut[m] = KeyIn[m] /\ m \in Stamped \intersect Named
AllDirect == \A m \in Msg : Direct(m)

ASSUME ResenderAssumption ==
    /\ {MaxMsgs, MaxLoss, MaxLate} \subseteq Nat /\ max_num_retry \in Nat \ {0}
    /\ KeyOut \in [Msg -> Nat] /\ KeyIn \in [Msg -> Nat]
    /\ Stamped \subseteq Msg /\ Named \subseteq Msg

VARIABLES
    sent,          \* the messages 1 .. sent have been handed to Van::Send
    adding,        \* sent on the wire, and not yet given to AddOutgoing
    send_buff,     \* by key: [msg, num_retry], or no message
    resend,        \* collected by Monitoring, and not yet sent again
    net,           \* copies on the wire
    acks,          \* acknowledgements on the wire, by key
    acked,         \* keys the receiver has seen
    processed,     \* how often the receiver passed a message on
    lost, late,    \* how much was dropped, how many timeouts were late
    failed,        \* the sender stopped: CHECK_LT on num_retry or CHECK_NE on timestamp
    stopped        \* the receiver stopped: CHECK_NE on timestamp or on the ACK's recver

vars == <<sent, adding, send_buff, resend, net, acks, acked, processed, lost, late,
          failed, stopped>>

Free == [msg |-> 0, num_retry |-> 0]
Put(bag, x) == bag (+) SetToBag({x})
Take(bag, x) == bag (-) SetToBag({x})

Init ==
    /\ sent = 0
    /\ send_buff = [k \in Key |-> Free]
    /\ adding = EmptyBag /\ resend = EmptyBag /\ net = EmptyBag /\ acks = EmptyBag
    /\ acked = {}
    /\ processed = [m \in Msg |-> 0]
    /\ lost = 0 /\ late = 0
    /\ failed = FALSE /\ stopped = FALSE

-----------------------------------------------------------------------------
\* Van::Send up to SendMsg.
Send ==
    /\ ~failed /\ sent < MaxMsgs
    /\ sent' = sent + 1
    /\ net' = Put(net, sent + 1)
    /\ adding' = Put(adding, sent + 1)
    /\ UNCHANGED <<send_buff, resend, acks, acked, processed, lost, late, failed, stopped>>

\* Mutant: nothing is buffered.
BufferedNot(m) == send_buff

Buffered(m) == IF send_buff[KeyOut[m]] = Free
               THEN [send_buff EXCEPT ![KeyOut[m]] = [msg |-> m, num_retry |-> 0]]
               ELSE send_buff

\* Van::Send after SendMsg.
AddOutgoing(m) ==
    /\ ~failed /\ BagIn(m, adding)
    /\ adding' = Take(adding, m)
    /\ failed' = (m \notin Stamped)                          \* CHECK_NE(timestamp)
    /\ send_buff' = IF m \in Stamped THEN Buffered(m) ELSE send_buff
    /\ UNCHANGED <<sent, resend, net, acks, acked, processed, lost, late, stopped>>

\* A copy of the buffered message, or its acknowledgement, is still under way.
UnderWay(k) ==
    \E m \in Msg : /\ KeyOut[m] = k
                  /\ \/ m \in BagToSet(net) \union BagToSet(resend)
                     \/ KeyIn[m] \in BagToSet(acks)

\* Mutant: gives up one retry earlier.
TimeoutEarly(k) ==
    /\ ~failed /\ send_buff[k] # Free
    /\ UnderWay(k) => late < MaxLate
    /\ late' = IF UnderWay(k) THEN late + 1 ELSE late
    /\ resend' = Put(resend, send_buff[k].msg)
    /\ send_buff' = [send_buff EXCEPT ![k].num_retry = @ + 1]
    /\ failed' = (send_buff'[k].num_retry + 1 >= max_num_retry)
    /\ UNCHANGED <<sent, adding, net, acks, acked, processed, lost, stopped>>

\* Monitoring: a buffered message times out.
Timeout(k) ==
    /\ ~failed /\ send_buff[k] # Free
    /\ UnderWay(k) => late < MaxLate
    /\ late' = IF UnderWay(k) THEN late + 1 ELSE late
    /\ resend' = Put(resend, send_buff[k].msg)
    /\ send_buff' = [send_buff EXCEPT ![k] = [msg |-> @.msg, num_retry |-> @.num_retry + 1]]
    /\ failed' = (send_buff'[k].num_retry >= max_num_retry)     \* CHECK_LT
    /\ UNCHANGED <<sent, adding, net, acks, acked, processed, lost, stopped>>

\* Monitoring, after the lock: Send, which buffers again what was
\* acknowledged in the meantime.
Resend(m) ==
    /\ ~failed /\ BagIn(m, resend)
    /\ resend' = Take(resend, m)
    /\ net' = Put(net, m)
    /\ adding' = Put(adding, m)
    /\ UNCHANGED <<sent, send_buff, acks, acked, processed, lost, late, failed, stopped>>

-----------------------------------------------------------------------------
\* Mutants: duplicates are passed on, duplicates are not acknowledged.
AcceptTwice(m) ==
    /\ acks' = Put(acks, KeyIn[m])
    /\ acked' = acked \union {KeyIn[m]}
    /\ processed' = [processed EXCEPT ![m] = @ + 1]
AcceptQuiet(m) ==
    /\ acks' = IF KeyIn[m] \in acked THEN acks ELSE Put(acks, KeyIn[m])
    /\ acked' = acked \union {KeyIn[m]}
    /\ processed' = IF KeyIn[m] \in acked THEN processed ELSE [processed EXCEPT ![m] = @ + 1]

\* All copies are acknowledged, the first is passed on.
Accept(m) ==
    /\ acks' = Put(acks, KeyIn[m])
    /\ acked' = acked \union {KeyIn[m]}
    /\ processed' = IF KeyIn[m] \in acked THEN processed ELSE [processed EXCEPT ![m] = @ + 1]

\* AddIncomming: GetKey checks the timestamp, and SendMsg that the ACK has a
\* receiver, which it has not when the message came from a socket without identity.
AddIncomming(m) ==
    /\ ~stopped /\ BagIn(m, net)
    /\ net' = Take(net, m)
    /\ stopped' = (m \notin Stamped \intersect Named)
    /\ IF m \in Stamped \intersect Named THEN Accept(m) ELSE UNCHANGED <<acks, acked, processed>>
    /\ UNCHANGED <<sent, adding, send_buff, resend, lost, late, failed>>

\* AddIncomming of an ACK: the entry with the key of the receiver is erased.
Acknowledged(k) ==
    /\ ~failed /\ BagIn(k, acks)
    /\ acks' = Take(acks, k)
    /\ send_buff' = [send_buff EXCEPT ![k] = Free]
    /\ UNCHANGED <<sent, adding, resend, net, acked, processed, lost, late, failed, stopped>>

\* Van::Receiving drops what it received.
Drop ==
    /\ lost < MaxLoss
    /\ lost' = lost + 1
    /\ \/ \E m \in BagToSet(net) : net' = Take(net, m) /\ UNCHANGED acks
       \/ \E k \in BagToSet(acks) : acks' = Take(acks, k) /\ UNCHANGED net
    /\ UNCHANGED <<sent, adding, send_buff, resend, acked, processed, late, failed, stopped>>

Steps == \/ \E m \in Msg : AddOutgoing(m) \/ Resend(m) \/ AddIncomming(m)
         \/ \E k \in Key : Timeout(k) \/ Acknowledged(k)

Next == Send \/ Steps \/ Drop

\* The threads of both processes run and the connection carries messages.
Fair == /\ \A m \in Msg : WF_vars(AddOutgoing(m)) /\ WF_vars(Resend(m)) /\ WF_vars(AddIncomming(m))
        /\ \A k \in Key : WF_vars(Timeout(k)) /\ WF_vars(Acknowledged(k))
Spec == Init /\ [][Next]_vars /\ Fair

-----------------------------------------------------------------------------
\* What the resender keeps is of its type: an entry of send_buff_ is filed
\* under the key of its message at the sender, and an entry with max_num_retry
\* stops the sender (CHECK_LT in Monitoring).
TypeOK ==
    /\ sent \in 0..MaxMsgs
    /\ \A k \in Key : send_buff[k] # Free =>
         /\ send_buff[k].msg \in 1..sent /\ KeyOut[send_buff[k].msg] = k
         /\ send_buff[k].num_retry \in 0..(IF failed THEN max_num_retry ELSE max_num_retry - 1)
    /\ BagToSet(adding) \union BagToSet(net) \union BagToSet(resend) \subseteq 1..sent
    /\ BagToSet(acks) \subseteq acked /\ acked \subseteq Key

\* A message is passed on once, however often it was sent again (acked_): also a
\* relayed one, and also when one end stops in between.
ProcessedOnce == \A m \in Msg : processed[m] <= 1

\* The sender gives up only when copies or acknowledgements were lost or late,
\* one for each retry but one (that one is spent when the acknowledgement comes
\* between SendMsg and AddOutgoing), if each message has one key, a timestamp and a
\* named sender.  A relayed message stops its sender without any loss: its
\* acknowledgements come with a key that send_buff_ has not (resender.h:99).
NotGivenUp == AllDirect /\ failed => lost + late + 1 >= max_num_retry

\* An acknowledgement comes while its message is between SendMsg and AddOutgoing.
Overtakes == \E m \in BagToSet(adding) : Acknowledged(KeyIn[m])

\* For such messages send_buff_ empties, unless acknowledgements overtake
\* AddOutgoing again and again: a message that was buffered after its
\* acknowledgement is sent, and acknowledged, once more.
BufferDrains == AllDirect /\ <>[][~Overtakes]_vars => <>[](\A k \in Key : send_buff[k] = Free)

\* The receiver gets each message once and, when they are all Direct and no other
\* has its key, in the end: retransmission makes of the connection the network
\* that the layers above use.
Peer == "peer"
Net == INSTANCE Network WITH
         Dest <- {Peer}, MaxMsgs <- MaxMsgs, sent <- sent,
         dest <- [m \in Msg |-> IF m <= sent THEN {Peer} ELSE {}],
         arrived <- [m \in Msg |-> IF processed[m] > 0 THEN {Peer} ELSE {}]
ImplementsNetwork == Net!Spec
=============================================================================
