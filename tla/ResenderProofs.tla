--------------------------- MODULE ResenderProofs ---------------------------
(***************************************************************************)
(* What the resender promises whatever is lost and whenever the timer      *)
(* fires: for every number of messages and every assignment of keys.       *)
(***************************************************************************)
EXTENDS Resender, TLAPS

-----------------------------------------------------------------------------
(* The inductive invariant *)

\* The bags are bags, of messages that were sent.
WireInv ==
    /\ sent \in 0..MaxMsgs
    /\ \A bag \in {adding, resend, net} : IsABag(bag) /\ BagToSet(bag) \subseteq 1..sent
    /\ IsABag(acks) /\ BagToSet(acks) \subseteq acked /\ acked \subseteq Key

\* An entry of the buffer is filed under the key of its message.
BufferInv ==
    /\ send_buff \in [Key -> [msg : 0..sent, num_retry : Nat]]
    /\ \A k \in Key : send_buff[k] # Free =>
         send_buff[k].msg # 0 /\ KeyOut[send_buff[k].msg] = k

\* A message is passed on when its key is seen for the first time.
ReceiverInv ==
    /\ processed \in [Msg -> {0, 1}]
    /\ \A m \in Msg : processed[m] > 0 => KeyIn[m] \in acked /\ m <= sent

\* When both ends use one key, every retry of an entry answers a loss or a late
\* timeout, except for the one that is under way.
RetryInv ==
    /\ lost \in 0..MaxLoss /\ late \in 0..MaxLate
    /\ AllDirect => \A k \in Key :
         send_buff[k].num_retry <= lost + late + IF UnderWay(k) THEN 1 ELSE 0

\* The sender stops when an entry has used up its retries, and when all messages
\* have a timestamp only then.
FailInv ==
    /\ failed \in BOOLEAN
    /\ \A k \in Key : send_buff[k].num_retry <= max_num_retry
    /\ (\E k \in Key : send_buff[k].num_retry = max_num_retry) => failed
    /\ AllDirect /\ failed => \E k \in Key : send_buff[k].num_retry = max_num_retry

ResendInv == WireInv /\ BufferInv /\ ReceiverInv /\ RetryInv /\ FailInv

-----------------------------------------------------------------------------
(* Bags *)

\* Adding one copy to a bag.
LEMMA PutFacts ==
    ASSUME NEW B, IsABag(B), NEW x
    PROVE  IsABag(Put(B, x)) /\ BagToSet(Put(B, x)) = BagToSet(B) \union {x}
BY DEF IsABag, Put, BagToSet, (+), SetToBag

\* Removing one copy from a bag touches nothing else.
LEMMA TakeFacts ==
    ASSUME NEW B, IsABag(B), NEW x
    PROVE  /\ IsABag(Take(B, x))
           /\ BagToSet(Take(B, x)) \subseteq BagToSet(B)
           /\ BagToSet(B) \ {x} \subseteq BagToSet(Take(B, x))
BY DEF IsABag, Take, BagToSet, (-), SetToBag

LEMMA EmptyBagFacts == IsABag(EmptyBag) /\ BagToSet(EmptyBag) = {}
BY DEF IsABag, EmptyBag, BagToSet, SetToBag

-----------------------------------------------------------------------------
(* Every step keeps the invariant *)

LEMMA ResendInit == Init => ResendInv
<1> SUFFICES ASSUME Init PROVE ResendInv
  OBVIOUS
<1> USE ResenderAssumption DEF Init
<1>1. WireInv
  BY EmptyBagFacts DEF WireInv
<1>2. BufferInv /\ ReceiverInv
  BY DEF BufferInv, ReceiverInv, Free
<1>3. RetryInv /\ FailInv
  <2>1. \A k \in Key : send_buff[k].num_retry = 0
    BY DEF Free
  <2>2. \A k \in Key : 0 <= 0 + 0 + IF UnderWay(k) THEN 1 ELSE 0
    OBVIOUS
  <2>3. RetryInv
    BY <2>1, <2>2 DEF RetryInv
  <2>4. \A k \in Key : send_buff[k].num_retry < max_num_retry
    BY <2>1
  <2>5. ~failed
    OBVIOUS
  <2>6. FailInv
    <3>1. \A k \in Key : /\ send_buff[k].num_retry <= max_num_retry
                         /\ send_buff[k].num_retry # max_num_retry
      BY <2>1, <2>4
    <3>2. failed \in BOOLEAN
      OBVIOUS
    <3> QED
      BY <2>5, <3>1, <3>2, Zenon DEF FailInv
  <2> QED
    BY <2>3, <2>6
<1> QED
  BY <1>1, <1>2, <1>3 DEF ResendInv

\* Van::Send: a new copy is under way.
LEMMA SendKeeps == ASSUME ResendInv, Send PROVE ResendInv'
<1> USE ResenderAssumption DEF ResendInv, Send
<1>1. WireInv'
  BY PutFacts DEF WireInv
<1>2. BufferInv' /\ ReceiverInv'
  BY DEF WireInv, BufferInv, ReceiverInv, Msg
<1>3. \A k \in Key : UnderWay(k) => UnderWay(k)'
  BY PutFacts DEF UnderWay, WireInv
<1>4. RetryInv'
  BY <1>3 DEF RetryInv, BufferInv
<1>5. FailInv'
  BY DEF FailInv
<1> QED
  BY <1>1, <1>2, <1>4, <1>5

\* A message is buffered without a retry, or not at all.
LEMMA AddOutgoingKeeps ==
    ASSUME ResendInv, NEW m \in Msg, AddOutgoing(m) PROVE ResendInv'
<1> USE ResenderAssumption DEF ResendInv, AddOutgoing
<1>1. KeyOut[m] \in Key /\ m \in 1..sent
  BY DEF Key, WireInv, BagIn
<1>2. WireInv'
  BY TakeFacts DEF WireInv
<1>3. BufferInv'
  BY <1>1 DEF BufferInv, Buffered, WireInv
<1>4. ReceiverInv'
  BY DEF ReceiverInv
<1>5. \A k \in Key : send_buff'[k].num_retry = send_buff[k].num_retry
  BY <1>1 DEF BufferInv, Buffered, Free
<1>6. RetryInv'
  BY <1>5 DEF RetryInv, UnderWay
<1>7. FailInv'
  <2>1. AllDirect => m \in Stamped
    BY DEF AllDirect, Direct
  <2>2. ~failed /\ failed' = (m \notin Stamped)
    OBVIOUS
  <2> HIDE DEF AddOutgoing
  <2> QED
    BY <1>5, <2>1, <2>2 DEF FailInv
<1> QED
  BY <1>2, <1>3, <1>4, <1>6, <1>7

\* A timeout is late, or nothing of its message is under way before it.
LEMMA TimeoutKeeps ==
    ASSUME ResendInv, NEW k \in Key, Timeout(k) PROVE ResendInv'
<1> USE ResenderAssumption DEF ResendInv, Timeout
<1> DEFINE m == send_buff[k].msg
<1>1. m \in 1..sent /\ KeyOut[m] = k
  BY DEF BufferInv, WireInv
<1>2. WireInv'
  BY <1>1, PutFacts DEF WireInv
<1>3. BufferInv'
  <2>1. [msg |-> m, num_retry |-> send_buff[k].num_retry + 1] \in [msg : 0..sent, num_retry : Nat]
    BY <1>1 DEF BufferInv, WireInv
  <2> QED
    BY <1>1, <2>1 DEF BufferInv, WireInv
<1>4. ReceiverInv'
  BY DEF ReceiverInv
<1>5. \A j \in Key : send_buff'[j].num_retry
                       = IF j = k THEN send_buff[k].num_retry + 1 ELSE send_buff[j].num_retry
  BY DEF BufferInv
<1>6. RetryInv'
  <2>1. \A j \in Key : UnderWay(j) => UnderWay(j)'
    BY PutFacts DEF UnderWay, WireInv
  <2>2. UnderWay(k)'
    <3>1. m \in Msg /\ m \in BagToSet(resend)'
      BY <1>1, PutFacts DEF WireInv, Msg
    <3> QED
      BY <1>1, <3>1 DEF UnderWay
  <2>3. late' \in 0..MaxLate /\ late <= late' /\ (UnderWay(k) => late' = late + 1)
    BY DEF RetryInv
  <2>4. \A j \in Key : send_buff[j].num_retry \in Nat
    BY DEF BufferInv
  <2> HIDE DEF Timeout
  <2>5. lost' = lost
    BY DEF Timeout
  <2> QED
    BY <1>5, <2>1, <2>2, <2>3, <2>4, <2>5 DEF RetryInv
<1>7. FailInv'
  <2>1. \A j \in Key : send_buff[j].num_retry \in Nat /\ send_buff[j].num_retry < max_num_retry
    <3>1. \A j \in Key : send_buff[j].num_retry \in Nat
      BY DEF BufferInv
    <3>2. \A j \in Key : /\ send_buff[j].num_retry <= max_num_retry
                         /\ send_buff[j].num_retry # max_num_retry
      BY Zenon DEF FailInv
    <3> QED
      BY <3>1, <3>2
  <2>2. \A j \in Key : send_buff'[j].num_retry <= max_num_retry
    BY <1>5, <2>1
  <2>3. failed' = (send_buff'[k].num_retry >= max_num_retry)
    OBVIOUS
  <2>6. (send_buff'[k].num_retry >= max_num_retry) <=> (send_buff'[k].num_retry = max_num_retry)
    BY <1>5, <2>1
  <2>4. \A j \in Key : j # k => send_buff'[j].num_retry # max_num_retry
    BY <1>5, <2>1
  <2>5. failed' \in BOOLEAN
    BY <2>3
  <2>7. failed' <=> \E j \in Key : send_buff'[j].num_retry = max_num_retry
    BY <2>3, <2>4, <2>6
  <2> QED
    BY <2>2, <2>5, <2>7 DEF FailInv
<1> QED
  BY <1>2, <1>3, <1>4, <1>6, <1>7

\* Sending again moves a copy from the monitor to the wire.
LEMMA ResendKeeps ==
    ASSUME ResendInv, NEW m \in Msg, Resend(m) PROVE ResendInv'
<1> USE ResenderAssumption DEF ResendInv, Resend
<1>1. m \in 1..sent
  BY DEF WireInv, BagIn
<1>2. WireInv'
  BY <1>1, PutFacts, TakeFacts DEF WireInv
<1>3. BufferInv' /\ ReceiverInv' /\ FailInv'
  BY DEF BufferInv, ReceiverInv, FailInv
<1>4. \A k \in Key : UnderWay(k) => UnderWay(k)'
  BY PutFacts, TakeFacts DEF UnderWay, WireInv
<1>5. RetryInv'
  BY <1>4 DEF RetryInv, BufferInv
<1> QED
  BY <1>2, <1>3, <1>5

\* A copy is turned into an acknowledgement; the first is passed on.
LEMMA AddIncommingKeeps ==
    ASSUME ResendInv, NEW m \in Msg, AddIncomming(m) PROVE ResendInv'
<1> USE ResenderAssumption DEF ResendInv, AddIncomming
<1>1. KeyIn[m] \in Key /\ m \in 1..sent
  BY DEF Key, WireInv, BagIn
<1>2. WireInv'
  BY <1>1, PutFacts, TakeFacts DEF WireInv, Accept
<1>3. BufferInv' /\ FailInv'
  BY DEF BufferInv, FailInv
<1>4. ReceiverInv'
  BY <1>1 DEF ReceiverInv, WireInv, Accept
<1>5. AllDirect => \A k \in Key : UnderWay(k) => UnderWay(k)'
  <2> SUFFICES ASSUME AllDirect, NEW k \in Key, UnderWay(k) PROVE UnderWay(k)'
    OBVIOUS
  <2>1. Accept(m)
    BY DEF AllDirect, Direct
  <2> QED
    BY <2>1, PutFacts, TakeFacts DEF UnderWay, WireInv, Accept
<1>6. RetryInv'
  BY <1>5 DEF RetryInv, BufferInv
<1> QED
  BY <1>2, <1>3, <1>4, <1>6

\* An acknowledgement frees its entry, with all its retries.
LEMMA AcknowledgedKeeps ==
    ASSUME ResendInv, NEW k \in Key, Acknowledged(k) PROVE ResendInv'
<1> USE ResenderAssumption DEF ResendInv, Acknowledged
<1>1. WireInv'
  BY TakeFacts DEF WireInv
<1>2. BufferInv' /\ ReceiverInv'
  BY DEF BufferInv, ReceiverInv, Free, WireInv
<1>3. \A j \in Key : send_buff'[j].num_retry = IF j = k THEN 0 ELSE send_buff[j].num_retry
  BY DEF BufferInv, Free
<1>4. AllDirect => \A j \in Key \ {k} : UnderWay(j) => UnderWay(j)'
  BY TakeFacts DEF UnderWay, WireInv, AllDirect, Direct
<1>5. RetryInv'
  BY <1>3, <1>4 DEF RetryInv, BufferInv
<1>6. FailInv'
  BY <1>3 DEF FailInv, BufferInv
<1> QED
  BY <1>1, <1>2, <1>5, <1>6

\* A loss pays for the retry that it makes necessary.
LEMMA DropKeeps == ASSUME ResendInv, Drop PROVE ResendInv'
<1> USE ResenderAssumption DEF ResendInv, Drop
<1>1. WireInv'
  BY TakeFacts DEF WireInv
<1>2. BufferInv' /\ ReceiverInv' /\ FailInv'
  BY DEF BufferInv, ReceiverInv, FailInv
<1>3. RetryInv'
  <2>1. \A k \in Key : send_buff'[k].num_retry = send_buff[k].num_retry
                       /\ send_buff[k].num_retry \in Nat
    BY DEF BufferInv
  <2>2. lost \in Nat /\ lost' = lost + 1 /\ lost' \in 0..MaxLoss /\ late' = late /\ late \in Nat
    BY DEF RetryInv
  <2>3. AllDirect => \A k \in Key : send_buff[k].num_retry <= lost + late + 1
    BY <2>1, <2>2 DEF RetryInv
  <2> HIDE DEF Drop
  <2> QED
    BY <2>1, <2>2, <2>3 DEF RetryInv
<1> QED
  BY <1>1, <1>2, <1>3

\* The invariant is inductive.
THEOREM ResendInductive == Spec => []ResendInv
<1>1. ASSUME ResendInv, [Next]_vars PROVE ResendInv'
  <2>1. CASE UNCHANGED vars
    BY <1>1, <2>1 DEF vars, ResendInv, WireInv, BufferInv, ReceiverInv, RetryInv, FailInv, UnderWay
  <2> QED
    BY <1>1, <2>1, SendKeeps, AddOutgoingKeeps, TimeoutKeeps, ResendKeeps, AddIncommingKeeps,
       AcknowledgedKeeps, DropKeeps DEF Next, Steps
<1> QED
  BY ResendInit, <1>1, PTL DEF Spec

-----------------------------------------------------------------------------
(* What follows *)

\* What the resender keeps is of its type at any time (resender.h).
THEOREM ResenderTypes == Spec => []TypeOK
<1>1. ResendInv => TypeOK
  <2> SUFFICES ASSUME ResendInv PROVE TypeOK
    OBVIOUS
  <2> USE ResenderAssumption DEF ResendInv
  <2>1. ASSUME NEW k \in Key, send_buff[k] # Free
        PROVE  /\ send_buff[k].msg \in 1..sent /\ KeyOut[send_buff[k].msg] = k
               /\ send_buff[k].num_retry \in 0..(IF failed THEN max_num_retry ELSE max_num_retry - 1)
    BY <2>1 DEF BufferInv, FailInv, WireInv
  <2> QED
    BY <2>1 DEF TypeOK, WireInv
<1> QED
  BY ResendInductive, <1>1, PTL

\* However often copies are lost, repeated or late, no message is passed on
\* twice, also when GetKey gives two messages one key, or a message two
\* (AddIncomming).
THEOREM ProcessedOnceHolds == Spec => []ProcessedOnce
<1>1. ResendInv => ProcessedOnce
  BY DEF ResendInv, ReceiverInv, ProcessedOnce
<1> QED
  BY ResendInductive, <1>1, PTL

\* Messages that are not relayed, of processes that have their ids: one retry
\* more than the losses and the late timeouts is enough for the sender never to
\* give up (CHECK_LT in Monitoring).
THEOREM NotGivenUpHolds == Spec => []NotGivenUp
<1>1. ResendInv => NotGivenUp
  <2> SUFFICES ASSUME ResendInv, AllDirect, failed PROVE lost + late + 1 >= max_num_retry
    BY DEF NotGivenUp
  <2>1. \A k \in Key : send_buff[k].num_retry \in Nat
                       /\ send_buff[k].num_retry <= lost + late + 1
    BY ResenderAssumption DEF ResendInv, BufferInv, RetryInv
  <2>2. PICK k \in Key : send_buff[k].num_retry = max_num_retry
    BY DEF ResendInv, FailInv
  <2> QED
    BY <2>1, <2>2, ResenderAssumption DEF ResendInv, RetryInv
<1> QED
  BY ResendInductive, <1>1, PTL

\* Towards the layers above, every step of the resender is a step of the
\* network or none: a message arrives after it was sent, and once.
THEOREM ResenderRefines == Spec => Net!Safety
<1> DEFINE dest == [m \in Msg |-> IF m <= sent THEN {Peer} ELSE {}]
           arrived == [m \in Msg |-> IF processed[m] > 0 THEN {Peer} ELSE {}]
<1>1. Init => Net!Init
  BY ResenderAssumption DEF Init, Net!Init, Net!Msg, Msg
<1>2. ASSUME ResendInv, [Next]_vars PROVE [Net!Next]_(Net!vars)
  <2> USE ResenderAssumption DEF ResendInv
  <2>1. CASE Send
    <3>1. sent \in Nat /\ sent + 1 \in Msg /\ sent' = sent + 1 /\ processed' = processed
      BY <1>2, <2>1 DEF Send, WireInv, Msg
    <3>2. dest' = [dest EXCEPT ![sent + 1] = {Peer}]
      <4>1. \A m \in Msg : (m <= sent + 1) <=> (m = sent + 1 \/ m <= sent)
        BY <3>1 DEF Msg
      <4> QED
        BY <3>1, <4>1
    <3> QED
      BY <3>1, <3>2, <2>1 DEF Send, Net!Next, Net!Send
  <2>2. ASSUME NEW m \in Msg, AddIncomming(m) PROVE [Net!Next]_(Net!vars)
    <3>1. CASE UNCHANGED <<sent, processed>>
      BY <3>1 DEF Net!vars
    <3>2. CASE ~ UNCHANGED <<sent, processed>>
      <4>0. Accept(m) /\ KeyIn[m] \notin acked
        BY <2>2, <3>2 DEF AddIncomming, Accept
      <4>1. m \in 1..sent /\ sent' = sent
        BY <1>2, <2>2 DEF AddIncomming, WireInv, BagIn
      <4>2. processed[m] = 0 /\ processed' = [processed EXCEPT ![m] = 1]
        <5>1. processed[m] = 0
          BY <1>2, <4>0 DEF ReceiverInv
        <5> QED
          BY <4>0, <5>1 DEF Accept
      <4>3. dest' = dest /\ dest[m] = {Peer} /\ arrived[m] = {}
        BY <4>1, <4>2 DEF Msg
      <4>4. arrived' = [arrived EXCEPT ![m] = dest[m]]
        <5>1. \A n \in Msg : processed'[n] > 0 <=> (n = m \/ processed[n] > 0)
          BY <1>2, <4>2 DEF ReceiverInv
        <5> QED
          BY <4>3, <5>1
      <4> QED
        BY <4>1, <4>3, <4>4 DEF Net!Next, Net!Deliver, Net!Msg, Msg
    <3> QED
      BY <3>1, <3>2
  <2>3. CASE UNCHANGED <<sent, processed>>
    BY <2>3 DEF Net!vars
  <2> QED
    BY <1>2, <2>1, <2>2, <2>3 DEF Next, Steps, AddOutgoing, Timeout, Resend, Acknowledged, Drop, vars
<1> QED
  BY <1>1, <1>2, ResendInductive, PTL DEF Spec, Net!Safety
=============================================================================
