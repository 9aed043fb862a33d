------------------------------- MODULE Network -------------------------------
(***************************************************************************)
(* The network as TreeSync uses it: a message that is sent is delivered    *)
(* to its destination once, in the end, and in any order.                  *)
(***************************************************************************)
EXTENDS Naturals

CONSTANTS Dest,       \* the destinations
          MaxMsgs     \* bound: messages sent altogether

VARIABLES
    sent,        \* the messages 1 .. sent have been sent
    dest,        \* where a message is to go
    arrived      \* where a message has arrived

vars == <<sent, dest, arrived>>

Msg == 1..MaxMsgs

Init == sent = 0 /\ dest = [m \in Msg |-> {}] /\ arrived = [m \in Msg |-> {}]

Send(d) ==
    /\ sent < MaxMsgs
    /\ sent' = sent + 1
    /\ dest' = [dest EXCEPT ![sent + 1] = {d}]
    /\ UNCHANGED arrived

Deliver(m) ==
    /\ arrived[m] # dest[m]
    /\ arrived' = [arrived EXCEPT ![m] = dest[m]]
    /\ UNCHANGED <<sent, dest>>

Next == \/ \E d \in Dest : Send(d)
        \/ \E m \in Msg : Deliver(m)

\* What may happen, and what must happen in the end.
Safety == Init /\ [][Next]_vars
Spec == Safety /\ \A m \in Msg : WF_vars(Deliver(m))
=============================================================================
