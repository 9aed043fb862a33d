---------------------------- MODULE MCLifecycle ----------------------------
(* Two containers and a scheduler.                                          *)
EXTENDS Lifecycle

CONSTANTS w0, w1, s0, s1, sch

MCWorker == {w0, w1}
MCServer == {s0, s1}
MCOwnServer == [w \in MCWorker |-> IF w = w0 THEN s0 ELSE s1]

\* The scheduler and the containers have a second interface, except that the
\* worker w1 binds only the first.
MCNumEth == [n \in Node |-> IF n = w1 THEN 1 ELSE 2]

\* One address of the scheduler for all, or another one for each container.
OneAddress == [n \in Node |-> 1]
TwoAddresses == [n \in Node |-> IF n \in {w1, s1} THEN 2 ELSE 1]
MCAddresses == {OneAddress, TwoAddresses}

\* With two addresses, the run goes up to the end of the first barrier.
StartOnly == OneInterface \/ \A n \in Node : pc[n] = 1
============================================================================
