---------------------------- MODULE MCForwarding ----------------------------
(* Three servers that are all neighbours.  At first the best paths are the  *)
(* direct ones, with a detour as the auxiliary path; the scheduler may      *)
(* release routes where it is the other way round from a to b.              *)
EXTENDS Forwarding

CONSTANTS a, b, c

MCServer == {a, b, c}
Third(n, d) == CHOOSE k \in MCServer : k # n /\ k # d

Direct == [n \in MCServer |-> [d \in MCServer |->
             IF n = d THEN <<>> ELSE << <<n, d>>, <<n, Third(n, d), d>> >>]]
\* a reaches b through c.
Detour == [Direct EXCEPT ![a][b] = << <<a, c, b>>, <<a, b>> >>]

Tables == {Detour}

\* New routes come to a, the only server whose paths differ.
OneRelease == [n \in MCServer |-> IF n = a THEN 1 ELSE 0]

Load(worker, size) == [src |-> a, dst |-> b, worker |-> worker, size |-> size]

\* Enough messages for the last one to find a long queue and take the other path.
\* Together the sizes are above the Precision: with 11 bytes in the count, what is
\* acknowledged first is subtracted from 12.
Burst == <<Load(FALSE, 5), Load(FALSE, 0), Load(FALSE, 0), Load(TRUE, 6)>>
=============================================================================
