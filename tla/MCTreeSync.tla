----------------------------- MODULE MCTreeSync -----------------------------
(* TLC instances of TreeSync: three containers, keys at two roots.          *)
EXTENDS TreeSyncInv

CONSTANTS s1, s2, s3, k1, k2, Star, ViaC, Chain

MCRootOf == [k \in Key |-> IF k = k1 THEN s1 ELSE s2]

\* Next hops towards s1 and s2; no key has its root at s3.
MCNextHop ==
    [p \in Policies |-> [r \in Node |-> [n \in Node |->
        CASE p = ViaC /\ r = s1 /\ n = s2 -> s3
          [] p = ViaC /\ r = s2 /\ n = s1 -> s3
          [] p = Chain /\ r = s1 /\ n = s3 -> s2
          [] p = Chain /\ r = s2 /\ n = s3 -> s1
          [] OTHER -> r]]]
=============================================================================
