----------------------------- MODULE MCBootstrap -----------------------------
(* Two containers with a server and a worker each. *)
EXTENDS Bootstrap

CONSTANTS s1, s2, w1, w2

MCOwn == [w \in {w1, w2} |-> IF w = w1 THEN s1 ELSE s2]
=============================================================================
