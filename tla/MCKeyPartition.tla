---------------------------- MODULE MCKeyPartition ----------------------------
(* Three workers, three servers, pieces of at most two elements. *)
EXTENDS KeyPartition

OfServer(a, b, c) == [i \in 0..2 |-> CASE i = 0 -> a [] i = 1 -> b [] i = 2 -> c]

\* Three equal servers, one that is to get nothing, and three whose shares of 14
\* elements are rounded to 4, 5 and 4.
SomePerfs == {OfServer(1, 1, 1), OfServer(0, 3, 5), OfServer(7, 9, 7)}

\* Array 0 fits in a piece, the others make four, two and one of them.
SmallFirst == [k \in 0..3 |-> CASE k = 0 -> 2 [] k = 1 -> 7 [] k = 2 -> 4 [] k = 3 -> 1]
=============================================================================
