---------------------------- MODULE MCRouteManager ----------------------------
(* Four servers in a ring with a slow chord.                                  *)
EXTENDS RouteManager

Links == {{0, 1}, {1, 2}, {2, 3}, {0, 3}, {0, 2}}

\* Symmetric at the start, as in Van::Start.
MCInitTps == {[i \in Node |-> [j \in Node |->
                 IF {i, j} \notin Links THEN 0 ELSE IF {i, j} = {0, 2} THEN 1 ELSE 6]]}
=============================================================================
