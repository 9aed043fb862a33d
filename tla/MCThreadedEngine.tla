-------------------------- MODULE MCThreadedEngine --------------------------
(* One thread pushing to two variables, and two threads.                    *)
EXTENDS ThreadedEngine

CONSTANTS x, y, main, other

MCVar == {x, y}
OneVar == {x}
OneThread == {main}
TwoThreads == {main, other}
=============================================================================
