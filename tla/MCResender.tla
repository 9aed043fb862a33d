------------------------------ MODULE MCResender ------------------------------
(* Messages to one process, each with a key of its own. *)
EXTENDS Resender

OwnKeys == [m \in Msg |-> m]
=============================================================================
