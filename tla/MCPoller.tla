------------------------------ MODULE MCPoller ------------------------------
(* One connection that connects, and others that read.                     *)
EXTENDS Poller

CONSTANT n1

Operations == [n \in Nodes |-> IF n = n1 THEN "CONNECT" ELSE "READ"]
=============================================================================
