------------------------------ MODULE MCInbound -------------------------------
(* Inbound with two processes and three copies of one command, of which the   *)
(* first does not pass the gates.  Any of them may never arrive.              *)
EXTENDS Inbound

CONSTANTS serve, stdio, n1

TwoProcs == {serve, stdio}
OneNonce == {n1}
ThreeMails == 1..3
Copies == [m \in ThreeMails |-> n1]
===============================================================================
