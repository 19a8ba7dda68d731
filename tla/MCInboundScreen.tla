--------------------------- MODULE MCInboundScreen ----------------------------
(* Constants of InboundScreen for model checking. *)
EXTENDS InboundScreen

CONSTANT a1

OneAccount == {a1}
===============================================================================
