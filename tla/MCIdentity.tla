----------------------------- MODULE MCIdentity ------------------------------
(* Identity with one letter of w to x: an address that the owner may      *)
(* confirm and one that a confirmed domain covers.                         *)
EXTENDS Identity, TLC

x_covers == "x" :> {"x"} @@ "@d" :> {"w"}
from     == <<"w">>
to       == <<"x">>
kind     == <<"plain">>
hall     == <<"vendor">>
==============================================================================
