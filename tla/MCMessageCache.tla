--------------------------- MODULE MCMessageCache ---------------------------
(***************************************************************************)
(* Instances of MessageCache for TLC: three messages of which any two fit  *)
(* or do not fit, and one that is too large by itself.                     *)
(***************************************************************************)
EXTENDS MessageCache, TLC

CONSTANTS m1, m2, m3

Sizes == (m1 :> 1) @@ (m2 :> 2) @@ (m3 :> 4)
None == {}
=============================================================================
