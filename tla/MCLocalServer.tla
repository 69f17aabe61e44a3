--------------------------- MODULE MCLocalServer --------------------------
(***************************************************************************)
(* Instances of LocalServer for TLC.                                       *)
(***************************************************************************)
EXTENDS LocalServer

AllInOne == [m \in File |-> CHOOSE f \in Folder : TRUE]
=============================================================================
