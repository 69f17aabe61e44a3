------------------------------- MODULE MCInputs -----------------------------
(***************************************************************************)
(* The two functions that interpret what comes from outside, FolderSpecs   *)
(* and EmailFields, for TLC: a behaviour is one call of one of them. There *)
(* are two plain folders and a Gmail one.                                  *)
(***************************************************************************)
EXTENDS FolderSpecs, EmailFields

Ranks == [x |-> 2, y |-> 3, gmail |-> 1]
Undashed == {0}

NoSpecs ==
    available = << >> /\ specs = << >> /\ selected = newOrderedSet /\ folders = << >>

InputsInit ==
    \/ Init /\ EmailInit /\ len = 0
    \/ NoSpecs /\ pc = "done" /\ EmailInit

InputsNext ==
    \/ Next /\ UNCHANGED emailVars
    \/ EmailNext /\ UNCHANGED vars

InputsSpec == InputsInit /\ [][InputsNext]_<<vars, emailVars>>
=============================================================================
