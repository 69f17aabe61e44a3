------------------------------ MODULE MCMaildirs ----------------------------
(***************************************************************************)
(* Instances of Maildirs for TLC. Siblings share parents that are no       *)
(* folders; Nested are "A" and "A/B".                                      *)
(***************************************************************************)
EXTENDS Maildirs

AB == << <<"A">>, <<"B">> >>
A == << <<"A">> >>
CB == << <<"C">>, <<"B">> >>

Siblings == {AB, CB, << <<"A">>, <<"C">> >>}
Nested == {A, AB}

SameValidity == [f \in Folder |-> 1]
AnySelection == SUBSET Folder
EverySelection == {Folder}
=============================================================================
