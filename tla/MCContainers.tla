------------------------------ MODULE MCContainers ------------------------------
(***************************************************************************)
(* Containers with two elements.                                           *)
(***************************************************************************)
EXTENDS Containers

MCLists == {<<>>, <<1>>, <<2, 1>>}
MCFiles == SeqOf({1, 2, 255}, 3)
=============================================================================
