-------------------------------- MODULE NameMap --------------------------------
(***************************************************************************)
(* What the label map promises: a partial function from names to integers  *)
(* whose entries are never overwritten.  call is the last call and what it *)
(* returned.                                                               *)
(***************************************************************************)
CONSTANTS Key, Value, NULL

VARIABLES
  contents,   (* The function.                                              *)
  live,       (* FALSE between free_map and clear_map.                      *)
  call        (* <<operation, argument, result>>.                           *)

vars == <<contents, live, call>>

Init == contents = <<>> /\ live = TRUE /\ call = <<"new">>

\* The first value of a name stays, and the caller is told.
Insert(k, v) == /\ live
                /\ contents' = [x \in DOMAIN contents \cup {k} |->
                                    IF x \in DOMAIN contents THEN contents[x] ELSE v]
                /\ call' = <<"insert", k, k \notin DOMAIN contents>>
                /\ UNCHANGED live

Get(k) == /\ live
          /\ call' = <<"get", k, IF k \in DOMAIN contents THEN contents[k] ELSE NULL>>
          /\ UNCHANGED <<contents, live>>

Remove(k) == /\ live
             /\ contents' = [x \in DOMAIN contents \ {k} |-> contents[x]]
             /\ call' = <<"remove", k, k \in DOMAIN contents>>
             /\ UNCHANGED live

Clear == contents' = <<>> /\ live' = TRUE /\ call' = <<"clear">>

Free == contents' = <<>> /\ live' = FALSE /\ call' = <<"free">>

\* An iterator returns entries of the map, in an order and a number not promised.
Iterate == /\ live
           /\ \/ call' = <<"next", NULL, 0>>
              \/ \E k \in DOMAIN contents : call' = <<"next", k, contents[k]>>
           /\ UNCHANGED <<contents, live>>

Next == \/ \E k \in Key : Get(k) \/ Remove(k) \/ \E v \in Value : Insert(k, v)
        \/ Clear \/ Free \/ Iterate

Spec == Init /\ [][Next]_vars
=============================================================================
