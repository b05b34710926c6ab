------------------------------ MODULE MCStrIntMap ------------------------------
(***************************************************************************)
(* The label map with few names: most share a bucket, two of those part    *)
(* when the array is doubled, and one falls into the last bucket.          *)
(***************************************************************************)
EXTENDS StrIntMap

CONSTANTS k1, k2, k3, k4

MCKey  == {k1, k2, k3, k4}
MCHash == k1 :> 1 @@ k2 :> 5 @@ k3 :> 9 @@ k4 :> 3
=============================================================================
