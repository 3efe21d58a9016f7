--------------------------- MODULE MCLruCacheHistory -----------------------------
(* Instances of LruCacheHistory for TLC.                                          *)
EXTENDS LruCacheHistory, TLC

CONSTANTS k1, k2, k3

(* Two keys share a bucket, the third has its own                          *)
HashTwoOne == (k1 :> 0) @@ (k2 :> 0) @@ (k3 :> 1)
KeysThree == {k1, k2, k3}
HashTwo == (k1 :> 0) @@ (k2 :> 0)
KeysTwo == {k1, k2}

Symmetry == Permutations(Threads) \cup Permutations(Values)
=============================================================================
