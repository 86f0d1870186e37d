--------------------------- MODULE MCForkReplayer ---------------------------
(***************************************************************************)
(* Model values for ForkReplayer: three concurrent replay_transaction      *)
(* calls, the third for a hash the origin RPC does not know.               *)
(***************************************************************************)
EXTENDS ForkReplayer, TLC

CONSTANTS r1, r2, r3

(* hash(tx_hash) values of either sign.  The distinct ones give ports     *)
(* 8562, 8662 and 8564; in the colliding ones 1017 and -983 both give      *)
(* port 8562.                                                              *)
DistinctHashes == (r1 :> 1017) @@ (r2 :> -883) @@ (r3 :> 3019)
CollidingHashes == (r1 :> 1017) @@ (r2 :> -983) @@ (r3 :> 3019)
MCOnOrigin == {r1, r2}
=============================================================================
