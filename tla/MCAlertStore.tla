---------------------------- MODULE MCAlertStore ----------------------------
(***************************************************************************)
(* Model values for AlertStore.  One alert, read by one client while a     *)
(* reviewer updates it; three analysis records over two transactions, so   *)
(* a transaction is analysed twice after another one; two metrics          *)
(* snapshots, and a clock that moves half a day at a time so that a        *)
(* snapshot falls on the day the history window starts.                    *)
(***************************************************************************)
EXTENDS AlertStore

MCAlertIds == {"a1"}
MCMetricIds == {"m1", "m2"}

(* Record ids and transaction hashes are model values: no call tells two   *)
(* uuids or two hashes apart other than by equality.                       *)
CONSTANTS r1, r2, r3, tx1, tx2

MCRecordIds == {r1, r2, r3}
MCTxHashes == {tx1, tx2}
MCSymmetry == Permutations(MCRecordIds) \cup Permutations(MCTxHashes)
====
