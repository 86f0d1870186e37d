----------------------------- MODULE MCDetector -----------------------------
(***************************************************************************)
(* Two training matrices and two inputs whose normalised scores (600, 300  *)
(* on the first, 800, 500 on the second) fall on both sides of the         *)
(* thresholds: 0.3 (below the benchmark's 0.49 cut), the 0.5               *)
(* train_model.py passes and the 0.65 default (Init); 1.0, the largest     *)
(* update_threshold accepts, puts confidence past its cap. The benchmark   *)
(* samples are two attacks, a dex_swap, a lending_borrow the script        *)
(* filters as a swap, and a transfer filtered without context.             *)
(***************************************************************************)
EXTENDS Detector, TLC

CONSTANTS X1, X2, Tx1, Tx2

MCDecisionOf == X1 :> (Tx1 :> -200 @@ Tx2 :> 400) @@ X2 :> (Tx1 :> -600 @@ Tx2 :> 0)

(* Benchmark transactions: a flash-loan attack and a plain attack, and     *)
(* benign ones of a type with protocol context (a swap, and a borrow       *)
(* whose value exceeds the swap bound it is checked against) and without.  *)
MCBenchSamples ==
    {[input |-> Tx1, label |-> "attack", tx_type |-> "flash_loan_attack",
      vector |-> [flash |-> 1000, contracts |-> 12, delta |-> 40], gas |-> 20],
     [input |-> Tx2, label |-> "attack", tx_type |-> "reentrancy",
      vector |-> [flash |-> 0, contracts |-> 4, delta |-> 2], gas |-> 3],
     [input |-> Tx1, label |-> "benign", tx_type |-> "dex_swap",
      vector |-> [flash |-> 0, contracts |-> 3, delta |-> 1], gas |-> 2],
     [input |-> Tx2, label |-> "benign", tx_type |-> "lending_borrow",
      vector |-> [flash |-> 0, contracts |-> 6, delta |-> 8], gas |-> 4],
     [input |-> Tx2, label |-> "benign", tx_type |-> "simple_transfer",
      vector |-> [flash |-> 0, contracts |-> 1, delta |-> 0], gas |-> 1]}
====
