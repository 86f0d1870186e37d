------------------------ MODULE MCInferenceEngine ------------------------
(***************************************************************************)
(* Model values for InferenceEngine: a batch of four pending transactions  *)
(* of the kinds the heuristics tell apart, with what a fork replay of each *)
(* returns.                                                                *)
(***************************************************************************)
EXTENDS InferenceEngine

UniswapV2Router == "0x7a250d5630b4cf539739df2c5dacb4c659f2488d"
OtherContract == "0x1111111111111111111111111111111111111111"

MCProtocolAddresses == UniswapV2Router :> "uniswap_v2"
MCOperationSelectors == "0x38ed1739" :> "swap"

(* The entries of the selector and address sets the batch uses.           *)
MCSafeSelectors == {"0xa9059cbb", "0x095ea7b3"}
MCSuspiciousSelectors == {"0x5cffe9de", "0x022c0d9f"}
MCWhitelistedContracts == {UniswapV2Router}
MCFlashLoanSignatures == {"0x5cffe9de", "0xab9c4b5d"}

(* One string-hash order of the indicator names (a PYTHONHASHSEED).        *)
MCIndicatorHashOrder ==
    <<"new_contract", "high_gas_limit", "flash_loan_detected",
      "suspicious_selector", "selfdestruct_opcode", "contract_creation",
      "large_value_transfer", "nested_flash_loans", "large_flash_loan",
      "flash_loan_with_complex_activity", "high_state_variance",
      "multiple_large_changes", "extreme_value_movement",
      "matches_known_exploit", "high_bytecode_similarity",
      "uses_delegatecall", "uses_create2", "deep_call_stack",
      "high_call_count">>
FlashLoanTrace ==
    [fl |-> [has |-> TRUE, nested |-> TRUE, borrowed |-> 2000],
     sv |-> [changes |-> 30, contracts |-> 20, large |-> 6, maxDelta |-> 60, highVariance |-> TRUE],
     op |-> [delegatecall |-> 1, create2 |-> 0, depth |-> 12, calls |-> 60],
     gasUsed |-> 25, to |-> OtherContract, selector |-> "0x5cffe9de", code |-> NoCode]

SwapTrace ==
    [fl |-> [has |-> FALSE, nested |-> FALSE, borrowed |-> 0],
     sv |-> [changes |-> 5, contracts |-> 3, large |-> 1, maxDelta |-> 3, highVariance |-> FALSE],
     op |-> [delegatecall |-> 0, create2 |-> 0, depth |-> 2, calls |-> 5],
     gasUsed |-> 2, to |-> UniswapV2Router, selector |-> "0x38ed1739", code |-> NoCode]

(* tx: to, input kind, selector, value in ether, gas in thousands, code.   *)
MCRequests ==
    ("flash" :> [tx |-> [to |-> OtherContract, input |-> "call", selector |-> "0x5cffe9de",
                         value |-> 0, gas |-> 3000, code |-> NoCode],
                 replays |-> {FlashLoanTrace, NoTrace}])
 @@ ("transfer" :> [tx |-> [to |-> OtherContract, input |-> "empty", selector |-> NoSelector,
                            value |-> 1, gas |-> 21, code |-> NoCode],
                    replays |-> {NoTrace}])
 @@ ("swap" :> [tx |-> [to |-> UniswapV2Router, input |-> "call", selector |-> "0x38ed1739",
                        value |-> 0, gas |-> 200, code |-> NoCode],
                replays |-> {SwapTrace}])
 @@ ("deploy" :> [tx |-> [to |-> NoAddress, input |-> "creation", selector |-> "0x60806040",
                          value |-> 0, gas |-> 3000,
                          code |-> [present |-> TRUE, matchesExploit |-> FALSE, selfdestruct |-> TRUE]],
                  replays |-> {NoTrace}])

MCDecisionValues == {-600, 400}
=============================================================================
