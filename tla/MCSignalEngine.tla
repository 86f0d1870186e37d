-------------------------- MODULE MCSignalEngine --------------------------
(***************************************************************************)
(* Model values for SignalEngine.  Each summary below stands for a class   *)
(* of traces that the extractors can produce, chosen on both sides of      *)
(* every threshold that filter_with_features, check_bounds and the level   *)
(* tables compare against.                                                 *)
(***************************************************************************)
EXTENDS SignalEngine

UniswapV2Router == "0x7a250d5630b4cf539739df2c5dacb4c659f2488d"
AaveV2Pool == "0x7d2768de32b0b80b7a3454c06bdac94a69ddc7a9"
OtherContract == "0x1111111111111111111111111111111111111111"

(* The part of PROTOCOL_ADDRESSES and OPERATION_SELECTORS the traces use.  *)
MCProtocolAddresses ==
    (UniswapV2Router :> "uniswap_v2") @@ (AaveV2Pool :> "aave_v2")

MCOperationSelectors ==
    ("0x38ed1739" :> "swap") @@ ("0xe8eda9df" :> "deposit")
 @@ ("0x00a718a9" :> "liquidate") @@ ("0x573ade81" :> "repay")

(* 0x5cffe9de (flashLoan) is in no table; 0x60806040 opens init code.      *)
CallSelectors == {"0x38ed1739", "0xe8eda9df", "0x00a718a9", "0x573ade81",
                  "0x5cffe9de", NoSelector}

FlashLoanShapes ==
    { [has |-> FALSE, nested |-> FALSE, borrowed |-> 0],
      [has |-> TRUE, nested |-> FALSE, borrowed |-> 500],
      [has |-> TRUE, nested |-> TRUE, borrowed |-> 2000] }

(* [changes, contracts, large, maxDelta, highVariance]                     *)
StateShapes ==
    { [changes |-> 0, contracts |-> 0, large |-> 0, maxDelta |-> 0, highVariance |-> FALSE],
      [changes |-> 5, contracts |-> 3, large |-> 1, maxDelta |-> 3, highVariance |-> FALSE],
      [changes |-> 12, contracts |-> 12, large |-> 4, maxDelta |-> 20, highVariance |-> TRUE],
      [changes |-> 30, contracts |-> 20, large |-> 6, maxDelta |-> 60, highVariance |-> TRUE] }

OpcodeShapes ==
    { [delegatecall |-> 0, create2 |-> 0, depth |-> 2, calls |-> 5],
      [delegatecall |-> 1, create2 |-> 1, depth |-> 12, calls |-> 60] }

GasValues == {2, 9, 25}

CreationCodes ==
    {NoCode} \cup [present : {TRUE}, matchesExploit : BOOLEAN, selfdestruct : BOOLEAN]

Targets ==
    [to : {UniswapV2Router, AaveV2Pool, OtherContract}, selector : CallSelectors,
     code : {NoCode}]
    \cup [to : {NoAddress}, selector : {"0x60806040"}, code : CreationCodes]

FullTraces ==
    { [fl |-> fl, sv |-> sv, op |-> op, gasUsed |-> g, to |-> x.to,
       selector |-> x.selector, code |-> x.code] :
        fl \in FlashLoanShapes, sv \in StateShapes, op \in OpcodeShapes,
        g \in GasValues, x \in Targets }

(* A handful of traces that reach every risk level.                        *)
FewTraces ==
    { [fl |-> CHOOSE s \in FlashLoanShapes : ~s.has,
       sv |-> [changes |-> 5, contracts |-> 3, large |-> 1, maxDelta |-> 3, highVariance |-> FALSE],
       op |-> [delegatecall |-> 0, create2 |-> 0, depth |-> 2, calls |-> 5],
       gasUsed |-> 2, to |-> UniswapV2Router, selector |-> "0x38ed1739", code |-> NoCode],
      [fl |-> [has |-> TRUE, nested |-> TRUE, borrowed |-> 2000],
       sv |-> [changes |-> 30, contracts |-> 20, large |-> 6, maxDelta |-> 60, highVariance |-> TRUE],
       op |-> [delegatecall |-> 1, create2 |-> 1, depth |-> 12, calls |-> 60],
       gasUsed |-> 25, to |-> OtherContract, selector |-> "0x5cffe9de", code |-> NoCode],
      [fl |-> [has |-> FALSE, nested |-> FALSE, borrowed |-> 0],
       sv |-> [changes |-> 12, contracts |-> 12, large |-> 4, maxDelta |-> 20, highVariance |-> TRUE],
       op |-> [delegatecall |-> 0, create2 |-> 0, depth |-> 2, calls |-> 5],
       gasUsed |-> 9, to |-> OtherContract, selector |-> NoSelector, code |-> NoCode] }

MCDecisionValues == {-1000, -600, -300, 0, 400, 1000}
FewDecisionValues == {-600, 400}

MCInitialCallbacks == <<"console">>

(* An analyze_async call made before any other call draws from every trace *)
(* class and detector value; every other call from the few classes above, *)
(* interleaved with callback registrations.  The score properties then    *)
(* cover the whole input domain and the fan-out properties several        *)
(* signals in a row.                                                       *)
FirstCall == stats.total_analyzed = 0 /\ alert_callbacks = InitialCallbacks

AnalysisTraces == IF FirstCall THEN FullTraces ELSE FewTraces

AnalysisDecisions == IF FirstCall THEN MCDecisionValues ELSE FewDecisionValues

MCNext ==
    \/ \E t \in AnalysisTraces, d \in AnalysisDecisions : AnalyzeAsync(t, d)
    \/ \E c \in Callbacks : AddAlertCallback(c)

MCSpec == Init /\ [][MCNext]_vars

=============================================================================
