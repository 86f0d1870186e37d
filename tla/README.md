# TLA+ models of sentinel-brain

This directory holds TLA+ models of the Python package
`src/packages/sentinel-brain/src/sentinel_brain`. Each model is a
translation of the package's source, and TLC checks it against the
properties that make the package correct. `PROJECT.json` records three
things for every definition that models code: the lines it translates,
each run with its properties, and the mutants that show each property can
fail.

## 1. The system

sentinel-brain scores Ethereum transactions for exploit risk. It emits
risk signals and never acts on them itself.

| Part | Source | State it keeps | Operations |
|---|---|---|---|
| Feature extractors (C2 flash loan, C3 state variance, C4 bytecode, C5 opcode) | `features/extractors/*.py` | none on the paths used (C4's `_bytecode_cache` is filled only by the chain-handle `extract`) | `extract`, `extract_from_bytecode`, call-tree walks, Transfer-log fallback, PUSH-aware opcode walk |
| Feature aggregator (C6) | `features/aggregator.py` | none | `extract_from_trace`, `extract_from_pending` |
| Heuristic filter (C7) | `models/heuristics.py` | selector and contract sets | `filter` (pending tx), `filter_with_features` |
| Anomaly detector (C8) | `models/isolation_forest.py` | `model`, `scaler`, `is_trained`, `threshold`; a joblib artifact on disk | `__init__`, `train`, `predict`, `update_threshold`, `save`, `load` |
| Training script | `scripts/train_model.py` | the artifact it writes | `main` (`train_and_evaluate`, then `save`) |
| Protocol filter (C9) | `models/protocol_filter.py` | address and selector tables | `identify_protocol`, `identify_operation`, `check_bounds`, `_calculate_risk_adjustment`, `filter` |
| Signal engine (C10) and sinks (C11) | `inference/signal.py` | `alert_callbacks`, `_stats` | `analyze`, `analyze_async`, `_emit_alerts`, `add_alert_callback`, `get_stats` |
| Inference engine | `inference/engine.py` | `_stats` | `analyze` (pending tx with a simulation timeout), `analyze_batch` (semaphore of 10), `reset_stats` |
| Fork replayer | `data/collectors/fork_replayer.py` | an `anvil` child process per replay | `AnvilInstance.start/stop/__aenter__/__aexit__`, `replay_transaction` |
| Mempool listener | `data/collectors/mempool_listener.py` | bounded `asyncio.Queue(10000)`, counters | `start`, `stop`, `_listen_loop`, `get_transaction` |
| gRPC server | `grpc/server.py` | `engine`, `_initialized`, `ServerStats` | `initialize`, `Analyze`, `AnalyzeBatch`, `Health`, `GetStats`, `_update_stats` |
| Persistence | `persistence/database.py` | SQLite alerts, analyses, metrics | `initialize`, `save_alert`, `get_alert`, `update_alert_status`, `save_analysis`, `get_analysis_by_tx`, `save_metrics`, `get_metrics_history` |

**How the parts interact.**
- `SignalEngine.analyze_async` runs this pipeline in order:
  1. C6 extracts the features (C2, C3, C4, C5);
  2. C7 runs `filter_with_features`;
  3. C8 runs `predict`;
  4. `_compute_risk` fuses these into a raw score and a cascade level;
  5. if enabled, C9 adjusts the score and the level is re-derived from the score table;
  6. the counters are updated;
  7. every callback is called when the level is at least `min_alert_level`.
- `InferenceEngine` handles pending transactions. It runs C7's
  `filter`, then an optional fork replay under `wait_for(200 ms)`, then
  C7 and C8 again, then `_make_decision`.
- The training script, or any caller of the detector, saves a trained
  detector to a joblib file. Each `InferenceEngine` and `SignalEngine`
  loads that file once, in its constructor, and predicts with it.
- The gRPC server would wrap an engine and share `ServerStats` between
  the threads of its executor, but its `initialize` always raises
  (section 4), so none of its handlers runs.

**What is hard in this code.** The hazards are listed one by one in
`PROJECT.json`. They fall into four groups:
- **Scoring rules.** The rules interact: several adjustments combine, and
  the cascade level gets overwritten by the score level.
- **Callback fan-out.** A callback can raise, and callbacks can be
  registered between analyses.
- **Concurrency.** The engine's counters are reset while analyses are in
  flight. The simulation timeout races the replay. The anvil process
  leaks when a replay is cancelled. A second `start` of the mempool
  listener interleaves two tasks' connects on one provider's fields.
- **Persistence.** Whole-row upserts race single-column updates, OR
  REPLACE deletes rows through a second unique key, and timestamps of
  two text formats are compared as text.
- **Extractors.** Recursive walks over call trees that merge per-type
  counts and record depths. The opcode test is a substring match on hex
  text, beside a PUSH-aware walk. Slots are keyed by their text.

## 2. Modules

| Module | Models | Composes |
|---|---|---|
| `RiskScoring` | Pure operators: `ExtractFromTrace` (with no chain handle), `FilterWithFeatures`, `Predict`, `ComputeRisk`, `ScoreToLevel`, `IdentifyProtocol`, `IdentifyOperation`, `CheckBounds`, `CalculateRiskAdjustment`, `FilterProtocol`; `MakeDecision` is `InferenceEngine._make_decision`, and `ScriptMakeDecision`/`ValidateTrace` are `make_decision`/`validate_trace` of `scripts/validate_real_traces.py` | none |
| `SignalEngine` | `SignalEngine`: `AnalyzeAsync` is the whole `analyze_async` handler, including the counter update and `_emit_alerts`. `AddAlertCallback` is `add_alert_callback`. | EXTENDS `RiskScoring` |
| `MCSignalEngine` | Model values: the table entries used, the trace classes, the decision values | EXTENDS `SignalEngine` |
| `AnalyzeCalls` | The abstract promise of a batch analysis: each call returns one result, eventually, and a result is never replaced | none |
| `InferenceEngine` | `InferenceEngine.analyze_batch`: one task per request. `Start(r)` is `analyze` from the semaphore up to its `wait_for` (or to the end: SAFE early return, simulation off). `SimulationReturns`/`SimulationTimesOut` are the rest of `analyze` after `wait_for` returns or raises `TimeoutError`. `ResetStats` is `reset_stats`. `FilterTx` is `HeuristicFilter.filter`, `ExtractFromPending` is `extract_from_pending`, `MakeDecision` is `_make_decision`. | EXTENDS `RiskScoring`; INSTANCEs `AnalyzeCalls` |
| `ForkReplayer` | `ForkReplayer.replay_transaction` run by concurrent tasks, each maybe under a caller's `wait_for`. `Begin`/`TxFetched` are the call up to `_get_transaction` and what follows it (ValueError, or `async with AnvilInstance` up to `_wait_for_ready`'s first await). `Connected`/`ReadyTimeout` end `_wait_for_ready`. `TraceReturns` is the body and `__aexit__`. `Cancel` is the caller's `CancelledError` at the current await. `AnvilBinds`/`AnvilExits` are the anvil processes (the environment). | none |
| `MCForkReplayer` | Three replays, two whose transaction the origin knows; hash values of both signs, with distinct or colliding ports | EXTENDS `ForkReplayer` |
| `AlertStore` | `SQLiteBackend` behind `Database`. `Initialize` is `initialize`. `CreateAlert` is `save_alert` of a new `Alert`, `GetAlert` is `get_alert` into a client's object, and `SaveAlert` is `save_alert` of that object after the client edited it. `UpdateAlertStatus` is `update_alert_status`. `SaveAnalysis` is `save_analysis`: OR REPLACE deletes every row that conflicts on the id or the UNIQUE `tx_hash`. `SaveMetrics` is `save_metrics`. `GetAnalysisByTx` and `MetricsHistory` are the reads. `MetricsHistory` compares `isoformat()` text with SQLite `datetime()` text character by character (`IsoFormat`, `SqliteDatetime`, `TextGeq`). `Tick` is the wall clock. | none |
| `MCAlertStore` | One alert and one client; three record ids and two transactions as symmetric model values; two metrics ids | EXTENDS `AlertStore` |
| `MempoolListener` | `MempoolListener` over one aiohttp provider (`AlchemyProvider`; `BloxrouteProvider` is the same code). `Start` is `start`. `StopCancel`, `StopCloseWs` and `StopCloseSession` are the three steps of `stop`: cancel and await the listen task, then `provider.close()`'s `_ws.close()` and `_session.close()`, each reading the field when it runs. `ConnectBegin`, `WsConnect` and `Subscribe` are `subscribe`'s `_connect` split at its awaits: the session stored before `ws_connect`, the websocket after it, the subscription answer. `Deliver` is one iteration of `_listen_loop` (counters and `put_nowait`). `Break`/`SocketEnds` end the loop. `GetTransaction` is `get_transaction`. | none |
| `Extractors` | `FeatureAggregator.extract_from_trace`, with the four extractors as operators. Opcode: `AnalyzeCallTree` (RECURSIVE), `EstimateFromLogs`, `OpcodeExtract`. Flash loan: `AnalyzeFlashTree` (RECURSIVE), the log detection, `FlashExtract`. State variance: `ExtractFromChanges`, `ExtractFromTraceLogs`, `StateVarianceExtract`. Bytecode: `HasOpcode`, `DetectProxy`, `OpcodeWalk` (RECURSIVE), `ExtractFromBytecode`. `Extract(t)` is one call. | none |
| `TraceBuild` | The fork replayer's conversions between the tracer's JSON and `ExecutionTrace`: `ParseCallTrace` (RECURSIVE) is `_parse_call_trace`, `CountType` and `ExtractOpcodes` are `_extract_opcodes`, `BuildTrace` is `_build_trace`, and `SaveTrace`/`LoadTrace` are `to_dict` and `load_trace`. `LoadTraceFromJson` is the validation scripts' own `load_trace_from_json`. Absent JSON keys are the model value `Absent` and take the code's defaults. | EXTENDS `Extractors` |
| `MCExtractors` | Every call tree of at most three calls from four call kinds under four receipts, each tree also built by `_build_trace` from its JSON and read back through `to_dict`/`load_trace`; contract-creation codes; storage-change lists | EXTENDS `TraceBuild` |
| `Detector` | `IsolationForestDetector` and its artifact. `Construct` is `__init__`, `Train(m, outcome)` is `train`, where the scaler's or the forest's fit may raise after the attribute was replaced. `UpdateThreshold` is `update_threshold`, `Save` is `save` and `Load` is `load`. `TrainModelMain` is `train_model.py`'s `main` as a process of its own. `EngineStart` is an engine's constructor loading the file. `PredictOutcome` is `predict`: its RuntimeError guard, sklearn's NotFittedError, or the score, `is_anomaly` and confidence. `BenchmarkMain` is `scripts/benchmark_with_protocol_filter.py`'s `main` run on a loaded artifact: ML-only flags, then `ProtocolFilter.filter` with the Uniswap router context for benign transactions of a known protocol (`BenchFilter`) and a fixed 0.49 cut (`FlagCut`). | INSTANCE `RiskScoring` as `Filter` |
| `MCDetector` | Two training matrices and two inputs, given by their decision values, and five benchmark samples | EXTENDS `Detector` |
| `MCInferenceEngine` | A batch of four transactions (a flashLoan call, a plain transfer, a Uniswap swap, a contract creation) with the values their replay may return | EXTENDS `InferenceEngine` |

**Numbers are exact fixed point.**
- Confidences and the detector score are in thousandths.
- The raw score is in ten-thousandths, the unit of `0.4*h + 0.6*ml`.
- The adjusted score is in millionths.
- The adjustment is in hundredths.
- Amounts are in units of 10^21 wei, so `10**22` is 10 units and `10**24`
  is 1000.
- Gas is in units of 100 000.

**Inputs.** A trace enters the model as a record:
- `fl`, the flash-loan summary;
- `sv`, the state-variance summary;
- `op`, the call-tree summary;
- `gasUsed`;
- `to`: a known router, a known pool, another contract, or none for a
  creation;
- `selector`: one from each table, a flashLoan selector that is in no
  table, or a short input;
- `code`: the creation code, with its exploit match and selfdestruct
  flags.

`MCSignalEngine.FullTraces` takes every combination of these classes.
Each class sits on both sides of every threshold that
`filter_with_features` and `check_bounds` compare against, for example
3 vs 4 large changes and 3 vs 20 units of value. The result is 1656
traces, combined with 6 detector decision values (scores 1.0, 0.8, 0.65,
0.5, 0.3, 0).

**`analyze_async` is one atomic step.** Its only `await` is
`extract_from_trace`. With no chain handle, that call runs to the end
without suspending. So on the event loop two analyses never interleave.

**`analyze` suspends once.** In `InferenceEngine.analyze`, the only
`await` that can suspend is `wait_for(_simulate_transaction(tx))`. The
model therefore has two steps per request: everything before the
suspension, and everything after it. `_simulate_transaction` enters as the
set of values it may return for a request (`Requests[r].replays`): a
trace, or `None` when there is no `w3` or `replay_transaction` raised.
The `list(set(...))` of the indicator list is modelled by the order in
which string hashes put the names (`IndicatorHashOrder`, one process's
hash seed).

**The mempool listener runs on one event loop.** A task yields only at an
`await`, so one message's counter updates and `put_nowait` form one step.
`stop` is three steps: the cancel and the await of the listen task,
`close`'s `_ws.close()`, and its `_session.close()`, which reads
`_session` only after the websocket's close has yielded. A task's first
step stores its new `ClientSession` before awaiting `ws_connect`, and
the event loop runs new tasks in creation order, so every task created
before the cancelled one has taken that step before `close` runs
(`StopCloseWs`'s guard). Every listen task opens its own session and
websocket, but the provider keeps only the last ones in its fields, and
`close` closes only what the fields hold when it reads them. Closing a
session also closes its websocket.

**The extractors.** Each call of `extract_from_trace` is one step from the
initial state. The extractors keep nothing between calls, so the state
after one call is final, and that cfg says `CHECK_DEADLOCK FALSE`. A
trace is a record:
- `call`: the parsed call tree, or `NoCall`;
- `logs`: each log's address, topic0, parsed amount and whether its data
  holds a 32-byte word;
- `code`: a creation's `input_data`, as bytes plus whether the text has
  "0x";
- `storage`: the storage-change list, where an address or slot carries
  its spelling.

Values are scaled: `LargeChange` = 2 stands for `10**18`. The
coefficient of variation is kept squared, as an exact ratio.

## 3. Runs

| Run | cfg | Checks | Shows |
|---|---|---|---|
| `signal_scoring` (pass) | `MCSignalEngine_scoring.cfg` | `TypeOK`, `FlashLoanNeverDiscounted`, `AlertsReachEveryCallback`, `ValidationMatchesEngine` | The first analysis ranges over all 9936 trace/detector inputs with the filter on. Two more follow from three trace classes, interleaved with 3 callback registrations, one of them raising (`MCSpec`). No mix of discounts lowers the score of a flash loan outside a flash-loan operation. The adjustment stays in [-0.5, 0.5] and the score in [0, 1]. Each alerting signal reaches every callback registered at the time, once each and in registration order, and signals below the minimum reach none. On every signal returned (the first ranges over all 9936 inputs), the validation script's copy of `_make_decision` agrees with the engine's (no timeout) on `is_suspicious` and the risk level, and says BLOCK/FLAG exactly when the engine says block/flag; the two differ only where the engine says monitor and the copy ALLOW. 69925 states, about 30 s. |
| `inference_batch` (pass) | `MCInferenceEngine_batch.cfg` | `TypeOK`, `AnalyzeReturnsOnce` | Four requests, semaphore of two, replays answering or timing out in any order, one `reset_stats`. At most two tasks hold the semaphore. `analyze_batch` refines `AnalyzeCalls` under the mapping `answer <- results`: each request eventually gets exactly one result and it is never replaced. |
| `stats_reset_in_flight` (violation) | `MCInferenceEngine_reset.cfg` | `StatsConsistent` | A `reset_stats` while a task is suspended in `wait_for`: the task then counts `ml_analyzed` and `suspicious_detected` into the new dict, whose `total_analyzed` is 0. Spec §3 says the counters never decrease. |
| `replay_lifecycle` (pass) | `MCForkReplayer_lifecycle.cfg` | `TypeOK`, `AnvilStoppedAfterBody`, `ReplayTerminates` | Three concurrent replays with distinct ports. Anvils may bind or die, receipts may fail, and the caller may cancel at any await. Every port lies in 8545..9544 for hashes of either sign. Once `__aenter__` has returned, the call's anvil is stopped however the call ends. Every call ends. |
| `anvil_leak` (violation) | `MCForkReplayer_leak.cfg` | `NoLeakedAnvil` | An anvil outlives its call when the call leaves inside `__aenter__`: through `_wait_for_ready`'s deadline, or through the caller's `wait_for` (the engine's 200 ms is far shorter than an anvil fork start-up). `__aexit__` does not run then. |
| `port_collision` (violation) | `MCForkReplayer_ports.cfg` | `TraceFromOwnFork` | Hashes 1017 and -983 both give port 8562. The second anvil cannot bind, and the second call's readiness poll finds the first call's anvil. The second call then traces on the wrong fork. |
| `mempool_listen` (pass) | `MCMempoolListener_listen.cfg` | `TypeOK`, `StatsConserved` | Up to two starts, stops at any point, failing connects, socket drops and a consumer, over a queue of 2 and 4 transactions. The queue never exceeds `buffer_size`. Received = processed + dropped, and processed = queued + consumed, at every step, with two tasks feeding one queue. |
| `websocket_leak` (violation) | `MCMempoolListener_leak.cfg` | `NoLeakedConnection` | `start` twice, then `stop`. The first task has opened its websocket and awaits the subscription answer. The second task's first step replaces `_session` with its own session, and then `stop` cancels it inside `ws_connect`. `close` closes `_ws` (the first task's websocket) and `_session` (the second task's session). The first task's `receive_json` fails, `_listen_loop` logs it, and the first task's `ClientSession` is never closed. |
| `extractor_trees` (pass) | `MCExtractors_trees.cfg` | `TypeOK`, `OpcodeCountsMatchTree`, `FlashFeaturesMatchTree`, `BytecodeFeaturesMatchCode`, `StateFeaturesMatchChanges`, `CallCountsSurviveReload` | 1409 traces and codes. The opcode and flash-loan walks agree with the tree's node set on counts, depth, per-type counts, the forwarded-gas ratio, nesting, repayment and providers. The opcode counts `_extract_opcodes` takes from the JSON agree with those of the parsed tree, so a trace reloaded with `call_trace` None keeps its call counts. `unique_opcodes` equals the distinct opcodes of a reference instruction decoding, and no SELFDESTRUCT/DELEGATECALL/CREATE2 instruction is missed. The state-variance features agree with spec §4.2, within the slot overcount described below. The log fallback's Transfer count agrees with the flash-loan repayment test. |
| `alert_store` (pass) | `MCAlertStore_store.cfg` | `TypeOK`, `AnalysisByTxIsLatest`, `MetricsHistoryComplete`, `LatestMetricsInHistory` | The persistence calls in every order, including a client that saves back an `Alert` it read around a reviewer's `update_alert_status`. The clock moves half a day at a time. Saves of two transactions in any order always leave `get_analysis_by_tx` returning the last record saved for each one, and only it, and `get_analysis` finds a record exactly while some transaction still points to it. `get_metrics_history(1)` returns every snapshot of the last day, and whenever it returns any, `get_latest_metrics` (ORDER BY the isoformat text) returns one of them. 251645 states, about 30 s. |
| `detector_artifact` (pass) | `MCDetector.cfg` | `TypeOK`, `LoadedDetectorPredictsAsSaved`, `BenchmarkRecallPreserved` | A detector is constructed, trained (each fit may raise), re-thresholded and saved in any order, with up to three trains. `train_model.py` may write the file as well. Two engines load whatever file is there. Each engine's `predict` answers every input exactly as the detector that wrote the file did when it wrote it: same score, same `is_anomaly`, same confidence, or the same error. The protocol-filter benchmark run on any saved artifact whose threshold is at least its 0.49 cut flags every attack the detector alone flags: attacks are filtered without context, so no discount lowers them. 1598475 states, about 75 s. |
| `unfitted_artifact` (violation) | `MCDetector_unfitted.cfg` | `EngineDetectorCanPredict` | A good `train`, then a retrain whose scaler or forest `fit` raises (TLC's trace: the scaler), then `save`, then an engine start. `is_trained` is still True from the first train, so `save` writes an unfitted forest, and every `predict` of the engine raises NotFittedError. |

Every property of a passing run has a mutant in `PROJECT.json`: a
plausible bug in the mapped code that TLC catches under the run's own
cfg.
- `FilterProtocolUnclamped` drops the clip to [0, 1].
- `CalculateRiskAdjustmentNoFlashGuard` drops the safe-operation
  discount's no-flash-loan guard.
- `EmitAlertsStopOnRaise` moves the try/except outside the loop.
- `SemaphoreFreeOffByOne` admits `max_concurrent + 1` tasks.
- `ReplayPortUnreduced` drops the `% 1000`.
- `TraceReturnsNoStopOnError` runs `__aexit__` only on a normal return.
- `ReadyTimeoutNever` removes `_wait_for_ready`'s deadline.
- `SimulationReturnsLate` applies a replay that answers after the
  timeout already produced the result.
- `HasRoomOffByOne` puts while the queue holds `buffer_size` items.
- `CountMessageFirst` counts `processed` before `put_nowait`.
- `GasRatioUnguarded` drops the `total_gas > 0` guard.
- `AddCountsOverwrite` replaces a parent's per-type count by the child's.
- `AnalyzeFlashTreeFlat` passes the parent's depth to its children.
- `OpcodeWalkNoSkip` reads PUSH immediates as opcodes.
- `SlotKeyNoAddress` keys a written slot without its address.
- `GetAlertNoRowCheck` drops `get_alert`'s `if row` check.
- `SaveAnalysisNoTxConflict` removes `tx_hash`'s UNIQUE, so OR REPLACE
  only replaces a row with the same id.
- `MetricsHistoryFutureCutoff` passes `+{days} days` to `datetime()`.
- `ExtractOpcodesBlankDefault` counts a call with no `type` under ""
  instead of `_parse_call_trace`'s "CALL".
- `CalculateConfidenceUnclipped` drops the `min(..., 1.0)`.
- `GetLatestMetricsOldest` orders `get_latest_metrics` ascending.
- `ScriptMakeDecisionGeq` uses `anomaly_score >= 0.5` in the copy's
  suspicious branch.
- `LoadDefaultThreshold` builds the loaded detector with the default
  threshold instead of the saved one.
- `BenchFilterAlwaysContext` filters every benchmark transaction, attacks
  included, with the Uniswap router context.

**Bounds.**
- `signal_scoring` draws the first analysis from the whole input domain
  and the later two from three trace classes and two decision values
  (`MCNext`). The score properties are about each signal alone, so the
  complete domain of the first analysis covers them. The fan-out
  properties need several signals: the three classes give an alerting
  signal (HIGH/CRITICAL), one below the minimum and one with adjustment
  0. With 3 analyses and 3 callback slots, a raising callback can sit
  before another one, and registrations can fall between signals.
- `alert_store` has three record ids for two transactions, so one
  transaction is analysed twice, with a save for the other one before,
  between or after. The clock starts at day 1, 00:00 and moves in steps
  of 12 hours to day 3, 00:00, so a snapshot saved at any step lies
  inside, at the start of, or outside a one-day window. Two metrics ids let
  the latest snapshot and an older one coexist. One alert and one
  client suffice for a read, an update and a save in every order.
- The inference batch has four requests, one of each kind the pending
  filter tells apart (SAFE early return, UNKNOWN, SUSPICIOUS by creation
  and value, a known router), and a semaphore of two, so a task waits for
  the semaphore while two others are suspended in `wait_for`. One
  `reset_stats` suffices to put a reset between the two halves of a task.
- The replayer has three calls: two whose transaction the origin knows,
  so two anvils coexist, and one that fails with ValueError. Their hash
  values have both signs.
- The mempool listener has two starts, so one task can outlive its
  `_listen_task` slot. The queue of 2 with 4 transactions fills up and
  drops. `ConnectFails` adds a refused `ws_connect`, which leaves a
  session, and an error answer to the subscription, which leaves a
  session and a websocket.
- The extractor trees of up to three calls contain every parent/child
  pair of the four call kinds, chains of depth 2, and siblings. A
  flash-loan call can therefore sit at two depths, and a type can occur
  on two levels. The codes cover:
  - every sequence of up to three bytes over PUSH1, PUSH2, 0xff, 0xf4,
    0x0f and 0xf0, so a PUSH can run past the end and "ff" can span two
    bytes;
  - a PUSH32 of each proxy slot;
  - the EIP-1167 prefix alone and the full clone runtime.

  The storage lists spell one account two ways and slot 0 two ways.
  Among the call kinds, one has no `type` and no `value` in its JSON
  and another has no `gas` and no `gasUsed`, so every default of
  `_parse_call_trace` is exercised.
- `detector_artifact` has two matrices and two inputs whose scores (0.6,
  0.3, 0.8, 0.5) fall on both sides of the thresholds 0.3 (below the
  benchmark's 0.49 cut), 0.5 (the training script's), 0.65 (the default,
  in `Init`) and 1.0 (the largest `update_threshold` accepts). The five
  benchmark samples are a flash-loan attack, a reentrancy, a `dex_swap`,
  a `lending_borrow` (given the swap context) and a transfer (none).
  Up to three trains allow a good train, a failed retrain and another
  good one. Two engines can load two different files.

**Observations without a run.** There is no run budget left for these
violation runs. Most are listed as hazards in `PROJECT.json`.
- Spec §8 scenario 6: `_compute_risk` puts a known-exploit match at
  CRITICAL, but `analyze_async` then re-derives the level from the
  adjusted score. A match with no other indicator and anomaly score 1.0
  scores 0.4*0.1 + 0.6*1.0 = 0.64 and is returned HIGH. An earlier
  violation run showed it and was retired for the detector runs, because
  a single `analyze` call reaches it.
- Spec §8 scenario 3: `InferenceEngine.analyze` decides on
  `filter_with_features`' verdict only. A flashLoan call with 3M gas to an
  unknown contract whose replay yields `None`, with anomaly score 0.3, is
  LOW. The pending filter's SUSPICIOUS verdict is dropped. This was also a
  retired violation run.
- `InferenceEngine` stores `anomaly_threshold` and never reads it. The
  verdict uses the threshold saved in the artifact (0.5 when
  `train_model.py` wrote it), while spec §6 says the threshold may be
  overridden per engine. `LoadedDetectorPredictsAsSaved` shows the saved
  threshold decides.
- `load_trace` passes the saved storage changes, keyed `previous`/`new`,
  to `StorageChange`, whose fields are `previous_value`/`new_value`, so it
  raises TypeError for any trace with storage changes. Nothing calls it,
  and `_build_trace` always saves an empty list.
- A trace read back from JSON has no call tree, so its call depth,
  internal calls and gas ratio score 0 (`CallCountsSurviveReload` covers
  the counts that do survive).
- `opcode_frequency` counts a live trace's calls twice: `trace.opcodes`
  already holds the tree's counts, and the walk adds them again. Nothing
  reads it.
- `make_decision` in `scripts/validate_real_traces.py` says it replicates
  the engine's decision logic. It lacks the simulation-timeout branch and
  the two-indicator MONITOR branch, which return ALLOW instead. For a
  trace scored without a timeout this changes no figure the script
  reports (`ValidationMatchesEngine`).
- `_has_opcode` is a substring test on hex text. The codes 0x0f 0xf0
  report a SELFDESTRUCT that is not an instruction, against spec §4.3
  "presence of single-byte opcodes".
- `unique_slots_modified` keys slots by `f"{address}:{slot}"`. Two
  spellings of one (address, slot) pair count twice, against §4.2.
- `bytecode_length` is `len(text) // 2`, so a "0x" prefix adds a byte.
- `revert_count` is always 0, because `_parse_call_trace` drops the
  tracer's `error`, while spec §4 says the walk counts reverts.
- `benchmark_with_protocol_filter.py` filters every benign transaction
  of a known protocol as a Uniswap V2 swap (the router and
  `swapExactTokensForTokens`), whatever its type: a `lending_borrow` gets
  the swap bounds and discount while its row records `aave_v2`/`borrow`.
  Its `is_flagged` uses a fixed 0.49 while `ml_flagged` uses the
  artifact's threshold, so for an artifact re-thresholded below 0.49 the
  filtered run misses attacks and the script prints "Recall Preserved:
  NO". `BenchmarkRecallPreserved` holds under its threshold premise.
- `_build_trace` renders topics with `HexBytes.hex()`. In hexbytes 1.x
  that text has no "0x", so it never matches the Transfer or flash-loan
  topic keys.
- `get_metrics_history` compares `isoformat()` text with SQLite
  `datetime()` text. On the window's first day 'T' sorts after ' ', so
  a snapshot saved at 00:00 of day 1 is returned by a one-day window at
  12:00 of day 2. TLC finds this at once when the converse of
  `MetricsHistoryComplete` is checked.
- `save_alert` writes the whole object. A client that read an alert
  before a reviewer's `update_alert_status`, and saves it after, restores
  the old status and review fields. `AlertStore` reaches this
  interleaving, but nothing in the repository says which outcome a
  caller wants.
- `save_analysis` of a second record for one transaction deletes the
  first record, which is keyed by its own UUID. `get_analysis` of the
  first id then returns `None`.

**A further observation.** `SignalEngine` never passes a chain
handle, so every trace's bytecode record is `_empty_features`, whose age
0 fires `new_contract` (`age < 100`). Every signal therefore carries
`new_contract`, against spec §7 (an empty bytecode record emits no
indicator). Any property of the form "no indicator means X" is vacuous
for that reason, and none is stated.

**Fairness.** `SignalEngine` has none: its properties are safety properties. The engine
waits for callers and may idle forever, which is why the cfgs say
`CHECK_DEADLOCK FALSE`: once the analysis bound is reached, the engine
simply receives no more transactions.

`Detector` has none: nothing forces a caller to train, save or start
an engine. Deadlock is checked: constructing a detector is always
possible.

`AlertStore` has none either: every call is made by a client that may
never make it. Deadlock is checked: some read or update is always
enabled.

`ForkReplayer` assumes weak fairness of every task step and of
`AnvilBinds`: the event loop resumes each task whose await completed, and
the operating system eventually lets a started process bind or exit.
`Cancel` and `AnvilExits` get no fairness, since neither is ever forced.
The replay cfgs say `CHECK_DEADLOCK FALSE` because the calls end.

`InferenceEngine` assumes weak fairness of `Start(r)` and `Resolve(r)`
for each request. The event loop runs every ready task, and `wait_for`'s
timer ends every wait, so a task that can take its next step eventually
does. `AnalyzeReturnsOnce` (the `AnalyzeCalls` liveness) depends on it.
The batch cfgs say `CHECK_DEADLOCK FALSE` because `analyze_batch` ends
once every request has its result.

`MempoolListener` has no fairness. Its properties are safety properties,
and nothing in the code forces a message to arrive or a consumer to call.
Its cfgs say `CHECK_DEADLOCK FALSE`: once `MaxStarts` and `MaxTx` are
used up and the queue is drained, the listener waits for input.

## 4. Not modelled, and why

- **The synchronous `SignalEngine.analyze`.** It constructs `RiskSignal`
  without the four required fields `protocol`, `operation`,
  `raw_risk_score` and `risk_adjustment`, so it always raises
  `TypeError`. That happens after extraction and before any state
  change.
- **Explanation text, recommendations, latency and `get_stats`'s
  averages.** They are formatting and wall-clock values that no property
  tells apart.
- **The forest and the scaler themselves** (numpy/sklearn). A fitted
  model is known by the matrix it was fitted on and stands for its
  decision values. `evaluate`, `predict_single`, `predict_batch`,
  `predict_proba` and the feature importances and contributions change
  no state, and no property reads them.
- **The scripts other than `train_model.py`'s `main`, the decision
  and loader of `validate_real_traces.py` and the protocol-filter
  benchmark** (data generation, the data split, `benchmark_model.py`,
  `validate_signals.py`'s driver). They are offline
  batch programs that write no state an engine reads.
- **The list reads `get_alerts` and `get_recent_analyses`**, whose
  ORDER BY/LIMIT pages nothing in the repository reads, the
  row/JSON conversions, and the PostgreSQL branch, which only raises
  `NotImplementedError`. Timestamps stored by `save_alert` and
  `save_analysis` are not compared by any modelled read. `reviewed_at`
  is kept as set or unset.
- **The WebSocket/HTTP provider transports and protobuf conversion.**
  These are pure I/O and formatting.
- **The gRPC server.** `initialize` passes `rpc_url` and
  `enable_simulation` to `SignalEngine.__init__`, which takes neither, so
  every `Analyze` raises `TypeError` before touching `ServerStats`.
  `SignalEngine` also has no `initialize`, `analyze_trace` or
  `analyze_pending`, and the generated `sentinel_pb2` modules it imports
  are not in the repository, so the module cannot even be imported. No
  faithful model of its handlers' interleavings exists: none of them
  runs past `initialize`.
- **`BytecodeExtractor.extract` with a chain handle.** This covers the
  `_bytecode_cache`, the creation-block binary search and `age_blocks`.
  No caller of `extract_from_trace` passes `w3`.
- **Bytecode hashing and Jaccard similarity.** A SHA-256 prefix is out of
  TLC's reach. `exploit_bytecodes` stays empty: `FeatureAggregator` builds
  `BytecodeExtractor()` without it, and no code in the repository calls
  `add_exploit_bytecode`.
- **`ProtocolFilter.add_protocol` and `add_operation`.** No code calls
  them. `add_operation` would write into the module-wide
  `OPERATION_SELECTORS`, since `operation_selectors or
  OPERATION_SELECTORS` is not copied (the address map is), so one
  filter's addition would reach every filter.
- **`analyze_call_pattern`, `get_risk_indicators`, `extract_from_logs`,
  `calculate_slippage`, `detect_large_reserve_change`.** No path calls
  them.

## 5. Plan for the next sittings

Done: `InferenceEngine`/`AnalyzeCalls`, `ForkReplayer`,
`MempoolListener`, `Extractors` (opcode, flash-loan, state-variance
and bytecode extractors), `AlertStore`, `TraceBuild` and `Detector`.

Also done: the `AlertStore` reads `get_analysis` and
`get_latest_metrics`, the validation script's loader and decision, and
the protocol-filter benchmark composed with the saved artifact.

Next:
1. **Persistence findings as violation runs**, if runs can be retired or
   merged. One is the lost review of a stale `save_alert`. The other is
   `get_metrics_history` returning the whole first day of its window.
2. **Violation runs for the observations of section 3,** if runs can be
   retired or merged. The best candidates are the `_has_opcode` false
   positive and the slot overcount.
3. **The level re-derivation** (`signal.py:297`, spec §8 scenario 6)
   as a violation run. The level is re-derived from the adjusted score,
   so a property that the returned level is the score table's row only
   restates that assignment; what can be checked is the dropped cascade
   level.
4. **Composition of `Detector` with `InferenceEngine`.** The engine's
   `DecisionValues` would come from the loaded artifact instead of a
   constant.

Mempool liveness is not planned: `get_transaction` has no caller in the
repository, so no consumer fairness is justified.
