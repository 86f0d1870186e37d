------------------------------ MODULE Extractors ------------------------------
(***************************************************************************)
(* The call-tree walks of the opcode and flash-loan extractors             *)
(* (features/extractors/opcode.py, flash_loan.py) over a TransactionTrace  *)
(* built by ForkReplayer._build_trace.  A call is a record                 *)
(*   [type, value, gas, gasUsed, sel, amount, to, children]                *)
(* where sel is input_data[:10] ("short" when input_data is shorter than   *)
(* 10 characters), amount what _extract_amount_from_input parses from      *)
(* input_data[10:74] (0 when the input is shorter or not hex), and         *)
(* children the parsed "calls" in trace order.  A trace is a record        *)
(*   [call, logs, gasUsedHigh, code, storage, sel, opcodes]                *)
(* where call is NoCall when debug_traceTransaction gave {}, logs the      *)
(* receipt's logs as [address, topic, amount, word] (word: the data holds *)
(* a hex 32-byte word; amount what _extract_amount_from_log_data parses,  *)
(* 0 without a word), gasUsedHigh is gas_used > 500000, code the          *)
(* input_data of a contract creation (NoCode when to_address is set), and *)
(* storage the storage_changes (empty from _build_trace, as saved in the  *)
(* JSON load_trace reads), sel the selector of the transaction's          *)
(* input_data, and opcodes the per-call-type counts _build_trace took from *)
(* the tracer's JSON.  Ratios are [num |-> n, den |-> d].                 *)
(* Each extract call is one step: the extractors hold no state.            *)
(***************************************************************************)
EXTENDS Integers, SequencesExt

CONSTANTS
    FlashLoanSigs,     \* FLASH_LOAN_SIGNATURES
    CallbackSigs,      \* CALLBACK_SIGNATURES
    TransferSigs,      \* {transfer, transferFrom} of _detect_repayment
    ProviderOf,        \* address -> FLASH_LOAN_PROVIDERS tag
    FlashEventTopics,  \* FLASH_LOAN_EVENT_TOPICS: topic -> provider tag
    TransferTopic,     \* the ERC-20 Transfer topic
    Traces,            \* the traces extract is called on
    NoCall,            \* model value: call_trace is None
    NoTrace,           \* model value: before the first call
    NoCode,            \* model value: trace.to_address is set
    Malformed,         \* model value: a storage text int(_, 16) rejects
    LargeChange,       \* large_change_threshold, scaled
    ProxySlots,        \* PROXY_PATTERNS in dict order: [type, digits of slot[2:]]
    CloneDigits        \* the digits of "363d3d373d3d3d363d"

ExternalTypes == {"CALL", "STATICCALL", "DELEGATECALL", "CALLCODE"}
CountOf(counts, t) == IF t \in DOMAIN counts THEN counts[t] ELSE 0
MaxOf(a, b) == IF a >= b THEN a ELSE b
SumSeq(s) == FoldLeft(+, 0, s)

(***************************************************************************)
(* OpcodeExtractor                                                         *)
(***************************************************************************)

(* Mutant: a child's count replaces the parent's count of the same type.  *)
AddCountsOverwrite(a, b) == b @@ a

(* stats["call_types"][ct] = stats["call_types"].get(ct, 0) + count       *)
AddCounts(a, b) ==
    [t \in DOMAIN a \cup DOMAIN b |-> CountOf(a, t) + CountOf(b, t)]

(* The loop body of _analyze_call_tree that adds a child's stats.          *)
MergeChild(s, c) ==
    [s EXCEPT !.total_calls = @ + c.total_calls,
              !.max_depth = MaxOf(@, c.max_depth),
              !.internal_calls = @ + c.internal_calls,
              !.external_calls = @ + c.external_calls,
              !.value_transfers = @ + c.value_transfers,
              !.total_gas = @ + c.total_gas,
              !.used_gas = @ + c.used_gas,
              !.reverts = @ + c.reverts,
              !.call_types = AddCounts(@, c.call_types)]

RECURSIVE AnalyzeCallTree(_, _)
(* _analyze_call_tree: this call's own stats, then each child's, depth    *)
(* first; "reverts" starts at 0 and nothing increments it.                *)
AnalyzeCallTree(call, depth) ==
    LET own == [total_calls |-> 1, max_depth |-> depth,
                call_types |-> (call.type :> 1),
                internal_calls |-> IF call.type \in ExternalTypes THEN 0 ELSE 1,
                external_calls |-> IF call.type \in ExternalTypes THEN 1 ELSE 0,
                value_transfers |-> IF call.value > 0 THEN 1 ELSE 0,
                total_gas |-> call.gas, used_gas |-> call.gasUsed, reverts |-> 0]
    IN FoldLeft(LAMBDA s, child : MergeChild(s, AnalyzeCallTree(child, depth + 1)),
                own, call.children)

(* Mutant: the ratio is taken without the total_gas > 0 guard.            *)
GasRatioUnguarded(s) == [num |-> s.used_gas, den |-> s.total_gas]

(* gas_ratio = used_gas / total_gas if total_gas > 0 else 0.0             *)
GasRatio(s) == IF s.total_gas > 0 THEN [num |-> s.used_gas, den |-> s.total_gas]
                                  ELSE [num |-> 0, den |-> 1]

OpcodeFeatures(calls, depth, ct, internal, external, unique, transfers, ratio) ==
    [total_calls |-> calls, call_depth |-> depth,
     delegatecall_count |-> CountOf(ct, "DELEGATECALL"),
     staticcall_count |-> CountOf(ct, "STATICCALL"),
     create_count |-> CountOf(ct, "CREATE"),
     create2_count |-> CountOf(ct, "CREATE2"),
     selfdestruct_count |-> CountOf(ct, "SELFDESTRUCT"),
     call_count |-> CountOf(ct, "CALL"),
     internal_calls |-> internal, external_calls |-> external,
     unique_call_types |-> unique, call_value_transfers |-> transfers,
     gas_forwarded_ratio |-> ratio, revert_count |-> 0]

(* _estimate_from_logs: one call per distinct log address.                *)
EstimateFromLogs(t) ==
    LET n == Cardinality({t.logs[i].address : i \in DOMAIN t.logs})
        transfers == Len(SelectSeq(t.logs, LAMBDA l : l.topic = TransferTopic))
        depth == IF n > 3 THEN IF n \div 3 < 10 THEN n \div 3 ELSE 10 ELSE 1
        ratio == IF t.gasUsedHigh THEN [num |-> 8, den |-> 10]
                                  ELSE [num |-> 5, den |-> 10]
    IN OpcodeFeatures(n, depth, ("CALL" :> n), 0, n,
                      IF n > 0 THEN 1 ELSE 0, transfers, ratio)

(* unique_call_types = len(stats["call_types"])                           *)
UniqueCallTypes(ct) == Cardinality(DOMAIN ct)

(* CALL_TYPE_OPCODES                                                       *)
CallTypeOpcodes == ExternalTypes \cup {"CREATE", "CREATE2"}

(* _from_opcode_counts: a trace with counts and no call tree (one loaded  *)
(* from JSON): depth, internal calls, transfers and the gas ratio are 0,  *)
(* and CREATE and CREATE2 count as external calls.                        *)
FromOpcodeCounts(ops) ==
    OpcodeFeatures(MapThenSumSet(LAMBDA ty : ops[ty], DOMAIN ops), 0, ops, 0,
                   MapThenSumSet(LAMBDA ty : ops[ty], DOMAIN ops \cap CallTypeOpcodes),
                   Cardinality(DOMAIN ops \cap CallTypeOpcodes), 0, [num |-> 0, den |-> 1])

(* OpcodeExtractor.extract: without a call tree, the opcode counts, else  *)
(* the logs estimate, else the empty features; opcode_frequency is left   *)
(* out, nothing reads it, and so is revert_count: the tracer never names *)
(* a call REVERT.                                                          *)
OpcodeExtract(t) ==
    IF t.call = NoCall
    THEN IF DOMAIN t.opcodes # {} THEN FromOpcodeCounts(t.opcodes)
         ELSE IF t.logs # <<>> THEN EstimateFromLogs(t)
         ELSE OpcodeFeatures(0, 0, <<>>, 0, 0, 0, 0, [num |-> 0, den |-> 1])
    ELSE LET s == AnalyzeCallTree(t.call, 0)
         IN OpcodeFeatures(s.total_calls, s.max_depth, s.call_types,
                           s.internal_calls, s.external_calls,
                           UniqueCallTypes(s.call_types), s.value_transfers,
                           GasRatio(s))

(***************************************************************************)
(* FlashLoanExtractor                                                      *)
(***************************************************************************)

NoFlash == [flash |-> <<>>, callbacks |-> <<>>, providers |-> {}, amounts |-> <<>>]

(* One call's own contribution to the accumulators of _analyze_call_tree. *)
FlashOwn(call, depth) ==
    LET isFlash == call.sel \in FlashLoanSigs IN
    [flash |-> IF isFlash THEN <<[depth |-> depth, to |-> call.to]>> ELSE <<>>,
     callbacks |-> IF call.sel \in CallbackSigs THEN <<call.sel>> ELSE <<>>,
     providers |-> IF isFlash /\ call.to \in DOMAIN ProviderOf
                   THEN {ProviderOf[call.to]} ELSE {},
     amounts |-> IF isFlash /\ call.amount > 0 THEN <<call.amount>> ELSE <<>>]

AppendAcc(a, b) ==
    [flash |-> a.flash \o b.flash, callbacks |-> a.callbacks \o b.callbacks,
     providers |-> a.providers \cup b.providers, amounts |-> a.amounts \o b.amounts]

RECURSIVE AnalyzeFlashTreeFlat(_, _)
(* Mutant: the recursive call passes depth instead of depth + 1.          *)
AnalyzeFlashTreeFlat(call, depth) ==
    FoldLeft(LAMBDA acc, child : AppendAcc(acc, AnalyzeFlashTreeFlat(child, depth)),
             FlashOwn(call, depth), call.children)

RECURSIVE AnalyzeFlashTree(_, _)
(* FlashLoanExtractor._analyze_call_tree: appends to the shared lists in  *)
(* pre-order: this call, then each child at depth + 1.                    *)
AnalyzeFlashTree(call, depth) ==
    FoldLeft(LAMBDA acc, child : AppendAcc(acc, AnalyzeFlashTree(child, depth + 1)),
             FlashOwn(call, depth), call.children)

RECURSIVE HasTransferCall(_)
(* _has_transfer_call: this call's selector, or any child's, left to      *)
(* right (the first True returns).                                         *)
HasTransferCall(call) ==
    \/ call.sel \in TransferSigs
    \/ \E i \in DOMAIN call.children : HasTransferCall(call.children[i])

(* _detect_flash_loans_from_logs: logs whose topic0 is a flash-loan event. *)
FlashLoansFromLogs(logs) ==
    LET hits == SelectSeq(logs, LAMBDA l : l.topic \in DOMAIN FlashEventTopics)
    IN [i \in DOMAIN hits |-> [provider |-> FlashEventTopics[hits[i].topic],
                               amount |-> hits[i].amount]]

(* _detect_repayment_from_logs: at least two Transfer logs.               *)
RepaymentFromLogs(logs) ==
    Len(SelectSeq(logs, LAMBDA l : l.topic = TransferTopic)) >= 2

(* _detect_nested_flash_loans: more than one flash-loan call, at more     *)
(* than one depth.                                                         *)
DetectNested(fl) ==
    Len(fl) > 1 /\ Cardinality({fl[i].depth : i \in DOMAIN fl}) > 1

(* FlashLoanExtractor.extract; the selector of trace.input_data counts   *)
(* as a flash loan also when there is no call tree.                       *)
FlashExtract(t) ==
    LET tree == IF t.call = NoCall THEN NoFlash ELSE AnalyzeFlashTree(t.call, 0)
        logFl == FlashLoansFromLogs(t.logs)
        logAmounts == SelectSeq([i \in DOMAIN logFl |-> logFl[i].amount],
                                LAMBDA a : a > 0)
        amounts == tree.amounts \o logAmounts
        inputFlash == t.sel \in FlashLoanSigs
        has == tree.flash # <<>> \/ inputFlash \/ logFl # <<>>
    IN [has_flash_loan |-> has,
        flash_loan_count |-> MaxOf(Len(tree.flash), Len(logFl)),
        flash_loan_providers |-> tree.providers
                                 \cup {logFl[i].provider : i \in DOMAIN logFl},
        flash_loan_amounts |-> amounts,
        total_borrowed |-> SumSeq(amounts),
        has_callback |-> tree.callbacks # <<>> \/ has,
        callback_selectors |-> tree.callbacks,
        nested_flash_loans |-> DetectNested(tree.flash),
        repayment_detected |-> \/ t.call # NoCall /\ HasTransferCall(t.call)
                               \/ RepaymentFromLogs(t.logs)]

(***************************************************************************)
(* StateVarianceExtractor (features/extractors/state_variance.py).  A      *)
(* storage change is [address, slot, prev, new]: address is [id, upper],   *)
(* the account and whether its text is checksummed (lower() gives the same *)
(* text for both); slot is [val, padded], the slot number or Malformed and *)
(* whether its text has all 64 digits; prev and new are the values         *)
(* previous_value and new_value spell, Malformed when not hex.  Values are *)
(* scaled: LargeChange stands for large_change_threshold = 10**18.  A      *)
(* ratio is [num, den], and the coefficient of variation is kept squared.  *)
(***************************************************************************)

(* _hex_to_int: "", "0x" and text int(_, 16) rejects give 0.              *)
HexToInt(v) == IF v = Malformed THEN 0 ELSE v

AbsDiff(a, b) == IF a >= b THEN a - b ELSE b - a

(* _is_balance_slot: one of BALANCE_SLOTS (slots 0..5, all 64 digits) or  *)
(* int(slot, 16) < 10.                                                     *)
IsBalanceSlot(slot) == slot.val # Malformed /\ slot.val < 10

(* _calculate_variance_ratio, squared: (std/mean)^2 =                      *)
(* (n * sum v^2 - (sum v)^2) / (sum v)^2; 0 for fewer than two values or  *)
(* a zero mean.                                                            *)
VarianceRatioSq(vals) ==
    LET n == Len(vals)
        s1 == SumSeq(vals)
        s2 == SumSeq([i \in DOMAIN vals |-> vals[i] * vals[i]])
    IN IF n < 2 \/ s1 = 0 THEN [num |-> 0, den |-> 1]
       ELSE [num |-> n * s2 - s1 * s1, den |-> s1 * s1]

(* max(values) if values else 0, and the mean as a ratio.                  *)
MaxSeq(vals) == IF vals = <<>> THEN 0 ELSE Max(ToSet(vals))
Mean(vals) == IF vals = <<>> THEN [num |-> 0, den |-> 1]
              ELSE [num |-> SumSeq(vals), den |-> Len(vals)]

SvFeatures(total, contracts, slots, balance, large, deltas, z2nz, nz2z) ==
    [total_storage_changes |-> total, unique_contracts_modified |-> contracts,
     unique_slots_modified |-> slots, balance_slot_changes |-> balance,
     large_value_changes |-> large, max_value_delta |-> MaxSeq(deltas),
     avg_value_delta |-> Mean(deltas), variance_ratio |-> VarianceRatioSq(deltas),
     zero_to_nonzero |-> z2nz, nonzero_to_zero |-> nz2z]

(* Mutant: the slot key leaves out the address.                            *)
SlotKeyNoAddress(c) == c.slot

(* f"{change.address}:{change.slot}": the texts as given, so the two       *)
(* spellings of one address, or of one slot, are two keys.                 *)
SlotKey(c) == <<c.address, c.slot>>

(* extract over the storage-change list.                                   *)
ExtractFromChanges(changes) ==
    LET C == DOMAIN changes
        prev(i) == HexToInt(changes[i].prev)
        new(i) == HexToInt(changes[i].new)
        deltas == [i \in C |-> AbsDiff(new(i), prev(i))]
    IN SvFeatures(Len(changes),
                  Cardinality({changes[i].address.id : i \in C}),
                  Cardinality({SlotKey(changes[i]) : i \in C}),
                  Quantify(C, LAMBDA i : IsBalanceSlot(changes[i].slot)),
                  Quantify(C, LAMBDA i : deltas[i] >= LargeChange),
                  deltas,
                  Quantify(C, LAMBDA i : prev(i) = 0 /\ new(i) # 0),
                  Quantify(C, LAMBDA i : prev(i) # 0 /\ new(i) = 0))

(* _extract_from_trace_logs: every emitting address, the Transfer logs,   *)
(* and the amounts of those whose data holds a 32-byte word.              *)
ExtractFromTraceLogs(logs) ==
    LET transfers == SelectSeq(logs, LAMBDA l : l.topic = TransferTopic)
        parsed == SelectSeq(transfers, LAMBDA l : l.word)
        amounts == [i \in DOMAIN parsed |-> parsed[i].amount]
    IN SvFeatures(Len(transfers), Cardinality({logs[i].address : i \in DOMAIN logs}),
                  Len(transfers), Len(transfers),
                  Len(SelectSeq(amounts, LAMBDA a : a >= LargeChange)),
                  amounts, 0, 0)

(* StateVarianceExtractor.extract.                                         *)
StateVarianceExtract(t) ==
    IF t.storage # <<>> THEN ExtractFromChanges(t.storage)
    ELSE IF t.logs # <<>> THEN ExtractFromTraceLogs(t.logs)
    ELSE SvFeatures(0, 0, 0, 0, 0, <<>>, 0, 0)

(***************************************************************************)
(* BytecodeExtractor (features/extractors/bytecode.py).  A bytecode string *)
(* is [prefixed, bytes]: whether it starts with "0x", and the bytes its    *)
(* hex digits spell (an even number of digits, as bytes.hex() and the      *)
(* JSON-RPC strings give).  Its text is handled as the sequence of those   *)
(* digits, nibbles 0..15.  bytecode_hash, the known-exploit hash match and *)
(* the Jaccard similarity are left out: no hash can be computed here, and  *)
(* FeatureAggregator builds BytecodeExtractor() with no exploit_bytecodes, *)
(* so _calculate_max_jaccard is 0.0 on every path.                         *)
(***************************************************************************)

Nibbles(code) == FoldLeft(LAMBDA s, b : s \o <<b \div 16, b % 16>>, <<>>, code.bytes)
TextLength(code) == 2 * Len(code.bytes) + (IF code.prefixed THEN 2 ELSE 0)

(* pattern in text, for sequences of hex digits                           *)
InText(pat, text) ==
    \E i \in 0..Len(text) - Len(pat) : SubSeq(text, i + 1, i + Len(pat)) = pat

(* _has_opcode: opcode.lower() in clean.lower(), clean without "0x".       *)
HasOpcode(code, op) == InText(<<op \div 16, op % 16>>, Nibbles(code))

(* _detect_proxy on bytecode.lower() ("0x" kept): "f4" anywhere in a text  *)
(* shorter than 200 characters, then each PROXY_PATTERNS slot in dict      *)
(* order, then the EIP-1167 prefix "0x363d3d37..." at the start.           *)
DetectProxy(code) ==
    LET digits == Nibbles(code)
        slots == {i \in DOMAIN ProxySlots : InText(ProxySlots[i].digits, digits)}
    IN IF HasOpcode(code, 244) /\ TextLength(code) < 200 THEN "minimal_proxy"
       ELSE IF slots # {} THEN ProxySlots[Min(slots)].type
       ELSE IF code.prefixed /\ IsPrefix(CloneDigits, digits) THEN "eip1167_clone"
       ELSE "none"

PushOps == 96..127   \* 0x60 PUSH1 .. 0x7f PUSH32

(* Mutant: the walk reads PUSH data bytes as opcodes.                      *)
RECURSIVE OpcodeWalkNoSkip(_, _, _)
OpcodeWalkNoSkip(bytes, i, seen) ==
    IF i > Len(bytes) THEN seen
    ELSE OpcodeWalkNoSkip(bytes, i + 1, seen \cup {bytes[i]})

(* _count_unique_opcodes: from i = 0, add clean[i:i+2], skip op - 0x5f     *)
(* bytes after a PUSH, step one byte.                                       *)
RECURSIVE OpcodeWalk(_, _, _)
OpcodeWalk(bytes, i, seen) ==
    IF i > Len(bytes) THEN seen
    ELSE LET op == bytes[i]
             skip == IF op \in PushOps THEN op - 95 ELSE 0
         IN OpcodeWalk(bytes, i + skip + 1, seen \cup {op})

CountUniqueOpcodes(code) == Cardinality(OpcodeWalk(code.bytes, 1, {}))

(* _empty_features and _eoa_features, which are the same record.           *)
EmptyBytecode ==
    [bytecode_length |-> 0, is_contract |-> FALSE, is_proxy |-> FALSE,
     proxy_type |-> "none", has_selfdestruct |-> FALSE,
     has_delegatecall |-> FALSE, has_create2 |-> FALSE, unique_opcodes |-> 0]

(* extract_from_bytecode: "" and "0x" are an EOA; bytecode_length is       *)
(* len(bytecode) // 2 of the text as given.                                *)
ExtractFromBytecode(code) ==
    IF code.bytes = <<>> THEN EmptyBytecode
    ELSE LET proxy == DetectProxy(code) IN
         [bytecode_length |-> TextLength(code) \div 2, is_contract |-> TRUE,
          is_proxy |-> proxy # "none", proxy_type |-> proxy,
          has_selfdestruct |-> HasOpcode(code, 255),
          has_delegatecall |-> HasOpcode(code, 244),
          has_create2 |-> HasOpcode(code, 245),
          unique_opcodes |-> CountUniqueOpcodes(code)]

(* extract_from_trace: a trace with to_address None (code is its          *)
(* input_data) goes to extract_from_bytecode; with a to_address and no w3  *)
(* (no caller passes one) the record is _empty_features.                   *)
BytecodeExtract(t) ==
    IF t.code = NoCode THEN EmptyBytecode ELSE ExtractFromBytecode(t.code)

-----------------------------------------------------------------------------
(* FeatureAggregator.extract_from_trace runs the extractors on one trace. *)
(* They keep nothing between calls, so a call's result depends on its      *)
(* trace alone and one call from the initial state stands for every call: *)
(* the state after it is final.                                           *)

VARIABLES trace, opcode, flash, state, bytecode

vars == <<trace, opcode, flash, state, bytecode>>

Init == /\ trace = NoTrace /\ opcode = NoTrace /\ flash = NoTrace
        /\ state = NoTrace /\ bytecode = NoTrace

Extract(t) ==
    /\ trace = NoTrace
    /\ trace' = t
    /\ opcode' = OpcodeExtract(t)
    /\ flash' = FlashExtract(t)
    /\ state' = StateVarianceExtract(t)
    /\ bytecode' = BytecodeExtract(t)

Next == \E t \in Traces : Extract(t)

Spec == Init /\ [][Next]_vars
-----------------------------------------------------------------------------
(* Properties.  The reference for a call tree is its set of nodes, each   *)
(* with its path of child indices and its depth.                          *)

RECURSIVE NodesOf(_, _, _)
NodesOf(call, path, depth) ==
    {[path |-> path, depth |-> depth, call |-> call]}
    \cup UNION {NodesOf(call.children[i], Append(path, i), depth + 1) :
                    i \in DOMAIN call.children}

Nodes(t) == IF t.call = NoCall THEN {} ELSE NodesOf(t.call, <<>>, 0)

CountField == ("CALL" :> "call_count") @@ ("STATICCALL" :> "staticcall_count")
              @@ ("DELEGATECALL" :> "delegatecall_count")
              @@ ("CREATE" :> "create_count") @@ ("CREATE2" :> "create2_count")
              @@ ("SELFDESTRUCT" :> "selfdestruct_count")

FlashLogs(t) == {i \in DOMAIN t.logs : t.logs[i].topic \in DOMAIN FlashEventTopics}

(* The reference decoding of EVM code: the first byte starts an           *)
(* instruction, and an instruction PUSHn (0x5f + n, n in 1..32) is         *)
(* followed by n immediate bytes before the next one starts.               *)
Immediates(op) == IF \E n \in 1..32 : op = 95 + n THEN op - 95 ELSE 0

RECURSIVE StartsFrom(_, _)
StartsFrom(bytes, p) ==
    IF p > Len(bytes) THEN {}
    ELSE {p} \cup StartsFrom(bytes, p + 1 + Immediates(bytes[p]))

Instructions(bytes) == {bytes[p] : p \in StartsFrom(bytes, 1)}

(* Every feature has its type; a forwarded-gas ratio never divides by     *)
(* zero, also for a tree whose calls report no gas.                       *)
TypeOK ==
    /\ trace \in Traces \cup {NoTrace}
    /\ opcode # NoTrace =>
         /\ opcode.gas_forwarded_ratio \in [num : Nat, den : Nat \ {0}]
         /\ \A f \in DOMAIN opcode \ {"gas_forwarded_ratio"} : opcode[f] \in Nat
    /\ flash # NoTrace =>
         /\ flash.flash_loan_count \in Nat /\ flash.total_borrowed \in Nat
         /\ flash.flash_loan_amounts \in Seq(Nat \ {0})
    /\ state # NoTrace =>
         /\ \A f \in DOMAIN state \ {"avg_value_delta", "variance_ratio"} : state[f] \in Nat
         /\ state.avg_value_delta \in [num : Nat, den : Nat \ {0}]
         /\ state.variance_ratio \in [num : Nat, den : Nat \ {0}]
    /\ bytecode # NoTrace =>
         /\ bytecode.proxy_type \in {"none", "minimal_proxy", "eip1167_clone"}
                                     \cup {ProxySlots[i].type : i \in DOMAIN ProxySlots}
         /\ bytecode.unique_opcodes \in 0..256 /\ bytecode.bytecode_length \in Nat

(* The opcode features of a traced call tree count its calls: the one     *)
(* pass of _analyze_call_tree, summing each child's stats and merging its *)
(* per-type counts into the parent's, agrees with the tree's nodes on the *)
(* call count, the depth, every per-type count, the external/internal     *)
(* split, the value transfers and the forwarded-gas ratio.                *)
OpcodeCountsMatchTree ==
    trace # NoTrace /\ trace.call # NoCall =>
        LET N == Nodes(trace)
            gas == MapThenSumSet(LAMBDA n : n.call.gas, N)
            used == MapThenSumSet(LAMBDA n : n.call.gasUsed, N)
        IN /\ opcode.total_calls = Cardinality(N)
           /\ opcode.call_depth = Max({n.depth : n \in N})
           /\ \A ty \in DOMAIN CountField :
                  opcode[CountField[ty]] = Quantify(N, LAMBDA n : n.call.type = ty)
           /\ opcode.unique_call_types = Cardinality({n.call.type : n \in N})
           /\ opcode.external_calls = Quantify(N, LAMBDA n : n.call.type \in ExternalTypes)
           /\ opcode.internal_calls = Cardinality(N) - opcode.external_calls
           /\ opcode.call_value_transfers = Quantify(N, LAMBDA n : n.call.value > 0)
           /\ gas > 0 => opcode.gas_forwarded_ratio = [num |-> used, den |-> gas]

(* The flash-loan features agree with the tree and the logs: the count is *)
(* the larger of the flash-loan calls and the flash-loan events, "nested" *)
(* holds exactly when two flash-loan calls sit at different depths (spec  *)
(* section 4), repayment exactly when some call is a transfer or          *)
(* transferFrom or two Transfer events were logged, and the providers and *)
(* the total borrowed are those of the flash-loan calls and events.       *)
FlashFeaturesMatchTree ==
    trace # NoTrace =>
        LET N == Nodes(trace)
            F == {n \in N : n.call.sel \in FlashLoanSigs}
            L == FlashLogs(trace)
        IN /\ flash.flash_loan_count = MaxOf(Cardinality(F), Cardinality(L))
           /\ flash.has_flash_loan = (F # {} \/ L # {} \/ trace.sel \in FlashLoanSigs)
           /\ flash.nested_flash_loans = \E a, b \in F : a.depth # b.depth
           /\ flash.repayment_detected =
                 \/ \E n \in N : n.call.sel \in TransferSigs
                 \/ Quantify(DOMAIN trace.logs,
                             LAMBDA i : trace.logs[i].topic = TransferTopic) >= 2
           /\ flash.flash_loan_providers =
                 {ProviderOf[n.call.to] : n \in {m \in F : m.call.to \in DOMAIN ProviderOf}}
                 \cup {FlashEventTopics[trace.logs[i].topic] : i \in L}
           /\ flash.total_borrowed = MapThenSumSet(LAMBDA n : n.call.amount, F)
                                     + MapThenSumSet(LAMBDA i : trace.logs[i].amount, L)

(* The bytecode features of contract-creation code agree with its         *)
(* decoding (spec section 4.3): unique_opcodes counts the distinct         *)
(* opcodes at instruction starts, so PUSH immediates are never counted,    *)
(* also when a PUSH runs past the end of the code; and SELFDESTRUCT,       *)
(* DELEGATECALL or CREATE2 executed as an instruction always sets its      *)
(* has_ flag (the hex substring test may also fire on bytes that are not   *)
(* instructions).                                                          *)
BytecodeFeaturesMatchCode ==
    trace # NoTrace /\ trace.code # NoCode /\ trace.code.bytes # <<>> =>
        LET ops == Instructions(trace.code.bytes) IN
        /\ bytecode.unique_opcodes = Cardinality(ops)
        /\ 255 \in ops => bytecode.has_selfdestruct
        /\ 244 \in ops => bytecode.has_delegatecall
        /\ 245 \in ops => bytecode.has_create2

(* The state-variance features agree with spec section 4.2.  Over a       *)
(* storage-change list: the total, the addresses written (case-folded),   *)
(* the balance-like and large writes and the largest delta are exact, and *)
(* unique_slots_modified counts at least every (address, slot) pair and   *)
(* at most every write, at least as many as the addresses (the code keys  *)
(* slots by their text, which may spell one pair twice).  On the Transfer *)
(* log fallback of an untraced transaction, total_storage_changes is the  *)
(* Transfer count the flash-loan extractor's repayment test reads: two or *)
(* more exactly when it reports a repayment.                              *)
StateFeaturesMatchChanges ==
    trace # NoTrace =>
        IF trace.storage # <<>>
        THEN LET ch == trace.storage
                 C == DOMAIN ch
                 val(v) == IF v = Malformed THEN 0 ELSE v
                 delta(i) == AbsDiff(val(ch[i].new), val(ch[i].prev))
                 pairs == {<<ch[i].address.id, ch[i].slot.val>> : i \in C}
             IN /\ state.total_storage_changes = Len(ch)
                /\ state.unique_contracts_modified = Cardinality({ch[i].address.id : i \in C})
                /\ Cardinality(pairs) <= state.unique_slots_modified
                /\ state.unique_slots_modified <= Len(ch)
                /\ state.unique_contracts_modified <= state.unique_slots_modified
                /\ state.balance_slot_changes =
                      Cardinality({i \in C : ch[i].slot.val \in 0..9})
                /\ state.large_value_changes =
                      Cardinality({i \in C : delta(i) >= LargeChange})
                /\ state.max_value_delta = Max({delta(i) : i \in C})
        ELSE trace.call = NoCall /\ trace.logs # <<>> =>
                 (state.total_storage_changes >= 2) = flash.repayment_detected
=============================================================================
