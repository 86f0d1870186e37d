------------------------------ MODULE TraceBuild ------------------------------
(***************************************************************************)
(* How ForkReplayer turns the JSON of debug_traceTransaction's callTracer  *)
(* and the receipt into the TransactionTrace the extractors read          *)
(* (_build_trace, _parse_call_trace, _extract_opcodes), and what a trace   *)
(* is after _save_trace writes to_dict() and a loader reads it back.       *)
(* A tracer node is a record                                               *)
(*   [type, value, gas, gasUsed, sel, amount, to, calls]                   *)
(* where a field the tracer left out is Absent, value, gas and gasUsed are *)
(* the numbers their hex text stands for, sel and amount abstract the     *)
(* input as in Extractors, and calls are the child nodes.  The JSON of an  *)
(* untraced transaction ({}) is EmptyJson.                                 *)
(***************************************************************************)
EXTENDS Extractors

CONSTANTS
    Absent,      \* a key missing from the node
    EmptyJson    \* the {} _trace_transaction returns when tracing fails

(* trace.get(key, default)                                                 *)
Get(node, key, default) == IF node[key] = Absent THEN default ELSE node[key]

(* int(trace.get(key, "0x0"), 16) if trace.get(key) else 0                *)
HexOrZero(node, key) == Get(node, key, 0)

RECURSIVE ParseCallTrace(_)
(* _parse_call_trace: each child first, then the TraceCall; the type      *)
(* defaults to "CALL" and the address to "".  The depth argument only    *)
(* fills TraceCall.depth, which no extractor reads.                       *)
ParseCallTrace(node) ==
    [type |-> Get(node, "type", "CALL"),
     value |-> HexOrZero(node, "value"), gas |-> HexOrZero(node, "gas"),
     gasUsed |-> HexOrZero(node, "gasUsed"),
     sel |-> node.sel, amount |-> node.amount, to |-> Get(node, "to", ""),
     children |-> [i \in DOMAIN node.calls |-> ParseCallTrace(node.calls[i])]]

RECURSIVE CountType(_, _)
(* count_type of _extract_opcodes, with its own "CALL" default.           *)
CountType(node, ops) ==
    FoldLeft(LAMBDA acc, child : CountType(child, acc),
             AddCounts(ops, Get(node, "type", "CALL") :> 1), node.calls)

(* Mutant: the type default copied from _extract_contract_lifecycle.      *)
ExtractOpcodesBlankDefault(json) ==
    LET RECURSIVE Walk(_, _)
        Walk(node, ops) == FoldLeft(LAMBDA acc, child : Walk(child, acc),
                                    AddCounts(ops, Get(node, "type", "") :> 1), node.calls)
    IN IF json = EmptyJson THEN <<>> ELSE Walk(json, <<>>)

(* _extract_opcodes: {} for the empty JSON.                               *)
ExtractOpcodes(json) == IF json = EmptyJson THEN <<>> ELSE CountType(json, <<>>)

(* _build_trace: logs as received, the call tree when the JSON is not {}, *)
(* no storage changes, and the opcode counts.  input_data is the          *)
(* transaction's input, which callTracer also reports as the top call's;  *)
(* code stands for input_data when to_address is None.                    *)
BuildTrace(json, logs, high, code, txSel) ==
    [call |-> IF json = EmptyJson THEN NoCall ELSE ParseCallTrace(json),
     logs |-> logs, gasUsedHigh |-> high, code |-> code, storage |-> <<>>,
     sel |-> IF json = EmptyJson THEN txSel ELSE json.sel,
     opcodes |-> ExtractOpcodes(json)]

(* to_dict(), which _save_trace writes: every field but call_trace.       *)
SaveTrace(t) == [f \in DOMAIN t \ {"call"} |-> t[f]]

(* load_trace: the saved fields, with call_trace None.  It passes each    *)
(* saved storage change, keyed "previous" and "new", to StorageChange as  *)
(* keywords, whose fields are previous_value and new_value: it raises     *)
(* TypeError unless the list is empty, as it is for every trace            *)
(* _build_trace made.                                                      *)
LoadTrace(json) == IF json.storage = <<>> THEN json @@ [call |-> NoCall] ELSE "TypeError"

(* load_trace_from_json of scripts/validate_real_traces.py (validate_signals *)
(* has a copy): the same fields, call_trace None, and each storage change  *)
(* built from the "previous" and "new" keys to_dict wrote.                 *)
LoadTraceFromJson(json) == json @@ [call |-> NoCall]

-----------------------------------------------------------------------------
(* The call counts of a trace survive its save and reload: the counts     *)
(* _extract_opcodes takes from the tracer's JSON, which is what to_dict    *)
(* saves, are the per-type counts and the call total that                 *)
(* _analyze_call_tree finds in the tree _parse_call_trace builds from the *)
(* same JSON (two walks, each with its own default for a missing type),   *)
(* and a reloaded trace, scored by _from_opcode_counts, reports them too. *)
CallCountsSurviveReload ==
    trace # NoTrace /\ DOMAIN trace.opcodes # {} =>
        /\ opcode.total_calls = MapThenSumSet(LAMBDA ty : trace.opcodes[ty], DOMAIN trace.opcodes)
        /\ \A ty \in DOMAIN CountField : opcode[CountField[ty]] = CountOf(trace.opcodes, ty)
====
