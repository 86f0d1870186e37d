---------------------------- MODULE ForkReplayer ----------------------------
(***************************************************************************)
(* ForkReplayer.replay_transaction (data/collectors/fork_replayer.py) run  *)
(* by concurrent asyncio tasks, each a caller such as InferenceEngine's    *)
(* _simulate_transaction, optionally under a wait_for that cancels it.     *)
(* A task suspends at each await: _get_transaction, the is_connected poll  *)
(* of AnvilInstance._wait_for_ready, and the trace and receipt requests in *)
(* the async with body.  AnvilInstance.stop has no await, so __aexit__ is  *)
(* one step.  The anvil child processes are the environment: a spawned     *)
(* process binds its port if the port is free, and may exit at any time    *)
(* before it is ready (bad fork URL, port taken).                          *)
(***************************************************************************)
EXTENDS Integers, FiniteSets

CONSTANTS
    Replays,        \* the replay_transaction calls, one per task
    TxHash,         \* replay id -> the integer hash(tx_hash) gives
    OnOrigin,       \* replays whose transaction the origin RPC returns
    CallerTimeout,  \* the caller wraps the call in asyncio.wait_for
    NoReplay        \* model value: no anvil / no server

VARIABLES
    pc,        \* per replay: "idle", "fetching", "waiting" (in
               \* _wait_for_ready), "tracing" (in the async with body),
               \* "done", "failed", "cancelled"
    proc,      \* per replay: its anvil process: "none", "starting",
               \* "running", "exited"
    bound,     \* port -> the replay whose anvil listens on it, or NoReplay
    servedBy,  \* per replay: whose anvil answered its is_connected poll
    entered    \* per replay: AnvilInstance.__aenter__ returned

vars == <<pc, proc, bound, servedBy, entered>>

(* Mutant: the hash is not reduced modulo 1000.                             *)
ReplayPortUnreduced(r) == 8545 + TxHash[r]

(* port = 8545 + hash(tx_hash) % 1000                                      *)
ReplayPort(r) == 8545 + (TxHash[r] % 1000)

Ports == {ReplayPort(r) : r \in Replays}

Terminal == {"done", "failed", "cancelled"}

Init ==
    /\ pc = [r \in Replays |-> "idle"]
    /\ proc = [r \in Replays |-> "none"]
    /\ bound = [p \in Ports |-> NoReplay]
    /\ servedBy = [r \in Replays |-> NoReplay]
    /\ entered = [r \in Replays |-> FALSE]

(* replay_transaction up to await _get_transaction(origin_w3, tx_hash).    *)
Begin(r) ==
    /\ pc[r] = "idle"
    /\ pc' = [pc EXCEPT ![r] = "fetching"]
    /\ UNCHANGED <<proc, bound, servedBy, entered>>

(* _get_transaction returns.  None (or a swallowed error) raises           *)
(* ValueError; a transaction enters async with AnvilInstance(...):         *)
(* __aenter__, start, Popen(anvil --port ...), then _wait_for_ready's      *)
(* first await.                                                            *)
TxFetched(r) ==
    /\ pc[r] = "fetching"
    /\ IF r \in OnOrigin
       THEN /\ pc' = [pc EXCEPT ![r] = "waiting"]
            /\ proc' = [proc EXCEPT ![r] = "starting"]
       ELSE /\ pc' = [pc EXCEPT ![r] = "failed"]
            /\ UNCHANGED proc
    /\ UNCHANGED <<bound, servedBy, entered>>

(* The anvil process of r binds its port, or exits when it is taken.       *)
AnvilBinds(r) ==
    /\ proc[r] = "starting"
    /\ IF bound[ReplayPort(r)] = NoReplay
       THEN /\ proc' = [proc EXCEPT ![r] = "running"]
            /\ bound' = [bound EXCEPT ![ReplayPort(r)] = r]
       ELSE /\ proc' = [proc EXCEPT ![r] = "exited"]
            /\ UNCHANGED bound
    /\ UNCHANGED <<pc, servedBy, entered>>

(* The anvil process of r exits before it is ready (the fork fails).       *)
AnvilExits(r) ==
    /\ proc[r] = "starting"
    /\ proc' = [proc EXCEPT ![r] = "exited"]
    /\ UNCHANGED <<pc, bound, servedBy, entered>>

(* _wait_for_ready: w3.is_connected() on 127.0.0.1:port is true, whoever  *)
(* listens there; __aenter__ returns and the body starts its first await. *)
Connected(r) ==
    /\ pc[r] = "waiting"
    /\ bound[ReplayPort(r)] # NoReplay
    /\ pc' = [pc EXCEPT ![r] = "tracing"]
    /\ servedBy' = [servedBy EXCEPT ![r] = bound[ReplayPort(r)]]
    /\ entered' = [entered EXCEPT ![r] = TRUE]
    /\ UNCHANGED <<proc, bound>>

(* Mutant: the readiness loop has no deadline (while True).                 *)
ReadyTimeoutNever(r) == FALSE /\ UNCHANGED vars

(* _wait_for_ready's 120 s deadline passes with nothing listening: it      *)
(* raises TimeoutError out of __aenter__, so __aexit__ does not run.       *)
ReadyTimeout(r) ==
    /\ pc[r] = "waiting"
    /\ bound[ReplayPort(r)] = NoReplay
    /\ pc' = [pc EXCEPT ![r] = "failed"]
    /\ UNCHANGED <<proc, bound, servedBy, entered>>

(* AnvilInstance.stop: terminate, wait, kill; the port is freed.          *)
Stop(r) ==
    /\ proc' = [proc EXCEPT ![r] = "exited"]
    /\ bound' = [p \in Ports |-> IF bound[p] = r THEN NoReplay ELSE bound[p]]

(* Mutant: __aexit__ runs only when the body returns normally.            *)
TraceReturnsNoStopOnError(r) ==
    /\ pc[r] = "tracing"
    /\ \E receiptOk \in BOOLEAN :
           IF bound[ReplayPort(r)] = servedBy[r] /\ receiptOk
           THEN pc' = [pc EXCEPT ![r] = "done"] /\ Stop(r)
           ELSE pc' = [pc EXCEPT ![r] = "failed"] /\ UNCHANGED <<proc, bound>>
    /\ UNCHANGED <<servedBy, entered>>

(* The body: _trace_transaction (errors give {}), get_transaction_receipt *)
(* (raises when the server that answered is gone, or on any RPC error),   *)
(* _build_trace; then __aexit__ stops this replay's own anvil, on return  *)
(* and on raise.                                                           *)
TraceReturns(r) ==
    /\ pc[r] = "tracing"
    /\ \E receiptOk \in BOOLEAN :
           pc' = [pc EXCEPT ![r] =
                     IF bound[ReplayPort(r)] = servedBy[r] /\ receiptOk
                     THEN "done" ELSE "failed"]
    /\ Stop(r)
    /\ UNCHANGED <<servedBy, entered>>

(* The caller's wait_for expires: CancelledError at the current await.    *)
(* In the body, async with runs __aexit__; in _wait_for_ready it does not. *)
Cancel(r) ==
    /\ CallerTimeout
    /\ pc[r] \in {"fetching", "waiting", "tracing"}
    /\ pc' = [pc EXCEPT ![r] = "cancelled"]
    /\ IF pc[r] = "tracing" THEN Stop(r) ELSE UNCHANGED <<proc, bound>>
    /\ UNCHANGED <<servedBy, entered>>

Next ==
    \E r \in Replays :
        \/ Begin(r) \/ TxFetched(r) \/ Connected(r) \/ ReadyTimeout(r)
        \/ TraceReturns(r) \/ Cancel(r)
        \/ AnvilBinds(r) \/ AnvilExits(r)

(* The event loop resumes every task whose await completed, and a started *)
(* process eventually binds or exits; a wait_for cancellation is never    *)
(* forced.                                                                 *)
Spec ==
    /\ Init /\ [][Next]_vars
    /\ \A r \in Replays :
           /\ WF_vars(Begin(r)) /\ WF_vars(TxFetched(r))
           /\ WF_vars(Connected(r)) /\ WF_vars(ReadyTimeout(r))
           /\ WF_vars(TraceReturns(r)) /\ WF_vars(AnvilBinds(r))
-----------------------------------------------------------------------------
(* Properties.                                                             *)

(* Every variable has its type, and every port an anvil is started on is  *)
(* in 8545..9544, whatever the sign of hash(tx_hash).                      *)
TypeOK ==
    /\ Ports \subseteq 8545..9544
    /\ pc \in [Replays -> {"idle", "fetching", "waiting", "tracing",
                           "done", "failed", "cancelled"}]
    /\ proc \in [Replays -> {"none", "starting", "running", "exited"}]
    /\ bound \in [Ports -> Replays \cup {NoReplay}]
    /\ servedBy \in [Replays -> Replays \cup {NoReplay}]
    /\ entered \in [Replays -> BOOLEAN]

(* async with AnvilInstance: once __aenter__ has returned, the replay's    *)
(* own anvil is stopped however the call ends: the body returning, the     *)
(* receipt request raising, or the caller cancelling inside the body.      *)
AnvilStoppedAfterBody ==
    \A r \in Replays :
        entered[r] /\ pc[r] \in Terminal => proc[r] = "exited"

(* A trace replay_transaction returns was taken from the anvil this call   *)
(* started, forked at the transaction's block, not from another call's.    *)
TraceFromOwnFork ==
    \A r \in Replays : pc[r] = "done" => servedBy[r] = r

(* No anvil process outlives the replay_transaction call that spawned it. *)
NoLeakedAnvil ==
    \A r \in Replays :
        pc[r] \in Terminal => proc[r] \in {"none", "exited"}

(* Every replay_transaction call returns or raises: _wait_for_ready's      *)
(* deadline ends the wait for an anvil that never listens.                 *)
ReplayTerminates ==
    \A r \in Replays : <>(pc[r] \in Terminal)
=============================================================================
