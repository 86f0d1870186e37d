--------------------------- MODULE MempoolListener ---------------------------
(***************************************************************************)
(* MempoolListener (data/collectors/mempool_listener.py) over one of its   *)
(* aiohttp websocket providers (AlchemyProvider, BloxrouteProvider).       *)
(* Everything runs on one asyncio event loop: the owner coroutine calls    *)
(* start and stop, each start creates a _listen_loop task, a consumer      *)
(* calls get_transaction.  A task only yields at an await, so the counter  *)
(* updates and put_nowait of one message are one step.  Each listen task's *)
(* provider.subscribe runs _connect, which stores a new ClientSession in   *)
(* the provider before awaiting ws_connect, and the websocket after it;    *)
(* those fields and the provider's _running flag are shared by every task  *)
(* using the provider, and close closes what the fields point to when it   *)
(* reads them.  (Web3WebSocketProvider stores w3 the same way, line 86.)   *)
(***************************************************************************)
EXTENDS Naturals, FiniteSets

CONSTANTS
    BufferSize,    \* buffer_size, the maxsize of the asyncio.Queue
    MaxTx,         \* bound: pending transactions the feed yields in total
    MaxStarts,     \* bound: calls of start
    ConnectFails   \* ws_connect or the subscription may fail (ConnectionError)

Tasks == 1..MaxStarts
NoTask == 0

VARIABLES
    running,     \* MempoolListener._running
    pRunning,    \* the provider's _running
    task,        \* listen task -> "none", "created" (not yet run),
                 \* "opening" (in ws_connect), "handshake" (subscription
                 \* message sent, awaiting its answer), "subscribed", "ended"
    sess,        \* listen task -> its ClientSession: "none", "open", "closed"
    conn,        \* listen task -> its websocket: "none", "open", "closed"
    pSession,    \* the task whose session the provider's _session holds
    pConn,       \* the task whose websocket the provider's _ws holds
    listenTask,  \* MempoolListener._listen_task
    stopPc,      \* the owner inside stop: "idle", "closeWs", "closeSession"
    queue,       \* transactions in self._queue
    consumed,    \* transactions get_transaction has returned
    stats        \* self._stats

vars == <<running, pRunning, task, sess, conn, pSession, pConn, listenTask,
          stopPc, queue, consumed, stats>>

Init ==
    /\ running = FALSE
    /\ pRunning = FALSE
    /\ task = [t \in Tasks |-> "none"]
    /\ sess = [t \in Tasks |-> "none"]
    /\ conn = [t \in Tasks |-> "none"]
    /\ pSession = NoTask
    /\ pConn = NoTask
    /\ listenTask = NoTask
    /\ stopPc = "idle"
    /\ queue = 0
    /\ consumed = 0
    /\ stats = [received |-> 0, processed |-> 0, dropped |-> 0]

Started == {t \in Tasks : task[t] # "none"}
Live == {t \in Tasks : task[t] \in {"created", "opening", "handshake", "subscribed"}}

(* start: _running = True and a new _listen_loop task, whatever the       *)
(* previous _listen_task was.                                              *)
Start ==
    /\ stopPc = "idle"
    /\ Cardinality(Started) < MaxStarts
    /\ LET t == Cardinality(Started) + 1 IN
         /\ task' = [task EXCEPT ![t] = "created"]
         /\ listenTask' = t
    /\ running' = TRUE
    /\ UNCHANGED <<pRunning, sess, conn, pSession, pConn, stopPc, queue, consumed, stats>>

(* The task's first step, up to await ws_connect: _session =               *)
(* aiohttp.ClientSession().  The event loop runs tasks in the order they  *)
(* were created.                                                           *)
ConnectBegin(t) ==
    /\ task[t] = "created"
    /\ \A u \in Tasks : u < t => task[u] # "created"
    /\ task' = [task EXCEPT ![t] = "opening"]
    /\ sess' = [sess EXCEPT ![t] = "open"]
    /\ pSession' = t
    /\ UNCHANGED <<running, pRunning, conn, pConn, listenTask, stopPc, queue, consumed, stats>>

(* ws_connect returns: _ws = the websocket, then send_json.  On a session  *)
(* closed meanwhile, or a refused connection, it raises and _listen_loop   *)
(* logs the exception; the session stays open in the provider.             *)
WsConnect(t) ==
    /\ task[t] = "opening"
    /\ \/ /\ sess[t] = "open"
          /\ task' = [task EXCEPT ![t] = "handshake"]
          /\ conn' = [conn EXCEPT ![t] = "open"]
          /\ pConn' = t
       \/ /\ sess[t] = "closed" \/ ConnectFails
          /\ task' = [task EXCEPT ![t] = "ended"]
          /\ UNCHANGED <<conn, pConn>>
    /\ UNCHANGED <<running, pRunning, sess, pSession, listenTask, stopPc, queue, consumed, stats>>

(* receive_json returns the subscription answer: without "error" the      *)
(* provider sets _running = True and the async for begins; an error       *)
(* answer raises ConnectionError, as does a websocket closed meanwhile.    *)
Subscribe(t) ==
    /\ task[t] = "handshake"
    /\ \/ /\ conn[t] = "open"
          /\ task' = [task EXCEPT ![t] = "subscribed"]
          /\ pRunning' = TRUE
       \/ /\ conn[t] = "closed" \/ ConnectFails
          /\ task' = [task EXCEPT ![t] = "ended"]
          /\ UNCHANGED pRunning
    /\ UNCHANGED <<running, sess, conn, pSession, pConn, listenTask, stopPc, queue, consumed, stats>>

(* Mutant: the put is attempted while the queue holds BufferSize items.   *)
HasRoomOffByOne == queue <= BufferSize

(* put_nowait succeeds unless the queue holds maxsize items (QueueFull).  *)
HasRoom == queue < BufferSize

(* Mutant: processed is counted before put_nowait, and QueueFull counts   *)
(* the message as dropped as well.                                        *)
CountMessageFirst(s, put) ==
    [s EXCEPT !.received = @ + 1, !.processed = @ + 1,
              !.dropped = @ + (IF put THEN 0 ELSE 1)]

(* received += 1; then processed += 1 after put_nowait, or dropped += 1   *)
(* on QueueFull.                                                           *)
CountMessage(s, put) ==
    IF put THEN [s EXCEPT !.received = @ + 1, !.processed = @ + 1]
           ELSE [s EXCEPT !.received = @ + 1, !.dropped = @ + 1]

(* if not self._running: break                                             *)
KeepListening == running

(* The provider yields a pending transaction and _listen_loop handles it  *)
(* (the callbacks only log their errors).                                  *)
Deliver(t) ==
    /\ task[t] = "subscribed"
    /\ conn[t] = "open" /\ pRunning /\ KeepListening
    /\ stats.received < MaxTx
    /\ queue' = IF HasRoom THEN queue + 1 ELSE queue
    /\ stats' = CountMessage(stats, HasRoom)
    /\ UNCHANGED <<running, pRunning, task, sess, conn, pSession, pConn, listenTask, stopPc, consumed>>

(* The async for over the websocket ends: a CLOSED message once the socket *)
(* was closed (by the peer, or by close), or an ERROR message or socket    *)
(* error on a socket that stays open.                                      *)
SocketEnds(t) ==
    /\ task[t] = "subscribed"
    /\ task' = [task EXCEPT ![t] = "ended"]
    /\ \/ conn' = [conn EXCEPT ![t] = "closed"]
       \/ conn[t] = "open" /\ UNCHANGED conn
    /\ UNCHANGED <<running, pRunning, sess, pSession, pConn, listenTask, stopPc, queue, consumed, stats>>

(* A message arrives while the provider's _running is False, or a         *)
(* transaction while the listener's _running is False: break.  Leaving    *)
(* the async for closes neither the session nor the websocket.            *)
Break(t) ==
    /\ task[t] = "subscribed"
    /\ conn[t] = "open"
    /\ \/ ~pRunning
       \/ ~KeepListening /\ stats.received < MaxTx
    /\ task' = [task EXCEPT ![t] = "ended"]
    /\ UNCHANGED <<running, pRunning, sess, conn, pSession, pConn, listenTask, stopPc, queue, consumed, stats>>

(* get_transaction: self._queue.get() returns the head (a timeout returns *)
(* None and changes nothing).                                              *)
GetTransaction ==
    /\ queue > 0
    /\ queue' = queue - 1
    /\ consumed' = consumed + 1
    /\ UNCHANGED <<running, pRunning, task, sess, conn, pSession, pConn, listenTask, stopPc, stats>>

(* stop up to await self._listen_task: _running = False; cancel() throws  *)
(* CancelledError into _listen_task at its pending await (a task that has *)
(* not run yet never runs), and _listen_loop swallows it.  What the       *)
(* cancelled await had opened stays in the provider's fields.              *)
StopCancel ==
    /\ stopPc = "idle"
    /\ running' = FALSE
    /\ task' = IF listenTask # NoTask /\ listenTask \in Live
               THEN [task EXCEPT ![listenTask] = "ended"] ELSE task
    /\ stopPc' = "closeWs"
    /\ UNCHANGED <<pRunning, sess, conn, pSession, pConn, listenTask, queue, consumed, stats>>

(* provider.close(), after the awaited task: _running = False, then        *)
(* await self._ws.close() on the websocket _ws holds.  Every task created *)
(* before the cancelled one has taken its first step by now.               *)
StopCloseWs ==
    /\ stopPc = "closeWs"
    /\ \A t \in Tasks : task[t] # "created"
    /\ pRunning' = FALSE
    /\ conn' = IF pConn # NoTask THEN [conn EXCEPT ![pConn] = "closed"] ELSE conn
    /\ stopPc' = "closeSession"
    /\ UNCHANGED <<running, task, sess, pSession, pConn, listenTask, queue, consumed, stats>>

(* await self._session.close() on the session _session holds now, which   *)
(* closes that session's websocket too; stop returns.                     *)
StopCloseSession ==
    /\ stopPc = "closeSession"
    /\ sess' = IF pSession # NoTask THEN [sess EXCEPT ![pSession] = "closed"] ELSE sess
    /\ conn' = IF pSession # NoTask /\ conn[pSession] = "open"
               THEN [conn EXCEPT ![pSession] = "closed"] ELSE conn
    /\ stopPc' = "idle"
    /\ UNCHANGED <<running, pRunning, task, pSession, pConn, listenTask, queue, consumed, stats>>

Next ==
    \/ Start \/ StopCancel \/ StopCloseWs \/ StopCloseSession \/ GetTransaction
    \/ \E t \in Tasks : \/ ConnectBegin(t) \/ WsConnect(t) \/ Subscribe(t)
                        \/ Deliver(t) \/ Break(t) \/ SocketEnds(t)

Spec == Init /\ [][Next]_vars
-----------------------------------------------------------------------------
(* Properties.                                                             *)

(* Every variable has its type, and self._queue never holds more than     *)
(* buffer_size transactions.                                               *)
TypeOK ==
    /\ running \in BOOLEAN /\ pRunning \in BOOLEAN
    /\ task \in [Tasks -> {"none", "created", "opening", "handshake", "subscribed", "ended"}]
    /\ sess \in [Tasks -> {"none", "open", "closed"}]
    /\ conn \in [Tasks -> {"none", "open", "closed"}]
    /\ pSession \in Tasks \cup {NoTask} /\ pConn \in Tasks \cup {NoTask}
    /\ listenTask \in Tasks \cup {NoTask}
    /\ stopPc \in {"idle", "closeWs", "closeSession"}
    /\ queue \in 0..BufferSize /\ consumed \in Nat
    /\ stats \in [{"received", "processed", "dropped"} -> Nat]

(* get_stats adds up: every transaction _listen_loop received was either  *)
(* dropped on QueueFull or processed, and every processed one is still in *)
(* the queue or was returned by get_transaction, across restarts and      *)
(* several listen tasks feeding the same queue.                           *)
StatsConserved ==
    /\ stats.received = stats.processed + stats.dropped
    /\ stats.processed = queue + consumed

(* Once stop has returned and no listen task is left, every aiohttp       *)
(* session and websocket a listen task's _connect opened has been closed. *)
NoLeakedConnection ==
    stopPc = "idle" /\ ~running /\ Live = {} =>
        \A t \in Tasks : sess[t] # "open" /\ conn[t] # "open"
=============================================================================
