----------------------------- MODULE AlertStore -----------------------------
(***************************************************************************)
(* The SQLite backend of persistence/database.py: the alerts,              *)
(* analysis_records and model_metrics tables, the clients that hold Alert  *)
(* objects read from the store, and the wall clock that get_metrics_history *)
(* compares stored timestamps against.  Every call opens its own           *)
(* connection and commits before returning, so each call is one atomic     *)
(* step.  Rows keep the columns a property tells apart; the JSON columns   *)
(* and the scores are left out.                                            *)
(***************************************************************************)
EXTENDS Integers, FiniteSets, TLC

CONSTANTS
    AlertIds,       \* uuid4 values of Database.generate_id, for alerts
    RecordIds,      \* ... for analysis records
    MetricIds,      \* ... for metrics snapshots
    TxHashes,       \* transactions that are analysed
    Clients,        \* processes that read an Alert and save it back
    Reviewers,      \* reviewed_by values other than None
    Notes,          \* notes values other than None
    HistoryDays,    \* days arguments of get_metrics_history
    StartHour,      \* wall clock when the model starts, in hours
    HourStep,       \* how far the clock moves in one step
    MaxHour,        \* bound on the clock
    None            \* Python None, and a missing row

Statuses == {"pending", "confirmed", "false_positive", "resolved"}

VARIABLES
    initialized,    \* initialize() has created the tables
    alerts,         \* alerts table: id -> row, or None
    copies,         \* the Alert each client holds: [id, row], or None
    analyses,       \* analysis_records table: a set of rows
    lastAnalysis,   \* history: the id of the last record saved for each tx
    issued,         \* history: the record ids generate_id has handed out
    metrics,        \* model_metrics table: a set of rows
    clock           \* the wall clock, in hours

vars == <<initialized, alerts, copies, analyses, lastAnalysis, issued, metrics, clock>>

(* reviewed_at is kept as set or unset: no property reads its value.      *)
AlertRow == [status : Statuses, reviewed_at : {"now", None},
             reviewed_by : Reviewers \cup {None}, notes : Notes \cup {None}]

-----------------------------------------------------------------------------
(* Timestamps as text.  isoformat() writes "YYYY-MM-DDTHH:MM:SS+00:00" and *)
(* SQLite's datetime() writes "YYYY-MM-DD HH:MM:SS".  Both pad every field, *)
(* so text order follows the day, then the separator's character code,    *)
(* then the time of day.                                                   *)
CharCode == " " :> 32 @@ "T" :> 84

IsoFormat(h) == <<h \div 24, "T", h % 24>>

SqliteDatetime(h) == <<h \div 24, " ", h % 24>>

(* SQLite's >= on two TEXT values.                                         *)
TextGeq(a, b) ==
    \/ a[1] > b[1]
    \/ /\ a[1] = b[1]
       /\ \/ CharCode[a[2]] > CharCode[b[2]]
          \/ a[2] = b[2] /\ a[3] >= b[3]

-----------------------------------------------------------------------------
Init ==
    /\ initialized = FALSE
    /\ alerts = [i \in AlertIds |-> None]
    /\ copies = [c \in Clients |-> None]
    /\ analyses = {}
    /\ lastAnalysis = [t \in TxHashes |-> None]
    /\ issued = {}
    /\ metrics = {}
    /\ clock = StartHour

(* initialize: CREATE TABLE IF NOT EXISTS; a second call changes nothing. *)
(* Before it, every other call fails with "no such table".                *)
Initialize ==
    /\ ~initialized
    /\ initialized' = TRUE
    /\ UNCHANGED <<alerts, copies, analyses, lastAnalysis, issued, metrics, clock>>

(* save_alert of a new Alert: INSERT OR REPLACE with the dataclass         *)
(* defaults status PENDING, reviewed_at, reviewed_by and notes None.       *)
CreateAlert(i) ==
    /\ initialized
    /\ alerts[i] = None
    /\ alerts' = [alerts EXCEPT ![i] = [status |-> "pending", reviewed_at |-> None,
                                        reviewed_by |-> None, notes |-> None]]
    /\ UNCHANGED <<initialized, copies, analyses, lastAnalysis, issued, metrics, clock>>

(* Mutant: the "if row" check dropped, a missing row handed to the client. *)
GetAlertNoRowCheck(c, i) ==
    /\ initialized
    /\ copies' = [copies EXCEPT ![c] = [id |-> i, row |-> alerts[i]]]
    /\ UNCHANGED <<initialized, alerts, analyses, lastAnalysis, issued, metrics, clock>>

(* get_alert: SELECT by id and _row_to_alert; the client keeps the object. *)
GetAlert(c, i) ==
    /\ initialized
    /\ alerts[i] # None
    /\ copies' = [copies EXCEPT ![c] = [id |-> i, row |-> alerts[i]]]
    /\ UNCHANGED <<initialized, alerts, analyses, lastAnalysis, issued, metrics, clock>>

(* The client edits its Alert (the dataclass is mutable) and calls         *)
(* save_alert: INSERT OR REPLACE writes every column of the object,        *)
(* status and review fields included.                                      *)
SaveAlert(c, s, n) ==
    /\ initialized
    /\ copies[c] # None
    /\ alerts' = [alerts EXCEPT ![copies[c].id] =
                      [copies[c].row EXCEPT !.status = s, !.notes = n]]
    /\ UNCHANGED <<initialized, copies, analyses, lastAnalysis, issued, metrics, clock>>

(* update_alert_status: UPDATE status, reviewed_at = now, reviewed_by (a   *)
(* None overwrites), notes = COALESCE(?, notes) WHERE id = ?; a missing id *)
(* updates no row and returns False.                                        *)
UpdateAlertStatus(i, s, by, n) ==
    /\ initialized
    /\ alerts[i] # None
    /\ alerts' = [alerts EXCEPT ![i] =
                      [status |-> s, reviewed_at |-> "now", reviewed_by |-> by,
                       notes |-> IF n = None THEN @.notes ELSE n]]
    /\ UNCHANGED <<initialized, copies, analyses, lastAnalysis, issued, metrics, clock>>

(* Mutant: tx_hash without its UNIQUE constraint; OR REPLACE then only    *)
(* removes a row with the same id.                                          *)
SaveAnalysisNoTxConflict(r, t) ==
    /\ initialized
    /\ r \notin issued
    /\ analyses' = {a \in analyses : a.id # r} \cup {[id |-> r, tx_hash |-> t]}
    /\ lastAnalysis' = [lastAnalysis EXCEPT ![t] = r]
    /\ issued' = issued \cup {r}
    /\ UNCHANGED <<initialized, alerts, copies, metrics, clock>>

(* save_analysis: INSERT OR REPLACE into a table whose id is the PRIMARY   *)
(* KEY and whose tx_hash is UNIQUE; SQLite deletes every row that          *)
(* conflicts on either before inserting.  The id is a fresh uuid4.         *)
SaveAnalysis(r, t) ==
    /\ initialized
    /\ r \notin issued
    /\ analyses' = {a \in analyses : a.id # r /\ a.tx_hash # t}
                       \cup {[id |-> r, tx_hash |-> t]}
    /\ lastAnalysis' = [lastAnalysis EXCEPT ![t] = r]
    /\ issued' = issued \cup {r}
    /\ UNCHANGED <<initialized, alerts, copies, metrics, clock>>

(* get_analysis_by_tx: SELECT ... WHERE tx_hash = ? and fetchone(); the    *)
(* ids it may return.                                                      *)
GetAnalysisByTx(t) == {a.id : a \in {x \in analyses : x.tx_hash = t}}

(* get_analysis: SELECT ... WHERE id = ? and fetchone(); the rows it may  *)
(* return (none: the method returns None).                                 *)
GetAnalysis(r) == {a \in analyses : a.id = r}

(* save_metrics: a plain INSERT of a snapshot recorded now.                *)
SaveMetrics(m) ==
    /\ initialized
    /\ \A x \in metrics : x.id # m
    /\ metrics' = metrics \cup {[id |-> m, recorded_at |-> clock]}
    /\ UNCHANGED <<initialized, alerts, copies, analyses, lastAnalysis, issued, clock>>

(* Mutant: the modifier passed as f"+{days} days".                         *)
MetricsHistoryFutureCutoff(days) ==
    {x \in metrics : TextGeq(IsoFormat(x.recorded_at), SqliteDatetime(clock + 24 * days))}

(* get_metrics_history(days): recorded_at >= datetime('now', '-N days'),   *)
(* a comparison of the two texts.                                          *)
MetricsHistory(days) ==
    {x \in metrics : TextGeq(IsoFormat(x.recorded_at), SqliteDatetime(clock - 24 * days))}

(* Mutant: ORDER BY recorded_at ASC.                                        *)
GetLatestMetricsOldest ==
    {x \in metrics : \A y \in metrics : TextGeq(IsoFormat(y.recorded_at), IsoFormat(x.recorded_at))}

(* get_latest_metrics: ORDER BY recorded_at DESC LIMIT 1, an order on the *)
(* isoformat() text; the rows it may return (several on a tie, none on an *)
(* empty table).                                                           *)
GetLatestMetrics ==
    {x \in metrics : \A y \in metrics : TextGeq(IsoFormat(x.recorded_at), IsoFormat(y.recorded_at))}

(* Time passes.                                                            *)
Tick ==
    /\ clock + HourStep <= MaxHour
    /\ clock' = clock + HourStep
    /\ UNCHANGED <<initialized, alerts, copies, analyses, lastAnalysis, issued, metrics>>

Next ==
    \/ Initialize
    \/ \E i \in AlertIds : CreateAlert(i)
    \/ \E c \in Clients, i \in AlertIds : GetAlert(c, i)
    \/ \E c \in Clients, s \in Statuses, n \in Notes \cup {None} : SaveAlert(c, s, n)
    \/ \E i \in AlertIds, s \in Statuses, by \in Reviewers \cup {None}, n \in Notes \cup {None} :
           UpdateAlertStatus(i, s, by, n)
    \/ \E r \in RecordIds, t \in TxHashes : SaveAnalysis(r, t)
    \/ \E m \in MetricIds : SaveMetrics(m)
    \/ Tick

Spec == Init /\ [][Next]_vars

-----------------------------------------------------------------------------
TypeOK ==
    /\ initialized \in BOOLEAN
    /\ alerts \in [AlertIds -> AlertRow \cup {None}]
    /\ copies \in [Clients -> [id : AlertIds, row : AlertRow] \cup {None}]
    /\ analyses \subseteq [id : RecordIds, tx_hash : TxHashes]
    /\ lastAnalysis \in [TxHashes -> RecordIds \cup {None}]
    /\ issued \subseteq RecordIds
    /\ metrics \subseteq [id : MetricIds, recorded_at : StartHour..MaxHour]
    /\ clock \in StartHour..MaxHour

(* get_analysis_by_tx returns the record of the last save_analysis for     *)
(* that transaction, and only it, whatever order the saves of several      *)
(* transactions came in (the UNIQUE tx_hash and OR REPLACE together); and  *)
(* get_analysis finds a record by its own id exactly while it is the last  *)
(* one saved for its transaction.                                          *)
AnalysisByTxIsLatest ==
    /\ \A t \in TxHashes :
           lastAnalysis[t] # None => GetAnalysisByTx(t) = {lastAnalysis[t]}
    /\ \A r \in issued :
           GetAnalysis(r) # {} <=> \E t \in TxHashes : lastAnalysis[t] = r

(* get_metrics_history(days) returns every snapshot recorded in the last  *)
(* days days, whatever the clock has done since it was saved.              *)
MetricsHistoryComplete ==
    \A d \in HistoryDays : \A x \in metrics :
        x.recorded_at >= clock - 24 * d => x \in MetricsHistory(d)

(* The snapshot get_latest_metrics returns lies in every                    *)
(* get_metrics_history(days) window that holds any snapshot: the two reads *)
(* order the same stored text, one against another stored value, the      *)
(* other against SQLite's datetime() text.                                 *)
LatestMetricsInHistory ==
    \A d \in HistoryDays :
        MetricsHistory(d) # {} => GetLatestMetrics \subseteq MetricsHistory(d)
====
