--------------------------- MODULE EvidencePipeline ---------------------------
(***************************************************************************)
(* What a worker does with an event it has claimed: process_telemetry      *)
(* writes the event's samples, forecasts and scores its metrics against    *)
(* the samples on record, stores forecasts and anomalies, and files the    *)
(* serious ones as signals of incidents, each in a transaction of its own. *)
(* Workers stop, fail and lose leases between any two of them, and         *)
(* deliver an event again; the inserts keep the row that is there.         *)
(*                                                                         *)
(* The events are those of one node: every query filters by node.  What a  *)
(* signal does to an incident is IncidentLedger, how events are leased is  *)
(* PipelineQueue; here a claim takes any open event, since a lease may run *)
(* out at any time.  One piece of evidence of an event is a pair of its    *)
(* source and its metric.                                                  *)
(***************************************************************************)
EXTENDS Naturals, FiniteSets, RobustScore, TrendForecast

CONSTANTS
    Events,            \* of one node, by event id
    Payloads,          \* the telemetry an event may carry
    Scorable,          \* SCORABLE_METRICS
    Forecastable,      \* FORECAST_THRESHOLDS
    Threshold, Floor,  \* FORECAST_THRESHOLDS, MINIMUM_DISPERSION, per metric
    Workers, Null,
    Week,              \* how far back a history goes, in units of time
    BaselineLimit, ForecastLimit,
    MaxAttempts

Metrics == Scorable \cup Forecastable
Evidence == ({"forecast"} \X Forecastable) \cup ({"anomaly"} \X Scorable)
Bands == {"none", "watch", "warning", "critical"}
Statuses == {"absent", "open", "processed", "dead_letter"}
Steps == {"samples", "forecasts", "anomalies", "signals", "outcome"}

ASSUME EvidenceAssumption ==
    /\ Events \subseteq Nat
    /\ Payloads \subseteq [at : Nat, value : [Metrics -> Int]]
    /\ Threshold \in [Forecastable -> Int] /\ Floor \in [Scorable -> Nat]
    /\ Null \notin Payloads /\ Null \notin Events /\ Null \notin Workers
    /\ Week \in Nat /\ BaselineLimit \in Nat /\ ForecastLimit \in Nat /\ MaxAttempts \in Nat

VARIABLES
    payload,    \* of the events that are stored
    status,     \* of the event in the queue
    attempts,
    lease,      \* the worker whose outcome the queue takes, or Null
    sampled,    \* the events whose samples are on record
    derived,    \* per event: the forecasts and anomalies on record
    filed,      \* per event: the signals on record, with their severities
    job,        \* per worker: the event it processes, or Null
    step,       \* the transaction it is at
    todo,       \* the evidence it has yet to derive before that transaction
    result,     \* the evidence it has derived
    grown       \* the events whose history has changed since they were claimed

queue == <<payload, status, attempts, lease>>
tables == <<sampled, derived, filed>>
worker == <<job, step, todo, result>>
vars == <<queue, tables, worker, grown>>

Nothing == [x \in Evidence |-> "none"]
Of(source) == {x \in Evidence : x[1] = source}

TypeOK ==
    /\ payload \in [Events -> Payloads \cup {Null}]
    /\ status \in [Events -> Statuses]
    /\ attempts \in [Events -> Nat]
    /\ lease \in [Events -> Workers \cup {Null}]
    /\ sampled \subseteq Events
    /\ derived \in [Events -> [Evidence -> Bands]]
    /\ filed \in [Events -> [Evidence -> Bands \ {"watch"}]]
    /\ job \in [Workers -> Events \cup {Null}]
    /\ step \in [Workers -> Steps]
    /\ todo \in [Workers -> SUBSET Evidence]
    /\ result \in [Workers -> [Evidence -> Bands]]
    /\ grown \subseteq Events

Init ==
    /\ payload = [e \in Events |-> Null]
    /\ status = [e \in Events |-> "absent"]
    /\ attempts = [e \in Events |-> 0]
    /\ lease = [e \in Events |-> Null]
    /\ sampled = {}
    /\ derived = [e \in Events |-> Nothing]
    /\ filed = [e \in Events |-> Nothing]
    /\ job = [w \in Workers |-> Null]
    /\ step = [w \in Workers |-> "samples"]
    /\ todo = [w \in Workers |-> {}]
    /\ result = [w \in Workers |-> Nothing]
    /\ grown = {}

-----------------------------------------------------------------------------
(* The queue. *)

Store(e, p) ==
    /\ status[e] = "absent"
    /\ payload' = [payload EXCEPT ![e] = p]
    /\ status' = [status EXCEPT ![e] = "open"]
    /\ UNCHANGED <<attempts, lease, tables, worker, grown>>

Claim(w, e) ==
    /\ job[w] = Null /\ status[e] = "open"
    /\ attempts' = [attempts EXCEPT ![e] = @ + 1]
    /\ lease' = [lease EXCEPT ![e] = w]
    /\ job' = [job EXCEPT ![w] = e]
    /\ UNCHANGED <<payload, status, tables, step, todo, result, grown>>

Leave(w) ==
    /\ job' = [job EXCEPT ![w] = Null]
    /\ step' = [step EXCEPT ![w] = "samples"]
    /\ todo' = [todo EXCEPT ![w] = {}]
    /\ result' = [result EXCEPT ![w] = Nothing]

Settle(e, outcome) ==
    /\ status' = [status EXCEPT ![e] = outcome]
    /\ lease' = [lease EXCEPT ![e] = Null]
    /\ UNCHANGED <<payload, attempts>>

(* complete is an UPDATE ... WHERE leased_by = worker_id. *)
Complete(w) ==
    /\ job[w] # Null /\ step[w] = "outcome"
    /\ IF lease[job[w]] = w THEN Settle(job[w], "processed") ELSE UNCHANGED queue
    /\ Leave(w)
    /\ UNCHANGED <<tables, grown>>

(* The processor has raised: a storage error in any transaction.           *)
Fail(w) ==
    /\ job[w] # Null /\ step[w] # "outcome"
    /\ LET e == job[w]
       IN IF lease[e] = w
          THEN Settle(e, IF attempts[e] >= MaxAttempts THEN "dead_letter" ELSE "open")
          ELSE UNCHANGED queue
    /\ Leave(w)
    /\ UNCHANGED <<tables, grown>>

(* fail reads its row without a lock: what it has read before another      *)
(* worker claimed the event, it writes over the other worker's outcome:    *)
(* what it decided for some attempt before the last.                       *)
LateFail(w) ==
    /\ job[w] # Null /\ step[w] # "outcome"
    /\ LET e == job[w]
       IN /\ lease[e] # w
          /\ \/ MaxAttempts > 1 /\ Settle(e, "open")
             \/ attempts[e] > MaxAttempts /\ Settle(e, "dead_letter")
    /\ Leave(w)
    /\ UNCHANGED <<tables, grown>>

(* The worker dies.  The event is claimed again when its lease runs out. *)
Crash(w) ==
    /\ job[w] # Null
    /\ Leave(w)
    /\ UNCHANGED <<queue, tables, grown>>

-----------------------------------------------------------------------------
(* process_telemetry. *)

At(e) == payload[e].at
Value(e, m) == payload[e].value[m]

(* write_metric_samples: one INSERT of all the metrics of the event.       *)
WriteSamples(w) ==
    /\ job[w] # Null /\ step[w] = "samples"
    /\ LET e == job[w]
       IN /\ sampled' = sampled \cup {e}
          /\ grown' = grown \cup
                {d \in Events : attempts[d] > 0 /\ d # e /\ e \notin sampled /\ At(e) <= At(d)}
    /\ step' = [step EXCEPT ![w] = "forecasts"]
    /\ todo' = [todo EXCEPT ![w] = Of("forecast")]
    /\ UNCHANGED <<queue, derived, filed, job, result>>

(* query_recent_metric_samples: ORDER BY observed_at DESC, event_id DESC   *)
(* LIMIT limit.                                                            *)
Newer(d, e) == At(d) > At(e) \/ (At(d) = At(e) /\ d > e)
Newest(S, limit) == {e \in S : Cardinality({d \in S : Newer(d, e)}) < limit}

(* Mutant: the window has a start and no end. *)
WindowOpen(e, S, source) == {d \in S : d # e /\ At(d) + Week >= At(e)}

(* A baseline ends before the event, a forecast after it. *)
Window(e, S, source) ==
    {d \in S : /\ At(d) + Week >= At(e)
               /\ IF source = "forecast" THEN At(d) <= At(e) ELSE At(d) < At(e)}

(* What forecast_threshold or robust_anomaly_score makes of the history    *)
(* found in the samples S.                                                 *)
Verdict(e, x, S) ==
    LET m == x[2]
        past == Newest(Window(e, S, x[1]),
                       IF x[1] = "forecast" THEN ForecastLimit ELSE BaselineLimit)
    IN IF x[1] = "forecast"
       THEN Risk([d \in past |-> [at |-> At(d), y |-> Value(d, m)]], Threshold[m])
       ELSE Severity(Value(e, m), [d \in past |-> Value(d, m)], Floor[m])

(* Each metric's history is a SELECT of its own. *)
Derive(w, x) ==
    /\ job[w] # Null /\ x \in todo[w]
    /\ result' = [result EXCEPT ![w][x] = Verdict(job[w], x, sampled)]
    /\ todo' = [todo EXCEPT ![w] = @ \ {x}]
    /\ UNCHANGED <<queue, tables, job, step, grown>>

(* Mutants: the new row replaces the old one; one row that is there already *)
(* keeps out the whole statement.                                          *)
InsertReplace(old, new) == [x \in Evidence |-> IF new[x] # "none" THEN new[x] ELSE old[x]]
InsertAllOrNothing(old, new) ==
    IF \E x \in Evidence : old[x] # "none" /\ new[x] # "none" THEN old
    ELSE [x \in Evidence |-> IF old[x] = "none" THEN new[x] ELSE old[x]]

(* INSERT ... ON CONFLICT DO NOTHING *)
Insert(old, new) == [x \in Evidence |-> IF old[x] = "none" THEN new[x] ELSE old[x]]

Only(bands, source) == [x \in Evidence |-> IF x[1] = source THEN bands[x] ELSE "none"]

StoreForecasts(w) ==
    /\ job[w] # Null /\ step[w] = "forecasts" /\ todo[w] = {}
    /\ derived' = [derived EXCEPT ![job[w]] = Insert(@, Only(result[w], "forecast"))]
    /\ step' = [step EXCEPT ![w] = "anomalies"]
    /\ todo' = [todo EXCEPT ![w] = Of("anomaly")]
    /\ UNCHANGED <<queue, sampled, filed, job, result, grown>>

StoreAnomalies(w) ==
    /\ job[w] # Null /\ step[w] = "anomalies" /\ todo[w] = {}
    /\ derived' = [derived EXCEPT ![job[w]] = Insert(@, Only(result[w], "anomaly"))]
    /\ step' = [step EXCEPT ![w] = "signals"]
    /\ UNCHANGED <<queue, sampled, filed, job, todo, result, grown>>

(* A forecast that is far away is stored and is not a signal. *)
Serious(band) == IF band = "watch" THEN "none" ELSE band
Signals(bands) == [x \in Evidence |-> Serious(bands[x])]

(* record_incident_signals, and process_telemetry returns. *)
RecordSignals(w) ==
    /\ job[w] # Null /\ step[w] = "signals"
    /\ filed' = [filed EXCEPT ![job[w]] = Insert(@, Signals(result[w]))]
    /\ step' = [step EXCEPT ![w] = "outcome"]
    /\ UNCHANGED <<queue, sampled, derived, job, todo, result, grown>>

-----------------------------------------------------------------------------
Next ==
    \/ \E e \in Events, p \in Payloads : Store(e, p)
    \/ \E w \in Workers :
          \/ \E e \in Events : Claim(w, e)
          \/ WriteSamples(w)
          \/ \E x \in Evidence : Derive(w, x)
          \/ StoreForecasts(w) \/ StoreAnomalies(w) \/ RecordSignals(w)
          \/ Complete(w) \/ Fail(w) \/ LateFail(w) \/ Crash(w)

Spec == Init /\ [][Next]_vars

-----------------------------------------------------------------------------
(* Every signal an incident counts is backed by a forecast or an anomaly   *)
(* on record, whichever attempts, of whichever workers, stored the two.    *)
SignalsBacked ==
    \A e \in Events, x \in Evidence :
        filed[e][x] # "none" => derived[e][x] # "none"

(* What is on record of an event, and what its incidents have been told.   *)
Agree(e) == filed[e] = Signals(derived[e])

(* An event that was processed in one attempt, or whose history did not    *)
(* change between its attempts, has told its incidents exactly what is on  *)
(* record, however its workers failed, stopped and overtook each other:    *)
(* for those events process_telemetry is idempotent.                       *)
RetriesIdempotent ==
    \A e \in Events :
        status[e] = "processed" /\ (attempts[e] = 1 \/ e \notin grown) => Agree(e)

(* Workers "persist derived risk signals idempotently" (sqlalchemy.py:320): *)
(* once an event is processed, and no worker is at it any more, its serious *)
(* findings have reached incidents.                                        *)
FindingsReachIncidents ==
    \A e \in Events, x \in Evidence :
        /\ status[e] = "processed" /\ \A w \in Workers : job[w] # e
        /\ derived[e][x] \in {"warning", "critical"}
        => filed[e][x] # "none"

(* What was found first stands: no attempt changes or removes a row of any *)
(* of the tables.                                                          *)
EvidenceStands ==
    [][\A e \in Events, x \in Evidence :
          /\ derived[e][x] # "none" => derived'[e][x] = derived[e][x]
          /\ filed[e][x] # "none" => filed'[e][x] = filed[e][x]]_vars
=============================================================================
